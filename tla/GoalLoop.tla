------------------------------ MODULE GoalLoop ------------------------------
(***************************************************************************)
(* The goal loop of internal/control/controller.go: a turn, then           *)
(* continueGoal runs further turns as long as advanceGoalAfterTurn says so. *)
(* The loop runs on the turn's goroutine; frontends set, clear and cancel  *)
(* the goal from others.  A region under c.mu is one action; the judge     *)
(* call runs between two regions.                                          *)
(***************************************************************************)
EXTENDS Naturals

CONSTANTS Goals,            \* goal texts
          NoGoal,           \* the empty goal
          Reasons,          \* reasons of [goal:blocked:...], normalised and not empty
          maxGoalAutoTurns, \* 50 in the code
          Judge,            \* a goal judge is configured (boot.go always does)
          AllowStrict,      \* a frontend may call SetGoalStrict
          MaxSets,          \* how often a frontend sets or clears the goal (bound)
          MaxTurns          \* turns of one goal: only a strict goal gets here (bound)

ASSUME NoGoalAssumption == NoGoal \notin Goals
ASSUME LimitAssumption == maxGoalAutoTurns \in Nat \ {0}
ASSUME ReasonsAssumption == Reasons \cap {"unsaid", "none", "continue", "complete", "unset"} = {}
ASSUME OptionsAssumption == Judge \in BOOLEAN /\ AllowStrict \in BOOLEAN /\ MaxSets \in Nat
ASSUME BoundAssumption == MaxTurns \in Nat /\ MaxTurns > maxGoalAutoTurns

maxGoalIdleTurns == 2
goalBlockLimit == 3

VARIABLES
    goal,       \* c.goal
    status,     \* c.goalStatus
    turns,      \* c.goalTurns
    blocks,     \* c.goalBlocks
    block,      \* c.goalBlock
    idle,       \* c.goalIdleTurns
    strict,     \* c.goalStrict
    mu,         \* c.mu between two regions: free, or held by the loop's goroutine
    pc,         \* where the loop stands
    cancelled,  \* the turn's context is done
    subject,    \* the goal the judge is asked about, or NoGoal
    last,       \* what the history shows: marker of the last text, calls of the last message
    worked,     \* the history has a tool call
    said,       \* the markers counted since the goal was set, latest first (history)
    quiet,      \* how many turns in a row, up to two, called no tool (history)
    workedFor,  \* a tool was called since the goal was set (history)
    sets        \* SetGoal calls so far (bound)

goalVars == <<goal, status, turns, blocks, block, idle>>
sessionVars == <<last, worked>>
historyVars == <<said, quiet, workedFor>>
vars == <<goalVars, strict, mu, pc, cancelled, subject, sessionVars, historyVars, sets>>

Markers == {"none", "continue", "complete"} \cup Reasons
BlockTexts == Reasons \cup {"unset", "idle", "limit"}

TypeOK ==
    /\ goal \in Goals \cup {NoGoal}
    /\ status \in {"unset", "running", "complete", "blocked", "stopped"}
    /\ turns \in Nat
    /\ blocks \in 0..goalBlockLimit
    /\ block \in BlockTexts
    /\ idle \in 0..maxGoalIdleTurns
    /\ strict \in BOOLEAN
    /\ mu \in {"free", "loop"}
    /\ pc \in {"idle", "turn", "advance", "judging", "confirm", "check"}
    /\ cancelled \in BOOLEAN
    /\ subject \in Goals \cup {NoGoal}
    /\ last \in [marker : Markers, calls : BOOLEAN]
    /\ worked \in BOOLEAN
    /\ said \in [1..3 -> Markers \cup {"unsaid"}]
    /\ quiet \in 0..2
    /\ workedFor \in BOOLEAN
    /\ sets \in 0..MaxSets

Init ==
    /\ goal = NoGoal
    /\ status = "unset"
    /\ turns = 0
    /\ blocks = 0
    /\ block = "unset"
    /\ idle = 0
    /\ strict = FALSE
    /\ mu = "free"
    /\ pc = "idle"
    /\ cancelled = FALSE
    /\ subject = NoGoal
    /\ last = [marker |-> "none", calls |-> FALSE]
    /\ worked = FALSE
    /\ said = [i \in 1..3 |-> "unsaid"]
    /\ quiet = 0
    /\ workedFor = FALSE
    /\ sets = 0

GoalActive == goal # NoGoal /\ status = "running"

Latest(marker) == [i \in 1..3 |-> IF i = 1 THEN marker ELSE said[i - 1]]

Quieter(tools) == IF tools THEN 0 ELSE IF quiet = 2 THEN 2 ELSE quiet + 1

-----------------------------------------------------------------------------
(* The frontends' goroutines.                                              *)

\* Variant: a new goal keeps the blocked audit of the last one.
SetGoalKeepsAudit(g) ==
    /\ mu = "free"
    /\ sets < MaxSets
    /\ sets' = sets + 1
    /\ goal' = g
    /\ status' = IF g = NoGoal THEN "stopped" ELSE "running"
    /\ turns' = 0
    /\ idle' = 0
    /\ said' = [i \in 1..3 |-> "unsaid"]
    /\ quiet' = 0
    /\ workedFor' = FALSE
    /\ UNCHANGED <<blocks, block, strict, mu, pc, cancelled, subject, sessionVars>>

\* SetGoal; setting the running goal again changes nothing.
SetGoal(g) ==
    /\ mu = "free"
    /\ sets < MaxSets
    /\ ~(g # NoGoal /\ g = goal /\ status = "running")
    /\ sets' = sets + 1
    /\ goal' = g
    /\ status' = IF g = NoGoal THEN "stopped" ELSE "running"
    /\ turns' = 0
    /\ blocks' = 0
    /\ block' = "unset"
    /\ idle' = 0
    /\ said' = [i \in 1..3 |-> "unsaid"]
    /\ quiet' = 0
    /\ workedFor' = FALSE
    /\ UNCHANGED <<strict, mu, pc, cancelled, subject, sessionVars>>

SetGoalStrict(on) ==
    /\ AllowStrict
    /\ mu = "free"
    /\ strict' = on
    /\ UNCHANGED <<goalVars, mu, pc, cancelled, subject, sessionVars, historyVars, sets>>

\* Cancel reads c.cancel under c.mu.
Cancel ==
    /\ mu = "free"
    /\ pc # "idle"
    /\ cancelled' = TRUE
    /\ UNCHANGED <<goalVars, strict, mu, pc, subject, sessionVars, historyVars, sets>>

\* runGuarded admits a prompt whose body is runGoalLoopWithRawDisplay.
Begin ==
    /\ mu = "free"
    /\ pc = "idle"
    /\ pc' = "turn"
    /\ cancelled' = FALSE
    /\ UNCHANGED <<goalVars, strict, mu, subject, sessionVars, historyVars, sets>>

-----------------------------------------------------------------------------
(* A turn.                                                                 *)

\* Run returned nil: the last assistant message is the final answer, the one
\* without tool calls, whatever the earlier rounds of the turn called.
TurnAnswers(marker, tools) ==
    /\ pc = "turn"
    /\ last' = [marker |-> marker, calls |-> FALSE]
    /\ worked' = (worked \/ tools)
    /\ quiet' = Quieter(tools)
    /\ workedFor' = (workedFor \/ tools)
    /\ pc' = "advance"
    /\ UNCHANGED <<goalVars, strict, mu, cancelled, subject, said, sets>>

\* A UserPromptSubmit hook blocks the prompt: the turn returns nil, the
\* history is the one of an earlier turn.
TurnHookBlocked ==
    /\ pc = "turn"
    /\ quiet' = Quieter(FALSE)
    /\ pc' = "advance"
    /\ UNCHANGED <<goalVars, strict, mu, cancelled, subject, sessionVars, said, workedFor, sets>>

\* stopGoal(GoalStatusStopped)
Stopped == IF GoalActive THEN "stopped" ELSE status

\* Run failed or was cancelled, possibly after tool rounds; a cancelled
\* context stops the goal and the loop ends.
TurnFails(tools) ==
    /\ pc = "turn"
    /\ mu = "free"
    /\ last' = IF tools THEN [last EXCEPT !.calls = TRUE] ELSE last
    /\ worked' = (worked \/ tools)
    /\ quiet' = Quieter(tools)
    /\ workedFor' = (workedFor \/ tools)
    /\ status' = IF cancelled THEN Stopped ELSE status
    /\ pc' = "idle"
    /\ UNCHANGED <<goal, turns, blocks, block, idle, strict, mu, cancelled, subject, said, sets>>

-----------------------------------------------------------------------------
(* advanceGoalAfterTurn.                                                   *)

LimitReached(n) == n >= maxGoalAutoTurns

\* The end of the region: a goal that is not stopped yet is out of turns, or
\* goes on.
Concludes(st, b) ==
    IF st # "running" THEN status' = st /\ block' = b /\ pc' = "idle"
    ELSE IF LimitReached(turns') THEN status' = "blocked" /\ block' = "limit" /\ pc' = "idle"
    ELSE status' = st /\ block' = b /\ pc' = "check"

\* The user cleared or replaced the goal, or it never ran.
NoActiveGoal ==
    /\ pc = "advance"
    /\ mu = "free"
    /\ ~GoalActive
    /\ pc' = "idle"
    /\ UNCHANGED <<goalVars, strict, mu, cancelled, subject, sessionVars, historyVars, sets>>

Advances ==
    /\ pc = "advance"
    /\ mu = "free"
    /\ GoalActive
    /\ turns' = turns + 1
    /\ said' = Latest(last.marker)
    /\ UNCHANGED <<goal, strict, mu, cancelled, sessionVars, quiet, workedFor, sets>>

\* [goal:complete]: the judge first, when there is one.
AdvanceComplete ==
    /\ last.marker = "complete"
    /\ Advances
    /\ subject' = goal
    /\ pc' = IF Judge THEN "judging" ELSE "confirm"
    /\ UNCHANGED <<status, blocks, block, idle>>

\* Variant: the blocked branch does not count the turn.
AdvanceBlockedUncounted ==
    /\ last.marker \in Reasons
    /\ pc = "advance" /\ mu = "free" /\ GoalActive
    /\ blocks' = IF block = last.marker THEN blocks + 1 ELSE 1
    /\ idle' = 0
    /\ turns' = turns
    /\ said' = Latest(last.marker)
    /\ Concludes(IF blocks' >= goalBlockLimit THEN "blocked" ELSE "running", last.marker)
    /\ UNCHANGED <<goal, strict, mu, cancelled, sessionVars, quiet, workedFor, sets, subject>>

\* [goal:blocked:reason]: the third time in a row it is taken seriously.
AdvanceBlocked ==
    /\ last.marker \in Reasons
    /\ Advances
    /\ blocks' = IF block = last.marker THEN blocks + 1 ELSE 1
    /\ idle' = 0
    /\ Concludes(IF blocks' >= goalBlockLimit THEN "blocked" ELSE "running", last.marker)
    /\ UNCHANGED subject

\* No marker, or [goal:continue]: the idle audit, and afterwards the reset
\* every marker gets.
AdvanceDefault ==
    /\ last.marker \in {"none", "continue"}
    /\ Advances
    /\ blocks' = 0
    /\ LET n == IF last.calls THEN 0 ELSE idle + 1
           stalled == n >= maxGoalIdleTurns
       IN /\ idle' = IF last.marker = "continue" THEN 0 ELSE n
          /\ Concludes(IF stalled THEN "blocked" ELSE "running", IF stalled THEN "idle" ELSE "unset")
    /\ UNCHANGED subject

\* The judge runs without c.mu, under the turn's context.
JudgeAccepts ==
    /\ pc = "judging"
    /\ pc' = "confirm"
    /\ UNCHANGED <<goalVars, strict, mu, cancelled, subject, sessionVars, historyVars, sets>>

\* It rejects the goal, fails or is cancelled: c.mu is taken and kept.
JudgeRejects ==
    /\ pc = "judging"
    /\ mu = "free"
    /\ mu' = "loop"
    /\ pc' = "check"
    /\ subject' = NoGoal
    /\ UNCHANGED <<goalVars, strict, cancelled, sessionVars, historyVars, sets>>

\* Variant: no second look at the goal after the judge call.
ConfirmCompleteUnchecked ==
    /\ pc = "confirm"
    /\ mu = "free"
    /\ ~(strict /\ ~worked)
    /\ goal' = NoGoal
    /\ status' = "complete"
    /\ blocks' = 0
    /\ block' = "unset"
    /\ idle' = 0
    /\ pc' = "idle"
    /\ subject' = NoGoal
    /\ UNCHANGED <<turns, strict, mu, cancelled, sessionVars, historyVars, sets>>

\* c.mu again and a second look at the goal.
ConfirmComplete ==
    /\ pc = "confirm"
    /\ mu = "free"
    /\ GoalActive
    /\ ~(strict /\ ~worked)
    /\ goal' = NoGoal
    /\ status' = "complete"
    /\ blocks' = 0
    /\ block' = "unset"
    /\ idle' = 0
    /\ pc' = "idle"
    /\ subject' = NoGoal
    /\ UNCHANGED <<turns, strict, mu, cancelled, sessionVars, historyVars, sets>>

\* A strict goal without tool work goes on, whatever goalTurns says.
ConfirmStrict ==
    /\ pc = "confirm"
    /\ mu = "free"
    /\ GoalActive
    /\ strict
    /\ ~worked
    /\ blocks' = 0
    /\ block' = "unset"
    /\ idle' = 0
    /\ pc' = "check"
    /\ subject' = NoGoal
    /\ UNCHANGED <<goal, status, turns, strict, mu, cancelled, sessionVars, historyVars, sets>>

ConfirmGone ==
    /\ pc = "confirm"
    /\ mu = "free"
    /\ ~GoalActive
    /\ pc' = "idle"
    /\ subject' = NoGoal
    /\ UNCHANGED <<goalVars, strict, mu, cancelled, sessionVars, historyVars, sets>>

\* continueGoal: the next turn, whose first step locks c.mu, ...
NextTurn ==
    /\ pc = "check"
    /\ mu = "free"
    /\ ~cancelled
    /\ turns < MaxTurns
    /\ pc' = "turn"
    /\ UNCHANGED <<goalVars, strict, mu, cancelled, subject, sessionVars, historyVars, sets>>

\* Variant: the loop ends on a cancelled context and leaves the goal running.
EndCancelledKeepsGoal ==
    /\ pc = "check"
    /\ mu = "free"
    /\ cancelled
    /\ pc' = "idle"
    /\ UNCHANGED <<goalVars, strict, mu, cancelled, subject, sessionVars, historyVars, sets>>

\* ... or the end of a cancelled loop, which stops the goal.
EndCancelled ==
    /\ pc = "check"
    /\ mu = "free"
    /\ cancelled
    /\ status' = Stopped
    /\ pc' = "idle"
    /\ UNCHANGED <<goal, turns, blocks, block, idle, strict, mu, cancelled, subject, sessionVars, historyVars, sets>>

-----------------------------------------------------------------------------
TurnStep ==
    \/ \E m \in Markers, tools \in BOOLEAN : TurnAnswers(m, tools)
    \/ TurnHookBlocked
    \/ \E tools \in BOOLEAN : TurnFails(tools)

LoopStep ==
    \/ NoActiveGoal
    \/ AdvanceComplete
    \/ AdvanceBlocked
    \/ AdvanceDefault
    \/ JudgeAccepts
    \/ JudgeRejects
    \/ ConfirmComplete
    \/ ConfirmStrict
    \/ ConfirmGone
    \/ NextTurn
    \/ EndCancelled

Next ==
    \/ Begin
    \/ Cancel
    \/ \E g \in Goals \cup {NoGoal} : SetGoal(g)
    \/ \E on \in BOOLEAN : SetGoalStrict(on)
    \/ TurnStep
    \/ LoopStep

Spec == Init /\ [][Next]_vars

\* The loop's goroutine runs, and a turn ends: its provider calls time out
\* and its steps are bounded (TurnLifecycle).
FairSpec == Spec /\ WF_vars(TurnStep) /\ WF_vars(LoopStep)

-----------------------------------------------------------------------------
(* Properties.                                                             *)

\* A goal stops as blocked only with cause: the same reason three replies in
\* a row, two replies in a row that neither block nor complete,
\* all of them since this goal was set, or its turns are used up.
BlockedForCause ==
    [][ status = "running" /\ status' = "blocked" =>
          \/ \E r \in Reasons : \A i \in 1..3 : said'[i] = r
          \/ \A i \in 1..2 : said'[i] \in {"none", "continue"}
          \/ turns' >= maxGoalAutoTurns ]_vars

\* No turn runs for a goal whose maxGoalAutoTurns turns are used up, whichever
\* way back into the loop it takes; the rejection of a strict goal's completion
\* is the one way that does not look at the limit (StrictBudget).
TurnBudget ==
    pc = "turn" /\ GoalActive => turns < maxGoalAutoTurns \/ said[1] = "complete"

\* A cleared goal is not revived or declared complete by a loop that still
\* works on it; only a frontend sets a goal.
ClearedStaysCleared ==
    [][ goal = NoGoal => \/ goal' = NoGoal /\ status' \in {status, "stopped"}
                         \/ goal' \in Goals /\ status' = "running" /\ turns' = 0 ]_vars

\* A loop that ends with its context cancelled leaves no running goal that
\* the next prompt would silently resume.
CancelStopsGoal ==
    [][ pc # "idle" /\ pc' = "idle" /\ cancelled => status' # "running" \/ goal' = NoGoal ]_vars

\* The loop ends: the budget of turns, the audits or the user end it.  Two
\* courses are excepted: the rejection that keeps c.mu
\* (JudgeRejectionContinues) and a strict goal past its budget (StrictBudget).
GoalLoopEnds ==
    pc # "idle" ~> pc = "idle" \/ mu = "loop" \/ turns >= maxGoalAutoTurns

(* What comments of the code say and the code does not do.                 *)

\* "call a separate model to confirm the goal is actually complete": the goal
\* that completes is the one the judge was asked about.
JudgeSawGoal == [][ status = "running" /\ status' = "complete" => subject = goal ]_vars

\* "Continue the goal loop": after a rejection the next turn starts.
JudgeRejectionContinues == pc = "check" ~> pc \in {"turn", "idle"}

\* "Any tool activity or a marker-bearing reply resets the counter."
WorkIsNotIdle ==
    [][ status = "running" /\ status' = "blocked" /\ block' = "idle" =>
          quiet = 2 /\ \A i \in 1..2 : said'[i] = "none" ]_vars

\* "goal continuation limit reached": a strict goal has the same limit.
StrictBudget == pc = "turn" /\ GoalActive => turns < maxGoalAutoTurns

\* "a goal may not be declared complete unless the agent did actual
\* tool-backed work toward it".
StrictNeedsWork == [][ status = "running" /\ status' = "complete" /\ strict => workedFor ]_vars
=============================================================================
