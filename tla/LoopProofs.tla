----------------------------- MODULE LoopProofs -----------------------------
(***************************************************************************)
(* What drives the agent's loop: the goal that starts turns, the pause     *)
(* that holds one, and the tool calls a turn makes, for every number of    *)
(* goals, turns, calls and steps.  The three share no variable.            *)
(***************************************************************************)
EXTENDS GoalLoop, PauseResume, ToolBatch, FiniteSetTheorems, WellFoundedInduction, TLAPS

-----------------------------------------------------------------------------
(* The goal loop.                                                          *)

Phases == {"idle", "turn", "advance", "judging", "confirm", "check"}

\* The parts of TypeOK with the flags left out.
CountsOK ==
    /\ goal \in Goals \cup {NoGoal}
    /\ status \in {"unset", "running", "complete", "blocked", "stopped"}
    /\ turns \in Nat
    /\ blocks \in 0..goalBlockLimit
    /\ block \in BlockTexts
    /\ idle \in 0..maxGoalIdleTurns
    /\ mu \in {"free", "loop"}
    /\ pc \in Phases
    /\ subject \in Goals \cup {NoGoal}
    /\ last.marker \in Markers
    /\ said \in [1..3 -> Markers \cup {"unsaid"}]
    /\ quiet \in 0..2
    /\ sets \in 0..MaxSets

FlagsOK ==
    /\ strict \in BOOLEAN
    /\ cancelled \in BOOLEAN
    /\ worked \in BOOLEAN
    /\ workedFor \in BOOLEAN
    /\ last \in [marker : Markers, calls : BOOLEAN]

\* While a goal runs, no audit has reached its limit, and its turns are not
\* used up unless its last reply claimed completion.
Limits ==
    GoalActive => /\ blocks < goalBlockLimit
                  /\ idle < maxGoalIdleTurns
                  /\ turns < maxGoalAutoTurns \/ said[1] = "complete"

\* The audits count what was said.  While a completion is looked at they are
\* behind, and so they are after a rejection, which keeps c.mu.
Audits ==
    GoalActive /\ pc \notin {"judging", "confirm"} /\ mu = "free" =>
        /\ blocks > 0 => block \in Reasons
        /\ \A i \in 1..blocks : said[i] = block
        /\ \A i \in 1..idle : said[i] \in {"none", "continue"}

GoalInv == CountsOK /\ FlagsOK /\ Limits /\ Audits

LEMMA GoalInvInit == Init => GoalInv
<1> SUFFICES ASSUME Init PROVE GoalInv
  OBVIOUS
<1>1. CountsOK
  BY OptionsAssumption DEF Init, CountsOK, goalBlockLimit, maxGoalIdleTurns, BlockTexts, Markers, Phases
<1>2. FlagsOK
  BY DEF Init, FlagsOK, Markers
<1>3. Limits /\ Audits
  BY DEF Init, Limits, Audits, GoalActive
<1>4. QED
  BY <1>1, <1>2, <1>3 DEF GoalInv

LEMMA LatestShifts ==
    ASSUME NEW m \in Markers, said \in [1..3 -> Markers \cup {"unsaid"}]
    PROVE  /\ Latest(m) \in [1..3 -> Markers \cup {"unsaid"}]
           /\ Latest(m)[1] = m /\ Latest(m)[2] = said[1] /\ Latest(m)[3] = said[2]
BY DEF Latest

LEMMA FlagsStep ==
    ASSUME FlagsOK, [Next]_vars
    PROVE  FlagsOK'
<1> USE DEF FlagsOK, goalVars, sessionVars, historyVars
<1>1. ASSUME NEW m \in Markers, NEW tools \in BOOLEAN, TurnAnswers(m, tools) PROVE FlagsOK'
  BY <1>1 DEF TurnAnswers
<1>2. ASSUME NEW tools \in BOOLEAN, TurnFails(tools) PROVE FlagsOK'
  BY <1>2 DEF TurnFails
<1>3. ASSUME NEW on \in BOOLEAN, SetGoalStrict(on) PROVE FlagsOK'
  BY <1>3 DEF SetGoalStrict
<1>4. ASSUME NEW g \in Goals \cup {NoGoal}, SetGoal(g) PROVE FlagsOK'
  BY <1>4 DEF SetGoal
<1>5. CASE Begin \/ Cancel \/ TurnHookBlocked
  BY <1>5 DEF Begin, Cancel, TurnHookBlocked
<1>6. CASE LoopStep
  BY <1>6 DEF LoopStep, NoActiveGoal, Advances, AdvanceComplete, AdvanceBlocked, AdvanceDefault, JudgeAccepts,
              JudgeRejects, ConfirmComplete, ConfirmStrict, ConfirmGone, NextTurn, EndCancelled
<1>7. CASE UNCHANGED vars
  BY <1>7 DEF vars
<1>8. QED
  BY <1>1, <1>2, <1>3, <1>4, <1>5, <1>6, <1>7 DEF Next, TurnStep

LEMMA GoalInvStep ==
    ASSUME GoalInv, [Next]_vars
    PROVE  GoalInv'
<1> USE LimitAssumption, NoGoalAssumption
    DEF GoalInv, CountsOK, goalBlockLimit, maxGoalIdleTurns, BlockTexts, Phases, GoalActive,
        goalVars, sessionVars, historyVars
<1> DEFINE Rest == CountsOK' /\ Limits' /\ Audits'
<1> SUFFICES Rest
  BY FlagsStep
<1>1. ASSUME NEW g \in Goals \cup {NoGoal}, SetGoal(g) PROVE Rest
  <2>1. CountsOK' /\ blocks' = 0 /\ idle' = 0 /\ turns' = 0
    BY <1>1, OptionsAssumption DEF SetGoal
  <2>2. QED
    BY <2>1 DEF Limits, Audits
<1>2. ASSUME \/ Begin \/ Cancel \/ NoActiveGoal \/ NextTurn
             \/ \E on \in BOOLEAN : SetGoalStrict(on)
      PROVE  Rest
  <2>1. /\ UNCHANGED <<goalVars, said, mu, subject, last, quiet, sets>>
        /\ pc' \in Phases
        /\ pc' \in {"judging", "confirm"} <=> pc \in {"judging", "confirm"}
    BY <1>2 DEF Begin, Cancel, NoActiveGoal, NextTurn, SetGoalStrict
  <2>2. QED
    BY <2>1 DEF Limits, Audits
<1>3. ASSUME NEW m \in Markers, NEW tools \in BOOLEAN, TurnAnswers(m, tools) PROVE Rest
  BY <1>3 DEF TurnAnswers, Quieter, Limits, Audits
<1>4. CASE TurnHookBlocked
  BY <1>4 DEF TurnHookBlocked, Quieter, Limits, Audits
<1>5. ASSUME NEW tools \in BOOLEAN, TurnFails(tools) PROVE Rest
  <2>1. last'.marker = last.marker
    BY <1>5 DEF TurnFails, FlagsOK
  <2>2. QED
    BY <1>5, <2>1 DEF TurnFails, Quieter, Stopped, Limits, Audits
<1>6. CASE AdvanceComplete
  <2>1. /\ last.marker = "complete" /\ GoalActive /\ turns' = turns + 1 /\ said' = Latest("complete")
        /\ UNCHANGED <<goal, status, blocks, block, idle, mu, last, quiet, sets>>
        /\ subject' = goal /\ pc' \in {"judging", "confirm"}
    BY <1>6 DEF AdvanceComplete, Advances
  <2>2. "complete" \in Markers
    BY <2>1
  <2>3. QED
    BY <2>1, <2>2, LatestShifts DEF Limits, Audits
<1>7. CASE AdvanceBlocked
  <2>1. /\ last.marker \in Reasons /\ last.marker \in Markers /\ GoalActive /\ mu = "free" /\ pc = "advance"
        /\ turns' = turns + 1 /\ said' = Latest(last.marker)
        /\ UNCHANGED <<goal, mu, last, quiet, sets, subject>>
        /\ blocks' = (IF block = last.marker THEN blocks + 1 ELSE 1)
        /\ idle' = 0
        /\ Concludes(IF blocks' >= goalBlockLimit THEN "blocked" ELSE "running", last.marker)
    BY <1>7 DEF AdvanceBlocked, Advances
  <2>2. /\ said' \in [1..3 -> Markers \cup {"unsaid"}]
        /\ said'[1] = last.marker /\ said'[2] = said[1] /\ said'[3] = said[2]
    BY <2>1, LatestShifts
  <2>3. blocks' \in 0..3 /\ blocks < 3
    BY <2>1 DEF Limits
  <2>4. /\ status' \in {"running", "blocked"}
        /\ block' \in {last.marker, "limit"}
        /\ pc' \in {"idle", "check"}
        /\ status' = "running" => blocks' < 3 /\ turns' < maxGoalAutoTurns /\ block' = last.marker
    BY <2>1 DEF Concludes, LimitReached
  <2>5. CountsOK'
    BY <2>1, <2>2, <2>3, <2>4
  <2>6. Limits'
    BY <2>1, <2>4 DEF Limits
  <2>7. \A i \in 1..blocks' : said'[i] = last.marker
    BY <2>1, <2>2, <2>3 DEF Audits
  <2>8. Audits'
    BY <2>1, <2>4, <2>7 DEF Audits
  <2>9. QED
    BY <2>5, <2>6, <2>8
<1>8. CASE AdvanceDefault
  <2> DEFINE n == IF last.calls THEN 0 ELSE idle + 1
  <2>1. /\ last.marker \in {"none", "continue"} /\ GoalActive /\ mu = "free" /\ pc = "advance"
        /\ turns' = turns + 1 /\ said' = Latest(last.marker)
        /\ UNCHANGED <<goal, mu, last, quiet, sets, subject>>
        /\ blocks' = 0
        /\ idle' = (IF last.marker = "continue" THEN 0 ELSE n)
        /\ Concludes(IF n >= maxGoalIdleTurns THEN "blocked" ELSE "running", IF n >= maxGoalIdleTurns THEN "idle" ELSE "unset")
    BY <1>8 DEF AdvanceDefault, Advances
  <2>2. /\ said' \in [1..3 -> Markers \cup {"unsaid"}]
        /\ said'[1] = last.marker /\ said'[2] = said[1] /\ said'[3] = said[2]
    BY <2>1, LatestShifts DEF Markers
  <2>3. n \in 0..2 /\ idle < 2 /\ idle' \in {0, n} /\ n \in {0, idle + 1}
    BY <2>1 DEF Limits
  <2>4. /\ status' \in {"running", "blocked"}
        /\ block' \in {"unset", "idle", "limit"}
        /\ pc' \in {"idle", "check"}
        /\ status' = "running" => n < 2 /\ turns' < maxGoalAutoTurns
    BY <2>1, <2>3 DEF Concludes, LimitReached
  <2>5. CountsOK'
    BY <2>1, <2>2, <2>3, <2>4
  <2>6. Limits'
    BY <2>1, <2>3, <2>4 DEF Limits
  <2>7. \A i \in 1..idle' : said'[i] \in {"none", "continue"}
    BY <2>1, <2>2, <2>3 DEF Audits
  <2>8. Audits'
    BY <2>1, <2>7 DEF Audits
  <2>9. QED
    BY <2>5, <2>6, <2>8
<1>9. CASE JudgeAccepts \/ JudgeRejects \/ ConfirmGone
  BY <1>9 DEF JudgeAccepts, JudgeRejects, ConfirmGone, Limits, Audits
<1>10. CASE ConfirmComplete
  BY <1>10 DEF ConfirmComplete, Limits, Audits
<1>11. CASE ConfirmStrict
  BY <1>11 DEF ConfirmStrict, Limits, Audits
<1>12. CASE EndCancelled
  BY <1>12 DEF EndCancelled, Stopped, Limits, Audits
<1>13. CASE UNCHANGED vars
  BY <1>13 DEF vars, Limits, Audits
<1>14. QED
  BY <1>1, <1>2, <1>3, <1>4, <1>5, <1>6, <1>7, <1>8, <1>9, <1>10, <1>11, <1>12, <1>13 DEF Next, TurnStep, LoopStep
LEMMA GoalInvariance == Spec => []GoalInv
BY GoalInvInit, GoalInvStep, PTL DEF Spec

\* Every reachable state has the shape TypeOK gives it.
THEOREM GoalTypes == Spec => []TypeOK
<1>1. GoalInv => TypeOK
  BY DEF GoalInv, CountsOK, FlagsOK, TypeOK, Phases
<1>2. QED
  BY <1>1, GoalInvariance, PTL

\* Whatever way a turn is entered, the goal it works for has turns left, but
\* for the strict goal whose completion was rejected.
THEOREM TurnsAreBudgeted == Spec => []TurnBudget
<1>1. GoalInv => TurnBudget
  BY DEF GoalInv, Limits, TurnBudget
<1>2. QED
  BY <1>1, GoalInvariance, PTL

\* The audits never block a goal on what was said of another goal, or with
\* other replies in between.
LEMMA BlockedStep ==
    ASSUME GoalInv, [Next]_vars, status = "running", status' = "blocked"
    PROVE  \/ \E r \in Reasons : \A i \in 1..3 : said'[i] = r
           \/ \A i \in 1..2 : said'[i] \in {"none", "continue"}
           \/ turns' >= maxGoalAutoTurns
<1> USE DEF GoalInv, CountsOK, goalBlockLimit, maxGoalIdleTurns, goalVars, sessionVars, historyVars
<1>1. CASE AdvanceBlocked
  <2>1. /\ last.marker \in Reasons /\ last.marker \in Markers /\ GoalActive /\ mu = "free" /\ pc = "advance"
        /\ said' = Latest(last.marker)
        /\ blocks' = (IF block = last.marker THEN blocks + 1 ELSE 1)
        /\ Concludes(IF blocks' >= goalBlockLimit THEN "blocked" ELSE "running", last.marker)
    BY <1>1 DEF AdvanceBlocked, Advances
  <2>2. said'[1] = last.marker /\ said'[2] = said[1] /\ said'[3] = said[2]
    BY <2>1, LatestShifts
  <2>3. blocks' >= 3 \/ turns' >= maxGoalAutoTurns
    BY <2>1 DEF Concludes, LimitReached
  <2>4. CASE blocks' >= 3
    <3>1. block = last.marker /\ blocks = 2
      BY <2>1, <2>4 DEF Limits
    <3>2. \A i \in 1..3 : said'[i] = last.marker
      BY <2>1, <2>2, <3>1 DEF Audits
    <3>3. QED
      BY <2>1, <3>2
  <2>5. QED
    BY <2>3, <2>4
<1>2. CASE AdvanceDefault
  <2> DEFINE n == IF last.calls THEN 0 ELSE idle + 1
  <2>1. /\ last.marker \in {"none", "continue"} /\ GoalActive /\ mu = "free" /\ pc = "advance"
        /\ said' = Latest(last.marker)
        /\ Concludes(IF n >= maxGoalIdleTurns THEN "blocked" ELSE "running", IF n >= maxGoalIdleTurns THEN "idle" ELSE "unset")
    BY <1>2 DEF AdvanceDefault, Advances
  <2>2. said'[1] = last.marker /\ said'[2] = said[1]
    BY <2>1, LatestShifts DEF Markers
  <2>3. n >= 2 \/ turns' >= maxGoalAutoTurns
    BY <2>1 DEF Concludes, LimitReached
  <2>4. CASE n >= 2
    <3>1. idle = 1
      BY <2>1, <2>4 DEF Limits
    <3>2. \A i \in 1..2 : said'[i] \in {"none", "continue"}
      BY <2>1, <2>2, <3>1 DEF Audits
    <3>3. QED
      BY <3>2
  <2>5. QED
    BY <2>3, <2>4
<1>3. CASE TurnStep
  BY <1>3 DEF TurnStep, TurnAnswers, TurnHookBlocked, TurnFails, Stopped
<1>4. ASSUME NEW g \in Goals \cup {NoGoal}, SetGoal(g) PROVE FALSE
  BY <1>4 DEF SetGoal
<1>5. CASE EndCancelled
  BY <1>5 DEF EndCancelled, Stopped
<1>6. CASE ConfirmComplete
  BY <1>6 DEF ConfirmComplete
<1>7. CASE \/ Begin \/ Cancel \/ NoActiveGoal \/ AdvanceComplete \/ JudgeAccepts \/ JudgeRejects
           \/ ConfirmStrict \/ ConfirmGone \/ NextTurn \/ UNCHANGED vars
           \/ \E on \in BOOLEAN : SetGoalStrict(on)
  BY <1>7 DEF Begin, Cancel, NoActiveGoal, AdvanceComplete, Advances, JudgeAccepts, JudgeRejects,
              ConfirmStrict, ConfirmGone, NextTurn, SetGoalStrict, vars
<1>8. QED
  BY <1>1, <1>2, <1>3, <1>4, <1>5, <1>6, <1>7 DEF Next, LoopStep

\* A goal stops as blocked only with cause, whatever the user sets meanwhile.
THEOREM BlocksHaveCause == Spec => BlockedForCause
<1>1. GoalInv /\ [Next]_vars =>
        [ status = "running" /\ status' = "blocked" =>
          \/ \E r \in Reasons : \A i \in 1..3 : said'[i] = r
          \/ \A i \in 1..2 : said'[i] \in {"none", "continue"}
          \/ turns' >= maxGoalAutoTurns ]_vars
  BY BlockedStep
<1>2. QED
  BY <1>1, GoalInvariance, PTL DEF Spec, BlockedForCause

\* No step of a loop that still works on it revives a cleared goal.
THEOREM ClearedIsFinal == Spec => ClearedStaysCleared
<1>1. ASSUME [Next]_vars, goal = NoGoal
      PROVE  \/ goal' = NoGoal /\ status' \in {status, "stopped"}
             \/ goal' \in Goals /\ status' = "running" /\ turns' = 0
  <2> USE <1>1 DEF goalVars, sessionVars, historyVars, GoalActive
  <2>1. CASE \E g \in Goals \cup {NoGoal} : SetGoal(g)
    BY <2>1 DEF SetGoal
  <2>2. CASE TurnStep
    BY <2>2 DEF TurnStep, TurnAnswers, TurnHookBlocked, TurnFails, Stopped
  <2>3. CASE LoopStep
    BY <2>3 DEF LoopStep, NoActiveGoal, Advances, AdvanceComplete, AdvanceBlocked, AdvanceDefault, JudgeAccepts,
                JudgeRejects, ConfirmComplete, ConfirmStrict, ConfirmGone, NextTurn, EndCancelled, Stopped
  <2>4. CASE Begin \/ Cancel \/ UNCHANGED vars \/ \E on \in BOOLEAN : SetGoalStrict(on)
    BY <2>4 DEF Begin, Cancel, SetGoalStrict, vars
  <2>5. QED
    BY <2>1, <2>2, <2>3, <2>4 DEF Next
<1>2. QED
  BY <1>1, PTL DEF Spec, ClearedStaysCleared

\* A cancelled loop leaves no running goal behind, wherever it noticed.
THEOREM CancelEndsGoal == Spec => CancelStopsGoal
<1>1. ASSUME [Next]_vars, pc # "idle", pc' = "idle", cancelled
      PROVE  status' # "running" \/ goal' = NoGoal
  <2> USE <1>1 DEF goalVars, sessionVars, historyVars, GoalActive
  <2>1. ASSUME NEW g \in Goals \cup {NoGoal}, SetGoal(g) PROVE FALSE
    BY <2>1 DEF SetGoal
  <2>2. CASE TurnStep
    BY <2>2 DEF TurnStep, TurnAnswers, TurnHookBlocked, TurnFails, Stopped
  <2>3. CASE AdvanceBlocked \/ AdvanceDefault
    BY <2>3 DEF AdvanceBlocked, AdvanceDefault, Advances, Concludes
  <2>4. CASE \/ NoActiveGoal \/ AdvanceComplete \/ JudgeAccepts \/ JudgeRejects \/ ConfirmComplete
             \/ ConfirmStrict \/ ConfirmGone \/ NextTurn \/ EndCancelled
    BY <2>4 DEF NoActiveGoal, AdvanceComplete, JudgeAccepts, JudgeRejects, ConfirmComplete,
                ConfirmStrict, ConfirmGone, NextTurn, EndCancelled, Stopped
  <2>5. CASE Begin \/ Cancel \/ UNCHANGED vars \/ \E on \in BOOLEAN : SetGoalStrict(on)
    BY <2>5 DEF Begin, Cancel, SetGoalStrict, vars
  <2>6. QED
    BY <2>1, <2>2, <2>3, <2>4, <2>5 DEF Next, LoopStep
<1>2. QED
  BY <1>1, PTL DEF Spec, CancelStopsGoal

-----------------------------------------------------------------------------
(* Pause and resume.                                                       *)

Waiting == {"pausing", "blocked", "resumed", "cancelled"}
BeforeRequest == Waiting \cup {"top", "ready"}

\* A closed pauseCh was closed in this turn; the turn that waits found it so.
\* The last three parts are what the bounds of TypeOK rest on.
ClosedInThisTurn ==
    /\ runPC # "idle" => run # 0
    /\ run # 0 /\ ~pauseOpen => pausedIn = run
    /\ runPC \in Waiting => ~pauseOpen
    /\ runPC \in BeforeRequest => steps < MaxSteps
    /\ asked <= pauses
    /\ frozen <= steps + (IF runPC \in {"blocked", "resumed", "cancelled", "ready", "idle"} THEN 1 ELSE 0)

Flags == {runCancelled, pauseOpen, resumeOpen, paused} \subseteq BOOLEAN

PauseInv == PauseTypeOK /\ ClosedInThisTurn

LEMMA PauseInvInit == PauseInit => PauseInv
<1> SUFFICES ASSUME PauseInit PROVE PauseInv
  OBVIOUS
<1>1. Flags
  BY DEF PauseInit, Flags
<1>2. /\ runPC \in RunPCs /\ run \in 0..MaxRuns /\ steps \in 0..MaxSteps /\ pausedIn \in 0..MaxRuns
      /\ held \in 0..NotHeld /\ pauses \in 0..MaxPauses /\ resumes \in 0..MaxResumes
      /\ frozen \in 0..(MaxSteps + 1) /\ asked \in 0..MaxPauses
  BY BoundsAssumption DEF PauseInit, RunPCs, NotHeld
<1>3. ClosedInThisTurn
  BY DEF PauseInit, ClosedInThisTurn, Waiting, BeforeRequest
<1>4. QED
  BY <1>1, <1>2, <1>3 DEF PauseInv, PauseTypeOK, Flags

LEMMA PauseInvStep ==
    ASSUME PauseInv, [PauseNext]_loopVars
    PROVE  PauseInv'
<1> USE BoundsAssumption DEF PauseInv, PauseTypeOK, ClosedInThisTurn, RunPCs, NotHeld, Waiting, BeforeRequest,
        runVars, pauseVars, pauseHistory, Moves
<1>1. CASE Pause
  <2>1. Flags'
    BY <1>1 DEF Pause, Flags
  <2>2. /\ runPC' \in RunPCs /\ run' \in 0..MaxRuns /\ steps' \in 0..MaxSteps /\ pausedIn' \in 0..MaxRuns
        /\ held' \in 0..NotHeld /\ pauses' \in 0..MaxPauses /\ resumes' \in 0..MaxResumes
        /\ frozen' \in 0..(MaxSteps + 1) /\ asked' \in 0..MaxPauses
    BY <1>1 DEF Pause
  <2>3. ClosedInThisTurn'
    BY <1>1 DEF Pause
  <2>4. QED
    BY <2>1, <2>2, <2>3 DEF Flags
<1>2. CASE Resume
  <2>1. Flags'
    BY <1>2 DEF Resume, Flags
  <2>2. /\ runPC' \in RunPCs /\ run' \in 0..MaxRuns /\ steps' \in 0..MaxSteps /\ pausedIn' \in 0..MaxRuns
        /\ held' \in 0..NotHeld /\ pauses' \in 0..MaxPauses /\ resumes' \in 0..MaxResumes
        /\ frozen' \in 0..(MaxSteps + 1) /\ asked' \in 0..MaxPauses
    BY <1>2 DEF Resume
  <2>3. ClosedInThisTurn'
    BY <1>2 DEF Resume
  <2>4. QED
    BY <2>1, <2>2, <2>3 DEF Flags
<1>3. CASE CancelRun
  BY <1>3 DEF CancelRun
<1>4. CASE BeginRun
  <2>1. Flags'
    BY <1>4 DEF BeginRun, Flags
  <2>2. /\ runPC' \in RunPCs /\ run' \in 0..MaxRuns /\ steps' \in 0..MaxSteps /\ pausedIn' \in 0..MaxRuns
        /\ held' \in 0..NotHeld /\ pauses' \in 0..MaxPauses /\ resumes' \in 0..MaxResumes
        /\ frozen' \in 0..(MaxSteps + 1) /\ asked' \in 0..MaxPauses
    BY <1>4 DEF BeginRun
  <2>3. ClosedInThisTurn'
    BY <1>4 DEF BeginRun
  <2>4. QED
    BY <2>1, <2>2, <2>3 DEF Flags
<1>5. CASE AwaitPause
  BY <1>5 DEF AwaitPause
<1>6. CASE Freeze
  BY <1>6 DEF Freeze
<1>7. CASE Unblock
  BY <1>7 DEF Unblock
<1>8. CASE Thaw
  BY <1>8 DEF Thaw
<1>9. CASE CancelThaw
  BY <1>9 DEF CancelThaw
<1>10. CASE Stop
  BY <1>10 DEF Stop
<1>11. CASE Request
  BY <1>11 DEF Request
<1>12. CASE EndRequest
  BY <1>12 DEF EndRequest
<1>13. CASE UNCHANGED loopVars
  BY <1>13 DEF loopVars
<1>14. QED
  BY <1>1, <1>2, <1>3, <1>4, <1>5, <1>6, <1>7, <1>8, <1>9, <1>10, <1>11, <1>12, <1>13 DEF PauseNext, RunStep

LEMMA PauseInvariance == PauseSpec => []PauseInv
BY PauseInvInit, PauseInvStep, PTL DEF PauseSpec

\* Every reachable state has the shape TypeOK gives it.
THEOREM PauseTypes == PauseSpec => []PauseTypeOK
<1>1. PauseInv => PauseTypeOK
  BY DEF PauseInv
<1>2. QED
  BY <1>1, PauseInvariance, PTL

\* A Pause left over from an earlier turn never stops the loop of this one:
\* resetPauseStateLocked makes both channels anew.
THEOREM OnlyOwnPause == PauseSpec => []PauseOfThisTurn
<1>1. PauseInv => PauseOfThisTurn
  BY DEF PauseInv, ClosedInThisTurn, PauseOfThisTurn, Waiting
<1>2. QED
  BY <1>1, PauseInvariance, PTL

-----------------------------------------------------------------------------
(* The runs of a batch.                                                    *)

\* Nothing is true of every number unless it fails at a first one.
LEMMA FirstFailure ==
    ASSUME NEW S \in SUBSET Nat, S # {}
    PROVE  \E n \in S : \A m \in 0..(n - 1) : m \notin S
<1>1. PICK n \in S : \A m \in S : ~ (<<m, n>> \in OpToRel(<, Nat))
  BY WFMin, NatLessThanWellFounded, Zenon
<1>2. \A m \in S : <<m, n>> \in Nat \X Nat
  OBVIOUS
<1>3. \A m \in S : ~(m < n)
  BY <1>1, <1>2, Zenon DEF OpToRel
<1>4. ASSUME NEW m \in 0..(n - 1) PROVE m \notin S
  BY <1>3
<1>5. QED
  BY <1>4

\* Where the run of call i starts, if the run before it started at s.
After(s, i) == IF i <= 1 THEN 1 ELSE IF Joins(s, i) THEN s ELSE i

\* The starts of the first n runs, whichever function says so.
Starts(n) == {g \in [0..n -> Nat] : \A i \in 0..n : g[i] = After(g[i - 1], i)}

LEMMA StartsExist == \A n \in Nat : Starts(n) # {}
<1> DEFINE S == {n \in Nat : Starts(n) = {}}
<1>1. SUFFICES ASSUME S # {} PROVE FALSE
  OBVIOUS
<1>2. PICK n \in S : \A m \in 0..(n - 1) : m \notin S
  <2>1. S \in SUBSET Nat
    OBVIOUS
  <2>2. QED
    BY <1>1, <2>1, FirstFailure, Zenon
<1>3. n \in Nat /\ Starts(n) = {}
  OBVIOUS
<1>4. CASE n = 0
  <2>1. [i \in 0..0 |-> 1] \in Starts(0)
    BY DEF Starts, After
  <2>2. QED
    BY <1>3, <1>4, <2>1
<1>5. CASE n # 0
  <2>1. n - 1 \in Nat /\ n - 1 \in 0..(n - 1)
    BY <1>3, <1>5
  <2>2. Starts(n - 1) # {}
    BY <1>2, <2>1
  <2>3. PICK g : g \in Starts(n - 1)
    BY <2>2
  <2> DEFINE h == [i \in 0..n |-> IF i = n THEN After(g[n - 1], n) ELSE g[i]]
  <2>4. g \in [0..(n - 1) -> Nat] /\ \A i \in 0..(n - 1) : g[i] = After(g[i - 1], i)
    BY <2>3 DEF Starts
  <2>5. After(g[n - 1], n) \in Nat
    BY <1>3, <2>1, <2>4 DEF After
  <2>6. h \in [0..n -> Nat]
    BY <1>3, <2>1, <2>4, <2>5
  <2>7. ASSUME NEW i \in 0..n PROVE h[i] = After(h[i - 1], i)
    <3>1. CASE i = n
      BY <1>3, <1>5, <3>1
    <3>2. CASE i # n /\ i > 0
      <4>1. i \in 0..(n - 1) /\ i - 1 \in 0..(n - 1) /\ i - 1 # n /\ i - 1 \in 0..n
        BY <1>3, <3>2
      <4>2. h[i] = g[i] /\ h[i - 1] = g[i - 1]
        BY <3>2, <4>1
      <4>3. QED
        BY <2>4, <4>1, <4>2
    <3>3. CASE i = 0
      <4>1. i \in 0..(n - 1) /\ h[i] = g[i]
        BY <1>3, <1>5, <3>3
      <4>2. g[i] = 1
        BY <2>4, <3>3, <4>1 DEF After
      <4>3. QED
        BY <3>3, <4>1, <4>2 DEF After
    <3>4. QED
      BY <1>3, <3>1, <3>2, <3>3
  <2>8. h \in Starts(n)
    BY <2>6, <2>7 DEF Starts
  <2>9. QED
    BY <1>3, <2>8
<1>6. QED
  BY <1>4, <1>5

LEMMA StartsAgree ==
    ASSUME NEW m \in Nat, NEW n \in Nat, NEW g \in Starts(m), NEW h \in Starts(n)
    PROVE  \A i \in 0..m : i \in 0..n => g[i] = h[i]
<1> DEFINE S == {i \in 0..m : i \in 0..n /\ g[i] # h[i]}
<1>1. SUFFICES ASSUME S # {} PROVE FALSE
  OBVIOUS
<1>2. PICK i \in S : \A k \in 0..(i - 1) : k \notin S
  <2>1. S \in SUBSET Nat
    OBVIOUS
  <2>2. QED
    BY <1>1, <2>1, FirstFailure, Zenon
<1>3. i \in 0..m /\ i \in 0..n /\ i \in Nat /\ g[i] = After(g[i - 1], i) /\ h[i] = After(h[i - 1], i)
  BY DEF Starts
<1>4. CASE i <= 1
  BY <1>3, <1>4 DEF After
<1>5. CASE i > 1
  <2>1. i - 1 \in 0..(i - 1) /\ i - 1 \in 0..m /\ i - 1 \in 0..n
    BY <1>3, <1>5
  <2>2. g[i - 1] = h[i - 1]
    BY <1>2, <2>1
  <2>3. QED
    BY <1>3, <2>2
<1>6. QED
  BY <1>3, <1>4, <1>5

\* RunStart is what its definition says.
LEMMA RunStartIs == \A i \in Nat : RunStart[i] = After(RunStart[i - 1], i)
<1> DEFINE some(n) == CHOOSE g \in Starts(n) : TRUE
           F == [n \in Nat |-> some(n)[n]]
<1>1. \A n \in Nat : some(n) \in Starts(n)
  BY StartsExist
<1>2. ASSUME NEW n \in Nat
      PROVE  F[n] = some(n)[n] /\ F[n] \in Nat /\ some(n)[n] = After(some(n)[n - 1], n)
  <2>1. F[n] = some(n)[n]
    OBVIOUS
  <2>2. some(n) \in Starts(n) /\ n \in 0..n
    BY <1>1
  <2> HIDE DEF F, some
  <2>3. QED
    BY <2>1, <2>2 DEF Starts
<1> HIDE DEF F
<1>3. ASSUME NEW i \in Nat PROVE F[i] = After(F[i - 1], i)
  <2>1. F[i] = After(some(i)[i - 1], i)
    BY <1>2
  <2>2. CASE i <= 1
    BY <2>1, <2>2 DEF After
  <2>3. CASE i > 1
    <3>1. i - 1 \in Nat /\ i - 1 \in 0..i /\ i - 1 \in 0..(i - 1)
      BY <2>3
    <3>2. some(i)[i - 1] = some(i - 1)[i - 1]
      BY <1>1, <3>1, StartsAgree
    <3>3. QED
      BY <1>2, <2>1, <3>1, <3>2
  <2>4. QED
    BY <2>2, <2>3
<1>4. F = [i \in Nat |-> After(F[i - 1], i)]
  <2>1. F = [n \in Nat |-> F[n]]
    BY DEF F
  <2>2. QED
    BY <1>3, <2>1, Zenon
<1>5. RunStart = [i \in Nat |-> IF i <= 1 THEN 1 ELSE IF Joins(RunStart[i - 1], i) THEN RunStart[i - 1] ELSE i]
  <2>1. F = [i \in Nat |-> IF i <= 1 THEN 1 ELSE IF Joins(F[i - 1], i) THEN F[i - 1] ELSE i]
    BY <1>4, Zenon DEF After
  <2>2. QED
    BY <2>1, Zenon DEF RunStart
<1>6. \A i \in Nat : RunStart[i] = After(RunStart[i - 1], i)
  BY <1>5, Zenon DEF After
<1>7. QED
  BY <1>6

\* A run of readers holds readers only, a run of writers writers with a preview.
SameKind(s, i) ==
    /\ calls[s] \in Readers => \A k \in s..i : calls[k] \in Readers
    /\ Writes(s) => \A k \in s..i : Writes(k)

LEMMA RunIs ==
    ASSUME calls \in Seq(Ops)
    PROVE  \A i \in DOMAIN calls : RunStart[i] \in 1..i /\ SameKind(RunStart[i], i)
<1> DEFINE S == {i \in DOMAIN calls : ~(RunStart[i] \in 1..i /\ SameKind(RunStart[i], i))}
<1>0. DOMAIN calls = 1..Len(calls) /\ Len(calls) \in Nat /\ \A i \in DOMAIN calls : calls[i] \in Ops
  OBVIOUS
<1>1. SUFFICES ASSUME S # {} PROVE FALSE
  OBVIOUS
<1>2. PICK i \in S : \A m \in 0..(i - 1) : m \notin S
  <2>1. S \in SUBSET Nat
    BY <1>0
  <2>2. QED
    BY <1>1, <2>1, FirstFailure, Zenon
<1>3. i \in DOMAIN calls /\ i \in Nat /\ i >= 1 /\ RunStart[i] = After(RunStart[i - 1], i)
  BY <1>0, RunStartIs
<1>4. CASE RunStart[i] = i
  <2>1. RunStart[i] \in 1..i /\ i..i = {i}
    BY <1>3, <1>4
  <2>2. SameKind(i, i)
    BY <2>1 DEF SameKind
  <2>3. QED
    BY <1>4, <2>1, <2>2
<1>5. CASE RunStart[i] # i
  <2> DEFINE s == RunStart[i - 1]
  <2>1. i > 1 /\ RunStart[i] = s /\ Joins(s, i)
    BY <1>3, <1>5 DEF After
  <2>2. i - 1 \in DOMAIN calls /\ i - 1 \in 0..(i - 1)
    BY <1>0, <1>3, <2>1
  <2>3. s \in 1..(i - 1) /\ SameKind(s, i - 1)
    BY <1>2, <2>2
  <2>4. s \in DOMAIN calls /\ calls[s] \in Ops /\ \A k \in s..i : k \in s..(i - 1) \/ k = i
    BY <1>0, <1>3, <2>3
  <2>5. calls[s] \in Readers => ~Writes(s)
    BY OpsAssumption DEF Writes
  <2>6. SameKind(s, i)
    BY <2>1, <2>3, <2>4, <2>5 DEF SameKind, Joins
  <2>7. s \in 1..i
    BY <1>3, <2>3
  <2>8. QED
    BY <2>1, <2>6, <2>7
<1>6. QED
  BY <1>4, <1>5

\* The calls of a run do not interfere.
LEMMA RunCommutes ==
    ASSUME calls \in Seq(Ops), NEW i \in DOMAIN calls, NEW k \in RunStart[i]..(i - 1)
    PROVE  Commute(calls[k], calls[i])
<1> DEFINE s == RunStart[i]
<1>0. DOMAIN calls = 1..Len(calls) /\ Len(calls) \in Nat /\ \A j \in DOMAIN calls : calls[j] \in Ops
  OBVIOUS
<1>1. s \in 1..i /\ SameKind(s, i) /\ i \in Nat /\ k \in s..i /\ s # i /\ k \in Nat /\ k >= s /\ k <= i - 1
  BY <1>0, RunIs
<1>2. i > 1 /\ s = RunStart[i - 1] /\ Joins(s, i)
  BY <1>1, RunStartIs DEF After
<1>3. CASE calls[s] \in Readers /\ calls[i] \in Readers
  BY <1>1, <1>3 DEF SameKind, Commute
<1>4. CASE /\ Writes(s) /\ Writes(i)
           /\ \A j \in s..(i - 1) : Footprint[calls[j]] \cap Footprint[calls[i]] = {}
  BY <1>1, <1>4 DEF SameKind, Commute, Writes
<1>5. QED
  BY <1>2, <1>3, <1>4 DEF Joins

-----------------------------------------------------------------------------
(* Types.                                                                  *)

\* A call that is not of the batch does not exist.
WellFormed == BatchTypeOK /\ \A i \in Slots \ DOMAIN calls : callPC[i] = "absent"

LEMMA CallIs ==
    ASSUME WellFormed, NEW i \in Slots, callPC[i] # "absent"
    PROVE  i \in DOMAIN calls /\ calls[i] \in Ops /\ i \in Nat
BY DEF WellFormed, BatchTypeOK, Slots

LEMMA InitWellFormed == BatchInit => WellFormed
<1>1. SUFFICES ASSUME BatchInit PROVE WellFormed
  OBVIOUS
<1>2. <<>> \in Seq(Ops) /\ Len(<<>>) = 0
  OBVIOUS
<1>3. NoneOf \in [Ops -> Nat] /\ batches \in 0..MaxBatches /\ Len(calls) <= MaxCalls
  BY <1>1, <1>2, LimitsAssumption DEF BatchInit, NoneOf
<1>4. callPC \in [Slots -> CallPCs]
  BY <1>1 DEF BatchInit, CallPCs
<1>5. BatchTypeOK
  BY <1>1, <1>2, <1>3, <1>4 DEF BatchInit, BatchTypeOK
<1>6. QED
  BY <1>1, <1>5 DEF BatchInit, WellFormed

LEMMA WellFormedKept == WellFormed /\ [BatchNext]_toolVars => WellFormed'
<1>1. SUFFICES ASSUME WellFormed, [BatchNext]_toolVars PROVE WellFormed'
  OBVIOUS
<1> USE <1>1
<1>2. BatchTypeOK
  BY DEF WellFormed
<1>3. CASE BeginBatch
  <2>1. PICK n \in Slots : calls' \in [1..n -> Ops]
    BY <1>3 DEF BeginBatch
  <2>2. calls' \in Seq(Ops) /\ Len(calls') <= MaxCalls
    BY <2>1, LimitsAssumption DEF Slots
  <2>3. callPC' \in [Slots -> CallPCs] /\ \A i \in Slots : callPC'[i] = "absent"
    BY <1>3 DEF BeginBatch, CallPCs
  <2>4. batches' \in 0..MaxBatches
    BY <1>2, <1>3, LimitsAssumption DEF BeginBatch, BatchTypeOK
  <2>5. QED
    BY <1>2, <1>3, <2>2, <2>3, <2>4 DEF BeginBatch, BatchTypeOK, WellFormed, repeatVars, gateVars
<1>4. ASSUME NEW i \in Slots, CallStep(i) PROVE WellFormed'
  <2>1. /\ calls' = calls /\ batches' = batches /\ crashed' = crashed
        /\ i \in DOMAIN calls
        /\ \E to \in CallPCs : callPC' = [callPC EXCEPT ![i] = to]
    <3>1. i \in DOMAIN calls
      BY <1>4, CallIs DEF CallStep, StartCall, Lookup, BeforeMutation, Execute, ObserveSuccess,
                          ObserveFailure, Record, MakeMap, Increment, Step
    <3>2. QED
      BY <1>4, <3>1 DEF CallStep, StartCall, Lookup, BeforeMutation, Execute, ObserveSuccess,
                          ObserveFailure, Record, MakeMap, Increment, Step, Goes, CallPCs, batchVars
  <2>2. calls[i] \in Ops
    BY <1>2, <2>1 DEF BatchTypeOK
  <2>3. mapMade' \in BOOLEAN /\ counts' \in [Ops -> Nat] /\ opFailures' \in [Ops -> Nat]
    <3> DEFINE o == calls[i]
    <3>1. mapMade' = mapMade \/ mapMade' = TRUE
      BY <1>4 DEF CallStep, StartCall, Lookup, BeforeMutation, Execute,
           ObserveSuccess, ObserveFailure, Record, MakeMap, Increment, repeatVars, gateVars
    <3>2. counts' = counts \/ counts' = NoneOf \/ counts' = [counts EXCEPT ![o] = counts[o] + 1]
      BY <1>4 DEF CallStep, StartCall, Lookup, BeforeMutation, Execute,
           ObserveSuccess, ObserveFailure, Record, MakeMap, Increment, repeatVars, gateVars
    <3>3. \/ opFailures' = opFailures
          \/ opFailures' = [opFailures EXCEPT ![o] = opFailures[o] + 1]
          \/ opFailures' = [opFailures EXCEPT ![o] = 0]
      BY <1>4 DEF CallStep, StartCall, Lookup, BeforeMutation, Execute,
           ObserveSuccess, ObserveFailure, Record, MakeMap, Increment, repeatVars, gateVars
    <3>4. counts[o] \in Nat /\ opFailures[o] \in Nat
      BY <1>2, <2>2 DEF BatchTypeOK
    <3>5. counts' \in [Ops -> Nat] /\ opFailures' \in [Ops -> Nat]
      <4>1. \A f \in [Ops -> Nat], n \in Nat : [f EXCEPT ![o] = n] \in [Ops -> Nat]
        OBVIOUS
      <4>2. NoneOf \in [Ops -> Nat] /\ counts[o] + 1 \in Nat /\ opFailures[o] + 1 \in Nat /\ 0 \in Nat
        BY <3>4 DEF NoneOf
      <4>3. counts \in [Ops -> Nat] /\ opFailures \in [Ops -> Nat]
        BY <1>2 DEF BatchTypeOK
      <4>4. counts' \in [Ops -> Nat]
        BY <3>2, <4>1, <4>2, <4>3, Zenon
      <4>5. opFailures' \in [Ops -> Nat]
        BY <3>3, <4>1, <4>2, <4>3, Zenon
      <4>6. QED
        BY <4>4, <4>5
    <3>6. QED
      BY <1>2, <3>1, <3>5 DEF BatchTypeOK
  <2>4. stoppedOps' \subseteq Ops \ (Readers \cup Ledger)
    BY <1>2, <1>4, <2>2 DEF BatchTypeOK, CallStep, StartCall, Lookup, BeforeMutation, Execute, ObserveSuccess,
       ObserveFailure, Record, MakeMap, Increment, repeatVars, gateVars, NoneOf, Qualifies, ReadOnly
  <2>5. episodeFailures' \in Nat /\ episodeStopped' \in BOOLEAN /\ succeeded' \in [Ops -> Nat]
    <3>1. episodeFailures' \in Nat /\ succeeded' \in [Ops -> Nat]
      <4>1. \/ episodeFailures' = episodeFailures
            \/ episodeFailures' = episodeFailures + 1
        BY <1>4 DEF CallStep, StartCall, Lookup, BeforeMutation, Execute,
           ObserveSuccess, ObserveFailure, Record, MakeMap, Increment, repeatVars, gateVars
      <4>2. \/ succeeded' = succeeded
            \/ succeeded' = [succeeded EXCEPT ![calls[i]] = succeeded[calls[i]] + 1]
        BY <1>4 DEF CallStep, StartCall, Lookup, BeforeMutation, Execute,
           ObserveSuccess, ObserveFailure, Record, MakeMap, Increment, repeatVars, gateVars
      <4>3. succeeded[calls[i]] \in Nat /\ episodeFailures \in Nat /\ succeeded \in [Ops -> Nat]
        BY <1>2, <2>2 DEF BatchTypeOK
      <4>4. QED
        BY <4>1, <4>2, <4>3
    <3>2. \/ episodeStopped' = episodeStopped
          \/ episodeStopped' = (episodeStopped \/ episodeFailures' >= episodeFailureLimit)
      BY <1>4 DEF BatchTypeOK, CallStep, StartCall, Lookup, BeforeMutation, Execute, ObserveSuccess,
         ObserveFailure, Record, MakeMap, Increment, repeatVars, gateVars, NoneOf, Qualifies, ReadOnly
    <3>3. episodeStopped' \in BOOLEAN
      BY <1>2, <3>2, Zenon DEF BatchTypeOK
    <3>4. QED
      BY <3>1, <3>3
  <2>6. QED
    BY <1>2, <2>1, <2>3, <2>4, <2>5 DEF BatchTypeOK, WellFormed
<1>5. CASE MapFault \/ UNCHANGED toolVars
  BY <1>2, <1>5 DEF MapFault, toolVars, batchVars, repeatVars, gateVars, BatchTypeOK, WellFormed
<1>6. QED
  BY <1>3, <1>4, <1>5 DEF BatchNext

-----------------------------------------------------------------------------
(* Conflicting calls.                                                      *)

LEMMA OrderKept == WellFormed /\ ConflictsOrdered /\ [BatchNext]_toolVars => ConflictsOrdered'
<1>1. SUFFICES ASSUME WellFormed, ConflictsOrdered, [BatchNext]_toolVars PROVE ConflictsOrdered'
  OBVIOUS
<1>2. calls \in Seq(Ops) /\ DOMAIN calls = 1..Len(calls) /\ Len(calls) \in Nat /\ Len(calls) <= MaxCalls
      /\ DOMAIN calls \subseteq Slots /\ callPC \in [Slots -> CallPCs]
  BY <1>1, LimitsAssumption DEF WellFormed, BatchTypeOK, Slots
<1>3. CASE BeginBatch
  <2>1. \A i \in Slots : callPC'[i] = "absent"
    BY <1>3 DEF BeginBatch
  <2>2. DOMAIN calls' \subseteq Slots
    BY <1>3, LimitsAssumption DEF BeginBatch, Slots
  <2>3. QED
    BY <2>1, <2>2 DEF ConflictsOrdered
<1>4. ASSUME NEW k \in Slots, StartCall(k) PROVE ConflictsOrdered'
  <2>1. /\ k \in DOMAIN calls /\ calls' = calls /\ callPC[k] = "absent" /\ callPC' = [callPC EXCEPT ![k] = "lookup"]
        /\ \A i \in 1..(RunStart[k] - 1) : callPC[i] = "done"
    BY <1>4 DEF StartCall, Step, Goes, batchVars
  <2>2. ASSUME NEW i \in DOMAIN calls, i < k PROVE callPC[i] = "done" \/ Commute(calls[i], calls[k])
    <3>1. i \in Nat /\ k \in Nat /\ RunStart[k] \in 1..k /\ i >= 1
      BY <1>2, <2>1, RunIs
    <3>2. CASE i < RunStart[k]
      <4>1. i \in 1..(RunStart[k] - 1)
        BY <3>1, <3>2
      <4>2. QED
        BY <2>1, <4>1
    <3>3. CASE i >= RunStart[k]
      <4>1. i \in RunStart[k]..(k - 1)
        BY <2>2, <3>1, <3>3
      <4>2. QED
        BY <1>2, <2>1, <4>1, RunCommutes
    <3>4. QED
      BY <3>1, <3>2, <3>3
  <2>3. ASSUME NEW i \in DOMAIN calls, NEW j \in DOMAIN calls, i < j, callPC'[j] # "absent"
        PROVE  callPC'[i] = "done" \/ Commute(calls[i], calls[j])
    <3>1. CASE j = k
      BY <1>2, <2>1, <2>2, <2>3, <3>1
    <3>2. CASE j # k
      BY <1>1, <1>2, <2>1, <2>3, <3>2 DEF ConflictsOrdered
    <3>3. QED
      BY <3>1, <3>2
  <2>4. QED
    BY <2>1, <2>3 DEF ConflictsOrdered
<1>5. ASSUME NEW k \in Slots, CallStep(k), ~StartCall(k) PROVE ConflictsOrdered'
  <2>1. /\ calls' = calls /\ callPC[k] \notin {"absent", "done"}
        /\ \E to \in CallPCs : callPC' = [callPC EXCEPT ![k] = to]
    BY <1>5 DEF CallStep, Lookup, BeforeMutation, Execute, ObserveSuccess, ObserveFailure, Record,
                MakeMap, Increment, Step, Goes, CallPCs, batchVars
  <2>2. QED
    BY <1>1, <1>2, <2>1 DEF ConflictsOrdered
<1>6. CASE MapFault \/ UNCHANGED toolVars
  BY <1>1, <1>6 DEF MapFault, toolVars, batchVars, ConflictsOrdered
<1>7. QED
  BY <1>1, <1>3, <1>4, <1>5, <1>6 DEF BatchNext

-----------------------------------------------------------------------------
(* The failure gate.                                                       *)

\* Calls that the gate let pass and whose failure would count.
Passed == {i \in DOMAIN calls : callPC[i] \in {"run", "failed"} /\ ~ReadOnly(calls[i])}
RunningCalls == {i \in DOMAIN calls : Running(i)}

\* Two calls of one operation that is not read-only are never past the gate
\* together, and the first let pass had failures to spare.
Tries ==
    /\ FailingOpStops
    /\ \A i \in Passed : opFailures[calls[i]] < opFailureThreshold

\* Until the budget is spent there is one failure left; those let pass before
\* it was are fewer than the semaphore has slots.
Budget ==
    /\ Cardinality(RunningCalls) <= maxParallel
    /\ ~episodeStopped => episodeFailures < episodeFailureLimit
    /\ episodeFailures + Cardinality(Passed) < episodeFailureLimit + maxParallel

LEMMA OnePerOperation ==
    ASSUME WellFormed, ConflictsOrdered, NEW i \in DOMAIN calls, NEW k \in DOMAIN calls,
           Running(i), Running(k), calls[i] = calls[k], ~ReadOnly(calls[i])
    PROVE  i = k
<1>1. \A j \in DOMAIN calls : j \in Nat
  BY DEF WellFormed, BatchTypeOK
<1>2. ~Commute(calls[i], calls[k])
  BY DEF Commute, ReadOnly
<1>3. ~Commute(calls[k], calls[i])
  BY DEF Commute, ReadOnly
<1>4. ~(i < k) /\ ~(k < i)
  BY <1>2, <1>3 DEF ConflictsOrdered, Running
<1>5. QED
  BY <1>1, <1>4

\* What a step of a call does to the gate.
LEMMA GateIs ==
    ASSUME WellFormed, NEW i \in Slots, CallStep(i)
    PROVE  /\ calls' = calls /\ i \in DOMAIN calls /\ calls[i] \in Ops
           /\ \E to \in CallPCs : callPC' = [callPC EXCEPT ![i] = to]
           /\ \/ /\ Qualifies(i)
                 /\ opFailures' = [opFailures EXCEPT ![calls[i]] = @ + 1]
                 /\ episodeFailures' = episodeFailures + 1
                 /\ episodeStopped' = (episodeStopped \/ episodeFailures' >= episodeFailureLimit)
                 /\ callPC'[i] = "done"
              \/ /\ opFailures' = opFailures \/ opFailures' = [opFailures EXCEPT ![calls[i]] = 0]
                 /\ UNCHANGED <<episodeFailures, episodeStopped>>
                 /\ \/ ReadOnly(calls[i])
                    \/ callPC'[i] \notin {"run", "failed"}
                    \/ callPC[i] = "run"
                    \/ ~Refused(calls[i]) /\ opFailures' = opFailures
           /\ StartCall(i) \/ Running(i)
<1>1. i \in DOMAIN calls /\ calls[i] \in Ops
  <2>1. CASE StartCall(i)
    BY <2>1 DEF StartCall, WellFormed, BatchTypeOK
  <2>2. CASE ~StartCall(i)
    <3>1. callPC[i] # "absent"
      BY <2>2 DEF CallStep, Lookup, BeforeMutation, Execute, ObserveSuccess, ObserveFailure,
                  Record, MakeMap, Increment, Step
    <3>2. QED
      BY <3>1, CallIs
  <2>3. QED
    BY <2>1, <2>2
<1>2. callPC \in [Slots -> CallPCs] /\ calls' = calls
  BY DEF WellFormed, BatchTypeOK, CallStep, StartCall, Lookup, BeforeMutation, Execute, ObserveSuccess,
         ObserveFailure, Record, MakeMap, Increment, batchVars
<1>3. \A to : (to \in CallPCs /\ callPC' = [callPC EXCEPT ![i] = to]) => callPC'[i] = to
  BY <1>2
<1>4. CASE StartCall(i)
  BY <1>1, <1>2, <1>3, <1>4, Zenon DEF StartCall, Step, Goes, CallPCs, gateVars, Running
<1>5. CASE ObserveFailure(i)
  <2>1. callPC' = [callPC EXCEPT ![i] = "done"] /\ callPC'[i] = "done" /\ "done" \in CallPCs /\ Running(i)
    BY <1>2, <1>5 DEF ObserveFailure, Goes, CallPCs, Running
  <2>2. CASE Qualifies(i)
    BY <1>1, <1>2, <1>5, <2>1, <2>2 DEF ObserveFailure
  <2>3. CASE ~Qualifies(i)
    BY <1>1, <1>2, <1>5, <2>1, <2>3 DEF ObserveFailure, gateVars
  <2>4. QED
    BY <2>2, <2>3
<1>6. CASE Lookup(i) \/ BeforeMutation(i) \/ Execute(i)
  BY <1>1, <1>2, <1>6 DEF Lookup, BeforeMutation, Execute, Step, Goes, CallPCs, gateVars, Running
<1>7. CASE ObserveSuccess(i) \/ Record(i) \/ MakeMap(i) \/ Increment(i)
  BY <1>1, <1>2, <1>7 DEF ObserveSuccess, Record, MakeMap, Increment, Step, Goes, CallPCs, gateVars, Running
<1>8. QED
  BY <1>4, <1>5, <1>6, <1>7 DEF CallStep

\* Which calls have passed the gate after the step of one.
LEMMA PassedIs ==
    ASSUME WellFormed, NEW i \in DOMAIN calls, NEW to, calls' = calls, callPC' = [callPC EXCEPT ![i] = to]
    PROVE  \A k \in DOMAIN calls : k # i => (k \in Passed' <=> k \in Passed)
                                         /\ (k \in RunningCalls' <=> k \in RunningCalls)
<1>1. callPC \in [Slots -> CallPCs] /\ DOMAIN calls \subseteq Slots
  BY LimitsAssumption DEF WellFormed, BatchTypeOK, Slots
<1>2. \A k \in DOMAIN calls : k # i => callPC'[k] = callPC[k]
  BY <1>1
<1>3. QED
  BY <1>2, Zenon DEF Passed, RunningCalls, Running, ReadOnly

LEMMA TriesKept == WellFormed /\ ConflictsOrdered /\ Tries /\ [BatchNext]_toolVars => Tries'
<1>1. SUFFICES ASSUME WellFormed, ConflictsOrdered, Tries, [BatchNext]_toolVars PROVE Tries'
  OBVIOUS
<1> USE LimitsAssumption
<1>2. calls \in Seq(Ops) /\ opFailures \in [Ops -> Nat] /\ callPC \in [Slots -> CallPCs] /\ DOMAIN calls \subseteq Slots
  BY <1>1 DEF WellFormed, BatchTypeOK, Slots
<1>3. CASE BeginBatch
  <2>1. Passed' = {}
    BY <1>3 DEF BeginBatch, Passed, Slots
  <2>2. FailingOpStops'
    BY <1>1, <1>3 DEF BeginBatch, gateVars, Tries, FailingOpStops
  <2>3. QED
    BY <2>1, <2>2 DEF Tries
<1>4. ASSUME NEW i \in Slots, CallStep(i) PROVE Tries'
  <2> DEFINE o == calls[i]
  <2>1. calls' = calls /\ i \in DOMAIN calls /\ o \in Ops /\ \E to \in CallPCs : callPC' = [callPC EXCEPT ![i] = to]
    BY <1>1, <1>4, GateIs, Zenon
  <2>2. \A k \in Passed' : k \in DOMAIN calls /\ calls[k] \in Ops /\ (k # i => k \in Passed)
    <3>1. \A k \in Passed' : k \in DOMAIN calls
      BY <2>1 DEF Passed
    <3>2. \A k \in DOMAIN calls : k # i => (k \in Passed' => k \in Passed)
      BY <1>1, <2>1, PassedIs, Zenon
    <3>3. QED
      BY <1>2, <3>1, <3>2
  <2>3. CASE /\ Qualifies(i)
             /\ opFailures' = [opFailures EXCEPT ![o] = @ + 1]
             /\ callPC'[i] = "done"
    <3>1. i \in Passed /\ i \notin Passed'
      BY <2>1, <2>3 DEF Qualifies, Passed
    <3>2. opFailures[o] < opFailureThreshold
      BY <1>1, <3>1 DEF Tries
    <3>3. ASSUME NEW k \in Passed' PROVE opFailures'[calls'[k]] < opFailureThreshold
      <4>1. k \in Passed /\ k # i
        BY <2>2, <3>1, <3>3
      <4>2. Running(i) /\ Running(k) /\ ~ReadOnly(calls[i]) /\ k \in DOMAIN calls
        BY <3>1, <4>1 DEF Passed, Running
      <4>3. calls[k] # o
        BY <1>1, <2>1, <4>1, <4>2, OnePerOperation
      <4>4. QED
        BY <1>1, <1>2, <2>1, <2>2, <2>3, <4>1, <4>3 DEF Tries
    <3>4. FailingOpStops'
      BY <1>1, <1>2, <2>1, <2>3, <3>2 DEF Tries, FailingOpStops
    <3>5. QED
      BY <3>3, <3>4 DEF Tries
  <2>4. CASE /\ opFailures' = opFailures \/ opFailures' = [opFailures EXCEPT ![o] = 0]
             /\ \/ ReadOnly(o)
                \/ callPC'[i] \notin {"run", "failed"}
                \/ callPC[i] = "run"
                \/ ~Refused(o) /\ opFailures' = opFailures
    <3>1. \A p \in Ops : opFailures'[p] <= opFailures[p] /\ opFailures'[p] \in Nat
      BY <1>2, <2>1, <2>4
    <3>2. FailingOpStops'
      BY <1>1, <1>2, <3>1 DEF Tries, FailingOpStops
    <3>3. ASSUME NEW k \in Passed' PROVE opFailures'[calls'[k]] < opFailureThreshold
      <4>1. CASE k \in Passed
        BY <1>1, <1>2, <2>1, <2>2, <3>1, <4>1 DEF Tries
      <4>2. CASE k \notin Passed
        <5>1. k = i /\ ~ReadOnly(o) /\ callPC'[i] \in {"run", "failed"} /\ callPC[i] # "run"
          BY <2>1, <2>2, <4>2 DEF Passed
        <5>2. ~Refused(o) /\ opFailures' = opFailures
          BY <2>4, <5>1
        <5>3. QED
          BY <1>2, <2>1, <5>1, <5>2 DEF Refused
      <4>3. QED
        BY <4>1, <4>2
    <3>4. QED
      BY <3>2, <3>3 DEF Tries
  <2>5. QED
    BY <1>1, <1>4, <2>3, <2>4, GateIs, Zenon
<1>5. CASE MapFault \/ UNCHANGED toolVars
  <2>1. calls' = calls /\ callPC' = callPC /\ opFailures' = opFailures
    BY <1>5 DEF MapFault, toolVars, batchVars, gateVars
  <2>2. Passed' = Passed
    BY <2>1 DEF Passed
  <2>3. QED
    BY <1>1, <2>1, <2>2, Zenon DEF Tries, FailingOpStops
<1>6. QED
  BY <1>1, <1>3, <1>4, <1>5 DEF BatchNext

LEMMA CallsFinite == ASSUME WellFormed PROVE IsFiniteSet(RunningCalls) /\ IsFiniteSet(Passed) /\ Passed \subseteq RunningCalls
<1>1. DOMAIN calls = 1..Len(calls) /\ Len(calls) \in Nat
  BY DEF WellFormed, BatchTypeOK
<1>2. IsFiniteSet(1..Len(calls))
  BY <1>1, FS_Interval
<1>3. RunningCalls \subseteq 1..Len(calls) /\ Passed \subseteq RunningCalls
  BY <1>1 DEF Passed, RunningCalls, Running
<1>4. QED
  BY <1>2, <1>3, FS_Subset, Zenon

LEMMA BudgetKept == WellFormed /\ WellFormed' /\ Budget /\ [BatchNext]_toolVars => Budget'
<1>1. SUFFICES ASSUME WellFormed, WellFormed', Budget, [BatchNext]_toolVars PROVE Budget'
  OBVIOUS
<1> USE LimitsAssumption
<1>2. /\ IsFiniteSet(RunningCalls) /\ IsFiniteSet(Passed) /\ Passed \subseteq RunningCalls
      /\ IsFiniteSet(RunningCalls') /\ IsFiniteSet(Passed') /\ Passed' \subseteq RunningCalls'
  <2>1. IsFiniteSet(RunningCalls) /\ IsFiniteSet(Passed) /\ Passed \subseteq RunningCalls
    BY <1>1, CallsFinite, Zenon
  <2>2. WellFormed => IsFiniteSet(RunningCalls) /\ IsFiniteSet(Passed) /\ Passed \subseteq RunningCalls
    BY CallsFinite, Zenon
  <2>3. (WellFormed => IsFiniteSet(RunningCalls) /\ IsFiniteSet(Passed) /\ Passed \subseteq RunningCalls)'
    BY <2>2, CallsFinite, PTL
  <2>4. QED
    BY <1>1, <2>1, <2>3, Zenon
<1>3. /\ Cardinality(RunningCalls) \in Nat /\ Cardinality(Passed) \in Nat
      /\ Cardinality(RunningCalls') \in Nat /\ Cardinality(Passed') \in Nat
      /\ Cardinality(Passed') <= Cardinality(RunningCalls')
  BY <1>2, FS_CardinalityType, FS_Subset
<1>4. episodeFailures \in Nat /\ episodeStopped \in BOOLEAN
  BY <1>1 DEF WellFormed, BatchTypeOK
<1>5. CASE BeginBatch
  <2>1. Passed' = {} /\ RunningCalls' = {}
    BY <1>5 DEF BeginBatch, Passed, RunningCalls, Running, Slots
  <2>2. Cardinality({}) = 0
    BY FS_EmptySet
  <2>3. Cardinality(RunningCalls') = 0 /\ Cardinality(Passed') = 0
    BY <2>1, <2>2
  <2>4. episodeFailures' = episodeFailures /\ episodeStopped' = episodeStopped
    BY <1>5 DEF BeginBatch, gateVars
  <2>5. QED
    BY <1>1, <1>3, <1>4, <2>3, <2>4 DEF Budget
<1>6. ASSUME NEW i \in Slots, CallStep(i) PROVE Budget'
  <2> DEFINE o == calls[i]
  <2>1. calls' = calls /\ i \in DOMAIN calls /\ o \in Ops /\ \E to \in CallPCs : callPC' = [callPC EXCEPT ![i] = to]
    BY <1>1, <1>6, GateIs, Zenon
  <2>2. \A k \in DOMAIN calls : k # i => (k \in Passed' <=> k \in Passed)
                                      /\ (k \in RunningCalls' <=> k \in RunningCalls)
    BY <1>1, <2>1, PassedIs
  <2>3. Cardinality(RunningCalls') <= maxParallel
    <3>1. CASE StartCall(i)
      <4>1. Cardinality(RunningCalls) < maxParallel
        BY <3>1 DEF StartCall, HasSlot, RunningCalls
      <4>2. RunningCalls' \subseteq RunningCalls \cup {i}
        BY <2>1, <2>2 DEF RunningCalls
      <4>3. IsFiniteSet(RunningCalls \cup {i}) /\ Cardinality(RunningCalls \cup {i}) <= Cardinality(RunningCalls) + 1
        <5> DEFINE R == RunningCalls
        <5>1. IsFiniteSet(R) /\ Cardinality(R) \in Nat
          BY <1>2, <1>3
        <5> HIDE DEF R
        <5>2. /\ IsFiniteSet(R \cup {i})
              /\ Cardinality(R \cup {i}) = IF i \in R THEN Cardinality(R) ELSE Cardinality(R) + 1
          BY <5>1, FS_AddElement, Zenon
        <5>3. IsFiniteSet(R \cup {i}) /\ Cardinality(R \cup {i}) <= Cardinality(R) + 1
          BY <5>1, <5>2
        <5>4. QED
          BY <5>3 DEF R
      <4>4. Cardinality(RunningCalls') <= Cardinality(RunningCalls \cup {i})
        BY <4>2, <4>3, FS_Subset
      <4>5. Cardinality(RunningCalls \cup {i}) \in Nat
        BY <4>3, FS_CardinalityType
      <4>6. QED
        BY <1>3, <4>1, <4>3, <4>4, <4>5
    <3>2. CASE Running(i)
      <4>1. RunningCalls' \subseteq RunningCalls
        BY <2>1, <2>2, <3>2 DEF RunningCalls
      <4>2. Cardinality(RunningCalls') <= Cardinality(RunningCalls)
        BY <1>2, <4>1, FS_Subset
      <4>3. QED
        BY <1>1, <1>3, <4>2 DEF Budget
    <3>3. QED
      BY <1>1, <1>6, <3>1, <3>2, GateIs, Zenon
  <2>4. CASE /\ Qualifies(i)
             /\ episodeFailures' = episodeFailures + 1
             /\ episodeStopped' = (episodeStopped \/ episodeFailures' >= episodeFailureLimit)
             /\ callPC'[i] = "done"
    <3>1. i \in Passed /\ i \notin Passed'
      BY <2>1, <2>4 DEF Qualifies, Passed
    <3>2. Passed' \subseteq Passed \ {i}
      BY <2>1, <2>2, <3>1 DEF Passed
    <3>3. IsFiniteSet(Passed \ {i}) /\ Cardinality(Passed \ {i}) = Cardinality(Passed) - 1
      BY <1>2, <3>1, FS_RemoveElement
    <3>4. Cardinality(Passed') <= Cardinality(Passed) - 1
      BY <3>2, <3>3, FS_Subset
    <3>5. ~episodeStopped' => episodeFailures' < episodeFailureLimit
      <4>1. ~episodeStopped' => ~(episodeFailures' >= episodeFailureLimit)
        BY <2>4, Zenon
      <4>2. QED
        BY <1>4, <2>4, <4>1
    <3>6. QED
      BY <1>1, <1>3, <1>4, <2>3, <2>4, <3>4, <3>5 DEF Budget
  <2>5. CASE /\ UNCHANGED <<episodeFailures, episodeStopped>>
             /\ \/ ReadOnly(o)
                \/ callPC'[i] \notin {"run", "failed"}
                \/ callPC[i] = "run"
                \/ ~Refused(o)
    <3>1. ~episodeStopped' => episodeFailures' < episodeFailureLimit
      BY <1>1, <2>5 DEF Budget
    <3>2. CASE ~episodeStopped
      BY <1>1, <1>3, <1>4, <2>3, <2>5, <3>1, <3>2 DEF Budget
    <3>3. CASE episodeStopped
      <4>1. i \in Passed' => i \in Passed
        BY <2>1, <2>5, <3>3 DEF Passed, Refused
      <4>2. Passed' \subseteq Passed
        BY <2>1, <2>2, <4>1 DEF Passed
      <4>3. Cardinality(Passed') <= Cardinality(Passed)
        BY <1>2, <4>2, FS_Subset
      <4>4. QED
        BY <1>1, <1>3, <1>4, <2>3, <2>5, <3>1, <4>3 DEF Budget
    <3>4. QED
      BY <3>2, <3>3
  <2>6. QED
    BY <1>1, <1>6, <2>4, <2>5, GateIs, Zenon
<1>7. CASE MapFault \/ UNCHANGED toolVars
  <2>1. calls' = calls /\ callPC' = callPC /\ episodeFailures' = episodeFailures /\ episodeStopped' = episodeStopped
    BY <1>7 DEF MapFault, toolVars, batchVars, gateVars
  <2>2. Passed' = Passed /\ RunningCalls' = RunningCalls
    BY <2>1 DEF Passed, RunningCalls, Running
  <2>3. QED
    BY <1>1, <2>1, <2>2, Zenon DEF Budget
<1>8. QED
  BY <1>1, <1>5, <1>6, <1>7 DEF BatchNext

-----------------------------------------------------------------------------
(* The theorems.                                                           *)

BatchInv == WellFormed /\ ConflictsOrdered /\ Tries /\ Budget

\* A fresh turn satisfies the invariant, and every step of a call, a batch
\* or the runtime keeps it.
THEOREM BatchInvariance == BatchSpec => []BatchInv
<1>1. BatchInit => BatchInv
  <2>1. SUFFICES ASSUME BatchInit PROVE BatchInv
    OBVIOUS
  <2>2. WellFormed
    BY <2>1, InitWellFormed
  <2>3. DOMAIN calls = {} /\ episodeFailures = 0 /\ ~episodeStopped
    BY <2>1 DEF BatchInit
  <2>4. Passed = {} /\ RunningCalls = {}
    BY <2>3 DEF Passed, RunningCalls
  <2>5. Tries
    BY <2>1, <2>4, LimitsAssumption DEF BatchInit, NoneOf, Tries, FailingOpStops
  <2>6. Budget
    BY <2>3, <2>4, LimitsAssumption, FS_EmptySet DEF Budget
  <2>7. QED
    BY <2>2, <2>3, <2>5, <2>6 DEF BatchInv, ConflictsOrdered
<1>2. BatchInv /\ [BatchNext]_toolVars => BatchInv'
  <2>1. SUFFICES ASSUME BatchInv, [BatchNext]_toolVars PROVE BatchInv'
    OBVIOUS
  <2>2. WellFormed'
    BY <2>1, WellFormedKept DEF BatchInv
  <2>3. QED
    BY <2>1, <2>2, OrderKept, TriesKept, BudgetKept DEF BatchInv
<1>3. QED
  BY <1>1, <1>2, PTL DEF BatchSpec

\* The state of the batch, the guards and the goroutines has its type.
THEOREM BatchTypes == BatchSpec => []BatchTypeOK
<1>1. BatchInv => BatchTypeOK
  BY DEF BatchInv, WellFormed
<1>2. QED
  BY <1>1, BatchInvariance, PTL

\* partitionToolCalls and runParallel never let two calls that interfere
\* overlap, nor start them in another order than the model's.
THEOREM OrderCorrect == BatchSpec => []ConflictsOrdered
<1>1. BatchInv => ConflictsOrdered
  BY DEF BatchInv
<1>2. QED
  BY <1>1, BatchInvariance, PTL

\* The gate of op_gate.go stops an operation at its threshold although the
\* calls of a run pass it before the results of the others are observed.
THEOREM StopCorrect == BatchSpec => []FailingOpStops
<1>1. BatchInv => FailingOpStops
  BY DEF BatchInv, Tries
<1>2. QED
  BY <1>1, BatchInvariance, PTL

\* Parallel failures exceed the budget of the turn by less than maxParallel.
THEOREM BudgetCorrect == BatchSpec => []TurnFailuresBounded
<1>1. BatchInv => TurnFailuresBounded
  <2>1. SUFFICES ASSUME BatchInv PROVE TurnFailuresBounded
    OBVIOUS
  <2>2. Cardinality(Passed) \in Nat
    BY <2>1, CallsFinite, FS_CardinalityType DEF BatchInv
  <2>3. QED
    BY <2>1, <2>2, LimitsAssumption DEF BatchInv, Budget, WellFormed, BatchTypeOK, TurnFailuresBounded
<1>2. QED
  BY <1>1, BatchInvariance, PTL
=============================================================================
