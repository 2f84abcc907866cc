-------------------------- MODULE ApprovalBroker --------------------------
(***************************************************************************)
(* User prompts and approval modes of internal/control/controller.go with  *)
(* the gate of internal/permission and the checks of agent.executeOne.     *)
(*                                                                         *)
(* A request is one call that may need the user: a writer tool call (of    *)
(* the turn or of a background sub-agent), the plan and replan approvals   *)
(* of the turn, or an `ask` question.  At most one prompt is outstanding   *)
(* (promptMu); frontends answer it (Approve, AnswerQuestion) or change the *)
(* mode (SetToolApprovalMode, SetPlanMode, SetMode) from other goroutines. *)
(* Each region under c.mu is one action, and what a goroutine does between *)
(* two regions is another.                                                 *)
(***************************************************************************)
EXTENDS Naturals, FiniteSets

CONSTANTS Plans,       \* exit_plan_mode approvals
          Replans,     \* compose_replan approvals
          Questions,   \* `ask` tool calls
          Writes,      \* writer calls no rule matches (edit_file ...): Policy.Mode decides
          AskRuled,    \* writer calls an explicit ask rule matches
          Background,  \* the requests made under a background job's context
          Setters,     \* frontends that may change the modes concurrently
          Ops,         \* the calls they make (bound): "tool", "plan", "both"
          NoOne        \* promptMu is free

Tools == Writes \cup AskRuled
UserDecisions == Plans \cup Replans
Requests == UserDecisions \cup Questions \cup Tools

ASSUME KindsAssumption ==
    /\ Plans \cap (Replans \cup Questions \cup Tools) = {}
    /\ Replans \cap (Questions \cup Tools) = {}
    /\ Questions \cap Tools = {}
    /\ Writes \cap AskRuled = {}
    /\ Background \subseteq Questions \cup Tools
    /\ NoOne \notin Requests
    /\ "Edit" \notin Requests
    /\ Ops \subseteq {"tool", "plan", "both"}

VARIABLES
    mode,         \* c.toolApprovalMode
    planMode,     \* c.planMode
    hardDeny,     \* c.policy.HardDeny is installed
    execPlan,     \* executor.planMode
    gate,         \* the executor's gate: policy mode and HardDeny it was built with
    approvedPlan, \* c.approvedPlanAutoApproveTools
    granted,      \* c.granted: scopes allowed for the session
    pc,           \* request -> where its goroutine stands
    promptMu,     \* the request that holds c.promptMu
    pending,      \* c.approvals and c.asks: requests waiting for an answer
    autoDrain,    \* those of them whose entry says so: a change to auto answers them
    sending,      \* request -> answer taken from the table, not yet sent
    reply,        \* request -> what its reply channel (capacity 1) holds
    answered,     \* requests the user answered with yes (history)
    cancelled,    \* contexts that are done
    spc,          \* setter -> where its call stands
    sarg,         \* setter -> the mode and plan arguments of its call
    sgate,        \* setter -> the gate it built
    drained       \* setter -> requests it took from the table

modeVars == <<mode, planMode, hardDeny, execPlan, gate, approvedPlan>>
promptVars == <<granted, pc, promptMu, pending, autoDrain, sending, reply, answered>>
setterVars == <<spc, sarg, sgate, drained>>
vars == <<modeVars, promptVars, cancelled, setterVars>>

Modes == {"ask", "auto", "yolo"}
Gates == [mode : {"ask", "allow"}, hardDeny : BOOLEAN]
Answers == {"none", "deny", "allow", "session"}
Contexts == {"turn", "job"}
PCs == {"idle", "gated", "approver", "locking", "locked", "waiting", "allowed",
        "refused", "aborted", "blocked", "executed", "planOff", "executing", "finished"}

Context(r) == IF r \in Background THEN "job" ELSE "turn"

\* SessionGrantRuleForScope: file mutations share one grant.
Scope(r) == IF r \in Writes THEN "Edit" ELSE r

TypeOK ==
    /\ mode \in Modes
    /\ {planMode, hardDeny, execPlan, approvedPlan} \subseteq BOOLEAN
    /\ gate \in Gates
    /\ granted \subseteq {Scope(r) : r \in Requests}
    /\ pc \in [Requests -> PCs]
    /\ promptMu \in Requests \cup {NoOne}
    /\ pending \subseteq Requests /\ autoDrain \subseteq Requests
    /\ sending \in [Requests -> Answers]
    /\ reply \in [Requests -> Answers]
    /\ answered \subseteq Requests
    /\ cancelled \subseteq Contexts
    /\ spc \in [Setters -> {"idle", "planLocked", "bothLocked", "toMode", "modeSet", "gateBuilt", "refreshed"}]
    /\ sarg \in [Setters -> [mode : Modes, plan : BOOLEAN]]
    /\ sgate \in [Setters -> Gates]
    /\ drained \in [Setters -> SUBSET Requests]

\* What a setter's locals hold outside its call.
NoArgs == [mode |-> "ask", plan |-> FALSE]
NoGate == [mode |-> "ask", hardDeny |-> FALSE]

Init ==
    /\ mode = "ask"
    /\ planMode = FALSE
    /\ hardDeny = FALSE
    /\ execPlan = FALSE
    /\ gate = [mode |-> "ask", hardDeny |-> FALSE]
    /\ approvedPlan = FALSE
    /\ granted = {}
    /\ pc = [r \in Requests |-> "idle"]
    /\ promptMu = NoOne
    /\ pending = {} /\ autoDrain = {}
    /\ sending = [r \in Requests |-> "none"]
    /\ reply = [r \in Requests |-> "none"]
    /\ answered = {}
    /\ cancelled = {}
    /\ spc = [s \in Setters |-> "idle"]
    /\ sarg = [s \in Setters |-> NoArgs]
    /\ sgate = [s \in Setters |-> NoGate]
    /\ drained = [s \in Setters |-> {}]

-----------------------------------------------------------------------------
(* The decisions taken under c.mu.                                         *)

\* approvalBypassAllowsLocked
BypassAllows(r) == r \notin UserDecisions /\ (mode = "yolo" \/ approvedPlan)

\* sessionGrantAllowsLocked
GrantAllows(r) == Scope(r) \in granted

\* autoApprovalWouldAllowLocked
AutoAllows(r) == r \in Writes /\ ~hardDeny

\* Policy.Decide of gate g: HardDeny, then the rules, then the mode.
Decide(g, r) ==
    IF g.hardDeny THEN "deny"
    ELSE IF r \in AskRuled \/ g.mode = "ask" THEN "ask" ELSE "allow"

\* The policy mode of the gate newInteractiveGate builds.
PolicyMode == IF mode = "ask" THEN "ask" ELSE "allow"

Goes(r, to) == pc' = [pc EXCEPT ![r] = to]

-----------------------------------------------------------------------------
(* A tool call in executeOne, up to the approver.                          *)

PlanModeCheck(r) ==
    /\ r \in Tools
    /\ pc[r] = "idle"
    /\ Goes(r, IF execPlan THEN "blocked" ELSE "gated")
    /\ UNCHANGED <<modeVars, granted, promptMu, pending, autoDrain, sending, reply, answered, cancelled, setterVars>>

GateCheck(r) ==
    /\ pc[r] = "gated"
    /\ \/ Decide(gate, r) = "deny" /\ Goes(r, "blocked")
       \/ Decide(gate, r) = "allow" /\ Goes(r, "allowed")
       \/ Decide(gate, r) = "ask" /\ Goes(r, "approver")
    /\ UNCHANGED <<modeVars, granted, promptMu, pending, autoDrain, sending, reply, answered, cancelled, setterVars>>

Execute(r) ==
    /\ r \in Tools
    /\ pc[r] = "allowed"
    /\ Goes(r, "executed")
    /\ UNCHANGED <<modeVars, granted, promptMu, pending, autoDrain, sending, reply, answered, cancelled, setterVars>>

-----------------------------------------------------------------------------
(* Plan and replan approvals and questions enter here.                     *)

\* The turn's Run returned with a proposal while plan mode is on, the compose
\* runner wants to revise the plan it executes, or the model asks.
Prompt(r) ==
    /\ pc[r] = "idle"
    /\ \/ r \in Plans /\ planMode /\ Goes(r, "approver")
       \/ r \in Replans /\ approvedPlan /\ Goes(r, "approver")
       \/ r \in Questions /\ Goes(r, "locking")
    /\ UNCHANGED <<modeVars, granted, promptMu, pending, autoDrain, sending, reply, answered, cancelled, setterVars>>

\* gateApprover.Approve and the first check of requestApproval.
ApproverCheck(r) ==
    /\ pc[r] = "approver"
    /\ Goes(r, IF BypassAllows(r) \/ GrantAllows(r) THEN "allowed" ELSE "locking")
    /\ UNCHANGED <<modeVars, granted, promptMu, pending, autoDrain, sending, reply, answered, cancelled, setterVars>>

\* Variant: Ask without promptMu.
LockPromptUnlessQuestion(r) ==
    /\ pc[r] = "locking"
    /\ promptMu = NoOne \/ r \in Questions
    /\ promptMu' = IF r \in Questions THEN promptMu ELSE r
    /\ Goes(r, "locked")
    /\ UNCHANGED <<modeVars, granted, pending, autoDrain, sending, reply, answered, cancelled, setterVars>>

\* promptMu.Lock(): it does not look at the context.
LockPrompt(r) ==
    /\ pc[r] = "locking"
    /\ promptMu = NoOne
    /\ promptMu' = r
    /\ Goes(r, "locked")
    /\ UNCHANGED <<modeVars, granted, pending, autoDrain, sending, reply, answered, cancelled, setterVars>>

\* The entries of the table; what auto would allow is decided as they are made.
Registers(r) ==
    /\ pending' = pending \cup {r}
    /\ autoDrain' = IF AutoAllows(r) THEN autoDrain \cup {r} ELSE autoDrain

Deletes(rs) == pending' = pending \ rs /\ autoDrain' = autoDrain \ rs

\* Variant: requestApproval without the second check.
RegisterPromptBlindly(r) ==
    /\ pc[r] = "locked"
    /\ Goes(r, "waiting")
    /\ Registers(r)
    /\ UNCHANGED <<modeVars, granted, promptMu, sending, reply, answered, cancelled, setterVars>>

\* The re-check under c.mu, then the entry in the table of prompts.
RegisterPrompt(r) ==
    /\ pc[r] = "locked"
    /\ IF r \notin Questions /\ (BypassAllows(r) \/ GrantAllows(r))
       THEN Goes(r, "allowed") /\ promptMu' = NoOne /\ UNCHANGED <<pending, autoDrain>>
       ELSE Goes(r, "waiting") /\ Registers(r) /\ UNCHANGED promptMu
    /\ UNCHANGED <<modeVars, granted, sending, reply, answered, cancelled, setterVars>>

\* Approve / AnswerQuestion: look up and delete under c.mu ...  (For a plan or
\* a question a session answer is a plain yes.)
Approve(r, a) ==
    /\ r \in pending
    /\ a = "session" => r \in Tools
    /\ Deletes({r})
    /\ sending' = [sending EXCEPT ![r] = a]
    /\ answered' = IF a = "deny" THEN answered ELSE answered \cup {r}
    /\ UNCHANGED <<modeVars, granted, pc, promptMu, reply, cancelled, setterVars>>

\* ... then send on the buffered channel, which must have room.
SendReply(r) ==
    /\ sending[r] # "none"
    /\ reply[r] = "none"
    /\ reply' = [reply EXCEPT ![r] = sending[r]]
    /\ sending' = [sending EXCEPT ![r] = "none"]
    /\ UNCHANGED <<modeVars, granted, pc, promptMu, pending, autoDrain, answered, cancelled, setterVars>>

\* The reply arm of the select: grant for the session, release promptMu.
ReceiveReply(r) ==
    /\ pc[r] = "waiting"
    /\ reply[r] # "none"
    /\ granted' = IF reply[r] = "session" /\ r \in Tools THEN granted \cup {Scope(r)} ELSE granted
    /\ Goes(r, IF reply[r] = "deny" THEN "refused" ELSE "allowed")
    /\ promptMu' = IF promptMu = r THEN NoOne ELSE promptMu
    /\ reply' = [reply EXCEPT ![r] = "none"]
    /\ UNCHANGED <<modeVars, pending, autoDrain, sending, answered, cancelled, setterVars>>

\* The ctx.Done arm of the select.
PromptCancelled(r) ==
    /\ pc[r] = "waiting"
    /\ Context(r) \in cancelled
    /\ Deletes({r})
    /\ Goes(r, "aborted")
    /\ promptMu' = IF promptMu = r THEN NoOne ELSE promptMu
    /\ UNCHANGED <<modeVars, granted, sending, reply, answered, cancelled, setterVars>>

-----------------------------------------------------------------------------
(* The turn after its plan was approved (runTurnWithRawDisplay).           *)

\* SetPlanMode(false), the region under c.mu.
ExitPlanMode(r) ==
    /\ r \in Plans
    /\ pc[r] = "allowed"
    /\ planMode' = FALSE
    /\ hardDeny' = FALSE
    /\ Goes(r, "planOff")
    /\ UNCHANGED <<mode, execPlan, gate, approvedPlan>>
    /\ UNCHANGED <<granted, promptMu, pending, autoDrain, sending, reply, answered, cancelled, setterVars>>

\* executor.SetPlanMode(false), then the window in which writers are allowed.
OpenPlanWindow(r) ==
    /\ pc[r] = "planOff"
    /\ execPlan' = FALSE
    /\ approvedPlan' = TRUE
    /\ Goes(r, "executing")
    /\ UNCHANGED <<mode, planMode, hardDeny, gate>>
    /\ UNCHANGED <<granted, promptMu, pending, autoDrain, sending, reply, answered, cancelled, setterVars>>

\* The execution returns, also on an error or a cancel: the deferred reset.
ClosePlanWindow(r) ==
    /\ pc[r] = "executing"
    /\ approvedPlan' = FALSE
    /\ Goes(r, "finished")
    /\ UNCHANGED <<mode, planMode, hardDeny, execPlan, gate>>
    /\ UNCHANGED <<granted, promptMu, pending, autoDrain, sending, reply, answered, cancelled, setterVars>>

-----------------------------------------------------------------------------
(* Mode changes by the frontends.                                          *)

\* Variant: the drain takes plan approvals with it.
DrainableAll(m) ==
    IF m = "yolo" THEN pending ELSE IF m = "auto" THEN pending \cap autoDrain ELSE {}

\* drainApprovalsLocked for mode m.
Drainable(m) ==
    IF m = "yolo" THEN pending \cap Tools
    ELSE IF m = "auto" THEN pending \cap Tools \cap autoDrain ELSE {}

\* The region of SetToolApprovalMode under c.mu.
LockedSetMode(s, m) ==
    /\ mode' = m
    /\ drained' = [drained EXCEPT ![s] = Drainable(m)]
    /\ Deletes(Drainable(m))
    /\ spc' = [spc EXCEPT ![s] = "modeSet"]
    /\ UNCHANGED <<planMode, hardDeny, execPlan, gate, approvedPlan>>
    /\ UNCHANGED <<granted, pc, promptMu, sending, reply, answered, cancelled, sgate>>

SetToolApprovalMode(s, m) ==
    /\ "tool" \in Ops
    /\ spc[s] = "idle"
    /\ LockedSetMode(s, m)
    /\ UNCHANGED sarg

\* newInteractiveGate: the policy and the mode as they are now.
BuildGate(s) ==
    /\ spc[s] = "modeSet"
    /\ sgate' = [sgate EXCEPT ![s] = [mode |-> PolicyMode, hardDeny |-> hardDeny]]
    /\ spc' = [spc EXCEPT ![s] = "gateBuilt"]
    /\ UNCHANGED <<modeVars, promptVars, cancelled, sarg, drained>>

\* executor.SetGate
InstallGate(s) ==
    /\ spc[s] = "gateBuilt"
    /\ gate' = sgate[s]
    /\ sgate' = [sgate EXCEPT ![s] = NoGate]
    /\ spc' = [spc EXCEPT ![s] = "refreshed"]
    /\ UNCHANGED <<mode, planMode, hardDeny, execPlan, approvedPlan>>
    /\ UNCHANGED <<promptVars, cancelled, sarg, drained>>

\* The drained approvals are answered with allow.
ReplyDrained(s) ==
    /\ spc[s] = "refreshed"
    /\ reply' = [r \in Requests |-> IF r \in drained[s] THEN "allow" ELSE reply[r]]
    /\ drained' = [drained EXCEPT ![s] = {}]
    /\ spc' = [spc EXCEPT ![s] = "idle"]
    /\ UNCHANGED <<modeVars, granted, pc, promptMu, pending, autoDrain, sending, answered, cancelled, sarg, sgate>>

\* SetPlanMode: c.planMode and c.policy under c.mu, then the executor.
SetPlanMode(s, v) ==
    /\ "plan" \in Ops
    /\ spc[s] = "idle"
    /\ planMode' = v
    /\ hardDeny' = v
    /\ sarg' = [sarg EXCEPT ![s].plan = v]
    /\ spc' = [spc EXCEPT ![s] = "planLocked"]
    /\ UNCHANGED <<mode, execPlan, gate, approvedPlan, promptVars, cancelled, sgate, drained>>

\* SetMode: c.planMode alone, then the executor, then the approval mode.
SetMode(s, v, m) ==
    /\ "both" \in Ops
    /\ m \in {"ask", "yolo"}
    /\ spc[s] = "idle"
    /\ planMode' = v
    /\ sarg' = [sarg EXCEPT ![s] = [mode |-> m, plan |-> v]]
    /\ spc' = [spc EXCEPT ![s] = "bothLocked"]
    /\ UNCHANGED <<mode, hardDeny, execPlan, gate, approvedPlan, promptVars, cancelled, sgate, drained>>

SetExecutorPlan(s) ==
    /\ \/ spc[s] = "planLocked" /\ spc' = [spc EXCEPT ![s] = "idle"]
       \/ spc[s] = "bothLocked" /\ spc' = [spc EXCEPT ![s] = "toMode"]
    /\ execPlan' = sarg[s].plan
    /\ sarg' = [sarg EXCEPT ![s].plan = FALSE]
    /\ UNCHANGED <<mode, planMode, hardDeny, gate, approvedPlan, promptVars, cancelled, sgate, drained>>

SetModeContinues(s) ==
    /\ spc[s] = "toMode"
    /\ LockedSetMode(s, sarg[s].mode)
    /\ sarg' = [sarg EXCEPT ![s] = NoArgs]

\* Cancel of the turn, kill or end of the background job.
CancelContext(c) ==
    /\ cancelled' = cancelled \cup {c}
    /\ UNCHANGED <<modeVars, promptVars, setterVars>>

-----------------------------------------------------------------------------
RequestStep(r) ==
    \/ PlanModeCheck(r)
    \/ GateCheck(r)
    \/ Execute(r)
    \/ ApproverCheck(r)
    \/ LockPrompt(r)
    \/ RegisterPrompt(r)
    \/ SendReply(r)
    \/ ReceiveReply(r)
    \/ PromptCancelled(r)
    \/ ExitPlanMode(r)
    \/ OpenPlanWindow(r)
    \/ ClosePlanWindow(r)

SetterStep(s) ==
    \/ BuildGate(s)
    \/ InstallGate(s)
    \/ ReplyDrained(s)
    \/ SetExecutorPlan(s)
    \/ SetModeContinues(s)

Next ==
    \/ \E r \in Requests : Prompt(r) \/ RequestStep(r)
    \/ \E r \in Requests : \E a \in Answers \ {"none"} : Approve(r, a)
    \/ \E s \in Setters :
          \/ SetterStep(s)
          \/ \E m \in Modes : SetToolApprovalMode(s, m)
          \/ \E v \in BOOLEAN : SetPlanMode(s, v)
          \/ \E v \in BOOLEAN, m \in Modes : SetMode(s, v, m)
    \/ \E r \in Requests : CancelContext(Context(r))

Spec == Init /\ [][Next]_vars

\* Goroutines that can run do run, promptMu included (Go's mutex hands over
\* to the longest waiter).  The user need not answer nor change a mode.
Fairness ==
    /\ \A r \in Requests : WF_vars(RequestStep(r)) /\ SF_vars(LockPrompt(r))
    /\ \A s \in Setters : WF_vars(SetterStep(s))

FairSpec == Spec /\ Fairness

-----------------------------------------------------------------------------
(* Properties.                                                             *)

\* At most one prompt is outstanding, tool approvals and questions together,
\* and it is the one of the request that holds promptMu.
OnePrompt == \A r \in Requests : r \in pending \/ pc[r] = "waiting" => promptMu = r

\* Each reply channel is sent to at most once, so the answering goroutine (a
\* frontend or SetToolApprovalMode) never blocks: whoever takes an entry from
\* the table is alone in doing so, and no answer is there yet.
AnsweredOnce ==
    /\ \A r \in Requests :
          r \in pending => sending[r] = "none" /\ reply[r] = "none" /\ \A s \in Setters : r \notin drained[s]
    /\ \A r \in Requests : sending[r] # "none" => reply[r] = "none" /\ \A s \in Setters : r \notin drained[s]
    /\ \A s \in Setters : \A r \in drained[s] : reply[r] = "none" /\ \A u \in Setters \ {s} : r \notin drained[u]

\* The prompts of parallel tools take their turns and each gets one answer.
PromptsInTurn == OnePrompt /\ AnsweredOnce

\* Leaving plan mode, revising a plan and answering a question take the user's
\* own yes: no approval mode, drain or session grant stands in for it.
UserDecides ==
    \A r \in UserDecisions \cup Questions :
        pc[r] \in {"allowed", "planOff", "executing", "finished"} => r \in answered

\* In YOLO mode no tool call waits for the user: those that waited when the
\* mode was set were drained, those that come later are not registered.
YoloLeavesNoPrompt == mode = "yolo" => pending \cap Tools = {}

(* What the comments of the code say and the code does not do.             *)

Settled == \A s \in Setters : spc[s] = "idle"
PlanSettled == Settled /\ \A r \in Plans : pc[r] # "planOff"

\* "When plan mode is on, all writer tools are hard-denied at the permission
\* layer": the gate the executor consults has HardDeny while plan mode is on.
PlanModeHardDenies == PlanSettled /\ planMode => gate.hardDeny

\* "When plan mode is off, HardDeny is cleared so normal operation resumes".
PlanModeOffClears == PlanSettled /\ ~planMode => ~gate.hardDeny

\* A mode switch is not seen half applied: once no switch is in progress, the
\* executor's gate is the one of the mode the controller reports.
GateFollowsMode == Settled => gate.mode = PolicyMode

\* "A goroutine blocked awaiting approval unblocks via the cancelled context".
CancelUnblocksApproval ==
    \A r \in Requests :
        pc[r] \in {"locking", "waiting"} /\ Context(r) \in cancelled ~> pc[r] \notin {"locking", "waiting"}
=============================================================================
