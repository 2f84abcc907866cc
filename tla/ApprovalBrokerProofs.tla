------------------------ MODULE ApprovalBrokerProofs ------------------------
(***************************************************************************)
(* ApprovalBroker for every set of requests and setters: one prompt at a   *)
(* time, one answer per prompt, and no decision of the user's taken for    *)
(* them.                                                                   *)
(***************************************************************************)
EXTENDS ApprovalBroker, TLAPS

\* A setter's drained approvals are pending tool calls.
LEMMA DrainsTools ==
    ASSUME NEW m
    PROVE  Drainable(m) \subseteq pending \cap Tools
  BY DEF Drainable

LEMMA ScopeInRequests ==
    ASSUME NEW r \in Requests
    PROVE  Scope(r) \in {Scope(q) : q \in Requests}
  OBVIOUS

\* Every reachable state has the shape TypeOK gives it.
THEOREM TypeCorrect == Spec => []TypeOK
<1>1. Init => TypeOK
  <2> SUFFICES ASSUME Init PROVE TypeOK
    OBVIOUS
  <2>1. sgate \in [Setters -> Gates] /\ sarg \in [Setters -> [mode : Modes, plan : BOOLEAN]] /\ gate \in Gates
    BY DEF Init, NoArgs, NoGate, Gates, Modes
  <2>2. {planMode, hardDeny, execPlan, approvedPlan} \subseteq BOOLEAN
    BY DEF Init
  <2>3. QED
    BY <2>1, <2>2 DEF Init, TypeOK, Modes, Answers, Contexts, PCs
<1>2. TypeOK /\ [Next]_vars => TypeOK'
  <2> SUFFICES ASSUME TypeOK, [Next]_vars PROVE TypeOK'
    OBVIOUS
  <2> USE DEF TypeOK, modeVars, promptVars, setterVars
  <2>1. ASSUME NEW r \in Requests, Prompt(r) \/ RequestStep(r) PROVE TypeOK'
    <3>1. CASE PlanModeCheck(r) \/ GateCheck(r) \/ Execute(r) \/ Prompt(r) \/ ApproverCheck(r)
      BY <3>1 DEF PlanModeCheck, GateCheck, Execute, Prompt, ApproverCheck, Goes, PCs
    <3>2. CASE LockPrompt(r) \/ RegisterPrompt(r) \/ PromptCancelled(r)
      BY <3>2 DEF LockPrompt, RegisterPrompt, PromptCancelled, Goes, PCs, Registers, Deletes
    <3>3. CASE SendReply(r)
      BY <3>3 DEF SendReply, Answers
    <3>4. CASE ReceiveReply(r)
      BY <3>4 DEF ReceiveReply, Goes, PCs, Answers
    <3>5. CASE ExitPlanMode(r)
      <4>1. {planMode', hardDeny', execPlan', approvedPlan'} \subseteq BOOLEAN
        BY <3>5 DEF ExitPlanMode
      <4>2. QED
        BY <3>5, <4>1 DEF ExitPlanMode, Goes, PCs
    <3>6. CASE OpenPlanWindow(r)
      <4>1. {planMode', hardDeny', execPlan', approvedPlan'} \subseteq BOOLEAN
        BY <3>6 DEF OpenPlanWindow
      <4>2. QED
        BY <3>6, <4>1 DEF OpenPlanWindow, Goes, PCs
    <3>7. CASE ClosePlanWindow(r)
      <4>1. {planMode', hardDeny', execPlan', approvedPlan'} \subseteq BOOLEAN
        BY <3>7 DEF ClosePlanWindow
      <4>2. QED
        BY <3>7, <4>1 DEF ClosePlanWindow, Goes, PCs
    <3>8. QED
      BY <2>1, <3>1, <3>2, <3>3, <3>4, <3>5, <3>6, <3>7 DEF RequestStep
  <2>2. ASSUME NEW r \in Requests, NEW a \in Answers, Approve(r, a) PROVE TypeOK'
    BY <2>2 DEF Approve, Deletes
  <2>3. ASSUME NEW s \in Setters, NEW m \in Modes, LockedSetMode(s, m), sarg' \in [Setters -> [mode : Modes, plan : BOOLEAN]]
        PROVE  TypeOK'
    BY <2>3, DrainsTools DEF LockedSetMode, Deletes
  <2>4. ASSUME NEW s \in Setters, NEW m \in Modes, SetToolApprovalMode(s, m) PROVE TypeOK'
    BY <2>3, <2>4 DEF SetToolApprovalMode
  <2>5. ASSUME NEW s \in Setters, SetModeContinues(s) PROVE TypeOK'
    <3>1. sarg' \in [Setters -> [mode : Modes, plan : BOOLEAN]] /\ sarg[s].mode \in Modes
      BY <2>5 DEF SetModeContinues, NoArgs, Modes
    <3>2. QED
      BY <2>3, <2>5, <3>1 DEF SetModeContinues
  <2>6. ASSUME NEW s \in Setters, BuildGate(s) PROVE TypeOK'
    BY <2>6 DEF BuildGate, Gates, PolicyMode
  <2>7. ASSUME NEW s \in Setters, InstallGate(s) PROVE TypeOK'
    BY <2>7 DEF InstallGate, Gates, NoGate
  <2>8. ASSUME NEW s \in Setters, ReplyDrained(s) PROVE TypeOK'
    BY <2>8 DEF ReplyDrained, Answers
  <2>9. ASSUME NEW s \in Setters, NEW v \in BOOLEAN, SetPlanMode(s, v) PROVE TypeOK'
    BY <2>9 DEF SetPlanMode
  <2>10. ASSUME NEW s \in Setters, NEW v \in BOOLEAN, NEW m \in Modes, SetMode(s, v, m) PROVE TypeOK'
    BY <2>10 DEF SetMode
  <2>11. ASSUME NEW s \in Setters, SetExecutorPlan(s) PROVE TypeOK'
    BY <2>11 DEF SetExecutorPlan
  <2>12. ASSUME NEW r \in Requests, CancelContext(Context(r)) PROVE TypeOK'
    BY <2>12 DEF CancelContext, Context, Contexts
  <2>13. CASE UNCHANGED vars
    BY <2>13 DEF vars
  <2>14. QED
    BY <2>1, <2>2, <2>4, <2>5, <2>6, <2>7, <2>8, <2>9, <2>10, <2>11, <2>12, <2>13 DEF Next, SetterStep
<1>3. QED
  BY <1>1, <1>2, PTL DEF Spec

-----------------------------------------------------------------------------
(* Prompts and their answers.                                              *)

Unregistered == {"idle", "gated", "approver", "locking", "locked"}

\* A registered request is locked or waiting, and holds promptMu.
HoldsLock == \A r \in Requests : pc[r] \in {"locked", "waiting"} => promptMu = r
PendingWaits == \A r \in pending : pc[r] = "waiting"

\* Nothing answers a request before it is registered.
Unasked ==
    \A r \in Requests : pc[r] \in Unregistered =>
        sending[r] = "none" /\ reply[r] = "none" /\ \A s \in Setters : r \notin drained[s]

PromptInv == HoldsLock /\ PendingWaits /\ AnsweredOnce /\ Unasked

LEMMA PromptInvGivesOnePrompt ==
    ASSUME TypeOK, PromptInv
    PROVE  OnePrompt
  BY DEF TypeOK, PromptInv, HoldsLock, PendingWaits, OnePrompt

\* What a step that neither touches the table nor an answer may do to pc.
LEMMA MovesKeepPromptInv ==
    ASSUME TypeOK, PromptInv, NEW r \in Requests, NEW to \in PCs, Goes(r, to),
           pc[r] \notin {"locked", "waiting"}, to \notin {"locked", "waiting"},
           to \in Unregistered => pc[r] \in Unregistered,
           UNCHANGED <<promptMu, pending, sending, reply, drained>>
    PROVE  PromptInv'
  BY DEF TypeOK, PromptInv, HoldsLock, PendingWaits, AnsweredOnce, Unasked, Goes

LEMMA PromptInvStep ==
    ASSUME TypeOK, PromptInv, [Next]_vars
    PROVE  PromptInv'
<1> USE DEF TypeOK, modeVars, promptVars, setterVars
<1>1. ASSUME NEW r \in Requests,
             \/ PlanModeCheck(r) \/ GateCheck(r) \/ Execute(r) \/ Prompt(r) \/ ApproverCheck(r)
             \/ ExitPlanMode(r) \/ OpenPlanWindow(r) \/ ClosePlanWindow(r)
      PROVE  PromptInv'
  <2>1. PICK to \in PCs :
           /\ Goes(r, to)
           /\ pc[r] \notin {"locked", "waiting"} /\ to \notin {"locked", "waiting"}
           /\ to \in Unregistered => pc[r] \in Unregistered
    <3>1. CASE PlanModeCheck(r)
      BY <3>1 DEF PlanModeCheck, PCs, Unregistered
    <3>2. CASE GateCheck(r)
      BY <3>2 DEF GateCheck, PCs, Unregistered
    <3>3. CASE Execute(r)
      BY <3>3 DEF Execute, PCs, Unregistered
    <3>4. CASE Prompt(r)
      BY <3>4 DEF Prompt, PCs, Unregistered
    <3>5. CASE ApproverCheck(r)
      BY <3>5 DEF ApproverCheck, PCs, Unregistered
    <3>6. CASE ExitPlanMode(r) \/ OpenPlanWindow(r) \/ ClosePlanWindow(r)
      BY <3>6 DEF ExitPlanMode, OpenPlanWindow, ClosePlanWindow, PCs, Unregistered
    <3>7. QED
      BY <1>1, <3>1, <3>2, <3>3, <3>4, <3>5, <3>6
  <2>2. UNCHANGED <<promptMu, pending, sending, reply, drained>>
    BY <1>1 DEF PlanModeCheck, GateCheck, Execute, Prompt, ApproverCheck, ExitPlanMode, OpenPlanWindow, ClosePlanWindow
  <2>3. QED
    BY <2>1, <2>2, MovesKeepPromptInv
<1>2. ASSUME NEW r \in Requests, LockPrompt(r) PROVE PromptInv'
  <2>1. HoldsLock'
    BY <1>2, KindsAssumption DEF PromptInv, LockPrompt, Goes, HoldsLock
  <2>2. PendingWaits' /\ AnsweredOnce' /\ Unasked'
    BY <1>2 DEF PromptInv, LockPrompt, Goes, PendingWaits, AnsweredOnce, Unasked, Unregistered
  <2>3. QED
    BY <2>1, <2>2 DEF PromptInv
<1>3. ASSUME NEW r \in Requests, RegisterPrompt(r) PROVE PromptInv'
  <2>1. /\ \A q \in Requests \ {r} : pc'[q] = pc[q] /\ pc[q] \notin {"locked", "waiting"}
        /\ pc[r] = "locked" /\ pc'[r] \in {"allowed", "waiting"}
        /\ pc'[r] = "waiting" => promptMu' = r
        /\ pending' \subseteq pending \cup {r}
        /\ pc'[r] = "allowed" => pending' = pending
        /\ UNCHANGED <<sending, reply, drained>>
    BY <1>3 DEF RegisterPrompt, Goes, PromptInv, HoldsLock, Registers
  <2>2. HoldsLock'
    BY <2>1 DEF HoldsLock
  <2>3. PendingWaits'
    BY <2>1 DEF PendingWaits, PromptInv
  <2>4. AnsweredOnce'
    BY <2>1 DEF AnsweredOnce, PromptInv, Unasked, Unregistered
  <2>5. Unasked'
    BY <2>1 DEF PromptInv, Unasked, Unregistered
  <2>6. QED
    BY <2>2, <2>3, <2>4, <2>5 DEF PromptInv
<1>4. ASSUME NEW r \in Requests, NEW a \in Answers, Approve(r, a) PROVE PromptInv'
  <2>1. HoldsLock' /\ PendingWaits'
    BY <1>4 DEF PromptInv, HoldsLock, PendingWaits, Approve, Deletes
  <2>2. AnsweredOnce'
    BY <1>4 DEF PromptInv, AnsweredOnce, Approve, Deletes
  <2>3. Unasked'
    BY <1>4 DEF PromptInv, Unasked, PendingWaits, Approve, Unregistered
  <2>4. QED
    BY <2>1, <2>2, <2>3 DEF PromptInv
<1>5. ASSUME NEW r \in Requests, SendReply(r) PROVE PromptInv'
  <2>1. HoldsLock' /\ PendingWaits'
    BY <1>5 DEF PromptInv, HoldsLock, PendingWaits, SendReply
  <2>2. AnsweredOnce'
    BY <1>5 DEF PromptInv, AnsweredOnce, SendReply
  <2>3. Unasked'
    BY <1>5 DEF PromptInv, Unasked, SendReply
  <2>4. QED
    BY <2>1, <2>2, <2>3 DEF PromptInv
<1>6. ASSUME NEW r \in Requests, ReceiveReply(r) PROVE PromptInv'
  <2>1. /\ \A q \in Requests \ {r} : pc'[q] = pc[q] /\ pc[q] \notin {"locked", "waiting"} /\ reply'[q] = reply[q]
        /\ pc'[r] \in {"refused", "allowed"} /\ reply'[r] = "none"
        /\ r \notin pending
        /\ UNCHANGED <<pending, sending, drained>>
    BY <1>6 DEF ReceiveReply, Goes, PromptInv, HoldsLock, AnsweredOnce
  <2>2. HoldsLock' /\ PendingWaits'
    BY <2>1 DEF HoldsLock, PendingWaits, PromptInv
  <2>3. AnsweredOnce'
    BY <2>1 DEF AnsweredOnce, PromptInv
  <2>4. Unasked'
    BY <2>1 DEF PromptInv, Unasked, Unregistered
  <2>5. QED
    BY <2>2, <2>3, <2>4 DEF PromptInv
<1>7. ASSUME NEW r \in Requests, PromptCancelled(r) PROVE PromptInv'
  <2>1. /\ \A q \in Requests \ {r} : pc'[q] = pc[q] /\ pc[q] \notin {"locked", "waiting"}
        /\ pc'[r] = "aborted"
        /\ pending' = pending \ {r}
        /\ UNCHANGED <<sending, reply, drained>>
    BY <1>7 DEF PromptCancelled, Goes, PromptInv, HoldsLock, Deletes
  <2>2. HoldsLock' /\ PendingWaits'
    BY <2>1 DEF HoldsLock, PendingWaits, PromptInv
  <2>3. AnsweredOnce' /\ Unasked'
    BY <2>1 DEF AnsweredOnce, Unasked, Unregistered, PromptInv
  <2>4. QED
    BY <2>2, <2>3 DEF PromptInv
<1>8. ASSUME NEW s \in Setters, NEW m \in Modes, LockedSetMode(s, m) PROVE PromptInv'
  <2>1. PICK D \in SUBSET pending :
           /\ drained' = [drained EXCEPT ![s] = D]
           /\ pending' = pending \ D
           /\ UNCHANGED <<pc, promptMu, sending, reply>>
    BY <1>8, DrainsTools DEF LockedSetMode, Deletes
  <2>2. HoldsLock' /\ PendingWaits'
    BY <2>1 DEF HoldsLock, PendingWaits, PromptInv
  <2>3. AnsweredOnce'
    BY <2>1 DEF AnsweredOnce, PromptInv
  <2>4. Unasked'
    BY <2>1 DEF Unasked, PendingWaits, Unregistered, PromptInv
  <2>5. QED
    BY <2>2, <2>3, <2>4 DEF PromptInv
<1>9. ASSUME NEW s \in Setters, ReplyDrained(s) PROVE PromptInv'
  <2>1. HoldsLock' /\ PendingWaits'
    BY <1>9 DEF PromptInv, HoldsLock, PendingWaits, ReplyDrained
  <2>2. AnsweredOnce'
    BY <1>9 DEF PromptInv, AnsweredOnce, ReplyDrained
  <2>3. Unasked'
    BY <1>9 DEF PromptInv, Unasked, ReplyDrained
  <2>4. QED
    BY <2>1, <2>2, <2>3 DEF PromptInv
<1>10. ASSUME UNCHANGED <<pc, promptMu, pending, sending, reply, drained>> PROVE PromptInv'
  BY <1>10 DEF PromptInv, HoldsLock, PendingWaits, AnsweredOnce, Unasked
<1>11. ASSUME NEW s \in Setters, SetterStep(s) PROVE PromptInv'
  <2>1. CASE SetModeContinues(s)
    BY <1>8, <2>1 DEF SetModeContinues
  <2>2. CASE BuildGate(s) \/ InstallGate(s) \/ SetExecutorPlan(s)
    BY <1>10, <2>2 DEF BuildGate, InstallGate, SetExecutorPlan
  <2>3. QED
    BY <1>9, <1>11, <2>1, <2>2 DEF SetterStep
<1>12. ASSUME NEW s \in Setters, NEW m \in Modes, NEW v \in BOOLEAN,
              SetToolApprovalMode(s, m) \/ SetPlanMode(s, v) \/ SetMode(s, v, m)
       PROVE  PromptInv'
  BY <1>8, <1>10, <1>12 DEF SetToolApprovalMode, SetPlanMode, SetMode
<1>13. ASSUME NEW r \in Requests, CancelContext(Context(r)) PROVE PromptInv'
  BY <1>10, <1>13 DEF CancelContext, Context, Contexts
<1>14. CASE UNCHANGED vars
  BY <1>10, <1>14 DEF vars
<1>15. ASSUME NEW r \in Requests, Prompt(r) \/ RequestStep(r) PROVE PromptInv'
  BY <1>1, <1>2, <1>3, <1>5, <1>6, <1>7, <1>15 DEF RequestStep
<1>16. QED
  <2>1. CASE \E r \in Requests : Prompt(r) \/ RequestStep(r)
    BY <1>15, <2>1
  <2>2. CASE \E r \in Requests : \E a \in Answers \ {"none"} : Approve(r, a)
    BY <1>4, <2>2
  <2>3. CASE \E s \in Setters : \/ SetterStep(s)
                                \/ \E m \in Modes : SetToolApprovalMode(s, m)
                                \/ \E v \in BOOLEAN : SetPlanMode(s, v)
                                \/ \E v \in BOOLEAN, m \in Modes : SetMode(s, v, m)
    <3>1. "ask" \in Modes /\ TRUE \in BOOLEAN
      BY DEF Modes
    <3>2. QED
      BY <1>11, <1>12, <2>3, <3>1
  <2>4. QED
    BY <1>13, <1>14, <2>1, <2>2, <2>3 DEF Next

\* At most one prompt is outstanding, and it is the one that holds promptMu
\* (requestApproval, Ask); no reply channel is sent to twice, so that the
\* goroutines of Approve, AnswerQuestion and SetToolApprovalMode never block.
THEOREM PromptsTakeTurns == Spec => []PromptsInTurn
<1>1. Init => PromptInv
  BY DEF Init, PromptInv, HoldsLock, PendingWaits, AnsweredOnce, Unasked
<1>2. TypeOK /\ PromptInv /\ [Next]_vars => PromptInv'
  BY PromptInvStep
<1>3. TypeOK /\ PromptInv => PromptsInTurn
  BY PromptInvGivesOnePrompt DEF PromptInv, PromptsInTurn
<1>4. QED
  BY <1>1, <1>2, <1>3, TypeCorrect, PTL DEF Spec

-----------------------------------------------------------------------------
(* The user's decisions.                                                   *)

Reserved == UserDecisions \cup Questions
Yes == {"allow", "session"}

\* Every yes on its way to a reserved request is the user's, and no session
\* grant covers one.
YesIsTheUsers ==
    \A r \in Reserved : sending[r] \in Yes \/ reply[r] \in Yes => r \in answered
DrainedAreTools == \A s \in Setters : drained[s] \subseteq Tools
GrantsAreTools == \A r \in Reserved : Scope(r) \notin granted
OwnPath ==
    /\ \A r \in Questions : pc[r] # "approver"
    /\ \A r \in Reserved : pc[r] # "gated"

DecideInv == YesIsTheUsers /\ DrainedAreTools /\ GrantsAreTools /\ OwnPath /\ UserDecides

LEMMA ReservedScope ==
    ASSUME NEW r \in Reserved, NEW t \in Tools
    PROVE  Scope(r) # Scope(t) /\ r \notin Tools /\ r \in Requests
  BY KindsAssumption DEF Scope, Reserved, Tools, UserDecisions, Requests

\* Neither check of requestApproval lets a reserved request pass.
LEMMA ReservedNotBypassed ==
    ASSUME TypeOK, DecideInv, NEW r \in UserDecisions
    PROVE  ~BypassAllows(r) /\ ~GrantAllows(r)
  BY DEF DecideInv, BypassAllows, GrantAllows, GrantsAreTools, Reserved

LEMMA DecideInvStep ==
    ASSUME TypeOK, DecideInv, [Next]_vars
    PROVE  DecideInv'
<1> USE DEF TypeOK, modeVars, promptVars, setterVars
<1>a. Reserved \subseteq Requests /\ Reserved \cap Tools = {} /\ UserDecisions \cap Questions = {}
  BY KindsAssumption DEF Reserved, Tools, UserDecisions, Requests
<1>b. Tools \subseteq Requests
  BY DEF Tools, Requests
<1>1. ASSUME NEW r \in Requests, NEW to \in PCs, Goes(r, to), UNCHANGED <<sending, reply, drained, granted, answered>>,
             r \in Questions => to # "approver",
             r \in Reserved => to # "gated",
             r \in Reserved /\ to \in {"allowed", "planOff", "executing", "finished"} => r \in answered
      PROVE  DecideInv'
  <2>1. YesIsTheUsers' /\ DrainedAreTools' /\ GrantsAreTools'
    BY <1>1 DEF DecideInv, YesIsTheUsers, DrainedAreTools, GrantsAreTools
  <2>2. OwnPath'
    BY <1>1 DEF DecideInv, OwnPath, Goes
  <2>3. UserDecides'
    BY <1>1 DEF DecideInv, UserDecides, Goes, Reserved
  <2>4. QED
    BY <2>1, <2>2, <2>3 DEF DecideInv
<1>2. ASSUME NEW r \in Requests, PlanModeCheck(r) \/ GateCheck(r) \/ Execute(r) PROVE DecideInv'
  <2>1. CASE PlanModeCheck(r)
    BY <1>1, <1>a, <2>1 DEF PlanModeCheck, PCs
  <2>2. CASE GateCheck(r)
    <3>1. r \notin Reserved
      BY <2>2 DEF GateCheck, DecideInv, OwnPath
    <3>2. QED
      BY <1>1, <2>2, <3>1 DEF GateCheck, PCs, Reserved
  <2>3. CASE Execute(r)
    BY <1>1, <1>a, <2>3 DEF Execute, PCs
  <2>4. QED
    BY <1>2, <2>1, <2>2, <2>3
<1>3. ASSUME NEW r \in Requests, Prompt(r) PROVE DecideInv'
  <2>1. CASE r \in Questions
    <3>1. r \notin Plans /\ r \notin Replans
      BY <1>a, <2>1 DEF UserDecisions
    <3>2. QED
      BY <1>1, <1>3, <3>1 DEF Prompt, PCs
  <2>2. CASE r \notin Questions
    BY <1>1, <1>3, <2>2 DEF Prompt, PCs
  <2>3. QED
    BY <2>1, <2>2
<1>4. ASSUME NEW r \in Requests, ApproverCheck(r) PROVE DecideInv'
  <2>1. CASE r \in Reserved
    <3>1. r \in UserDecisions
      BY <1>4, <2>1 DEF ApproverCheck, DecideInv, OwnPath, Reserved
    <3>2. Goes(r, "locking")
      BY <1>4, <3>1, ReservedNotBypassed DEF ApproverCheck
    <3>3. QED
      BY <1>1, <1>4, <3>2 DEF ApproverCheck, PCs
  <2>2. CASE r \notin Reserved
    BY <1>1, <1>4, <2>2 DEF ApproverCheck, PCs, Reserved
  <2>3. QED
    BY <2>1, <2>2
<1>5. ASSUME NEW r \in Requests, LockPrompt(r) PROVE DecideInv'
  BY <1>1, <1>5 DEF LockPrompt, PCs
<1>6. ASSUME NEW r \in Requests, RegisterPrompt(r) PROVE DecideInv'
  <2>1. CASE r \in Reserved
    <3>1. ~(r \notin Questions /\ (BypassAllows(r) \/ GrantAllows(r)))
      BY <2>1, ReservedNotBypassed DEF Reserved
    <3>2. Goes(r, "waiting")
      BY <1>6, <3>1 DEF RegisterPrompt
    <3>3. QED
      BY <1>1, <1>6, <3>2 DEF RegisterPrompt, PCs
  <2>2. CASE r \notin Reserved
    BY <1>1, <1>6, <2>2 DEF RegisterPrompt, PCs, Reserved
  <2>3. QED
    BY <2>1, <2>2
<1>7. ASSUME NEW r \in Requests, NEW a \in Answers, Approve(r, a) PROVE DecideInv'
  <2>1. YesIsTheUsers'
    BY <1>7, <1>a DEF DecideInv, YesIsTheUsers, Approve, Yes
  <2>2. DrainedAreTools' /\ GrantsAreTools' /\ OwnPath' /\ UserDecides'
    BY <1>7 DEF DecideInv, DrainedAreTools, GrantsAreTools, OwnPath, UserDecides, Approve
  <2>3. QED
    BY <2>1, <2>2 DEF DecideInv
<1>8. ASSUME NEW r \in Requests, SendReply(r) PROVE DecideInv'
  <2>1. YesIsTheUsers'
    BY <1>8, <1>a DEF DecideInv, YesIsTheUsers, SendReply, Yes
  <2>2. DrainedAreTools' /\ GrantsAreTools' /\ OwnPath' /\ UserDecides'
    BY <1>8 DEF DecideInv, DrainedAreTools, GrantsAreTools, OwnPath, UserDecides, SendReply
  <2>3. QED
    BY <2>1, <2>2 DEF DecideInv
<1>9. ASSUME NEW r \in Requests, ReceiveReply(r) PROVE DecideInv'
  <2>1. YesIsTheUsers' /\ DrainedAreTools'
    BY <1>9, <1>a DEF DecideInv, YesIsTheUsers, DrainedAreTools, ReceiveReply, Yes
  <2>2. GrantsAreTools'
    <3>1. granted' \subseteq granted \cup {Scope(t) : t \in Tools}
      BY <1>9 DEF ReceiveReply
    <3>2. QED
      BY <3>1, ReservedScope DEF DecideInv, GrantsAreTools
  <2>3. OwnPath'
    BY <1>9 DEF DecideInv, OwnPath, ReceiveReply, Goes
  <2>4. UserDecides'
    <3>1. r \in Reserved /\ pc'[r] # "refused" => r \in answered
      BY <1>9 DEF ReceiveReply, Goes, DecideInv, YesIsTheUsers, Yes, Answers
    <3>2. QED
      BY <1>9, <3>1 DEF ReceiveReply, Goes, DecideInv, UserDecides, Reserved
  <2>5. QED
    BY <2>1, <2>2, <2>3, <2>4 DEF DecideInv
<1>10. ASSUME NEW r \in Requests, PromptCancelled(r) PROVE DecideInv'
  BY <1>1, <1>10 DEF PromptCancelled, PCs
<1>11. ASSUME NEW r \in Requests, ExitPlanMode(r) \/ OpenPlanWindow(r) \/ ClosePlanWindow(r) PROVE DecideInv'
  <2>1. r \in Reserved => r \in answered
    BY <1>11 DEF ExitPlanMode, OpenPlanWindow, ClosePlanWindow, DecideInv, UserDecides, Reserved
  <2>2. QED
    BY <1>1, <1>11, <2>1 DEF ExitPlanMode, OpenPlanWindow, ClosePlanWindow, PCs
<1>12. ASSUME NEW s \in Setters, NEW m \in Modes, LockedSetMode(s, m) PROVE DecideInv'
  <2>1. DrainedAreTools'
    BY <1>12, DrainsTools DEF LockedSetMode, DecideInv, DrainedAreTools
  <2>2. YesIsTheUsers' /\ GrantsAreTools' /\ OwnPath' /\ UserDecides'
    BY <1>12 DEF LockedSetMode, DecideInv, YesIsTheUsers, GrantsAreTools, OwnPath, UserDecides
  <2>3. QED
    BY <2>1, <2>2 DEF DecideInv
<1>13. ASSUME NEW s \in Setters, ReplyDrained(s) PROVE DecideInv'
  <2>1. YesIsTheUsers'
    BY <1>13, <1>a DEF ReplyDrained, DecideInv, YesIsTheUsers, DrainedAreTools
  <2>2. DrainedAreTools' /\ GrantsAreTools' /\ OwnPath' /\ UserDecides'
    BY <1>13 DEF ReplyDrained, DecideInv, DrainedAreTools, GrantsAreTools, OwnPath, UserDecides
  <2>3. QED
    BY <2>1, <2>2 DEF DecideInv
<1>14. ASSUME UNCHANGED <<granted, pc, sending, reply, answered, drained>> PROVE DecideInv'
  BY <1>14 DEF DecideInv, YesIsTheUsers, DrainedAreTools, GrantsAreTools, OwnPath, UserDecides
<1>15. ASSUME NEW s \in Setters, SetterStep(s) PROVE DecideInv'
  <2>1. CASE SetModeContinues(s)
    BY <1>12, <2>1 DEF SetModeContinues
  <2>2. CASE BuildGate(s) \/ InstallGate(s) \/ SetExecutorPlan(s)
    BY <1>14, <2>2 DEF BuildGate, InstallGate, SetExecutorPlan
  <2>3. QED
    BY <1>13, <1>15, <2>1, <2>2 DEF SetterStep
<1>16. ASSUME NEW s \in Setters, NEW m \in Modes, NEW v \in BOOLEAN,
              SetToolApprovalMode(s, m) \/ SetPlanMode(s, v) \/ SetMode(s, v, m)
       PROVE  DecideInv'
  BY <1>12, <1>14, <1>16 DEF SetToolApprovalMode, SetPlanMode, SetMode
<1>17. ASSUME NEW r \in Requests, CancelContext(Context(r)) PROVE DecideInv'
  BY <1>14, <1>17 DEF CancelContext
<1>18. CASE UNCHANGED vars
  BY <1>14, <1>18 DEF vars
<1>19. ASSUME NEW r \in Requests, Prompt(r) \/ RequestStep(r) PROVE DecideInv'
  BY <1>2, <1>3, <1>4, <1>5, <1>6, <1>8, <1>9, <1>10, <1>11, <1>19 DEF RequestStep
<1>20. QED
  <2>1. CASE \E r \in Requests : Prompt(r) \/ RequestStep(r)
    BY <1>19, <2>1
  <2>2. CASE \E r \in Requests : \E a \in Answers \ {"none"} : Approve(r, a)
    BY <1>7, <2>2
  <2>3. CASE \E s \in Setters : \/ SetterStep(s)
                                \/ \E m \in Modes : SetToolApprovalMode(s, m)
                                \/ \E v \in BOOLEAN : SetPlanMode(s, v)
                                \/ \E v \in BOOLEAN, m \in Modes : SetMode(s, v, m)
    <3>1. "ask" \in Modes /\ TRUE \in BOOLEAN
      BY DEF Modes
    <3>2. QED
      BY <1>15, <1>16, <2>3, <3>1
  <2>4. QED
    BY <1>17, <1>18, <2>1, <2>2, <2>3 DEF Next

\* Leaving plan mode, revising a plan and answering a question take the
\* user's own yes, whatever modes, drains and grants do meanwhile.
THEOREM UserMustDecide == Spec => []UserDecides
<1>1. Init => DecideInv
  BY DEF Init, DecideInv, YesIsTheUsers, DrainedAreTools, GrantsAreTools, OwnPath, UserDecides, Reserved, Yes, Requests
<1>2. TypeOK /\ DecideInv /\ [Next]_vars => DecideInv'
  BY DecideInvStep
<1>3. DecideInv => UserDecides
  BY DEF DecideInv
<1>4. QED
  BY <1>1, <1>2, <1>3, TypeCorrect, PTL DEF Spec

-----------------------------------------------------------------------------
(* Yolo mode and the prompts that are open.                                *)

\* A step that changes neither mode nor prompts, or only closes prompts.
LEMMA QuietKept ==
    ASSUME YoloLeavesNoPrompt, mode' = mode, pending' \subseteq pending
    PROVE  YoloLeavesNoPrompt'
BY DEF YoloLeavesNoPrompt

\* The new mode drains what it must not leave open.
LEMMA SetModeDrains ==
    ASSUME NEW s \in Setters, NEW m \in Modes, LockedSetMode(s, m)
    PROVE  YoloLeavesNoPrompt'
BY DEF YoloLeavesNoPrompt, LockedSetMode, Drainable, Deletes

\* The second look, under the lock that also guards the mode, is what keeps a
\* prompt from being registered in yolo mode.
LEMMA RegisteredInTime ==
    ASSUME TypeOK, YoloLeavesNoPrompt, NEW r \in Requests, RegisterPrompt(r)
    PROVE  YoloLeavesNoPrompt'
<1>1. mode' = mode
  BY DEF RegisterPrompt, modeVars
<1>2. CASE mode # "yolo"
  BY <1>1, <1>2 DEF YoloLeavesNoPrompt
<1>3. CASE pending' = pending
  BY <1>1, <1>3, QuietKept
<1>4. CASE mode = "yolo" /\ pending' # pending
  <2>1. pending' = pending \cup {r} /\ (r \in Questions \/ ~BypassAllows(r))
    BY <1>4 DEF RegisterPrompt, Registers
  <2>2. r \notin Tools
    BY <1>4, <2>1, KindsAssumption DEF BypassAllows, Tools, UserDecisions
  <2>3. QED
    BY <1>1, <2>1, <2>2 DEF YoloLeavesNoPrompt
<1>5. QED
  BY <1>2, <1>3, <1>4

LEMMA YoloInvStep ==
    ASSUME TypeOK, YoloLeavesNoPrompt, [Next]_vars
    PROVE  YoloLeavesNoPrompt'
<1>1. ASSUME NEW r \in Requests, Prompt(r) \/ RequestStep(r) PROVE YoloLeavesNoPrompt'
  <2>1. CASE RegisterPrompt(r)
    BY <2>1, RegisteredInTime
  <2>2. CASE Prompt(r) \/ PlanModeCheck(r) \/ GateCheck(r) \/ Execute(r) \/ ApproverCheck(r) \/ LockPrompt(r)
    BY <2>2, QuietKept DEF Prompt, PlanModeCheck, GateCheck, Execute, ApproverCheck, LockPrompt, modeVars
  <2>3. CASE SendReply(r) \/ ReceiveReply(r) \/ PromptCancelled(r)
    BY <2>3, QuietKept DEF SendReply, ReceiveReply, PromptCancelled, modeVars, Deletes
  <2>4. CASE ExitPlanMode(r) \/ OpenPlanWindow(r) \/ ClosePlanWindow(r)
    BY <2>4, QuietKept DEF ExitPlanMode, OpenPlanWindow, ClosePlanWindow
  <2>5. QED
    BY <1>1, <2>1, <2>2, <2>3, <2>4 DEF RequestStep
<1>2. ASSUME NEW r \in Requests, NEW a \in Answers, Approve(r, a) PROVE YoloLeavesNoPrompt'
  BY <1>2, QuietKept DEF Approve, modeVars, Deletes
<1>3. ASSUME NEW s \in Setters, SetterStep(s) PROVE YoloLeavesNoPrompt'
  <2>1. CASE SetModeContinues(s)
    <3>1. sarg[s].mode \in Modes
      BY DEF TypeOK
    <3>2. QED
      BY <2>1, <3>1, SetModeDrains DEF SetModeContinues
  <2>2. CASE BuildGate(s) \/ InstallGate(s) \/ ReplyDrained(s) \/ SetExecutorPlan(s)
    BY <2>2, QuietKept DEF BuildGate, InstallGate, ReplyDrained, SetExecutorPlan, modeVars, promptVars
  <2>3. QED
    BY <1>3, <2>1, <2>2 DEF SetterStep
<1>4. ASSUME NEW s \in Setters, NEW m \in Modes, SetToolApprovalMode(s, m) PROVE YoloLeavesNoPrompt'
  BY <1>4, SetModeDrains DEF SetToolApprovalMode
<1>5. ASSUME NEW s \in Setters, NEW v \in BOOLEAN, NEW m \in Modes, SetPlanMode(s, v) \/ SetMode(s, v, m)
      PROVE  YoloLeavesNoPrompt'
  BY <1>5, QuietKept DEF SetPlanMode, SetMode, promptVars
<1>6. ASSUME NEW r \in Requests, CancelContext(Context(r)) PROVE YoloLeavesNoPrompt'
  BY <1>6, QuietKept DEF CancelContext, modeVars, promptVars
<1>7. CASE UNCHANGED vars
  BY <1>7, QuietKept DEF vars, modeVars, promptVars
<1>8. CASE Next
  <2>1. "ask" \in Modes
    BY DEF Modes
  <2>2. QED
    BY <1>8, <1>1, <1>2, <1>3, <1>4, <1>5, <1>6, <2>1 DEF Next
<1>9. QED
  BY <1>7, <1>8

\* In yolo mode no tool approval stays open, whenever the mode was chosen in
\* the life of the prompt.
THEOREM YoloIsQuiet == Spec => []YoloLeavesNoPrompt
<1>1. Init => YoloLeavesNoPrompt
  BY DEF Init, YoloLeavesNoPrompt
<1>2. TypeOK /\ YoloLeavesNoPrompt /\ [Next]_vars => YoloLeavesNoPrompt'
  BY YoloInvStep
<1>3. QED
  BY <1>1, <1>2, TypeCorrect, PTL DEF Spec
=============================================================================
