--------------------------- MODULE CutoverProofs ---------------------------
(***************************************************************************)
(* Proposals and the cutovers over them, for every number of callers,      *)
(* proposals, steps, approvals and crashes: the record of a proposal that  *)
(* nobody works on tells what is on its devices, no two calls work on one, *)
(* and a run begins only under an approval that no run has used, but for   *)
(* the mishaps that Proposals names.                                       *)
(***************************************************************************)
EXTENDS Cutover, FiniteSetTheorems, WellFoundedInduction, TLAPS

-----------------------------------------------------------------------------
(* The first and the last of a set of numbers.                             *)

LEMMA MinIs ==
    ASSUME NEW S \in SUBSET Nat, S # {}
    PROVE  Min(S) \in S /\ \A y \in S : Min(S) <= y
<1>1. PICK x \in S : \A y \in S : ~ (<<y, x>> \in OpToRel(<, Nat))
  BY WFMin, NatLessThanWellFounded, Zenon
<1>2. \A y \in S : <<y, x>> \in Nat \X Nat
  OBVIOUS
<1>3. \A y \in S : ~(y < x)
  BY <1>1, <1>2, Zenon DEF OpToRel
<1>4. \A y \in S : x <= y
  BY <1>3
<1>5. QED
  BY <1>4, Zenon DEF Min

LEMMA MaxIs ==
    ASSUME NEW n \in Nat, NEW S \in SUBSET (1..n), S # {}
    PROVE  Max(S) \in S
<1> DEFINE below == {u \in 0..n : n - u \in S}
<1>1. below \in SUBSET Nat /\ below # {}
  <2>1. PICK i \in S : TRUE
    OBVIOUS
  <2>2. n - i \in below
    BY <2>1
  <2>3. \A u \in below : u \in Nat
    OBVIOUS
  <2>4. QED
    BY <2>2, <2>3, Zenon
<1>2. Min(below) \in below /\ \A v \in below : Min(below) <= v
  BY <1>1, MinIs, Zenon
<1>3. ASSUME NEW y \in S PROVE y <= n - Min(below)
  <2>1. n - y \in below
    OBVIOUS
  <2>2. Min(below) <= n - y
    BY <1>2, <2>1, Zenon
  <2>3. Min(below) \in Nat
    BY <1>1, <1>2
  <2>4. QED
    BY <2>2, <2>3
<1>4. n - Min(below) \in S
  BY <1>2
<1>5. QED
  BY <1>3, <1>4, Zenon DEF Max

-----------------------------------------------------------------------------
(* Types.                                                                  *)

PlanType ==
    {q \in [callers : SUBSET Callers, ids : SUBSET Ids, steps : SUBSET Steps,
            sessions : SUBSET Sessions, approvals : Nat, crashes : Nat, removals : Nat,
            cutover : BOOLEAN] :
        (\E n \in Nat : q.ids = 1..n) /\ (\E n \in Nat : q.steps = 1..n) /\ q.steps # {}}

CutType == [status : {"none", "running", "hold", "done", "failed", "aborted"}, cursor : Nat,
            steps : [Ids -> {"pending", "approved", "failed", "skipped", "rolled"}]]

JobType == [pc : {"off", "look", "start", "run", "store", "finish", "overdue", "unwind", "undo"},
            copy : CutType]

\* What a call returns, what a step's change did, and the file of a proposal
\* that exists.
Results == Statuses \cup {"none", "error"}
DeviceStates == {"old", "mixed", "new", "twice"}
Written == [status : Statuses, applied : SUBSET Steps, noted : SUBSET Sessions]

USE DEF Results, DeviceStates, Written

CallType == [pc : {"idle", "check", "ask", "claim", "apply", "save", "end", "load", "back", "release"},
             id : Ids \cup {0}, copy : Proposal, todo : SUBSET Steps,
             res : Results]

Before == {"check", "ask", "claim"}
Held == {"apply", "save", "end", "load", "back", "release"}

\* A call is about a proposal and steps of the plan, and the copy that it holds
\* has the status that belongs to its place.
CallOK(r) ==
    /\ r \in CallType
    /\ r.pc # "idle" => r.id \in plan.ids
    /\ r.copy.applied \subseteq plan.steps /\ r.todo \subseteq plan.steps
    /\ r.pc \in Before => r.copy.status = "approved"
    /\ r.pc \in {"apply", "save"} => r.copy.status = "executing"
    /\ r.pc = "back" => r.copy.status \in {"partial", "done"}
    /\ r.pc = "end" => r.copy.status \in {"partial", "done", "failed", "draft"}
    /\ r.pc = "apply" => r.todo # {}

FileOK(p) == p \in Proposal /\ p.applied \subseteq plan.steps

Typed ==
    /\ TypeOK
    /\ plan \in PlanType
    /\ \A id \in Ids : FileOK(file[id])
    /\ \A c \in Callers : CallOK(call[c])

CutTyped ==
    /\ cut \in CutType
    /\ job \in [Callers -> JobType]
    /\ \A c \in Callers : In(c, "start") => job[c].copy.cursor \in plan.ids

LEMMA PlansTyped == Plans \subseteq PlanType
<1>1. SUFFICES ASSUME NEW p \in Plans PROVE p \in PlanType
  OBVIOUS
<1>2. Cardinality(p.ids) \in Nat /\ Cardinality(p.steps) \in Nat
  BY PlanAssumption, FS_CardinalityType DEF Numbered
<1>3. p.ids \subseteq Ids /\ p.steps \subseteq Steps
  BY DEF Ids, Steps
<1>4. QED
  BY PlanAssumption, <1>2, <1>3 DEF PlanType, Numbered

\* What a step is to the proposals, whatever it is to a cutover.
Step ==
    \/ Propose
    \/ \E id \in plan.ids : Decide(id)
    \/ \E c \in Callers :
        \/ CallStep(c)
        \/ \E id \in plan.ids : BeginExecute(c, id) \/ BeginRollback(c, id)
        \/ At(c, "idle") /\ Answered(c) /\ UNCHANGED proposalVars
    \/ \E i \in Steps : RemoveDevice(i)
    \/ Crash
    \/ UNCHANGED vars

LEMMA EntryIs ==
    ASSUME Typed, CutTyped, NEW c \in Callers, ToUnwind(c) # {}
    PROVE  Max(ToUnwind(c)) \in plan.ids
<1>1. PICK n \in Nat : plan.ids = 1..n
  BY DEF Typed, PlanType
<1>2. ToUnwind(c) \in SUBSET (1..n)
  BY <1>1 DEF ToUnwind
<1>3. Max(ToUnwind(c)) \in ToUnwind(c)
  BY <1>2, MaxIs
<1>4. QED
  BY <1>3 DEF ToUnwind

LEMMA StepIs == Typed /\ CutTyped /\ Next => Step
<1>1. SUFFICES ASSUME Typed, CutTyped, Next PROVE Step
  OBVIOUS
<1>2. plan.callers \subseteq Callers
  BY <1>1 DEF Typed, TypeOK
<1>3. CASE Common
  BY <1>2, <1>3 DEF Common, Step
<1>4. CASE \E c \in plan.callers : Pressed(c)
  BY <1>2, <1>4 DEF Pressed, Step
<1>5. ASSUME NEW c \in plan.callers, RunnerStep(c) \/ HumanStep(c)
      PROVE  Step
  <2>1. CASE RunEntry(c)
    BY <1>1, <1>2, <2>1 DEF RunEntry, CutTyped, Step
  <2>2. CASE UnwindEntry(c)
    BY <1>1, <1>2, <2>2, EntryIs DEF UnwindEntry, Step
  <2>3. CASE Settle(c)
    BY <1>2, <2>3 DEF Settle, Step
  <2>4. CASE EntryUnwound(c)
    BY <1>2, <2>4 DEF EntryUnwound, Step
  <2>5. CASE Look(c) \/ Overdue(c) \/ Store(c) \/ Finish(c) \/ UnwindEnds(c) \/ HumanStep(c)
    BY <2>5 DEF Look, Overdue, Store, Finish, UnwindEnds, HumanStep, CutoverStart,
                CutoverContinue, CutoverRollback, Step
  <2>6. QED
    BY <1>5, <2>1, <2>2, <2>3, <2>4, <2>5 DEF RunnerStep
<1>6. CASE CutoverAbort \/ CrashAll
  BY <1>6 DEF CutoverAbort, CrashAll, Step
<1>7. QED
  BY <1>1, <1>3, <1>4, <1>5, <1>6 DEF Next

LEMMA OutcomesTyped ==
    ASSUME NEW r \in CutType, NEW answer
    PROVE  Outcomes(r, answer) \subseteq CutType
<1> DEFINE mark(what) == IF r.cursor \in plan.ids THEN [r EXCEPT !.steps[r.cursor] = what] ELSE r
<1>1. mark("failed") \in CutType /\ mark("approved") \in CutType
  BY DEF CutType
<1>2. [mark("approved") EXCEPT !.cursor = @ + 1] \in CutType
  BY <1>1 DEF CutType
<1>3. \A q \in CutType : [q EXCEPT !.status = "hold"] \in CutType
  BY DEF CutType
<1>4. QED
  BY <1>1, <1>2, <1>3 DEF Outcomes

\* A step leaves the entries and steps of the plan.
LEMMA PlanKept ==
    Typed /\ Step => plan' \in PlanType /\ plan'.ids = plan.ids /\ plan'.steps = plan.steps
<1>1. SUFFICES ASSUME Typed, Step
               PROVE  plan' \in PlanType /\ plan'.ids = plan.ids /\ plan'.steps = plan.steps
  OBVIOUS
<1>2. plan \in PlanType
  BY <1>1 DEF Typed
<1>3. \/ UNCHANGED plan
      \/ plan.approvals > 0 /\ plan' = [plan EXCEPT !.approvals = @ - 1]
      \/ plan.removals > 0 /\ plan' = [plan EXCEPT !.removals = @ - 1]
      \/ plan.crashes > 0 /\ plan' = [plan EXCEPT !.crashes = @ - 1]
  BY <1>1, ZenonT(40) DEF Step, Propose, Decide, ApproveProposal, RejectProposal, DeleteProposal,
              CallStep, OnlineCheck, AskHuman, Claim, ApplyStep, SaveStep, StepFails,
              CommandFails, SaveEnd, ReleaseInflight, LoadApplied, UndoStep, PassOver, UndoFails,
              AllUndone, BeginExecute, BeginRollback, proposalVars, RemoveDevice, Crash, vars
<1>4. QED
  BY <1>2, <1>3 DEF PlanType

LEMMA CutTypedKept == Typed /\ CutTyped /\ Next => CutTyped'
<1>1. SUFFICES ASSUME Typed, CutTyped, Next PROVE CutTyped'
  OBVIOUS
<1>2. plan.callers \subseteq Callers
  BY <1>1 DEF Typed, TypeOK
<1>3. plan'.ids = plan.ids
  BY <1>1, StepIs, PlanKept
<1>4. NoCut \in CutType
  BY DEF NoCut, CutType
<1>5. CASE UNCHANGED <<cut, job>>
  BY <1>1, <1>3, <1>5 DEF CutTyped, In
<1>6. ASSUME NEW c \in plan.callers, RunnerStep(c) \/ HumanStep(c)
      PROVE  CutTyped'
  <2>0. /\ c \in Callers /\ job[c] \in JobType /\ cut \in CutType /\ job[c].copy \in CutType
        /\ job \in [Callers -> JobType]
    BY <1>1, <1>2 DEF CutTyped, JobType
  <2>1. /\ cut' \in CutType
        /\ job' \in [Callers -> JobType]
        /\ In(c, "start")' => job'[c].copy.cursor \in plan.ids
        /\ \A d \in Callers \ {c} : job'[d] = job[d]
    <3>1. CASE Look(c)
      BY <2>0, <3>1, <1>4 DEF In, Look, Goes, Ends, Off, JobType
    <3>2. CASE Overdue(c)
      BY <2>0, <3>2, <1>4 DEF In, Overdue, Goes, Ends, Off, JobType, CutType, SaveCutover
    <3>3. CASE RunEntry(c) \/ UnwindEntry(c)
      BY <2>0, <3>3, <1>4 DEF In, RunEntry, UnwindEntry, Goes, JobType
    <3>4. CASE Settle(c)
      BY <2>0, <3>4, <1>4, OutcomesTyped DEF In, Settle, Ends, Off, JobType
    <3>5. CASE Store(c)
      BY <2>0, <3>5, <1>4 DEF In, Store, Goes, Ends, Off, JobType, SaveCutover
    <3>6. CASE Finish(c)
      BY <2>0, <3>6, <1>4 DEF In, Finish, Ends, Off, JobType, CutType, SaveCutover
    <3>7. CASE EntryUnwound(c)
      <4> DEFINE r == [job[c].copy EXCEPT !.steps[Max(ToUnwind(c))] = "rolled"]
      <4>1. r \in CutType /\ [job[c].copy EXCEPT !.status = "failed"] \in CutType
        BY <2>0 DEF CutType
      <4>2. [pc |-> "unwind", copy |-> r] \in JobType /\ Off \in JobType
        BY <1>4, <4>1 DEF JobType, Off
      <4>3. \/ cut' = [job[c].copy EXCEPT !.status = "failed"] /\ job' = [job EXCEPT ![c] = Off]
            \/ cut' = r /\ job' = [job EXCEPT ![c] = [pc |-> "unwind", copy |-> r]]
        BY <3>7 DEF EntryUnwound, Ends, SaveCutover
      <4>4. Off.pc = "off"
        BY DEF Off
      <4>5. QED
        BY <2>0, <4>1, <4>2, <4>3, <4>4 DEF In
    <3>8. CASE UnwindEnds(c)
      BY <2>0, <3>8, <1>4 DEF In, UnwindEnds, Ends, Off, JobType, CutType, SaveCutover
    <3>9. CASE HumanStep(c)
      <4>1. [NoCut EXCEPT !.status = "running", !.cursor = 1] \in CutType
        BY DEF NoCut, CutType
      <4>2. CASE CutoverStart(c) \/ CutoverContinue(c)
        <5>1. cut' \in CutType
          BY <2>0, <4>1, <4>2 DEF CutoverStart, CutoverContinue, CutType, SaveCutover
        <5>2. job' = [job EXCEPT ![c].pc = "look"]
          BY <4>2 DEF CutoverStart, CutoverContinue, Launch
        <5>3. QED
          BY <2>0, <5>1, <5>2 DEF In, JobType
      <4>3. CASE CutoverRollback(c)
        BY <2>0, <4>3 DEF In, CutoverRollback, JobType
      <4>4. QED
        BY <3>9, <4>2, <4>3 DEF HumanStep
    <3>10. QED
      BY <1>6, <3>1, <3>2, <3>3, <3>4, <3>5, <3>6, <3>7, <3>8, <3>9 DEF RunnerStep
  <2>2. QED
    BY <1>1, <1>3, <2>0, <2>1 DEF CutTyped, In
<1>7. CASE CutoverAbort
  BY <1>1, <1>3, <1>7 DEF CutoverAbort, CutTyped, SaveCutover, CutType, In
<1>8. CASE CrashAll
  BY <1>1, <1>4, <1>8 DEF CrashAll, CutTyped, Off, In, JobType
<1>9. QED
  BY <1>1, <1>5, <1>6, <1>7, <1>8 DEF Next

\* What a step does to the types is seen part by part.
RestTyped ==
    /\ seq \in Ids \cup {0}
    /\ inflight \subseteq Ids
    /\ device \in [Ids -> [Steps -> DeviceStates]]
    /\ gone \subseteq Steps
    /\ licensed \subseteq Ids
    /\ mishaps \subseteq Ids \X {"stale", "reused", "mixed", "gone", "crash"}

CallChanges(c) ==
    /\ call' \in [Callers -> CallType] /\ CallOK(call'[c])
    /\ \A d \in Callers \ {c} : call'[d] = call[d]
FileChanges(id) ==
    /\ file' \in [Ids -> Proposal] /\ FileOK(file'[id])
    /\ \A k \in Ids \ {id} : file'[k] = file[k]

LEMMA PartsTyped ==
    ASSUME Typed, Step, RestTyped',
           call' = call \/ \E c \in Callers : CallChanges(c),
           file' = file \/ \E id \in Ids : FileChanges(id)
    PROVE  Typed'
<1>1. plan' \in PlanType /\ plan'.ids = plan.ids /\ plan'.steps = plan.steps
  BY PlanKept
<1>2. /\ plan'.callers \subseteq Callers /\ plan'.approvals \in Nat
      /\ plan'.crashes \in Nat /\ plan'.removals \in Nat
  BY <1>1 DEF PlanType
<1>3. file' \in [Ids -> Proposal] /\ \A id \in Ids : FileOK(file[id])'
  <2>1. CASE file' = file
    BY <2>1, <1>1 DEF Typed, TypeOK, FileOK
  <2>2. CASE \E id \in Ids : FileChanges(id)
    BY <2>2, <1>1 DEF Typed, FileOK, FileChanges
  <2>3. QED
    BY <2>1, <2>2
<1>4. call' \in [Callers -> CallType] /\ \A c \in Callers : CallOK(call[c])'
  <2>1. CASE call' = call
    BY <2>1, <1>1 DEF Typed, TypeOK, CallOK, CallType
  <2>2. CASE \E c \in Callers : CallChanges(c)
    BY <2>2, <1>1 DEF Typed, CallOK, CallChanges
  <2>3. QED
    BY <2>1, <2>2
<1>5. QED
  BY <1>1, <1>2, <1>3, <1>4 DEF Typed, TypeOK, RestTyped, CallType

LEMMA FirstToDo ==
    ASSUME Typed, NEW c \in Callers, call[c].todo # {}
    PROVE  /\ Min(call[c].todo) \in call[c].todo
           /\ Max(call[c].todo) \in call[c].todo
<1>1. PICK n \in Nat : plan.steps = 1..n
  BY DEF Typed, PlanType
<1>2. call[c].todo \in SUBSET (1..n)
  BY <1>1 DEF Typed, CallOK
<1>3. call[c].todo \in SUBSET Nat
  BY <1>2
<1>4. QED
  BY <1>2, <1>3, MinIs, MaxIs

\* The status of the copy at a place of a call.
Fits(pc, status) ==
    /\ pc \in Before => status = "approved"
    /\ pc \in {"apply", "save"} => status = "executing"
    /\ pc = "back" => status \in {"partial", "done"}
    /\ pc = "end" => status \in {"partial", "done", "failed", "draft"}

LEMMA PlaceIs ==
    ASSUME Typed, NEW c \in Callers
    PROVE  /\ call[c] \in CallType
           /\ FileOK(call[c].copy)
           /\ call[c].todo \in SUBSET plan.steps
           /\ call[c].res \in Results
           /\ Fits(call[c].pc, call[c].copy.status)
           /\ At(c, "apply") => call[c].todo # {}
           /\ ~At(c, "idle") => /\ call[c].id \in plan.ids
                                /\ call[c].id \in Ids
                                /\ FileOK(file[call[c].id])
<1>1. CallOK(call[c]) /\ plan.ids \subseteq Ids /\ \A id \in Ids : FileOK(file[id])
  BY DEF Typed, PlanType
<1>2. QED
  BY <1>1 DEF CallOK, CallType, FileOK, Fits, At

\* Another status, other marks, or another note make a proposal of a proposal.
LEMMA Edits ==
    ASSUME Typed, NEW p, FileOK(p), p.status # "none"
    PROVE  /\ p.status \in Statuses
           /\ \A s \in Statuses : /\ FileOK([p EXCEPT !.status = s])
                                  /\ FileOK([p EXCEPT !.status = s, !.noted = {}])
                                  /\ [p EXCEPT !.status = s].status = s
                                  /\ [p EXCEPT !.status = s, !.noted = {}].status = s
           /\ \A S \in SUBSET plan.steps : /\ FileOK([p EXCEPT !.applied = S])
                                           /\ [p EXCEPT !.applied = S].status = p.status
           /\ \A N \in SUBSET Sessions : /\ FileOK([p EXCEPT !.noted = N])
                                         /\ [p EXCEPT !.noted = N].status = p.status
<1>1. p \in Written /\ p.applied \subseteq plan.steps
  BY DEF FileOK, Proposal, Missing
<1>2. plan.steps \subseteq Steps
  BY DEF Typed, PlanType
<1>3. QED
  BY <1>1, <1>2 DEF FileOK, Proposal

\* A call that goes on is a call.
Moved(q, pc, p, T, res) == [q EXCEPT !.pc = pc, !.copy = p, !.todo = T, !.res = res]

LEMMA GoesOn ==
    ASSUME Typed, NEW q, CallOK(q), q.pc # "idle",
           NEW pc \in {"check", "ask", "claim", "apply", "save", "end", "load", "back", "release"},
           NEW p, FileOK(p), NEW T \in SUBSET plan.steps, NEW res \in Results,
           Fits(pc, p.status), pc = "apply" => T # {}
    PROVE  CallOK(Moved(q, pc, p, T, res))
<1> DEFINE r == Moved(q, pc, p, T, res)
<1> USE DEF Moved
<1>1. q \in CallType /\ q.id \in plan.ids /\ p \in Proposal /\ plan.steps \subseteq Steps
  BY DEF CallOK, FileOK, Typed, PlanType
<1>2. r \in CallType /\ r.pc = pc /\ r.copy = p /\ r.todo = T /\ r.id = q.id
  BY <1>1 DEF CallType
<1>3. QED
  BY <1>1, <1>2 DEF CallOK, FileOK, Fits

LEMMA OneCall ==
    ASSUME Typed, NEW c \in Callers, NEW r, CallOK(r), call' = [call EXCEPT ![c] = r]
    PROVE  CallChanges(c)
<1>1. call \in [Callers -> CallType] /\ r \in CallType
  BY DEF Typed, TypeOK, CallType, CallOK
<1>2. QED
  BY <1>1 DEF CallChanges

LEMMA OneFile ==
    ASSUME Typed, NEW id \in Ids, NEW p, FileOK(p), file' = [file EXCEPT ![id] = p]
    PROVE  FileChanges(id)
<1>1. file \in [Ids -> Proposal] /\ p \in Proposal
  BY DEF Typed, TypeOK, FileOK
<1>2. QED
  BY <1>1 DEF FileChanges

LEMMA TypedKept == Typed /\ Step => Typed'
<1>1. SUFFICES ASSUME Typed, Step PROVE Typed'
  OBVIOUS
<1> USE <1>1
<1>2. /\ call \in [Callers -> CallType] /\ file \in [Ids -> Proposal]
      /\ \A c \in Callers : CallOK(call[c])
      /\ \A id \in Ids : FileOK(file[id])
      /\ \A c \in Callers : call[c] \in CallType
  BY DEF Typed, TypeOK, CallType, CallOK
<1>3. RestTyped
  BY DEF Typed, TypeOK, RestTyped
<1>4. plan.ids \subseteq Ids /\ plan.steps \subseteq Steps
  BY DEF Typed, PlanType
<1>5. /\ FileOK(Missing)
      /\ \A res \in Results : CallOK(Idle(res)) /\ Idle(res) \in CallType
  BY DEF FileOK, Missing, Proposal, Idle, CallOK, CallType, Before
<1>6. CASE Propose
  <2>1. FileChanges(seq')
    BY <1>2, <1>4, <1>5, <1>6 DEF Propose, FileChanges, FileOK, Missing, Proposal, Statuses,
       SaveProposal
  <2>2. RestTyped' /\ call' = call
    BY <1>3, <1>4, <1>6 DEF Propose, RestTyped, Untouched, Suffers
  <2>3. QED
    BY <1>4, <1>6, <2>1, <2>2, PartsTyped DEF Propose
<1>7. ASSUME NEW id \in plan.ids, Decide(id) PROVE Typed'
  <2>1. FileChanges(id)
    <3>1. id \in Ids /\ FileOK(file[id]) /\ Missing.status = "none"
      BY <1>2, <1>4 DEF Missing
    <3>2. \E p : FileOK(p) /\ file' = [file EXCEPT ![id] = p]
      <4>1. CASE ApproveProposal(id)
        BY <3>1, <4>1, Edits DEF ApproveProposal, SaveProposal, Statuses
      <4>2. CASE RejectProposal(id)
        BY <3>1, <4>2, Edits DEF RejectProposal, SaveProposal, Statuses
      <4>3. CASE DeleteProposal(id)
        BY <1>5, <4>3 DEF DeleteProposal, SaveProposal
      <4>4. QED
        BY <1>7, <4>1, <4>2, <4>3 DEF Decide
    <3>3. QED
      BY <3>1, <3>2, OneFile
  <2>2. RestTyped' /\ call' = call
    BY <1>3, <1>4, <1>7 DEF Decide, ApproveProposal, RejectProposal, DeleteProposal, RestTyped
  <2>3. QED
    BY <1>4, <2>1, <2>2, PartsTyped
<1>8. ASSUME NEW c \in Callers, CallStep(c) PROVE Typed'
  <2> DEFINE id == call[c].id
  <2>0. /\ CallOK(call[c]) /\ FileOK(call[c].copy) /\ call[c].todo \in SUBSET plan.steps
        /\ call[c] \in CallType /\ call[c].res \in Results
        /\ Fits(call[c].pc, call[c].copy.status)
        /\ At(c, "apply") => call[c].todo # {}
        /\ ~At(c, "idle") => id \in plan.ids /\ id \in Ids /\ FileOK(file[id])
    BY <1>2, PlaceIs
  <2>1. CASE OnlineCheck(c)
    <3>1. CallChanges(c)
      <4>1. call[c].copy.status = "approved" /\ call[c].pc # "idle"
        BY <2>0, <2>1 DEF OnlineCheck, At, Fits, Before
      <4>2. Fits("claim", call[c].copy.status)
        BY <4>1 DEF Fits
      <4>3. CASE Moves(c, "claim")
        <5> DEFINE r == Moved(call[c], "claim", call[c].copy, call[c].todo, call[c].res)
        <5>1. CallOK(r)
          BY <2>0, <4>1, <4>2, GoesOn
        <5>2. call' = [call EXCEPT ![c] = r]
          BY <1>2, <2>0, <4>3 DEF CallType, Moves, Moved
        <5>3. QED
          BY <5>1, <5>2, OneCall
      <4>4. ASSUME NEW n \in plan.sessions \ call[c].copy.noted,
                   call' = [call EXCEPT ![c].pc = "ask", ![c].copy.noted = @ \cup {n}]
            PROVE  CallChanges(c)
        <5> DEFINE N == call[c].copy.noted \cup {n}
                   p == [call[c].copy EXCEPT !.noted = N]
                   r == Moved(call[c], "ask", p, call[c].todo, call[c].res)
        <5>1. N \in SUBSET Sessions
          BY <2>0, <4>1 DEF FileOK, Proposal, Missing, Typed, PlanType
        <5>2. FileOK(p) /\ p.status = "approved"
          BY <2>0, <4>1, <5>1, Edits
        <5>3. CallOK(r)
          <6>1. Fits("ask", p.status)
            BY <5>2 DEF Fits
          <6>2. QED
            BY <2>0, <4>1, <5>2, <6>1, GoesOn
        <5>4. call' = [call EXCEPT ![c] = r]
          BY <1>2, <2>0, <4>4 DEF CallType, Moved
        <5>5. QED
          BY <5>3, <5>4, OneCall
      <4>5. QED
        BY <2>1, <4>3, <4>4 DEF OnlineCheck
    <3>2. file' = file
      BY <1>2, <2>0, <2>1 DEF OnlineCheck, At, CallOK, FileChanges, FileOK, SaveProposal,
         recordVars, Claimed, Proposal, Statuses
    <3>3. RestTyped'
      BY <1>3, <2>0, <2>1 DEF OnlineCheck, At, RestTyped, Suffers, recordVars, Claimed
    <3>4. QED
      BY <2>0, <2>1, <3>1, <3>2, <3>3, PartsTyped DEF OnlineCheck, At
  <2>2. CASE AskHuman(c)
    <3>1. CallChanges(c)
      BY <1>2, <1>5, <2>0, <2>2, FirstToDo DEF AskHuman, At, CallChanges, CallOK, CallType,
         FileOK, Before, Proposal, Statuses, Returns, Moves, Claimed
    <3>2. FileChanges(id)
      <4>1. FileOK(call[c].copy)
        BY <2>0
      <4>2. id \in Ids /\ file' = [file EXCEPT ![id] = call[c].copy]
        BY <2>0, <2>2 DEF AskHuman, At, SaveProposal
      <4>3. QED
        BY <4>1, <4>2, OneFile
    <3>3. RestTyped'
      BY <1>3, <2>0, <2>2 DEF AskHuman, At, RestTyped, Suffers, recordVars, Claimed
    <3>4. QED
      BY <2>0, <2>2, <3>1, <3>2, <3>3, PartsTyped DEF AskHuman, At
  <2>3. CASE Claim(c)
    <3>1. CallChanges(c) /\ (FileChanges(id) \/ file' = file)
      <4> DEFINE p == [file[id] EXCEPT !.status = "executing"]
                 r == Moved(call[c], "apply", p, plan.steps, call[c].res)
      <4>1. CASE file[id].status = "approved" /\ id \notin inflight
        <5>1. id \in Ids /\ FileOK(p) /\ p.status = "executing"
          BY <2>0, <2>3, <4>1, Edits DEF Claim, At, Statuses
        <5>2. CallOK(r)
          <6>1. Fits("apply", p.status) /\ call[c].pc # "idle"
            BY <2>3, <5>1 DEF Claim, At, Fits, Before
          <6>2. plan.steps # {}
            BY DEF Typed, PlanType
          <6>3. QED
            BY <2>0, <5>1, <6>1, <6>2, GoesOn
        <5>3. call' = [call EXCEPT ![c] = r] /\ file' = [file EXCEPT ![id] = p]
          <6>1. Claimed(c, id, file[id])
            BY <2>3, <4>1 DEF Claim
          <6>2. /\ file' = [file EXCEPT ![id] = p]
                /\ call' = [call EXCEPT ![c].pc = "apply", ![c].todo = plan.steps, ![c].copy = p]
            BY <6>1 DEF Claimed, SaveProposal
          <6>3. call[c] \in CallType
            BY <1>2
          <6>4. QED
            BY <1>2, <6>2, <6>3 DEF CallType, Moved
        <5>4. QED
          BY <5>1, <5>2, <5>3, OneCall, OneFile
      <4>2. CASE ~(file[id].status = "approved" /\ id \notin inflight)
        BY <1>5, <2>3, <4>2, OneCall DEF Claim, Returns
      <4>3. QED
        BY <4>1, <4>2
    <3>2. RestTyped'
      BY <1>3, <2>0, <2>3 DEF Claim, At, RestTyped, Suffers, recordVars, Claimed
    <3>3. QED
      BY <2>0, <2>3, <3>1, <3>2, PartsTyped DEF Claim, At
  <2>4. CASE ApplyStep(c)
    <3>1. CallChanges(c)
      <4> DEFINE i == Min(call[c].todo)
                 S == call[c].copy.applied \cup {i}
                 p == [call[c].copy EXCEPT !.applied = S]
                 T == call[c].todo \ {i}
      <4>1. FileOK(p) /\ T \in SUBSET plan.steps /\ Fits("save", p.status) /\ call[c].res \in Results
        <5>1. call[c].copy.status # "none"
          BY <2>0, <2>4 DEF ApplyStep, At, Fits
        <5>2. S \in SUBSET plan.steps /\ T \in SUBSET plan.steps
          BY <2>0, <2>4, FirstToDo DEF ApplyStep, At, FileOK
        <5>3. FileOK(p) /\ p.status = call[c].copy.status
          BY <2>0, <5>1, <5>2, Edits
        <5>4. QED
          BY <2>0, <2>4, <5>2, <5>3 DEF ApplyStep, At, Fits, Before
      <4>2. CallOK(Moved(call[c], "save", p, T, call[c].res))
        BY <2>0, <2>4, <4>1, GoesOn DEF ApplyStep, At
      <4>3. call' = [call EXCEPT ![c] = Moved(call[c], "save", p, T, call[c].res)]
        BY <1>2, <2>0, <2>4 DEF ApplyStep, At, CallType, Moved
      <4>4. QED
        BY <4>2, <4>3, OneCall
    <3>2. file' = file
      BY <2>4 DEF ApplyStep, recordVars
    <3>3. RestTyped'
      BY <1>3, <2>0, <2>4 DEF ApplyStep, At, RestTyped, Suffers, recordVars, Claimed
    <3>4. QED
      BY <2>0, <2>4, <3>1, <3>2, <3>3, PartsTyped DEF ApplyStep, At
  <2>5. CASE SaveStep(c)
    <3>1. CallChanges(c)
      <4> DEFINE p == [call[c].copy EXCEPT !.status = "done"]
      <4>1. call[c].copy.status = "executing"
        BY <2>0, <2>5 DEF SaveStep, At, Fits
      <4>2. FileOK(p) /\ p.status = "done"
        BY <2>0, <4>1, Edits DEF Statuses
      <4>3. CASE call[c].todo = {}
        <5>1. CallOK(Moved(call[c], "end", p, call[c].todo, call[c].res))
          BY <2>0, <2>5, <4>2, GoesOn DEF SaveStep, At, Fits, Before
        <5>2. call' = [call EXCEPT ![c] = Moved(call[c], "end", p, call[c].todo, call[c].res)]
          BY <1>2, <2>0, <2>5, <4>3 DEF SaveStep, CallType, Moved
        <5>3. QED
          BY <5>1, <5>2, OneCall
      <4>4. CASE call[c].todo # {}
        <5> DEFINE r == Moved(call[c], "apply", call[c].copy, call[c].todo, call[c].res)
        <5>1. CallOK(r)
          <6>1. Fits("apply", call[c].copy.status) /\ call[c].pc # "idle"
            BY <2>5, <4>1 DEF SaveStep, At, Fits, Before
          <6>2. QED
            BY <2>0, <4>4, <6>1, GoesOn
        <5>2. call' = [call EXCEPT ![c] = r]
          BY <1>2, <2>0, <2>5, <4>4 DEF SaveStep, CallType, Moves, Moved
        <5>3. QED
          BY <5>1, <5>2, OneCall
      <4>5. QED
        BY <4>3, <4>4
    <3>2. FileChanges(id)
      <4>1. FileOK(call[c].copy)
        BY <2>0
      <4>2. id \in Ids /\ file' = [file EXCEPT ![id] = call[c].copy]
        BY <2>0, <2>5 DEF SaveStep, At, SaveProposal
      <4>3. QED
        BY <4>1, <4>2, OneFile
    <3>3. RestTyped'
      BY <1>3, <2>0, <2>5 DEF SaveStep, At, RestTyped, Suffers, recordVars, Claimed
    <3>4. QED
      BY <2>0, <2>5, <3>1, <3>2, <3>3, PartsTyped DEF SaveStep, At
  <2>6. CASE StepFails(c)
    <3>1. CallChanges(c)
      <4> DEFINE p == [call[c].copy EXCEPT !.status = "partial", !.noted = {}]
                 T == call[c].todo
      <4>1. FileOK(p) /\ T \in SUBSET plan.steps /\ Fits("end", p.status) /\ call[c].res \in Results
        <5>1. call[c].copy.status # "none"
          BY <2>0, <2>6 DEF StepFails, At, Fits
        <5>2. FileOK(p) /\ T \in SUBSET plan.steps
          BY <2>0, <2>6, <5>1, Edits DEF StepFails, At, Statuses
        <5>3. QED
          BY <2>0, <2>6, <5>1, <5>2, Edits DEF StepFails, At, Statuses, Fits, Before
      <4>2. CallOK(Moved(call[c], "end", p, T, call[c].res))
        BY <2>0, <2>6, <4>1, GoesOn DEF StepFails, At
      <4>3. call' = [call EXCEPT ![c] = Moved(call[c], "end", p, T, call[c].res)]
        BY <1>2, <2>0, <2>6 DEF StepFails, At, CallType, Moved
      <4>4. QED
        BY <4>2, <4>3, OneCall
    <3>2. file' = file
      BY <2>6 DEF StepFails, recordVars
    <3>3. RestTyped'
      BY <1>3, <2>0, <2>6 DEF StepFails, At, RestTyped, Suffers, recordVars, Claimed
    <3>4. QED
      BY <2>0, <2>6, <3>1, <3>2, <3>3, PartsTyped DEF StepFails, At
  <2>7. CASE CommandFails(c)
    <3>1. CallChanges(c)
      <4> DEFINE p == [call[c].copy EXCEPT !.status = "partial", !.noted = {}]
                 T == call[c].todo
      <4>1. FileOK(p) /\ T \in SUBSET plan.steps /\ Fits("end", p.status) /\ call[c].res \in Results
        <5>1. call[c].copy.status # "none"
          BY <2>0, <2>7 DEF CommandFails, At, Fits
        <5>2. FileOK(p) /\ T \in SUBSET plan.steps
          BY <2>0, <2>7, <5>1, Edits DEF CommandFails, At, Statuses
        <5>3. QED
          BY <2>0, <2>7, <5>1, <5>2, Edits DEF CommandFails, At, Statuses, Fits, Before
      <4>2. CallOK(Moved(call[c], "end", p, T, call[c].res))
        BY <2>0, <2>7, <4>1, GoesOn DEF CommandFails, At
      <4>3. call' = [call EXCEPT ![c] = Moved(call[c], "end", p, T, call[c].res)]
        BY <1>2, <2>0, <2>7 DEF CommandFails, At, CallType, Moved
      <4>4. QED
        BY <4>2, <4>3, OneCall
    <3>2. file' = file
      BY <2>7 DEF CommandFails, recordVars
    <3>3. RestTyped'
      <4>1. device' \in [Ids -> [Steps -> DeviceStates]]
        BY <1>3, <2>0, <2>7 DEF CommandFails, At, RestTyped
      <4>2. QED
        BY <1>3, <2>0, <2>7, <4>1 DEF CommandFails, At, RestTyped, Suffers, recordVars
    <3>4. QED
      BY <2>0, <2>7, <3>1, <3>2, <3>3, PartsTyped DEF CommandFails, At
  <2>8. CASE SaveEnd(c)
    <3>1. CallChanges(c)
      <4> DEFINE p == call[c].copy
                 T == call[c].todo
      <4>1. FileOK(p) /\ T \in SUBSET plan.steps /\ Fits("release", p.status) /\ call[c].copy.status \in Results
        <5>1. call[c].copy.status # "none"
          BY <2>0, <2>8 DEF SaveEnd, At, Fits
        <5>2. FileOK(p) /\ T \in SUBSET plan.steps
          BY <2>0, <2>8, <5>1, Edits DEF SaveEnd, At, Statuses
        <5>3. QED
          BY <2>0, <2>8, <5>1, <5>2, Edits DEF SaveEnd, At, Statuses, Fits, Before
      <4>2. CallOK(Moved(call[c], "release", p, T, call[c].copy.status))
        BY <2>0, <2>8, <4>1, GoesOn DEF SaveEnd, At
      <4>3. call' = [call EXCEPT ![c] = Moved(call[c], "release", p, T, call[c].copy.status)]
        BY <1>2, <2>0, <2>8 DEF SaveEnd, At, CallType, Moved
      <4>4. QED
        BY <4>2, <4>3, OneCall
    <3>2. FileChanges(id)
      <4>1. FileOK(call[c].copy)
        BY <2>0
      <4>2. id \in Ids /\ file' = [file EXCEPT ![id] = call[c].copy]
        BY <2>0, <2>8 DEF SaveEnd, At, SaveProposal
      <4>3. QED
        BY <4>1, <4>2, OneFile
    <3>3. RestTyped'
      BY <1>3, <2>0, <2>8 DEF SaveEnd, At, RestTyped, Suffers, recordVars, Claimed
    <3>4. QED
      BY <2>0, <2>8, <3>1, <3>2, <3>3, PartsTyped DEF SaveEnd, At
  <2>9. CASE ReleaseInflight(c)
    <3>1. CallChanges(c)
      BY <1>2, <1>5, <2>0, <2>9, FirstToDo DEF ReleaseInflight, At, CallChanges, CallOK,
         CallType, FileOK, Before, Proposal, Statuses, Returns, Moves, Claimed
    <3>2. file' = file
      BY <1>2, <2>0, <2>9 DEF ReleaseInflight, At, CallOK, FileChanges, FileOK, SaveProposal,
         recordVars, Claimed, Proposal, Statuses
    <3>3. RestTyped'
      BY <1>3, <2>0, <2>9 DEF ReleaseInflight, At, RestTyped, Suffers, recordVars, Claimed
    <3>4. QED
      BY <2>0, <2>9, <3>1, <3>2, <3>3, PartsTyped DEF ReleaseInflight, At
  <2>10. CASE LoadApplied(c)
    <3>1. CallChanges(c)
      <4> DEFINE p == file[id]
      <4>1. FileOK(p) /\ p.applied \in SUBSET plan.steps
        BY <2>0, <2>10 DEF LoadApplied, At, FileOK
      <4>2. CASE p.status \in {"partial", "done"}
        <5> DEFINE r == Moved(call[c], "back", p, p.applied, call[c].res)
        <5>1. CallOK(r)
          BY <2>0, <2>10, <4>1, <4>2, GoesOn DEF LoadApplied, At, Fits, Before
        <5>2. call' = [call EXCEPT ![c] = r]
          BY <1>2, <2>0, <2>10, <4>2 DEF LoadApplied, CallType, Moved
        <5>3. QED
          BY <5>1, <5>2, OneCall
      <4>3. CASE p.status \notin {"partial", "done"}
        <5> DEFINE r == Moved(call[c], "release", call[c].copy, call[c].todo, "error")
        <5>1. CallOK(r)
          <6>1. Fits("release", call[c].copy.status) /\ call[c].pc # "idle"
            BY <2>10 DEF LoadApplied, At, Fits, Before
          <6>2. QED
            BY <2>0, <6>1, GoesOn
        <5>2. call' = [call EXCEPT ![c] = r]
          BY <1>2, <2>0, <2>10, <4>3 DEF LoadApplied, CallType, Moved
        <5>3. QED
          BY <5>1, <5>2, OneCall
      <4>4. QED
        BY <4>2, <4>3
    <3>2. file' = file
      BY <2>10 DEF LoadApplied, recordVars
    <3>3. RestTyped'
      BY <1>3, <2>0, <2>10 DEF LoadApplied, At, RestTyped, Suffers, recordVars, Claimed
    <3>4. QED
      BY <2>0, <2>10, <3>1, <3>2, <3>3, PartsTyped DEF LoadApplied, At
  <2>11. CASE UndoStep(c)
    <3>1. CallChanges(c)
      <4> DEFINE j == Max(call[c].todo)
                 S == call[c].copy.applied \ {j}
                 p == [call[c].copy EXCEPT !.applied = S]
                 T == call[c].todo \ {j}
      <4>1. FileOK(p) /\ T \in SUBSET plan.steps /\ Fits("back", p.status) /\ call[c].res \in Results
        <5>1. call[c].copy.status # "none"
          BY <2>0, <2>11 DEF UndoStep, At, Fits
        <5>2. S \in SUBSET plan.steps /\ T \in SUBSET plan.steps
          BY <2>0, <2>11, FirstToDo DEF UndoStep, At, FileOK
        <5>3. FileOK(p) /\ p.status = call[c].copy.status
          BY <2>0, <5>1, <5>2, Edits
        <5>4. QED
          BY <2>0, <2>11, <5>2, <5>3 DEF UndoStep, At, Fits, Before
      <4>2. CallOK(Moved(call[c], "back", p, T, call[c].res))
        BY <2>0, <2>11, <4>1, GoesOn DEF UndoStep, At
      <4>3. call' = [call EXCEPT ![c] = Moved(call[c], "back", p, T, call[c].res)]
        BY <1>2, <2>0, <2>11 DEF UndoStep, At, CallType, Moved
      <4>4. QED
        BY <4>2, <4>3, OneCall
    <3>2. file' = file
      BY <2>11 DEF UndoStep, recordVars
    <3>3. RestTyped'
      BY <1>3, <2>0, <2>11 DEF UndoStep, At, RestTyped, Suffers, recordVars, Claimed
    <3>4. QED
      BY <2>0, <2>11, <3>1, <3>2, <3>3, PartsTyped DEF UndoStep, At
  <2>12. CASE PassOver(c)
    <3>1. CallChanges(c)
      <4> DEFINE j == Max(call[c].todo)
                 S == IF j \in Files THEN call[c].copy.applied \ {j} ELSE call[c].copy.applied
                 p == [call[c].copy EXCEPT !.applied = S]
                 T == call[c].todo \ {j}
      <4>1. FileOK(p) /\ T \in SUBSET plan.steps /\ Fits("back", p.status) /\ call[c].res \in Results
        <5>1. call[c].copy.status # "none"
          BY <2>0, <2>12 DEF PassOver, At, Fits
        <5>2. S \in SUBSET plan.steps /\ T \in SUBSET plan.steps
          BY <2>0, <2>12, FirstToDo DEF PassOver, At, FileOK
        <5>3. FileOK(p) /\ p.status = call[c].copy.status
          BY <2>0, <5>1, <5>2, Edits
        <5>4. QED
          BY <2>0, <2>12, <5>2, <5>3 DEF PassOver, At, Fits, Before
      <4>2. CallOK(Moved(call[c], "back", p, T, call[c].res))
        BY <2>0, <2>12, <4>1, GoesOn DEF PassOver, At
      <4>3. call' = [call EXCEPT ![c] = Moved(call[c], "back", p, T, call[c].res)]
        BY <1>2, <2>0, <2>12 DEF PassOver, At, CallType, Moved
      <4>4. QED
        BY <4>2, <4>3, OneCall
    <3>2. file' = file
      BY <2>12 DEF PassOver, recordVars
    <3>3. RestTyped'
      BY <1>3, <2>0, <2>12 DEF PassOver, At, RestTyped, Suffers, recordVars, Claimed
    <3>4. QED
      BY <2>0, <2>12, <3>1, <3>2, <3>3, PartsTyped DEF PassOver, At
  <2>13. CASE UndoFails(c)
    <3>1. CallChanges(c)
      <4> DEFINE p == [call[c].copy EXCEPT !.status = "failed", !.noted = {}]
                 T == call[c].todo
      <4>1. FileOK(p) /\ T \in SUBSET plan.steps /\ Fits("end", p.status) /\ call[c].res \in Results
        <5>1. call[c].copy.status # "none"
          BY <2>0, <2>13 DEF UndoFails, At, Fits
        <5>2. FileOK(p) /\ T \in SUBSET plan.steps
          BY <2>0, <2>13, <5>1, Edits DEF UndoFails, At, Statuses
        <5>3. QED
          BY <2>0, <2>13, <5>1, <5>2, Edits DEF UndoFails, At, Statuses, Fits, Before
      <4>2. CallOK(Moved(call[c], "end", p, T, call[c].res))
        BY <2>0, <2>13, <4>1, GoesOn DEF UndoFails, At
      <4>3. call' = [call EXCEPT ![c] = Moved(call[c], "end", p, T, call[c].res)]
        BY <1>2, <2>0, <2>13 DEF UndoFails, At, CallType, Moved
      <4>4. QED
        BY <4>2, <4>3, OneCall
    <3>2. file' = file
      BY <2>13 DEF UndoFails, recordVars
    <3>3. RestTyped'
      <4>1. device' \in [Ids -> [Steps -> DeviceStates]]
        BY <1>3, <2>0, <2>13 DEF UndoFails, At, RestTyped
      <4>2. QED
        BY <1>3, <2>0, <2>13, <4>1 DEF UndoFails, At, RestTyped, Suffers, recordVars
    <3>4. QED
      BY <2>0, <2>13, <3>1, <3>2, <3>3, PartsTyped DEF UndoFails, At
  <2>14. CASE AllUndone(c)
    <3>1. CallChanges(c)
      <4> DEFINE p == [call[c].copy EXCEPT !.status = "draft", !.noted = {}]
                 T == call[c].todo
      <4>1. FileOK(p) /\ T \in SUBSET plan.steps /\ Fits("end", p.status) /\ call[c].res \in Results
        <5>1. call[c].copy.status # "none"
          BY <2>0, <2>14 DEF AllUndone, At, Fits
        <5>2. FileOK(p) /\ T \in SUBSET plan.steps
          BY <2>0, <2>14, <5>1, Edits DEF AllUndone, At, Statuses
        <5>3. QED
          BY <2>0, <2>14, <5>1, <5>2, Edits DEF AllUndone, At, Statuses, Fits, Before
      <4>2. CallOK(Moved(call[c], "end", p, T, call[c].res))
        BY <2>0, <2>14, <4>1, GoesOn DEF AllUndone, At
      <4>3. call' = [call EXCEPT ![c] = Moved(call[c], "end", p, T, call[c].res)]
        BY <1>2, <2>0, <2>14 DEF AllUndone, At, CallType, Moved
      <4>4. QED
        BY <4>2, <4>3, OneCall
    <3>2. file' = file
      BY <2>14 DEF AllUndone, recordVars
    <3>3. RestTyped'
      BY <1>3, <2>0, <2>14 DEF AllUndone, At, RestTyped, Suffers, recordVars, Claimed
    <3>4. QED
      BY <2>0, <2>14, <3>1, <3>2, <3>3, PartsTyped DEF AllUndone, At
  <2>15. QED
    BY <1>8, <2>1, <2>2, <2>3, <2>4, <2>5, <2>6, <2>7, <2>8, <2>9, <2>10, <2>11, <2>12, <2>13,
       <2>14 DEF CallStep
<1>9. ASSUME NEW c \in Callers, NEW id \in plan.ids, BeginExecute(c, id) \/ BeginRollback(c, id)
      PROVE  Typed'
  <2>1. CallChanges(c)
    <3> DEFINE r(pc, p) == [Idle("none") EXCEPT !.pc = pc, !.id = id, !.copy = p]
    <3>1. FileOK(file[id]) /\ id \in Ids
      BY <1>2, <1>4
    <3>2. \A p : FileOK(p) => CallOK(r("load", p)) /\ (p.status = "approved" => CallOK(r("check", p)))
      BY <1>5, <3>1 DEF CallOK, CallType, Idle, Before, FileOK
    <3>3. \E q : CallOK(q) /\ call' = [call EXCEPT ![c] = q]
      <4>1. CASE BeginExecute(c, id)
        BY <1>5, <3>1, <3>2, <4>1 DEF BeginExecute, Returns
      <4>2. CASE BeginRollback(c, id)
        <5>1. CallOK([Idle("none") EXCEPT !.pc = "load", !.id = id])
          BY <1>5, <3>1 DEF CallOK, CallType, Idle, Before, FileOK
        <5>2. QED
          BY <1>5, <4>2, <5>1 DEF BeginRollback, Returns
      <4>3. QED
        BY <1>9, <4>1, <4>2
    <3>4. QED
      BY <3>3, OneCall
  <2>2. RestTyped' /\ file' = file
    BY <1>3, <1>4, <1>9 DEF BeginExecute, BeginRollback, RestTyped, recordVars
  <2>3. QED
    BY <2>1, <2>2, PartsTyped
<1>10. ASSUME NEW c \in Callers, At(c, "idle"), Answered(c), UNCHANGED proposalVars
       PROVE  Typed'
  <2>1. CallChanges(c)
    BY <1>2, <1>10 DEF At, Answered, CallChanges, CallOK, CallType
  <2>2. RestTyped' /\ file' = file
    BY <1>3, <1>10 DEF RestTyped, proposalVars, recordVars
  <2>3. QED
    BY <2>1, <2>2, PartsTyped
<1>11. CASE \E i \in Steps : RemoveDevice(i)
  <2>1. RestTyped' /\ file' = file /\ call' = call
    BY <1>3, <1>11 DEF RemoveDevice, RestTyped, recordVars
  <2>2. QED
    BY <2>1, PartsTyped
<1>12. CASE Crash
  <2>1. RestTyped' /\ file' = file
    BY <1>3, <1>12 DEF Crash, RestTyped
  <2>2. call' \in [Callers -> CallType] /\ \A c \in Callers : CallOK(call'[c])
    BY <1>5, <1>12 DEF Crash
  <2>3. plan' \in PlanType /\ plan'.ids = plan.ids /\ plan'.steps = plan.steps
    BY PlanKept
  <2>4. /\ plan'.callers \subseteq Callers /\ plan'.approvals \in Nat
        /\ plan'.crashes \in Nat /\ plan'.removals \in Nat
    BY <2>3 DEF PlanType
  <2>5. (\A id \in Ids : FileOK(file[id]))' /\ (\A c \in Callers : CallOK(call[c]))'
    BY <1>2, <2>1, <2>2, <2>3 DEF FileOK, CallOK
  <2>6. QED
    BY <1>2, <2>1, <2>2, <2>3, <2>4, <2>5 DEF Typed, TypeOK, RestTyped, CallType
<1>13. CASE UNCHANGED vars
  <2>1. RestTyped' /\ file' = file /\ call' = call
    BY <1>3, <1>13 DEF vars, RestTyped, recordVars
  <2>2. QED
    BY <2>1, PartsTyped
<1>14. QED
  BY <1>6, <1>7, <1>8, <1>9, <1>10, <1>11, <1>12, <1>13 DEF Step

-----------------------------------------------------------------------------
(* The inductive invariant.                                                *)

\* Whoever works on a proposal has its mark, and alone.
Marks ==
    \A c \in Callers : call[c].pc \in Held =>
        /\ call[c].id \in inflight
        /\ \A d \in Callers : call[d].pc \in Held /\ call[d].id = call[c].id => c = d

\* What is approved, the human approved, or a stale copy says so.
Licences ==
    \A id \in plan.ids :
        file[id].status = "approved" => id \in licensed \/ <<id, "stale">> \in mishaps

\* The changes of the steps S are on the devices, of no other step, and whole.
Shown(d, S) ==
    /\ S = {i \in Steps : d[i] = "new"}
    /\ \A i \in Steps : d[i] \in {"old", "new"}

FileTells(id) ==
    file[id].status # "none" =>
        /\ file[id].status # "executing"
        /\ Shown(device[id], file[id].applied)
        /\ file[id].status = "done" => file[id].applied = plan.steps

\* What a call knows of its proposal id, from its place and its copy p.
CopyTells(id, r) ==
    /\ r.pc \in Before => r.copy.applied = {}
    /\ r.pc \in {"apply", "save"} =>
        /\ file[id].status = "executing"
        /\ Shown(device[id], r.copy.applied)
        /\ r.todo = plan.steps \ r.copy.applied
    /\ r.pc = "end" =>
        /\ file[id].status \in {"executing", "partial", "done"}
        /\ Shown(device[id], r.copy.applied)
        /\ r.copy.status = "done" => r.copy.applied = plan.steps
        /\ r.copy.status = "draft" => r.copy.applied = {}
    /\ r.pc = "back" =>
        /\ file[id].status \in {"partial", "done"}
        /\ Shown(device[id], r.copy.applied)
        /\ r.todo = r.copy.applied
    /\ r.pc \in {"load", "release"} => FileTells(id)

About(c, id) == ~At(c, "idle") /\ call[c].id = id

TruthOf(id) ==
    /\ file[id].status \in {"draft", "approved", "rejected"} => file[id].applied = {}
    /\ id \notin inflight => FileTells(id)
    /\ \A c \in Callers : About(c, id) => CopyTells(id, call[c])

Truth == \A id \in plan.ids : Harmed(id) \/ TruthOf(id)

Inv == Typed /\ CutTyped /\ Marks /\ Licences /\ Truth

\* What the invariant is for.
LEMMA RecordFollows == Inv => RecordTells
<1>1. SUFFICES ASSUME Inv, NEW id \in plan.ids, Known(id), id \notin inflight, ~Harmed(id)
               PROVE  /\ file[id].status # "executing"
                      /\ file[id].applied = {i \in Steps : device[id][i] = "new"}
                      /\ \A i \in Steps : device[id][i] \in {"old", "new"}
                      /\ file[id].status \in {"draft", "approved", "rejected"} => file[id].applied = {}
                      /\ file[id].status = "done" => file[id].applied = plan.steps
  BY DEF RecordTells
<1>2. TruthOf(id)
  BY <1>1 DEF Inv, Truth
<1>3. QED
  BY <1>1, <1>2 DEF TruthOf, FileTells, Shown, Known

-----------------------------------------------------------------------------
(* What each action does, field by field.                                  *)

Others(c) == \A d \in Callers \ {c} : call'[d] = call[d]
SameFile(id) == file'[id] = file[id]

LEMMA CallsAreTyped == Typed => call \in [Callers -> CallType] /\ file \in [Ids -> Proposal]
BY DEF Typed, TypeOK, CallType

LEMMA BeginExecuteIs ==
    ASSUME Typed, NEW c \in Callers, NEW id \in plan.ids, BeginExecute(c, id)
    PROVE  /\ UNCHANGED <<plan, file, licensed, inflight, device, mishaps>>
           /\ Others(c)
           /\ \/ call'[c].pc = "idle"
              \/ /\ call'[c].pc = "check" /\ call'[c].id = id /\ call'[c].copy = file[id]
                 /\ file[id].status = "approved"
<1>1. CASE file[id].status = "approved"
  BY <1>1, CallsAreTyped DEF BeginExecute, Others, recordVars, Idle
<1>2. CASE file[id].status # "approved"
  BY <1>2, CallsAreTyped DEF BeginExecute, Others, recordVars, Idle, Returns
<1>3. QED
  BY <1>1, <1>2

LEMMA OnlineCheckIs ==
    ASSUME Typed, NEW c \in Callers, OnlineCheck(c)
    PROVE  /\ UNCHANGED <<plan, file, licensed, inflight, device, mishaps>>
           /\ Others(c)
           /\ At(c, "check") /\ call'[c].pc \in {"claim", "ask"} /\ call'[c].id = call[c].id
           /\ call'[c].copy.applied = call[c].copy.applied
BY CallsAreTyped DEF OnlineCheck, Others, recordVars, At, CallType, Moves

LEMMA AskHumanIs ==
    ASSUME Typed, NEW c \in Callers, AskHuman(c)
    PROVE  /\ UNCHANGED <<plan, licensed, inflight, device>>
           /\ Others(c)
           /\ At(c, "ask") /\ call'[c].pc = "idle"
           /\ file' = [file EXCEPT ![call[c].id] = call[c].copy]
           /\ \/ file[call[c].id].status = "approved" /\ mishaps' = mishaps
              \/ mishaps' = mishaps \cup {<<call[c].id, "stale">>}
BY CallsAreTyped DEF AskHuman, Others, recordVars, At, Returns, Idle, SaveProposal, Suffers

LEMMA ClaimIs ==
    ASSUME Typed, NEW c \in Callers, Claim(c)
    PROVE  /\ UNCHANGED <<plan, device, mishaps>>
           /\ Others(c)
           /\ At(c, "claim")
           /\ \/ call'[c].pc = "idle" /\ UNCHANGED <<file, inflight, licensed>>
              \/ /\ file[call[c].id].status = "approved" /\ call[c].id \notin inflight
                 /\ inflight' = inflight \cup {call[c].id}
                 /\ licensed' = licensed \ {call[c].id}
                 /\ file' = [file EXCEPT ![call[c].id].status = "executing"]
                 /\ call'[c].pc = "apply" /\ call'[c].id = call[c].id /\ call'[c].todo = plan.steps
                 /\ call'[c].copy.applied = file[call[c].id].applied
<1> DEFINE id == call[c].id
<1>1. CASE file[id].status = "approved" /\ id \notin inflight
  <2>1. id \in Ids /\ FileOK(file[id])
    BY PlaceIs DEF Claim, At
  <2>2. file[id] \in Written
    BY <1>1, <2>1 DEF FileOK, Proposal, Missing
  <2>3. [file[id] EXCEPT !.status = "executing"].applied = file[id].applied
    BY <2>2
  <2>4. /\ file' = [file EXCEPT ![id] = [file[id] EXCEPT !.status = "executing"]]
        /\ inflight' = inflight \cup {id} /\ licensed' = licensed \ {id}
        /\ UNCHANGED <<plan, seq, device, gone, mishaps>> /\ At(c, "claim")
        /\ call' = [call EXCEPT ![c].pc = "apply", ![c].todo = plan.steps,
                                ![c].copy = [file[id] EXCEPT !.status = "executing"]]
    BY <1>1 DEF Claim, Claimed, SaveProposal
  <2>5. QED
    BY <1>1, <2>3, <2>4, CallsAreTyped DEF Others, CallType
<1>2. CASE ~(file[id].status = "approved" /\ id \notin inflight)
  BY <1>2, CallsAreTyped DEF Claim, Others, Returns, Idle
<1>3. QED
  BY <1>1, <1>2

LEMMA ApplyStepIs ==
    ASSUME Typed, NEW c \in Callers, ApplyStep(c)
    PROVE  LET i == Min(call[c].todo) IN
           /\ UNCHANGED <<plan, file, inflight, licensed, mishaps>>
           /\ Others(c)
           /\ At(c, "apply")
           /\ device' = [device EXCEPT ![call[c].id][i] = IF @ \in {"new", "twice"} THEN "twice" ELSE "new"]
           /\ call'[c].pc = "save" /\ call'[c].id = call[c].id /\ call'[c].todo = call[c].todo \ {i}
           /\ call'[c].copy.applied = call[c].copy.applied \cup {i}
BY CallsAreTyped DEF ApplyStep, Others, recordVars, At, CallType

LEMMA SaveStepIs ==
    ASSUME Typed, NEW c \in Callers, SaveStep(c)
    PROVE  /\ UNCHANGED <<plan, inflight, licensed, device, mishaps>>
           /\ Others(c)
           /\ At(c, "save")
           /\ file' = [file EXCEPT ![call[c].id] = call[c].copy]
           /\ call'[c].id = call[c].id /\ call'[c].todo = call[c].todo
           /\ call'[c].copy.applied = call[c].copy.applied
           /\ \/ call[c].todo = {} /\ call'[c].pc = "end" /\ call'[c].copy.status = "done"
              \/ call[c].todo # {} /\ call'[c].pc = "apply"
<1>1. At(c, "save") /\ FileOK(call[c].copy) /\ call[c].copy.status # "none"
  BY PlaceIs DEF SaveStep, At, Fits
<1>2. call[c].copy \in Written
  BY <1>1 DEF FileOK, Proposal, Missing
<1>3. QED
  BY <1>1, <1>2, CallsAreTyped DEF SaveStep, Others, recordVars, At, CallType, SaveProposal, Moves

\* The end of a transition, with what is then saved.
Freezes(c, status) ==
    /\ call'[c].pc = "end" /\ call'[c].id = call[c].id
    /\ call'[c].copy.status = status /\ call'[c].copy.applied = call[c].copy.applied

LEMMA StepFailsIs ==
    ASSUME Typed, NEW c \in Callers, StepFails(c)
    PROVE  /\ UNCHANGED <<plan, file, inflight, licensed, device, mishaps>>
           /\ Others(c)
           /\ At(c, "apply") /\ Freezes(c, "partial")
<1>1. At(c, "apply") /\ FileOK(call[c].copy) /\ call[c].copy.status # "none"
  BY PlaceIs DEF StepFails, At, Fits
<1>2. call[c].copy \in Written
  BY <1>1 DEF FileOK, Proposal, Missing
<1>3. QED
  BY <1>1, <1>2, CallsAreTyped DEF StepFails, Others, recordVars, At, CallType, Freezes

LEMMA CommandFailsIs ==
    ASSUME Typed, NEW c \in Callers, CommandFails(c)
    PROVE  /\ UNCHANGED <<plan, file, inflight, licensed>>
           /\ Others(c)
           /\ At(c, "apply") /\ call'[c].pc = "end" /\ call'[c].id = call[c].id
           /\ mishaps' = mishaps \cup {<<call[c].id, "mixed">>}
           /\ \E i : device' = [device EXCEPT ![call[c].id][i] = "mixed"]
BY CallsAreTyped DEF CommandFails, Others, recordVars, At, CallType, Suffers

LEMMA SaveEndIs ==
    ASSUME Typed, NEW c \in Callers, SaveEnd(c)
    PROVE  /\ UNCHANGED <<plan, inflight, licensed, device, mishaps>>
           /\ Others(c)
           /\ At(c, "end") /\ call'[c].pc = "release" /\ call'[c].id = call[c].id
           /\ file' = [file EXCEPT ![call[c].id] = call[c].copy]
BY CallsAreTyped DEF SaveEnd, Others, recordVars, At, CallType, SaveProposal

LEMMA ReleaseInflightIs ==
    ASSUME Typed, NEW c \in Callers, ReleaseInflight(c)
    PROVE  /\ UNCHANGED <<plan, file, licensed, device, mishaps>>
           /\ Others(c)
           /\ At(c, "release") /\ call'[c].pc = "idle"
           /\ inflight' = inflight \ {call[c].id}
BY CallsAreTyped DEF ReleaseInflight, Others, recordVars, At, Returns, Idle

LEMMA BeginRollbackIs ==
    ASSUME Typed, NEW c \in Callers, NEW id \in plan.ids, BeginRollback(c, id)
    PROVE  /\ UNCHANGED <<plan, file, licensed, device, mishaps>>
           /\ Others(c)
           /\ \/ call'[c].pc = "idle" /\ inflight' = inflight
              \/ /\ id \notin inflight /\ inflight' = inflight \cup {id}
                 /\ call'[c].pc = "load" /\ call'[c].id = id
<1>1. CASE id \in inflight
  BY <1>1, CallsAreTyped DEF BeginRollback, Others, recordVars, Idle, Returns
<1>2. CASE id \notin inflight
  BY <1>2, CallsAreTyped DEF BeginRollback, Others, recordVars, Idle
<1>3. QED
  BY <1>1, <1>2

LEMMA LoadAppliedIs ==
    ASSUME Typed, NEW c \in Callers, LoadApplied(c)
    PROVE  /\ UNCHANGED <<plan, file, inflight, licensed, device, mishaps>>
           /\ Others(c)
           /\ At(c, "load") /\ call'[c].id = call[c].id
           /\ \/ call'[c].pc = "release"
              \/ /\ file[call[c].id].status \in {"partial", "done"}
                 /\ call'[c].pc = "back" /\ call'[c].copy = file[call[c].id]
                 /\ call'[c].todo = file[call[c].id].applied
BY CallsAreTyped DEF LoadApplied, Others, recordVars, At, CallType

LEMMA UndoStepIs ==
    ASSUME Typed, NEW c \in Callers, UndoStep(c)
    PROVE  LET i == Max(call[c].todo) IN
           /\ UNCHANGED <<plan, file, inflight, licensed, mishaps>>
           /\ Others(c)
           /\ At(c, "back") /\ call[c].todo # {}
           /\ device' = [device EXCEPT ![call[c].id][i] = IF @ \in {"old", "twice"} THEN "twice" ELSE "old"]
           /\ call'[c].pc = "back" /\ call'[c].id = call[c].id /\ call'[c].todo = call[c].todo \ {i}
           /\ call'[c].copy.applied = call[c].copy.applied \ {i}
BY CallsAreTyped DEF UndoStep, Others, recordVars, At, CallType

LEMMA PassOverIs ==
    ASSUME Typed, NEW c \in Callers, PassOver(c)
    PROVE  /\ UNCHANGED <<plan, file, inflight, licensed, device>>
           /\ Others(c)
           /\ At(c, "back") /\ call'[c].pc = "back" /\ call'[c].id = call[c].id
           /\ mishaps' = mishaps \cup {<<call[c].id, "gone">>}
BY CallsAreTyped DEF PassOver, Others, recordVars, At, CallType, Suffers

LEMMA UndoFailsIs ==
    ASSUME Typed, NEW c \in Callers, UndoFails(c)
    PROVE  /\ UNCHANGED <<plan, file, inflight, licensed>>
           /\ Others(c)
           /\ At(c, "back") /\ call'[c].pc = "end" /\ call'[c].id = call[c].id
           /\ mishaps' = mishaps \cup {<<call[c].id, "mixed">>}
           /\ \E i : device' = [device EXCEPT ![call[c].id][i] = "mixed"]
BY CallsAreTyped DEF UndoFails, Others, recordVars, At, CallType, Suffers

LEMMA AllUndoneIs ==
    ASSUME Typed, NEW c \in Callers, AllUndone(c)
    PROVE  /\ UNCHANGED <<plan, file, inflight, licensed, device, mishaps>>
           /\ Others(c)
           /\ At(c, "back") /\ call[c].todo = {} /\ Freezes(c, "draft")
<1>1. At(c, "back") /\ FileOK(call[c].copy) /\ call[c].copy.status # "none"
  BY PlaceIs DEF AllUndone, At, Fits
<1>2. call[c].copy \in Written
  BY <1>1 DEF FileOK, Proposal, Missing
<1>3. QED
  BY <1>1, <1>2, CallsAreTyped DEF AllUndone, Others, recordVars, At, CallType, Freezes

-----------------------------------------------------------------------------
(* Marks and licences.                                                     *)

LEMMA MarksKept == Typed /\ Marks /\ Step => Marks'
<1>1. SUFFICES ASSUME Typed, Marks, Step PROVE Marks'
  OBVIOUS
<1> USE <1>1
<1>2. ASSUME NEW c \in Callers, Others(c), inflight' = inflight,
             call'[c].pc \in Held => call[c].pc \in Held /\ call'[c].id = call[c].id
      PROVE  Marks'
  BY <1>2 DEF Marks, Others
<1>3. ASSUME NEW c \in Callers, Others(c), NEW id, id \notin inflight,
             inflight' = inflight \cup {id}, call'[c].id = id
      PROVE  Marks'
  BY <1>3 DEF Marks, Others
<1>4. CASE UNCHANGED <<inflight, call>>
  BY <1>4 DEF Marks
<1>5. ASSUME NEW c \in Callers, CallStep(c) PROVE Marks'
  <2>1. CASE OnlineCheck(c)
    BY <2>1, <1>2, OnlineCheckIs DEF Held
  <2>2. CASE AskHuman(c)
    BY <2>2, <1>2, AskHumanIs DEF Held
  <2>3. CASE Claim(c)
    BY <2>3, <1>2, <1>3, ClaimIs DEF Held
  <2>4. CASE ApplyStep(c)
    BY <2>4, <1>2, ApplyStepIs DEF Held, At
  <2>5. CASE SaveStep(c)
    BY <2>5, <1>2, SaveStepIs DEF Held, At
  <2>6. CASE StepFails(c)
    BY <2>6, <1>2, StepFailsIs DEF Held, At, Freezes
  <2>7. CASE CommandFails(c)
    BY <2>7, <1>2, CommandFailsIs DEF Held, At
  <2>8. CASE SaveEnd(c)
    BY <2>8, <1>2, SaveEndIs DEF Held, At
  <2>9. CASE ReleaseInflight(c)
    <3>1. /\ Others(c) /\ inflight' = inflight \ {call[c].id}
          /\ call[c].pc \in Held /\ call'[c].pc \notin Held
      BY <2>9, ReleaseInflightIs DEF Held, At
    <3>2. QED
      BY <3>1 DEF Marks, Others
  <2>10. CASE LoadApplied(c)
    BY <2>10, <1>2, LoadAppliedIs DEF Held, At
  <2>11. CASE UndoStep(c)
    BY <2>11, <1>2, UndoStepIs DEF Held, At
  <2>12. CASE PassOver(c)
    BY <2>12, <1>2, PassOverIs DEF Held, At
  <2>13. CASE UndoFails(c)
    BY <2>13, <1>2, UndoFailsIs DEF Held, At
  <2>14. CASE AllUndone(c)
    BY <2>14, <1>2, AllUndoneIs DEF Held, At, Freezes
  <2>15. QED
    BY <1>5, <2>1, <2>2, <2>3, <2>4, <2>5, <2>6, <2>7, <2>8, <2>9, <2>10, <2>11, <2>12, <2>13, <2>14
       DEF CallStep
<1>6. ASSUME NEW c \in Callers, NEW id \in plan.ids, BeginExecute(c, id) \/ BeginRollback(c, id)
      PROVE  Marks'
  <2>1. CASE BeginExecute(c, id)
    BY <2>1, <1>2, BeginExecuteIs DEF Held
  <2>2. CASE BeginRollback(c, id)
    BY <2>2, <1>2, <1>3, BeginRollbackIs DEF Held
  <2>3. QED
    BY <1>6, <2>1, <2>2
<1>7. ASSUME NEW c \in Callers, At(c, "idle"), Answered(c), UNCHANGED proposalVars
      PROVE  Marks'
  BY <1>7, <1>2, CallsAreTyped DEF Answered, proposalVars, At, Held, Others, CallType
<1>8. CASE Crash
  BY <1>8 DEF Crash, Marks, Idle, Held
<1>9. CASE \/ Propose \/ UNCHANGED vars
           \/ (\E id \in plan.ids : Decide(id)) \/ (\E i \in Steps : RemoveDevice(i))
  BY <1>4, <1>9 DEF Propose, Decide, ApproveProposal, RejectProposal, DeleteProposal,
     RemoveDevice, vars
<1>10. QED
  BY <1>5, <1>6, <1>7, <1>8, <1>9 DEF Step

LEMMA LicencesKept == Typed /\ Licences /\ Step => Licences'
<1>1. SUFFICES ASSUME Typed, Licences, Step, NEW id \in plan.ids, file'[id].status = "approved"
               PROVE  id \in licensed' \/ <<id, "stale">> \in mishaps'
  BY PlanKept DEF Licences
<1> USE <1>1
<1>2. mishaps \subseteq mishaps'
  BY ZenonT(40) DEF Step, Propose, Decide, ApproveProposal, RejectProposal, DeleteProposal,
              CallStep, OnlineCheck, AskHuman, Claim, ApplyStep, SaveStep, StepFails,
              CommandFails, SaveEnd, ReleaseInflight, LoadApplied, UndoStep, PassOver, UndoFails,
              AllUndone, BeginExecute, BeginRollback, proposalVars, RemoveDevice, Crash, vars, Suffers
<1>3. file \in [Ids -> Proposal] /\ plan.ids \subseteq Ids
  BY CallsAreTyped DEF Typed, PlanType
<1>4. CASE file'[id].status = file[id].status /\ (id \in licensed => id \in licensed')
  BY <1>2, <1>4 DEF Licences
<1>5. CASE Propose
  BY <1>3, <1>4, <1>5 DEF Propose, SaveProposal, Missing
<1>6. ASSUME NEW k \in plan.ids, Decide(k) PROVE id \in licensed' \/ <<id, "stale">> \in mishaps'
  <2>1. CASE ApproveProposal(k)
    BY <1>3, <1>4, <2>1 DEF ApproveProposal, SaveProposal
  <2>2. CASE RejectProposal(k)
    <3>1. FileOK(file[k]) /\ file[k].status # "none"
      BY <1>3, <2>2 DEF RejectProposal, Typed
    <3>2. [file[k] EXCEPT !.status = "rejected", !.noted = {}].status = "rejected"
      BY <3>1, Edits DEF Statuses
    <3>3. QED
      BY <1>3, <1>4, <2>2, <3>2 DEF RejectProposal, SaveProposal
  <2>3. CASE DeleteProposal(k)
    BY <1>3, <1>4, <2>3 DEF DeleteProposal, SaveProposal, Missing
  <2>4. QED
    BY <1>6, <2>1, <2>2, <2>3 DEF Decide
<1>7. ASSUME NEW c \in Callers, CallStep(c) PROVE id \in licensed' \/ <<id, "stale">> \in mishaps'
  <2>1. CASE AskHuman(c)
    BY <1>3, <1>4, <2>1, AskHumanIs
  <2>2. CASE Claim(c)
    <3>1. CASE file' = file /\ licensed' = licensed
      BY <1>4, <3>1
    <3>2. CASE file' = [file EXCEPT ![call[c].id].status = "executing"] /\ licensed' = licensed \ {call[c].id}
               /\ file[call[c].id].status = "approved"
      <4>1. call[c].id \in Ids /\ FileOK(file[call[c].id])
        BY <2>2, PlaceIs DEF Claim, At
      <4>2. [file[call[c].id] EXCEPT !.status = "executing"].status = "executing"
        BY <3>2, <4>1, Edits DEF Statuses
      <4>3. QED
        BY <1>3, <1>4, <3>2, <4>2
    <3>3. QED
      BY <2>2, <3>1, <3>2, ClaimIs
  <2>3. CASE SaveStep(c)
    <3>1. call[c].copy.status = "executing"
      BY <2>3, PlaceIs DEF SaveStep, At, Fits
    <3>2. QED
      BY <1>3, <1>4, <2>3, <3>1, SaveStepIs
  <2>4. CASE SaveEnd(c)
    <3>1. call[c].copy.status # "approved"
      BY <2>4, PlaceIs DEF SaveEnd, At, Fits
    <3>2. QED
      BY <1>3, <1>4, <2>4, <3>1, SaveEndIs
  <2>5. QED
    BY <1>4, <1>7, <2>1, <2>2, <2>3, <2>4, OnlineCheckIs, ApplyStepIs, StepFailsIs, CommandFailsIs,
       ReleaseInflightIs, LoadAppliedIs, UndoStepIs, PassOverIs, UndoFailsIs, AllUndoneIs DEF CallStep
<1>8. CASE file' = file /\ licensed' = licensed
  BY <1>4, <1>8
<1>9. QED
  BY <1>5, <1>6, <1>7, <1>8 DEF Step, BeginExecute, BeginRollback, proposalVars, RemoveDevice,
     Crash, vars, recordVars

-----------------------------------------------------------------------------
(* The record tells the truth.                                             *)

\* Nothing happens to a proposal, but that a call goes on knowing what its place
\* asks for, or ends.
LEMMA OnlyCallsOf ==
    ASSUME Typed, Step, NEW id \in plan.ids, TruthOf(id),
           file'[id] = file[id], device'[id] = device[id], id \in inflight => id \in inflight',
           \A c \in Callers : About(c, id)' => call'[c] = call[c] \/ CopyTells(id, call[c])'
    PROVE  TruthOf(id)'
<1>1. plan'.steps = plan.steps
  BY PlanKept
<1>2. FileTells(id) => FileTells(id)'
  BY <1>1 DEF FileTells, Shown
<1>3. \A r : CopyTells(id, r) => CopyTells(id, r)'
  BY <1>1, <1>2 DEF CopyTells, Shown
<1>4. ASSUME NEW c \in Callers, About(c, id)' PROVE CopyTells(id, call[c])'
  BY <1>3, <1>4 DEF TruthOf, About, At
<1>5. QED
  BY <1>2, <1>4 DEF TruthOf

\* A proposal that no call of c is about is as it was.
LEMMA Apart ==
    ASSUME Typed, Step, NEW c \in Callers, Others(c), NEW id \in plan.ids, TruthOf(id),
           file'[id] = file[id], device'[id] = device[id], id \in inflight => id \in inflight',
           ~About(c, id)'
    PROVE  TruthOf(id)'
BY OnlyCallsOf DEF Others, About, At

LEMMA Waiting ==
    ASSUME Typed, Marks, NEW c \in Callers, NEW d \in Callers, d # c,
           call[c].pc \in Held, About(d, call[c].id)
    PROVE  call[d].pc \in Before
<1>1. call[d].pc \notin Held
  BY DEF Marks, About
<1>2. call[d] \in CallType /\ call[d].pc # "idle"
  BY PlaceIs DEF About, At
<1>3. QED
  BY <1>1, <1>2 DEF CallType, Held, Before

LEMMA HarmStays ==
    ASSUME Step, NEW id
    PROVE  Harmed(id) => Harmed(id)'
<1>1. mishaps \subseteq mishaps'
  BY ZenonT(40) DEF Step, Propose, Decide, ApproveProposal, RejectProposal, DeleteProposal,
              CallStep, OnlineCheck, AskHuman, Claim, ApplyStep, SaveStep, StepFails,
              CommandFails, SaveEnd, ReleaseInflight, LoadApplied, UndoStep, PassOver, UndoFails,
              AllUndone, BeginExecute, BeginRollback, proposalVars, RemoveDevice, Crash, vars, Suffers
<1>2. QED
  BY <1>1 DEF Harmed

\* A call that holds the proposal: the others wait.
LEMMA HolderMoves ==
    ASSUME Typed, Marks, Step, NEW c \in Callers, Others(c), call[c].pc \in Held, call'[c].id = call[c].id,
           NEW id \in plan.ids, id = call[c].id, TruthOf(id), id \in inflight' \/ FileTells(id)',
           (file'[id].status \in {"draft", "approved", "rejected"} => file'[id].applied = {}),
           call'[c].pc # "idle" => CopyTells(id, call[c])'
    PROVE  TruthOf(id)'
<1>1. ASSUME NEW d \in Callers, About(d, id)' PROVE CopyTells(id, call[d])'
  <2>1. CASE d = c
    BY <1>1, <2>1 DEF About, At
  <2>2. CASE d # c
    <3>1. call'[d] = call[d] /\ About(d, id)
      BY <1>1, <2>2 DEF Others, About, At
    <3>2. call[d].pc \in Before /\ CopyTells(id, call[d])
      BY <2>2, <3>1, Waiting DEF TruthOf
    <3>3. QED
      BY <3>1, <3>2 DEF CopyTells, Before
  <2>3. QED
    BY <2>1, <2>2
<1>2. QED
  BY <1>1 DEF TruthOf

\* A call touches its own proposal only.
LEMMA OwnProposal ==
    ASSUME Typed, NEW c \in Callers, CallStep(c), NEW id \in plan.ids, id # call[c].id
    PROVE  /\ Others(c) /\ file'[id] = file[id] /\ device'[id] = device[id]
           /\ id \in inflight => id \in inflight'
           /\ ~About(c, id)'
<1>1. /\ file \in [Ids -> Proposal]
      /\ device \in [Ids -> [Steps -> DeviceStates]] /\ id \in Ids
  BY CallsAreTyped DEF Typed, TypeOK, PlanType
<1>2. CASE OnlineCheck(c) \/ AskHuman(c) \/ Claim(c)
  BY <1>1, <1>2, OnlineCheckIs, AskHumanIs, ClaimIs DEF About, At
<1>3. CASE ApplyStep(c) \/ UndoStep(c)
  BY <1>1, <1>3, ApplyStepIs, UndoStepIs DEF About, At
<1>4. CASE CommandFails(c) \/ UndoFails(c) \/ PassOver(c)
  BY <1>1, <1>4, CommandFailsIs, UndoFailsIs, PassOverIs DEF About, At
<1>5. CASE SaveStep(c) \/ SaveEnd(c)
  BY <1>1, <1>5, SaveStepIs, SaveEndIs DEF About, At
<1>6. CASE StepFails(c) \/ ReleaseInflight(c) \/ LoadApplied(c) \/ AllUndone(c)
  BY <1>1, <1>6, StepFailsIs, ReleaseInflightIs, LoadAppliedIs, AllUndoneIs DEF About, At, Freezes
<1>7. QED
  BY <1>2, <1>3, <1>4, <1>5, <1>6 DEF CallStep

LEMMA OwnTruth ==
    ASSUME Typed, Marks, Step, NEW c \in Callers, CallStep(c), NEW id \in plan.ids, id = call[c].id,
           TruthOf(id), ~Harmed(id)'
    PROVE  TruthOf(id)'
<1>1. /\ file \in [Ids -> Proposal] /\ device \in [Ids -> [Steps -> DeviceStates]]
      /\ id \in Ids /\ plan'.steps = plan.steps
  BY CallsAreTyped, PlanKept DEF Typed, TypeOK, PlanType
<1>2. /\ ~At(c, "idle") => CopyTells(id, call[c])
      /\ file[id].status \in {"draft", "approved", "rejected"} => file[id].applied = {}
      /\ id \notin inflight => FileTells(id)
      /\ FileOK(file[id])
  BY <1>1 DEF TruthOf, About, Typed
<1>3. call[c].pc \in Held => id \in inflight
  BY DEF Marks
<1>4. CASE OnlineCheck(c)
  <2>1. CopyTells(id, call[c])'
    BY <1>2, <1>4, OnlineCheckIs DEF CopyTells, Before, At
  <2>2. QED
    BY <1>4, <2>1, OnlineCheckIs, OnlyCallsOf DEF Others
<1>5. CASE AskHuman(c)
  <2>1. /\ file[id].status = "approved" /\ file' = [file EXCEPT ![id] = call[c].copy]
        /\ Others(c) /\ call'[c].pc = "idle" /\ UNCHANGED <<inflight, device>>
    BY <1>5, AskHumanIs DEF Harmed
  <2>2. call[c].copy.status = "approved" /\ call[c].copy.applied = {}
    BY <1>2, <1>5, PlaceIs DEF AskHuman, At, Fits, Before, CopyTells
  <2>3. file'[id] = call[c].copy
    BY <1>1, <2>1
  <2>4. FileTells(id) => FileTells(id)'
    BY <1>1, <1>2, <2>1, <2>2, <2>3 DEF FileTells, Shown
  <2>5. ASSUME NEW d \in Callers, About(d, id)' PROVE CopyTells(id, call[d])'
    <3>1. call'[d] = call[d] /\ About(d, id)
      BY <2>1, <2>5 DEF Others, About, At
    <3>2. CopyTells(id, call[d])
      BY <3>1 DEF TruthOf
    <3>3. QED
      BY <2>1, <2>4, <3>1, <3>2 DEF CopyTells, Shown
  <2>6. QED
    BY <1>2, <2>1, <2>2, <2>3, <2>4, <2>5 DEF TruthOf
<1>6. CASE Claim(c)
  <2>1. CASE call'[c].pc = "idle" /\ UNCHANGED <<file, inflight, licensed>>
    BY <1>6, <2>1, ClaimIs, OnlyCallsOf DEF Others, About, At
  <2>2. CASE ~(call'[c].pc = "idle" /\ UNCHANGED <<file, inflight, licensed>>)
    <3>1. /\ file[id].status = "approved" /\ id \notin inflight
          /\ inflight' = inflight \cup {id}
          /\ file' = [file EXCEPT ![id].status = "executing"]
          /\ call'[c].pc = "apply" /\ call'[c].id = id /\ call'[c].todo = plan.steps
          /\ call'[c].copy.applied = file[id].applied
          /\ Others(c) /\ UNCHANGED device
      BY <1>6, <2>2, ClaimIs
    <3>2. file'[id].status = "executing"
      <4>1. [file[id] EXCEPT !.status = "executing"].status = "executing"
        BY <1>2, <3>1, Edits DEF Statuses
      <4>2. QED
        BY <1>1, <3>1, <4>1
    <3>3. file[id].applied = {} /\ Shown(device[id], {})
      BY <1>2, <3>1 DEF FileTells
    <3>4. CopyTells(id, call[c])'
      BY <1>1, <3>1, <3>2, <3>3 DEF CopyTells, Before, Shown
    <3>5. ASSUME NEW d \in Callers, About(d, id)' PROVE CopyTells(id, call[d])'
      <4>1. CASE d = c
        BY <3>4, <4>1
      <4>2. CASE d # c
        <5>1. call'[d] = call[d] /\ About(d, id) /\ call[d] \in CallType
          BY <3>1, <3>5, <4>2, PlaceIs DEF Others, About, At
        <5>2. call[d].pc \notin Held
          BY <3>1, <5>1 DEF Marks, About
        <5>3. call[d].pc \in Before /\ CopyTells(id, call[d])
          BY <5>1, <5>2 DEF CallType, Held, Before, About, At, TruthOf
        <5>4. QED
          BY <5>1, <5>3 DEF CopyTells, Before
      <4>3. QED
        BY <4>1, <4>2
    <3>6. QED
      BY <3>1, <3>2, <3>5 DEF TruthOf
  <2>3. QED
    BY <2>1, <2>2
<1>7. CASE ApplyStep(c)
  <2> DEFINE i == Min(call[c].todo)
  <2>1. /\ UNCHANGED <<file, inflight>> /\ Others(c) /\ At(c, "apply")
        /\ device' = [device EXCEPT ![id][i] = IF @ \in {"new", "twice"} THEN "twice" ELSE "new"]
        /\ call'[c].pc = "save" /\ call'[c].id = id /\ call'[c].todo = call[c].todo \ {i}
        /\ call'[c].copy.applied = call[c].copy.applied \cup {i}
    BY <1>7, ApplyStepIs
  <2>2. i \in call[c].todo /\ i \in plan.steps /\ i \in Steps
    BY <2>1, PlaceIs, FirstToDo DEF Typed, PlanType
  <2>3. /\ file[id].status = "executing" /\ Shown(device[id], call[c].copy.applied)
        /\ call[c].todo = plan.steps \ call[c].copy.applied
    BY <1>2, <2>1 DEF CopyTells, At
  <2>4. device[id][i] = "old"
    BY <2>2, <2>3 DEF Shown
  <2>5. device'[id] = [device[id] EXCEPT ![i] = "new"] /\ device[id] \in [Steps -> DeviceStates]
    BY <1>1, <2>1, <2>4
  <2>6. Shown(device'[id], call[c].copy.applied \cup {i})
    <3>1. \A k \in Steps : device'[id][k] = IF k = i THEN "new" ELSE device[id][k]
      BY <2>5
    <3>2. \A k : k \in call[c].copy.applied <=> k \in Steps /\ device[id][k] = "new"
      BY <2>3 DEF Shown
    <3>3. \A k : k \in call[c].copy.applied \cup {i} <=> k \in Steps /\ device'[id][k] = "new"
      BY <2>2, <3>1, <3>2
    <3>4. QED
      BY <2>3, <3>1, <3>3 DEF Shown
  <2>7. CopyTells(id, call[c])'
    BY <1>1, <2>1, <2>2, <2>3, <2>6 DEF CopyTells, Before, Shown
  <2>8. QED
    BY <1>2, <1>3, <2>1, <2>7, HolderMoves DEF Held, At
<1>8. CASE SaveStep(c)
  <2>1. /\ file' = [file EXCEPT ![id] = call[c].copy] /\ UNCHANGED <<device, inflight>> /\ Others(c)
        /\ At(c, "save") /\ call'[c].id = id /\ call'[c].todo = call[c].todo
        /\ call'[c].copy.applied = call[c].copy.applied
        /\ \/ call[c].todo = {} /\ call'[c].pc = "end" /\ call'[c].copy.status = "done"
           \/ call[c].todo # {} /\ call'[c].pc = "apply"
    BY <1>8, SaveStepIs
  <2>2. file'[id] = call[c].copy /\ call[c].copy.status = "executing" /\ call[c].copy.applied \subseteq plan.steps
    BY <1>1, <2>1, PlaceIs DEF At, Fits, FileOK
  <2>3. Shown(device'[id], call[c].copy.applied) /\ call[c].todo = plan.steps \ call[c].copy.applied
    BY <1>2, <2>1 DEF CopyTells, At, Shown
  <2>4. CopyTells(id, call[c])'
    <3>1. call[c].todo = {} => call[c].copy.applied = plan.steps
      BY <2>2, <2>3
    <3>2. CASE call[c].todo = {}
      BY <1>1, <2>1, <2>2, <2>3, <3>1, <3>2 DEF CopyTells, Before
    <3>3. CASE call[c].todo # {}
      BY <1>1, <2>1, <2>2, <2>3, <3>3 DEF CopyTells, Before
    <3>4. QED
      BY <3>2, <3>3
  <2>5. QED
    BY <1>3, <2>1, <2>2, <2>4, HolderMoves DEF Held, At
<1>9. CASE StepFails(c)
  <2>1. CopyTells(id, call[c])'
    BY <1>1, <1>2, <1>9, StepFailsIs DEF CopyTells, Before, At, Freezes, Shown
  <2>2. QED
    BY <1>9, <2>1, StepFailsIs, OnlyCallsOf DEF Others
<1>10. CASE CommandFails(c) \/ PassOver(c) \/ UndoFails(c)
  BY <1>10, CommandFailsIs, PassOverIs, UndoFailsIs DEF Harmed
<1>11. CASE SaveEnd(c)
  <2>1. /\ file' = [file EXCEPT ![id] = call[c].copy] /\ UNCHANGED <<device, inflight>> /\ Others(c)
        /\ At(c, "end") /\ call'[c].id = id /\ call'[c].pc = "release"
    BY <1>11, SaveEndIs
  <2>2. file'[id] = call[c].copy /\ call[c].copy.status \in {"partial", "done", "failed", "draft"}
    BY <1>1, <2>1, PlaceIs DEF At, Fits
  <2>3. /\ Shown(device'[id], call[c].copy.applied)
        /\ call[c].copy.status = "done" => call[c].copy.applied = plan.steps
        /\ call[c].copy.status = "draft" => call[c].copy.applied = {}
    BY <1>2, <2>1 DEF CopyTells, At, Shown
  <2>4. FileTells(id)'
    BY <1>1, <2>2, <2>3 DEF FileTells, Shown
  <2>5. CopyTells(id, call[c])'
    BY <2>1, <2>4 DEF CopyTells, Before
  <2>6. QED
    BY <2>1, <2>2, <2>3, <2>4, <2>5, HolderMoves DEF Held, At
<1>12. CASE ReleaseInflight(c)
  <2>1. /\ UNCHANGED <<file, device>> /\ Others(c) /\ At(c, "release") /\ call'[c].pc = "idle"
    BY <1>12, ReleaseInflightIs
  <2>2. FileTells(id)'
    BY <1>1, <1>2, <2>1 DEF CopyTells, At, FileTells, Shown
  <2>3. ASSUME NEW d \in Callers, About(d, id)' PROVE CopyTells(id, call[d])'
    <3>1. d # c /\ call'[d] = call[d] /\ About(d, id)
      BY <2>1, <2>3 DEF Others, About, At
    <3>2. call[d].pc \in Before /\ CopyTells(id, call[d])
      BY <2>1, <3>1, Waiting DEF TruthOf, Held, At
    <3>3. QED
      BY <3>1, <3>2 DEF CopyTells, Before
  <2>4. QED
    BY <1>2, <2>1, <2>2, <2>3 DEF TruthOf
<1>13. CASE LoadApplied(c)
  <2>1. CopyTells(id, call[c])'
    BY <1>1, <1>2, <1>13, LoadAppliedIs, SMTT(20) DEF CopyTells, Before, At, FileTells, Shown
  <2>2. QED
    BY <1>13, <2>1, LoadAppliedIs, OnlyCallsOf DEF Others
<1>14. CASE UndoStep(c)
  <2> DEFINE i == Max(call[c].todo)
  <2>1. /\ UNCHANGED <<file, inflight>> /\ Others(c) /\ At(c, "back") /\ call[c].todo # {}
        /\ device' = [device EXCEPT ![id][i] = IF @ \in {"old", "twice"} THEN "twice" ELSE "old"]
        /\ call'[c].pc = "back" /\ call'[c].id = id /\ call'[c].todo = call[c].todo \ {i}
        /\ call'[c].copy.applied = call[c].copy.applied \ {i}
    BY <1>14, UndoStepIs
  <2>2. i \in call[c].todo /\ i \in plan.steps /\ i \in Steps
    BY <2>1, PlaceIs, FirstToDo DEF Typed, PlanType
  <2>3. /\ file[id].status \in {"partial", "done"} /\ Shown(device[id], call[c].copy.applied)
        /\ call[c].todo = call[c].copy.applied
    BY <1>2, <2>1 DEF CopyTells, At
  <2>4. device[id][i] = "new"
    BY <2>2, <2>3 DEF Shown
  <2>5. device'[id] = [device[id] EXCEPT ![i] = "old"] /\ device[id] \in [Steps -> DeviceStates]
    BY <1>1, <2>1, <2>4
  <2>6. Shown(device'[id], call[c].copy.applied \ {i})
    BY <2>2, <2>3, <2>5 DEF Shown
  <2>7. CopyTells(id, call[c])'
    BY <1>1, <2>1, <2>2, <2>3, <2>6 DEF CopyTells, Before, Shown
  <2>8. QED
    BY <1>2, <1>3, <2>1, <2>7, HolderMoves DEF Held, At
<1>15. CASE AllUndone(c)
  <2>1. CopyTells(id, call[c])'
    BY <1>1, <1>2, <1>15, AllUndoneIs DEF CopyTells, Before, At, Freezes, Shown
  <2>2. QED
    BY <1>15, <2>1, AllUndoneIs, OnlyCallsOf DEF Others
<1>16. QED
  BY <1>4, <1>5, <1>6, <1>7, <1>8, <1>9, <1>10, <1>11, <1>12, <1>13, <1>14, <1>15 DEF CallStep

LEMMA HumansTruth ==
    ASSUME Typed, Marks, Step, Propose \/ \E k \in plan.ids : Decide(k),
           NEW id \in plan.ids, TruthOf(id), ~Harmed(id)'
    PROVE  TruthOf(id)'
<1>1. /\ file \in [Ids -> Proposal] /\ device \in [Ids -> [Steps -> DeviceStates]]
      /\ id \in Ids /\ plan'.steps = plan.steps
  BY CallsAreTyped, PlanKept DEF Typed, TypeOK, PlanType
<1>2. call' = call /\ inflight' = inflight
  BY DEF Propose, Decide, ApproveProposal, RejectProposal, DeleteProposal
<1>3. CASE file'[id] = file[id] /\ device'[id] = device[id]
  BY <1>2, <1>3, OnlyCallsOf
<1> DEFINE unused == \/ file[id].status \in {"none", "draft", "approved"}
                     \/ id \notin inflight /\ file[id].status \in Deletable
           clean == file[id].status \in {"draft", "approved", "rejected"} => file[id].applied = {}
\* Where a human may change the file, no call relies on it but to tell.
<1>4. ASSUME unused, FileTells(id) => FileTells(id)', clean' PROVE TruthOf(id)'
  <2>1. ASSUME NEW c \in Callers, About(c, id)' PROVE CopyTells(id, call[c])'
    <3>1. call'[c] = call[c] /\ CopyTells(id, call[c]) /\ call[c] \in CallType /\ call[c].pc # "idle"
      BY <1>2, <2>1, PlaceIs DEF About, At, TruthOf
    <3>2. call[c].pc \in Before \cup {"load", "release"}
      BY <1>4, <3>1, <2>1, <1>2 DEF CopyTells, CallType, Before, Deletable, Marks, Held, About
    <3>3. QED
      BY <1>4, <3>1, <3>2 DEF CopyTells, Before
  <2>2. QED
    BY <1>2, <1>4, <2>1 DEF TruthOf
<1>5. CASE Propose
  <2> DEFINE draft == [Missing EXCEPT !.status = "draft"]
  <2>1. CASE id # seq'
    BY <1>1, <1>3, <1>5, <2>1 DEF Propose, SaveProposal
  <2>2. CASE id = seq'
    <3>1. file[id].status = "none"
      BY <1>5, <2>2 DEF Propose, Known, Suffers, Harmed
    <3>2. file'[id] = draft /\ device'[id] = Untouched /\ draft.status = "draft" /\ draft.applied = {}
      BY <1>1, <1>5, <2>2 DEF Propose, SaveProposal, Missing
    <3>3. Shown(Untouched, {})
      BY DEF Shown, Untouched
    <3>4. FileTells(id)'
      BY <3>2, <3>3 DEF FileTells
    <3>5. unused /\ clean'
      BY <3>1, <3>2
    <3>6. QED
      BY <1>4, <3>4, <3>5
  <2>3. QED
    BY <2>1, <2>2
<1>6. ASSUME NEW k \in plan.ids, Decide(k) PROVE TruthOf(id)'
  <2>1. CASE id # k
    BY <1>1, <1>3, <1>6, <2>1 DEF Decide, ApproveProposal, RejectProposal, DeleteProposal,
       SaveProposal
  <2>2. CASE id = k
    <3>1. device' = device /\ FileOK(file[id])
      BY <1>1, <1>6 DEF Decide, ApproveProposal, RejectProposal, DeleteProposal, Typed
    <3>2. CASE ApproveProposal(k) \/ RejectProposal(k)
      <4>1. file[id].status \in {"draft", "approved"} /\ file[id].applied = {}
        BY <2>2, <3>2 DEF ApproveProposal, RejectProposal, TruthOf
      <4>2. file[id] \in Written
        BY <3>1, <4>1 DEF FileOK, Proposal, Missing
      <4>3. file'[id].status \in {"approved", "rejected"} /\ file'[id].applied = {}
        <5>1. \/ file' = [file EXCEPT ![id] = [file[id] EXCEPT !.status = "approved"]]
              \/ file' = [file EXCEPT ![id] = [file[id] EXCEPT !.status = "rejected", !.noted = {}]]
          BY <2>2, <3>2 DEF ApproveProposal, RejectProposal, SaveProposal
        <5>2. QED
          <6>1. /\ [file[id] EXCEPT !.status = "approved"].status = "approved"
                /\ [file[id] EXCEPT !.status = "approved"].applied = {}
                /\ [file[id] EXCEPT !.status = "rejected", !.noted = {}].status = "rejected"
                /\ [file[id] EXCEPT !.status = "rejected", !.noted = {}].applied = {}
            BY <4>1, <4>2
          <6>2. QED
            BY <1>1, <5>1, <6>1
      <4>4. FileTells(id) => FileTells(id)'
        BY <3>1, <4>1, <4>3 DEF FileTells
      <4>5. unused /\ clean'
        BY <4>1, <4>3
      <4>6. QED
        BY <1>4, <4>4, <4>5
    <3>3. CASE DeleteProposal(k)
      <4>1. id \notin inflight /\ file[id].status \in Deletable /\ file'[id] = Missing
        BY <1>1, <2>2, <3>3 DEF DeleteProposal, SaveProposal
      <4>2. QED
        BY <1>4, <4>1 DEF Missing, FileTells, Deletable
    <3>4. QED
      BY <1>6, <3>2, <3>3 DEF Decide
  <2>3. QED
    BY <2>1, <2>2
<1>7. QED
  BY <1>5, <1>6

LEMMA TruthKept == Typed /\ Marks /\ Truth /\ Step => Truth'
<1>1. SUFFICES ASSUME Typed, Marks, Truth, Step, NEW id \in plan.ids, ~Harmed(id)'
               PROVE  TruthOf(id)'
  BY PlanKept DEF Truth
<1> USE <1>1
<1>2. TruthOf(id)
  BY HarmStays DEF Truth
<1>3. CASE Propose \/ \E k \in plan.ids : Decide(k)
  BY <1>2, <1>3, HumansTruth
<1>4. ASSUME NEW c \in Callers, CallStep(c) PROVE TruthOf(id)'
  BY <1>2, <1>4, OwnTruth, OwnProposal, Apart
<1>5. ASSUME NEW c \in Callers, NEW k \in plan.ids, BeginExecute(c, k) \/ BeginRollback(c, k)
      PROVE  TruthOf(id)'
  <2>1. CASE BeginExecute(c, k)
    <3>1. About(c, id)' => CopyTells(id, call[c])'
      BY <1>2, <2>1, BeginExecuteIs DEF About, At, CopyTells, TruthOf, Before
    <3>2. QED
      BY <1>2, <2>1, <3>1, BeginExecuteIs, OnlyCallsOf DEF Others
  <2>2. CASE BeginRollback(c, k)
    <3>0. plan'.steps = plan.steps
      BY PlanKept
    <3>1. About(c, id)' => CopyTells(id, call[c])'
      BY <1>2, <2>2, <3>0, BeginRollbackIs DEF About, At, CopyTells, TruthOf, Before, FileTells
    <3>2. QED
      BY <1>2, <2>2, <3>1, BeginRollbackIs, OnlyCallsOf DEF Others
  <2>3. QED
    BY <1>5, <2>1, <2>2
<1>6. ASSUME NEW c \in Callers, At(c, "idle"), Answered(c), UNCHANGED proposalVars
      PROVE  TruthOf(id)'
  <2>1. Others(c) /\ call'[c].pc = "idle"
    BY <1>6, CallsAreTyped DEF Answered, Others, At, CallType
  <2>2. QED
    BY <1>2, <1>6, <2>1, Apart DEF proposalVars, recordVars, About, At
<1>7. CASE \E i \in Steps : RemoveDevice(i)
  BY <1>2, <1>7, OnlyCallsOf DEF RemoveDevice, recordVars
<1>8. CASE Crash
  <2>1. id \notin inflight
    BY <1>8 DEF Crash, Harmed
  <2>2. plan'.steps = plan.steps
    BY PlanKept
  <2>3. QED
    BY <1>2, <1>8, <2>1, <2>2 DEF Crash, TruthOf, FileTells, Shown, About, At, Idle
<1>9. CASE UNCHANGED vars
  BY <1>2, <1>9, OnlyCallsOf DEF vars, recordVars
<1>10. QED
  BY <1>3, <1>4, <1>5, <1>6, <1>7, <1>8, <1>9 DEF Step

-----------------------------------------------------------------------------
(* The theorems.                                                           *)

LEMMA InitInv == CutInit => Inv
<1>1. SUFFICES ASSUME CutInit PROVE Inv
  OBVIOUS
<1> USE <1>1 DEF CutInit, Init
<1>2. plan \in PlanType
  BY PlansTyped
<1>3. FileOK(Missing) /\ CallOK(Idle("none")) /\ Idle("none") \in CallType
  BY DEF FileOK, Missing, Proposal, Idle, CallOK, CallType, Before
<1>4. Typed
  <2>1. TypeOK
    BY <1>2, <1>3 DEF TypeOK, PlanType, FileOK, CallType, Untouched
  <2>2. QED
    BY <1>2, <1>3, <2>1 DEF Typed
<1>5. CutTyped
  BY DEF CutTyped, CutType, JobType, NoCut, Off, In
<1>6. Marks /\ Licences
  BY <1>2 DEF Marks, Licences, Held, Idle, Missing, PlanType
<1>7. Truth
  BY <1>2 DEF Truth, TruthOf, FileTells, About, At, Idle, Missing, PlanType
<1>8. QED
  BY <1>4, <1>5, <1>6, <1>7 DEF Inv

LEMMA InvKept == Inv /\ [Next]_allVars => Inv'
<1>1. Inv /\ Next => Inv'
  BY StepIs, TypedKept, CutTypedKept, MarksKept, LicencesKept, TruthKept DEF Inv
<1>2. Inv /\ UNCHANGED allVars => Inv'
  <2>1. SUFFICES ASSUME Inv, UNCHANGED allVars PROVE Inv'
    OBVIOUS
  <2>2. Step /\ UNCHANGED <<cut, job, plan>>
    BY <2>1 DEF allVars, Step, vars
  <2>3. CutTyped'
    BY <2>1, <2>2 DEF Inv, CutTyped, In
  <2>4. QED
    BY <2>1, <2>2, <2>3, TypedKept, MarksKept, LicencesKept, TruthKept DEF Inv
<1>3. QED
  BY <1>1, <1>2

\* The invariant holds: types, marks, licences and what files and copies tell.
THEOREM Invariance == Spec => []Inv
BY InitInv, InvKept, PTL DEF Spec

\* Every variable keeps its type, the copies that calls hold included.
THEOREM TypeCorrect == Spec => []CutTypeOK
<1>1. Inv => CutTypeOK
  BY DEF Inv, Typed, CutTyped, CutTypeOK, CutType, JobType
<1>2. QED
  BY <1>1, Invariance, PTL

\* The record of a proposal that nobody works on is what its devices know.
THEOREM RecordCorrect == Spec => []RecordTells
BY RecordFollows, Invariance, PTL

\* Whoever executes a proposal or rolls it back has the mark of it, and nobody
\* else does either (proposalInflight), also in the course of a cutover.
THEOREM OneAtATime == Spec => []Marks
<1>1. Inv => Marks
  BY DEF Inv
<1>2. QED
  BY <1>1, Invariance, PTL

\* A run begins with the claim of an approved proposal, and nothing else.
LEMMA BeginIsClaim ==
    ASSUME Typed, Licences, Step, NEW id \in plan.ids, Begins(id), <<id, "stale">> \notin mishaps
    PROVE  id \in licensed
<1>1. id \in Ids /\ file \in [Ids -> Proposal]
  BY CallsAreTyped DEF Typed, PlanType
<1>2. ASSUME NEW c \in Callers, Claim(c) PROVE file[id].status = "approved"
  BY <1>1, <1>2, ClaimIs DEF Begins
<1>3. ASSUME NEW c \in Callers, NEW k \in plan.ids, BeginRollback(c, k) PROVE FALSE
  BY <1>3, BeginRollbackIs DEF Begins
<1>4. QED
  BY <1>2, <1>3, ZenonT(40) DEF Begins, Licences, Step, Propose, Decide, ApproveProposal, RejectProposal,
     DeleteProposal,
              CallStep, OnlineCheck, AskHuman, ApplyStep, SaveStep, StepFails,
              CommandFails, SaveEnd, ReleaseInflight, LoadApplied, UndoStep, PassOver, UndoFails,
              AllUndone, BeginExecute, proposalVars, RemoveDevice, Crash, vars

\* A run begins only under an approval that is neither used nor withdrawn.
THEOREM ApprovalCorrect == Spec => EachApprovalOnce
<1>1. Inv /\ [Next]_allVars =>
        [\A id \in plan.ids : Begins(id) /\ <<id, "stale">> \notin mishaps => id \in licensed]_vars
  <2>1. SUFFICES ASSUME Inv, Next, NEW id \in plan.ids, Begins(id), <<id, "stale">> \notin mishaps
                 PROVE  id \in licensed
    BY DEF allVars
  <2>2. QED
    BY <2>1, StepIs, BeginIsClaim DEF Inv
<1>2. QED
  BY <1>1, Invariance, PTL DEF EachApprovalOnce, Spec
=============================================================================
