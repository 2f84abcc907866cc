----------------------------- MODULE Proposals -----------------------------
(***************************************************************************)
(* The proposals of internal/netdev/proposal.go, the only way in which a   *)
(* device is written to: a draft is approved by a human, executed step by  *)
(* step (a step is one device), and rolled back by a human.  A proposal is *)
(* a file.  Every function loads it, decides and saves it; proposalMu      *)
(* makes that one region where the code holds it, and inflight keeps two   *)
(* long transitions of one proposal apart.  Devices answer or fail, may    *)
(* leave the inventory, and the process may crash.                         *)
(*                                                                         *)
(* Confirmation, policies and change windows are reasons for which an      *)
(* approval is refused: here it is then not given.  A disk that refuses a  *)
(* save leaves what a crash at that point leaves.                          *)
(***************************************************************************)
EXTENDS Integers, FiniteSets

CONSTANTS Callers,    \* goroutines that call ExecuteProposal or RollbackProposal
          Sessions,   \* what the online check may list, if anybody is logged in
          Files,      \* the steps that replace a file; the others send commands
          Plans       \* what TLC varies: see PlanAssumption

\* Proposals and steps are numbered from 1, and a proposal has a step
\* (proposeTool, proposal.go:244).
Numbered(S) == IsFiniteSet(S) /\ S = 1..Cardinality(S)

ASSUME PlanAssumption ==
    \A p \in Plans :
        /\ p \in [callers : SUBSET Callers, ids : SUBSET Nat, steps : SUBSET Nat,
                  sessions : SUBSET Sessions, approvals : Nat, crashes : Nat, removals : Nat,
                  cutover : BOOLEAN]
        /\ Numbered(p.ids) /\ Numbered(p.steps) /\ p.steps # {}

VARIABLES
    plan,        \* the instance that is explored, and what is left of its bounds
    file,        \* id -> what the file says
    seq,         \* proposalSeq
    inflight,    \* proposalInflight
    call,        \* caller -> its place in a call, the copy it holds, what the call returned
    device,      \* id -> step -> what the change did to the device
    gone,        \* steps whose device left the inventory
    licensed,    \* proposals with an approval that was not used or withdrawn (history)
    mishaps      \* <<id, what went wrong>>, of which the record cannot tell (history)

recordVars == <<file, seq, licensed>>
vars == <<plan, recordVars, inflight, call, device, gone, mishaps>>

Ids == UNION {p.ids : p \in Plans}
Steps == UNION {p.steps : p \in Plans}
Min(S) == CHOOSE x \in S : \A y \in S : x <= y
Max(S) == CHOOSE x \in S : \A y \in S : x >= y

Statuses == {"draft", "approved", "executing", "partial", "done", "failed", "rejected"}
Deletable == {"draft", "rejected", "done", "failed"}
Missing == [status |-> "none", applied |-> {}, noted |-> {}]
Proposal == [status : Statuses, applied : SUBSET Steps, noted : SUBSET Sessions] \cup {Missing}
Idle(res) == [pc |-> "idle", id |-> 0, copy |-> Missing, todo |-> {}, res |-> res]

TypeOK ==
    /\ plan.callers \subseteq Callers /\ plan.approvals \in Nat /\ plan.crashes \in Nat /\ plan.removals \in Nat
    /\ file \in [Ids -> Proposal]
    /\ seq \in Ids \cup {0}
    /\ inflight \subseteq Ids
    /\ call \in [Callers -> [pc : {"idle", "check", "ask", "claim", "apply", "save", "end",
                                  "load", "back", "release"},
                             id : Ids \cup {0}, copy : Proposal, todo : SUBSET Steps,
                             res : Statuses \cup {"none", "error"}]]
    /\ device \in [Ids -> [Steps -> {"old", "mixed", "new", "twice"}]]
    /\ gone \subseteq Steps
    /\ licensed \subseteq Ids
    /\ mishaps \subseteq Ids \X {"stale", "reused", "mixed", "gone", "crash"}

Untouched == [i \in Steps |-> "old"]

Init ==
    /\ plan \in Plans
    /\ file = [id \in Ids |-> Missing]
    /\ seq = 0
    /\ inflight = {}
    /\ call = [c \in Callers |-> Idle("none")]
    /\ device = [id \in Ids |-> Untouched]
    /\ gone = {}
    /\ licensed = {}
    /\ mishaps = {}

Known(id) == id \in plan.ids /\ file[id].status # "none"
At(c, pc) == call[c].pc = pc
Moves(c, to) == call' = [call EXCEPT ![c].pc = to]
\* What a call returns is looked at by a cutover only.
Returns(c, res) == call' = [call EXCEPT ![c] = Idle(IF plan.cutover THEN res ELSE "none")]
SaveProposal(id, p) == file' = [file EXCEPT ![id] = p]
Suffers(id, what) == mishaps' = mishaps \cup {<<id, what>>}

-----------------------------------------------------------------------------
\* Drafting and the human's decisions: one region of proposalMu each.

\* proposeTool, ApplyTemplate: the number is new to this process only, and
\* SaveProposal replaces whatever file has it.
Propose ==
    /\ seq + 1 \in plan.ids
    /\ seq' = seq + 1
    /\ SaveProposal(seq', [Missing EXCEPT !.status = "draft"])
    /\ device' = [device EXCEPT ![seq'] = Untouched]
    /\ licensed' = licensed \ {seq'}
    /\ IF Known(seq') THEN Suffers(seq', "reused") ELSE UNCHANGED mishaps
    /\ UNCHANGED <<plan, inflight, call, gone>>

\* Refused also while a step's device is not in the inventory.
ApproveProposal(id) ==
    /\ plan.approvals > 0
    /\ plan.steps \cap gone = {}
    /\ file[id].status = "draft"
    /\ SaveProposal(id, [file[id] EXCEPT !.status = "approved"])
    /\ licensed' = licensed \cup {id}
    /\ plan' = [plan EXCEPT !.approvals = @ - 1]
    /\ UNCHANGED <<seq, inflight, call, device, gone, mishaps>>

RejectProposal(id) ==
    /\ file[id].status \in {"draft", "approved"}
    /\ SaveProposal(id, [file[id] EXCEPT !.status = "rejected", !.noted = {}])
    /\ licensed' = licensed \ {id}
    /\ UNCHANGED <<plan, seq, inflight, call, device, gone, mishaps>>

DeleteProposal(id) ==
    /\ id \notin inflight
    /\ file[id].status \in Deletable
    /\ SaveProposal(id, Missing)
    /\ licensed' = licensed \ {id}
    /\ UNCHANGED <<plan, seq, inflight, call, device, gone, mishaps>>

-----------------------------------------------------------------------------
\* ExecuteProposal.

\* The first look, without a lock; the copy stays for the online check.
BeginExecute(c, id) ==
    /\ At(c, "idle")
    /\ IF file[id].status = "approved"
       THEN call' = [call EXCEPT ![c] =
                [Idle("none") EXCEPT !.pc = "check", !.id = id, !.copy = file[id]]]
       ELSE Returns(c, "error")
    /\ UNCHANGED <<plan, recordVars, inflight, device, gone, mishaps>>

\* preExecOnlineCheck asks the devices: nobody is there, or those the note
\* already lists, or others, who are added to the copy.
OnlineCheck(c) ==
    /\ At(c, "check")
    /\ \/ Moves(c, "claim")
       \/ \E s \in plan.sessions \ call[c].copy.noted :
            call' = [call EXCEPT ![c].pc = "ask", ![c].copy.noted = @ \cup {s}]
    /\ UNCHANGED <<plan, recordVars, inflight, device, gone, mishaps>>

\* The copy is saved as it was read, with the note, and the human is asked.
AskHuman(c) ==
    LET id == call[c].id IN
    /\ At(c, "ask")
    /\ SaveProposal(id, call[c].copy)
    /\ IF file[id].status # "approved" THEN Suffers(id, "stale") ELSE UNCHANGED mishaps
    /\ Returns(c, "error")
    /\ UNCHANGED <<plan, seq, licensed, inflight, device, gone>>

\* The claim: loaded again, checked again and marked in one region.
Claimed(c, id, p) ==
    /\ SaveProposal(id, [p EXCEPT !.status = "executing"])
    /\ inflight' = inflight \cup {id}
    /\ licensed' = licensed \ {id}
    /\ call' = [call EXCEPT ![c].pc = "apply", ![c].todo = plan.steps,
                            ![c].copy = [p EXCEPT !.status = "executing"]]

\* Variant: the first look is trusted.
ClaimUnchecked(c) ==
    /\ At(c, "claim")
    /\ IF call[c].id \notin inflight
       THEN Claimed(c, call[c].id, call[c].copy)
       ELSE Returns(c, "error") /\ UNCHANGED <<file, inflight, licensed>>
    /\ UNCHANGED <<plan, seq, device, gone, mishaps>>

Claim(c) ==
    LET id == call[c].id IN
    /\ At(c, "claim")
    /\ IF file[id].status = "approved" /\ id \notin inflight
       THEN Claimed(c, id, file[id])
       ELSE Returns(c, "error") /\ UNCHANGED <<file, inflight, licensed>>
    /\ UNCHANGED <<plan, seq, device, gone, mishaps>>

\* Every command of the next step went through, or its file was replaced.
ApplyStep(c) ==
    LET id == call[c].id
        i == Min(call[c].todo)
    IN
    /\ At(c, "apply")
    /\ i \notin gone
    /\ device' = [device EXCEPT ![id][i] = IF @ \in {"new", "twice"} THEN "twice" ELSE "new"]
    /\ call' = [call EXCEPT ![c].pc = "save", ![c].todo = @ \ {i}, ![c].copy.applied = @ \cup {i}]
    /\ UNCHANGED <<plan, recordVars, inflight, gone, mishaps>>

SaveStep(c) ==
    /\ At(c, "save")
    /\ SaveProposal(call[c].id, call[c].copy)
    /\ IF call[c].todo = {}
       THEN call' = [call EXCEPT ![c].pc = "end", ![c].copy.status = "done"]
       ELSE Moves(c, "apply")
    /\ UNCHANGED <<plan, seq, licensed, inflight, device, gone, mishaps>>

\* A step fails and freezes the proposal.  The backup, the driver or the first
\* command failed, or the device is not in the inventory.
StepFails(c) ==
    /\ At(c, "apply")
    /\ call' = [call EXCEPT ![c].pc = "end", ![c].copy.status = "partial", ![c].copy.noted = {}]
    /\ UNCHANGED <<plan, recordVars, inflight, device, gone, mishaps>>

\* A later command of a step failed: the step does not count as applied.
CommandFails(c) ==
    LET id == call[c].id
        i == Min(call[c].todo)
    IN
    /\ At(c, "apply")
    /\ i \notin gone
    /\ device' = [device EXCEPT ![id][i] = "mixed"]
    /\ call' = [call EXCEPT ![c].pc = "end", ![c].copy.status = "partial", ![c].copy.noted = {}]
    /\ Suffers(id, "mixed")
    /\ UNCHANGED <<plan, recordVars, inflight, gone>>

\* The last save of a transition; the mark goes with the return.
SaveEnd(c) ==
    /\ At(c, "end")
    /\ SaveProposal(call[c].id, call[c].copy)
    /\ call' = [call EXCEPT ![c].pc = "release", ![c].res = call[c].copy.status]
    /\ UNCHANGED <<plan, seq, licensed, inflight, device, gone, mishaps>>

ReleaseInflight(c) ==
    /\ At(c, "release")
    /\ inflight' = inflight \ {call[c].id}
    /\ Returns(c, call[c].res)
    /\ UNCHANGED <<plan, recordVars, device, gone, mishaps>>

-----------------------------------------------------------------------------
\* RollbackProposal.

\* Variant: without a look at the mark.
BeginRollbackAnyway(c, id) ==
    /\ At(c, "idle")
    /\ inflight' = inflight \cup {id}
    /\ call' = [call EXCEPT ![c] = [Idle("none") EXCEPT !.pc = "load", !.id = id]]
    /\ UNCHANGED <<plan, recordVars, device, gone, mishaps>>

\* The mark is taken first, the file is loaded after the unlock.
BeginRollback(c, id) ==
    /\ At(c, "idle")
    /\ IF id \in inflight
       THEN Returns(c, "error") /\ UNCHANGED inflight
       ELSE /\ inflight' = inflight \cup {id}
            /\ call' = [call EXCEPT ![c] = [Idle("none") EXCEPT !.pc = "load", !.id = id]]
    /\ UNCHANGED <<plan, recordVars, device, gone, mishaps>>

LoadApplied(c) ==
    LET p == file[call[c].id] IN
    /\ At(c, "load")
    /\ call' = [call EXCEPT ![c] =
            IF p.status \in {"partial", "done"}
            THEN [@ EXCEPT !.pc = "back", !.copy = p, !.todo = p.applied]
            ELSE [@ EXCEPT !.pc = "release", !.res = "error"]]
    /\ UNCHANGED <<plan, recordVars, inflight, device, gone, mishaps>>

\* The last applied step is undone; what was undone before is undone twice.
UndoStep(c) ==
    LET id == call[c].id
        i == Max(call[c].todo)
    IN
    /\ At(c, "back") /\ call[c].todo # {}
    /\ i \notin gone
    /\ device' = [device EXCEPT ![id][i] = IF @ \in {"old", "twice"} THEN "twice" ELSE "old"]
    /\ call' = [call EXCEPT ![c].todo = @ \ {i}, ![c].copy.applied = @ \ {i}]
    /\ UNCHANGED <<plan, recordVars, inflight, gone, mishaps>>

\* A device that is not in the inventory is passed over: a step of commands
\* stays applied, one that replaced a file counts as undone.
PassOver(c) ==
    LET i == Max(call[c].todo) IN
    /\ At(c, "back") /\ call[c].todo # {}
    /\ i \in gone
    /\ call' = [call EXCEPT ![c].todo = @ \ {i},
                            ![c].copy.applied = IF i \in Files THEN @ \ {i} ELSE @]
    /\ Suffers(call[c].id, "gone")
    /\ UNCHANGED <<plan, recordVars, inflight, device, gone>>

UndoFails(c) ==
    LET id == call[c].id
        i == Max(call[c].todo)
    IN
    /\ At(c, "back") /\ call[c].todo # {}
    /\ i \notin gone
    /\ device' = [device EXCEPT ![id][i] = "mixed"]
    /\ call' = [call EXCEPT ![c].pc = "end", ![c].copy.status = "failed", ![c].copy.noted = {}]
    /\ Suffers(id, "mixed")
    /\ UNCHANGED <<plan, recordVars, inflight, gone>>

AllUndone(c) ==
    /\ At(c, "back") /\ call[c].todo = {}
    /\ call' = [call EXCEPT ![c].pc = "end", ![c].copy.status = "draft", ![c].copy.noted = {}]
    /\ UNCHANGED <<plan, recordVars, inflight, device, gone, mishaps>>

-----------------------------------------------------------------------------
\* Between the calls.

\* The user edits the inventory.
RemoveDevice(i) ==
    /\ plan.removals > 0
    /\ i \in plan.steps \ gone
    /\ gone' = gone \cup {i}
    /\ plan' = [plan EXCEPT !.removals = @ - 1]
    /\ UNCHANGED <<recordVars, inflight, call, device, mishaps>>

\* The process ends and is started again: the files and the devices stay.
Crash ==
    /\ plan.crashes > 0
    /\ plan' = [plan EXCEPT !.crashes = @ - 1]
    /\ seq' = 0
    /\ mishaps' = mishaps \cup (inflight \X {"crash"})
    /\ inflight' = {}
    /\ call' = [c \in Callers |-> Idle("none")]
    /\ UNCHANGED <<file, device, gone, licensed>>

Decide(id) == ApproveProposal(id) \/ RejectProposal(id) \/ DeleteProposal(id)

CallStep(c) ==
    \/ OnlineCheck(c) \/ AskHuman(c) \/ Claim(c)
    \/ ApplyStep(c) \/ SaveStep(c) \/ StepFails(c) \/ CommandFails(c)
    \/ SaveEnd(c) \/ ReleaseInflight(c)
    \/ LoadApplied(c) \/ UndoStep(c) \/ PassOver(c) \/ UndoFails(c) \/ AllUndone(c)

\* What happens whether or not a cutover is under way.
Common ==
    \/ Propose
    \/ \E id \in plan.ids : Decide(id)
    \/ \E c \in plan.callers : CallStep(c)
    \/ \E i \in Steps : RemoveDevice(i)

-----------------------------------------------------------------------------
\* Safety.

Harmed(id) == \E what \in {"stale", "reused", "mixed", "gone", "crash"} : <<id, what>> \in mishaps

\* The record of a proposal that nobody works on is what its devices know: a
\* step is marked applied when, and only when, its change is on the device,
\* all are of one that is done, and none of one that is not executed or was
\* rolled back (RollbackProposal, proposal.go:694-696).  Excepted are those
\* that met one of the mishaps.
RecordTells ==
    \A id \in plan.ids :
        Known(id) /\ id \notin inflight /\ ~Harmed(id) =>
            /\ file[id].status # "executing"
            /\ file[id].applied = {i \in Steps : device[id][i] = "new"}
            /\ \A i \in Steps : device[id][i] \in {"old", "new"}
            /\ file[id].status \in {"draft", "approved", "rejected"} => file[id].applied = {}
            /\ file[id].status = "done" => file[id].applied = plan.steps

\* A run begins only under an approval of the human that no run has used and
\* no rejection has withdrawn (ApproveProposal, proposal.go:400-405), but for
\* a proposal over which a stale copy was saved.
Begins(id) == /\ id \notin inflight /\ id \in inflight'
              /\ file[id].status # "executing" /\ file'[id].status = "executing"
EachApprovalOnce ==
    [][\A id \in plan.ids : Begins(id) /\ <<id, "stale">> \notin mishaps => id \in licensed]_vars

-----------------------------------------------------------------------------
\* What the comments promise and the code does not keep.

\* "approved-but-not-executed vetoes cost nothing" (RejectProposal,
\* proposal.go:453-455), and no transition is dropped by the last write
\* (403-405): as above, without exception.
VetoHolds == [][\A id \in plan.ids : Begins(id) => id \in licensed]_vars

\* "rolled back cleanly" (proposal.go:772): a proposal that went back to draft
\* has left nothing on a device.
RollbackIsClean ==
    \A id \in plan.ids :
        /\ file[id].status = "draft"
        /\ \A what \in {"stale", "reused", "crash"} : <<id, what>> \notin mishaps
        => \A i \in Steps : device[id][i] = "old"

\* "executing ones ride rollback" (proposal.go:465): nobody works on a proposal
\* that says executing, and none of the human's calls takes it.
ExecutingIsWorkedOn ==
    \A id \in plan.ids : file[id].status = "executing" => id \in inflight

\* "the live pipeline must stay auditable" (proposal.go:483-486): the record of
\* a proposal whose changes are on devices is not replaced by another one.
RecordIsKept ==
    [][\A id \in plan.ids :
        file[id].status \in {"executing", "partial"} => file'[id].status # "draft" \/ id \in inflight]_vars
=============================================================================
