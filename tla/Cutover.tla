------------------------------ MODULE Cutover ------------------------------
(***************************************************************************)
(* Cutovers (internal/netdev/cutover.go) over the proposals they execute:  *)
(* a runner goroutine goes through a runbook, each entry of which is an    *)
(* approved proposal, and holds at a failed verification gate, at a        *)
(* decision point and when its time is up; a human then continues, rolls   *)
(* back or aborts.  The run is a file, which every party loads, changes    *)
(* and saves; Continue, Abort and the hold at the deadline do it in one    *)
(* region of cutoverMu, the runner and the rollback do not.                *)
(*                                                                         *)
(* Entry k executes proposal k.  Entries that only read leave nothing to   *)
(* roll back and are left out, and so are the snapshots.  Which entries    *)
(* have a gate, which are decision points and when the time is up is left  *)
(* open.  A context cancelled by Abort shows as a failing step.            *)
(***************************************************************************)
EXTENDS Proposals

VARIABLES
    cut,    \* the file of the run
    job     \* caller -> its place in a runner or a rollback of the run, and its copy

allVars == <<vars, cut, job>>

NoCut == [status |-> "none", cursor |-> 0, steps |-> [k \in Ids |-> "pending"]]
Off == [pc |-> "off", copy |-> NoCut]

CutTypeOK ==
    /\ TypeOK
    /\ cut.status \in {"none", "running", "hold", "done", "failed", "aborted"}
    /\ cut.steps \in [Ids -> {"pending", "approved", "failed", "skipped", "rolled"}]
    /\ \A c \in Callers :
        job[c].pc \in {"off", "look", "start", "run", "store", "finish", "overdue", "unwind", "undo"}

CutInit == Init /\ cut = NoCut /\ job = [c \in Callers |-> Off]

In(c, pc) == job[c].pc = pc
Free(c) == In(c, "off") /\ At(c, "idle")
Goes(c, to) == job' = [job EXCEPT ![c].pc = to]
Ends(c) == job' = [job EXCEPT ![c] = Off]
Answer(c) == call[c].res
Answered(c) == call' = [call EXCEPT ![c].res = "none"]
SaveCutover(r) == cut' = r
proposalVars == <<plan, recordVars, inflight, device, gone, mishaps>>

-----------------------------------------------------------------------------
\* The runner.

Launch(c) == job' = [job EXCEPT ![c].pc = "look"]

\* CutoverStart: every proposal has to be approved.
CutoverStart(c) ==
    /\ plan.cutover /\ cut.status = "none" /\ Free(c)
    /\ \A k \in plan.ids : file[k].status = "approved"
    /\ SaveCutover([NoCut EXCEPT !.status = "running", !.cursor = 1])
    /\ Launch(c)
    /\ UNCHANGED vars

\* The head of cutoverRunner's loop.
Look(c) ==
    /\ In(c, "look")
    /\ \/ cut.status # "running" /\ Ends(c)
       \/ cut.status = "running" /\ Goes(c, "overdue")
       \/ cut.status = "running" /\ job' = [job EXCEPT ![c] =
            [pc |-> IF cut.cursor \in plan.ids THEN "start" ELSE "finish", copy |-> cut]]
    /\ UNCHANGED <<vars, cut>>

\* cutoverHold, in one region.
Overdue(c) ==
    /\ In(c, "overdue")
    /\ IF cut.status = "running" THEN SaveCutover([cut EXCEPT !.status = "hold"]) ELSE UNCHANGED cut
    /\ Ends(c)
    /\ UNCHANGED vars

RunEntry(c) ==
    /\ In(c, "start")
    /\ BeginExecute(c, job[c].copy.cursor)
    /\ Goes(c, "run")
    /\ UNCHANGED cut

\* The proposal was executed and the gate, if there is one, has spoken: the run
\* is loaded again, and the entry's outcome put at its cursor.
Outcomes(r, answer) ==
    LET Mark(what) == IF r.cursor \in plan.ids THEN [r EXCEPT !.steps[r.cursor] = what] ELSE r
        failed == [Mark("failed") EXCEPT !.status = "hold"]
        next == [Mark("approved") EXCEPT !.cursor = @ + 1]
    IN  IF answer = "done" THEN {failed, next, [next EXCEPT !.status = "hold"]} ELSE {failed}

Settle(c) ==
    /\ In(c, "run") /\ At(c, "idle")
    /\ IF cut.status = "running"
       THEN \E r \in Outcomes(cut, Answer(c)) : job' = [job EXCEPT ![c] = [pc |-> "store", copy |-> r]]
       ELSE Ends(c)
    /\ Answered(c)
    /\ UNCHANGED <<proposalVars, cut>>

Store(c) ==
    /\ In(c, "store")
    /\ SaveCutover(job[c].copy)
    /\ IF job[c].copy.status = "hold" THEN Ends(c) ELSE Goes(c, "look")
    /\ UNCHANGED vars

\* cutoverFinishReport: the copy is saved after the last backups.
Finish(c) ==
    /\ In(c, "finish")
    /\ SaveCutover([job[c].copy EXCEPT !.status = "done"])
    /\ Ends(c)
    /\ UNCHANGED vars

-----------------------------------------------------------------------------
\* The human.

CutoverContinue(c) ==
    /\ cut.status = "hold" /\ Free(c)
    /\ SaveCutover([cut EXCEPT !.status = "running"])
    /\ Launch(c)
    /\ UNCHANGED vars

CutoverAbort ==
    /\ cut.status \in {"running", "hold"}
    /\ SaveCutover([cut EXCEPT !.status = "aborted",
                               !.steps = [k \in Ids |-> IF @[k] = "pending" THEN "skipped" ELSE @[k]]])
    /\ UNCHANGED <<vars, job>>

\* CutoverRollback looks at the status once and works on its copy.
CutoverRollback(c) ==
    /\ cut.status = "hold" /\ Free(c)
    /\ job' = [job EXCEPT ![c] = [pc |-> "unwind", copy |-> cut]]
    /\ UNCHANGED <<vars, cut>>

ToUnwind(c) == {k \in plan.ids : job[c].copy.steps[k] = "approved"}

UnwindEntry(c) ==
    /\ In(c, "unwind") /\ ToUnwind(c) # {}
    /\ BeginRollback(c, Max(ToUnwind(c)))
    /\ Goes(c, "undo")
    /\ UNCHANGED cut

\* Only an error stops it: a rollback that failed on a device returns none.
EntryUnwound(c) ==
    LET k == Max(ToUnwind(c))
        r == [job[c].copy EXCEPT !.steps[k] = "rolled"]
    IN
    /\ In(c, "undo") /\ At(c, "idle")
    /\ IF Answer(c) = "error"
       THEN /\ SaveCutover([job[c].copy EXCEPT !.status = "failed"])
            /\ Ends(c)
       ELSE /\ SaveCutover(r)
            /\ job' = [job EXCEPT ![c] = [pc |-> "unwind", copy |-> r]]
    /\ Answered(c)
    /\ UNCHANGED proposalVars

UnwindEnds(c) ==
    /\ In(c, "unwind") /\ ToUnwind(c) = {}
    /\ SaveCutover([job[c].copy EXCEPT !.status = "aborted"])
    /\ Ends(c)
    /\ UNCHANGED vars

-----------------------------------------------------------------------------
RunnerStep(c) ==
    \/ Look(c) \/ Overdue(c) \/ RunEntry(c) \/ Settle(c) \/ Store(c) \/ Finish(c)
    \/ UnwindEntry(c) \/ EntryUnwound(c) \/ UnwindEnds(c)

HumanStep(c) == CutoverStart(c) \/ CutoverContinue(c) \/ CutoverRollback(c)

CrashAll == Crash /\ job' = [c \in Callers |-> Off] /\ UNCHANGED cut

\* The buttons of one proposal, pressed by a caller that runs no cutover.
Pressed(c) ==
    /\ Free(c)
    /\ \E id \in plan.ids : Known(id) /\ (BeginExecute(c, id) \/ BeginRollback(c, id))

Next ==
    \/ (Common \/ \E c \in plan.callers : Pressed(c)) /\ UNCHANGED <<cut, job>>
    \/ \E c \in plan.callers : RunnerStep(c) \/ HumanStep(c)
    \/ CutoverAbort
    \/ CrashAll

Spec == CutInit /\ [][Next]_allVars

-----------------------------------------------------------------------------
\* What the comments promise and the code does not keep.

\* "the run's executed proposals unwind newest-first; the run ends aborted"
\* (CutoverRollback, cutover.go:307-308): when a rollback ends the run, no
\* proposal that it executed still has its changes on devices.
RollbackUnwindsAll ==
    [][\A c \in Callers : In(c, "unwind") /\ job'[c].pc = "off" /\ cut'.status = "aborted" =>
        \A k \in plan.ids : file[k].status \notin {"done", "partial", "failed"}]_allVars

\* "CutoverAbort stops everything for good" (cutover.go:347).
AbortIsForGood == [][cut.status = "aborted" => cut'.status = "aborted"]_allVars

\* "rollback happens at a decision point" (cutover.go:315): while a rollback of
\* the run is under way, the run does not execute anything.
NoRunDuringRollback ==
    ~ \E c, d \in Callers : In(c, "undo") /\ ~At(c, "idle") /\ In(d, "run") /\ ~At(d, "idle")
=============================================================================
