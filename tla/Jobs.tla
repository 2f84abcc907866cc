-------------------------------- MODULE Jobs --------------------------------
(***************************************************************************)
(* The background-job manager of internal/jobs/jobs.go: Start, Kill, Wait, *)
(* DrainCompletedNote and Close, called from any goroutine, against the    *)
(* goroutine of each job.  A region under m.mu or j.mu is one action; what *)
(* happens between two regions is another.                                 *)
(***************************************************************************)
EXTENDS FiniteSets

CONSTANTS Jobs,     \* the jobs Start may create
          Waiters   \* concurrent Wait calls

VARIABLES
    pc,          \* job -> where Start and then the job's goroutine stand
    status,      \* job -> j.status
    verdict,     \* job -> the st its goroutine computed
    cancelled,   \* jobs whose own context was cancelled
    rootDone,    \* m.root was cancelled
    killing,     \* jobs a Kill call has flipped but not cancelled yet
    wg,          \* jobs counted by m.wg
    completed,   \* m.completed: <<job, status>> notes that wait for the next turn
    delivered,   \* notes handed to a turn (history)
    wpc,         \* Wait call -> where it stands
    targets,     \* Wait call -> the jobs it resolved
    view,        \* Wait call -> job -> the status it returned
    closer,      \* where Close stands
    listed,      \* jobs in the table when Close began (history)
    awaited      \* those whose Start had returned (history)

jobVars == <<pc, status, verdict, cancelled, killing, wg>>
noteVars == <<completed, delivered>>
waitVars == <<wpc, targets, view>>
closeVars == <<rootDone, closer, listed, awaited>>
vars == <<jobVars, noteVars, waitVars, closeVars>>

Terminal == {"done", "failed", "killed"}
Statuses == Terminal \cup {"none", "running"}
PCs == {"absent", "registered", "running", "returned", "recorded", "published", "closed", "exited"}
Notes == Jobs \X Terminal

TypeOK ==
    /\ pc \in [Jobs -> PCs]
    /\ status \in [Jobs -> Statuses]
    /\ verdict \in [Jobs -> Terminal \cup {"none"}]
    /\ cancelled \subseteq Jobs
    /\ rootDone \in BOOLEAN
    /\ killing \subseteq Jobs
    /\ wg \subseteq Jobs
    /\ completed \subseteq Notes
    /\ delivered \subseteq Notes
    /\ wpc \in [Waiters -> {"idle", "waiting", "complete", "early"}]
    /\ targets \in [Waiters -> SUBSET Jobs]
    /\ view \in [Waiters -> [Jobs -> Statuses]]
    /\ closer \in {"idle", "waiting", "returned"}
    /\ listed \subseteq Jobs
    /\ awaited \subseteq Jobs

NoView == [j \in Jobs |-> "none"]

Init ==
    /\ pc = [j \in Jobs |-> "absent"]
    /\ status = [j \in Jobs |-> "none"]
    /\ verdict = [j \in Jobs |-> "none"]
    /\ cancelled = {}
    /\ rootDone = FALSE
    /\ killing = {}
    /\ wg = {}
    /\ completed = {}
    /\ delivered = {}
    /\ wpc = [w \in Waiters |-> "idle"]
    /\ targets = [w \in Waiters |-> {}]
    /\ view = [w \in Waiters |-> NoView]
    /\ closer = "idle"
    /\ listed = {}
    /\ awaited = {}

Goes(j, to) == pc' = [pc EXCEPT ![j] = to]

\* ctx.Err() # nil
ContextDone(j) == j \in cancelled \/ rootDone

Noted(j) == \E st \in Terminal : <<j, st>> \in completed \cup delivered

-----------------------------------------------------------------------------
(* Start.                                                                  *)

\* The region under m.mu: the job is in the table from here on.
Start(j) ==
    /\ pc[j] = "absent"
    /\ status' = [status EXCEPT ![j] = "running"]
    /\ Goes(j, "registered")
    /\ UNCHANGED <<verdict, cancelled, killing, wg, noteVars, waitVars, closeVars>>

\* The notice, wg.Add(1) and the goroutine.
Spawn(j) ==
    /\ pc[j] = "registered"
    /\ wg' = wg \cup {j}
    /\ Goes(j, "running")
    /\ UNCHANGED <<status, verdict, cancelled, killing, noteVars, waitVars, closeVars>>

-----------------------------------------------------------------------------
(* The job's goroutine.                                                    *)

\* run returned, by itself or since its context is done; the switch on
\* ctx.Err() and err.
RunReturns(j) ==
    /\ pc[j] = "running"
    /\ \E st \in Terminal :
          /\ st = "killed" <=> ContextDone(j)
          /\ verdict' = [verdict EXCEPT ![j] = st]
    /\ Goes(j, "returned")
    /\ UNCHANGED <<status, cancelled, killing, wg, noteVars, waitVars, closeVars>>

\* Variant: the terminal status is published before the note is queued.
PublishThenRecord(j) ==
    \/ /\ pc[j] = "returned"
       /\ status' = [status EXCEPT ![j] = IF status[j] = "killed" THEN "killed" ELSE verdict[j]]
       /\ Goes(j, "recorded")
       /\ UNCHANGED <<verdict, cancelled, killing, wg, noteVars, waitVars, closeVars>>
    \/ /\ pc[j] = "recorded"
       /\ completed' = completed \cup {<<j, verdict[j]>>}
       /\ Goes(j, "published")
       /\ UNCHANGED <<status, verdict, cancelled, killing, wg, delivered, waitVars, closeVars>>

\* recordCompletion
RecordCompletion(j) ==
    /\ pc[j] = "returned"
    /\ completed' = completed \cup {<<j, verdict[j]>>}
    /\ Goes(j, "recorded")
    /\ UNCHANGED <<status, verdict, cancelled, killing, wg, delivered, waitVars, closeVars>>

\* The region under j.mu: a concurrent Kill's status is kept.
Publish(j) ==
    /\ pc[j] = "recorded"
    /\ status' = [status EXCEPT ![j] = IF status[j] = "killed" THEN "killed" ELSE verdict[j]]
    /\ Goes(j, "published")
    /\ UNCHANGED <<verdict, cancelled, killing, wg, noteVars, waitVars, closeVars>>

\* Variant: wg.Done with close(j.done), not deferred to the goroutine's end.
CloseDoneEarly(j) ==
    /\ pc[j] = "published"
    /\ wg' = wg \ {j}
    /\ Goes(j, "closed")
    /\ UNCHANGED <<status, verdict, cancelled, killing, noteVars, waitVars, closeVars>>

\* close(j.done)
CloseDone(j) ==
    /\ pc[j] = "published"
    /\ Goes(j, "closed")
    /\ UNCHANGED <<status, verdict, cancelled, killing, wg, noteVars, waitVars, closeVars>>

\* The deferred wg.Done().
Exit(j) ==
    /\ pc[j] = "closed"
    /\ wg' = wg \ {j}
    /\ Goes(j, "exited")
    /\ UNCHANGED <<status, verdict, cancelled, killing, noteVars, waitVars, closeVars>>

DoneClosed(j) == pc[j] \in {"closed", "exited"}

-----------------------------------------------------------------------------
(* Kill.                                                                   *)

\* The region under j.mu; a job that is not running is left alone.
Kill(j) ==
    /\ status[j] = "running"
    /\ status' = [status EXCEPT ![j] = "killed"]
    /\ killing' = killing \cup {j}
    /\ UNCHANGED <<pc, verdict, cancelled, wg, noteVars, waitVars, closeVars>>

\* Variant: the flip without the cancel.
CancelJobForgotten(j) ==
    /\ j \in killing
    /\ killing' = killing \ {j}
    /\ UNCHANGED <<pc, status, verdict, cancelled, wg, noteVars, waitVars, closeVars>>

\* j.cancel()
CancelJob(j) ==
    /\ j \in killing
    /\ killing' = killing \ {j}
    /\ cancelled' = cancelled \cup {j}
    /\ UNCHANGED <<pc, status, verdict, wg, noteVars, waitVars, closeVars>>

-----------------------------------------------------------------------------
(* Wait, DrainCompletedNote, Close.                                        *)

\* resolve: the named jobs, or every job that runs; with none Wait returns.
Wait(w) ==
    /\ wpc[w] = "idle"
    /\ \E T \in SUBSET Jobs \ {{}} :
          /\ \/ T \subseteq {j \in Jobs : pc[j] # "absent"}
             \/ T = {j \in Jobs : status[j] = "running"}
          /\ targets' = [targets EXCEPT ![w] = T]
    /\ wpc' = [wpc EXCEPT ![w] = "waiting"]
    /\ UNCHANGED <<jobVars, noteVars, view, closeVars>>

Returns(w, how) ==
    /\ wpc[w] = "waiting"
    /\ wpc' = [wpc EXCEPT ![w] = how]
    /\ view' = [view EXCEPT ![w] = [j \in Jobs |-> IF j \in targets[w] THEN status[j] ELSE "none"]]
    /\ UNCHANGED <<jobVars, noteVars, targets, closeVars>>

\* Variant: Wait polls the status instead of waiting for j.done.
WaitCompletePolls(w) ==
    /\ \A j \in targets[w] : status[j] \in Terminal
    /\ Returns(w, "complete")

\* Every target's done channel was closed.
WaitComplete(w) ==
    /\ \A j \in targets[w] : DoneClosed(j)
    /\ Returns(w, "complete")

\* ctx.Done() or the timeout.
WaitEarly(w) == Returns(w, "early")

\* DrainCompletedNote, on the way into the next turn.
DrainCompletedNote ==
    /\ completed # {}
    /\ delivered' = delivered \cup completed
    /\ completed' = {}
    /\ UNCHANGED <<jobVars, waitVars, closeVars>>

\* Close: m.cancel(), then m.wg.Wait().
Close ==
    /\ closer = "idle"
    /\ rootDone' = TRUE
    /\ closer' = "waiting"
    /\ listed' = {j \in Jobs : pc[j] # "absent"}
    /\ awaited' = {j \in Jobs : pc[j] \notin {"absent", "registered"}}
    /\ UNCHANGED <<jobVars, noteVars, waitVars>>

CloseReturns ==
    /\ closer = "waiting"
    /\ wg = {}
    /\ closer' = "returned"
    /\ UNCHANGED <<jobVars, noteVars, waitVars, rootDone, listed, awaited>>

-----------------------------------------------------------------------------
JobStep(j) ==
    \/ Spawn(j)
    \/ RecordCompletion(j)
    \/ Publish(j)
    \/ CloseDone(j)
    \/ Exit(j)
    \/ CancelJob(j)

Next ==
    \/ \E j \in Jobs : Start(j) \/ RunReturns(j) \/ JobStep(j) \/ Kill(j)
    \/ \E w \in Waiters : Wait(w) \/ WaitComplete(w) \/ WaitEarly(w)
    \/ DrainCompletedNote
    \/ Close
    \/ CloseReturns

Spec == Init /\ [][Next]_vars

\* Goroutines run.  A job need not end by itself; run returns once its
\* context is done (exec.CommandContext, the agent's context checks).  The
\* next turn drains the notes only when there is a next turn.
Fairness ==
    /\ \A j \in Jobs : WF_vars(JobStep(j)) /\ WF_vars(ContextDone(j) /\ RunReturns(j))
    /\ \A w \in Waiters : WF_vars(WaitComplete(w))
    /\ WF_vars(CloseReturns)

FairSpec == Spec /\ Fairness

-----------------------------------------------------------------------------
(* Properties.                                                             *)

\* A terminal status is final: a Kill that raced the job's own end does not
\* see its verdict replaced, nor an ended job turned into a killed one.
StatusFinal ==
    [][ \A j \in Jobs : status[j] \in Terminal => status'[j] = status[j] ]_vars

\* The next turns learn of each job that ended exactly once: a note is either
\* queued or delivered, there is one for each closed job, and never two.  It is
\* there before the status of a job that ended by itself tells of it
\* ("Recording first makes an observed terminal status imply the note is already
\* queued").
NotedOnce ==
    /\ completed \cap delivered = {}
    /\ \A j \in Jobs : DoneClosed(j) \/ status[j] \in {"done", "failed"} => Noted(j)
    /\ \A n, m \in completed \cup delivered : n[1] = m[1] => n = m

\* A Wait that was not cut short reports the end of every job it waited for,
\* and the notes about them are there for the next turn.
WaitSeesEnd ==
    \A w \in Waiters : wpc[w] = "complete" =>
        \A j \in targets[w] : view[w][j] \in Terminal /\ Noted(j)

\* When Close returns no goroutine is left of the jobs started before it.
CloseWaitsForStarted ==
    closer = "returned" => \A j \in awaited : pc[j] = "exited"

\* A killed job ends and is noted.
KilledIsNoted == \A j \in Jobs : status[j] = "killed" ~> Noted(j)

(* What comments of the code say and the code does not do.                 *)

\* "an observed terminal status imply the note is already queued"
TerminalIsNoted == \A j \in Jobs : status[j] \in Terminal => Noted(j)

\* "a job that just finished keeps its real terminal status": the note and
\* the status tell the same end.
NoteMatchesStatus ==
    \A j \in Jobs : DoneClosed(j) => <<j, status[j]>> \in completed \cup delivered

\* "waits for every background job goroutine to return before unblocking"
CloseWaitsForAll ==
    closer = "returned" => \A j \in listed : pc[j] \in {"registered", "exited"}
=============================================================================
