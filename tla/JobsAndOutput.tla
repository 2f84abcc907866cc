--------------------------- MODULE JobsAndOutput ---------------------------
(***************************************************************************)
(* The job manager together with the output of one of its jobs: Jobs says  *)
(* when the job's goroutine, Kill and Close change its status, JobOutput   *)
(* what its writes leave in the buffer and what bash_output returns of it. *)
(* The two meet in Kill and in the region that publishes status and result. *)
(***************************************************************************)
EXTENDS Jobs, Naturals, Sequences

CONSTANTS Polled,   \* the job whose output is read
          tailCap, MaxBytes, MaxWrite  \* see JobOutput

ASSUME PolledAssumption == Polled \in Jobs
ASSUME CapAssumption == tailCap \in Nat \ {0}
ASSUME BoundsAssumption == MaxBytes \in Nat /\ MaxWrite \in Nat \ {0}

VARIABLES written, head, tail, full, truncated, readOffset, answer, resultRead,
          seen, repeated, shown, over

\* j.status as its reader tells it apart, and whether the goroutine set it.
PolledStatus ==
    CASE status[Polled] \in {"none", "running"} -> "running"
      [] status[Polled] = "killed" -> "killed"
      [] status[Polled] \in {"done", "failed"} -> "ended"

HasPublished == pc[Polled] \in {"published", "closed", "exited"}

Out == INSTANCE JobOutput WITH status <- PolledStatus, ended <- HasPublished

outVars == <<written, head, tail, full, truncated, readOffset, answer, resultRead,
             seen, repeated, shown, over>>
allVars == <<vars, outVars>>

\* Behaviours have a Wait or a Close, or a job with something to read, and not
\* both (bound): readers of status and text share no more than j.mu.
Waited == closer # "idle" \/ \E w \in Waiters : wpc[w] # "idle"
Streamed == written > 0 \/ answer \/ over
PollBound == ~Waited \/ ~Streamed

\* What a step of the manager does to the polled job.
OutputFollows ==
    \/ PolledStatus' = PolledStatus /\ HasPublished' = HasPublished /\ UNCHANGED outVars
    \/ Out!Kill
    \/ Out!End

Manage ==
    /\ Next
    /\ OutputFollows
    /\ PollBound'

\* run writes through jobWriter while it runs.
JobWrites ==
    /\ pc[Polled] = "running"
    /\ UNCHANGED vars
    /\ \E n \in 1..MaxWrite : Out!Write(n)
    /\ PollBound'

\* bash_output finds the job once it is in the table.
Poll ==
    /\ pc[Polled] # "absent"
    /\ UNCHANGED vars
    /\ Out!Output
    /\ PollBound'

AllInit == Init /\ Out!Init
AllNext == Manage \/ JobWrites \/ Poll

AllSpec == AllInit /\ [][AllNext]_allVars /\ Fairness

-----------------------------------------------------------------------------
(* Properties: those of Jobs, and of the output of a job that the manager  *)
(* starts, kills and ends.                                                 *)

\* A reader that polls to the end has seen everything that was not counted as
\* truncated, whatever Kill, Close and the job's end do meanwhile (JobOutput).
PolledToTheEnd == Out!ReadToTheEnd

(* What the code says and does not do.                                     *)

\* DrainCompletedNote tells the model of jobs that "finished": "Read their output
\* with bash_output or wait if you still need it" (jobs.go:401-402).
NotedIsReadable ==
    (\E st \in Terminal : <<Polled, st>> \in delivered) => PolledStatus # "running"
=============================================================================
