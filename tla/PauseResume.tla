---------------------------- MODULE PauseResume ----------------------------
(***************************************************************************)
(* Pausing a turn: Pause, Resume and awaitPause of internal/agent/agent.go *)
(* against the loop of Run.  The two channels are only ever replaced by    *)
(* Run itself, so a channel is whether it was closed since then.           *)
(***************************************************************************)
EXTENDS Naturals

CONSTANTS MaxRuns,    \* bound on the turns
          MaxSteps,   \* bound on the requests of a turn (a.maxSteps, when positive)
          MaxPauses,  \* bound on Pause calls
          MaxResumes  \* bound on Resume calls

ASSUME BoundsAssumption ==
    MaxRuns \in Nat /\ MaxSteps \in Nat \ {0} /\ MaxPauses \in Nat /\ MaxResumes \in Nat

VARIABLES
    runPC,         \* where Run stands
    run,           \* turns begun
    steps,         \* requests begun in this turn
    runCancelled,  \* the turn's context is cancelled
    pauseOpen,     \* pauseCh is not closed (FALSE before the first Run, when it is nil)
    resumeOpen,    \* resumeCh is not closed (the same)
    paused,        \* a.paused
    pausedIn,      \* the turn whose pauseCh Pause closed last (history)
    held,          \* requests begun since a Pause the user has not resumed, or NotHeld
    pauses,        \* Pause calls made
    resumes,       \* Resume calls made
    frozen,        \* Paused events in this turn (history)
    asked          \* Pause calls of this turn that closed the channel (history)

runVars == <<runPC, run, steps, runCancelled>>
pauseVars == <<pauseOpen, resumeOpen, paused>>
pauseHistory == <<pausedIn, held, frozen, asked>>
loopVars == <<runVars, pauseVars, pauseHistory, pauses, resumes>>

NotHeld == MaxSteps + 1

RunPCs == {"idle", "top", "pausing", "blocked", "resumed", "cancelled", "ready", "request"}

PauseTypeOK ==
    /\ runPC \in RunPCs
    /\ run \in 0..MaxRuns
    /\ steps \in 0..MaxSteps
    /\ runCancelled \in BOOLEAN
    /\ pauseOpen \in BOOLEAN
    /\ resumeOpen \in BOOLEAN
    /\ paused \in BOOLEAN
    /\ pausedIn \in 0..MaxRuns
    /\ held \in 0..NotHeld
    /\ pauses \in 0..MaxPauses
    /\ resumes \in 0..MaxResumes
    /\ frozen \in 0..(MaxSteps + 1)
    /\ asked \in 0..MaxPauses

PauseInit ==
    /\ runPC = "idle"
    /\ run = 0
    /\ steps = 0
    /\ runCancelled = FALSE
    /\ pauseOpen = FALSE
    /\ resumeOpen = FALSE
    /\ paused = FALSE
    /\ pausedIn = 0
    /\ held = NotHeld
    /\ pauses = 0
    /\ resumes = 0
    /\ frozen = 0
    /\ asked = 0

-----------------------------------------------------------------------------
(* The user's calls, each one region under pauseMu *)

\* Before the first Run the channel is nil; while paused, and after an
\* earlier call, nothing is left to close.
Pause ==
    /\ pauses < MaxPauses
    /\ pauses' = pauses + 1
    /\ held' = IF run # 0 /\ ~paused /\ held = NotHeld THEN 0 ELSE held
    /\ IF ~paused /\ pauseOpen
       THEN /\ pauseOpen' = FALSE
            /\ pausedIn' = run
            /\ asked' = asked + 1
       ELSE UNCHANGED <<pauseOpen, pausedIn, asked>>
    /\ UNCHANGED <<runVars, resumeOpen, paused, resumes, frozen>>

Resume ==
    /\ resumes < MaxResumes
    /\ resumes' = resumes + 1
    /\ resumeOpen' = FALSE
    /\ held' = NotHeld
    /\ UNCHANGED <<runVars, pauseOpen, paused, pauses, pausedIn, frozen, asked>>

CancelRun ==
    /\ runPC # "idle"
    /\ ~runCancelled
    /\ runCancelled' = TRUE
    /\ UNCHANGED <<runPC, run, steps, pauseVars, pauseHistory, pauses, resumes>>

-----------------------------------------------------------------------------
(* Run *)

Moves(from, to) == runPC = from /\ runPC' = to

\* Variant: the channels are those of the turn before.
BeginRunStale ==
    /\ run < MaxRuns
    /\ Moves("idle", "top")
    /\ run' = run + 1
    /\ steps' = 0
    /\ runCancelled' = FALSE
    /\ paused' = FALSE
    /\ held' = NotHeld
    /\ frozen' = 0
    /\ asked' = 0
    /\ pauseOpen' = (run = 0 \/ pauseOpen)
    /\ resumeOpen' = (run = 0 \/ resumeOpen)
    /\ UNCHANGED <<pausedIn, pauses, resumes>>

\* resetPauseStateLocked.
BeginRun ==
    /\ run < MaxRuns
    /\ Moves("idle", "top")
    /\ run' = run + 1
    /\ steps' = 0
    /\ runCancelled' = FALSE
    /\ pauseOpen' = TRUE
    /\ resumeOpen' = TRUE
    /\ paused' = FALSE
    /\ held' = NotHeld
    /\ frozen' = 0
    /\ asked' = 0
    /\ UNCHANGED <<pausedIn, pauses, resumes>>

\* awaitPause's first select takes any case that is ready.
AwaitPause ==
    /\ \/ ~pauseOpen /\ Moves("top", "pausing")
       \/ runCancelled /\ Moves("top", "idle")
       \/ pauseOpen /\ ~runCancelled /\ Moves("top", "ready")
    /\ UNCHANGED <<run, steps, runCancelled, pauseVars, pauseHistory, pauses, resumes>>

\* The flag, then the Paused event.
Freeze ==
    /\ Moves("pausing", "blocked")
    /\ paused' = TRUE
    /\ frozen' = frozen + 1
    /\ UNCHANGED <<run, steps, runCancelled, pauseOpen, resumeOpen, pausedIn, held, asked, pauses, resumes>>

\* Variant: only Resume ends the wait.
UnblockDeaf ==
    /\ ~resumeOpen
    /\ Moves("blocked", "resumed")
    /\ UNCHANGED <<run, steps, runCancelled, pauseVars, pauseHistory, pauses, resumes>>

\* The second select.
Unblock ==
    /\ \/ ~resumeOpen /\ Moves("blocked", "resumed")
       \/ runCancelled /\ Moves("blocked", "cancelled")
    /\ UNCHANGED <<run, steps, runCancelled, pauseVars, pauseHistory, pauses, resumes>>

\* The region after the wait, on either way out.
Thaw ==
    /\ Moves("resumed", "ready")
    /\ paused' = FALSE
    /\ UNCHANGED <<run, steps, runCancelled, pauseOpen, resumeOpen, pauseHistory, pauses, resumes>>

CancelThaw ==
    /\ Moves("cancelled", "idle")
    /\ paused' = FALSE
    /\ UNCHANGED <<run, steps, runCancelled, pauseOpen, resumeOpen, pauseHistory, pauses, resumes>>

Stop ==
    /\ runCancelled
    /\ Moves("ready", "idle")
    /\ UNCHANGED <<run, steps, runCancelled, pauseVars, pauseHistory, pauses, resumes>>

\* The next request to the model.
Request ==
    /\ ~runCancelled
    /\ Moves("ready", "request")
    /\ steps' = steps + 1
    /\ held' = IF held < MaxSteps THEN held + 1 ELSE held
    /\ UNCHANGED <<run, runCancelled, pauseVars, pausedIn, frozen, asked, pauses, resumes>>

\* The step is over: tools ran and the loop goes round, or the turn ends
\* with an answer, an error or the step limit.
EndRequest ==
    /\ \/ steps < MaxSteps /\ Moves("request", "top")
       \/ Moves("request", "idle")
    /\ UNCHANGED <<run, steps, runCancelled, pauseVars, pauseHistory, pauses, resumes>>

RunStep == \/ BeginRun \/ AwaitPause \/ Freeze \/ Unblock \/ Thaw \/ CancelThaw
           \/ Stop \/ Request \/ EndRequest

PauseNext == Pause \/ Resume \/ CancelRun \/ RunStep

PauseSpec == PauseInit /\ [][PauseNext]_loopVars

\* Run's goroutine goes on; a request ends, by its own or the turn's timeout.
FairPauseSpec == PauseSpec /\ WF_loopVars(RunStep)

-----------------------------------------------------------------------------
(* Properties *)

\* A pause holds the turn it was asked in: the Pause of an earlier turn
\* never stops the loop of this one ("Fresh pause/resume channels").
PauseOfThisTurn == runPC \in {"pausing", "blocked", "resumed", "cancelled"} => pausedIn = run

\* A cancel ends a pause ("the only way out besides Resume") as a Resume does,
\* and either way IsPaused stops saying paused.
PauseEnds == (runPC = "blocked" /\ (runCancelled \/ ~resumeOpen)) ~> (runPC # "blocked" /\ ~paused)

\* After Pause, and until Resume, no more than the step already due begins
\* ("blocks at the top of the next iteration until Resume is called").
PauseHolds == held = NotHeld \/ held <= 1

\* One Paused event for each time the user paused the turn.
PausedOncePerPause == frozen <= asked
=============================================================================
