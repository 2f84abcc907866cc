-------------------------- MODULE BackgroundProofs --------------------------
(***************************************************************************)
(* What runs in the background, for every set of jobs, Wait calls, tasks   *)
(* and timer goroutines.  Jobs: statuses are final, ends are noted once,   *)
(* what Wait and Close promise when they return, and what a reader of a    *)
(* job's output has at its end.  The scheduler: the timer covers every     *)
(* scheduled task, the file holds what the process works with, and runs    *)
(* are credited to the task that ran.                                      *)
(***************************************************************************)
EXTENDS JobsAndOutput, Scheduler, FiniteSetTheorems, SequenceTheorems, WellFoundedInduction, TLAPS

Alive == {"registered", "running", "returned", "recorded"}
Ended == {"published", "closed", "exited"}
InGroup == {"running", "returned", "recorded", "published", "closed"}
HasNote == {"recorded", "published", "closed", "exited"}

\* What a job's goroutine has reached tells its status, its verdict, whether
\* m.wg counts it and whether its note is out.
Phases ==
    \A j \in Jobs :
        /\ pc[j] = "absent" => status[j] = "none"
        /\ pc[j] \in Alive => status[j] \in {"running", "killed"}
        /\ pc[j] \in Ended => status[j] \in Terminal
        /\ pc[j] \in {"returned", "recorded"} \cup Ended => verdict[j] \in Terminal
        /\ pc[j] \in InGroup <=> j \in wg

JobInv == TypeOK /\ Phases

LEMMA JobInvInit == Init => JobInv
<1> SUFFICES ASSUME Init PROVE JobInv
  OBVIOUS
<1>1. rootDone \in BOOLEAN
  BY DEF Init
<1>2. view \in [Waiters -> [Jobs -> Statuses]]
  BY DEF Init, NoView, Statuses
<1>3. TypeOK
  BY <1>1, <1>2 DEF Init, TypeOK, PCs, Statuses, Terminal, Notes
<1>4. Phases
  BY DEF Init, Phases, Alive, Ended, InGroup
<1>5. QED
  BY <1>3, <1>4 DEF JobInv

LEMMA JobInvStep ==
    ASSUME JobInv, [Next]_vars
    PROVE  JobInv'
<1> USE DEF JobInv, TypeOK, jobVars, noteVars, waitVars, closeVars
<1>1. ASSUME NEW j \in Jobs, Start(j) \/ Spawn(j) \/ CloseDone(j) \/ Exit(j) PROVE JobInv'
  <2>1. TypeOK'
    BY <1>1 DEF Start, Spawn, CloseDone, Exit, Goes, PCs, Statuses, Terminal
  <2>2. Phases'
    BY <1>1 DEF Phases, Start, Spawn, CloseDone, Exit, Goes, Alive, Ended, InGroup, Terminal
  <2>3. QED
    BY <2>1, <2>2
<1>2. ASSUME NEW j \in Jobs, Kill(j) \/ CancelJob(j) PROVE JobInv'
  <2>1. TypeOK'
    BY <1>2 DEF Kill, CancelJob, Statuses, Terminal
  <2>2. Phases'
    BY <1>2 DEF Phases, Kill, CancelJob, Alive, Ended, InGroup, Terminal
  <2>3. QED
    BY <2>1, <2>2
<1>3. ASSUME NEW j \in Jobs, RunReturns(j) PROVE JobInv'
  <2>1. PICK st \in Terminal : verdict' = [verdict EXCEPT ![j] = st]
    BY <1>3 DEF RunReturns
  <2>2. TypeOK'
    BY <1>3, <2>1 DEF RunReturns, Goes, PCs
  <2>3. Phases'
    BY <1>3, <2>1 DEF RunReturns, Goes, Phases, Alive, Ended, InGroup
  <2>4. QED
    BY <2>2, <2>3
<1>4. ASSUME NEW j \in Jobs, RecordCompletion(j) PROVE JobInv'
  <2>1. <<j, verdict[j]>> \in Notes
    BY <1>4 DEF RecordCompletion, Phases, Notes
  <2>2. TypeOK'
    BY <1>4, <2>1 DEF RecordCompletion, Goes, PCs
  <2>3. Phases'
    BY <1>4 DEF RecordCompletion, Goes, Phases, Alive, Ended, InGroup
  <2>4. QED
    BY <2>2, <2>3
<1>5. ASSUME NEW j \in Jobs, Publish(j) PROVE JobInv'
  <2>1. verdict[j] \in Terminal
    BY <1>5 DEF Publish, Phases
  <2>2. TypeOK'
    BY <1>5, <2>1 DEF Publish, Goes, PCs, Statuses, Terminal
  <2>3. Phases'
    BY <1>5, <2>1 DEF Publish, Goes, Phases, Alive, Ended, InGroup, Terminal
  <2>4. QED
    BY <2>2, <2>3
<1>6. ASSUME NEW w \in Waiters, Wait(w) PROVE JobInv'
  <2>1. PICK T \in SUBSET Jobs : targets' = [targets EXCEPT ![w] = T]
    BY <1>6 DEF Wait
  <2>2. TypeOK' /\ Phases'
    BY <1>6, <2>1 DEF Wait, Phases
  <2>3. QED
    BY <2>2
<1>7. ASSUME NEW w \in Waiters, NEW how \in {"complete", "early"}, Returns(w, how) PROVE JobInv'
  <2>1. [j \in Jobs |-> IF j \in targets[w] THEN status[j] ELSE "none"] \in [Jobs -> Statuses]
    BY DEF Statuses
  <2>2. TypeOK' /\ Phases'
    BY <1>7, <2>1 DEF Returns, Phases
  <2>3. QED
    BY <2>2
<1>8. ASSUME DrainCompletedNote PROVE JobInv'
  BY <1>8 DEF DrainCompletedNote, Phases
<1>9. ASSUME Close PROVE JobInv'
  <2>1. rootDone' \in BOOLEAN
    BY <1>9 DEF Close
  <2>2. TypeOK' /\ Phases'
    BY <1>9, <2>1 DEF Close, Phases
  <2>3. QED
    BY <2>2
<1>10. ASSUME CloseReturns PROVE JobInv'
  BY <1>10 DEF CloseReturns, Phases
<1>11. CASE UNCHANGED vars
  BY <1>11 DEF vars, Phases
<1>12. QED
  BY <1>1, <1>2, <1>3, <1>4, <1>5, <1>6, <1>7, <1>8, <1>9, <1>10, <1>11 DEF Next, JobStep, WaitComplete, WaitEarly

\* Every reachable state has the shape TypeOK gives it.
THEOREM TypeCorrect == Spec => []TypeOK
<1>1. Init => JobInv
  BY JobInvInit
<1>2. JobInv /\ [Next]_vars => JobInv'
  BY JobInvStep
<1>3. JobInv => TypeOK
  BY DEF JobInv
<1>4. QED
  BY <1>1, <1>2, <1>3, PTL DEF Spec

LEMMA JobInvAlways == Spec => []JobInv
<1>1. Init => JobInv
  BY JobInvInit
<1>2. JobInv /\ [Next]_vars => JobInv'
  BY JobInvStep
<1>3. QED
  BY <1>1, <1>2, PTL DEF Spec

\* A terminal status is final: Kill leaves an ended job alone and the job's
\* own end leaves a killed one alone.
THEOREM StatusIsFinal == Spec => StatusFinal
<1>1. JobInv /\ [Next]_vars => [\A j \in Jobs : status[j] \in Terminal => status'[j] = status[j]]_vars
  <2> SUFFICES ASSUME JobInv, Next, NEW j \in Jobs, status[j] \in Terminal
               PROVE  status'[j] = status[j]
    BY DEF JobInv
  <2> USE DEF JobInv, TypeOK, jobVars, noteVars, waitVars, closeVars
  <2>1. ASSUME NEW i \in Jobs, Start(i) PROVE status'[j] = status[j]
    BY <2>1 DEF Start, Phases, Terminal
  <2>2. ASSUME NEW i \in Jobs, Publish(i) PROVE status'[j] = status[j]
    BY <2>2 DEF Publish, Phases, Alive, Terminal
  <2>3. ASSUME NEW i \in Jobs, Kill(i) PROVE status'[j] = status[j]
    BY <2>3 DEF Kill, Terminal
  <2>4. ASSUME UNCHANGED status PROVE status'[j] = status[j]
    BY <2>4
  <2>5. ASSUME NEW i \in Jobs, RunReturns(i) \/ Spawn(i) \/ RecordCompletion(i) \/ CloseDone(i) \/ Exit(i) \/ CancelJob(i)
        PROVE  UNCHANGED status
    BY <2>5 DEF RunReturns, Spawn, RecordCompletion, CloseDone, Exit, CancelJob
  <2>6. ASSUME NEW w \in Waiters, Wait(w) \/ WaitComplete(w) \/ WaitEarly(w) PROVE UNCHANGED status
    BY <2>6 DEF Wait, WaitComplete, WaitEarly, Returns
  <2>7. ASSUME DrainCompletedNote \/ Close \/ CloseReturns PROVE UNCHANGED status
    BY <2>7 DEF DrainCompletedNote, Close, CloseReturns
  <2>8. QED
    BY <2>1, <2>2, <2>3, <2>4, <2>5, <2>6, <2>7 DEF Next, JobStep
<1>2. QED
  BY <1>1, JobInvAlways, PTL DEF Spec, StatusFinal

-----------------------------------------------------------------------------
(* The notes.                                                              *)

AllNotes == completed \cup delivered

\* A job's note is out from recordCompletion on, carries its verdict and is
\* either queued or delivered.
NoteInv ==
    /\ \A j \in Jobs, st \in Terminal : <<j, st>> \in AllNotes => pc[j] \in HasNote /\ st = verdict[j]
    /\ \A j \in Jobs : pc[j] \in HasNote => <<j, verdict[j]>> \in AllNotes
    /\ completed \cap delivered = {}

LEMMA NoteInvStep ==
    ASSUME JobInv, NoteInv, [Next]_vars
    PROVE  NoteInv'
<1> USE DEF JobInv, TypeOK, jobVars, noteVars, waitVars, closeVars
<1>1. ASSUME NEW j \in Jobs, NEW to, Goes(j, to), to \in HasNote <=> pc[j] \in HasNote, UNCHANGED <<verdict, completed, delivered>>
      PROVE  NoteInv'
  BY <1>1 DEF NoteInv, AllNotes, Goes
<1>2. ASSUME NEW j \in Jobs, Start(j) \/ Spawn(j) \/ Publish(j) \/ CloseDone(j) \/ Exit(j) PROVE NoteInv'
  BY <1>1, <1>2 DEF Start, Spawn, Publish, CloseDone, Exit, HasNote
<1>3. ASSUME NEW j \in Jobs, RunReturns(j) PROVE NoteInv'
  <2>1. pc[j] \notin HasNote /\ pc'[j] \notin HasNote /\ \A i \in Jobs \ {j} : pc'[i] = pc[i] /\ verdict'[i] = verdict[i]
    BY <1>3 DEF RunReturns, Goes, HasNote
  <2>2. AllNotes' = AllNotes /\ (completed \cap delivered)' = completed \cap delivered
    BY <1>3 DEF RunReturns, AllNotes
  <2>3. QED
    BY <2>1, <2>2 DEF NoteInv
<1>4. ASSUME NEW j \in Jobs, RecordCompletion(j) PROVE NoteInv'
  <2>1. /\ pc[j] \notin HasNote /\ pc'[j] \in HasNote /\ \A i \in Jobs \ {j} : pc'[i] = pc[i]
        /\ verdict' = verdict
    BY <1>4 DEF RecordCompletion, Goes, HasNote
  <2>2. verdict[j] \in Terminal
    BY <1>4 DEF RecordCompletion, Phases
  <2>3. <<j, verdict[j]>> \notin AllNotes
    BY <2>1, <2>2 DEF NoteInv
  <2>4. AllNotes' = AllNotes \cup {<<j, verdict[j]>>} /\ completed' \cap delivered' = {}
    BY <1>4, <2>3 DEF RecordCompletion, AllNotes, NoteInv
  <2>5. QED
    BY <2>1, <2>2, <2>4 DEF NoteInv
<1>5. ASSUME DrainCompletedNote PROVE NoteInv'
  <2>1. AllNotes' = AllNotes /\ completed' = {}
    BY <1>5 DEF DrainCompletedNote, AllNotes
  <2>2. UNCHANGED <<pc, verdict>>
    BY <1>5 DEF DrainCompletedNote
  <2>3. QED
    BY <2>1, <2>2 DEF NoteInv
<1>6. ASSUME UNCHANGED <<pc, verdict, completed, delivered>> PROVE NoteInv'
  BY <1>6 DEF NoteInv, AllNotes
<1>7. ASSUME NEW j \in Jobs, Kill(j) \/ CancelJob(j) PROVE NoteInv'
  BY <1>6, <1>7 DEF Kill, CancelJob
<1>8. ASSUME NEW w \in Waiters, Wait(w) \/ WaitComplete(w) \/ WaitEarly(w) PROVE NoteInv'
  BY <1>6, <1>8 DEF Wait, WaitComplete, WaitEarly, Returns
<1>9. ASSUME Close \/ CloseReturns PROVE NoteInv'
  BY <1>6, <1>9 DEF Close, CloseReturns
<1>10. CASE UNCHANGED vars
  BY <1>6, <1>10 DEF vars
<1>11. QED
  BY <1>2, <1>3, <1>4, <1>5, <1>7, <1>8, <1>9, <1>10 DEF Next, JobStep

LEMMA NoteInvAlways == Spec => []NoteInv
<1>1. Init => NoteInv
  BY DEF Init, NoteInv, AllNotes, HasNote
<1>2. JobInv /\ NoteInv /\ [Next]_vars => NoteInv'
  BY NoteInvStep
<1>3. QED
  BY <1>1, <1>2, JobInvAlways, PTL DEF Spec

\* A job that ended by itself has its note out before its status shows it.
LEMMA NoteBeforeStatus ==
    ASSUME JobInv, NoteInv, NEW j \in Jobs, status[j] \in {"done", "failed"}
    PROVE  Noted(j)
<1>1. pc[j] \in Ended
  BY DEF JobInv, TypeOK, Phases, PCs, Alive, Ended
<1>2. verdict[j] \in Terminal /\ <<j, verdict[j]>> \in AllNotes
  BY <1>1 DEF NoteInv, JobInv, Phases, Ended, HasNote
<1>3. QED
  BY <1>2 DEF Noted, AllNotes

\* The next turns are told of each ended job exactly once.
THEOREM EachEndNotedOnce == Spec => []NotedOnce
<1>1. JobInv /\ NoteInv => NotedOnce
  <2> SUFFICES ASSUME JobInv, NoteInv PROVE NotedOnce
    OBVIOUS
  <2>1. \A j \in Jobs : DoneClosed(j) \/ status[j] \in {"done", "failed"} => Noted(j)
    <3>1. ASSUME NEW j \in Jobs, DoneClosed(j) PROVE Noted(j)
      <4>1. verdict[j] \in Terminal /\ <<j, verdict[j]>> \in AllNotes
        BY <3>1 DEF DoneClosed, NoteInv, JobInv, Phases, Ended, HasNote
      <4>2. QED
        BY <4>1 DEF Noted, AllNotes
    <3>2. QED
      BY <3>1, NoteBeforeStatus
  <2>2. ASSUME NEW n \in AllNotes, NEW m \in AllNotes, n[1] = m[1] PROVE n = m
    <3>1. PICK j \in Jobs, st \in Terminal : n = <<j, st>>
      BY DEF JobInv, TypeOK, Notes, AllNotes
    <3>2. PICK i \in Jobs, su \in Terminal : m = <<i, su>>
      BY DEF JobInv, TypeOK, Notes, AllNotes
    <3>3. i = j /\ st = verdict[j] /\ su = verdict[j]
      BY <2>2, <3>1, <3>2 DEF NoteInv
    <3>4. QED
      BY <3>1, <3>2, <3>3
  <2>3. QED
    BY <2>1, <2>2 DEF NotedOnce, NoteInv, AllNotes
<1>2. QED
  BY <1>1, JobInvAlways, NoteInvAlways, PTL

-----------------------------------------------------------------------------
(* Wait and Close.                                                         *)

\* A Wait that completed saw every one of its targets closed.
WaitedClosed ==
    \A w \in Waiters : wpc[w] = "complete" =>
        \A j \in targets[w] : DoneClosed(j) /\ view[w][j] \in Terminal

\* Jobs never leave "closed" but for "exited", and m.wg never counts a job
\* again.
ClosedLasts == \A j \in Jobs : DoneClosed(j) => DoneClosed(j)'
SpawnedLasts == \A j \in Jobs : pc[j] \notin {"absent", "registered"} => pc'[j] \notin {"absent", "registered"}
ExitedLasts == \A j \in Jobs : pc[j] = "exited" => pc'[j] = "exited"

LEMMA JobsMoveForward ==
    ASSUME JobInv, [Next]_vars
    PROVE  ClosedLasts /\ SpawnedLasts /\ ExitedLasts
<1> USE DEF JobInv, TypeOK, jobVars, noteVars, waitVars, closeVars, ClosedLasts, SpawnedLasts, ExitedLasts, DoneClosed
<1>1. ASSUME NEW j \in Jobs, Start(j) \/ Spawn(j) \/ RunReturns(j) \/ RecordCompletion(j) \/ Publish(j) \/ CloseDone(j) \/ Exit(j)
      PROVE  ClosedLasts /\ SpawnedLasts /\ ExitedLasts
  BY <1>1 DEF Start, Spawn, RunReturns, RecordCompletion, Publish, CloseDone, Exit, Goes
<1>2. ASSUME UNCHANGED pc PROVE ClosedLasts /\ SpawnedLasts /\ ExitedLasts
  BY <1>2
<1>3. ASSUME NEW j \in Jobs, Kill(j) \/ CancelJob(j) PROVE UNCHANGED pc
  BY <1>3 DEF Kill, CancelJob
<1>4. ASSUME NEW w \in Waiters, Wait(w) \/ WaitComplete(w) \/ WaitEarly(w) PROVE UNCHANGED pc
  BY <1>4 DEF Wait, WaitComplete, WaitEarly, Returns
<1>5. ASSUME DrainCompletedNote \/ Close \/ CloseReturns \/ UNCHANGED vars PROVE UNCHANGED pc
  BY <1>5 DEF DrainCompletedNote, Close, CloseReturns, vars
<1>6. QED
  BY <1>1, <1>2, <1>3, <1>4, <1>5 DEF Next, JobStep

LEMMA WaitedClosedStep ==
    ASSUME JobInv, WaitedClosed, [Next]_vars
    PROVE  WaitedClosed'
<1> USE DEF JobInv, TypeOK, jobVars, noteVars, waitVars, closeVars
<1>0. ClosedLasts
  BY JobsMoveForward
<1>1. ASSUME UNCHANGED waitVars PROVE WaitedClosed'
  BY <1>0, <1>1 DEF WaitedClosed, ClosedLasts
<1>2. ASSUME NEW w \in Waiters, Wait(w) PROVE WaitedClosed'
  <2>1. wpc'[w] = "waiting" /\ \A v \in Waiters \ {w} : wpc'[v] = wpc[v] /\ targets'[v] = targets[v]
    BY <1>2 DEF Wait
  <2>2. UNCHANGED <<view>>
    BY <1>2 DEF Wait
  <2>3. QED
    BY <1>0, <2>1, <2>2 DEF WaitedClosed, ClosedLasts
<1>3. ASSUME NEW w \in Waiters, WaitEarly(w) PROVE WaitedClosed'
  BY <1>0, <1>3 DEF WaitEarly, Returns, WaitedClosed, ClosedLasts
<1>4. ASSUME NEW w \in Waiters, WaitComplete(w) PROVE WaitedClosed'
  <2>1. \A j \in targets[w] : DoneClosed(j) /\ status[j] \in Terminal
    BY <1>4 DEF WaitComplete, DoneClosed, Phases, Ended
  <2>2. QED
    BY <1>0, <1>4, <2>1 DEF WaitComplete, Returns, WaitedClosed, ClosedLasts
<1>5. ASSUME NEW j \in Jobs, Start(j) \/ RunReturns(j) \/ JobStep(j) \/ Kill(j) PROVE UNCHANGED waitVars
  BY <1>5 DEF Start, RunReturns, JobStep, Spawn, RecordCompletion, Publish, CloseDone, Exit, CancelJob, Kill
<1>6. ASSUME DrainCompletedNote \/ Close \/ CloseReturns \/ UNCHANGED vars PROVE UNCHANGED waitVars
  BY <1>6 DEF DrainCompletedNote, Close, CloseReturns, vars
<1>7. QED
  BY <1>1, <1>2, <1>3, <1>4, <1>5, <1>6 DEF Next

\* A Wait that was not cut short reports terminal statuses, and the notes of
\* the jobs it waited for are out.
THEOREM WaitIsConclusive == Spec => []WaitSeesEnd
<1>1. Init => WaitedClosed
  BY DEF Init, WaitedClosed
<1>2. JobInv /\ WaitedClosed /\ [Next]_vars => WaitedClosed'
  BY WaitedClosedStep
<1>3. JobInv /\ NotedOnce /\ WaitedClosed => WaitSeesEnd
  BY DEF WaitedClosed, WaitSeesEnd, NotedOnce, JobInv, TypeOK
<1>4. QED
  BY <1>1, <1>2, <1>3, JobInvAlways, EachEndNotedOnce, PTL DEF Spec

\* Close waits with the jobs it found started, and returns when they are gone.
CloseInv ==
    /\ closer = "waiting" => \A j \in awaited : pc[j] \notin {"absent", "registered"}
    /\ closer = "returned" => \A j \in awaited : pc[j] = "exited"

LEMMA CloseInvStep ==
    ASSUME JobInv, CloseInv, [Next]_vars
    PROVE  CloseInv'
<1> USE DEF JobInv, TypeOK, jobVars, noteVars, waitVars, closeVars
<1>0. SpawnedLasts /\ ExitedLasts
  BY JobsMoveForward
<1>1. ASSUME UNCHANGED closeVars PROVE CloseInv'
  BY <1>0, <1>1 DEF CloseInv, SpawnedLasts, ExitedLasts
<1>2. ASSUME Close PROVE CloseInv'
  BY <1>2 DEF Close, CloseInv
<1>3. ASSUME CloseReturns PROVE CloseInv'
  <2>1. \A j \in awaited : pc[j] = "exited"
    BY <1>3 DEF CloseReturns, CloseInv, Phases, PCs, InGroup
  <2>2. QED
    BY <1>3, <2>1 DEF CloseReturns, CloseInv
<1>4. ASSUME NEW j \in Jobs, Start(j) \/ RunReturns(j) \/ JobStep(j) \/ Kill(j) PROVE UNCHANGED closeVars
  BY <1>4 DEF Start, RunReturns, JobStep, Spawn, RecordCompletion, Publish, CloseDone, Exit, CancelJob, Kill
<1>5. ASSUME NEW w \in Waiters, Wait(w) \/ WaitComplete(w) \/ WaitEarly(w) PROVE UNCHANGED closeVars
  BY <1>5 DEF Wait, WaitComplete, WaitEarly, Returns
<1>6. ASSUME DrainCompletedNote \/ UNCHANGED vars PROVE UNCHANGED closeVars
  BY <1>6 DEF DrainCompletedNote, vars
<1>7. QED
  BY <1>1, <1>2, <1>3, <1>4, <1>5, <1>6 DEF Next

\* When Close returns, the goroutines of the jobs started before it are gone.
THEOREM CloseIsConclusive == Spec => []CloseWaitsForStarted
<1>1. Init => CloseInv
  BY DEF Init, CloseInv
<1>2. JobInv /\ CloseInv /\ [Next]_vars => CloseInv'
  BY CloseInvStep
<1>3. CloseInv => CloseWaitsForStarted
  BY DEF CloseInv, CloseWaitsForStarted
<1>4. QED
  BY <1>1, <1>2, <1>3, JobInvAlways, PTL DEF Spec


-----------------------------------------------------------------------------
(* The job manager implements the board.                                   *)

\* The note of a job is where its goroutine has put it.
NoteOf(j) ==
    IF pc[j] \notin HasNote THEN [at |-> "none", says |-> "none"]
    ELSE [at |-> IF <<j, verdict[j]>> \in completed THEN "queued" ELSE "taken", says |-> verdict[j]]
BoardNotes == [j \in Jobs |-> NoteOf(j)]

Board == INSTANCE JobBoard WITH shown <- status, note <- BoardNotes

\* A step that moves no job past recordCompletion, and no note, leaves the
\* notes of the board alone.
LEMMA NotesStay ==
    ASSUME UNCHANGED completed,
           \A j \in Jobs : pc'[j] \in HasNote <=> pc[j] \in HasNote,
           \A j \in Jobs : pc[j] \in HasNote => verdict'[j] = verdict[j]
    PROVE  UNCHANGED BoardNotes
<1>1. \A j \in Jobs : NoteOf(j)' = NoteOf(j)
  BY DEF NoteOf
<1>2. QED
  BY <1>1 DEF BoardNotes

\* recordCompletion writes the note.
LEMMA RecordWrites ==
    ASSUME JobInv, NoteInv, NEW j \in Jobs, RecordCompletion(j)
    PROVE  \E end \in Board!Ends : Board!Write(j, end)
<1> USE DEF JobInv, TypeOK
<1>1. /\ pc[j] = "returned" /\ pc' = [pc EXCEPT ![j] = "recorded"]
      /\ completed' = completed \cup {<<j, verdict[j]>>}
      /\ UNCHANGED <<status, verdict>>
  BY DEF RecordCompletion, Goes
<1>2. verdict[j] \in Board!Ends /\ status[j] \in {"running", "killed"}
  BY <1>1 DEF Phases, Alive, Terminal, Board!Ends
<1>3. BoardNotes[j] = Board!NoNote
  BY <1>1 DEF BoardNotes, NoteOf, HasNote, Board!NoNote
<1>4. NoteOf(j)' = [at |-> "queued", says |-> verdict[j]]
  BY <1>1 DEF NoteOf, HasNote
<1>5. ASSUME NEW i \in Jobs, i # j PROVE NoteOf(i)' = NoteOf(i)
  <2>1. pc'[i] = pc[i] /\ verdict'[i] = verdict[i]
    BY <1>1, <1>5
  <2>2. <<i, verdict[i]>> \in completed' <=> <<i, verdict[i]>> \in completed
    BY <1>1, <1>5
  <2>3. QED
    BY <2>1, <2>2 DEF NoteOf
<1>6. BoardNotes' = [BoardNotes EXCEPT ![j] = [at |-> "queued", says |-> verdict[j]]]
  BY <1>4, <1>5 DEF BoardNotes
<1>7. Board!Write(j, verdict[j])
  BY <1>1, <1>2, <1>3, <1>6 DEF Board!Write
<1>8. QED
  BY <1>2, <1>7

\* The terminal status is what the note tells, unless Kill was faster.
LEMMA PublishShows ==
    ASSUME JobInv, NEW j \in Jobs, Publish(j)
    PROVE  Board!Show(j) \/ UNCHANGED <<status, BoardNotes>>
<1> USE DEF JobInv, TypeOK
<1>1. /\ pc[j] = "recorded" /\ pc' = [pc EXCEPT ![j] = "published"]
      /\ status' = [status EXCEPT ![j] = IF status[j] = "killed" THEN "killed" ELSE verdict[j]]
      /\ UNCHANGED <<verdict, completed>>
  BY DEF Publish, Goes, noteVars
<1>2. UNCHANGED BoardNotes
  BY <1>1, NotesStay DEF HasNote
<1>3. CASE status[j] = "killed"
  BY <1>1, <1>2, <1>3
<1>4. CASE status[j] = "running"
  <2>1. BoardNotes[j].says = verdict[j] /\ BoardNotes[j].at # "none"
    BY <1>1 DEF BoardNotes, NoteOf, HasNote
  <2>2. BoardNotes[j] # Board!NoNote
    BY <2>1 DEF Board!NoNote
  <2>3. QED
    BY <1>1, <1>2, <1>4, <2>1, <2>2 DEF Board!Show
<1>5. QED
  BY <1>1, <1>3, <1>4 DEF Phases, Alive

\* DrainCompletedNote takes the notes that wait.
LEMMA DrainTakes ==
    ASSUME JobInv, NoteInv, DrainCompletedNote
    PROVE  Board!Take
<1> USE DEF JobInv, TypeOK
<1>1. completed # {} /\ completed' = {} /\ UNCHANGED <<pc, status, verdict>>
  BY DEF DrainCompletedNote, jobVars
<1>2. \E j \in Jobs : BoardNotes[j].at = "queued"
  <2>1. PICK j \in Jobs, st \in Terminal : <<j, st>> \in completed
    <3>1. PICK n \in completed : n \in Jobs \X Terminal
      BY <1>1 DEF Notes
    <3>2. n[1] \in Jobs /\ n[2] \in Terminal /\ n = <<n[1], n[2]>>
      BY <3>1, SMT
    <3>3. QED
      BY <3>1, <3>2, Zenon
  <2>2. pc[j] \in HasNote /\ st = verdict[j]
    BY <2>1 DEF NoteInv, AllNotes
  <2>3. QED
    BY <2>1, <2>2 DEF BoardNotes, NoteOf
<1>3. ASSUME NEW j \in Jobs
      PROVE  NoteOf(j)' = IF NoteOf(j).at = "queued" THEN [NoteOf(j) EXCEPT !.at = "taken"] ELSE NoteOf(j)
  BY <1>1 DEF NoteOf
<1>4. BoardNotes' = [j \in Jobs |-> IF BoardNotes[j].at = "queued" THEN [BoardNotes[j] EXCEPT !.at = "taken"]
                                    ELSE BoardNotes[j]]
  BY <1>3 DEF BoardNotes
<1>5. QED
  BY <1>1, <1>2, <1>4 DEF Board!Take

\* Every step of the manager is one of the board, or none.
LEMMA StepOnBoard ==
    ASSUME JobInv, NoteInv, [Next]_vars
    PROVE  [Board!Next]_(Board!boardVars)
<1> USE DEF Board!boardVars
<1>1. ASSUME NEW j \in Jobs, Start(j) PROVE Board!Put(j)
  <2>1. UNCHANGED BoardNotes
    BY <1>1, NotesStay DEF Start, Goes, JobInv, TypeOK, HasNote, noteVars
  <2>2. pc[j] = "absent" /\ status[j] = "none"
    BY <1>1 DEF Start, JobInv, Phases
  <2>3. QED
    BY <1>1, <2>1, <2>2 DEF Start, Board!Put
<1>2. ASSUME NEW j \in Jobs, Kill(j) PROVE Board!Strike(j)
  <2>1. UNCHANGED BoardNotes
    BY <1>2, NotesStay DEF Kill, noteVars
  <2>2. QED
    BY <1>2, <2>1 DEF Kill, Board!Strike
<1>3. ASSUME NEW j \in Jobs, Spawn(j) \/ CloseDone(j) \/ Exit(j) \/ CancelJob(j)
      PROVE  UNCHANGED <<status, BoardNotes>>
  <2>1. UNCHANGED <<status, verdict, completed>>
    BY <1>3 DEF Spawn, CloseDone, Exit, CancelJob, noteVars
  <2>2. \A i \in Jobs : pc'[i] \in HasNote <=> pc[i] \in HasNote
    BY <1>3 DEF Spawn, CloseDone, Exit, CancelJob, Goes, JobInv, TypeOK, HasNote
  <2>3. QED
    BY <2>1, <2>2, NotesStay
<1>4. ASSUME NEW j \in Jobs, RunReturns(j) PROVE UNCHANGED <<status, BoardNotes>>
  <2>1. /\ UNCHANGED <<status, completed>>
        /\ pc[j] = "running" /\ pc' = [pc EXCEPT ![j] = "returned"]
        /\ \A i \in Jobs \ {j} : verdict'[i] = verdict[i]
    BY <1>4 DEF RunReturns, Goes, noteVars, JobInv, TypeOK
  <2>2. \A i \in Jobs : pc'[i] \in HasNote <=> pc[i] \in HasNote
    BY <2>1 DEF HasNote, JobInv, TypeOK
  <2>3. \A i \in Jobs : pc[i] \in HasNote => verdict'[i] = verdict[i]
    BY <2>1 DEF HasNote
  <2>4. QED
    BY <2>1, <2>2, <2>3, NotesStay
<1>5. ASSUME UNCHANGED <<jobVars, noteVars>> PROVE UNCHANGED <<status, BoardNotes>>
  BY <1>5, NotesStay DEF jobVars, noteVars
<1>6. ASSUME NEW w \in Waiters, Wait(w) \/ WaitComplete(w) \/ WaitEarly(w)
      PROVE  UNCHANGED <<status, BoardNotes>>
  BY <1>5, <1>6 DEF Wait, WaitComplete, WaitEarly, Returns
<1>7. ASSUME Close \/ CloseReturns \/ UNCHANGED vars PROVE UNCHANGED <<status, BoardNotes>>
  BY <1>5, <1>7 DEF Close, CloseReturns, vars
<1>8. ASSUME NEW j \in Jobs, RecordCompletion(j) PROVE Board!Next
  BY <1>8, RecordWrites DEF Board!Next
<1>9. ASSUME NEW j \in Jobs, Publish(j) PROVE Board!Next \/ UNCHANGED <<status, BoardNotes>>
  BY <1>9, PublishShows DEF Board!Next
<1>10. ASSUME DrainCompletedNote PROVE Board!Next
  BY <1>10, DrainTakes DEF Board!Next
<1>11. QED
  BY <1>1, <1>2, <1>3, <1>4, <1>6, <1>7, <1>8, <1>9, <1>10 DEF Next, JobStep, Board!Next

\* The manager keeps the promise of the board: for every job one end is shown
\* and one note written and handed out, and a job that ended by itself is shown
\* to have ended only after its note, with the end the note tells.
THEOREM ImplementsBoard == Spec => Board!Spec
<1>1. Init => Board!Init
  BY DEF Init, Board!Init, Board!NoNote, BoardNotes, NoteOf, HasNote
<1>2. JobInv /\ NoteInv /\ [Next]_vars => [Board!Next]_(Board!boardVars)
  BY StepOnBoard
<1>3. QED
  BY <1>1, <1>2, JobInvAlways, NoteInvAlways, PTL DEF Spec, Board!Spec

-----------------------------------------------------------------------------
(* The output of one job.  The buffer holds the first bytes in its head,   *)
(* those of the write that did not fit in its tail, and counts the rest;   *)
(* the marker between them can only grow, so that a reader's offset never  *)
(* passes a byte it has not returned.                                      *)

LEMMA TwoParts ==
    ASSUME NEW a \in Seq(Nat), NEW b \in Seq(Nat)
    PROVE  /\ a \o b \in Seq(Nat) /\ Len(a \o b) = Len(a) + Len(b)
           /\ \A i \in 1..Len(a) : (a \o b)[i] = a[i]
           /\ \A i \in 1..Len(b) : (a \o b)[Len(a) + i] = b[i]
<1>1. Len(a) \in Nat /\ Len(b) \in Nat
  OBVIOUS
<1>2. a \o b \in Seq(Nat) /\ Len(a \o b) = Len(a) + Len(b)
      /\ \A i \in 1..(Len(a) + Len(b)) : (a \o b)[i] = IF i <= Len(a) THEN a[i] ELSE b[i - Len(a)]
  BY ConcatProperties
<1>3. ASSUME NEW i \in 1..Len(b) PROVE (a \o b)[Len(a) + i] = b[i]
  <2>1. Len(a) + i \in 1..(Len(a) + Len(b)) /\ ~(Len(a) + i <= Len(a)) /\ (Len(a) + i) - Len(a) = i
    BY <1>1
  <2>2. QED
    BY <1>2, <2>1
<1>4. QED
  BY <1>1, <1>2, <1>3

LEMMA ThreeParts ==
    ASSUME NEW a \in Seq(Nat), NEW b \in Seq(Nat), NEW c \in Seq(Nat)
    PROVE  \E s \in Seq(Nat) :
             /\ s = a \o b \o c /\ Len(s) = Len(a) + Len(b) + Len(c)
             /\ \A i \in 1..Len(a) : s[i] = a[i]
             /\ \A i \in 1..Len(b) : s[Len(a) + i] = b[i]
             /\ \A i \in 1..Len(c) : s[Len(a) + Len(b) + i] = c[i]
<1> DEFINE d == a \o b
<1>1. Len(a) \in Nat /\ Len(b) \in Nat /\ Len(c) \in Nat
  OBVIOUS
<1>2. /\ d \in Seq(Nat) /\ Len(d) = Len(a) + Len(b)
      /\ \A i \in 1..Len(a) : d[i] = a[i]
      /\ \A i \in 1..Len(b) : d[Len(a) + i] = b[i]
  BY TwoParts
<1> HIDE DEF d
<1>3. /\ d \o c \in Seq(Nat) /\ Len(d \o c) = Len(d) + Len(c)
      /\ \A i \in 1..Len(d) : (d \o c)[i] = d[i]
      /\ \A i \in 1..Len(c) : (d \o c)[Len(d) + i] = c[i]
  BY <1>2, TwoParts
<1> DEFINE s == d \o c
<1>4. /\ s \in Seq(Nat) /\ Len(s) = Len(d) + Len(c)
      /\ \A i \in 1..Len(d) : s[i] = d[i]
      /\ \A i \in 1..Len(c) : s[Len(d) + i] = c[i]
  BY <1>3
<1> HIDE DEF s
<1>5. \A i \in 1..Len(a) : i \in 1..Len(d) /\ s[i] = a[i]
  BY <1>1, <1>2, <1>4
<1>6. ASSUME NEW i \in 1..Len(b) PROVE s[Len(a) + i] = b[i]
  <2>1. Len(a) + i \in 1..Len(d)
    BY <1>1, <1>2
  <2>2. QED
    BY <1>2, <1>4, <2>1
<1>7. \A i \in 1..Len(c) : s[Len(a) + Len(b) + i] = c[i]
  BY <1>2, <1>4
<1>8. s = a \o b \o c
  BY DEF s, d
<1>9. Len(s) = Len(a) + Len(b) + Len(c)
  BY <1>1, <1>2, <1>4
<1>10. \A i \in 1..Len(a) : s[i] = a[i]
  BY <1>5
<1>11. \A i \in 1..Len(b) : s[Len(a) + i] = b[i]
  BY <1>6
<1>12. s \in Seq(Nat)
  BY <1>4
<1>13. QED
  BY <1>7, <1>8, <1>9, <1>10, <1>11, <1>12, ZenonT(30)

LEMMA DigitsAre ==
    /\ \A n \in Nat : Out!Digits(n) \in 1..3
    /\ \A m, n \in Nat : m <= n => Out!Digits(m) <= Out!Digits(n)
BY DEF Out!Digits

LEMMA MarkerIs ==
    ASSUME NEW n \in Nat
    PROVE  /\ Out!Marker(n) \in Seq(Nat) /\ Len(Out!Marker(n)) = Out!Digits(n)
           /\ \A i \in 1..Out!Digits(n) : Out!Marker(n)[i] = Out!Mark
<1>1. Out!Digits(n) \in Nat
  BY DigitsAre
<1>2. QED
  BY <1>1 DEF Out!Marker, Out!Mark

\* Where the bytes held stand in the text, and which they are.
TailAt == Len(head) + Out!Digits(truncated)
Held == 1..Len(head) \cup {tail[i] : i \in 1..Len(tail)}

BufferInv ==
    /\ written \in Nat /\ truncated \in Nat /\ full \in BOOLEAN
    /\ head \in Seq(Nat) /\ tail \in Seq(Nat)
    /\ \A i \in 1..Len(head) : head[i] = i
    /\ Len(head) + Len(tail) + truncated = written
    /\ ~full => tail = <<>> /\ truncated = 0
    /\ full => \E base \in Nat : Len(head) <= base /\ \A i \in 1..Len(tail) : tail[i] = base + i

LEMMA StringIs ==
    ASSUME BufferInv
    PROVE  /\ Out!String \in Seq(Nat)
           /\ Len(Out!String) = IF full THEN TailAt + Len(tail) ELSE Len(head)
           /\ \A i \in 1..Len(head) : Out!String[i] = i
           /\ full => /\ \A i \in 1..Out!Digits(truncated) : Out!String[Len(head) + i] = Out!Mark
                      /\ \A i \in 1..Len(tail) : Out!String[TailAt + i] = tail[i]
<1>1. CASE ~full
  BY <1>1 DEF BufferInv, Out!String
<1>2. CASE full
  <2>1. head \in Seq(Nat) /\ tail \in Seq(Nat) /\ truncated \in Nat /\ \A i \in 1..Len(head) : head[i] = i
    BY DEF BufferInv
  <2>2. Out!String = head \o Out!Marker(truncated) \o tail
    BY <1>2 DEF Out!String
  <2> DEFINE m == Out!Marker(truncated)
  <2>3. /\ m \in Seq(Nat) /\ Len(m) = Out!Digits(truncated)
        /\ \A i \in 1..Out!Digits(truncated) : m[i] = Out!Mark
    BY <2>1, MarkerIs
  <2>4. Out!String = head \o m \o tail
    BY <2>2
  <2> HIDE DEF m
  <2>5. PICK s \in Seq(Nat) :
          /\ s = head \o m \o tail /\ Len(s) = Len(head) + Len(m) + Len(tail)
          /\ \A i \in 1..Len(head) : s[i] = head[i]
          /\ \A i \in 1..Len(m) : s[Len(head) + i] = m[i]
          /\ \A i \in 1..Len(tail) : s[Len(head) + Len(m) + i] = tail[i]
    BY <2>1, <2>3, ThreeParts, ZenonT(30)
  <2>6. Out!String = s
    BY <2>4, <2>5
  <2>7. QED
    BY <1>2, <2>1, <2>3, <2>5, <2>6 DEF TailAt
<1>3. QED
  BY <1>1, <1>2 DEF BufferInv

LEMMA HeldIs ==
    ASSUME BufferInv
    PROVE  Cardinality(Held) + truncated = written
<1>1. written \in Nat /\ truncated \in Nat /\ Len(head) \in Nat /\ Len(tail) \in Nat
      /\ Len(head) + Len(tail) + truncated = written
  BY DEF BufferInv
<1>2. IsFiniteSet(1..Len(head)) /\ Cardinality(1..Len(head)) = Len(head)
  <2>1. 1 \in Int /\ Len(head) \in Int
    BY <1>1
  <2>2. IsFiniteSet(1..Len(head)) /\ Cardinality(1..Len(head)) = IF 1 > Len(head) THEN 0 ELSE Len(head) - 1 + 1
    BY <2>1, FS_Interval, Zenon
  <2>3. QED
    BY <1>1, <2>2
<1>3. CASE ~full
  <2>1. Len(tail) = 0 /\ Held = 1..Len(head)
    BY <1>3 DEF BufferInv, Held
  <2>2. QED
    BY <1>1, <1>2, <2>1
<1>4. CASE full
  <2>1. PICK base \in Nat : Len(head) <= base /\ \A i \in 1..Len(tail) : tail[i] = base + i
    BY <1>4 DEF BufferInv
  <2> DEFINE T == (base + 1)..(base + Len(tail))
             H == 1..Len(head)
  <2>2. {tail[i] : i \in 1..Len(tail)} = T
    <3>1. \A i \in 1..Len(tail) : tail[i] \in T
      BY <1>1, <2>1
    <3>2. \A n \in T : n - base \in 1..Len(tail) /\ tail[n - base] = n
      BY <1>1, <2>1
    <3>3. QED
      BY <3>1, <3>2
  <2>3. IsFiniteSet(T) /\ Cardinality(T) = Len(tail)
    <3>1. base + 1 \in Int /\ base + Len(tail) \in Int
      BY <1>1
    <3>2. IsFiniteSet(T) /\ Cardinality(T) = IF base + 1 > base + Len(tail) THEN 0 ELSE base + Len(tail) - (base + 1) + 1
      BY <3>1, FS_Interval
    <3>3. QED
      BY <1>1, <3>2
  <2>4. H \cap T = {}
    BY <1>1, <2>1
  <2>5. Held = H \cup T
    BY <2>2 DEF Held
  <2> HIDE DEF H, T
  <2>6. IsFiniteSet(H) /\ Cardinality(H) = Len(head)
    BY <1>2 DEF H
  <2>7. Cardinality(H \cup T) = Cardinality(H) + Cardinality(T) - Cardinality(H \cap T)
    BY <2>3, <2>6, FS_Union, Zenon
  <2>8. Cardinality(H \cap T) = 0
    BY <2>4, FS_EmptySet
  <2>9. QED
    BY <1>1, <2>3, <2>5, <2>6, <2>7, <2>8
<1>5. QED
  BY <1>3, <1>4 DEF BufferInv

\* What the reader has: every byte held before its offset, and the result once.
\* When it was told that nothing is left, it has all that is held, and the job
\* that wrote it is gone.
ReaderInv ==
    /\ readOffset \in Nat /\ readOffset <= Len(Out!String)
    /\ \A i \in 1..Len(head) : i <= readOffset => i \in seen
    /\ full => \A i \in 1..Len(tail) : TailAt + i <= readOffset => tail[i] \in seen
    /\ seen \subseteq Held
    /\ shown \in {0, 1} /\ resultRead \in BOOLEAN /\ over \in BOOLEAN
    /\ resultRead <=> shown = 1
    /\ over => /\ PolledStatus = "ended" /\ HasPublished
               /\ seen = Held /\ (answer => resultRead)

PollInv == JobInv /\ BufferInv /\ ReaderInv

LEMMA EndedHasPublished == JobInv /\ PolledStatus = "ended" => HasPublished
<1>1. SUFFICES ASSUME JobInv, PolledStatus = "ended" PROVE HasPublished
  OBVIOUS
<1>2. Polled \in Jobs /\ status[Polled] \in Statuses /\ pc[Polled] \in PCs
  BY <1>1, PolledAssumption DEF JobInv, TypeOK
<1>3. status[Polled] \in {"done", "failed"}
  BY <1>1, <1>2 DEF PolledStatus, Statuses, Terminal
<1>4. QED
  BY <1>1, <1>2, <1>3 DEF JobInv, Phases, Alive, PCs, HasPublished

\* One write: the head, or the tail and the count.
LEMMA WriteIs ==
    ASSUME BufferInv, NEW n \in Nat \ {0}, Out!Write(n)
    PROVE  /\ BufferInv'
           /\ Len(head) <= Len(head') /\ Held \subseteq Held'
           /\ full => full' /\ head' = head /\ tail' = tail /\ truncated <= truncated'
           /\ ~full /\ full' => head' = head
           /\ UNCHANGED <<readOffset, resultRead, seen, shown, over, answer>> /\ ~HasPublished
<1> DEFINE p == Out!Stream(written + 1, written + n)
           k == Out!Excess(p)
<1>1. /\ written \in Nat /\ truncated \in Nat /\ full \in BOOLEAN
      /\ head \in Seq(Nat) /\ tail \in Seq(Nat) /\ Len(head) \in Nat /\ Len(tail) \in Nat
      /\ \A i \in 1..Len(head) : head[i] = i
      /\ Len(head) + Len(tail) + truncated = written
  BY DEF BufferInv
<1>2. p \in Seq(Nat) /\ Len(p) = n /\ \A i \in 1..n : p[i] = written + i
  BY <1>1 DEF Out!Stream
<1>3. written' = written + n /\ ~HasPublished
      /\ UNCHANGED <<readOffset, resultRead, seen, shown, over, answer>>
  BY DEF Out!Write, Out!readVars, Out!jobVars
<1>4. k \in 0..n /\ n - k \in Nat
  BY <1>2, CapAssumption DEF Out!Excess
<1>5. CASE full /\ truncated' = truncated + n /\ UNCHANGED <<head, tail, full>>
  <2>1. Held' = Held /\ Len(head') = Len(head) /\ truncated <= truncated'
    BY <1>1, <1>5 DEF Held
  <2>2. BufferInv'
    BY <1>1, <1>3, <1>5, SMTT(20) DEF BufferInv
  <2>3. QED
    BY <1>1, <1>3, <1>5, <2>1, <2>2
<1>6. CASE ~full /\ head' = head \o p /\ UNCHANGED <<tail, full, truncated>>
  <2>1. tail = <<>> /\ truncated = 0 /\ Len(head) = written
    BY <1>1, <1>6 DEF BufferInv
  <2> HIDE DEF p
  <2>0. /\ head \o p \in Seq(Nat) /\ Len(head \o p) = Len(head) + Len(p)
        /\ \A i \in 1..Len(head) : (head \o p)[i] = head[i]
        /\ \A i \in 1..Len(p) : (head \o p)[Len(head) + i] = p[i]
    BY <1>1, <1>2, TwoParts, Zenon
  <2>2. /\ head' \in Seq(Nat) /\ Len(head') = written + n
        /\ \A i \in 1..Len(head) : head'[i] = head[i]
        /\ \A i \in 1..n : head'[written + i] = p[i]
    BY <1>1, <1>2, <1>6, <2>0, <2>1
  <2>3. ASSUME NEW i \in 1..(written + n) PROVE head'[i] = i
    <3>1. CASE i <= written
      BY <1>1, <2>1, <2>2, <3>1
    <3>2. CASE i > written
      <4>1. i - written \in 1..n /\ i = written + (i - written)
        BY <1>1, <3>2
      <4>2. head'[i] = p[i - written]
        BY <2>2, <4>1
      <4>3. QED
        BY <1>1, <1>2, <4>1, <4>2
    <3>3. QED
      BY <1>1, <3>1, <3>2
  <2>4. QED
    BY <1>1, <1>3, <1>6, <2>1, <2>2, <2>3 DEF BufferInv, Held
<1>7. CASE /\ ~full /\ full' = TRUE /\ head' = head
           /\ tail' = Out!LastOf(tail \o p, Len(tail \o p) - Out!Excess(tail \o p))
           /\ truncated' = truncated + Out!Excess(tail \o p)
  <2>1. tail = <<>> /\ truncated = 0 /\ Len(head) = written
    BY <1>1, <1>7 DEF BufferInv
  <2>2. tail \o p = p
    <3> HIDE DEF p
    <3>1. QED
      BY <1>2, <2>1
  <2>3. tail' = SubSeq(p, k + 1, n) /\ truncated' = k
    <3>1. tail' = Out!LastOf(p, n - k) /\ truncated' = k
      BY <1>2, <1>4, <1>7, <2>1, <2>2
    <3>2. n - (n - k) + 1 = k + 1
      BY <1>4
    <3>3. QED
      BY <1>2, <3>1, <3>2 DEF Out!LastOf
  <2> HIDE DEF p, k
  <2>4. tail' \in Seq(Nat) /\ Len(tail') = n - k /\ \A i \in 1..(n - k) : tail'[i] = p[k + i]
    BY <1>2, <1>4, <2>3
  <2>5. \A i \in 1..(n - k) : tail'[i] = (written + k) + i
    BY <1>1, <1>2, <1>4, <2>4
  <2>6. written + k \in Nat /\ Len(head) <= written + k
    BY <1>1, <1>4, <2>1
  <2>7. Len(head') + Len(tail') + truncated' = written'
    <3>1. Len(head') = written /\ Len(tail') = n - k /\ truncated' = k /\ written' = written + n
      BY <1>3, <1>7, <2>1, <2>3, <2>4
    <3>2. written + (n - k) + k = written + n
      BY <1>1, <1>4
    <3>3. QED
      BY <3>1, <3>2
  <2>8. Held \subseteq Held'
    BY <1>7, <2>1 DEF Held
  <2>9. BufferInv'
    BY <1>1, <1>3, <1>4, <1>7, <2>3, <2>4, <2>5, <2>6, <2>7 DEF BufferInv
  <2>10. QED
    BY <1>1, <1>3, <1>7, <2>8, <2>9
<1>8. QED
  BY <1>5, <1>6, <1>7 DEF Out!Write

LEMMA WriteKeeps ==
    ASSUME PollInv, NEW n \in Nat \ {0}, Out!Write(n), UNCHANGED vars
    PROVE  ReaderInv'
<1>1. BufferInv /\ ReaderInv
  BY DEF PollInv
<1>2. /\ BufferInv'
      /\ Len(head) <= Len(head') /\ Held \subseteq Held'
      /\ full => full' /\ head' = head /\ tail' = tail /\ truncated <= truncated'
      /\ ~full /\ full' => head' = head
      /\ UNCHANGED <<readOffset, resultRead, seen, shown, over, answer>> /\ ~HasPublished
  BY <1>1, WriteIs, Zenon
<1>3. /\ Len(head) \in Nat /\ Len(tail) \in Nat /\ truncated \in Nat
      /\ Len(head') \in Nat /\ Len(tail') \in Nat /\ truncated' \in Nat
      /\ full \in BOOLEAN /\ full' \in BOOLEAN
  BY <1>1, <1>2 DEF BufferInv
<1>4. Len(Out!String) = IF full THEN TailAt + Len(tail) ELSE Len(head)
  BY <1>1, StringIs
<1>5. Len(Out!String)' = IF full' THEN TailAt' + Len(tail') ELSE Len(head')
  <2>1. (BufferInv => Len(Out!String) = IF full THEN TailAt + Len(tail) ELSE Len(head))'
    BY StringIs, PTL
  <2>2. QED
    BY <1>2, <2>1
<1>6. Out!Digits(truncated) \in Nat /\ Out!Digits(truncated') \in Nat /\ Out!Digits(truncated') >= 1
      /\ (truncated <= truncated' => Out!Digits(truncated) <= Out!Digits(truncated'))
  BY <1>3, DigitsAre
<1>7. TailAt = Len(head) + Out!Digits(truncated) /\ TailAt' = Len(head') + Out!Digits(truncated')
  BY DEF TailAt
<1>8. Len(Out!String) <= Len(Out!String)' /\ Len(Out!String) \in Nat
  <2>1. CASE full
    BY <1>2, <1>3, <1>4, <1>5, <1>6, <1>7, <2>1
  <2>2. CASE ~full /\ ~full'
    BY <1>2, <1>3, <1>4, <1>5, <2>2
  <2>3. CASE ~full /\ full'
    BY <1>2, <1>3, <1>4, <1>5, <1>6, <1>7, <2>3, SMTT(20)
  <2>4. QED
    BY <1>3, <2>1, <2>2, <2>3
<1>9. readOffset \in Nat /\ readOffset <= Len(Out!String) /\ readOffset' = readOffset /\ seen' = seen
  BY <1>1, <1>2 DEF ReaderInv
<1>10. ASSUME NEW i \in 1..Len(head'), i <= readOffset PROVE i \in seen
  <2>1. CASE i <= Len(head)
    BY <1>1, <1>3, <1>10, <2>1 DEF ReaderInv
  <2>2. CASE i > Len(head)
    <3>1. ~full /\ readOffset <= Len(head)
      BY <1>2, <1>3, <1>4, <1>9, <1>10, <2>2
    <3>2. QED
      BY <1>3, <1>9, <1>10, <2>2, <3>1
  <2>3. QED
    BY <1>3, <2>1, <2>2
<1>11. ASSUME full', NEW i \in 1..Len(tail'), TailAt' + i <= readOffset PROVE tail'[i] \in seen
  <2>1. CASE full
    <3>1. TailAt + i <= readOffset /\ i \in 1..Len(tail)
      BY <1>2, <1>3, <1>6, <1>7, <1>9, <1>11, <2>1, SMTT(20)
    <3>2. QED
      BY <1>1, <1>2, <2>1, <3>1 DEF ReaderInv
  <2>2. CASE ~full
    BY <1>2, <1>3, <1>4, <1>6, <1>7, <1>9, <1>11, <2>2
  <2>3. QED
    BY <2>1, <2>2
<1>12. readOffset <= Len(Out!String)'
  BY <1>5, <1>8, <1>9, <1>3, <1>6, <1>7, SMTT(20)
<1>13. QED
  BY <1>1, <1>2, <1>9, <1>10, <1>11, <1>12 DEF ReaderInv

\* One Output call: the rest of the text, and then all that is held was read.
LEMMA BytesAre ==
    ASSUME BufferInv
    PROVE  /\ \A i \in DOMAIN Out!String : Out!String[i] = Out!Mark \/ Out!String[i] \in Held
           /\ \A b \in Held : b \in Nat /\ b # Out!Mark
<1>1. /\ written \in Nat /\ truncated \in Nat /\ full \in BOOLEAN
      /\ Len(head) \in Nat /\ Len(tail) \in Nat
  BY DEF BufferInv
<1>2. Out!Digits(truncated) \in Nat /\ TailAt = Len(head) + Out!Digits(truncated)
  BY <1>1, DigitsAre DEF TailAt
<1>3. /\ DOMAIN Out!String = 1..Len(Out!String)
      /\ Len(Out!String) = IF full THEN TailAt + Len(tail) ELSE Len(head)
      /\ \A i \in 1..Len(head) : Out!String[i] = i
      /\ full => /\ \A i \in 1..Out!Digits(truncated) : Out!String[Len(head) + i] = Out!Mark
                 /\ \A i \in 1..Len(tail) : Out!String[TailAt + i] = tail[i]
  <2>1. Out!String \in Seq(Nat) => DOMAIN Out!String = 1..Len(Out!String)
    OBVIOUS
  <2>2. QED
    BY <2>1, StringIs, Zenon
<1>4. ASSUME NEW i \in 1..Len(Out!String) PROVE Out!String[i] = Out!Mark \/ Out!String[i] \in Held
  <2>1. CASE i \in 1..Len(head)
    BY <1>3, <2>1 DEF Held
  <2>2. CASE full /\ i > Len(head) /\ i <= TailAt
    <3>1. i - Len(head) \in 1..Out!Digits(truncated) /\ i = Len(head) + (i - Len(head))
      BY <1>1, <1>2, <1>4, <2>2
    <3>2. QED
      BY <1>3, <2>2, <3>1
  <2>3. CASE full /\ i > TailAt
    <3>1. i - TailAt \in 1..Len(tail) /\ i = TailAt + (i - TailAt)
      BY <1>1, <1>2, <1>3, <1>4, <2>3, SMTT(20)
    <3>2. QED
      BY <1>3, <2>3, <3>1 DEF Held
  <2>4. QED
    BY <1>1, <1>2, <1>3, <1>4, <2>1, <2>2, <2>3
<1>5. ASSUME NEW b \in Held PROVE b \in Nat /\ b # Out!Mark
  <2>1. CASE b \in 1..Len(head)
    BY <2>1 DEF Out!Mark
  <2>2. CASE \E i \in 1..Len(tail) : b = tail[i]
    <3>1. full
      BY <1>1, <2>2 DEF BufferInv
    <3>2. PICK base \in Nat : \A i \in 1..Len(tail) : tail[i] = base + i
      BY <3>1 DEF BufferInv
    <3>3. QED
      BY <1>1, <2>2, <3>2 DEF Out!Mark
  <2>3. QED
    BY <2>1, <2>2 DEF Held
<1>6. QED
  BY <1>3, <1>4, <1>5

LEMMA OutputKeeps ==
    ASSUME PollInv, Out!Output, UNCHANGED vars
    PROVE  ReaderInv'
<1> DEFINE L == Len(Out!String)
           text == SubSeq(Out!String, readOffset + 1, L)
<1>1. BufferInv /\ ReaderInv /\ JobInv
  BY DEF PollInv
<1>2. /\ readOffset' = L
      /\ seen' = seen \cup Out!BytesOf(text)
      /\ resultRead' = (resultRead \/ Out!ResultDue(text))
      /\ shown' = IF Out!ResultDue(text) /\ shown < 2 THEN shown + 1 ELSE shown
      /\ over' = (over \/ (PolledStatus = "ended" /\ text = <<>> /\ ~Out!ResultDue(text)))
      /\ UNCHANGED <<written, head, tail, full, truncated, answer>>
  BY DEF Out!Output, Out!bufferVars, Out!jobVars
<1>3. PolledStatus' = PolledStatus /\ HasPublished' = HasPublished
  BY DEF vars, jobVars, PolledStatus, HasPublished
<1>4. Out!String' = Out!String /\ Held' = Held /\ TailAt' = TailAt
  BY <1>2 DEF Out!String, Held, TailAt
<1>5. /\ Len(head) \in Nat /\ Len(tail) \in Nat /\ TailAt \in Nat /\ L \in Nat
      /\ Out!String \in Seq(Nat) /\ DOMAIN Out!String = 1..L
      /\ L = IF full THEN TailAt + Len(tail) ELSE Len(head)
      /\ Len(head) <= TailAt
  <2>0. truncated \in Nat /\ head \in Seq(Nat) /\ tail \in Seq(Nat)
    BY <1>1 DEF BufferInv
  <2>1. Len(head) \in Nat /\ Len(tail) \in Nat /\ Out!Digits(truncated) \in Nat
    BY <2>0, DigitsAre
  <2>2. Out!String \in Seq(Nat) => DOMAIN Out!String = 1..Len(Out!String) /\ Len(Out!String) \in Nat
    OBVIOUS
  <2>3. TailAt \in Nat /\ Len(head) <= TailAt
    BY <2>1 DEF TailAt
  <2>4. QED
    BY <1>1, <2>1, <2>2, <2>3, StringIs, Zenon
<1>6. readOffset \in Nat /\ readOffset <= L
  BY <1>1 DEF ReaderInv
<1>7. /\ Len(text) = L - readOffset /\ DOMAIN text = 1..(L - readOffset)
      /\ \A i \in 1..(L - readOffset) : text[i] = Out!String[readOffset + i]
  <2>1. Out!String \in Seq(Nat) /\ readOffset + 1 \in Nat \ {0}
    BY <1>5, <1>6
  <2> DEFINE s == Out!String
  <2> HIDE DEF s
  <2>2. s \in Seq(Nat) /\ L = Len(s)
    BY <2>1 DEF s
  <2>3. QED
    BY <1>5, <1>6, <2>2, SMTT(20) DEF s
<1> HIDE DEF L, text
<1>8. ASSUME NEW k \in (readOffset + 1)..L, Out!String[k] # Out!Mark PROVE Out!String[k] \in Out!BytesOf(text)
  <2>1. k - readOffset \in 1..(L - readOffset) /\ readOffset + (k - readOffset) = k
    BY <1>5, <1>6
  <2>2. text[k - readOffset] = Out!String[k] /\ k - readOffset \in DOMAIN text
    BY <1>7, <2>1
  <2>3. QED
    BY <1>8, <2>2 DEF Out!BytesOf
<1>9. Out!BytesOf(text) \subseteq Held
  <2>1. ASSUME NEW i \in DOMAIN text, text[i] # Out!Mark PROVE text[i] \in Held
    <3>1. text[i] = Out!String[readOffset + i] /\ readOffset + i \in DOMAIN Out!String
      BY <1>5, <1>6, <1>7, SMTT(20)
    <3>2. QED
      BY <1>1, <2>1, <3>1, BytesAre
  <2>2. QED
    BY <2>1 DEF Out!BytesOf
<1>10. ASSUME NEW i \in 1..Len(head) PROVE i \in seen'
  <2>1. CASE i <= readOffset
    BY <1>1, <1>2, <2>1 DEF ReaderInv
  <2>2. CASE i > readOffset
    <3>1. i \in (readOffset + 1)..L
      BY <1>5, <1>6, <2>2
    <3>2. Out!String[i] = i /\ i # Out!Mark
      BY <1>1, StringIs DEF Out!Mark
    <3>3. QED
      BY <1>2, <1>8, <3>1, <3>2
  <2>3. QED
    BY <1>5, <1>6, <2>1, <2>2
<1>11. ASSUME NEW i \in 1..Len(tail) PROVE tail[i] \in seen'
  <2>0. full /\ tail[i] \in Held
    BY <1>1, <1>5, SMTT(20) DEF BufferInv, Held
  <2>1. CASE TailAt + i <= readOffset
    BY <1>1, <1>2, <2>0, <2>1 DEF ReaderInv
  <2>2. CASE TailAt + i > readOffset
    <3>1. TailAt + i \in (readOffset + 1)..L
      BY <1>5, <1>6, <2>0, <2>2
    <3>2. Out!String[TailAt + i] = tail[i] /\ tail[i] # Out!Mark
      BY <1>1, <2>0, StringIs, BytesAre
    <3>3. QED
      BY <1>2, <1>8, <3>1, <3>2
  <2>3. QED
    BY <1>5, <1>6, <2>1, <2>2
<1>12. seen' = Held
  BY <1>1, <1>2, <1>9, <1>10, <1>11 DEF Held, ReaderInv
<1>13. /\ shown' \in {0, 1} /\ resultRead' \in BOOLEAN /\ over' \in BOOLEAN
       /\ resultRead' <=> shown' = 1
  <2>1. shown \in {0, 1} /\ resultRead \in BOOLEAN /\ over \in BOOLEAN /\ (resultRead <=> shown = 1)
    BY <1>1 DEF ReaderInv
  <2>2. Out!ResultDue(text) => ~resultRead
    BY DEF Out!ResultDue
  <2>3. shown' \in {0, 1} /\ (shown' = 1 <=> (shown = 1 \/ Out!ResultDue(text)))
    BY <1>2, <2>1, <2>2
  <2>4. Out!ResultDue(text) \in BOOLEAN
    BY DEF Out!ResultDue
  <2>5. QED
    BY <1>2, <2>1, <2>3, <2>4
<1>14. ASSUME over' PROVE PolledStatus = "ended" /\ HasPublished /\ (answer => resultRead')
  <2>1. CASE over
    BY <1>1, <1>2, <2>1 DEF ReaderInv
  <2>2. CASE PolledStatus = "ended" /\ text = <<>> /\ ~Out!ResultDue(text)
    <3>1. HasPublished
      BY <1>1, <2>2, EndedHasPublished
    <3>2. answer => resultRead
      BY <2>2 DEF Out!ResultDue
    <3>3. QED
      BY <1>2, <2>2, <3>1, <3>2
  <2>3. QED
    BY <1>2, <1>14, <2>1, <2>2
<1>15. readOffset' \in Nat /\ readOffset' <= Len(Out!String)'
  BY <1>2, <1>4, <1>5 DEF L
<1>16. QED
  BY <1>2, <1>3, <1>4, <1>10, <1>11, <1>12, <1>13, <1>14, <1>15 DEF ReaderInv

\* A step of the manager that tells the job's end, or none.
LEMMA FollowKeeps ==
    ASSUME PollInv, Out!Kill \/ Out!End \/ (PolledStatus' = PolledStatus /\ HasPublished' = HasPublished /\ UNCHANGED outVars)
    PROVE  BufferInv' /\ ReaderInv'
<1>1. UNCHANGED <<written, head, tail, full, truncated, readOffset, resultRead, seen, shown, over>>
  BY DEF Out!Kill, Out!End, Out!bufferVars, Out!readVars, outVars
<1>2. Out!String' = Out!String /\ Held' = Held /\ TailAt' = TailAt
  BY <1>1 DEF Out!String, Held, TailAt
<1>3. over' => PolledStatus' = "ended" /\ HasPublished' /\ answer' = answer
  <2>1. over => PolledStatus = "ended" /\ HasPublished
    BY DEF PollInv, ReaderInv
  <2>2. QED
    BY <1>1, <2>1 DEF Out!Kill, Out!End, outVars
<1>4. BufferInv'
  BY <1>1 DEF PollInv, BufferInv
<1>5. QED
  BY <1>1, <1>2, <1>3, <1>4 DEF PollInv, ReaderInv

\* A reader that polls to the end has seen everything that was not counted as
\* truncated and, once, the result, whatever Kill, Close and the job's end do
\* meanwhile.
THEOREM PolledCorrect == AllSpec => []PolledToTheEnd
<1>1. AllInit => PollInv
  <2>1. SUFFICES ASSUME AllInit PROVE PollInv
    OBVIOUS
  <2>2. JobInv
    BY <2>1, JobInvInit DEF AllInit
  <2>3. /\ written = 0 /\ head = <<>> /\ tail = <<>> /\ full = FALSE /\ truncated = 0 /\ readOffset = 0
        /\ answer = FALSE /\ resultRead = FALSE /\ seen = {} /\ shown = 0 /\ over = FALSE
    BY <2>1 DEF AllInit, Out!Init
  <2>4. BufferInv
    <3>1. <<>> \in Seq(Nat) /\ Len(<<>>) = 0
      OBVIOUS
    <3>2. head \in Seq(Nat) /\ tail \in Seq(Nat) /\ Len(head) = 0 /\ Len(tail) = 0
      BY <2>3, <3>1, Zenon
    <3>3. written = 0 /\ truncated = 0 /\ ~full /\ full \in BOOLEAN /\ tail = <<>>
      BY <2>3, Zenon
    <3>4. QED
      BY <3>2, <3>3 DEF BufferInv
  <2>5. Len(Out!String) = 0 /\ Len(head) = 0
    BY <2>3 DEF Out!String
  <2>6. QED
    <3>1. readOffset = 0 /\ seen = {} /\ shown = 0 /\ ~resultRead /\ ~over /\ ~full
          /\ resultRead \in BOOLEAN /\ over \in BOOLEAN
      BY <2>3, Zenon
    <3>2. ReaderInv
      BY <2>5, <3>1 DEF ReaderInv
    <3>3. QED
      BY <2>2, <2>4, <3>2 DEF PollInv
<1>2. PollInv /\ [AllNext]_allVars => PollInv'
  <2>1. SUFFICES ASSUME PollInv, [AllNext]_allVars PROVE PollInv'
    OBVIOUS
  <2>2. [Next]_vars
    BY <2>1 DEF AllNext, Manage, JobWrites, Poll, allVars
  <2>3. JobInv'
    BY <2>1, <2>2, JobInvStep DEF PollInv
  <2>4. CASE Manage
    BY <2>1, <2>3, <2>4, FollowKeeps DEF Manage, OutputFollows, PollInv
  <2>5. CASE JobWrites
    <3>1. PICK n \in Nat \ {0} : Out!Write(n)
      BY <2>5, BoundsAssumption DEF JobWrites
    <3>2. UNCHANGED vars
      BY <2>5 DEF JobWrites
    <3>3. BufferInv' /\ ReaderInv'
      BY <2>1, <3>1, <3>2, WriteIs, WriteKeeps DEF PollInv
    <3>4. QED
      BY <2>3, <3>3 DEF PollInv
  <2>6. CASE Poll
    <3>1. ReaderInv'
      BY <2>1, <2>6, OutputKeeps DEF Poll
    <3>2. BufferInv'
      BY <2>1, <2>6 DEF Poll, Out!Output, Out!bufferVars, PollInv, BufferInv
    <3>3. QED
      BY <2>3, <3>1, <3>2 DEF PollInv
  <2>7. CASE UNCHANGED allVars
    <3>1. UNCHANGED outVars /\ PolledStatus' = PolledStatus /\ HasPublished' = HasPublished
      BY <2>7 DEF allVars, vars, jobVars, PolledStatus, HasPublished
    <3>2. QED
      BY <2>1, <2>3, <3>1, FollowKeeps DEF PollInv
  <2>8. QED
    BY <2>1, <2>4, <2>5, <2>6, <2>7 DEF AllNext
<1>3. PollInv => PolledToTheEnd
  <2>0. \A S : Out!Cardinality(S) = Cardinality(S)
    BY DEF Cardinality, Out!Cardinality
  <2>1. SUFFICES ASSUME PollInv, over PROVE Cardinality(seen) + truncated = written /\ (answer => shown = 1)
    BY <2>0, Zenon DEF PolledToTheEnd, Out!ReadToTheEnd
  <2>2. seen = Held /\ (answer => shown = 1)
    BY <2>1 DEF PollInv, ReaderInv
  <2>3. QED
    BY <2>1, <2>2, HeldIs DEF PollInv
<1>4. QED
  BY <1>1, <1>2, <1>3, PTL DEF AllSpec

-----------------------------------------------------------------------------
(* Lists of tasks and their instants.                                      *)

LEMMA LeastExists ==
    ASSUME NEW S \in SUBSET Nat, S # {}
    PROVE  \E n \in S : \A k \in S : n <= k
<1>1. PICK n \in S : \A m \in S : ~ (<<m, n>> \in OpToRel(<, Nat))
  BY WFMin, NatLessThanWellFounded, Zenon
<1>2. \A m \in S : <<m, n>> \in Nat \X Nat
  OBVIOUS
<1>3. \A m \in S : ~(m < n)
  BY <1>1, <1>2, Zenon DEF OpToRel
<1>4. QED
  BY <1>3

\* The timer is set for the first task that is scheduled, if there is one.
LEMMA NearestIs ==
    ASSUME NEW list \in Seq(Tasks)
    PROVE  /\ Nearest(list) \in Nat
           /\ \A i \in DOMAIN list : Scheduled(list[i]) =>
                Nearest(list) # Never /\ Nearest(list) <= list[i].nextRun
<1> DEFINE S == {k \in DOMAIN list : Scheduled(list[k])}
           times == {list[i].nextRun : i \in S}
<1>1. \A i \in DOMAIN list : list[i].nextRun \in Nat
  <2>1. \A i \in DOMAIN list : list[i] \in Tasks
    OBVIOUS
  <2>2. QED
    BY <2>1 DEF Tasks
<1>2. times \in SUBSET Nat /\ \A t \in times : t # Never
  BY <1>1 DEF Scheduled
<1>3. CASE times = {}
  <2>1. Nearest(list) = Never /\ S = {}
    BY <1>3, Zenon DEF Nearest
  <2>2. QED
    BY <2>1 DEF Never
<1>4. CASE times # {}
  <2>1. \E t \in times : \A u \in times : t <= u
    BY <1>2, <1>4, LeastExists, Zenon
  <2>2. Nearest(list) = CHOOSE t \in times : \A u \in times : t <= u
    BY <1>4, Zenon DEF Nearest
  <2>3. Nearest(list) \in times /\ \A u \in times : Nearest(list) <= u
    BY <2>1, <2>2, Zenon
  <2>4. QED
    BY <1>2, <2>3
<1>5. QED
  BY <1>3, <1>4

LEMMA ReplaceIs ==
    ASSUME NEW list \in Seq(Tasks), NEW i \in DOMAIN list, NEW t \in Tasks
    PROVE  /\ [list EXCEPT ![i] = t] \in Seq(Tasks)
           /\ Len([list EXCEPT ![i] = t]) = Len(list)
           /\ DOMAIN [list EXCEPT ![i] = t] = DOMAIN list
           /\ \A k \in DOMAIN list : [list EXCEPT ![i] = t][k] = IF k = i THEN t ELSE list[k]
OBVIOUS

LEMMA RemoveIs ==
    ASSUME NEW list \in Seq(Tasks), NEW i \in DOMAIN list
    PROVE  /\ Remove(list, i) \in Seq(Tasks)
           /\ \A k \in DOMAIN Remove(list, i) : \E m \in DOMAIN list : Remove(list, i)[k] = list[m]
<1> DEFINE a == SubSeq(list, 1, i - 1)
           b == SubSeq(list, i + 1, Len(list))
<1>1. i \in 1..Len(list) /\ Len(list) \in Nat
  OBVIOUS
<1>2. a \in Seq(Tasks) /\ Len(a) = i - 1 /\ \A k \in 1..(i - 1) : a[k] = list[k]
  BY <1>1
<1>3. b \in Seq(Tasks) /\ Len(b) = Len(list) - i /\ \A k \in 1..(Len(list) - i) : b[k] = list[i + k]
  BY <1>1
<1> HIDE DEF a, b
<1>4. a \o b \in Seq(Tasks) /\ Len(a \o b) = Len(list) - 1
  BY <1>1, <1>2, <1>3
<1>5. ASSUME NEW k \in 1..(Len(list) - 1) PROVE \E m \in DOMAIN list : (a \o b)[k] = list[m]
  <2>1. CASE k <= i - 1
    <3>1. (a \o b)[k] = a[k]
      BY <1>1, <1>2, <1>3, <2>1
    <3>2. QED
      BY <1>1, <1>2, <2>1, <3>1
  <2>2. CASE k > i - 1
    <3>1. (a \o b)[k] = b[k - (i - 1)]
      <4>1. k \in Nat /\ k > Len(a) /\ k <= Len(a) + Len(b)
        BY <1>1, <1>2, <1>3, <2>2
      <4>2. (a \o b)[k] = b[k - Len(a)]
        <5>1. \A m \in 1..(Len(a) + Len(b)) : (a \o b)[m] = IF m <= Len(a) THEN a[m] ELSE b[m - Len(a)]
          BY <1>2, <1>3, ConcatProperties
        <5>2. k \in 1..(Len(a) + Len(b)) /\ ~(k <= Len(a))
          BY <1>1, <1>2, <1>3, <4>1
        <5>3. QED
          BY <5>1, <5>2, Zenon
      <4>3. QED
        BY <1>2, <4>2
    <3>2. b[k - (i - 1)] = list[k + 1] /\ k + 1 \in DOMAIN list
      BY <1>1, <1>3, <2>2
    <3>3. QED
      BY <3>1, <3>2
  <2>3. k <= i - 1 \/ k > i - 1
    BY <1>1
  <2>4. QED
    BY <2>1, <2>2, <2>3, Zenon
<1>6. Remove(list, i) = a \o b
  BY DEF Remove, a, b
<1>7. DOMAIN (a \o b) = 1..(Len(list) - 1)
  BY <1>4
<1>8. QED
  BY <1>4, <1>5, <1>6, <1>7

LEMMA AppendIs ==
    ASSUME NEW list \in Seq(Tasks), NEW t \in Tasks
    PROVE  /\ Append(list, t) \in Seq(Tasks)
           /\ \A k \in DOMAIN Append(list, t) :
                \/ Append(list, t)[k] = t
                \/ k \in DOMAIN list /\ Append(list, t)[k] = list[k]
<1> DEFINE new == Append(list, t)
<1>1. Len(list) \in Nat /\ new \in Seq(Tasks) /\ Len(new) = Len(list) + 1 /\ new[Len(list) + 1] = t
      /\ \A k \in 1..Len(list) : new[k] = list[k]
  OBVIOUS
<1> HIDE DEF new
<1>2. DOMAIN new = 1..(Len(list) + 1) /\ DOMAIN list = 1..Len(list)
  BY <1>1
<1>3. \A k \in DOMAIN new : k = Len(list) + 1 \/ k \in DOMAIN list
  BY <1>1, <1>2
<1>4. \A k \in DOMAIN list : new[k] = list[k]
  BY <1>1, <1>2
<1>5. \A k \in DOMAIN new : new[k] = t \/ (k \in DOMAIN list /\ new[k] = list[k])
  BY <1>1, <1>3, <1>4, Zenon
<1>6. QED
  BY <1>1, <1>5 DEF new

LEMMA NextRunIs == \A e \in Expressions, t \in Nat : NextRun(e, t) \in Nat
<1>1. \A e \in Expressions : e.arg \in Nat
  <2>1. \A e \in Expressions : e.arg \in 1..MaxTime \/ e.arg \in 0..MaxInterval
    BY DEF Expressions
  <2>2. QED
    BY <2>1, ClockAssumption
<1>2. QED
  BY <1>1 DEF NextRun, Never

\* What the operations make of an entry is an entry, of the same task.
LEMMA EntryIs ==
    ASSUME NEW t \in Tasks, now \in Nat
    PROVE  /\ Rescheduled(t) \in Tasks /\ Rescheduled(t).id = t.id /\ Rescheduled(t).runCount = t.runCount + 1
           /\ Reloaded(t) \in Tasks /\ Reloaded(t).id = t.id /\ Reloaded(t).runCount = t.runCount
           /\ Retyped(t) \in Tasks /\ Retyped(t).id = t.id /\ Retyped(t).runCount = t.runCount
           /\ \A e \in Expressions, on \in BOOLEAN :
                Edited(t, e, on) \in Tasks /\ Edited(t, e, on).id = t.id /\ Edited(t, e, on).runCount = t.runCount
<1>1. t.id \in Ids /\ t.expr \in Expressions /\ t.oneShot \in BOOLEAN /\ t.enabled \in BOOLEAN
      /\ t.nextRun \in Nat /\ t.runCount \in Nat
  BY DEF Tasks
<1>2. t.expr.oneShot \in BOOLEAN
  BY <1>1 DEF Expressions
<1>3. NextRun(t.expr, now) \in Nat /\ Never \in Nat
  BY <1>1, NextRunIs DEF Never
<1>4. Rescheduled(t) \in Tasks /\ Rescheduled(t).id = t.id /\ Rescheduled(t).runCount = t.runCount + 1
  <2>1. t.runCount + 1 \in Nat
    BY <1>1
  <2>2. CASE t.oneShot
    <3>1. Rescheduled(t) = [t EXCEPT !.runCount = t.runCount + 1, !.enabled = FALSE, !.nextRun = Never]
      BY <2>2, Zenon DEF Rescheduled
    <3>2. [t EXCEPT !.runCount = t.runCount + 1, !.enabled = FALSE, !.nextRun = Never] \in Tasks
      BY <1>3, <2>1 DEF Tasks
    <3>3. Rescheduled(t).id = t.id /\ Rescheduled(t).runCount = t.runCount + 1
      BY <3>1 DEF Tasks
    <3>4. QED
      BY <3>1, <3>2, <3>3
  <2>3. CASE ~t.oneShot
    <3>1. Rescheduled(t) = [t EXCEPT !.runCount = t.runCount + 1, !.nextRun = NextRun(t.expr, now)]
      BY <2>3, Zenon DEF Rescheduled
    <3>2. [t EXCEPT !.runCount = t.runCount + 1, !.nextRun = NextRun(t.expr, now)] \in Tasks
      BY <1>3, <2>1 DEF Tasks
    <3>3. Rescheduled(t).id = t.id /\ Rescheduled(t).runCount = t.runCount + 1
      BY <3>1 DEF Tasks
    <3>4. QED
      BY <3>1, <3>2, <3>3
  <2>4. QED
    BY <2>2, <2>3
<1>5. Reloaded(t) \in Tasks /\ Reloaded(t).id = t.id /\ Reloaded(t).runCount = t.runCount
  BY <1>1, <1>3 DEF Reloaded, Tasks
<1>6. Retyped(t) \in Tasks /\ Retyped(t).id = t.id /\ Retyped(t).runCount = t.runCount
  BY <1>1, <1>2 DEF Retyped, Tasks
<1>7. ASSUME NEW e \in Expressions, NEW on \in BOOLEAN
      PROVE  Edited(t, e, on) \in Tasks /\ Edited(t, e, on).id = t.id /\ Edited(t, e, on).runCount = t.runCount
  BY <1>1 DEF Edited, Tasks
<1>8. QED
  BY <1>4, <1>5, <1>6, <1>7

\* An edit that is accepted, and one that is not.
AcceptedEdit(t, e, on) == [Retyped(Edited(t, e, on)) EXCEPT !.nextRun = IF on THEN NextRun(e, now) ELSE Never]
RefusedEdit(t, e, on) == IF Valid(e) THEN Retyped(Edited(t, e, on)) ELSE Edited(t, e, on)

LEMMA EditIs ==
    ASSUME NEW t \in Tasks, now \in Nat, NEW e \in Expressions, NEW on \in BOOLEAN
    PROVE  /\ AcceptedEdit(t, e, on) \in Tasks /\ AcceptedEdit(t, e, on).id = t.id
           /\ AcceptedEdit(t, e, on).runCount = t.runCount
           /\ RefusedEdit(t, e, on) \in Tasks /\ RefusedEdit(t, e, on).id = t.id
           /\ RefusedEdit(t, e, on).runCount = t.runCount
<1> DEFINE u == Edited(t, e, on)
           v == Retyped(u)
<1>1. u \in Tasks /\ u.id = t.id /\ u.runCount = t.runCount
  BY EntryIs
<1>2. v \in Tasks /\ v.id = t.id /\ v.runCount = t.runCount
  <2> HIDE DEF u
  <2>1. QED
    BY <1>1, EntryIs DEF v
<1>3. RefusedEdit(t, e, on) \in {u, v}
  BY DEF RefusedEdit
<1>4. NextRun(e, now) \in Nat /\ Never \in Nat
  BY NextRunIs DEF Never
<1> DEFINE n == IF on THEN NextRun(e, now) ELSE Never
<1>5. AcceptedEdit(t, e, on) = [v EXCEPT !.nextRun = n]
  BY DEF AcceptedEdit
<1>6. n \in Nat
  BY <1>4
<1> HIDE DEF u, v, n
<1>7. [v EXCEPT !.nextRun = n] \in Tasks /\ [v EXCEPT !.nextRun = n].id = v.id
      /\ [v EXCEPT !.nextRun = n].runCount = v.runCount
  BY <1>2, <1>6 DEF Tasks
<1>8. QED
  BY <1>1, <1>2, <1>3, <1>5, <1>7

-----------------------------------------------------------------------------
(* Types.                                                                  *)

\* A goroutine that runs a task has its index, and the process that is down, or
\* has yet to save what it loaded, has no timer.
SchedTyped ==
    /\ SchedTypeOK
    /\ \A f \in Firings : firePC[f] \in {"run", "record"} => due[f] # {}
    /\ phase # "up" => ~running

LEMMA IndexIs ==
    ASSUME SchedTypeOK, NEW f \in Firings, due[f] # {}
    PROVE  Index(f) \in due[f] /\ Index(f) \in Nat \ {0} /\ \A k \in due[f] : Index(f) <= k
<1>1. due[f] \in SUBSET Nat /\ due[f] \subseteq Nat \ {0}
  BY DEF SchedTypeOK
<1>2. \E i \in due[f] : \A k \in due[f] : i <= k
  BY <1>1, LeastExists, Zenon
<1>3. Index(f) \in due[f] /\ \A k \in due[f] : Index(f) <= k
  BY <1>2, Zenon DEF Index
<1>4. QED
  BY <1>1, <1>3

LEMMA TimesAre == SchedTypeOK => now \in Nat /\ now \in 1..MaxTime /\ Never \in Nat /\ MaxTime \in Nat
<1>1. SUFFICES ASSUME SchedTypeOK PROVE now \in Nat /\ now \in 1..MaxTime /\ Never \in Nat /\ MaxTime \in Nat
  OBVIOUS
<1>2. now \in 1..MaxTime
  BY <1>1 DEF SchedTypeOK
<1>3. QED
  BY <1>2, ClockAssumption DEF Never

\* What the end of a run, by the timer or by hand, does to the list.
LEMMA RecordIs ==
    ASSUME SchedTyped, NEW f \in Firings, Record(f)
    PROVE  \/ UNCHANGED <<tasks, disk, refused>>
           \/ \E idx \in DOMAIN tasks :
                /\ tasks[idx].id = snap[f].id
                /\ tasks' = [tasks EXCEPT ![idx] = Rescheduled(tasks[idx])]
                /\ disk' = tasks' /\ refused' = Settled
<1>1. firePC[f] = "record"
  BY DEF Record, At
<1>2. SchedTypeOK /\ Index(f) \in Nat \ {0}
  BY <1>1, IndexIs DEF SchedTyped
<1>3. CASE ~SameEntry(f, Index(f))
  BY <1>3 DEF Record
<1>4. CASE SameEntry(f, Index(f))
  <2>1. Index(f) <= Len(tasks) /\ tasks[Index(f)].id = snap[f].id
    BY <1>4 DEF SameEntry
  <2>2. Index(f) \in DOMAIN tasks
    <3>1. tasks \in Seq(Tasks)
      BY <1>2 DEF SchedTypeOK
    <3>2. QED
      BY <1>2, <2>1, <3>1
  <2>3. Save([tasks EXCEPT ![Index(f)] = Rescheduled(@)])
    BY <1>4 DEF Record
  <2>4. QED
    BY <2>1, <2>2, <2>3 DEF Save
<1>5. QED
  BY <1>3, <1>4

Counted(t) == [t EXCEPT !.runCount = @ + 1]

LEMMA EndRunNowIs ==
    ASSUME EndRunNow
    PROVE  \/ UNCHANGED <<tasks, disk, refused>>
           \/ \E i \in DOMAIN tasks :
                /\ tasks[i].id = manual
                /\ tasks' = [tasks EXCEPT ![i] = Counted(tasks[i])]
                /\ disk' = tasks' /\ refused' = Settled
<1>1. CASE manual \notin Listed
  BY <1>1 DEF EndRunNow
<1>2. CASE manual \in Listed
  <2>1. PICK i \in Positions(manual) : Save([tasks EXCEPT ![i].runCount = @ + 1])
    BY <1>2 DEF EndRunNow
  <2>2. i \in DOMAIN tasks /\ tasks[i].id = manual
    BY DEF Positions
  <2>3. [tasks EXCEPT ![i].runCount = @ + 1] = [tasks EXCEPT ![i] = Counted(tasks[i])]
    BY DEF Counted
  <2>4. QED
    BY <2>1, <2>2, <2>3 DEF Save
<1>3. QED
  BY <1>1, <1>2

\* What an edit does.
LEMMA UpdateIs ==
    ASSUME NEW id \in Ids, NEW e \in Expressions, NEW on \in BOOLEAN, Update(id, e, on)
    PROVE  \E i \in DOMAIN tasks :
             /\ tasks[i].id = id
             /\ \/ LET t == AcceptedEdit(tasks[i], e, on)
                   IN  /\ SaveAccepted(i, t) /\ ArmTimer(tasks')
                       /\ served' = [served EXCEPT ![id] = Accepted(t)]
                \/ /\ tasks' = [tasks EXCEPT ![i] = RefusedEdit(tasks[i], e, on)]
                   /\ disk' = disk /\ refused' = [refused EXCEPT ![id] = "unsaved"]
                   /\ UNCHANGED <<timer, served>>
<1>1. CASE UpdateAccepted(id, e, on)
  BY <1>1, Zenon DEF UpdateAccepted, Positions, AcceptedEdit
<1>2. CASE UpdateRefused(id, e, on)
  <2>1. PICK i \in Positions(id) :
          tasks' = [tasks EXCEPT ![i] = IF Valid(e) THEN Retyped(Edited(tasks[i], e, on)) ELSE Edited(tasks[i], e, on)]
    BY <1>2 DEF UpdateRefused
  <2>2. i \in DOMAIN tasks /\ tasks[i].id = id
    BY DEF Positions
  <2>3. tasks' = [tasks EXCEPT ![i] = RefusedEdit(tasks[i], e, on)]
    BY <2>1, Zenon DEF RefusedEdit
  <2>4. QED
    BY <1>2, <2>2, <2>3 DEF UpdateRefused
<1>3. QED
  BY <1>1, <1>2 DEF Update

Fresh(id, e) == [id |-> id, expr |-> e, oneShot |-> e.oneShot, enabled |-> TRUE,
                 nextRun |-> NextRun(e, now), runCount |-> 0]

LEMMA FreshIs ==
    ASSUME SchedTypeOK, NEW id \in Ids, NEW e \in Expressions
    PROVE  Fresh(id, e) \in Tasks
<1>1. NextRun(e, now) \in Nat
  BY TimesAre, NextRunIs
<1>2. e.oneShot \in BOOLEAN
  BY DEF Expressions
<1>3. QED
  BY <1>1, <1>2 DEF Fresh, Tasks

LEMMA CreateIs ==
    ASSUME NEW id \in Ids, NEW e \in Expressions, Create(id, e)
    PROVE  /\ tasks' = Append(tasks, Fresh(id, e)) /\ disk' = tasks' /\ refused' = Settled
           /\ served' = [served EXCEPT ![id] = Accepted(Fresh(id, e))]
           /\ ArmTimer(tasks')
BY Zenon DEF Create, Fresh, Save

LEMMA DeleteIs ==
    ASSUME NEW id \in Ids, Delete(id)
    PROVE  /\ \E i \in DOMAIN tasks : tasks' = Remove(tasks, i)
           /\ disk' = tasks' /\ refused' = Settled /\ ArmTimer(tasks')
BY DEF Delete, Positions, Save

LEMMA LoadIs ==
    ASSUME SchedTypeOK, Load
    PROVE  /\ tasks' \in Seq(Tasks) /\ DOMAIN tasks' = DOMAIN disk
           /\ \A i \in DOMAIN disk : tasks'[i] = Reloaded(disk[i])
           /\ missed' \subseteq Ids
<1>1. tasks' = [i \in DOMAIN disk |-> Reloaded(disk[i])]
  BY DEF Load
<1>2. disk \in Seq(Tasks) /\ DOMAIN disk = 1..Len(disk) /\ Len(disk) \in Nat /\ \A i \in DOMAIN disk : disk[i] \in Tasks
  <2>1. disk \in Seq(Tasks)
    BY DEF SchedTypeOK
  <2>2. QED
    BY <2>1
<1>3. \A i \in DOMAIN disk : Reloaded(disk[i]) \in Tasks
  BY <1>2, TimesAre, EntryIs
<1>4. tasks' \in [1..Len(disk) -> Tasks]
  BY <1>1, <1>2, <1>3
<1>5. missed' \subseteq Ids
  BY <1>2 DEF Load, Tasks
<1>6. QED
  BY <1>1, <1>2, <1>4, <1>5

\* The lists hold tasks.
LEMMA ListsKept == SchedTyped /\ [SchedNext]_schedVars => tasks' \in Seq(Tasks) /\ disk' \in Seq(Tasks)
<1>1. SUFFICES ASSUME SchedTyped, [SchedNext]_schedVars PROVE tasks' \in Seq(Tasks) /\ disk' \in Seq(Tasks)
  OBVIOUS
<1>2. SchedTypeOK /\ tasks \in Seq(Tasks) /\ disk \in Seq(Tasks) /\ now \in Nat
  BY <1>1, TimesAre DEF SchedTyped, SchedTypeOK
<1>3. \A i \in DOMAIN tasks : tasks[i] \in Tasks
  BY <1>2
<1>4. ASSUME NEW i \in DOMAIN tasks, NEW t \in Tasks, tasks' = [tasks EXCEPT ![i] = t]
      PROVE  tasks' \in Seq(Tasks)
  BY <1>2, <1>4, ReplaceIs
<1>5. ASSUME NEW f \in Firings, Record(f) PROVE tasks' \in Seq(Tasks) /\ disk' \in Seq(Tasks)
  <2>1. \A i \in DOMAIN tasks : Rescheduled(tasks[i]) \in Tasks
    BY <1>2, <1>3, EntryIs
  <2>2. QED
    BY <1>1, <1>2, <1>4, <1>5, <2>1, RecordIs
<1>6. ASSUME EndRunNow PROVE tasks' \in Seq(Tasks) /\ disk' \in Seq(Tasks)
  <2>1. \A t \in Tasks : Counted(t) \in Tasks
    BY DEF Tasks, Counted
  <2>2. QED
    BY <1>2, <1>3, <1>4, <1>6, <2>1, EndRunNowIs
<1>7. ASSUME NEW id \in Ids, NEW e \in Expressions, NEW on \in BOOLEAN, Update(id, e, on)
      PROVE  tasks' \in Seq(Tasks) /\ disk' \in Seq(Tasks)
  <2>1. \A i \in DOMAIN tasks : AcceptedEdit(tasks[i], e, on) \in Tasks /\ RefusedEdit(tasks[i], e, on) \in Tasks
    BY <1>2, <1>3, EditIs
  <2>2. QED
    BY <1>2, <1>4, <1>7, <2>1, UpdateIs DEF SaveAccepted
<1>8. ASSUME NEW id \in Ids, NEW e \in Expressions, Create(id, e)
      PROVE  tasks' \in Seq(Tasks) /\ disk' \in Seq(Tasks)
  <2>1. tasks' = Append(tasks, Fresh(id, e)) /\ disk' = tasks'
    BY <1>8, CreateIs
  <2>2. Append(tasks, Fresh(id, e)) \in Seq(Tasks)
    BY <1>2, FreshIs, AppendIs
  <2>3. QED
    BY <2>1, <2>2
<1>9. ASSUME NEW id \in Ids, Delete(id) PROVE tasks' \in Seq(Tasks) /\ disk' \in Seq(Tasks)
  BY <1>2, <1>9, DeleteIs, RemoveIs
<1>10. CASE Load
  BY <1>2, <1>10, LoadIs DEF Load
<1>11. CASE StartTimer
  BY <1>2, <1>11 DEF StartTimer
<1>12. CASE Die
  BY <1>2, <1>12 DEF Die
<1>13. CASE UNCHANGED <<tasks, disk>>
  BY <1>2, <1>13
<1>14. ASSUME NEW f \in Firings, FireTimer(f) \/ Guard(f) \/ Collect(f) \/ BeginRun(f) \/ Deliver(f) \/ EndOfDue(f) \/ Rearm(f)
       PROVE  UNCHANGED <<tasks, disk>>
  BY <1>14 DEF FireTimer, Guard, Collect, BeginRun, Deliver, EndOfDue, Rearm, taskVars
<1>15. CASE Tick \/ Stop \/ DrainMissedReminders \/ UNCHANGED schedVars \/ \E id \in Ids : BeginRunNow(id)
  BY <1>13, <1>15 DEF Tick, Stop, DrainMissedReminders, schedVars, BeginRunNow, taskVars
<1>16. QED
  BY <1>1, <1>5, <1>6, <1>7, <1>8, <1>9, <1>10, <1>11, <1>12, <1>13, <1>14, <1>15
     DEF SchedNext, Call, Fire, Crash, Panic

\* The goroutines of the timer.
FirePCs == {"idle", "guard", "collect", "next", "run", "record", "rearm"}

GoroutinesTyped ==
    /\ firePC \in [Firings -> FirePCs]
    /\ due \in [Firings -> SUBSET (Nat \ {0})]
    /\ at \in [Firings -> 0..MaxTime]
    /\ snap \in [Firings -> Tasks \cup {NoId}]
    /\ \A f \in Firings : firePC[f] \in {"run", "record"} => snap[f] \in Tasks /\ due[f] # {}

LEMMA GoroutinesAre == SchedTyped => GoroutinesTyped
BY DEF SchedTyped, SchedTypeOK, GoroutinesTyped, FirePCs

LEMMA GoroutinesKept == SchedTyped /\ [SchedNext]_schedVars => GoroutinesTyped'
<1>1. SUFFICES ASSUME SchedTyped, [SchedNext]_schedVars PROVE GoroutinesTyped'
  OBVIOUS
<1>2. GoroutinesTyped /\ now \in 0..MaxTime
  BY <1>1, GoroutinesAre, TimesAre DEF SchedTyped
<1>3. \A i \in DOMAIN tasks : tasks[i] \in Tasks /\ i \in Nat \ {0}
  <2>1. tasks \in Seq(Tasks)
    BY <1>1 DEF SchedTyped, SchedTypeOK
  <2>2. QED
    BY <2>1
<1>4. ASSUME NEW f \in Firings, FireTimer(f) \/ Guard(f) \/ EndOfDue(f) \/ Rearm(f) PROVE GoroutinesTyped'
  <2>1. /\ UNCHANGED <<due, at, snap>>
        /\ \E to \in FirePCs \ {"run", "record"} : firePC' = [firePC EXCEPT ![f] = to]
    BY <1>4 DEF FireTimer, Guard, EndOfDue, Rearm, At, FirePCs
  <2>2. QED
    BY <1>2, <2>1 DEF GoroutinesTyped
<1>5. ASSUME NEW f \in Firings, Collect(f) PROVE GoroutinesTyped'
  <2>1. {i \in DOMAIN tasks : DueAt(tasks[i], now)} \in SUBSET (Nat \ {0})
    BY <1>3
  <2>2. firePC' = [firePC EXCEPT ![f] = "next"] /\ at' = [at EXCEPT ![f] = now] /\ snap' = snap
        /\ due' = [due EXCEPT ![f] = {i \in DOMAIN tasks : DueAt(tasks[i], now)}]
    BY <1>5 DEF Collect, At
  <2>3. QED
    BY <1>2, <2>1, <2>2 DEF GoroutinesTyped, FirePCs
<1>6. ASSUME NEW f \in Firings, BeginRun(f) PROVE GoroutinesTyped'
  <2>1. Index(f) \in Nat \ {0} /\ Index(f) <= Len(tasks) /\ due[f] # {}
    BY <1>1, <1>6, IndexIs DEF BeginRun, SchedTyped
  <2>2. Index(f) \in DOMAIN tasks
    <3>1. tasks \in Seq(Tasks)
      BY <1>1 DEF SchedTyped, SchedTypeOK
    <3>2. QED
      BY <2>1, <3>1
  <2>3. firePC' = [firePC EXCEPT ![f] = "run"] /\ snap' = [snap EXCEPT ![f] = tasks[Index(f)]]
        /\ due' = due /\ at' = at
    BY <1>6 DEF BeginRun, At
  <2>4. tasks[Index(f)] \in Tasks
    BY <1>3, <2>2
  <2>5. ASSUME NEW g \in Firings, firePC'[g] \in {"run", "record"} PROVE snap'[g] \in Tasks /\ due'[g] # {}
    <3>1. CASE g = f
      BY <1>2, <2>1, <2>3, <2>4, <3>1 DEF GoroutinesTyped
    <3>2. CASE g # f
      BY <1>2, <2>3, <2>5, <3>2 DEF GoroutinesTyped
    <3>3. QED
      BY <3>1, <3>2
  <2>6. QED
    BY <1>2, <2>3, <2>5 DEF GoroutinesTyped, FirePCs
<1>7. ASSUME NEW f \in Firings, Deliver(f) PROVE GoroutinesTyped'
  <2>1. UNCHANGED <<due, at, snap>> /\ firePC[f] = "run" /\ firePC' = [firePC EXCEPT ![f] = "record"]
    BY <1>7 DEF Deliver, At
  <2>2. QED
    BY <1>2, <2>1 DEF GoroutinesTyped, FirePCs
<1>8. ASSUME NEW f \in Firings, Record(f) PROVE GoroutinesTyped'
  <2>1. UNCHANGED <<at, snap>> /\ firePC' = [firePC EXCEPT ![f] = "next"]
        /\ due' = [due EXCEPT ![f] = due[f] \ {Index(f)}]
    BY <1>8 DEF Record, At
  <2>2. QED
    BY <1>2, <2>1 DEF GoroutinesTyped, FirePCs
<1>9. CASE Die
  BY <1>9, ClockAssumption DEF Die, GoroutinesTyped, FirePCs
<1>10. ASSUME UNCHANGED fireVars PROVE GoroutinesTyped'
  BY <1>2, <1>10 DEF fireVars, GoroutinesTyped
<1>11. CASE Tick \/ Call \/ EndRunNow \/ Load \/ StartTimer \/ UNCHANGED schedVars
  BY <1>10, <1>11 DEF Tick, Call, Delete, BeginRunNow, Create, Update, Stop, DrainMissedReminders,
                      EndRunNow, Load, StartTimer, schedVars
<1>12. QED
  BY <1>1, <1>4, <1>5, <1>6, <1>7, <1>8, <1>9, <1>11 DEF SchedNext, Fire, Crash, Panic

\* The process and its timer.
LEMMA ProcessKept ==
    SchedTyped /\ [SchedNext]_schedVars =>
        /\ phase' \in {"down", "loading", "up"} /\ running' \in BOOLEAN /\ timer' \in Nat
        /\ phase' # "up" => ~running'
<1> DEFINE Goal == /\ phase' \in {"down", "loading", "up"} /\ running' \in BOOLEAN /\ timer' \in Nat
                   /\ phase' # "up" => ~running'
<1>1. SUFFICES ASSUME SchedTyped, [SchedNext]_schedVars PROVE Goal
  OBVIOUS
<1>2. /\ phase \in {"down", "loading", "up"} /\ running \in BOOLEAN /\ timer \in Nat
      /\ phase # "up" => ~running
      /\ tasks \in Seq(Tasks) /\ Never \in Nat
  BY <1>1 DEF SchedTyped, SchedTypeOK, Never
<1>3. tasks' \in Seq(Tasks)
  BY <1>1, ListsKept
<1>4. \A list \in Seq(Tasks) : Nearest(list) \in Nat
  BY NearestIs
<1>5. ASSUME UNCHANGED <<phase, running>>, timer' \in {timer, Never, Nearest(tasks), Nearest(tasks')} PROVE Goal
  <2>1. timer' \in Nat
    BY <1>2, <1>3, <1>4, <1>5
  <2>2. QED
    BY <1>2, <1>5, <2>1
<1>6. ASSUME NEW f \in Firings, FireTimer(f) \/ Guard(f) \/ Collect(f) \/ BeginRun(f) \/ Deliver(f)
                                \/ Record(f) \/ EndOfDue(f) \/ Rearm(f)
      PROVE  Goal
  BY <1>5, <1>6, Zenon DEF FireTimer, Guard, Collect, BeginRun, Deliver, Record, EndOfDue, Rearm, ArmTimer, procVars
<1>7. CASE Call
  <2>1. ASSUME NEW id \in Ids, Delete(id) \/ BeginRunNow(id) PROVE Goal
    BY <1>5, <2>1, Zenon DEF Delete, BeginRunNow, ArmTimer, procVars
  <2>2. ASSUME NEW id \in Ids, NEW e \in Expressions, Create(id, e) PROVE Goal
    BY <1>5, <2>2, Zenon DEF Create, ArmTimer
  <2>3. ASSUME NEW id \in Ids, NEW e \in Expressions, NEW on \in BOOLEAN, Update(id, e, on) PROVE Goal
    BY <1>5, <2>3, Zenon DEF Update, UpdateAccepted, UpdateRefused, ArmTimer
  <2>4. CASE Stop
    BY <1>2, <2>4 DEF Stop
  <2>5. CASE DrainMissedReminders
    BY <1>5, <2>5 DEF DrainMissedReminders
  <2>6. QED
    BY <1>7, <2>1, <2>2, <2>3, <2>4, <2>5 DEF Call
<1>8. CASE Die
  BY <1>2, <1>8 DEF Die
<1>9. CASE Load
  BY <1>2, <1>9 DEF Load
<1>10. CASE StartTimer
  BY <1>2, <1>4, <1>10 DEF StartTimer
<1>11. CASE Tick \/ EndRunNow \/ UNCHANGED schedVars
  BY <1>5, <1>11 DEF Tick, EndRunNow, schedVars, procVars
<1>12. QED
  BY <1>1, <1>6, <1>7, <1>8, <1>9, <1>10, <1>11 DEF SchedNext, Fire, Crash, Panic

\* What is kept of the past: how schedules ended, runs begun, edits refused.
Outcomes == {"none", "owed", "fired", "delivered", "fired again", "reminded"}
Refusals == {"no", "unsaved", "kept"}

LEMMA ServedKept == SchedTyped /\ [SchedNext]_schedVars => served' \in [Ids -> Outcomes]
<1>1. SUFFICES ASSUME SchedTyped, [SchedNext]_schedVars PROVE served' \in [Ids -> Outcomes]
  OBVIOUS
<1>2. SchedTypeOK /\ served \in [Ids -> Outcomes] /\ tasks \in Seq(Tasks) /\ now \in Nat
  BY <1>1, TimesAre DEF SchedTyped, SchedTypeOK, Outcomes
<1>3. \A t \in Tasks : Accepted(t) \in Outcomes /\ t.id \in Ids
  BY DEF Accepted, Tasks, Outcomes
<1>4. \A t \in Tasks : AfterStart(t) \in Outcomes
  BY <1>2 DEF AfterStart, Tasks, Outcomes
<1>5. ASSUME NEW f \in Firings, BeginRun(f) PROVE served' \in [Ids -> Outcomes]
  <2>1. Index(f) \in Nat \ {0} /\ Index(f) <= Len(tasks)
    BY <1>1, <1>5, IndexIs DEF BeginRun, SchedTyped
  <2>2. tasks[Index(f)] \in Tasks
    BY <1>2, <2>1
  <2>3. served' = [served EXCEPT ![tasks[Index(f)].id] = AfterStart(tasks[Index(f)])]
    BY <1>5 DEF BeginRun
  <2> HIDE DEF Outcomes
  <2>4. QED
    BY <1>2, <1>4, <2>2, <2>3
<1>6. ASSUME NEW f \in Firings, Deliver(f) PROVE served' \in [Ids -> Outcomes]
  BY <1>2, <1>6 DEF Deliver, Outcomes
<1>7. ASSUME NEW id \in Ids, NEW e \in Expressions, NEW on \in BOOLEAN, Update(id, e, on)
      PROVE  served' \in [Ids -> Outcomes]
  <2>1. \A i \in DOMAIN tasks : AcceptedEdit(tasks[i], e, on) \in Tasks
    BY <1>2, EditIs
  <2>2. served' = served \/ \E t \in Tasks : served' = [served EXCEPT ![id] = Accepted(t)]
    BY <1>7, <2>1, UpdateIs
  <2>3. QED
    BY <1>2, <1>3, <2>2
<1>8. ASSUME NEW id \in Ids, NEW e \in Expressions, Create(id, e) PROVE served' \in [Ids -> Outcomes]
  BY <1>2, <1>3, <1>8, CreateIs, FreshIs
<1>9. ASSUME NEW id \in Ids, Delete(id) PROVE served' \in [Ids -> Outcomes]
  BY <1>2, <1>9 DEF Delete, Outcomes
<1>10. CASE DrainMissedReminders
  BY <1>2, <1>10 DEF DrainMissedReminders, Outcomes
<1>11. CASE UNCHANGED served
  BY <1>2, <1>11
<1>12. ASSUME NEW f \in Firings, FireTimer(f) \/ Guard(f) \/ Collect(f) \/ Record(f) \/ EndOfDue(f) \/ Rearm(f)
       PROVE  UNCHANGED served
  BY <1>12 DEF FireTimer, Guard, Collect, Record, EndOfDue, Rearm, taskVars
<1>13. CASE Tick \/ Stop \/ EndRunNow \/ Load \/ StartTimer \/ Die \/ UNCHANGED schedVars \/ \E id \in Ids : BeginRunNow(id)
  BY <1>11, <1>13 DEF Tick, Stop, EndRunNow, Load, StartTimer, Die, schedVars, BeginRunNow, taskVars
<1>14. QED
  BY <1>1, <1>5, <1>6, <1>7, <1>8, <1>9, <1>10, <1>11, <1>12, <1>13 DEF SchedNext, Call, Fire, Crash, Panic

LEMMA RefusedKept == SchedTyped /\ [SchedNext]_schedVars => refused' \in [Ids -> Refusals]
<1>1. SUFFICES ASSUME SchedTyped, [SchedNext]_schedVars PROVE refused' \in [Ids -> Refusals]
  OBVIOUS
<1>2. SchedTypeOK /\ refused \in [Ids -> Refusals] /\ tasks \in Seq(Tasks) /\ now \in Nat
  BY <1>1, TimesAre DEF SchedTyped, SchedTypeOK, Refusals
<1>3. Settled \in [Ids -> Refusals]
  BY <1>2 DEF Settled, Refusals
<1>4. ASSUME NEW id \in Ids, NEW e \in Expressions, NEW on \in BOOLEAN, Update(id, e, on)
      PROVE  refused' \in [Ids -> Refusals]
  <2>1. refused' = [refused EXCEPT ![id] = "unsaved"]
        \/ \E i \in DOMAIN tasks : refused' = [Settled EXCEPT ![AcceptedEdit(tasks[i], e, on).id] = "no"]
    BY <1>4, UpdateIs DEF SaveAccepted
  <2>2. QED
    BY <1>2, <1>3, <2>1 DEF Refusals
<1>5. ASSUME NEW f \in Firings, Record(f) PROVE refused' \in [Ids -> Refusals]
  BY <1>1, <1>2, <1>3, <1>5, RecordIs
<1>6. CASE EndRunNow
  BY <1>2, <1>3, <1>6, EndRunNowIs
<1>7. CASE \E id \in Ids : Delete(id) \/ \E e \in Expressions : Create(id, e)
  BY <1>3, <1>7, DeleteIs, CreateIs
<1>8. CASE Die
  BY <1>3, <1>8 DEF Die
<1>9. CASE UNCHANGED refused
  BY <1>2, <1>9
<1>10. ASSUME NEW f \in Firings, FireTimer(f) \/ Guard(f) \/ Collect(f) \/ BeginRun(f) \/ Deliver(f) \/ EndOfDue(f) \/ Rearm(f)
       PROVE  UNCHANGED refused
  BY <1>10 DEF FireTimer, Guard, Collect, BeginRun, Deliver, EndOfDue, Rearm, taskVars
<1>11. CASE Tick \/ Stop \/ DrainMissedReminders \/ Load \/ StartTimer \/ UNCHANGED schedVars \/ \E id \in Ids : BeginRunNow(id)
  BY <1>9, <1>11 DEF Tick, Stop, DrainMissedReminders, Load, StartTimer, schedVars, BeginRunNow, taskVars
<1>12. QED
  BY <1>1, <1>4, <1>5, <1>6, <1>7, <1>8, <1>9, <1>10, <1>11 DEF SchedNext, Call, Fire, Crash, Panic

\* The calls and crashes left, the clock, and the identifiers.
BudgetTyped == \E b \in Budgets : budget \in [ops : 0..b.ops, runNow : 0..b.runNow, crashes : 0..b.crashes,
                                              refusals : {b.refusals}]

LEMMA SpendIs ==
    ASSUME BudgetTyped, NEW what \in {"ops", "runNow", "crashes"}, Spend(what)
    PROVE  BudgetTyped'
<1>1. PICK b \in Budgets : budget \in [ops : 0..b.ops, runNow : 0..b.runNow, crashes : 0..b.crashes,
                                       refusals : {b.refusals}]
  BY DEF BudgetTyped
<1>2. b.ops \in Nat /\ b.runNow \in Nat /\ b.crashes \in Nat
  BY BudgetAssumption
<1>3. budget' = [budget EXCEPT ![what] = budget[what] - 1] /\ budget[what] > 0
  BY DEF Spend
<1>4. budget' \in [ops : 0..b.ops, runNow : 0..b.runNow, crashes : 0..b.crashes, refusals : {b.refusals}]
  BY <1>1, <1>2, <1>3
<1>5. QED
  BY <1>4 DEF BudgetTyped

LEMMA BudgetKept == SchedTyped /\ [SchedNext]_schedVars => BudgetTyped'
<1>1. SUFFICES ASSUME SchedTyped, [SchedNext]_schedVars PROVE BudgetTyped'
  OBVIOUS
<1>2. BudgetTyped
  BY <1>1 DEF SchedTyped, SchedTypeOK, BudgetTyped
<1>3. CASE UNCHANGED budget
  BY <1>2, <1>3 DEF BudgetTyped
<1>4. CASE \E what \in {"ops", "runNow", "crashes"} : Spend(what)
  BY <1>2, <1>4, SpendIs
<1>5. CASE Call
  BY <1>3, <1>4, <1>5, Zenon DEF Call, Delete, BeginRunNow, Create, Update, Stop, DrainMissedReminders
<1>6. ASSUME NEW f \in Firings, FireTimer(f) \/ Fire(f) PROVE UNCHANGED budget
  BY <1>6, Zenon DEF Fire, FireTimer, Guard, Collect, BeginRun, Deliver, Record, EndOfDue, Rearm, Panic
<1>7. CASE Tick \/ EndRunNow \/ Crash \/ Load \/ StartTimer \/ UNCHANGED schedVars
  BY <1>3, <1>4, <1>7, Zenon DEF Tick, EndRunNow, Crash, Load, StartTimer, schedVars
<1>8. QED
  BY <1>1, <1>3, <1>5, <1>6, <1>7, Zenon DEF SchedNext

NamesTyped == now \in 1..MaxTime /\ created \subseteq Ids /\ missed \subseteq Ids /\ manual \in Ids \cup {NoId}

LEMMA NamesKept == SchedTyped /\ [SchedNext]_schedVars => NamesTyped'
<1>1. SUFFICES ASSUME SchedTyped, [SchedNext]_schedVars PROVE NamesTyped'
  OBVIOUS
<1>2. NamesTyped /\ MaxTime \in Nat /\ SchedTypeOK
  BY <1>1, TimesAre DEF SchedTyped, SchedTypeOK, NamesTyped
<1>3. ASSUME NEW f \in Firings, FireTimer(f) \/ Guard(f) \/ Collect(f) \/ BeginRun(f) \/ Deliver(f)
                                \/ Record(f) \/ EndOfDue(f) \/ Rearm(f)
      PROVE  UNCHANGED <<now, created, missed, manual>>
  BY <1>3, Zenon DEF FireTimer, Guard, Collect, BeginRun, Deliver, Record, EndOfDue, Rearm, taskVars, procVars
<1>4. CASE Tick
  BY <1>2, <1>4 DEF Tick, NamesTyped, taskVars, procVars
<1>5. CASE Call
  <2>1. UNCHANGED now /\ (created' = created \/ \E id \in Ids : created' = created \cup {id})
        /\ (missed' = missed \/ missed' = {}) /\ (manual' = manual \/ manual' \in Ids)
    BY <1>5, Zenon DEF Call, Delete, BeginRunNow, Create, Update, Stop, DrainMissedReminders, taskVars, procVars
  <2>2. QED
    BY <1>2, <2>1 DEF NamesTyped
<1>6. CASE EndRunNow
  BY <1>2, <1>6 DEF EndRunNow, NamesTyped, procVars
<1>7. CASE Die
  <2>1. now' = now /\ created' = created /\ missed' = {} /\ manual' = NoId
    BY <1>7 DEF Die
  <2>2. QED
    BY <1>2, <2>1 DEF NamesTyped
<1>8. CASE Load
  BY <1>2, <1>8, LoadIs DEF Load, NamesTyped
<1>9. CASE UNCHANGED <<now, created, missed, manual>>
  BY <1>2, <1>9 DEF NamesTyped
<1>10. CASE StartTimer \/ UNCHANGED schedVars
  BY <1>9, <1>10 DEF StartTimer, schedVars, taskVars, procVars
<1>11. QED
  BY <1>1, <1>3, <1>4, <1>5, <1>6, <1>7, <1>8, <1>9, <1>10 DEF SchedNext, Fire, Crash, Panic

LEMMA StartedKept == SchedTyped /\ [SchedNext]_schedVars => started' \in [Ids -> Nat]
<1>1. SUFFICES ASSUME SchedTyped, [SchedNext]_schedVars PROVE started' \in [Ids -> Nat]
  OBVIOUS
<1>2. SchedTypeOK /\ started \in [Ids -> Nat] /\ tasks \in Seq(Tasks)
  BY <1>1 DEF SchedTyped, SchedTypeOK
<1>3. started' = started \/ \E id : started' = [started EXCEPT ![id] = started[id] + 1]
  <2>1. ASSUME NEW f \in Firings, Fire(f) PROVE started' = started \/ \E id : started' = [started EXCEPT ![id] = started[id] + 1]
    BY <2>1, Zenon DEF Fire, Guard, Collect, BeginRun, Deliver, Record, EndOfDue, Rearm, Panic, Die
  <2>2. CASE Call
    BY <2>2, Zenon DEF Call, Delete, BeginRunNow, Create, Update, Stop, DrainMissedReminders
  <2>3. QED
    BY <1>1, <2>1, <2>2, Zenon DEF SchedNext, Tick, FireTimer, EndRunNow, Crash, Die, Load, StartTimer, schedVars
<1>4. ASSUME NEW id, started' = [started EXCEPT ![id] = started[id] + 1] PROVE started' \in [Ids -> Nat]
  <2>1. CASE id \in Ids
    <3>1. started[id] + 1 \in Nat
      BY <1>2, <2>1
    <3>2. QED
      BY <1>2, <1>4, <3>1, Zenon
  <2>2. CASE id \notin Ids
    BY <1>2, <1>4, <2>2
  <2>3. QED
    BY <2>1, <2>2
<1>5. QED
  BY <1>2, <1>3, <1>4

\* Types, over the whole specification.
LEMMA SchedTypedAlways == SchedSpec => []SchedTyped
<1>1. SchedInit => SchedTyped
  <2>1. SUFFICES ASSUME SchedInit PROVE SchedTyped
    OBVIOUS
  <2>2. now \in 1..MaxTime /\ timer \in Nat
    BY <2>1, ClockAssumption DEF SchedInit, Never
  <2>3. at \in [Firings -> 0..MaxTime]
    BY <2>1, ClockAssumption DEF SchedInit
  <2>4. \E b \in Budgets : budget \in [ops : 0..b.ops, runNow : 0..b.runNow, crashes : 0..b.crashes,
                                       refusals : {b.refusals}]
    <3>1. budget \in [ops : Nat, runNow : Nat, crashes : Nat, refusals : SUBSET {"interval", "past"}]
      BY <2>1, BudgetAssumption DEF SchedInit
    <3>2. budget \in [ops : 0..budget.ops, runNow : 0..budget.runNow, crashes : 0..budget.crashes,
                      refusals : {budget.refusals}]
      BY <3>1
    <3>3. QED
      BY <2>1, <3>2 DEF SchedInit
  <2>5. QED
    BY <2>1, <2>2, <2>3, <2>4 DEF SchedInit, SchedTyped, SchedTypeOK
<1>2. SchedTyped /\ [SchedNext]_schedVars => SchedTyped'
  <2>1. SUFFICES ASSUME SchedTyped, [SchedNext]_schedVars PROVE SchedTyped'
    OBVIOUS
  <2>2. tasks' \in Seq(Tasks) /\ disk' \in Seq(Tasks)
    BY <2>1, ListsKept
  <2>3. GoroutinesTyped' /\ NamesTyped' /\ BudgetTyped'
    BY <2>1, GoroutinesKept, NamesKept, BudgetKept
  <2>4. /\ phase' \in {"down", "loading", "up"} /\ running' \in BOOLEAN /\ timer' \in Nat
        /\ phase' # "up" => ~running'
    BY <2>1, ProcessKept
  <2>5. served' \in [Ids -> Outcomes] /\ refused' \in [Ids -> Refusals] /\ started' \in [Ids -> Nat]
    BY <2>1, ServedKept, RefusedKept, StartedKept
  <2>6. QED
    BY <2>2, <2>3, <2>4, <2>5 DEF SchedTyped, SchedTypeOK, GoroutinesTyped, FirePCs, NamesTyped, BudgetTyped, Outcomes, Refusals
<1>3. QED
  BY <1>1, <1>2, PTL DEF SchedSpec

\* Every variable of the scheduler keeps its type.
THEOREM SchedTypes == SchedSpec => []SchedTypeOK
<1>1. SchedTyped => SchedTypeOK
  BY DEF SchedTyped
<1>2. QED
  BY <1>1, SchedTypedAlways, PTL

-----------------------------------------------------------------------------
(* The task file: every region that changes the list saves it, except the  *)
(* error returns of Update.                                                *)

LEMMA FileKept == SchedTyped /\ FileMatchesMemory /\ [SchedNext]_schedVars => FileMatchesMemory'
<1>1. SUFFICES ASSUME SchedTyped, FileMatchesMemory, [SchedNext]_schedVars PROVE FileMatchesMemory'
  OBVIOUS
<1>2. SchedTypeOK /\ tasks \in Seq(Tasks) /\ now \in Nat /\ refused \in [Ids -> Refusals]
  BY <1>1, TimesAre DEF SchedTyped, SchedTypeOK, Refusals
<1>3. phase = "up" => /\ Len(disk) = Len(tasks)
                      /\ \A i \in DOMAIN tasks : disk[i] = tasks[i] \/ refused[tasks[i].id] = "unsaved"
  BY <1>1 DEF FileMatchesMemory, FileMatchesExcept
<1>4. ASSUME disk' = tasks' PROVE FileMatchesMemory'
  BY <1>4 DEF FileMatchesMemory, FileMatchesExcept
<1>5. ASSUME phase' # "up" PROVE FileMatchesMemory'
  BY <1>5 DEF FileMatchesMemory, FileMatchesExcept
<1>6. ASSUME UNCHANGED <<tasks, disk, refused>>, phase' = phase PROVE FileMatchesMemory'
  BY <1>1, <1>6 DEF FileMatchesMemory, FileMatchesExcept
<1>7. ASSUME NEW id \in Ids, NEW e \in Expressions, NEW on \in BOOLEAN, Update(id, e, on) PROVE FileMatchesMemory'
  <2>1. PICK i \in DOMAIN tasks :
          /\ tasks[i].id = id
          /\ \/ disk' = tasks'
             \/ /\ tasks' = [tasks EXCEPT ![i] = RefusedEdit(tasks[i], e, on)]
                /\ disk' = disk /\ refused' = [refused EXCEPT ![id] = "unsaved"]
    BY <1>7, UpdateIs DEF SaveAccepted
  <2>2. CASE /\ tasks' = [tasks EXCEPT ![i] = RefusedEdit(tasks[i], e, on)]
             /\ disk' = disk /\ refused' = [refused EXCEPT ![id] = "unsaved"]
    <3> DEFINE t == RefusedEdit(tasks[i], e, on)
    <3>1. t \in Tasks /\ t.id = id
      BY <1>2, <2>1, EditIs
    <3> HIDE DEF t
    <3>2. /\ Len(tasks') = Len(tasks) /\ DOMAIN tasks' = DOMAIN tasks
          /\ \A k \in DOMAIN tasks : tasks'[k] = IF k = i THEN t ELSE tasks[k]
      BY <1>2, <2>2, <3>1, ReplaceIs DEF t
    <3>3. \A j \in Ids : j = id \/ refused[j] = "unsaved" => refused'[j] = "unsaved"
      BY <1>2, <2>2
    <3>4. \A k \in DOMAIN tasks : tasks[k].id \in Ids
      <4>1. \A k \in DOMAIN tasks : tasks[k] \in Tasks
        BY <1>2
      <4>2. QED
        BY <4>1 DEF Tasks
    <3>5. phase = "up"
      BY <1>7 DEF Update
    <3>6. Len(disk') = Len(tasks')
      BY <1>3, <2>2, <3>2, <3>5
    <3>7. ASSUME NEW k \in DOMAIN tasks PROVE disk'[k] = tasks'[k] \/ refused'[tasks'[k].id] = "unsaved"
      <4>1. CASE k = i
        BY <3>1, <3>2, <3>3, <4>1
      <4>2. CASE k # i
        BY <1>3, <2>2, <3>2, <3>3, <3>4, <3>5, <4>2
      <4>3. QED
        BY <4>1, <4>2
    <3>8. \A k \in DOMAIN tasks : tasks'[k].id \in Ids
      BY <3>1, <3>2, <3>4
    <3>9. QED
      BY <3>2, <3>6, <3>7, <3>8 DEF FileMatchesMemory, FileMatchesExcept
  <2>3. QED
    BY <1>4, <2>1, <2>2
<1>8. ASSUME NEW f \in Firings, Record(f) PROVE FileMatchesMemory'
  <2>1. phase' = phase
    BY <1>8 DEF Record, procVars
  <2>2. QED
    BY <1>1, <1>4, <1>6, <1>8, <2>1, RecordIs
<1>9. CASE EndRunNow
  <2>1. phase' = phase
    BY <1>9 DEF EndRunNow, procVars
  <2>2. QED
    BY <1>4, <1>6, <1>9, <2>1, EndRunNowIs
<1>10. CASE \E id \in Ids : Delete(id) \/ \E e \in Expressions : Create(id, e)
  BY <1>4, <1>10, DeleteIs, CreateIs
<1>11. CASE Die \/ Load
  BY <1>5, <1>11 DEF Die, Load
<1>12. CASE StartTimer
  <2>1. CASE phase = "loading"
    BY <1>4, <1>12, <2>1 DEF StartTimer
  <2>2. CASE phase = "up"
    BY <1>6, <1>12, <2>2 DEF StartTimer
  <2>3. QED
    BY <1>12, <2>1, <2>2 DEF StartTimer
<1>13. ASSUME NEW f \in Firings, FireTimer(f) \/ Guard(f) \/ Collect(f) \/ BeginRun(f) \/ Deliver(f) \/ EndOfDue(f) \/ Rearm(f)
       PROVE  FileMatchesMemory'
  BY <1>6, <1>13, Zenon DEF FireTimer, Guard, Collect, BeginRun, Deliver, EndOfDue, Rearm, taskVars, procVars
<1>14. CASE Tick \/ Stop \/ DrainMissedReminders \/ UNCHANGED schedVars \/ \E id \in Ids : BeginRunNow(id)
  BY <1>6, <1>14, Zenon DEF Tick, Stop, DrainMissedReminders, schedVars, BeginRunNow, taskVars, procVars
<1>15. QED
  BY <1>1, <1>7, <1>8, <1>9, <1>10, <1>11, <1>12, <1>13, <1>14 DEF SchedNext, Call, Fire, Crash, Panic

\* What the file holds is what the process works with, whatever is edited,
\* recorded, lost in a crash and loaded again: only edits that were refused
\* since are in memory alone.
THEOREM FileCorrect == SchedSpec => []FileMatchesMemory
<1>1. SchedInit => FileMatchesMemory
  BY DEF SchedInit, FileMatchesMemory, FileMatchesExcept
<1>2. QED
  BY <1>1, FileKept, SchedTypedAlways, PTL DEF SchedSpec

-----------------------------------------------------------------------------
(* The timer: each change of the list sets it anew, a firing keeps the     *)
(* cover until it has set it, and the end of a run by hand moves nothing.  *)

Refusing(id) == refused[id] # "no"
Covered(i) == Scheduled(tasks[i]) => \/ timer # Never /\ timer <= tasks[i].nextRun
                                     \/ \E f \in Firings : firePC[f] # "idle"
                                     \/ Refusing(tasks[i].id)

LEMMA CoverIs == SchedTypeOK => (TimerCoversTasks <=> (running => \A i \in DOMAIN tasks : Covered(i)))
<1>1. SUFFICES ASSUME SchedTypeOK
               PROVE  TimerCoversTasks <=> (running => \A i \in DOMAIN tasks : Covered(i))
  OBVIOUS
<1>2. \A i \in DOMAIN tasks : tasks[i] \in Tasks
  <2>1. tasks \in Seq(Tasks)
    BY <1>1 DEF SchedTypeOK
  <2>2. QED
    BY <2>1
<1>3. \A i \in DOMAIN tasks : tasks[i].id \in Ids
  BY <1>2 DEF Tasks
<1>4. QED
  BY <1>3, Zenon DEF TimerCoversTasks, TimerCoversExcept, Covered, Refusing

LEMMA TimerKept == SchedTyped /\ SchedTypeOK' /\ TimerCoversTasks /\ [SchedNext]_schedVars => TimerCoversTasks'
<1>1. SUFFICES ASSUME SchedTyped, SchedTypeOK', TimerCoversTasks, [SchedNext]_schedVars PROVE TimerCoversTasks'
  OBVIOUS
<1>2. SchedTypeOK /\ tasks \in Seq(Tasks) /\ tasks' \in Seq(Tasks) /\ now \in Nat
      /\ refused \in [Ids -> Refusals] /\ firePC \in [Firings -> FirePCs]
  BY <1>1, TimesAre DEF SchedTyped, SchedTypeOK, Refusals, FirePCs
<1>3. running => \A i \in DOMAIN tasks : Covered(i)
  BY <1>1, <1>2, CoverIs
<1>4. ASSUME running' => \A i \in DOMAIN tasks' : Covered(i)'
      PROVE  TimerCoversTasks'
  <2>1. (SchedTypeOK => (TimerCoversTasks <=> (running => \A i \in DOMAIN tasks : Covered(i))))'
    BY CoverIs, PTL
  <2>2. QED
    BY <1>1, <1>4, <2>1
<1>5. ASSUME ~running' PROVE TimerCoversTasks'
  BY <1>4, <1>5
<1>6. ASSUME timer' = Nearest(tasks') PROVE TimerCoversTasks'
  <2>1. \A i \in DOMAIN tasks' : Scheduled(tasks'[i]) => timer' # Never /\ timer' <= tasks'[i].nextRun
    BY <1>2, <1>6, NearestIs
  <2>2. QED
    BY <1>4, <2>1 DEF Covered, Scheduled
<1>7. ASSUME \E f \in Firings : firePC'[f] # "idle" PROVE TimerCoversTasks'
  BY <1>4, <1>7 DEF Covered
<1>8. ASSUME UNCHANGED <<tasks, refused, running, timer, firePC>> PROVE TimerCoversTasks'
  BY <1>3, <1>4, <1>8 DEF Covered, Refusing, Scheduled
<1>9. ASSUME ArmTimer(tasks'), UNCHANGED running PROVE TimerCoversTasks'
  BY <1>5, <1>6, <1>9 DEF ArmTimer
<1>10. ASSUME NEW f \in Firings, FireTimer(f) \/ Collect(f) \/ BeginRun(f) \/ Deliver(f) \/ Record(f) \/ EndOfDue(f)
       PROVE  TimerCoversTasks'
  <2>1. \E to \in FirePCs \ {"idle"} : firePC' = [firePC EXCEPT ![f] = to]
    BY <1>10 DEF FireTimer, Collect, BeginRun, Deliver, Record, EndOfDue, At, FirePCs
  <2>2. firePC'[f] # "idle"
    BY <1>2, <2>1
  <2>3. QED
    BY <1>7, <2>2
<1>11. ASSUME NEW f \in Firings, Guard(f) PROVE TimerCoversTasks'
  <2>1. CASE running
    <3>1. firePC' = [firePC EXCEPT ![f] = "collect"]
      BY <1>11, <2>1 DEF Guard, At
    <3>2. QED
      BY <1>2, <1>7, <3>1
  <2>2. CASE ~running
    BY <1>5, <1>11, <2>2 DEF Guard, procVars
  <2>3. QED
    BY <2>1, <2>2
<1>12. ASSUME NEW f \in Firings, Rearm(f) PROVE TimerCoversTasks'
  BY <1>9, <1>12 DEF Rearm, taskVars
<1>13. ASSUME NEW id \in Ids, Delete(id) PROVE TimerCoversTasks'
  BY <1>9, <1>13, DeleteIs DEF Delete
<1>14. ASSUME NEW id \in Ids, NEW e \in Expressions, Create(id, e) PROVE TimerCoversTasks'
  BY <1>9, <1>14, CreateIs DEF Create
<1>15. ASSUME NEW id \in Ids, NEW e \in Expressions, NEW on \in BOOLEAN, Update(id, e, on) PROVE TimerCoversTasks'
  <2>1. UNCHANGED <<running, firePC>>
    BY <1>15 DEF Update, fireVars
  <2>2. PICK i \in DOMAIN tasks :
          /\ tasks[i].id = id
          /\ \/ ArmTimer(tasks')
             \/ /\ tasks' = [tasks EXCEPT ![i] = RefusedEdit(tasks[i], e, on)]
                /\ refused' = [refused EXCEPT ![id] = "unsaved"] /\ UNCHANGED timer
    BY <1>15, UpdateIs
  <2>3. CASE /\ tasks' = [tasks EXCEPT ![i] = RefusedEdit(tasks[i], e, on)]
             /\ refused' = [refused EXCEPT ![id] = "unsaved"] /\ UNCHANGED timer
    <3> DEFINE t == RefusedEdit(tasks[i], e, on)
    <3>1. t \in Tasks /\ t.id = id
      BY <1>2, <2>2, EditIs
    <3> HIDE DEF t
    <3>2. /\ DOMAIN tasks' = DOMAIN tasks
          /\ \A k \in DOMAIN tasks : tasks'[k] = IF k = i THEN t ELSE tasks[k]
      BY <1>2, <2>3, <3>1, ReplaceIs DEF t
    <3>3. \A k \in DOMAIN tasks : tasks[k].id \in Ids
      <4>1. \A k \in DOMAIN tasks : tasks[k] \in Tasks
        BY <1>2
      <4>2. QED
        BY <4>1 DEF Tasks
    <3>4. \A j \in Ids : j = id \/ Refusing(j) => Refusing(j)'
      BY <1>2, <2>3 DEF Refusing
    <3>5. ASSUME running, NEW k \in DOMAIN tasks PROVE Covered(k)'
      <4>1. CASE k = i
        BY <3>1, <3>2, <3>4, <4>1 DEF Covered
      <4>2. CASE k # i
        <5>1. tasks'[k] = tasks[k] /\ Covered(k) /\ tasks[k].id \in Ids
          BY <1>3, <3>2, <3>3, <3>5, <4>2
        <5>2. QED
          BY <2>1, <2>3, <3>4, <5>1 DEF Covered, Scheduled
      <4>3. QED
        BY <4>1, <4>2
    <3>6. QED
      BY <1>4, <2>1, <3>2, <3>5
  <2>4. QED
    BY <1>9, <2>1, <2>2, <2>3
<1>16. CASE EndRunNow
  <2>1. UNCHANGED <<running, timer, firePC>>
    BY <1>16 DEF EndRunNow, procVars, fireVars
  <2>2. CASE UNCHANGED <<tasks, disk, refused>>
    BY <1>8, <2>1, <2>2
  <2>3. ASSUME NEW i \in DOMAIN tasks, tasks' = [tasks EXCEPT ![i] = Counted(tasks[i])], refused' = Settled
        PROVE  TimerCoversTasks'
    <3>1. \A k \in DOMAIN tasks : tasks[k] \in Tasks
      BY <1>2
    <3>2. \A t \in Tasks : Counted(t) \in Tasks /\ Counted(t).id = t.id
                           /\ Counted(t).enabled = t.enabled /\ Counted(t).nextRun = t.nextRun
      BY DEF Tasks, Counted
    <3>3. \A j \in Ids : Refusing(j) => Refusing(j)'
      BY <1>2, <2>3 DEF Refusing, Settled
    <3>4. /\ DOMAIN tasks' = DOMAIN tasks
          /\ \A k \in DOMAIN tasks : tasks'[k] \in {tasks[k], Counted(tasks[k])}
      BY <1>2, <2>3, <3>1, <3>2, ReplaceIs
    <3>5. ASSUME running, NEW k \in DOMAIN tasks PROVE Covered(k)'
      <4>1. tasks[k].id \in Ids
        BY <3>1 DEF Tasks
      <4>2. tasks'[k].id = tasks[k].id /\ tasks'[k].enabled = tasks[k].enabled /\ tasks'[k].nextRun = tasks[k].nextRun
        BY <3>1, <3>2, <3>4
      <4>3. QED
        BY <1>3, <2>1, <3>3, <3>5, <4>1, <4>2 DEF Covered, Scheduled
    <3>6. QED
      BY <1>4, <2>1, <3>4, <3>5
  <2>4. QED
    BY <1>16, <2>2, <2>3, EndRunNowIs
<1>17. CASE Die \/ Stop
  BY <1>5, <1>17 DEF Die, Stop
<1>18. CASE Load
  BY <1>1, <1>5, <1>18 DEF Load, SchedTyped
<1>19. CASE StartTimer
  BY <1>6, <1>19 DEF StartTimer
<1>20. CASE Tick \/ DrainMissedReminders \/ UNCHANGED schedVars \/ \E id \in Ids : BeginRunNow(id)
  BY <1>8, <1>20, Zenon DEF Tick, DrainMissedReminders, schedVars, BeginRunNow, taskVars, procVars, fireVars
<1>21. QED
  BY <1>1, <1>10, <1>11, <1>12, <1>13, <1>14, <1>15, <1>16, <1>17, <1>18, <1>19, <1>20
     DEF SchedNext, Call, Fire, Crash, Panic

\* No task that is scheduled is forgotten: while the scheduler runs the timer
\* is set for it or a firing is under way, unless an edit of it was refused.
THEOREM TimerCorrect == SchedSpec => []TimerCoversTasks
<1>1. SchedInit => TimerCoversTasks
  BY DEF SchedInit, TimerCoversTasks, TimerCoversExcept
<1>2. SchedTyped => SchedTypeOK
  BY DEF SchedTyped
<1>3. QED
  BY <1>1, <1>2, TimerKept, SchedTypedAlways, PTL DEF SchedSpec

-----------------------------------------------------------------------------
(* Runs are credited to the task that ran.  For every task, the runs in    *)
(* progress and those on record are no more than the runs begun for it: a  *)
(* run that ends moves one from the first to the second, on an entry of    *)
(* the same task or on none.                                               *)

Ongoing(id) == {f \in Firings : firePC[f] \in {"run", "record"} /\ snap[f].id = id}
ByHand(id) == IF manual = id THEN 1 ELSE 0
InProgress(id) == Cardinality(Ongoing(id)) + ByHand(id)

Entries == {tasks[i] : i \in DOMAIN tasks} \cup {disk[i] : i \in DOMAIN disk}
Owes(t) == t.runCount + InProgress(t.id) <= started[t.id]

CreditInv ==
    /\ \A id \in Ids : InProgress(id) <= started[id]
    /\ \A t \in Tasks : t \in Entries => Owes(t)

LEMMA OngoingIs ==
    /\ \A id : IsFiniteSet(Ongoing(id)) /\ Cardinality(Ongoing(id)) \in Nat
    /\ \A id : ByHand(id) \in {0, 1}
<1>1. ASSUME NEW id PROVE IsFiniteSet(Ongoing(id)) /\ Cardinality(Ongoing(id)) \in Nat
  <2>1. Ongoing(id) \subseteq Firings /\ IsFiniteSet(Firings)
    BY ClockAssumption DEF Ongoing
  <2>2. IsFiniteSet(Ongoing(id))
    BY <2>1, FS_Subset, Zenon
  <2>3. QED
    BY <2>2, FS_CardinalityType, Zenon
<1>2. QED
  BY <1>1 DEF ByHand

LEMMA InProgressIs == \A id : InProgress(id) \in Nat
BY OngoingIs DEF InProgress

\* What a step makes of the runs in progress.
OngoingKept == \A id \in Ids : Ongoing(id)' = Ongoing(id)

LEMMA GoroutineSteps ==
    ASSUME SchedTyped, NEW f \in Firings,
           FireTimer(f) \/ Guard(f) \/ Collect(f) \/ Deliver(f) \/ EndOfDue(f) \/ Rearm(f)
    PROVE  OngoingKept
<1>1. firePC \in [Firings -> FirePCs]
  BY DEF SchedTyped, SchedTypeOK, FirePCs
<1>2. snap' = snap
  BY DEF FireTimer, Guard, Collect, Deliver, EndOfDue, Rearm
<1>3. \E from, to \in FirePCs :
        /\ firePC[f] = from /\ firePC' = [firePC EXCEPT ![f] = to]
        /\ from \in {"run", "record"} <=> to \in {"run", "record"}
  BY DEF FireTimer, Guard, Collect, Deliver, EndOfDue, Rearm, At, FirePCs
<1>4. \A g \in Firings : firePC'[g] \in {"run", "record"} <=> firePC[g] \in {"run", "record"}
  BY <1>1, <1>3
<1>5. QED
  BY <1>2, <1>4 DEF OngoingKept, Ongoing

LEMMA BeginRunOngoing ==
    ASSUME SchedTyped, NEW f \in Firings, BeginRun(f)
    PROVE  \E t \in Tasks :
             /\ started' = [started EXCEPT ![t.id] = started[t.id] + 1]
             /\ f \notin Ongoing(t.id) /\ Ongoing(t.id)' = Ongoing(t.id) \cup {f}
             /\ \A id \in Ids \ {t.id} : Ongoing(id)' = Ongoing(id)
<1>1. firePC \in [Firings -> FirePCs] /\ tasks \in Seq(Tasks) /\ snap \in [Firings -> Tasks \cup {NoId}]
  BY DEF SchedTyped, SchedTypeOK, FirePCs
<1>2. Index(f) \in Nat \ {0} /\ Index(f) <= Len(tasks) /\ due[f] # {}
  BY IndexIs DEF BeginRun, SchedTyped
<1>3. PICK t \in Tasks : t = tasks[Index(f)]
  BY <1>1, <1>2
<1>4. firePC[f] = "next" /\ firePC' = [firePC EXCEPT ![f] = "run"] /\ snap' = [snap EXCEPT ![f] = t]
      /\ started' = [started EXCEPT ![t.id] = started[t.id] + 1]
  BY <1>3 DEF BeginRun, At
<1>5. \A g \in Firings : (firePC'[g] \in {"run", "record"} <=> (firePC[g] \in {"run", "record"} \/ g = f))
                         /\ snap'[g] = IF g = f THEN t ELSE snap[g]
  BY <1>1, <1>4
<1>6. ASSUME NEW id \in Ids PROVE Ongoing(id)' = {g \in Firings : g \in Ongoing(id) \/ (g = f /\ t.id = id)}
  BY <1>4, <1>5 DEF Ongoing
<1>7. f \notin Ongoing(t.id)
  BY <1>4 DEF Ongoing
<1>8. t.id \in Ids
  BY <1>3 DEF Tasks
<1>9. Ongoing(t.id)' = Ongoing(t.id) \cup {f}
  BY <1>6, <1>8 DEF Ongoing
<1>10. \A id \in Ids \ {t.id} : Ongoing(id)' = Ongoing(id)
  BY <1>6 DEF Ongoing
<1>11. QED
  BY <1>3, <1>4, <1>7, <1>9, <1>10

LEMMA RecordOngoing ==
    ASSUME SchedTyped, NEW f \in Firings, Record(f)
    PROVE  \E j \in Ids :
             /\ j = snap[f].id
             /\ f \in Ongoing(j) /\ Ongoing(j)' = Ongoing(j) \ {f}
             /\ \A id \in Ids \ {j} : Ongoing(id)' = Ongoing(id)
<1>1. firePC \in [Firings -> FirePCs] /\ (firePC[f] \in {"run", "record"} => snap[f] \in Tasks)
  BY DEF SchedTyped, SchedTypeOK, FirePCs
<1>2. firePC[f] = "record" /\ firePC' = [firePC EXCEPT ![f] = "next"] /\ snap' = snap
  BY DEF Record, At
<1>3. \A g \in Firings : firePC'[g] \in {"run", "record"} <=> (firePC[g] \in {"run", "record"} /\ g # f)
  BY <1>1, <1>2
<1>4. \A id : Ongoing(id)' = Ongoing(id) \ {f}
  BY <1>2, <1>3 DEF Ongoing
<1>5. \A id : f \in Ongoing(id) <=> id = snap[f].id
  BY <1>2 DEF Ongoing
<1>6. PICK j \in Ids : j = snap[f].id
  BY <1>1, <1>2 DEF Tasks
<1>7. \A id \in Ids \ {j} : Ongoing(id)' = Ongoing(id)
  BY <1>4, <1>5, <1>6
<1>8. QED
  BY <1>4, <1>5, <1>6, <1>7

\* No step lets the runs in progress grow by more than the runs begun; the end
\* of a run makes room for its record.
Grows(id, n) == InProgress(id)' + n + started[id] <= InProgress(id) + started'[id]

LEMMA SameProgress ==
    ASSUME started \in [Ids -> Nat], NEW id \in Ids, Ongoing(id)' = Ongoing(id), UNCHANGED <<manual, started>>
    PROVE  Grows(id, 0)
<1>1. InProgress(id)' = InProgress(id)
  BY Zenon DEF InProgress, ByHand
<1>2. InProgress(id) \in Nat /\ started[id] \in Nat
  BY InProgressIs
<1>3. QED
  BY <1>1, <1>2 DEF Grows

LEMMA Progress ==
    ASSUME SchedTyped, [SchedNext]_schedVars, ~Die
    PROVE  \A id \in Ids : Grows(id, 0)
<1>1. SchedTypeOK /\ started \in [Ids -> Nat] /\ NoId \notin Ids
  BY ClockAssumption DEF SchedTyped, SchedTypeOK
<1>2. ASSUME OngoingKept, UNCHANGED <<manual, started>> PROVE \A id \in Ids : Grows(id, 0)
  BY <1>1, <1>2, SameProgress DEF OngoingKept
<1>3. ASSUME UNCHANGED fireVars PROVE OngoingKept
  BY <1>3 DEF fireVars, OngoingKept, Ongoing
<1>4. ASSUME NEW f \in Firings, FireTimer(f) \/ Guard(f) \/ Collect(f) \/ Deliver(f) \/ EndOfDue(f) \/ Rearm(f)
      PROVE  \A id \in Ids : Grows(id, 0)
  <2>1. OngoingKept
    BY <1>4, GoroutineSteps
  <2>2. UNCHANGED <<manual, started>>
    BY <1>4 DEF FireTimer, Guard, Collect, Deliver, EndOfDue, Rearm
  <2>3. QED
    BY <1>2, <2>1, <2>2
<1>5. ASSUME NEW f \in Firings, BeginRun(f), NEW id \in Ids PROVE Grows(id, 0)
  <2>1. PICK t \in Tasks :
          /\ started' = [started EXCEPT ![t.id] = started[t.id] + 1]
          /\ f \notin Ongoing(t.id) /\ Ongoing(t.id)' = Ongoing(t.id) \cup {f}
          /\ \A j \in Ids \ {t.id} : Ongoing(j)' = Ongoing(j)
    BY <1>5, BeginRunOngoing
  <2>2. ByHand(id)' = ByHand(id) /\ ByHand(id) \in {0, 1}
    BY <1>5, OngoingIs DEF ByHand, BeginRun
  <2>3. CASE id = t.id
    <3>1. Cardinality(Ongoing(id)') = Cardinality(Ongoing(id)) + 1
      BY <2>1, <2>3, OngoingIs, FS_AddElement, Zenon
    <3>2. started'[id] = started[id] + 1 /\ started[id] \in Nat /\ Cardinality(Ongoing(id)) \in Nat
      BY <1>1, <2>1, <2>3, OngoingIs
    <3>3. QED
      BY <2>2, <3>1, <3>2 DEF Grows, InProgress
  <2>4. CASE id # t.id
    <3>1. Ongoing(id)' = Ongoing(id) /\ started'[id] = started[id] /\ started[id] \in Nat
          /\ Cardinality(Ongoing(id)) \in Nat
      BY <1>1, <2>1, <2>4, OngoingIs
    <3>2. QED
      BY <2>2, <3>1 DEF Grows, InProgress
  <2>5. QED
    BY <2>3, <2>4
<1>6. ASSUME NEW f \in Firings, Record(f), NEW id \in Ids PROVE Grows(id, 0)
  <2>1. UNCHANGED <<manual, started>>
    BY <1>6 DEF Record
  <2> PICK j \in Ids : /\ f \in Ongoing(j) /\ Ongoing(j)' = Ongoing(j) \ {f}
                       /\ \A k \in Ids \ {j} : Ongoing(k)' = Ongoing(k)
    BY <1>6, RecordOngoing
  <2>2. CASE id = j
    <3>1. Cardinality(Ongoing(id)') = Cardinality(Ongoing(id)) - 1
      BY <2>2, OngoingIs, FS_RemoveElement, ZenonT(30)
    <3>2. started[id] \in Nat /\ Cardinality(Ongoing(id)) \in Nat /\ ByHand(id) \in {0, 1} /\ ByHand(id)' = ByHand(id)
      BY <1>1, <2>1, OngoingIs DEF ByHand
    <3>3. QED
      BY <2>1, <3>1, <3>2 DEF Grows, InProgress
  <2>3. CASE id # j
    BY <1>1, <2>1, <2>3, SameProgress
  <2>4. QED
    BY <2>2, <2>3
<1>7. ASSUME NEW k \in Ids, BeginRunNow(k), NEW id \in Ids PROVE Grows(id, 0)
  <2>1. Ongoing(id)' = Ongoing(id) /\ Cardinality(Ongoing(id)) \in Nat
    BY <1>3, <1>7, OngoingIs DEF BeginRunNow, OngoingKept
  <2>2. manual = NoId /\ manual' = k /\ started' = [started EXCEPT ![k] = started[k] + 1]
    BY <1>7 DEF BeginRunNow
  <2>3. started[id] \in Nat /\ started'[id] = IF id = k THEN started[id] + 1 ELSE started[id]
    BY <1>1, <2>2
  <2>4. ByHand(id) = 0 /\ ByHand(id)' = IF id = k THEN 1 ELSE 0
    BY <1>1, <2>2 DEF ByHand
  <2>5. QED
    BY <2>1, <2>3, <2>4 DEF Grows, InProgress
<1>8. ASSUME EndRunNow, NEW id \in Ids PROVE Grows(id, 0)
  <2>1. Ongoing(id)' = Ongoing(id) /\ Cardinality(Ongoing(id)) \in Nat /\ started[id] \in Nat /\ started' = started
    BY <1>1, <1>3, <1>8, OngoingIs DEF EndRunNow, OngoingKept
  <2>2. ByHand(id)' = 0 /\ ByHand(id) \in {0, 1}
    BY <1>1, <1>8, OngoingIs DEF EndRunNow, ByHand
  <2>3. QED
    BY <2>1, <2>2 DEF Grows, InProgress
<1>9. CASE Tick \/ Stop \/ DrainMissedReminders \/ Load \/ StartTimer \/ UNCHANGED schedVars
  <2>1. UNCHANGED <<fireVars, manual, started>>
    BY <1>9, Zenon DEF Tick, Stop, DrainMissedReminders, Load, StartTimer, schedVars, fireVars
  <2>2. QED
    BY <1>2, <1>3, <2>1
<1>10. ASSUME NEW k \in Ids, Delete(k) \/ \E e \in Expressions : Create(k, e) \/ \E on \in BOOLEAN : Update(k, e, on)
       PROVE  \A id \in Ids : Grows(id, 0)
  <2>1. UNCHANGED <<fireVars, manual, started>>
    BY <1>10, Zenon DEF Delete, Create, Update, fireVars
  <2>2. QED
    BY <1>2, <1>3, <2>1
<1>11. QED
  BY <1>4, <1>5, <1>6, <1>7, <1>8, <1>9, <1>10 DEF SchedNext, Call, Fire, Crash, Panic

LEMMA EndsOfRuns ==
    ASSUME SchedTyped
    PROVE  /\ \A f \in Firings : Record(f) => \E id \in Ids : id = snap[f].id /\ Grows(id, 1)
           /\ EndRunNow => \E id \in Ids : id = manual /\ Grows(id, 1)
<1>1. started \in [Ids -> Nat] /\ manual \in Ids \cup {NoId}
  BY DEF SchedTyped, SchedTypeOK
<1>2. ASSUME NEW f \in Firings, Record(f) PROVE \E id \in Ids : id = snap[f].id /\ Grows(id, 1)
  <2> PICK id \in Ids : id = snap[f].id /\ f \in Ongoing(id) /\ Ongoing(id)' = Ongoing(id) \ {f}
    BY <1>2, RecordOngoing
  <2>1. Cardinality(Ongoing(id)') = Cardinality(Ongoing(id)) - 1
    BY OngoingIs, FS_RemoveElement, ZenonT(30)
  <2>2. Cardinality(Ongoing(id)) \in Nat /\ ByHand(id) \in {0, 1}
    BY OngoingIs
  <2>3. UNCHANGED <<manual, started>>
    BY <1>2 DEF Record
  <2>4. QED
    BY <1>1, <2>1, <2>2, <2>3 DEF Grows, InProgress, ByHand
<1>3. ASSUME EndRunNow PROVE \E id \in Ids : id = manual /\ Grows(id, 1)
  <2>1. UNCHANGED <<fireVars, started>> /\ manual' = NoId /\ manual # NoId
    BY <1>3 DEF EndRunNow
  <2>2. PICK id \in Ids : id = manual
    BY <1>1, <2>1
  <2>3. Ongoing(id)' = Ongoing(id) /\ Cardinality(Ongoing(id)) \in Nat
    BY <2>1, OngoingIs DEF Ongoing, fireVars
  <2>4. ByHand(id) = 1 /\ ByHand(id)' = 0
    BY <2>1, <2>2 DEF ByHand
  <2>5. QED
    BY <1>1, <2>1, <2>2, <2>3, <2>4 DEF Grows, InProgress
<1>4. QED
  BY <1>2, <1>3

\* What a step makes of the entries, in memory and in the file: most keep the
\* task and the count of one that was there.
SameCount(t) == \E u \in Entries : u \in Tasks /\ t.id = u.id /\ t.runCount = u.runCount

LEMMA EntriesAre == SchedTypeOK => \A t \in Entries : t \in Tasks
<1>1. SUFFICES ASSUME SchedTypeOK PROVE \A t \in Entries : t \in Tasks
  OBVIOUS
<1>2. tasks \in Seq(Tasks) /\ disk \in Seq(Tasks)
  BY <1>1 DEF SchedTypeOK
<1>3. (\A i \in DOMAIN tasks : tasks[i] \in Tasks) /\ \A i \in DOMAIN disk : disk[i] \in Tasks
  BY <1>2
<1>4. QED
  BY <1>3 DEF Entries

LEMMA EntriesStep ==
    ASSUME SchedTyped, [SchedNext]_schedVars, NEW t \in Tasks, t \in Entries'
    PROVE  \/ SameCount(t)
           \/ t.id \in Ids /\ t.runCount = 0 /\ ~Die
           \/ \E f \in Firings : Record(f) /\ \E u \in Entries :
                u \in Tasks /\ u.id = snap[f].id /\ t.id = u.id /\ t.runCount = u.runCount + 1
           \/ EndRunNow /\ \E u \in Entries : u \in Tasks /\ u.id = manual /\ t.id = u.id /\ t.runCount = u.runCount + 1
<1> DEFINE Goal == \/ SameCount(t)
                   \/ t.id \in Ids /\ t.runCount = 0 /\ ~Die
                   \/ \E f \in Firings : Record(f) /\ \E u \in Entries :
                        u \in Tasks /\ u.id = snap[f].id /\ t.id = u.id /\ t.runCount = u.runCount + 1
                   \/ EndRunNow /\ \E u \in Entries :
                        u \in Tasks /\ u.id = manual /\ t.id = u.id /\ t.runCount = u.runCount + 1
<1>1. SchedTypeOK /\ tasks \in Seq(Tasks) /\ disk \in Seq(Tasks) /\ now \in Nat
  BY TimesAre DEF SchedTyped, SchedTypeOK
<1>2. /\ \A i \in DOMAIN tasks : tasks[i] \in Tasks /\ tasks[i] \in Entries
      /\ \A i \in DOMAIN disk : disk[i] \in Tasks /\ disk[i] \in Entries
  BY <1>1 DEF Entries
<1>3. \A u \in Entries : u \in Tasks
  BY <1>1, EntriesAre
<1>4. ASSUME t \in Entries PROVE Goal
  BY <1>3, <1>4 DEF SameCount
<1>5. ASSUME UNCHANGED <<tasks, disk>> PROVE Goal
  BY <1>4, <1>5 DEF Entries
\* One entry is replaced, and the list saved or the file left alone.
<1>6. ASSUME NEW i \in DOMAIN tasks, NEW u \in Tasks, tasks' = [tasks EXCEPT ![i] = u], disk' \in {disk, tasks'}
      PROVE  t \in Entries \/ t = u
  <2>1. \A k \in DOMAIN tasks' : tasks'[k] = u \/ tasks'[k] \in Entries
    BY <1>1, <1>2, <1>6, ReplaceIs
  <2>2. \A k \in DOMAIN disk' : disk'[k] = u \/ disk'[k] \in Entries
    BY <1>2, <1>6, <2>1
  <2>3. QED
    BY <2>1, <2>2 DEF Entries
<1>7. ASSUME NEW f \in Firings, Record(f) PROVE Goal
  <2>1. CASE UNCHANGED <<tasks, disk, refused>>
    BY <1>5, <2>1
  <2>2. ASSUME NEW i \in DOMAIN tasks, tasks[i].id = snap[f].id,
               tasks' = [tasks EXCEPT ![i] = Rescheduled(tasks[i])], disk' = tasks'
        PROVE  Goal
    <3>1. /\ Rescheduled(tasks[i]) \in Tasks /\ Rescheduled(tasks[i]).id = tasks[i].id
          /\ Rescheduled(tasks[i]).runCount = tasks[i].runCount + 1
      BY <1>1, <1>2, EntryIs
    <3>2. t \in Entries \/ t = Rescheduled(tasks[i])
      BY <1>6, <2>2, <3>1
    <3>3. QED
      BY <1>2, <1>4, <1>7, <2>2, <3>1, <3>2
  <2>3. QED
    BY <1>7, <2>1, <2>2, RecordIs
<1>8. CASE EndRunNow
  <2>1. CASE UNCHANGED <<tasks, disk, refused>>
    BY <1>5, <2>1
  <2>2. ASSUME NEW i \in DOMAIN tasks, tasks[i].id = manual,
               tasks' = [tasks EXCEPT ![i] = Counted(tasks[i])], disk' = tasks'
        PROVE  Goal
    <3>1. \A u \in Tasks : Counted(u) \in Tasks /\ Counted(u).id = u.id /\ Counted(u).runCount = u.runCount + 1
      BY DEF Tasks, Counted
    <3>2. t \in Entries \/ t = Counted(tasks[i])
      BY <1>2, <1>6, <2>2, <3>1
    <3>3. QED
      BY <1>2, <1>4, <1>8, <2>2, <3>1, <3>2
  <2>3. QED
    BY <1>8, <2>1, <2>2, EndRunNowIs
<1>9. ASSUME NEW id \in Ids, NEW e \in Expressions, NEW on \in BOOLEAN, Update(id, e, on) PROVE Goal
  <2>1. PICK i \in DOMAIN tasks :
          /\ disk' \in {disk, tasks'}
          /\ tasks' \in {[tasks EXCEPT ![i] = AcceptedEdit(tasks[i], e, on)],
                         [tasks EXCEPT ![i] = RefusedEdit(tasks[i], e, on)]}
    BY <1>9, UpdateIs DEF SaveAccepted
  <2>2. tasks[i] \in Tasks /\ tasks[i] \in Entries
    BY <1>2
  <2>3. \E u \in Tasks : /\ tasks' = [tasks EXCEPT ![i] = u]
                         /\ u.id = tasks[i].id /\ u.runCount = tasks[i].runCount
    BY <1>1, <2>1, <2>2, EditIs
  <2>4. QED
    BY <1>4, <1>6, <2>1, <2>2, <2>3 DEF SameCount
<1>10. ASSUME NEW id \in Ids, NEW e \in Expressions, Create(id, e) PROVE Goal
  <2>1. tasks' = Append(tasks, Fresh(id, e)) /\ disk' = tasks' /\ phase' = "up"
    BY <1>10, CreateIs DEF Create
  <2>2. \A k \in DOMAIN tasks' : tasks'[k] = Fresh(id, e) \/ tasks'[k] \in Entries
    BY <1>1, <1>2, <2>1, FreshIs, AppendIs
  <2>3. t = Fresh(id, e) \/ t \in Entries
    BY <2>1, <2>2 DEF Entries
  <2>4. t = Fresh(id, e) => t.id \in Ids /\ t.runCount = 0
    BY DEF Fresh
  <2>5. ~Die
    BY <2>1 DEF Die
  <2>6. QED
    BY <1>4, <2>3, <2>4, <2>5
<1>11. ASSUME NEW id \in Ids, Delete(id) PROVE Goal
  <2>1. \A k \in DOMAIN tasks' : tasks'[k] \in Entries
    BY <1>1, <1>2, <1>11, DeleteIs, RemoveIs
  <2>2. QED
    BY <1>4, <1>11, <2>1, DeleteIs DEF Entries
<1>12. CASE Load
  <2>1. disk' = disk /\ \A k \in DOMAIN tasks' : k \in DOMAIN disk /\ tasks'[k] = Reloaded(disk[k])
    BY <1>1, <1>12, LoadIs DEF Load
  <2>2. \A k \in DOMAIN tasks' : SameCount(tasks'[k])
    BY <1>1, <1>2, <2>1, EntryIs DEF SameCount
  <2>3. t \in {tasks'[k] : k \in DOMAIN tasks'} \/ t \in Entries
    BY <2>1 DEF Entries
  <2>4. QED
    BY <1>4, <2>2, <2>3
<1>13. CASE StartTimer
  BY <1>4, <1>13 DEF StartTimer, Entries
<1>14. CASE Die
  <2>1. disk' = disk /\ DOMAIN tasks' = {}
    BY <1>14 DEF Die
  <2>2. QED
    BY <1>4, <2>1 DEF Entries
<1>15. ASSUME NEW f \in Firings, FireTimer(f) \/ Guard(f) \/ Collect(f) \/ BeginRun(f) \/ Deliver(f) \/ EndOfDue(f) \/ Rearm(f)
       PROVE  Goal
  BY <1>5, <1>15, Zenon DEF FireTimer, Guard, Collect, BeginRun, Deliver, EndOfDue, Rearm, taskVars
<1>16. CASE Tick \/ Stop \/ DrainMissedReminders \/ UNCHANGED schedVars \/ \E id \in Ids : BeginRunNow(id)
  BY <1>5, <1>16, Zenon DEF Tick, Stop, DrainMissedReminders, schedVars, BeginRunNow, taskVars
<1>17. Goal
  <2>1. ASSUME NEW f \in Firings, FireTimer(f) \/ Fire(f) PROVE Goal
    BY <1>7, <1>14, <1>15, <2>1 DEF Fire, Panic
  <2>2. CASE Call
    BY <1>9, <1>10, <1>11, <1>16, <2>2, Zenon DEF Call
  <2>3. QED
    BY <1>8, <1>12, <1>13, <1>14, <1>16, <2>1, <2>2, Zenon DEF SchedNext, Crash
<1>18. QED
  BY <1>17

LEMMA CreditKept == SchedTyped /\ CreditInv /\ [SchedNext]_schedVars => CreditInv'
<1>1. SUFFICES ASSUME SchedTyped, CreditInv, [SchedNext]_schedVars PROVE CreditInv'
  OBVIOUS
<1>2. started \in [Ids -> Nat] /\ NoId \notin Ids
  BY <1>1, ClockAssumption DEF SchedTyped, SchedTypeOK
<1>3. started' \in [Ids -> Nat]
  BY <1>1, StartedKept
<1>4. \A id \in Ids : InProgress(id) \in Nat /\ InProgress(id)' \in Nat /\ InProgress(id) <= started[id]
  <2>1. (\A id : InProgress(id) \in Nat)'
    BY InProgressIs, PTL
  <2>2. QED
    BY <1>1, <2>1, InProgressIs DEF CreditInv
<1>5. \A t \in Tasks : t.id \in Ids /\ t.runCount \in Nat
  BY DEF Tasks
<1>6. CASE Die
  <2>1. \A id \in Ids : InProgress(id)' = 0
    <3>1. \A id \in Ids : Ongoing(id)' = {}
      BY <1>6 DEF Die, Ongoing
    <3>2. \A id \in Ids : ByHand(id)' = 0
      BY <1>2, <1>6 DEF Die, ByHand
    <3>3. QED
      BY <3>1, <3>2, FS_EmptySet DEF InProgress
  <2>2. started' = started
    BY <1>6 DEF Die
  <2>3. ASSUME NEW t \in Tasks, t \in Entries' PROVE Owes(t)'
    <3>1. t \in Entries
      BY <1>6, <2>3 DEF Die, Entries
    <3>2. t.runCount + InProgress(t.id) <= started[t.id]
      BY <1>1, <3>1 DEF CreditInv, Owes
    <3>3. QED
      BY <1>2, <1>4, <1>5, <2>1, <2>2, <3>2 DEF Owes
  <2>4. QED
    BY <1>2, <2>1, <2>2, <2>3 DEF CreditInv
<1>7. CASE ~Die
  <2>1. \A id \in Ids : Grows(id, 0)
    BY <1>1, <1>7, Progress
  <2>2. \A id \in Ids : InProgress(id)' <= started'[id]
    BY <1>2, <1>3, <1>4, <2>1 DEF Grows
  <2>3. ASSUME NEW t \in Tasks, t \in Entries' PROVE Owes(t)'
    <3>1. CASE SameCount(t)
      <4>1. t.runCount + InProgress(t.id) <= started[t.id]
        BY <1>1, <3>1 DEF SameCount, CreditInv, Owes
      <4>2. Grows(t.id, 0)
        BY <1>5, <2>1
      <4>3. QED
        BY <1>2, <1>3, <1>4, <1>5, <4>1, <4>2 DEF Owes, Grows
    <3>2. CASE t.runCount = 0
      BY <1>4, <1>5, <2>2, <3>2 DEF Owes
    <3>3. CASE \/ \E f \in Firings : Record(f) /\ \E u \in Entries :
                    u \in Tasks /\ u.id = snap[f].id /\ t.id = u.id /\ t.runCount = u.runCount + 1
               \/ EndRunNow /\ \E u \in Entries :
                    u \in Tasks /\ u.id = manual /\ t.id = u.id /\ t.runCount = u.runCount + 1
      <4>1. PICK u \in Entries : u \in Tasks /\ t.id = u.id /\ t.runCount = u.runCount + 1 /\ Grows(t.id, 1)
        BY <1>1, <3>3, EndsOfRuns
      <4>2. u.runCount + InProgress(t.id) <= started[t.id]
        BY <1>1, <4>1 DEF CreditInv, Owes
      <4>3. QED
        BY <1>2, <1>3, <1>4, <1>5, <4>1, <4>2 DEF Owes, Grows
    <3>4. QED
      BY <1>1, <2>3, <3>1, <3>2, <3>3, EntriesStep
  <2>4. QED
    BY <2>2, <2>3 DEF CreditInv
<1>8. QED
  BY <1>6, <1>7

\* No entry counts more runs than were begun for its task, whatever was
\* deleted, added, reloaded or run by hand while the runs lasted.
THEOREM CreditCorrect == SchedSpec => []RunsCreditedToTask
<1>1. SchedInit => CreditInv
  <2>1. SUFFICES ASSUME SchedInit PROVE CreditInv
    OBVIOUS
  <2>2. Entries = {} /\ NoId \notin Ids
    BY <2>1, ClockAssumption DEF SchedInit, Entries
  <2>3. \A id \in Ids : Ongoing(id) = {} /\ ByHand(id) = 0 /\ started[id] = 0
    BY <2>1, <2>2 DEF SchedInit, Ongoing, ByHand
  <2>4. QED
    BY <2>2, <2>3, FS_EmptySet DEF CreditInv, InProgress
<1>2. SchedTyped /\ CreditInv => RunsCreditedToTask
  <2>1. SUFFICES ASSUME SchedTyped, CreditInv, NEW i \in DOMAIN tasks
                 PROVE  tasks[i].runCount <= started[tasks[i].id]
    BY DEF RunsCreditedToTask
  <2>2. tasks[i] \in Entries /\ tasks[i] \in Tasks
    BY <2>1, EntriesAre DEF Entries, SchedTyped
  <2>3. tasks[i].runCount + InProgress(tasks[i].id) <= started[tasks[i].id]
    BY <2>1, <2>2 DEF CreditInv, Owes
  <2>4. tasks[i].runCount \in Nat /\ tasks[i].id \in Ids
    BY <2>2 DEF Tasks
  <2>5. InProgress(tasks[i].id) \in Nat
    BY InProgressIs
  <2>6. started[tasks[i].id] \in Nat
    BY <2>1, <2>4 DEF SchedTyped, SchedTypeOK
  <2>7. QED
    BY <2>3, <2>4, <2>5, <2>6
<1>3. QED
  BY <1>1, <1>2, CreditKept, SchedTypedAlways, PTL DEF SchedSpec
=============================================================================
