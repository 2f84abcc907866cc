----------------------------- MODULE JobBoard -------------------------------
(***************************************************************************)
(* What the background-job manager promises the agent that started a job,  *)
(* whatever the goroutines of the job, of Kill, Wait and Close do: a board *)
(* with two cells for each job.  One shows how it stands, the other is the *)
(* note about its end that waits for the next turn.  Each cell is filled   *)
(* in once.  A job that ends by itself is noted before it is shown ended,  *)
(* with the same end; only a kill may show an end of its own.              *)
(***************************************************************************)
CONSTANT Jobs

VARIABLES shown,   \* job -> "none", "running" or its end
          note     \* job -> where the note about its end is, and what it says

boardVars == <<shown, note>>

Ends == {"done", "failed", "killed"}
NoNote == [at |-> "none", says |-> "none"]

Init ==
    /\ shown = [j \in Jobs |-> "none"]
    /\ note = [j \in Jobs |-> NoNote]

\* A job is put on the board.
Put(j) ==
    /\ shown[j] = "none"
    /\ shown' = [shown EXCEPT ![j] = "running"]
    /\ UNCHANGED note

\* A job on the board is killed.
Strike(j) ==
    /\ shown[j] = "running"
    /\ shown' = [shown EXCEPT ![j] = "killed"]
    /\ UNCHANGED note

\* A note about its end is written.
Write(j, end) ==
    /\ shown[j] \in {"running", "killed"} /\ note[j] = NoNote
    /\ note' = [note EXCEPT ![j] = [at |-> "queued", says |-> end]]
    /\ UNCHANGED shown

\* The board shows the end that the note tells.
Show(j) ==
    /\ shown[j] = "running" /\ note[j] # NoNote
    /\ shown' = [shown EXCEPT ![j] = note[j].says]
    /\ UNCHANGED note

\* A turn takes all notes that wait.
Take ==
    /\ \E j \in Jobs : note[j].at = "queued"
    /\ note' = [j \in Jobs |-> IF note[j].at = "queued" THEN [note[j] EXCEPT !.at = "taken"] ELSE note[j]]
    /\ UNCHANGED shown

Next ==
    \/ \E j \in Jobs : Put(j) \/ Strike(j) \/ Show(j) \/ \E end \in Ends : Write(j, end)
    \/ Take

Spec == Init /\ [][Next]_boardVars
=============================================================================
