------------------------------ MODULE JobOutput ------------------------------
(***************************************************************************)
(* What a background job's output becomes in internal/jobs/jobs.go: the    *)
(* capped buffer the job writes to, the cursor Output reads it with, and   *)
(* the result text of a job that streams nothing.  Byte n of the stream is *)
(* the number n; a character of the truncation marker is Mark.             *)
(***************************************************************************)
EXTENDS Naturals, Sequences, FiniteSets

CONSTANTS tailCap,   \* half of the cap: 512 KiB in the code
          MaxBytes,  \* length of the stream (bound)
          MaxWrite   \* length of one write (bound)

Mark == 0

VARIABLES
    written,     \* bytes the job wrote
    head,        \* b.head
    tail,        \* b.tail
    full,        \* b.full
    truncated,   \* b.truncated
    readOffset,  \* j.readOffset
    status,      \* j.status: running, killed or ended
    ended,       \* the goroutine set j.result and returned
    answer,      \* j.result is not empty
    resultRead,  \* j.resultRead
    seen,        \* bytes an Output call returned (history)
    repeated,    \* bytes returned twice (history)
    shown,       \* how often the result was returned (history, up to two)
    over         \* Output returned nothing for a job that had ended (history)

bufferVars == <<written, head, tail, full, truncated>>
jobVars == <<status, ended, answer>>
readVars == <<readOffset, resultRead, seen, repeated, shown, over>>
vars == <<bufferVars, jobVars, readVars>>

Bytes == 1..MaxBytes

TypeOK ==
    /\ written \in 0..MaxBytes
    /\ head \in Seq(Bytes)
    /\ tail \in Seq(Bytes)
    /\ full \in BOOLEAN
    /\ truncated \in 0..MaxBytes
    /\ readOffset \in Nat
    /\ status \in {"running", "killed", "ended"}
    /\ ended \in BOOLEAN
    /\ answer \in BOOLEAN
    /\ resultRead \in BOOLEAN
    /\ seen \subseteq Bytes
    /\ repeated \subseteq Bytes
    /\ shown \in 0..2
    /\ over \in BOOLEAN

Init ==
    /\ written = 0
    /\ head = <<>>
    /\ tail = <<>>
    /\ full = FALSE
    /\ truncated = 0
    /\ readOffset = 0
    /\ status = "running"
    /\ ended = FALSE
    /\ answer = FALSE
    /\ resultRead = FALSE
    /\ seen = {}
    /\ repeated = {}
    /\ shown = 0
    /\ over = FALSE

-----------------------------------------------------------------------------
(* cappedBuffer.                                                           *)

\* The bytes of one write.
Stream(from, to) == [i \in 1..(to + 1 - from) |-> from + i - 1]
LastOf(s, n) == SubSeq(s, Len(s) - n + 1, Len(s))
Excess(s) == IF Len(s) > tailCap THEN Len(s) - tailCap ELSE 0

\* Variant: a write past the cap reports only the bytes it kept.
WriteUncounted(n) ==
    LET p == Stream(written + 1, written + n) IN
    /\ ~ended
    /\ written + n <= MaxBytes
    /\ written' = written + n
    /\ IF full THEN UNCHANGED <<head, tail, full, truncated>>
       ELSE IF Len(head) + n <= tailCap THEN head' = head \o p /\ UNCHANGED <<tail, full, truncated>>
       ELSE /\ full' = TRUE
            /\ tail' = LastOf(p, Len(p) - Excess(p))
            /\ truncated' = truncated + Excess(p)
            /\ UNCHANGED head
    /\ UNCHANGED <<jobVars, readVars>>

\* Write: the head while it has room; the first write that does not fit
\* becomes the tail, cut to its last bytes; all later ones are discarded.
Write(n) ==
    LET p == Stream(written + 1, written + n) IN
    /\ ~ended
    /\ written + n <= MaxBytes
    /\ written' = written + n
    /\ \/ /\ full
          /\ truncated' = truncated + n
          /\ UNCHANGED <<head, tail, full>>
       \/ /\ ~full /\ Len(head) + n <= tailCap
          /\ head' = head \o p
          /\ UNCHANGED <<tail, full, truncated>>
       \/ /\ ~full /\ Len(head) + n > tailCap
          /\ full' = TRUE
          /\ tail' = LastOf(tail \o p, Len(tail \o p) - Excess(tail \o p))
          /\ truncated' = truncated + Excess(tail \o p)
          /\ UNCHANGED head
    /\ UNCHANGED <<jobVars, readVars>>

\* The marker: the decimal digits of truncated.  The fixed text around them,
\* much shorter than the head in the code, is left out.
Digits(n) == IF n < 10 THEN 1 ELSE IF n < 100 THEN 2 ELSE 3
Marker(n) == [i \in 1..Digits(n) |-> Mark]

String == IF full THEN head \o Marker(truncated) \o tail ELSE head

-----------------------------------------------------------------------------
(* Output and the job's end.                                               *)

BytesOf(s) == {s[i] : i \in DOMAIN s} \ {Mark}

\* A terminal job with nothing new in the buffer shows its result, once.
ResultDue(text) == text = <<>> /\ status # "running" /\ answer /\ ~resultRead

\* full[j.readOffset:]
Output ==
    /\ readOffset <= Len(String)
    /\ LET text == SubSeq(String, readOffset + 1, Len(String)) IN
        /\ readOffset' = Len(String)
        /\ seen' = seen \cup BytesOf(text)
        /\ repeated' = repeated \cup (seen \cap BytesOf(text))
        /\ resultRead' = (resultRead \/ ResultDue(text))
        /\ shown' = IF ResultDue(text) /\ shown < 2 THEN shown + 1 ELSE shown
        /\ over' = (over \/ (status = "ended" /\ text = <<>> /\ ~ResultDue(text)))
    /\ UNCHANGED <<bufferVars, jobVars>>

\* Kill flips the status; the goroutine still runs and may write.
Kill ==
    /\ status = "running"
    /\ status' = "killed"
    /\ UNCHANGED <<bufferVars, ended, answer, readVars>>

\* The goroutine sets the result, empty or not, and its status, which a Kill
\* may have set already and a cancelled session makes "killed" as well.
End ==
    /\ ~ended
    /\ ended' = TRUE
    /\ answer' \in BOOLEAN
    /\ status' \in {"killed", "ended"}
    /\ status = "killed" => status' = "killed"
    /\ UNCHANGED <<bufferVars, readVars>>

Next ==
    \/ \E n \in 1..MaxWrite : Write(n)
    \/ Output
    \/ Kill
    \/ End

Spec == Init /\ [][Next]_vars

-----------------------------------------------------------------------------
(* Properties.                                                             *)

\* Whoever polls Output until it returns nothing for a job that ended by itself
\* has seen every byte written but those the buffer counted as truncated and,
\* once, the answer: the status becomes terminal after the last write and
\* together with the result.
ReadToTheEnd ==
    over => /\ Cardinality(seen) + truncated = written
            /\ answer => shown = 1

(* What comments of the code say and the code does not do.                 *)

\* "keeps the FIRST cap/2 bytes and the LAST cap/2 bytes"
TailIsLast == full => \A n \in (written - tailCap + 1)..written : n \in BytesOf(head) \cup BytesOf(tail)

\* "the job's output produced since the last Output call"
OutputIsIncremental == repeated = {}
=============================================================================
