---------------------------- MODULE MCToolBatch ----------------------------
\* ToolBatch for TLC: a reader, the todo tool, writers of different files and
\* a shell command without a preview.
EXTENDS ToolBatch, TLC

CONSTANTS read, todo, editA, editB, editC, bash

MCOps == {read, todo, editA, editB, editC, bash}
MCReaders == {read}
MCLedger == {todo}
MCFootprint == editA :> {"a"} @@ editB :> {"b"} @@ editC :> {"c", "d"}
               @@ [o \in {read, todo, bash} |-> {}]
MCTracked == {editA, editB}

\* editA and editB differ in name only: each writes one file of its own.
EditSymmetry == Permutations({editA, editB})
=============================================================================
