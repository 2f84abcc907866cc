---------------------------- MODULE Checkpoints ----------------------------
(***************************************************************************)
(* The rewind of edits: the store of internal/checkpoint/checkpoint.go and *)
(* the way controller.go numbers turns, snapshots files and rewinds.       *)
(*                                                                         *)
(* A turn opens a checkpoint; before a writer tool changes a file, the     *)
(* file's content is snapshotted into it, the first time only.  Rewind     *)
(* keeps the present content in a checkpoint of its own and writes back,   *)
(* for each file touched since, the earliest snapshot.  Each mutex region  *)
(* of the store or the controller is one action; Rewind looks at           *)
(* c.running once, at its start.  Every region that writes turn-N.json     *)
(* rewrites the whole file in place (os.WriteFile, its error only logged): *)
(* the file may be left cut short, by a crash in there or a full disk, and *)
(* load skips such a file.  Every write to the workspace makes new         *)
(* content, so that equal hashes are equal contents.                       *)
(***************************************************************************)
EXTENDS Integers, Sequences, FiniteSets

CONSTANTS Files,
          maxCheckpoints,  \* Store.max, 50 in the code
          MaxUserTurns, MaxWrites, MaxRewinds, MaxFaults  \* bounds

ASSUME MaxAssumption == maxCheckpoints \in Nat \ {0}
ASSUME CountAssumption == {MaxUserTurns, MaxWrites, MaxRewinds, MaxFaults} \subseteq Nat

Absent == -1      \* no such file
NoHash == -2      \* no hash recorded
Original == 0     \* the content every file that exists starts with
Contents == Absent..(MaxWrites + MaxFaults)

VARIABLES
    fs,         \* file -> its content on disk
    author,     \* files whose content somebody else wrote last (history)
    done,       \* Store.done
    cur,        \* Store.cur, or NoCheckpoint
    dir,        \* turn -> the checkpoint in turn-N.json, NoCheckpoint or TornFile
    cpTurn,     \* c.cpTurn
    bound,      \* the turns c.cpBound has a boundary for
    turnAt,     \* the turn's goroutine: idle, numbered or open
    num,        \* the number it took and has not opened yet
    edit,       \* the writer tool: the file it works on, and where it stands
    rw,         \* the rewind: its position, turn, scope, number and paths
    origin,     \* turn -> the files at its start, and those others changed since
                \* or a torn file lost in a crash (history)
    blurred,    \* files others changed between a tool's write and its hash (history)
    dirty,      \* a turn number was used out of order, or a turn ran into a rewind (history)
    used        \* turns, writes, rewinds, and faults (crashes, others' writes) so far (bound)

storeVars == <<done, cur, dir>>
ctlVars == <<cpTurn, bound>>
fileVars == <<fs, author>>
cpVars == <<fileVars, storeVars, ctlVars, turnAt, num, edit, rw, origin, blurred, dirty, used>>

Turns == 0..(MaxUserTurns + MaxRewinds)

NoCheckpoint == [turn |-> -1, snaps |-> <<>>]   \* no file
TornFile == [turn |-> -2, snaps |-> <<>>]       \* a file that does not parse
Readable(file) == file \notin {NoCheckpoint, TornFile}
NoSnap == [pre |-> NoHash, post |-> NoHash]
Checkpoint(n) == [turn |-> n, snaps |-> [f \in Files |-> NoSnap]]
Snapshots == [pre : Contents, post : Contents \cup {NoHash}]
CheckpointType == [turn : Turns, snaps : [Files -> Snapshots \cup {NoSnap}]]
Snapped(c) == {f \in DOMAIN c.snaps : c.snaps[f] # NoSnap}

HashOf(content) == IF content = Absent THEN NoHash ELSE content

NoEdit == [file |-> "none", at |-> "none"]
NoPlan == [f \in {} |-> Original]
NoRewind == [at |-> "idle", turn |-> -1, scope |-> "none", keep |-> -1, paths |-> {}, plan |-> NoPlan]

Plans == UNION {[S -> Contents] : S \in SUBSET Files}

StoreTypeOK ==
    /\ fs \in [Files -> Contents]
    /\ author \subseteq Files
    /\ done \in Seq(CheckpointType)
    /\ cur \in CheckpointType \cup {NoCheckpoint}
    /\ dir \in [Turns -> CheckpointType \cup {NoCheckpoint, TornFile}]
    /\ cpTurn \in Nat
    /\ bound \subseteq Nat
    /\ turnAt \in {"idle", "numbered", "open"}
    /\ num \in Turns \cup {-1}
    /\ edit \in [file : Files \cup {"none"}, at : {"none", "snapped", "written"}]
    /\ rw \in [at : {"idle", "log", "code", "keep", "snap", "mark", "restore", "write"},
              turn : Turns \cup {-1}, scope : {"none", "code", "conversation", "both"},
              keep : Int, paths : SUBSET Files, plan : Plans]
    /\ origin \in [Turns -> [fs : [Files -> Contents], foreign : SUBSET Files]]
    /\ blurred \subseteq Files
    /\ dirty \in BOOLEAN
    /\ used \in [turns : 0..MaxUserTurns, writes : 0..MaxWrites, rewinds : 0..MaxRewinds, faults : 0..MaxFaults]

StoreInit ==
    /\ fs \in [Files -> {Original, Absent}]
    /\ author = {}
    /\ done = <<>>
    /\ cur = NoCheckpoint
    /\ dir = [n \in Turns |-> NoCheckpoint]
    /\ cpTurn = 0
    /\ bound = {}
    /\ turnAt = "idle"
    /\ num = -1
    /\ edit = NoEdit
    /\ rw = NoRewind
    /\ origin = [n \in Turns |-> [fs |-> fs, foreign |-> {}]]
    /\ blurred = {}
    /\ dirty = FALSE
    /\ used = [turns |-> 0, writes |-> 0, rewinds |-> 0, faults |-> 0]

-----------------------------------------------------------------------------
(* The store.                                                              *)

\* all(): done and cur; the order of equal numbers is that of their opening
\* (sort.Slice sorts up to twelve elements by insertion).
All == IF cur = NoCheckpoint THEN done ELSE Append(done, cur)
Numbers == {All[i].turn : i \in DOMAIN All}
NextNumber(ns) == IF ns = {} THEN 0 ELSE 1 + CHOOSE n \in ns : \A m \in ns : m <= n

\* Positions in All of the checkpoints from turn n on that have f.
Suffix(n, f) == {i \in DOMAIN All : All[i].turn >= n /\ f \in Snapped(All[i])}
SuffixPaths(n) == {f \in Files : Suffix(n, f) # {}}
Before(i, j) ==
    \/ All[i].turn < All[j].turn
    \/ All[i].turn = All[j].turn /\ i <= j

\* The earliest snapshot of f since turn n, and the latest hash after an edit.
Earliest(n, f) ==
    LET s == Suffix(n, f) IN All[CHOOSE i \in s : \A j \in s : Before(i, j)].snaps[f].pre
Hashed(n, f) == {i \in Suffix(n, f) : All[i].snaps[f].post # NoHash}
LastPost(n, f) ==
    LET s == Hashed(n, f) IN
    IF s = {} THEN NoHash ELSE All[CHOOSE i \in s : \A j \in s : Before(j, i)].snaps[f].post

\* pruneLocked, for the new value of done: the oldest go, with their files.
Excess(s) == IF Len(s) <= maxCheckpoints THEN 0 ELSE Len(s) - maxCheckpoints
Pruned(s) == SubSeq(s, Excess(s) + 1, Len(s))
Unlinked(d, s) == [n \in Turns |-> IF \E i \in 1..Excess(s) : s[i].turn = n THEN NoCheckpoint ELSE d[n]]

Closed == IF cur = NoCheckpoint THEN done ELSE Append(done, cur)

\* persist: the whole file, or what is left of it; a torn file matters only to a
\* later load, so files are torn while a crash may still come.
Written(c) == {[dir EXCEPT ![c.turn] = file] :
    file \in {c} \cup {t \in {TornFile} : used.faults < MaxFaults}}

\* Begin
StoreBegin(n) ==
    /\ cur' = Checkpoint(n)
    /\ done' = Pruned(Closed)
    /\ \E d \in Written(Checkpoint(n)) : dir' = Unlinked(d, Closed)

\* Variant: each touch of a path replaces the snapshot of the turn's first.
StoreSnapshotAgain(f) ==
    IF cur = NoCheckpoint THEN UNCHANGED <<cur, dir>>
    ELSE LET c == [cur EXCEPT !.snaps[f] = [pre |-> fs[f], post |-> NoHash]]
         IN cur' = c /\ dir' \in Written(c)

\* Snapshot: only a path the open checkpoint does not have.
StoreSnapshot(f) ==
    IF cur = NoCheckpoint \/ f \in Snapped(cur) THEN UNCHANGED <<cur, dir>>
    ELSE LET c == [cur EXCEPT !.snaps[f] = [pre |-> fs[f], post |-> NoHash]]
         IN cur' = c /\ dir' \in Written(c)

\* NotePostEdit
StoreNote(f) ==
    IF cur = NoCheckpoint THEN UNCHANGED <<cur, dir>>
    ELSE LET c == IF f \in Snapped(cur)
                  THEN [cur EXCEPT !.snaps[f].post = HashOf(fs[f])] ELSE cur
         IN cur' = c /\ dir' \in Written(c)

-----------------------------------------------------------------------------
(* A turn and its writer tool.                                             *)

\* runGuarded admits the turn; beginCheckpoint takes its number under c.mu ...
TurnBegins ==
    /\ turnAt = "idle"
    /\ used.turns < MaxUserTurns
    /\ used' = [used EXCEPT !.turns = @ + 1]
    /\ cpTurn \in Turns
    /\ num' = cpTurn
    /\ cpTurn' = cpTurn + 1
    /\ bound' = bound \cup {cpTurn}
    /\ turnAt' = "numbered"
    /\ dirty' = (dirty \/ rw.at # "idle")
    /\ UNCHANGED <<fileVars, storeVars, edit, rw, origin, blurred>>

\* ... and opens the checkpoint after the unlock.
OpensCheckpoint ==
    /\ turnAt = "numbered"
    /\ StoreBegin(num)
    /\ turnAt' = "open"
    /\ dirty' = (dirty \/ num < NextNumber(Numbers))
    /\ num' = -1
    /\ origin' = [origin EXCEPT ![num] = [fs |-> fs, foreign |-> {}]]
    /\ UNCHANGED <<fileVars, ctlVars, edit, rw, blurred, used>>

\* onPreEdit
PreEdit(f) ==
    /\ turnAt = "open"
    /\ edit = NoEdit
    /\ used.writes < MaxWrites
    /\ StoreSnapshot(f)
    /\ edit' = [file |-> f, at |-> "snapped"]
    /\ UNCHANGED <<fileVars, done, ctlVars, turnAt, num, rw, origin, blurred, dirty, used>>

\* The tool writes new content, deletes the file, or fails.
Executes(f) ==
    /\ edit = [file |-> f, at |-> "snapped"]
    /\ \/ /\ fs' \in {[fs EXCEPT ![f] = 1 + used.writes + used.faults], [fs EXCEPT ![f] = Absent]}
          /\ author' = author \ {f}
          /\ edit' = [edit EXCEPT !.at = "written"]
          /\ blurred' = blurred \ {f}
       \/ /\ edit' = NoEdit
          /\ UNCHANGED <<fileVars, blurred>>
    /\ used' = [used EXCEPT !.writes = @ + 1]
    /\ UNCHANGED <<storeVars, ctlVars, turnAt, num, rw, origin, dirty>>

\* onPostEdit, after a success
PostEdit(f) ==
    /\ edit = [file |-> f, at |-> "written"]
    /\ StoreNote(f)
    /\ edit' = NoEdit
    /\ UNCHANGED <<fileVars, done, ctlVars, turnAt, num, rw, origin, blurred, dirty, used>>

TurnEnds ==
    /\ turnAt = "open"
    /\ edit = NoEdit
    /\ turnAt' = "idle"
    /\ UNCHANGED <<fileVars, storeVars, ctlVars, num, edit, rw, origin, blurred, dirty, used>>

\* Somebody else writes a file: an editor, a shell command, another tab.
Foreign(f) ==
    /\ used.faults < MaxFaults
    /\ used' = [used EXCEPT !.faults = @ + 1]
    /\ fs' = [fs EXCEPT ![f] = 1 + used.writes + used.faults]
    /\ author' = author \cup {f}
    /\ blurred' = IF edit = [file |-> f, at |-> "written"] THEN blurred \cup {f} ELSE blurred
    /\ origin' = [n \in Turns |-> IF n \in Numbers THEN [origin[n] EXCEPT !.foreign = @ \cup {f}] ELSE origin[n]]
    /\ UNCHANGED <<storeVars, ctlVars, turnAt, num, edit, rw, dirty>>

-----------------------------------------------------------------------------
(* Rewind.                                                                 *)

Moves(at) == rw' = [rw EXCEPT !.at = at]

\* c.running and the boundary under c.mu; t is one of the listed turns.
RewindBegins(t, scope) ==
    /\ rw = NoRewind
    /\ turnAt = "idle"
    /\ t \in Numbers
    /\ used.rewinds < MaxRewinds
    /\ scope = "code" \/ t \in bound
    /\ used' = [used EXCEPT !.rewinds = @ + 1]
    /\ rw' = [NoRewind EXCEPT !.at = IF scope = "code" THEN "code" ELSE "log", !.turn = t, !.scope = scope]
    /\ UNCHANGED <<fileVars, storeVars, ctlVars, turnAt, num, edit, origin, blurred, dirty>>

\* The conversation was compacted past the boundary.
LogCompacted ==
    /\ rw.at = "log"
    /\ rw' = NoRewind
    /\ UNCHANGED <<fileVars, storeVars, ctlVars, turnAt, num, edit, origin, blurred, dirty, used>>

\* The message log is cut, and turns are numbered from here again.
LogRewound ==
    /\ rw.at = "log"
    /\ cpTurn' = rw.turn
    /\ bound' = {n \in bound : n < rw.turn}
    /\ rw' = IF rw.scope = "both" THEN [rw EXCEPT !.at = "code"] ELSE NoRewind
    /\ UNCHANGED <<fileVars, storeVars, turnAt, num, edit, origin, blurred, dirty, used>>

\* SuffixPaths, and the number KeepCurrent gives the reverse checkpoint.
KeepNumbered ==
    /\ rw.at = "code"
    /\ rw' = IF SuffixPaths(rw.turn) = {} THEN [rw EXCEPT !.at = "restore"]
             ELSE [rw EXCEPT !.at = "keep", !.paths = SuffixPaths(rw.turn), !.keep = NextNumber(Numbers)]
    /\ UNCHANGED <<fileVars, storeVars, ctlVars, turnAt, num, edit, origin, blurred, dirty, used>>

KeepBegins ==
    /\ rw.at = "keep"
    /\ rw.keep \in Turns
    /\ StoreBegin(rw.keep)
    /\ Moves("snap")
    /\ dirty' = (dirty \/ rw.keep < NextNumber(Numbers))
    /\ origin' = [origin EXCEPT ![rw.keep] = [fs |-> fs, foreign |-> {}]]
    /\ UNCHANGED <<fileVars, ctlVars, turnAt, num, edit, blurred, used>>

KeepSnapshots(f) ==
    /\ rw.at = "snap"
    /\ f \in rw.paths
    /\ StoreSnapshot(f)
    /\ rw' = [rw EXCEPT !.paths = @ \ {f}]
    /\ UNCHANGED <<fileVars, done, ctlVars, turnAt, num, edit, origin, blurred, dirty, used>>

\* Finalize
KeepFinalized ==
    /\ rw.at = "snap"
    /\ rw.paths = {}
    /\ done' = Pruned(Closed)
    /\ dir' = Unlinked(dir, Closed)
    /\ cur' = NoCheckpoint
    /\ Moves("mark")
    /\ UNCHANGED <<fileVars, ctlVars, turnAt, num, edit, origin, blurred, dirty, used>>

\* Variant: the mark is the hash of the disk, as in NotePostEdit.
MarkedPostOfDisk(c) == [c EXCEPT !.snaps = [f \in Files |->
    IF f \in Snapped(c) THEN [c.snaps[f] EXCEPT !.post = HashOf(fs[f])] ELSE c.snaps[f]]]

\* What is kept counts as the agent's own writing.
MarkedPost(c) == [c EXCEPT !.snaps = [f \in Files |->
    IF f \in Snapped(c) THEN [c.snaps[f] EXCEPT !.post = HashOf(c.snaps[f].pre)] ELSE c.snaps[f]]]

\* Variant: the marks stay in memory.
KeepMarkedUnsaved ==
    /\ rw.at = "mark"
    /\ done' = IF done # <<>> /\ done[Len(done)].turn = rw.keep
               THEN [done EXCEPT ![Len(done)] = MarkedPost(@)] ELSE done
    /\ Moves("restore")
    /\ UNCHANGED <<fileVars, cur, dir, ctlVars, turnAt, num, edit, origin, blurred, dirty, used>>

KeepMarked ==
    /\ rw.at = "mark"
    /\ IF done # <<>> /\ done[Len(done)].turn = rw.keep
       THEN LET c == MarkedPost(done[Len(done)])
            IN done' = [done EXCEPT ![Len(done)] = c] /\ dir' \in Written(c)
       ELSE UNCHANGED <<done, dir>>
    /\ Moves("restore")
    /\ UNCHANGED <<fileVars, cur, ctlVars, turnAt, num, edit, origin, blurred, dirty, used>>

\* RestoreCode: the earliest snapshots under the lock ...
RestorePlanned ==
    /\ rw.at = "restore"
    /\ rw' = [rw EXCEPT !.at = "write", !.paths = SuffixPaths(rw.turn),
                        !.plan = [f \in SuffixPaths(rw.turn) |-> Earliest(rw.turn, f)]]
    /\ UNCHANGED <<fileVars, storeVars, ctlVars, turnAt, num, edit, origin, blurred, dirty, used>>

\* ... and one file after the other without it.
RestoresFile(f) ==
    /\ rw.at = "write"
    /\ f \in rw.paths
    /\ fs' = [fs EXCEPT ![f] = rw.plan[f]]
    /\ author' = author \ {f}
    /\ rw' = [rw EXCEPT !.paths = @ \ {f}]
    /\ UNCHANGED <<storeVars, ctlVars, turnAt, num, edit, origin, blurred, dirty, used>>

RewindEnds ==
    /\ rw.at = "write"
    /\ rw.paths = {}
    /\ rw' = NoRewind
    /\ UNCHANGED <<fileVars, storeVars, ctlVars, turnAt, num, edit, origin, blurred, dirty, used>>

\* SummarizeFrom / SummarizeUpTo drop every boundary.
Summarizes ==
    /\ turnAt = "idle"
    /\ bound # {}
    /\ bound' = {}
    /\ UNCHANGED <<fileVars, storeVars, cpTurn, turnAt, num, edit, rw, origin, blurred, dirty, used>>

\* load: every file that parses, by number.
Loaded == LET ns == {n \in Turns : Readable(dir[n])}
              Nth(i) == CHOOSE n \in ns : Cardinality({m \in ns : m < n}) = i - 1
          IN [i \in 1..Cardinality(ns) |-> dir[Nth(i)]]

\* The files whose snapshots since turn n are in a torn file.
LostSince(n) == {f \in Files : \E i \in Suffix(n, f) : dir[All[i].turn] = TornFile}

\* The process dies; the session is resumed and rebindCheckpoints loads it.
CrashAndResume ==
    /\ used.faults < MaxFaults
    /\ used' = [used EXCEPT !.faults = @ + 1]
    /\ done' = Pruned(Loaded)
    /\ dir' = Unlinked(dir, Loaded)
    /\ cur' = NoCheckpoint
    /\ cpTurn' = NextNumber({done'[i].turn : i \in DOMAIN done'})
    /\ bound' = {done'[i].turn : i \in DOMAIN done'}
    /\ turnAt' = "idle"
    /\ num' = -1
    /\ edit' = NoEdit
    /\ rw' = NoRewind
    /\ origin' = [n \in Turns |-> [origin[n] EXCEPT !.foreign = @ \cup LostSince(n)]]
    /\ UNCHANGED <<fileVars, blurred, dirty>>

-----------------------------------------------------------------------------
StoreNext ==
    \/ TurnBegins
    \/ OpensCheckpoint
    \/ \E f \in Files : PreEdit(f) \/ Executes(f) \/ PostEdit(f) \/ Foreign(f)
                       \/ KeepSnapshots(f) \/ RestoresFile(f)
    \/ TurnEnds
    \/ \E t \in Turns, scope \in {"code", "conversation", "both"} : RewindBegins(t, scope)
    \/ LogCompacted
    \/ LogRewound
    \/ KeepNumbered
    \/ KeepBegins
    \/ KeepFinalized
    \/ KeepMarked
    \/ RestorePlanned
    \/ RewindEnds
    \/ Summarizes
    \/ CrashAndResume

StoreSpec == StoreInit /\ [][StoreNext]_cpVars

-----------------------------------------------------------------------------
(* Properties.                                                             *)

\* Files that are not as they were when turn n began, and neither is that
\* somebody else's doing nor were their snapshots in a file a crash lost.
NotAsAt(n) == {f \in Files : fs[f] # origin[n].fs[f]} \ origin[n].foreign

\* "Code reverts every file that turn (or a later one) changed to its pre-turn
\* content": also after a crash between snapshot, write and hash or in the
\* middle of an earlier rewind, and also when the turn is the reverse
\* checkpoint, which brings the rewound edits back.  A crash that leaves a
\* turn-N.json torn costs that turn's snapshots, and so the files they are of,
\* up to that turn; every other file is restored.  Excepted are the courses
\* in which a number comes out of order, which those of NumberedOnce below do,
\* and those of NoTurnDuringRewind and RewoundStaysListed.
RewindExact ==
    [][RewindEnds /\ ~dirty /\ rw.turn \in Numbers => NotAsAt(rw.turn) = {}]_cpVars

\* RewindPreview: what a rewind to n would overwrite.
Safe(n, f) ==
    LET now == HashOf(fs[f])
    IN IF LastPost(n, f) # NoHash THEN now = LastPost(n, f) ELSE now # NoHash /\ now = Earliest(n, f)

\* What somebody else wrote last, in a file a rewind to n restores, is in a
\* checkpoint.
InStore(f) == f \in author => \E i \in DOMAIN All : f \in Snapped(All[i]) /\ All[i].snaps[f].pre = fs[f]

\* A file the preview calls safe holds nothing somebody else wrote that the
\* rewind would lose, whichever turn, rewind or resumed session wrote last.
PreviewHonest ==
    \A n \in Numbers : \A f \in SuffixPaths(n) \ blurred : Safe(n, f) => InStore(f)

\* "Corruption-isolated": at every moment a crash can come the directory is the
\* store, but for files torn by their own rewriting.  No checkpoint's file is
\* missing or behind memory, and no file brings back one that memory dropped,
\* so what a torn file costs is that one checkpoint.
DiskIsStore ==
    ~dirty => /\ \A i \in DOMAIN All : dir[All[i].turn] \in {All[i], TornFile}
              /\ \A n \in Turns : Readable(dir[n]) => n \in Numbers

(* What comments of the code say and the code does not do.                 *)

\* "never collides after a restructure": no two checkpoints have one number.
NumberedOnce == \A i, j \in DOMAIN All : All[i].turn = All[j].turn => i = j

\* The same promise of Rewind without the first exception.
RewindAlwaysExact ==
    [][RewindEnds /\ rw.turn \in Numbers => NotAsAt(rw.turn) = {}]_cpVars

\* Rewind is "refused while a turn is running".
NoTurnDuringRewind == turnAt = "open" => rw.at = "idle"

\* The turn somebody rewinds to is not pruned by the rewind itself.
RewoundStaysListed == rw.at = "write" => rw.turn \in Numbers

\* "rewinding loses nothing external" where the preview says safe.
SafeLosesNothing ==
    \A n \in Numbers : \A f \in SuffixPaths(n) : Safe(n, f) => InStore(f)
=============================================================================
