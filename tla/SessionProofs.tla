--------------------------- MODULE SessionProofs ---------------------------
(***************************************************************************)
(* What a session leaves on disk, for all values of the bounds.            *)
(*                                                                         *)
(* The first part is about Transcript.                                     *)
(*  - A saved session can be loaded again, unless a crash cut a save in    *)
(*    two or two saves of one file overlapped.  SaveInv says which savers  *)
(*    can be at work at each place of the turn, of a fold and of a         *)
(*    frontend's call, so that no save is started over one that is going   *)
(*    on.  SignInv says what the signature of a file can be while nobody   *)
(*    is between the two writes.  Most steps leave the files alone and no  *)
(*    saver enters or leaves the writes: Calm.                             *)
(*  - All logs are in order.  LogsInv says so of every log there is, in    *)
(*    memory, on disk, in a fold, in a save and in a frontend's hand, and  *)
(*    that none holds what was not said yet.  A fold keeps the order,      *)
(*    since nothing that is folded is in front of an earlier digest.       *)
(*  - Conversations are kept apart.  PlacesInv ties path, log, folds,      *)
(*    saves and the call of a frontend to one conversation while nothing   *)
(*    meets the call on its way.                                           *)
(*  - What was said is kept.  KeepingInv says that a save is on its way to *)
(*    no less than its file holds, who said what, and where the messages   *)
(*    of a turn are while it runs, as it ends and when it is over.         *)
(*                                                                         *)
(* The second part is about Checkpoints: the directory is the store, the   *)
(* preview is honest, a rewind restores what was.  OrderInv has the        *)
(* checkpoints in the order of their numbers and one file for each;        *)
(* HonestInv ties hashes to snapshots, through FreshInv, by which new      *)
(* content is newer than every record.  ExactInv says of each turn and     *)
(* file what the earliest snapshot is, KeepInv that the last checkpoint    *)
(* has every file a rewind is about to write, AloneInv that no turn is at  *)
(* work then.                                                              *)
(***************************************************************************)
EXTENDS Transcript, Checkpoints, FiniteSetTheorems, SequenceTheorems, WellFoundedInduction, TLAPS

Stages == {"none", "asked", "path", "copied", "replaced", "read"}
Between(a) == save[a].at \in {"replaced", "read"}

SaveType ==
    /\ save = [a \in Savers |-> save[a]]
    /\ \A a \in Savers :
          /\ save[a] = Saving(save[a].at, save[a].path, save[a].content)
          /\ save[a].at \in Stages
          /\ save[a].path \in Paths \cup {NoPath}
          /\ save[a].at \notin {"none", "asked"} => save[a].path \in Paths

DiskType ==
    /\ file = [p \in Paths |-> file[p]]
    /\ sig = [p \in Paths |-> sig[p]]

PathType == path \in Paths \cup {NoPath} /\ minted \in 0..MaxPaths

TurnType ==
    /\ turn = [at |-> turn.at, n |-> turn.n, start |-> turn.start, said |-> turn.said]
    /\ turn.at \in {"idle", "admitted", "loop", "ending"}

FrontType ==
    /\ front = [op |-> front.op, at |-> front.at, to |-> front.to, log |-> front.log]
    /\ front.to \in Paths \cup {NoPath}

FoldType == fold = [a \in Folders |-> fold[a]]

Types == SaveType /\ DiskType /\ PathType /\ TurnType /\ FrontType /\ FoldType

\* Who may be saving.
SaveInv ==
    /\ turn.at # "ending" => save["turn"] = NoSave
    /\ fold["compact"] # NoFold => save["compact"] = NoSave
    /\ front.at \notin {"snapshot", "loaded", "saving"} => save["front"] = NoSave

\* What a signature can be.
SignInv ==
    Spared({"cut", "overlap"}) =>
        /\ ~Overlap
        /\ \A a \in Savers : save[a].at = "read" =>
              file[save[a].path] \in {NoFile, save[a].content}
        /\ \A p \in Paths :
              \/ file[p] = NoFile
              \/ Loads(p)
              \/ \E a \in Savers : Between(a) /\ save[a].path = p

Inv == Types /\ SaveInv /\ SignInv

-----------------------------------------------------------------------------
LEMMA SaverNames == Savers = {"turn", "auto", "front", "compact"} /\ Folders \subseteq Savers
BY DEF Savers, Folders

\* No path is no member of Paths, and a new number is one.
LEMMA PathFacts == NoPath \notin Paths /\ \A k \in 0..MaxPaths : k < MaxPaths => k + 1 \in Paths /\ k + 1 \in 0..MaxPaths
BY BoundAssumption DEF NoPath, Paths

\* What Record says of the mishaps.
LEMMA RecordFacts ==
    Record => /\ mishaps \subseteq mishaps'
              /\ Overlap' => "overlap" \in mishaps'
<1> SUFFICES ASSUME Record PROVE /\ mishaps \subseteq mishaps'
                                 /\ Overlap' => "overlap" \in mishaps'
    OBVIOUS
<1> DEFINE A == mishaps \cup (IF Torn' THEN {"torn"} ELSE {})
           O == (IF Overlap' THEN {"overlap"} ELSE {})
           S == (IF Skipped THEN {"skipped"} ELSE {})
           R == (IF Raced THEN {"raced"} ELSE {})
           U == (IF Unanswered THEN {"outage"} ELSE {})
<1>1. mishaps' = A \cup O \cup S \cup R \cup U
    BY DEF Record
<1>2. mishaps \subseteq A
    OBVIOUS
<1>3. Overlap' => "overlap" \in O
    OBVIOUS
<1> HIDE DEF A, O, S, R, U
<1> QED BY <1>1, <1>2, <1>3

\* What the mishaps spare now they spared before.
LEMMA StillSpared ==
    ASSUME Record, Spared({"cut", "overlap"})'
    PROVE  Spared({"cut", "overlap"}) /\ ~Overlap'
BY RecordFacts DEF Spared

\* A step that leaves the files alone, and in which nobody enters or leaves
\* the writes between them, leaves SignInv.
LEMMA CalmKeeps ==
    ASSUME Types, SignInv, Record, UNCHANGED disk,
           \A a \in Savers : \/ save'[a] = save[a]
                             \/ ~Between(a) /\ ~Between(a)'
    PROVE  SignInv'
<1> SUFFICES ASSUME Spared({"cut", "overlap"})'
             PROVE  /\ ~Overlap'
                    /\ \A a \in Savers : save'[a].at = "read" =>
                          file'[save'[a].path] \in {NoFile, save'[a].content}
                    /\ \A p \in Paths :
                          \/ file'[p] = NoFile
                          \/ Loads(p)'
                          \/ \E a \in Savers : Between(a)' /\ save'[a].path = p
    BY DEF SignInv
<1>1. Spared({"cut", "overlap"}) /\ ~Overlap'
    BY StillSpared
<1>2. /\ \A a \in Savers : save[a].at = "read" => file[save[a].path] \in {NoFile, save[a].content}
      /\ \A p \in Paths :
              \/ file[p] = NoFile
              \/ Loads(p)
              \/ \E a \in Savers : Between(a) /\ save[a].path = p
    BY <1>1 DEF SignInv
<1>3. file' = file /\ sig' = sig
    BY DEF disk
<1>4. ASSUME NEW a \in Savers, save'[a].at = "read"
      PROVE  file'[save'[a].path] \in {NoFile, save'[a].content}
    BY <1>2, <1>3, <1>4 DEF Between
<1>5. ASSUME NEW p \in Paths
      PROVE  \/ file'[p] = NoFile
             \/ Loads(p)'
             \/ \E a \in Savers : Between(a)' /\ save'[a].path = p
    <2>1. CASE file[p] = NoFile \/ Loads(p)
        BY <2>1, <1>3 DEF Loads
    <2>2. CASE \E a \in Savers : Between(a) /\ save[a].path = p
        BY <2>2 DEF Between
    <2> QED BY <2>1, <2>2, <1>2
<1> QED BY <1>1, <1>4, <1>5

-----------------------------------------------------------------------------
\* Initially nobody saves and no file is there.
THEOREM InitInv == Init => Inv
<1> SUFFICES ASSUME Init PROVE Inv
    OBVIOUS
<1>1. save = [a \in Savers |-> NoSave] /\ front = NoFront /\ turn = NoTurn
      /\ fold = [a \in Folders |-> NoFold] /\ path = NoPath /\ minted = 0
      /\ file = [p \in Paths |-> NoFile] /\ sig = [p \in Paths |-> NoFile]
    BY DEF Init
<1>2. Types
    BY <1>1, BoundAssumption DEF Types, SaveType, Saving, DiskType, PathType, TurnType, FrontType, FoldType,
       NoSave, NoFront, NoTurn, NoPath, Stages, Writing
<1>3. SaveInv
    BY <1>1 DEF SaveInv, Savers, Folders
<1>4. SignInv
    <2>1. ~Overlap
        BY <1>1 DEF Overlap, Writing, NoSave, Saving
    <2>2. \A a \in Savers : save[a].at # "read"
        BY <1>1 DEF NoSave, Saving
    <2>3. \A p \in Paths : file[p] = NoFile
        BY <1>1
    <2> QED BY <2>1, <2>2, <2>3 DEF SignInv
<1> QED BY <1>2, <1>3, <1>4 DEF Inv

-----------------------------------------------------------------------------
\* A saver at work is one SaveInv allows to be.
LEMMA SaverMoves ==
    ASSUME Types, SaveInv, NEW a \in Savers, save[a] # NoSave, NEW v,
           save' = [save EXCEPT ![a] = v], UNCHANGED <<turn, fold, front>>
    PROVE  SaveInv'
BY SaverNames DEF Types, SaveType, Saving, SaveInv

\* Saver a goes to v: the types.
LEMMA SaverTyped ==
    ASSUME SaveType, NEW a \in Savers, NEW at \in Stages, NEW p \in Paths \cup {NoPath}, NEW c,
           at \notin {"none", "asked"} => p \in Paths,
           save' = [save EXCEPT ![a] = Saving(at, p, c)]
    PROVE  SaveType'
BY DEF SaveType, Saving, Writing

LEMMA NoSaveIs == NoSave = Saving("none", NoPath, <<>>) /\ NoPath \in Paths \cup {NoPath}
BY DEF NoSave, Saving

\* Asking for a save: the types, and nobody enters the writes.
LEMMA AskedTyped ==
    ASSUME SaveType, NEW a \in Savers, save[a] = NoSave,
           save' = [save EXCEPT ![a] = Asked]
    PROVE  /\ SaveType'
           /\ \A b \in Savers : save'[b] = save[b] \/ (~Between(b) /\ ~Between(b)')
<1>1. SaveType'
    BY SaverTyped, NoSaveIs DEF Stages, Asked
<1>2. \A b \in Savers : save'[b] = save[b] \/ (~Between(b) /\ ~Between(b)')
    BY DEF SaveType, Between, NoSave, Asked, Saving
<1> QED BY <1>1, <1>2

-----------------------------------------------------------------------------
\* The turn's steps.
LEMMA TurnSteps ==
    ASSUME Inv, StartTurn \/ OpenTurn \/ AddMessage \/ EndLoop \/ FinishTurn
    PROVE  Inv'
<1> USE DEF Inv
<1> USE SaverNames
<1>1. CASE StartTurn
    <2>1. Types'
        BY <1>1 DEF StartTurn, Types, SaveType, Saving, DiskType, PathType, TurnType, FrontType, FoldType,
           Stages, Writing, disk
    <2>2. SaveInv'
        BY <1>1 DEF StartTurn, SaveInv, Running
    <2>3. SignInv'
        BY <1>1, CalmKeeps DEF StartTurn
    <2> QED BY <2>1, <2>2, <2>3
<1>2. CASE OpenTurn
    <2>1. Types'
        <3>1. PathType'
            BY <1>2, PathFacts DEF OpenTurn, Types, PathType
        <3> QED BY <3>1, <1>2 DEF OpenTurn, Types, SaveType, Saving, DiskType, TurnType, FrontType, FoldType,
                Stages, Writing, disk
    <2>2. SaveInv'
        BY <1>2 DEF OpenTurn, SaveInv, Types, TurnType
    <2>3. SignInv'
        BY <1>2, CalmKeeps DEF OpenTurn
    <2> QED BY <2>1, <2>2, <2>3
<1>3. CASE AddMessage
    <2>1. Types'
        BY <1>3 DEF AddMessage, Types, SaveType, Saving, DiskType, PathType, TurnType, FrontType, FoldType,
           Stages, Writing, disk
    <2>2. SaveInv'
        BY <1>3 DEF AddMessage, SaveInv, Types, TurnType
    <2>3. SignInv'
        BY <1>3, CalmKeeps DEF AddMessage, disk
    <2> QED BY <2>1, <2>2, <2>3
<1>4. CASE EndLoop
    <2>1. SaveType' /\ (\A b \in Savers : save'[b] = save[b] \/ (~Between(b) /\ ~Between(b)'))
        <3>1. save["turn"] = NoSave
            BY <1>4 DEF EndLoop, SaveInv
        <3>2. CASE save' = [save EXCEPT !["turn"] = Asked]
            BY <3>1, <3>2, AskedTyped DEF Types
        <3>3. CASE save' = save
            BY <3>3 DEF Types, SaveType
        <3> QED BY <3>2, <3>3, <1>4 DEF EndLoop
    <2>2. Types'
        BY <2>1, <1>4 DEF EndLoop, Types, DiskType, PathType, TurnType, FrontType, FoldType, disk
    <2>3. SaveInv'
        BY <1>4 DEF EndLoop, SaveInv, Types, TurnType, SaveType
    <2>4. SignInv'
        BY <2>1, <1>4, CalmKeeps DEF EndLoop
    <2> QED BY <2>2, <2>3, <2>4
<1>5. CASE FinishTurn
    <2>1. Types'
        BY <1>5 DEF FinishTurn, Types, SaveType, Saving, DiskType, PathType, TurnType, FrontType, FoldType,
           Stages, Writing, disk, NoTurn
    <2>2. SaveInv'
        BY <1>5 DEF FinishTurn, SaveInv
    <2>3. SignInv'
        BY <1>5, CalmKeeps DEF FinishTurn
    <2> QED BY <2>1, <2>2, <2>3
<1> QED BY <1>1, <1>2, <1>3, <1>4, <1>5

-----------------------------------------------------------------------------
LEMMA FoldSteps ==
    ASSUME Inv, NEW a \in Folders, PlanFold(a) \/ PutFold(a)
    PROVE  Inv'
<1> USE DEF Inv
<1> USE SaverNames
<1>1. CASE PlanFold(a)
    <2>1. Types'
        BY <1>1 DEF PlanFold, Types, SaveType, Saving, DiskType, PathType, TurnType, FrontType, FoldType,
           Stages, Writing, disk
    <2>2. SaveInv'
        BY <1>1 DEF PlanFold, SaveInv, Types, FoldType, Folders
    <2>3. SignInv'
        BY <1>1, CalmKeeps DEF PlanFold
    <2> QED BY <2>1, <2>2, <2>3
<1>2. CASE PutFold(a)
    <2>1. CASE a = "turn"
        <3>1. save' = save
            BY <1>2, <2>1 DEF PutFold
        <3>2. Types'
            BY <1>2, <3>1 DEF PutFold, Types, SaveType, Saving, DiskType, PathType, TurnType, FrontType, FoldType,
               Stages, Writing, disk
        <3>3. SaveInv'
            BY <1>2, <3>1, <2>1 DEF PutFold, SaveInv, Types, FoldType, Folders
        <3>4. SignInv'
            BY <1>2, <3>1, CalmKeeps DEF PutFold
        <3> QED BY <3>2, <3>3, <3>4
    <2>2. CASE a = "compact"
        <3>1. save["compact"] = NoSave /\ save' = [save EXCEPT !["compact"] = Asked]
            BY <1>2, <2>2 DEF PutFold, SaveInv
        <3>2. SaveType' /\ \A b \in Savers : save'[b] = save[b] \/ (~Between(b) /\ ~Between(b)')
            BY <3>1, AskedTyped DEF Types
        <3>3. Types'
            BY <1>2, <3>2 DEF PutFold, Types, DiskType, PathType, TurnType, FrontType, FoldType, disk
        <3>4. SaveInv'
            BY <1>2, <3>1, <2>2 DEF PutFold, SaveInv, Types, FoldType, Folders, SaveType, Saving
        <3>5. SignInv'
            BY <1>2, <3>2, CalmKeeps DEF PutFold
        <3> QED BY <3>3, <3>4, <3>5
    <2> QED BY <2>1, <2>2 DEF Folders
<1> QED BY <1>1, <1>2

-----------------------------------------------------------------------------
\* The steps of a save up to its copy of the log.
LEMMA QuietSaveSteps ==
    ASSUME Inv, NEW a \in Savers, ReadPath(a) \/ CopyLog(a)
    PROVE  Inv'
<1> USE DEF Inv
<1> DEFINE Moved(v) == save' = [save EXCEPT ![a] = v]
<1>1. save[a] # NoSave /\ ~Between(a)
    BY DEF ReadPath, CopyLog, NoSave, Saving, Between
<1>2. \/ Moved(NoSave)
      \/ path \in Paths /\ Moved(Saving("path", path, <<>>))
      \/ save[a].path \in Paths /\ Moved(Saving("copied", save[a].path, log))
    <2>1. CASE ReadPath(a)
        BY <2>1 DEF ReadPath, Types, PathType
    <2>2. CASE CopyLog(a)
        BY <2>2 DEF CopyLog, Types, SaveType, Saving
    <2> QED BY <2>1, <2>2
<1>3. UNCHANGED <<turn, fold, front, path, minted, file, sig>> /\ Record
    BY DEF ReadPath, CopyLog, disk
<1>4. SaveType' /\ ~Between(a)'
    <2>1. CASE Moved(NoSave)
        BY <2>1, NoSaveIs, SaverTyped DEF Types, Stages, SaveType, Saving, Between, NoSave
    <2>2. CASE path \in Paths /\ Moved(Saving("path", path, <<>>))
        <3>1. SaveType'
            BY <2>2, SaverTyped DEF Types, Stages
        <3> QED BY <3>1, <2>2 DEF Types, SaveType, Saving, Between
    <2>3. CASE save[a].path \in Paths /\ Moved(Saving("copied", save[a].path, log))
        <3>1. SaveType'
            BY <2>3, SaverTyped DEF Types, Stages
        <3> QED BY <3>1, <2>3 DEF Types, SaveType, Saving, Between
    <2> QED BY <1>2, <2>1, <2>2, <2>3
<1>5. PICK v : Moved(v)
    BY <1>2
<1>6. SaveInv'
    BY <1>1, <1>3, <1>5, SaverMoves
<1>7. Types'
    BY <1>3, <1>4 DEF Types, DiskType, PathType, TurnType, FrontType, FoldType
<1>8. SignInv'
    BY <1>1, <1>3, <1>4, <1>5, CalmKeeps DEF Types, SaveType, Saving, disk
<1> QED BY <1>6, <1>7, <1>8

\* The file is replaced: nobody else is about to sign it, or they overlap.
LEMMA ReplaceStep ==
    ASSUME Inv, NEW a \in Savers, ReplaceFile(a)
    PROVE  Inv'
<1> USE DEF Inv
<1> DEFINE p == save[a].path
<1>1. save[a].at = "copied" /\ save[a] # NoSave /\ p \in Paths
    BY DEF ReplaceFile, NoSave, Saving, Types, SaveType
<1>2. /\ save' = [save EXCEPT ![a] = Saving("replaced", p, save[a].content)]
      /\ file' = [file EXCEPT ![p] = save[a].content] /\ sig' = sig
      /\ UNCHANGED <<turn, fold, front, path, minted>> /\ Record
    BY DEF ReplaceFile
<1>3. SaveType'
    BY <1>1, <1>2, SaverTyped DEF Types, Stages
<1>4. Types'
    BY <1>2, <1>3 DEF Types, DiskType, PathType, TurnType, FrontType, FoldType
<1>5. SaveInv'
    BY <1>1, <1>2, SaverMoves
<1>6. SignInv'
    <2> SUFFICES ASSUME Spared({"cut", "overlap"})'
                 PROVE  /\ ~Overlap'
                        /\ \A b \in Savers : save'[b].at = "read" =>
                              file'[save'[b].path] \in {NoFile, save'[b].content}
                        /\ \A q \in Paths :
                              \/ file'[q] = NoFile
                              \/ Loads(q)'
                              \/ \E b \in Savers : Between(b)' /\ save'[b].path = q
        BY DEF SignInv
    <2>1. Spared({"cut", "overlap"}) /\ ~Overlap'
        BY <1>2, StillSpared
    <2>2. /\ ~Overlap
          /\ \A b \in Savers : save[b].at = "read" => file[save[b].path] \in {NoFile, save[b].content}
          /\ \A q \in Paths :
                  \/ file[q] = NoFile
                  \/ Loads(q)
                  \/ \E b \in Savers : Between(b) /\ save[b].path = q
        BY <2>1 DEF SignInv
    <2>3. save'[a].at = "replaced" /\ save'[a].path = p /\ \A b \in Savers \ {a} : save'[b] = save[b]
        BY <1>2 DEF Types, SaveType, Saving
    <2>4. \A q \in Paths : q # p => file'[q] = file[q]
        BY <1>2 DEF Types, DiskType
    <2>5. ASSUME NEW b \in Savers, save'[b].at = "read"
          PROVE  file'[save'[b].path] \in {NoFile, save'[b].content}
        <3>1. b # a /\ save'[b] = save[b] /\ save[b].path \in Paths
            BY <2>3, <2>5 DEF Types, SaveType, Saving
        <3>2. save[b].path # p
            BY <1>1, <2>2, <2>5, <3>1 DEF Overlap, Writing
        <3> QED BY <2>2, <2>4, <2>5, <3>1, <3>2
    <2>6. ASSUME NEW q \in Paths
          PROVE  \/ file'[q] = NoFile
                 \/ Loads(q)'
                 \/ \E b \in Savers : Between(b)' /\ save'[b].path = q
        <3>1. CASE q = p
            BY <2>3, <3>1 DEF Between
        <3>2. CASE q # p /\ (file[q] = NoFile \/ Loads(q))
            BY <2>4, <1>2, <3>2 DEF Loads
        <3>3. CASE q # p /\ \E b \in Savers : Between(b) /\ save[b].path = q
            <4>1. PICK b \in Savers : Between(b) /\ save[b].path = q
                BY <3>3
            <4>2. b # a
                BY <1>1, <4>1 DEF Between
            <4> QED BY <4>1, <4>2, <2>3 DEF Between
        <3> QED BY <2>2, <3>1, <3>2, <3>3
    <2> QED BY <2>1, <2>5, <2>6
<1> QED BY <1>4, <1>5, <1>6

\* What is read back is what the file holds; what is signed is that.
LEMMA SignSteps ==
    ASSUME Inv, NEW a \in Savers, ReadBack(a) \/ Sign(a)
    PROVE  Inv'
<1> USE DEF Inv
<1> DEFINE p == save[a].path
<1>1. save[a] # NoSave /\ p \in Paths /\ Between(a)
    BY DEF ReadBack, Sign, NoSave, Saving, Types, SaveType, Between
<1>2. \/ /\ save' = [save EXCEPT ![a] = Saving("read", p, file[p])]
         /\ sig' = sig
      \/ save' = [save EXCEPT ![a] = NoSave] /\ file[p] = NoFile /\ sig' = sig
      \/ /\ save' = [save EXCEPT ![a] = NoSave] /\ save[a].at = "read"
         /\ sig' = [sig EXCEPT ![p] = save[a].content]
    <2>1. CASE ReadBack(a)
        BY <2>1 DEF ReadBack, disk
    <2>2. CASE Sign(a)
        BY <2>2 DEF Sign
    <2> QED BY <2>1, <2>2
<1>3. UNCHANGED <<turn, fold, front, path, minted, file>> /\ Record
    BY DEF ReadBack, Sign, disk
<1>4. SaveType'
    BY <1>1, <1>2, SaverTyped, NoSaveIs DEF Types, Stages
<1>5. Types'
    BY <1>2, <1>3, <1>4 DEF Types, DiskType, PathType, TurnType, FrontType, FoldType
<1>6. SaveInv'
    BY <1>1, <1>2, <1>3, SaverMoves
<1>7. SignInv'
    <2> SUFFICES ASSUME Spared({"cut", "overlap"})'
                 PROVE  /\ ~Overlap'
                        /\ \A b \in Savers : save'[b].at = "read" =>
                              file'[save'[b].path] \in {NoFile, save'[b].content}
                        /\ \A q \in Paths :
                              \/ file'[q] = NoFile
                              \/ Loads(q)'
                              \/ \E b \in Savers : Between(b)' /\ save'[b].path = q
        BY DEF SignInv
    <2>1. Spared({"cut", "overlap"}) /\ ~Overlap'
        BY <1>3, StillSpared
    <2>2. /\ \A b \in Savers : save[b].at = "read" => file[save[b].path] \in {NoFile, save[b].content}
          /\ \A q \in Paths :
                  \/ file[q] = NoFile
                  \/ Loads(q)
                  \/ \E b \in Savers : Between(b) /\ save[b].path = q
        BY <2>1 DEF SignInv
    <2>3. \A b \in Savers \ {a} : save'[b] = save[b]
        BY <1>2 DEF Types, SaveType, Saving
    <2>4. ASSUME NEW b \in Savers, save'[b].at = "read"
          PROVE  file'[save'[b].path] \in {NoFile, save'[b].content}
        <3>1. CASE b # a
            BY <2>2, <2>3, <2>4, <1>3, <3>1
        <3>2. CASE b = a
            BY <1>2, <1>3, <2>4, <3>2 DEF Types, SaveType, Saving, NoSave
        <3> QED BY <3>1, <3>2
    <2>5. ASSUME NEW q \in Paths
          PROVE  \/ file'[q] = NoFile
                 \/ Loads(q)'
                 \/ \E b \in Savers : Between(b)' /\ save'[b].path = q
        <3>1. CASE q = p
            <4>1. CASE save' = [save EXCEPT ![a] = Saving("read", p, file[p])]
                BY <3>1, <4>1 DEF Between, Types, SaveType, Saving
            <4>2. CASE file[p] = NoFile
                BY <3>1, <4>2, <1>3
            <4>3. CASE save[a].at = "read" /\ sig' = [sig EXCEPT ![p] = save[a].content]
                BY <3>1, <4>3, <1>1, <1>3, <2>2 DEF Loads, Types, DiskType
            <4> QED BY <1>2, <4>1, <4>2, <4>3
        <3>2. CASE q # p
            <4>1. file'[q] = file[q] /\ sig'[q] = sig[q]
                BY <1>2, <1>3, <3>2 DEF Types, DiskType
            <4>2. CASE \E b \in Savers : Between(b) /\ save[b].path = q
                <5>1. PICK b \in Savers : Between(b) /\ save[b].path = q
                    BY <4>2
                <5> QED BY <5>1, <2>3, <3>2 DEF Between
            <4>3. CASE file[q] = NoFile \/ Loads(q)
                BY <4>1, <4>3 DEF Loads
            <4> QED BY <2>2, <4>2, <4>3
        <3> QED BY <3>1, <3>2
    <2> QED BY <2>1, <2>4, <2>5
<1> QED BY <1>5, <1>6, <1>7

-----------------------------------------------------------------------------
LEMMA AutosaveSteps ==
    ASSUME Inv, AutosaveTick \/ AutosaveExit
    PROVE  Inv'
<1> USE DEF Inv
<1> USE SaverNames
<1>1. CASE AutosaveTick
    <2>1. SaveType' /\ \A b \in Savers : save'[b] = save[b] \/ (~Between(b) /\ ~Between(b)')
        BY <1>1, AskedTyped DEF AutosaveTick, Types
    <2>2. Types'
        BY <1>1, <2>1 DEF AutosaveTick, Types, DiskType, PathType, TurnType, FrontType, FoldType, disk
    <2>3. SaveInv'
        BY <1>1 DEF AutosaveTick, SaveInv, Types, SaveType, Saving
    <2>4. SignInv'
        BY <1>1, <2>1, CalmKeeps DEF AutosaveTick
    <2> QED BY <2>2, <2>3, <2>4
<1>2. CASE AutosaveExit
    <2>1. Types'
        BY <1>2 DEF AutosaveExit, Types, SaveType, Saving, DiskType, PathType, TurnType, FrontType, FoldType,
           Stages, disk
    <2>2. SaveInv'
        BY <1>2 DEF AutosaveExit, SaveInv
    <2>3. SignInv'
        BY <1>2, CalmKeeps DEF AutosaveExit
    <2> QED BY <2>1, <2>2, <2>3
<1> QED BY <1>1, <1>2

-----------------------------------------------------------------------------
\* The frontend's calls that ask for a save or put a branch's copy under way.
LEMMA FrontSaves ==
    ASSUME Inv, (\E op \in {"new", "branch", "switch", "resume"} : StartRotation(op)) \/ BranchCopy \/ CutLog
    PROVE  Inv'
<1> USE DEF Inv
<1> USE SaverNames
<1>1. save["front"] = NoSave /\ ~Between("front")
    BY DEF StartRotation, BranchCopy, CutLog, SaveInv, NoFront, Between, NoSave, Saving
<1>2. /\ UNCHANGED <<turn, fold, path, file, sig>> /\ Record
      /\ front'.at \in {"snapshot", "loaded", "saving"}
    BY DEF StartRotation, BranchCopy, CutLog, disk, Types, FrontType, NoFront
<1>3. SaveType' /\ (\A b \in Savers : save'[b] = save[b] \/ (~Between(b) /\ ~Between(b)'))
    <2>1. CASE \E op \in {"new", "branch", "switch", "resume"} : StartRotation(op)
        BY <2>1, <1>1, AskedTyped DEF StartRotation, Types
    <2>2. CASE BranchCopy
        <3>1. minted' \in Paths
            BY <2>2, PathFacts DEF BranchCopy, Types, PathType
        <3>2. save' = [save EXCEPT !["front"] = Saving("copied", minted', log)]
            BY <2>2 DEF BranchCopy
        <3>3. SaveType'
            BY <3>1, <3>2, SaverTyped DEF Types, Stages
        <3> QED BY <3>2, <3>3, <1>1 DEF Types, SaveType, Saving, Between
    <2>3. CASE CutLog
        BY <2>3, <1>1, AskedTyped DEF CutLog, Types
    <2> QED BY <2>1, <2>2, <2>3
<1>4. FrontType' /\ PathType'
    <2>1. CASE \E op \in {"new", "branch", "switch", "resume"} : StartRotation(op)
        BY <2>1 DEF StartRotation, Types, FrontType, PathType, NoFront, NoPath
    <2>2. CASE BranchCopy
        BY <2>2, PathFacts DEF BranchCopy, Types, FrontType, PathType
    <2>3. CASE CutLog
        BY <2>3 DEF CutLog, Types, FrontType, PathType
    <2> QED BY <2>1, <2>2, <2>3
<1>5. Types'
    BY <1>2, <1>3, <1>4 DEF Types, DiskType, TurnType, FoldType
<1>6. SaveInv'
    <2>1. save'["turn"] = save["turn"] /\ save'["compact"] = save["compact"]
        BY DEF StartRotation, BranchCopy, CutLog, Types, SaveType
    <2> QED BY <1>2, <2>1 DEF SaveInv
<1>7. SignInv'
    BY <1>2, <1>3, CalmKeeps DEF disk
<1> QED BY <1>5, <1>6, <1>7

\* Those that leave files and saves alone.
LEMMA FrontMoves ==
    ASSUME Inv, \/ StartClear \/ Rotate \/ (\E p \in Paths : Load(p)) \/ LoadNothing \/ SetSession \/ SetPath
                \/ StartRewind \/ EndRewind
    PROVE  Inv'
<1> USE DEF Inv
<1>1. UNCHANGED <<turn, fold, save, file, sig>> /\ Record
    BY DEF StartClear, Rotate, Load, LoadNothing, SetSession, SetPath, StartRewind, EndRewind, disk
<1>2. FrontType' /\ PathType' /\ save["front"] = NoSave
    <2>1. CASE StartClear
        BY <2>1 DEF StartClear, Types, FrontType, PathType, NoFront, SaveInv
    <2>2. CASE Rotate
        BY <2>2, PathFacts DEF Rotate, Types, FrontType, PathType, NoFront, NoPath, SaveInv
    <2>3. CASE \E p \in Paths : Load(p)
        <3>1. PICK p \in Paths : Load(p)
            BY <2>3
        <3>2. save["front"] = NoSave /\ UNCHANGED <<path, minted>>
            BY <3>1 DEF Load
        <3>3. CASE Loads(p)
            <4>1. front' = [front EXCEPT !.at = "loaded", !.to = p, !.log = file[p]]
                BY <3>1, <3>3 DEF Load
            <4> QED BY <3>2, <4>1 DEF Types, FrontType, PathType
        <3>4. CASE ~Loads(p)
            <4>1. front' = NoFront
                BY <3>1, <3>4 DEF Load
            <4> QED BY <3>2, <4>1 DEF Types, FrontType, PathType, NoFront, NoPath
        <3> QED BY <3>3, <3>4
    <2>4. CASE LoadNothing
        BY <2>4 DEF LoadNothing, Types, FrontType, PathType, NoFront, NoPath
    <2>5. CASE SetSession
        BY <2>5 DEF SetSession, Types, FrontType, PathType
    <2>6. CASE SetPath
        BY <2>6 DEF SetPath, Types, FrontType, PathType, NoFront, NoPath, SaveInv
    <2>7. CASE StartRewind
        BY <2>7 DEF StartRewind, Types, FrontType, PathType, NoFront, NoPath, SaveInv
    <2>8. CASE EndRewind
        BY <2>8 DEF EndRewind, Types, FrontType, PathType, NoFront, NoPath
    <2> QED BY <2>1, <2>2, <2>3, <2>4, <2>5, <2>6, <2>7, <2>8
<1>3. Types'
    BY <1>1, <1>2 DEF Types, SaveType, DiskType, TurnType, FoldType, Stages
<1>4. SaveInv'
    BY <1>1, <1>2 DEF SaveInv
<1>5. SignInv'
    BY <1>1, CalmKeeps DEF disk
<1> QED BY <1>3, <1>4, <1>5

\* A file goes: no one between the writes signs anything else.
LEMMA RemoveStep ==
    ASSUME Inv, RemoveArtifacts
    PROVE  Inv'
<1> USE DEF Inv
<1>1. /\ UNCHANGED <<turn, fold, save, sig, path, minted>> /\ Record
      /\ front.at = "remove" /\ front' = [front EXCEPT !.at = "rotate"]
      /\ \/ file' = file
         \/ file' = [file EXCEPT ![front.to] = NoFile]
    BY DEF RemoveArtifacts
<1>2. Types'
    BY <1>1 DEF Types, SaveType, DiskType, TurnType, FoldType, PathType, FrontType, Stages
<1>3. SaveInv'
    BY <1>1 DEF SaveInv, Types, FrontType
<1>4. \A q \in Paths : file'[q] \in {file[q], NoFile}
    BY <1>1 DEF Types, DiskType
<1>5. SignInv'
    <2> SUFFICES ASSUME Spared({"cut", "overlap"})'
                 PROVE  /\ ~Overlap'
                        /\ \A b \in Savers : save'[b].at = "read" =>
                              file'[save'[b].path] \in {NoFile, save'[b].content}
                        /\ \A q \in Paths :
                              \/ file'[q] = NoFile
                              \/ Loads(q)'
                              \/ \E b \in Savers : Between(b)' /\ save'[b].path = q
        BY DEF SignInv
    <2>1. Spared({"cut", "overlap"}) /\ ~Overlap'
        BY <1>1, StillSpared
    <2>2. \A b \in Savers : save[b].at = "read" =>
              save[b].path \in Paths /\ file[save[b].path] \in {NoFile, save[b].content}
        BY <2>1 DEF SignInv, Types, SaveType
    <2>3. \A q \in Paths :
              \/ file[q] = NoFile
              \/ Loads(q)
              \/ \E b \in Savers : Between(b) /\ save[b].path = q
        BY <2>1 DEF SignInv
    <2>4. \A b \in Savers : save'[b].at = "read" => file'[save'[b].path] \in {NoFile, save'[b].content}
        BY <1>1, <1>4, <2>2
    <2>5. ASSUME NEW q \in Paths
          PROVE  \/ file'[q] = NoFile
                 \/ Loads(q)'
                 \/ \E b \in Savers : Between(b)' /\ save'[b].path = q
        BY <1>1, <1>4, <2>3 DEF Loads, Between
    <2> QED BY <2>1, <2>4, <2>5
<1> QED BY <1>2, <1>3, <1>5

\* A crash that cut no save leaves every file signed or unsigned as it was.
LEMMA CrashStep ==
    ASSUME Inv, Crash
    PROVE  Inv'
<1> USE DEF Inv
<1>1. /\ save' = [a \in Savers |-> NoSave] /\ fold' = [a \in Folders |-> NoFold] /\ front' = NoFront
      /\ turn' = [NoTurn EXCEPT !.n = turn.n] /\ path' = NoPath
      /\ UNCHANGED <<minted, file, sig>> /\ mishaps' = mishaps \cup (IF Cut THEN {"cut"} ELSE {})
    BY DEF Crash, disk
<1>2. Types'
    BY <1>1 DEF Types, SaveType, DiskType, TurnType, FoldType, PathType, FrontType, Stages,
       NoSave, Saving, NoFront, NoTurn, NoPath
<1>3. SaveInv'
    BY <1>1, SaverNames DEF SaveInv
<1>4. SignInv'
    <2> SUFFICES ASSUME Spared({"cut", "overlap"})'
                 PROVE  /\ ~Overlap'
                        /\ \A b \in Savers : save'[b].at = "read" =>
                              file'[save'[b].path] \in {NoFile, save'[b].content}
                        /\ \A q \in Paths :
                              \/ file'[q] = NoFile
                              \/ Loads(q)'
                              \/ \E b \in Savers : Between(b)' /\ save'[b].path = q
        BY DEF SignInv
    <2>1. Spared({"cut", "overlap"}) /\ ~Cut
        BY <1>1 DEF Spared
    <2>2. ~Overlap'
        BY <1>1 DEF Overlap, Writing, NoSave, Saving
    <2>3. \A b \in Savers : ~Between(b)
        BY <2>1 DEF Cut, Between
    <2>4. \A q \in Paths : file[q] = NoFile \/ Loads(q)
        BY <2>1, <2>3 DEF SignInv
    <2>5. \A q \in Paths : file'[q] = NoFile \/ Loads(q)'
        BY <1>1, <2>4 DEF Loads
    <2>6. \A b \in Savers : save'[b].at # "read"
        BY <1>1 DEF NoSave, Saving
    <2> QED BY <2>2, <2>5, <2>6
<1> QED BY <1>2, <1>3, <1>4

-----------------------------------------------------------------------------
\* Every step of the turn, a fold, a frontend's call or a crash keeps savers
\* and signatures in step.
THEOREM InvStep == Inv /\ [Next]_vars => Inv'
<1> SUFFICES ASSUME Inv, [Next]_vars PROVE Inv'
    OBVIOUS
<1>1. CASE StartTurn \/ OpenTurn \/ AddMessage \/ EndLoop \/ FinishTurn
    BY <1>1, TurnSteps
<1>2. CASE AutosaveTick \/ AutosaveExit
    BY <1>2, AutosaveSteps
<1>3. CASE \E a \in Folders : PlanFold(a) \/ PutFold(a)
    BY <1>3, FoldSteps
<1>4. CASE \E a \in Savers : ReadPath(a) \/ CopyLog(a) \/ ReplaceFile(a) \/ ReadBack(a) \/ Sign(a)
    BY <1>4, QuietSaveSteps, ReplaceStep, SignSteps
<1>5. CASE (\E op \in {"new", "branch", "switch", "resume"} : StartRotation(op)) \/ BranchCopy \/ CutLog
    BY <1>5, FrontSaves
<1>6. CASE \/ StartClear \/ Rotate \/ (\E p \in Paths : Load(p)) \/ LoadNothing \/ SetSession \/ SetPath
           \/ StartRewind \/ EndRewind
    BY <1>6, FrontMoves
<1>7. CASE RemoveArtifacts
    BY <1>7, RemoveStep
<1>8. CASE Crash
    BY <1>8, CrashStep
<1>9. CASE UNCHANGED vars
    BY <1>9 DEF vars, memory, disk, Inv, Types, SaveType, DiskType, PathType, TurnType, FrontType, FoldType,
       SaveInv, SignInv, Overlap, Writing, Between, Loads, Spared
<1> QED BY <1>1, <1>2, <1>3, <1>4, <1>5, <1>6, <1>7, <1>8, <1>9 DEF Next

\* The savers and the signatures stay in step: Session.Save and its callers.
THEOREM SavesInStep == Spec => []Inv
BY InitInv, InvStep, PTL DEF Spec

\* What Session.Save wrote, LoadSession accepts, whenever no save is between
\* the file and its signature: but for a crash there and overlapping saves.
THEOREM SavedSessionsReload == Spec => []SavedFileReloads
<1>1. Inv => SavedFileReloads
    BY DEF Inv, SignInv, SavedFileReloads, Reloads, Between
<1> QED BY <1>1, SavesInStep, PTL

-----------------------------------------------------------------------------
(* Items taken from a log.                                                 *)

\* The numbers in S in ascending order.
Ascending(S) == [k \in 1..Cardinality(S) |-> CHOOSE n \in S : Cardinality({m \in S : m < n}) = k - 1]

\* They are all numbers of S, each once, the smaller before the greater.
LEMMA AscendingIs ==
    ASSUME NEW S, S \subseteq Nat, IsFiniteSet(S)
    PROVE  /\ Cardinality(S) \in Nat
           /\ Ascending(S) \in [1..Cardinality(S) -> S]
           /\ \A j, k \in 1..Cardinality(S) : j < k => Ascending(S)[j] < Ascending(S)[k]
           /\ \A n \in S : \E k \in 1..Cardinality(S) : Ascending(S)[k] = n
<1> DEFINE C == Cardinality(S)
           Below(n) == {m \in S : m < n}
           rank == [n \in S |-> Cardinality(Below(n))]
<1>1. C \in Nat
  BY FS_CardinalityType
<1>2. \A n \in S : IsFiniteSet(Below(n)) /\ Cardinality(Below(n)) \in Nat /\ Cardinality(Below(n)) < C
  <2>1. TAKE n \in S
  <2>2. Below(n) \in SUBSET S /\ n \notin Below(n)
    OBVIOUS
  <2>3. IsFiniteSet(Below(n)) /\ Cardinality(Below(n)) <= C /\ Below(n) # S
    BY <2>2, FS_Subset
  <2>4. Cardinality(Below(n)) # C
    BY <2>2, <2>3, FS_Subset
  <2>5. Cardinality(Below(n)) \in Nat
    BY <2>3, FS_CardinalityType
  <2>6. QED
    BY <1>1, <2>3, <2>4, <2>5
<1>3. \A m, n \in S : m < n => Cardinality(Below(m)) < Cardinality(Below(n))
  <2>1. SUFFICES ASSUME NEW m \in S, NEW n \in S, m < n PROVE Cardinality(Below(m)) < Cardinality(Below(n))
    OBVIOUS
  <2>2. Below(m) \in SUBSET Below(n) /\ m \in Below(n) /\ m \notin Below(m)
    <3>1. m \in Nat /\ n \in Nat /\ \A k \in S : k \in Nat
      OBVIOUS
    <3>2. \A k \in S : k < m => k < n
      BY <2>1, <3>1
    <3>3. Below(m) \in SUBSET Below(n)
      BY <3>2
    <3>4. m \in Below(n)
      BY <2>1
    <3>5. m \notin Below(m)
      BY <3>1
    <3>6. QED
      BY <3>3, <3>4, <3>5
  <2>3. Cardinality(Below(m)) <= Cardinality(Below(n)) /\ Cardinality(Below(m)) # Cardinality(Below(n))
    BY <1>2, <2>2, FS_Subset
  <2>4. QED
    BY <1>2, <2>3
<1> HIDE DEF C, Below
<1>4. \A n \in S : rank[n] \in 0..(C - 1) /\ rank[n] = Cardinality(Below(n))
  BY <1>1, <1>2
<1>5. rank \in [S -> 0..(C - 1)]
  BY <1>4
<1>6. \A m, n \in S : m < n => rank[m] < rank[n]
  BY <1>3, <1>4
<1>7. \A m, n \in S : rank[m] = rank[n] => m = n
  <2>1. \A n \in S : n \in Nat /\ rank[n] \in Nat
    BY <1>1, <1>4
  <2>2. QED
    BY <1>6, <2>1
<1>8. \A k \in 0..(C - 1) : \E n \in S : rank[n] = k
  <2>1. IsFiniteSet(0..(C - 1)) /\ Cardinality(0..(C - 1)) = C
    <3>1. 0 \in Int /\ C - 1 \in Int
      BY <1>1
    <3>2. Cardinality(0..(C - 1)) = IF 0 > C - 1 THEN 0 ELSE C - 1 - 0 + 1
      BY <3>1, FS_Interval, Zenon
    <3>3. QED
      BY <1>1, <3>1, <3>2, FS_Interval
  <2>2. rank \in Injection(S, 0..(C - 1))
    BY <1>5, <1>7 DEF Injection, IsInjective
  <2>3. rank \in Surjection(S, 0..(C - 1))
    BY <2>1, <2>2, FS_Injection, Zenon DEF C
  <2>4. QED
    BY <2>3 DEF Surjection
<1>9. ASSUME NEW k \in 1..C PROVE Ascending(S)[k] \in S /\ rank[Ascending(S)[k]] = k - 1
  <2>1. Ascending(S)[k] = CHOOSE n \in S : Cardinality(Below(n)) = k - 1
    BY Zenon DEF Ascending, C, Below
  <2>2. \A n \in S : (Cardinality(Below(n)) = k - 1) <=> (rank[n] = k - 1)
    BY <1>4
  <2>3. \E n \in S : Cardinality(Below(n)) = k - 1
    <3>1. k - 1 \in 0..(C - 1)
      BY <1>1
    <3>2. QED
      BY <1>8, <2>2, <3>1
  <2>4. Ascending(S)[k] \in S /\ Cardinality(Below(Ascending(S)[k])) = k - 1
    BY <2>1, <2>3, Zenon
  <2>5. QED
    BY <2>2, <2>4
<1> HIDE DEF rank
<1>10. ASSUME NEW j \in 1..C, NEW k \in 1..C, j < k PROVE Ascending(S)[j] < Ascending(S)[k]
  <2>1. /\ rank[Ascending(S)[j]] < rank[Ascending(S)[k]]
        /\ rank[Ascending(S)[j]] \in Nat /\ rank[Ascending(S)[k]] \in Nat
    BY <1>1, <1>9, <1>10
  <2>2. Ascending(S)[j] \in Nat /\ Ascending(S)[k] \in Nat
    BY <1>9
  <2>3. ~(Ascending(S)[k] < Ascending(S)[j]) /\ Ascending(S)[j] # Ascending(S)[k]
    <3>1. Ascending(S)[j] \in S /\ Ascending(S)[k] \in S
      BY <1>9
    <3>2. Ascending(S)[k] < Ascending(S)[j] => rank[Ascending(S)[k]] < rank[Ascending(S)[j]]
      BY <1>6, <3>1
    <3>3. QED
      BY <2>1, <3>2
  <2>4. QED
    BY <2>2, <2>3
<1>11. ASSUME NEW n \in S PROVE \E k \in 1..C : Ascending(S)[k] = n
  <2>1. rank[n] + 1 \in 1..C /\ rank[n] \in Nat
    BY <1>1, <1>4
  <2>2. Ascending(S)[rank[n] + 1] \in S /\ rank[Ascending(S)[rank[n] + 1]] = rank[n]
    BY <1>9, <2>1
  <2>3. QED
    BY <1>7, <2>1, <2>2
<1>12. Ascending(S) \in [1..C -> S]
  <2> DEFINE f(k) == CHOOSE n \in S : Cardinality({m \in S : m < n}) = k - 1
  <2>1. Ascending(S) = [k \in 1..C |-> f(k)]
    BY Zenon DEF Ascending, C
  <2>2. \A k \in 1..C : f(k) = Ascending(S)[k]
    BY <2>1, Zenon
  <2>3. \A k \in 1..C : f(k) \in S
    BY <1>9, <2>2
  <2> HIDE DEF f
  <2>4. QED
    BY <2>1, <2>3
<1>13. QED
  BY <1>1, <1>10, <1>11, <1>12 DEF C

\* t is what s has at the positions E, in their order.
Draws(t, s, E) ==
    \E at \in [DOMAIN t -> E] :
       /\ \A i \in DOMAIN t : t[i] = s[at[i]]
       /\ \A i, j \in DOMAIN t : i < j => at[i] < at[j]
       /\ \A x \in E : \E i \in DOMAIN t : at[i] = x

\* What an item so taken is, and what is before what.
LEMMA DrawnIs ==
    ASSUME NEW t, NEW s, NEW E, Draws(t, s, E)
    PROVE  /\ \A i \in DOMAIN t : \E x \in E : t[i] = s[x]
           /\ \A i, j \in DOMAIN t : i < j => \E x, y \in E : x < y /\ t[i] = s[x] /\ t[j] = s[y]
           /\ \A x \in E : \E i \in DOMAIN t : t[i] = s[x]
<1>1. PICK at \in [DOMAIN t -> E] :
         /\ \A i \in DOMAIN t : t[i] = s[at[i]]
         /\ \A i, j \in DOMAIN t : i < j => at[i] < at[j]
         /\ \A x \in E : \E i \in DOMAIN t : at[i] = x
  BY DEF Draws
<1>2. \A i \in DOMAIN t : at[i] \in E
  OBVIOUS
<1>3. \A i \in DOMAIN t : \E x \in E : t[i] = s[x]
  BY <1>1, <1>2
<1>4. \A i, j \in DOMAIN t : i < j => \E x, y \in E : x < y /\ t[i] = s[x] /\ t[j] = s[y]
  BY <1>1, <1>2
<1>5. \A x \in E : \E i \in DOMAIN t : t[i] = s[x]
  BY <1>1
<1>6. QED
  BY <1>3, <1>4, <1>5

\* A list so taken has the items of the other.
LEMMA DrawsType ==
    ASSUME NEW T, NEW s \in Seq(T), NEW E \in SUBSET DOMAIN s, NEW n \in Nat, NEW t, DOMAIN t = 1..n,
           t = [i \in 1..n |-> t[i]], Draws(t, s, E)
    PROVE  t \in Seq(T) /\ Len(t) = n
<1>1. \A i \in 1..n : t[i] \in T
  <2>1. TAKE i \in 1..n
  <2>2. PICK x \in E : t[i] = s[x]
    BY DrawnIs
  <2>3. s[x] \in T
    BY <2>2
  <2>4. QED
    BY <2>2, <2>3
<1>2. t \in [1..n -> T]
  BY <1>1
<1>3. QED
  BY <1>2

\* Picked takes the positions it is given.
LEMMA PickedDraws ==
    ASSUME NEW T, NEW s \in Seq(T), NEW P \in SUBSET DOMAIN s
    PROVE  Picked(s, P) \in Seq(T) /\ Draws(Picked(s, P), s, P)
<1> DEFINE C == Cardinality(P)
           at == Ascending(P)
           t == [k \in 1..C |-> s[at[k]]]
<1>1. P \subseteq Nat /\ IsFiniteSet(P)
  <2>1. DOMAIN s = 1..Len(s) /\ Len(s) \in Nat
    OBVIOUS
  <2>2. IsFiniteSet(1..Len(s))
    BY <2>1, FS_Interval
  <2>3. QED
    BY <2>1, <2>2, FS_Subset
<1>2. Picked(s, P) = t
  <2> DEFINE g == [k \in 1..C |-> s[CHOOSE i \in P : Cardinality({j \in P : j < i}) = k - 1]]
  <2>1. Picked(s, P) = g
    BY Zenon DEF Picked
  <2>2. ASSUME NEW k \in 1..C PROVE g[k] = t[k]
    <3>1. at[k] = CHOOSE i \in P : Cardinality({j \in P : j < i}) = k - 1
      BY Zenon DEF Ascending
    <3>2. g[k] = s[CHOOSE i \in P : Cardinality({j \in P : j < i}) = k - 1]
      BY Zenon
    <3>3. t[k] = s[at[k]]
      BY Zenon
    <3>4. QED
      BY <3>1, <3>2, <3>3, Zenon
  <2>3. g = t
    BY <2>2, Zenon
  <2>4. QED
    BY <2>1, <2>3
<1>3. /\ C \in Nat
      /\ at \in [1..C -> P]
      /\ \A j, k \in 1..C : j < k => at[j] < at[k]
      /\ \A n \in P : \E k \in 1..C : at[k] = n
  BY <1>1, AscendingIs, Zenon
<1> HIDE DEF C, at
<1>6. Draws(t, s, P)
  BY <1>3 DEF Draws
<1>7. t \in Seq(T)
  BY <1>3, <1>6, DrawsType
<1>8. QED
  BY <1>2, <1>6, <1>7

LEMMA LeastExists ==
    ASSUME NEW S \in SUBSET Nat, S # {}
    PROVE  \E n \in S : \A k \in S : n <= k
<1>1. PICK n \in S : \A m \in S : ~ (<<m, n>> \in OpToRel(<, Nat))
  BY WFMin, NatLessThanWellFounded, Zenon
<1>2. \A m \in S : <<m, n>> \in Nat \X Nat
  OBVIOUS
<1>3. \A m \in S : ~(m < n)
  BY <1>1, <1>2, Zenon DEF OpToRel
<1>4. QED
  BY <1>3

LEMMA GreatestExists ==
    ASSUME NEW b \in Nat, NEW S \in SUBSET (0..b), S # {}
    PROVE  \E n \in S : \A k \in S : k <= n
<1> DEFINE gaps == {u \in 0..b : b - u \in S}
<1>1. gaps \in SUBSET Nat /\ gaps # {}
  <2>1. PICK n \in S : TRUE
    OBVIOUS
  <2>2. b - n \in gaps
    BY <2>1
  <2>3. \A u \in gaps : u \in Nat
    OBVIOUS
  <2>4. QED
    BY <2>2, <2>3, Zenon
<1>2. PICK u \in gaps : \A v \in gaps : u <= v
  BY <1>1, LeastExists, Zenon
<1>3. ASSUME NEW k \in S PROVE k <= b - u
  <2>1. b - k \in gaps /\ k \in 0..b
    OBVIOUS
  <2>2. u <= b - k
    BY <1>2, <2>1, Zenon
  <2>3. QED
    BY <2>1, <2>2
<1>4. b - u \in S
  BY <1>2
<1>5. QED
  BY <1>3, <1>4

\* A stretch of a list is taken from it.
LEMMA PartDraws ==
    ASSUME NEW T, NEW s \in Seq(T), NEW p \in Nat, NEW k \in Nat, p <= k, k <= Len(s)
    PROVE  /\ SubSeq(s, p + 1, k) \in Seq(T) /\ Len(SubSeq(s, p + 1, k)) = k - p
           /\ \A i \in 1..(k - p) : SubSeq(s, p + 1, k)[i] = s[p + i]
           /\ Draws(SubSeq(s, p + 1, k), s, {x \in DOMAIN s : p < x /\ x <= k})
<1> DEFINE t == SubSeq(s, p + 1, k)
           E == {x \in DOMAIN s : p < x /\ x <= k}
           at == [i \in 1..(k - p) |-> p + i]
<1>1. /\ t \in Seq(T) /\ Len(t) = k - p /\ DOMAIN t = 1..(k - p)
      /\ \A i \in 1..(k - p) : t[i] = s[p + i]
  <2>1. k - p \in Nat /\ Len(s) \in Nat /\ DOMAIN s = 1..Len(s)
    OBVIOUS
  <2>2. \A i \in 1..(k - p) : p + i \in 1..Len(s) /\ s[p + i] \in T
    BY <2>1
  <2>3. t = [i \in 1..(k - p) |-> s[p + i]]
    BY <2>1
  <2>4. t \in [1..(k - p) -> T]
    BY <2>2, <2>3
  <2>5. QED
    BY <2>1, <2>3, <2>4
<1> HIDE DEF t
<1>2. at \in [DOMAIN t -> E]
  BY <1>1
<1>3. \A i \in DOMAIN t : t[i] = s[at[i]]
  BY <1>1
<1>4. \A i, j \in DOMAIN t : i < j => at[i] < at[j]
  BY <1>1
<1>5. \A x \in E : \E i \in DOMAIN t : at[i] = x
  <2>1. TAKE x \in E
  <2>2. x - p \in 1..(k - p) /\ p + (x - p) = x
    OBVIOUS
  <2>3. QED
    BY <1>1, <2>2
<1>6. Draws(t, s, E)
  BY <1>2, <1>3, <1>4, <1>5 DEF Draws
<1>7. QED
  BY <1>1, <1>6 DEF t

\* What is taken of a stretch is taken of the list.
LEMMA ShiftDraws ==
    ASSUME NEW T, NEW s \in Seq(T), NEW p \in Nat, NEW k \in Nat, p <= k, k <= Len(s),
           NEW r, r = SubSeq(s, p + 1, k), NEW P \in SUBSET (1..(k - p)), NEW t, Draws(t, r, P),
           NEW E \in SUBSET DOMAIN s, \A x \in DOMAIN s : x \in E <=> x - p \in P
    PROVE  Draws(t, s, E)
<1>1. PICK at \in [DOMAIN t -> P] :
         /\ \A i \in DOMAIN t : t[i] = r[at[i]]
         /\ \A i, j \in DOMAIN t : i < j => at[i] < at[j]
         /\ \A x \in P : \E i \in DOMAIN t : at[i] = x
  BY DEF Draws
<1>2. \A i \in 1..(k - p) : r[i] = s[p + i]
  BY PartDraws
<1> DEFINE bt == [i \in DOMAIN t |-> p + at[i]]
<1>3. \A i \in DOMAIN t : at[i] \in P /\ at[i] \in 1..(k - p)
  OBVIOUS
<1>4. bt \in [DOMAIN t -> E]
  <2>1. \A i \in DOMAIN t : p + at[i] \in DOMAIN s /\ (p + at[i]) - p = at[i]
    BY <1>3
  <2>2. QED
    BY <1>3, <2>1
<1>5. \A i \in DOMAIN t : t[i] = s[bt[i]]
  BY <1>1, <1>2, <1>3
<1>6. \A i, j \in DOMAIN t : i < j => bt[i] < bt[j]
  BY <1>1, <1>3
<1>7. \A x \in E : \E i \in DOMAIN t : bt[i] = x
  <2>1. TAKE x \in E
  <2>2. PICK i \in DOMAIN t : at[i] = x - p
    BY <1>1
  <2>3. bt[i] = x
    BY <2>2
  <2>4. QED
    BY <2>3
<1>8. QED
  BY <1>4, <1>5, <1>6, <1>7 DEF Draws

\* What is taken of two stretches one after the other, joined.
LEMMA JoinDraws ==
    ASSUME NEW T, NEW s \in Seq(T), NEW E \in SUBSET DOMAIN s, NEW F \in SUBSET DOMAIN s,
           \A x \in E, y \in F : x < y,
           NEW t \in Seq(T), NEW u \in Seq(T), Draws(t, s, E), Draws(u, s, F)
    PROVE  t \o u \in Seq(T) /\ Draws(t \o u, s, E \cup F)
<1> DEFINE m == Len(t)
           n == Len(u)
           c == t \o u
<1>1. m \in Nat /\ n \in Nat /\ DOMAIN t = 1..m /\ DOMAIN u = 1..n
  OBVIOUS
<1>2. c \in Seq(T) /\ DOMAIN c = 1..(m + n)
      /\ (\A i \in 1..m : c[i] = t[i]) /\ (\A i \in (m + 1)..(m + n) : c[i] = u[i - m])
  BY <1>1
<1>3. PICK at \in [DOMAIN t -> E] :
         /\ \A i \in DOMAIN t : t[i] = s[at[i]]
         /\ \A i, j \in DOMAIN t : i < j => at[i] < at[j]
         /\ \A x \in E : \E i \in DOMAIN t : at[i] = x
  BY DEF Draws
<1>4. PICK bt \in [DOMAIN u -> F] :
         /\ \A i \in DOMAIN u : u[i] = s[bt[i]]
         /\ \A i, j \in DOMAIN u : i < j => bt[i] < bt[j]
         /\ \A x \in F : \E i \in DOMAIN u : bt[i] = x
  BY DEF Draws
<1> DEFINE ct == [i \in 1..(m + n) |-> IF i <= m THEN at[i] ELSE bt[i - m]]
<1> HIDE DEF c, m, n
<1>5. \A i \in 1..(m + n) : i \in 1..m \/ (i \in (m + 1)..(m + n) /\ i - m \in 1..n /\ ~(i <= m))
  BY <1>1
<1>6. (\A i \in 1..m : at[i] \in E /\ ct[i] = at[i] /\ c[i] = s[ct[i]])
      /\ (\A i \in (m + 1)..(m + n) : bt[i - m] \in F /\ ct[i] = bt[i - m] /\ c[i] = s[ct[i]])
  <2>1. ASSUME NEW i \in 1..m PROVE at[i] \in E /\ ct[i] = at[i] /\ c[i] = s[ct[i]]
    <3>1. i \in 1..(m + n) /\ i <= m
      BY <1>1
    <3>2. ct[i] = at[i]
      BY <3>1
    <3>3. at[i] \in E /\ t[i] = s[at[i]]
      BY <1>1, <1>3
    <3>4. QED
      BY <1>2, <3>2, <3>3
  <2>2. ASSUME NEW i \in (m + 1)..(m + n) PROVE bt[i - m] \in F /\ ct[i] = bt[i - m] /\ c[i] = s[ct[i]]
    <3>1. i \in 1..(m + n) /\ ~(i <= m) /\ i - m \in 1..n
      BY <1>1
    <3>2. ct[i] = bt[i - m]
      BY <3>1
    <3>3. bt[i - m] \in F /\ u[i - m] = s[bt[i - m]]
      BY <1>1, <1>4, <3>1
    <3>4. QED
      BY <1>2, <3>2, <3>3
  <2>3. QED
    BY <2>1, <2>2
<1> HIDE DEF ct
<1>7. ct \in [DOMAIN c -> E \cup F]
  <2>1. \A i \in 1..(m + n) : ct[i] \in E \cup F
    BY <1>5, <1>6
  <2>2. QED
    BY <1>2, <2>1 DEF ct
<1>8. \A i \in DOMAIN c : c[i] = s[ct[i]]
  BY <1>2, <1>5, <1>6
<1>9. \A i, j \in DOMAIN c : i < j => ct[i] < ct[j]
  <2>1. SUFFICES ASSUME NEW i \in 1..(m + n), NEW j \in 1..(m + n), i < j PROVE ct[i] < ct[j]
    BY <1>2
  <2>2. CASE j \in 1..m
    <3>1. i \in 1..m
      BY <1>1, <2>1, <2>2
    <3>2. QED
      BY <1>1, <1>3, <1>6, <2>1, <2>2, <3>1
  <2>3. CASE i \in 1..m /\ j \in (m + 1)..(m + n)
    BY <1>6, <2>3
  <2>4. CASE i \in (m + 1)..(m + n) /\ j \in (m + 1)..(m + n)
    <3>1. i - m \in 1..n /\ j - m \in 1..n /\ i - m < j - m
      BY <1>1, <2>1, <2>4
    <3>2. bt[i - m] < bt[j - m]
      BY <1>1, <1>4, <3>1
    <3>3. QED
      BY <1>6, <2>4, <3>2
  <2>5. QED
    BY <1>1, <1>5, <2>1, <2>2, <2>3, <2>4
<1>10. \A x \in E \cup F : \E i \in DOMAIN c : ct[i] = x
  <2>1. ASSUME NEW x \in E PROVE \E i \in DOMAIN c : ct[i] = x
    <3>1. PICK i \in 1..m : at[i] = x
      BY <1>1, <1>3
    <3>2. i \in DOMAIN c /\ ct[i] = x
      BY <1>1, <1>2, <1>6, <3>1
    <3>3. QED
      BY <3>2
  <2>2. ASSUME NEW x \in F PROVE \E i \in DOMAIN c : ct[i] = x
    <3>1. PICK i \in 1..n : bt[i] = x
      BY <1>1, <1>4
    <3>2. m + i \in (m + 1)..(m + n) /\ (m + i) - m = i
      BY <1>1
    <3>3. m + i \in DOMAIN c /\ ct[m + i] = x
      <4>1. ct[m + i] = bt[(m + i) - m]
        BY <1>6, <3>2
      <4>2. m + i \in DOMAIN c
        BY <1>1, <1>2, <3>2
      <4>3. QED
        BY <3>1, <3>2, <4>1, <4>2, Zenon
    <3>4. QED
      BY <3>3
  <2>3. QED
    BY <2>1, <2>2
<1>11. QED
  BY <1>2, <1>7, <1>8, <1>9, <1>10 DEF Draws, c

\* The items in front of the region of a fold, and that they stay.
LEMMA PinnedIs ==
    ASSUME NEW T, NEW s \in Seq(T)
    PROVE  pinnedPrefixLen(s) \in 0..Len(s) /\ \A i \in 1..pinnedPrefixLen(s) : Stays(s[i])
<1> DEFINE first == IF s # <<>> /\ IsUser(s[1]) THEN 1 ELSE 0
           Stops(h) == h = Len(s) \/ ~IsDigest(s[h + 1])
           Good(h) == (\A i \in (first + 1)..h : IsDigest(s[i])) /\ Stops(h)
           S == {h \in first..Len(s) : Stops(h)}
<1>1. first \in {0, 1} /\ first <= Len(s) /\ Len(s) \in Nat /\ (first = 1 => IsUser(s[1]))
  BY EmptySeq
<1> HIDE DEF first
<1>2. S \in SUBSET Nat /\ S # {}
  <2>1. Len(s) \in S
    BY <1>1
  <2>2. QED
    BY <1>1, <2>1
<1>3. PICK h \in S : \A k \in S : h <= k
  BY <1>2, LeastExists, Zenon
<1>4. \A i \in (first + 1)..h : IsDigest(s[i])
  <2>1. TAKE i \in (first + 1)..h
  <2>2. i - 1 \in first..Len(s) /\ i - 1 < h /\ h \in Nat /\ i - 1 # Len(s) /\ (i - 1) + 1 = i
    BY <1>1, <1>3
  <2>3. i - 1 \notin S
    BY <1>3, <2>2
  <2>4. QED
    BY <2>2, <2>3
<1>5. h \in first..Len(s) /\ Good(h)
  BY <1>3, <1>4
<1> DEFINE p == CHOOSE g \in first..Len(s) : Good(g)
<1>6. p \in first..Len(s) /\ Good(p)
  BY <1>5, Zenon
<1>7. pinnedPrefixLen(s) = p
  BY Zenon DEF pinnedPrefixLen, first
<1> HIDE DEF p
<1>8. ASSUME NEW i \in 1..p PROVE Stays(s[i])
  <2>1. CASE i \in (first + 1)..p
    BY <1>6, <2>1 DEF Stays
  <2>2. CASE i = 1 /\ first = 1
    BY <1>1, <2>2 DEF Stays
  <2>3. QED
    BY <1>1, <1>6, <2>1, <2>2
<1>9. QED
  BY <1>1, <1>6, <1>7, <1>8

LEMMA PreviousIs ==
    ASSUME NEW T, NEW s \in Seq(T)
    PROVE  /\ PreviousDigest(s) \in 0..pinnedPrefixLen(s)
           /\ PreviousDigest(s) # 0 => /\ IsDigest(s[PreviousDigest(s)])
                                       /\ \A j \in DOMAIN s : IsDigest(s[j]) => j <= PreviousDigest(s)
<1> DEFINE digests == {i \in DOMAIN s : IsDigest(s[i])}
           newest == CHOOSE i \in digests : \A j \in digests : j <= i
<1>1. Len(s) \in Nat /\ DOMAIN s = 1..Len(s) /\ pinnedPrefixLen(s) \in 0..Len(s)
  BY PinnedIs
<1>2. PreviousDigest(s) = IF digests # {} /\ newest <= pinnedPrefixLen(s) THEN newest ELSE 0
  BY Zenon DEF PreviousDigest
<1>3. ASSUME digests # {} PROVE newest \in digests /\ \A j \in digests : j <= newest
  <2>1. digests \in SUBSET (0..Len(s))
    BY <1>1
  <2>2. \E n \in digests : \A k \in digests : k <= n
    BY <1>1, <1>3, <2>1, GreatestExists, Zenon
  <2>3. QED
    BY <2>2, Zenon
<1> HIDE DEF newest
<1>4. CASE digests # {} /\ newest <= pinnedPrefixLen(s)
  BY <1>1, <1>2, <1>3, <1>4
<1>5. CASE ~(digests # {} /\ newest <= pinnedPrefixLen(s))
  BY <1>1, <1>2, <1>5
<1>6. QED
  BY <1>4, <1>5

-----------------------------------------------------------------------------
(* What a fold makes of a log.                                             *)

\* What a fold at k leaves of s before its digest, folds, and leaves behind it.
Left(s, k) == {x \in DOMAIN s : x <= k /\ Stays(s[x]) /\ x # PreviousDigest(s)}
Gone(s, k) == {x \in DOMAIN s : x <= k /\ ~Stays(s[x])}
Rest(s, k) == {x \in DOMAIN s : k < x}

Folds(s, k) == UNION {s[x].of : x \in Gone(s, k)}
Earlier(s) == IF PreviousDigest(s) # 0 THEN s[PreviousDigest(s)].of ELSE {}
NewDigest(s, k, answered) == [digest |-> TRUE, of |-> IF answered THEN Folds(s, k) \cup Earlier(s) ELSE {}]

\* What is taken from a log holds what its items hold.
LEMMA HeldIs ==
    ASSUME NEW t, NEW s, NEW E, Draws(t, s, E)
    PROVE  Held(t) = UNION {s[x].of : x \in E}
<1>1. /\ \A i \in DOMAIN t : \E x \in E : t[i] = s[x]
      /\ \A x \in E : \E i \in DOMAIN t : t[i] = s[x]
  BY DrawnIs
<1>2. ASSUME NEW m \in Held(t) PROVE m \in UNION {s[x].of : x \in E}
  <2>1. PICK i \in DOMAIN t : m \in t[i].of
    BY DEF Held
  <2>2. PICK x \in E : t[i] = s[x]
    BY <1>1
  <2>3. QED
    BY <2>1, <2>2
<1>3. ASSUME NEW m \in UNION {s[x].of : x \in E} PROVE m \in Held(t)
  <2>1. PICK x \in E : m \in s[x].of
    OBVIOUS
  <2>2. PICK i \in DOMAIN t : t[i] = s[x]
    BY <1>1
  <2>3. QED
    BY <2>1, <2>2 DEF Held
<1>4. QED
  BY <1>2, <1>3

\* Two logs one after the other hold what each holds.
LEMMA HeldJoins ==
    ASSUME NEW T, NEW t \in Seq(T), NEW u \in Seq(T)
    PROVE  Held(t \o u) = Held(t) \cup Held(u)
<1> DEFINE m == Len(t)
           n == Len(u)
           c == t \o u
<1>1. m \in Nat /\ n \in Nat /\ DOMAIN t = 1..m /\ DOMAIN u = 1..n /\ DOMAIN c = 1..(m + n)
      /\ (\A i \in 1..m : c[i] = t[i]) /\ (\A i \in (m + 1)..(m + n) : c[i] = u[i - m])
  OBVIOUS
<1> HIDE DEF m, n, c
<1>2. ASSUME NEW x \in Held(c) PROVE x \in Held(t) \cup Held(u)
  <2>1. PICK i \in 1..(m + n) : x \in c[i].of
    BY <1>1 DEF Held
  <2>2. CASE i \in 1..m
    BY <1>1, <2>1, <2>2 DEF Held
  <2>3. CASE i \in (m + 1)..(m + n)
    <3>1. i - m \in 1..n /\ x \in u[i - m].of
      BY <1>1, <2>1, <2>3
    <3>2. QED
      BY <1>1, <3>1 DEF Held
  <2>4. QED
    BY <1>1, <2>2, <2>3
<1>3. ASSUME NEW x \in Held(t) PROVE x \in Held(c)
  <2>1. PICK i \in 1..m : x \in t[i].of
    BY <1>1, <1>3 DEF Held
  <2>2. i \in DOMAIN c /\ c[i] = t[i]
    BY <1>1
  <2>3. QED
    BY <2>1, <2>2 DEF Held
<1>4. ASSUME NEW x \in Held(u) PROVE x \in Held(c)
  <2>1. PICK i \in 1..n : x \in u[i].of
    BY <1>1, <1>4 DEF Held
  <2>2. m + i \in (m + 1)..(m + n) /\ m + i \in DOMAIN c /\ (m + i) - m = i
    BY <1>1
  <2>3. c[m + i] = u[(m + i) - m]
    BY <1>1, <2>2
  <2>4. c[m + i] = u[i]
    BY <2>2, <2>3
  <2>5. QED
    BY <2>1, <2>2, <2>4 DEF Held
<1>5. QED
  BY <1>2, <1>3, <1>4 DEF c

\* What partitionFold takes of the region is what it takes of the log.
LEMMA RegionDraws ==
    ASSUME NEW T, NEW s \in Seq(T), NEW p \in Nat, NEW k \in Nat, p <= k, k <= Len(s), NEW W,
           NEW r, r = SubSeq(s, p + 1, k), 
           NEW P \in SUBSET DOMAIN r, \A i \in DOMAIN r : i \in P <=> r[i] \in W,
           NEW E \in SUBSET DOMAIN s, \A x \in DOMAIN s : x \in E <=> p < x /\ x <= k /\ s[x] \in W
    PROVE  Picked(r, P) \in Seq(T) /\ Draws(Picked(r, P), s, E)
<1>1. r \in Seq(T) /\ DOMAIN r = 1..(k - p) /\ (\A i \in 1..(k - p) : r[i] = s[p + i])
  BY PartDraws
<1>2. ASSUME NEW x \in DOMAIN s PROVE x \in E <=> x - p \in P
  <2>1. ASSUME x \in E PROVE x - p \in P
    <3>1. x - p \in 1..(k - p) /\ p + (x - p) = x
      BY <2>1
    <3>2. r[x - p] = s[x]
      BY <1>1, <3>1
    <3>3. QED
      BY <1>1, <2>1, <3>1, <3>2
  <2>2. ASSUME x - p \in P PROVE x \in E
    <3>1. x - p \in 1..(k - p) /\ r[x - p] \in W
      BY <1>1, <2>2
    <3>2. x \in Nat /\ p + (x - p) = x /\ p < x /\ x <= k
      <4>1. x \in Nat
        OBVIOUS
      <4>2. QED
        BY <3>1, <4>1
    <3>3. r[x - p] = s[x]
      <4>1. r[x - p] = s[p + (x - p)]
        BY <1>1, <3>1, Zenon
      <4>2. QED
        BY <4>1, <3>2, Zenon
    <3>4. QED
      BY <3>1, <3>2, <3>3
  <2>3. QED
    BY <2>1, <2>2
<1>3. Picked(r, P) \in Seq(T) /\ Draws(Picked(r, P), r, P)
  BY <1>1, PickedDraws
<1>4. Draws(Picked(r, P), s, E)
  BY <1>1, <1>2, <1>3, ShiftDraws
<1>5. QED
  BY <1>3, <1>4

\* A folded log is what stays, the digest, and what is behind.
LEMMA CompactedIs ==
    ASSUME NEW T, NEW s \in Seq(T), NEW k \in TailStarts(s), NEW answered \in BOOLEAN
    PROVE  \E t \in Seq(T), u \in Seq(T) :
              /\ Compacted(s, k, answered) = t \o <<NewDigest(s, k, answered)>> \o u
              /\ Draws(t, s, Left(s, k)) /\ Draws(u, s, Rest(s, k))
<1> DEFINE p == pinnedPrefixLen(s)
           old == PreviousDigest(s)
           r == SubSeq(s, p + 1, k)
           A == {x \in DOMAIN s : x <= p /\ x # old}
           B == {x \in DOMAIN s : p < x /\ x <= k /\ Stays(s[x])}
           G == {x \in DOMAIN s : p < x /\ x <= k /\ ~Stays(s[x])}
<1>1. /\ p \in 0..Len(s) /\ Len(s) \in Nat /\ DOMAIN s = 1..Len(s) /\ \A i \in 1..p : Stays(s[i])
      /\ k \in (p + 1)..Len(s)
      /\ old \in 0..p
  BY PinnedIs, PreviousIs DEF TailStarts
<1> HIDE DEF p, old
<1>r. r \in Seq(T) /\ p \in Nat /\ k \in Nat /\ p <= k /\ k <= Len(s)
  <2>1. p \in Nat /\ k \in Nat /\ p <= k /\ k <= Len(s)
    BY <1>1
  <2>2. QED
    BY <2>1, PartDraws
<1>2. Kept(r) \in Seq(T) /\ Draws(Kept(r), s, B)
  <2> DEFINE W == {x \in T : Stays(x)}
             P == {i \in DOMAIN r : Stays(r[i])}
             E == {x \in DOMAIN s : p < x /\ x <= k /\ Stays(s[x])}
  <2>1. P \in SUBSET DOMAIN r /\ \A i \in DOMAIN r : i \in P <=> r[i] \in W
    <3> HIDE DEF r
    <3>1. \A i \in DOMAIN r : r[i] \in T
      BY <1>r
    <3>2. QED
      BY <3>1
  <2>2. E \in SUBSET DOMAIN s /\ \A x \in DOMAIN s : x \in E <=> p < x /\ x <= k /\ s[x] \in W
    <3>1. \A i \in DOMAIN s : s[i] \in T
      OBVIOUS
    <3>2. QED
      BY <3>1
  <2>3. r = SubSeq(s, p + 1, k)
    OBVIOUS
  <2>4. Picked(r, P) \in Seq(T) /\ Draws(Picked(r, P), s, E)
    <3> HIDE DEF W, P, E, r
    <3>1. QED
      BY <1>r, <2>1, <2>2, <2>3, RegionDraws
  <2>5. QED
    BY <2>4 DEF Kept
<1>3. Draws(Folded(r), s, G)
  <2> DEFINE W == {x \in T : ~Stays(x)}
             P == {i \in DOMAIN r : ~Stays(r[i])}
             E == {x \in DOMAIN s : p < x /\ x <= k /\ ~Stays(s[x])}
  <2>1. P \in SUBSET DOMAIN r /\ \A i \in DOMAIN r : i \in P <=> r[i] \in W
    <3> HIDE DEF r
    <3>1. \A i \in DOMAIN r : r[i] \in T
      BY <1>r
    <3>2. QED
      BY <3>1
  <2>2. E \in SUBSET DOMAIN s /\ \A x \in DOMAIN s : x \in E <=> p < x /\ x <= k /\ s[x] \in W
    <3>1. \A i \in DOMAIN s : s[i] \in T
      OBVIOUS
    <3>2. QED
      BY <3>1
  <2>3. r = SubSeq(s, p + 1, k)
    OBVIOUS
  <2>4. Picked(r, P) \in Seq(T) /\ Draws(Picked(r, P), s, E)
    <3> HIDE DEF W, P, E, r
    <3>1. QED
      BY <1>r, <2>1, <2>2, <2>3, RegionDraws
  <2>5. QED
    BY <2>4 DEF Folded
<1>4. Prefix(s) \in Seq(T) /\ Draws(Prefix(s), s, A)
  <2>1. CASE old = 0
    <3>1. Prefix(s) = SubSeq(s, 1, 0 - 1) \o SubSeq(s, 0 + 1, p)
      BY <2>1 DEF Prefix, old, p
    <3>2. SubSeq(s, 1, 0 - 1) = <<>>
      OBVIOUS
    <3>3. SubSeq(s, 0 + 1, p) \in Seq(T) /\ Draws(SubSeq(s, 0 + 1, p), s, {x \in DOMAIN s : 0 < x /\ x <= p})
      BY <1>1, PartDraws
    <3>4. {x \in DOMAIN s : 0 < x /\ x <= p} = A
      BY <1>1, <2>1
    <3>5. Prefix(s) = SubSeq(s, 0 + 1, p)
      BY <3>1, <3>2, <3>3
    <3>6. QED
      BY <3>3, <3>4, <3>5
  <2>2. CASE old # 0
    <3> DEFINE t == SubSeq(s, 0 + 1, old - 1)
               u == SubSeq(s, old + 1, p)
               E == {x \in DOMAIN s : 0 < x /\ x <= old - 1}
               F == {x \in DOMAIN s : old < x /\ x <= p}
    <3>1. Prefix(s) = t \o u
      BY DEF Prefix, old, p
    <3>2. t \in Seq(T) /\ Draws(t, s, E)
      <4>1. old - 1 \in Nat /\ 0 <= old - 1 /\ old - 1 <= Len(s)
        BY <1>1, <2>2
      <4>2. QED
        BY <4>1, PartDraws
    <3>3. u \in Seq(T) /\ Draws(u, s, F)
      <4>1. old \in Nat /\ p \in Nat /\ old <= p /\ p <= Len(s)
        BY <1>1
      <4>2. QED
        BY <4>1, PartDraws
    <3> HIDE DEF t, u
    <3>4. \A x \in E, y \in F : x < y
      BY <1>1
    <3>5. t \o u \in Seq(T) /\ Draws(t \o u, s, E \cup F)
      BY <3>2, <3>3, <3>4, JoinDraws
    <3>6. E \cup F = A
      BY <1>1, <2>2
    <3>7. QED
      BY <3>1, <3>5, <3>6
  <2>3. QED
    BY <2>1, <2>2
<1> DEFINE t == Prefix(s) \o Kept(r)
           u == SubSeq(s, k + 1, Len(s))
<1>5. t \in Seq(T) /\ Draws(t, s, Left(s, k))
  <2>1. \A x \in A, y \in B : x < y
    BY <1>1
  <2>2. A \in SUBSET DOMAIN s /\ B \in SUBSET DOMAIN s
    OBVIOUS
  <2>3. t \in Seq(T) /\ Draws(t, s, A \cup B)
    <3> HIDE DEF A, B, r
    <3>1. QED
      BY <1>2, <1>4, <2>1, <2>2, JoinDraws
  <2>4. A \cup B = Left(s, k)
    <3>1. \A x \in A : x <= k /\ Stays(s[x])
      BY <1>1
    <3>2. \A x \in B : x # old
      BY <1>1
    <3>3. QED
      BY <1>1, <3>1, <3>2 DEF Left, old
  <2>5. QED
    BY <2>3, <2>4
<1>6. u \in Seq(T) /\ Draws(u, s, Rest(s, k))
  <2>1. u \in Seq(T) /\ Draws(u, s, {x \in DOMAIN s : k < x /\ x <= Len(s)})
    BY <1>1, PartDraws
  <2>2. {x \in DOMAIN s : k < x /\ x <= Len(s)} = Rest(s, k)
    BY <1>1 DEF Rest
  <2>3. QED
    BY <2>1, <2>2
<1>7. Held(Folded(r)) = Folds(s, k)
  <2>1. G = Gone(s, k)
    <3>1. \A x \in Gone(s, k) : p < x
      BY <1>1 DEF Gone
    <3>2. QED
      BY <3>1 DEF Gone
  <2>2. QED
    BY <1>3, <2>1, HeldIs DEF Folds
<1>8. Region(s, k) = r
  BY DEF Region, p
<1>9. Compacted(s, k, answered) = t \o <<NewDigest(s, k, answered)>> \o u
  <2>1. Compacted(s, k, answered)
          = Prefix(s) \o Kept(Region(s, k))
              \o <<Digest(Digested(s, k, answered))>> \o u
    BY Zenon DEF Compacted
  <2>2. NewDigest(s, k, answered) = Digest(Digested(s, k, answered))
    BY <1>7, <1>8, Zenon DEF Digest, Digested, NewDigest, Earlier
  <2>3. QED
    BY <1>8, <2>1, <2>2, Zenon
<1> HIDE DEF t, u
<1>10. QED
  BY <1>5, <1>6, <1>9

-----------------------------------------------------------------------------
(* The order of a log.                                                     *)

\* Messages, and digests that hold no user's message.
ProperItems ==
    {Message(m) : m \in Messages} \cup [digest : {TRUE}, of : SUBSET {m \in Messages : m[2] # 0}]

\* m was said before n: by an earlier turn, or earlier in the turn.
SaidFirst(m, n) == m[1] < n[1] \/ (m[1] = n[1] /\ m[2] < n[2])

\* x may stand somewhere before y.
Precedes(x, y) ==
    /\ x.of \cap y.of = {}
    /\ ~IsUser(x) /\ ~IsUser(y) => \A m \in x.of, n \in y.of : SaidFirst(m, n)
    /\ IsDigest(y) => Stays(x)

\* In order, and nothing that a fold would take is in front of a digest.
Orderly(s) ==
    /\ s \in Seq(ProperItems)
    /\ \A i, j \in DOMAIN s : i < j => Precedes(s[i], s[j])

\* A message is a turn and a place in it.
LEMMA MessagesAre ==
    /\ \A m \in Messages : m[1] \in 1..MaxTurns /\ m[2] \in 0..MaxReplies /\ m = <<m[1], m[2]>>
    /\ \A t \in 1..MaxTurns, r \in 0..MaxReplies : <<t, r>> \in Messages
BY DEF Messages

\* Only the message of a user is at place 0, and no digest is a user's.
LEMMA ProperIs ==
    ASSUME NEW x \in ProperItems
    PROVE  /\ x \in Items /\ x.of \in SUBSET Messages
           /\ ~IsUser(x) => \A m \in x.of : m[2] # 0
           /\ IsDigest(x) => ~IsUser(x)
<1>1. CASE x \in {Message(m) : m \in Messages}
  <2>1. PICK m \in Messages : x = [digest |-> FALSE, of |-> {m}]
    BY <1>1 DEF Message
  <2>2. ~IsUser(x) => m[2] # 0
    <3>1. m[1] \in 1..MaxTurns /\ m = <<m[1], m[2]>>
      BY MessagesAre
    <3>2. SUFFICES ASSUME m[2] = 0 PROVE IsUser(x)
      OBVIOUS
    <3>3. m = <<m[1], 0>>
      BY <3>1, <3>2
    <3>4. <<m[1], 0>> \in x.of /\ ~x.digest
      BY <2>1, <3>3
    <3>5. QED
      BY <3>1, <3>4 DEF IsUser
  <2>3. x.digest = FALSE /\ x.of = {m} /\ x \in Items
    BY <2>1 DEF Items
  <2>4. QED
    BY <2>2, <2>3 DEF IsDigest
<1>2. CASE x \in [digest : {TRUE}, of : SUBSET {m \in Messages : m[2] # 0}]
  BY <1>2 DEF Items, IsUser, IsDigest
<1>3. QED
  BY <1>1, <1>2 DEF ProperItems

\* What a log holds, some item of it holds.
LEMMA HeldMembers ==
    ASSUME NEW s, NEW m
    PROVE  m \in Held(s) <=> \E i \in DOMAIN s : m \in s[i].of
BY DEF Held

\* The parts of a log in a fold.
LEMMA PartsAre ==
    ASSUME NEW T, NEW s \in Seq(T), NEW k \in TailStarts(s)
    PROVE  /\ k \in DOMAIN s
           /\ Left(s, k) \in SUBSET DOMAIN s /\ Gone(s, k) \in SUBSET DOMAIN s /\ Rest(s, k) \in SUBSET DOMAIN s
           /\ PreviousDigest(s) # 0 => PreviousDigest(s) \in DOMAIN s /\ PreviousDigest(s) < k
           /\ \A x \in DOMAIN s :
                 x \in Left(s, k) \/ x \in Gone(s, k) \/ x \in Rest(s, k) \/ x = PreviousDigest(s)
<1>1. /\ pinnedPrefixLen(s) \in 0..Len(s) /\ Len(s) \in Nat /\ DOMAIN s = 1..Len(s)
      /\ k \in (pinnedPrefixLen(s) + 1)..Len(s) /\ PreviousDigest(s) \in 0..pinnedPrefixLen(s)
  BY PinnedIs, PreviousIs DEF TailStarts
<1>2. QED
  BY <1>1 DEF Left, Gone, Rest

\* What a fold's digest holds comes from these positions.
Sources(s, k, answered) ==
    IF answered
    THEN Gone(s, k) \cup (IF PreviousDigest(s) # 0 THEN {PreviousDigest(s)} ELSE {})
    ELSE {}

\* A digest holds what its sources hold.
LEMMA DigestIs ==
    ASSUME NEW s, NEW k, NEW answered \in BOOLEAN
    PROVE  /\ NewDigest(s, k, answered).digest = TRUE
           /\ \A m : m \in NewDigest(s, k, answered).of <=> \E x \in Sources(s, k, answered) : m \in s[x].of
           /\ NewDigest(s, k, answered) = [digest |-> TRUE, of |-> NewDigest(s, k, answered).of]
<1>1. NewDigest(s, k, answered).of = (IF answered THEN Folds(s, k) \cup Earlier(s) ELSE {})
      /\ NewDigest(s, k, answered).digest = TRUE
      /\ NewDigest(s, k, answered) = [digest |-> TRUE, of |-> NewDigest(s, k, answered).of]
  BY DEF NewDigest
<1>2. ASSUME NEW m PROVE m \in Folds(s, k) <=> \E x \in Gone(s, k) : m \in s[x].of
  BY DEF Folds
<1>3. ASSUME NEW m
      PROVE  m \in Earlier(s) <=> PreviousDigest(s) # 0 /\ m \in s[PreviousDigest(s)].of
  BY DEF Earlier
<1>4. QED
  BY <1>1, <1>2, <1>3 DEF Sources

\* A fold holds what the log held, if the summarizer answered.
LEMMA CompactedHeld ==
    ASSUME NEW T, NEW s \in Seq(T), NEW k \in TailStarts(s), NEW answered \in BOOLEAN, T \subseteq Items
    PROVE  /\ Held(Compacted(s, k, answered)) \subseteq Held(s)
           /\ answered => Held(Compacted(s, k, answered)) = Held(s)
<1> DEFINE d == NewDigest(s, k, answered)
           c == Compacted(s, k, answered)
<1>1. PICK t \in Seq(T), u \in Seq(T) :
         c = t \o <<d>> \o u /\ Draws(t, s, Left(s, k)) /\ Draws(u, s, Rest(s, k))
  BY CompactedIs
<1>2. Held(c) = Held(t) \cup d.of \cup Held(u)
  <2> DEFINE V == T \cup {d}
  <2> HIDE DEF d
  <2>1. t \in Seq(V) /\ u \in Seq(V) /\ <<d>> \in Seq(V) /\ t \o <<d>> \in Seq(V)
    OBVIOUS
  <2>2. Held(<<d>>) = d.of
    <3>1. DOMAIN <<d>> = {1} /\ <<d>>[1] = d
      OBVIOUS
    <3>2. QED
      BY <3>1 DEF Held
  <2> HIDE DEF V
  <2>3. Held(t \o <<d>>) = Held(t) \cup Held(<<d>>)
    <3>1. \A x, y \in Seq(V) : Held(x \o y) = Held(x) \cup Held(y)
      BY HeldJoins, Zenon
    <3>2. QED
      BY <2>1, <3>1, Zenon
  <2> DEFINE w == t \o <<d>>
  <2>w. w \in Seq(V)
    BY <2>1
  <2> HIDE DEF w
  <2>4. Held(w \o u) = Held(w) \cup Held(u)
    BY <2>1, <2>w, HeldJoins
  <2>5. QED
    BY <1>1, <2>2, <2>3, <2>4 DEF d, w
<1>3. \A m : m \in Held(t) <=> \E x \in Left(s, k) : m \in s[x].of
  <2>1. Held(t) = UNION {s[x].of : x \in Left(s, k)}
    BY <1>1, HeldIs
  <2>2. QED
    BY <2>1
<1>4. \A m : m \in Held(u) <=> \E x \in Rest(s, k) : m \in s[x].of
  <2>1. Held(u) = UNION {s[x].of : x \in Rest(s, k)}
    BY <1>1, HeldIs
  <2>2. QED
    BY <2>1
<1>5. \A m : m \in d.of <=> \E x \in Sources(s, k, answered) : m \in s[x].of
  BY DigestIs
<1>6. \A m : m \in Held(s) <=> \E x \in DOMAIN s : m \in s[x].of
  BY HeldMembers
<1> HIDE DEF c, d
<1>7. Sources(s, k, answered) \subseteq DOMAIN s
  BY PartsAre DEF Sources
<1>8. \A m : m \in Held(c) => m \in Held(s)
  <2>1. Left(s, k) \subseteq DOMAIN s /\ Rest(s, k) \subseteq DOMAIN s
    BY PartsAre
  <2>2. QED
    BY <1>2, <1>3, <1>4, <1>5, <1>6, <1>7, <2>1
<1>9. ASSUME answered, NEW m \in Held(s) PROVE m \in Held(c)
  <2>1. PICK x \in DOMAIN s : m \in s[x].of
    BY <1>6, <1>9
  <2>2. x \in Left(s, k) \/ x \in Rest(s, k) \/ x \in Sources(s, k, answered)
    <3>1. x # 0
      OBVIOUS
    <3>2. x \in Left(s, k) \/ x \in Gone(s, k) \/ x \in Rest(s, k) \/ x = PreviousDigest(s)
      BY PartsAre
    <3>3. QED
      BY <1>9, <3>1, <3>2 DEF Sources
  <2>3. QED
    BY <1>2, <1>3, <1>4, <1>5, <2>1, <2>2
<1>10. QED
  BY <1>8, <1>9 DEF c

\* What is taken from a log in order is in order.
LEMMA OrderlyDraws ==
    ASSUME NEW s, NEW t \in Seq(ProperItems), NEW E \in SUBSET DOMAIN s, Orderly(s), Draws(t, s, E)
    PROVE  Orderly(t)
<1>1. ASSUME NEW i \in DOMAIN t, NEW j \in DOMAIN t, i < j PROVE Precedes(t[i], t[j])
  <2>1. PICK x \in E, y \in E : x < y /\ t[i] = s[x] /\ t[j] = s[y]
    BY <1>1, DrawnIs
  <2>2. QED
    BY <2>1 DEF Orderly
<1>2. QED
  BY <1>1 DEF Orderly

\* So are two logs, where all of one may stand before all of the other.
LEMMA OrderlyJoins ==
    ASSUME NEW t, NEW u, Orderly(t), Orderly(u),
           \A i \in DOMAIN t, j \in DOMAIN u : Precedes(t[i], u[j])
    PROVE  Orderly(t \o u)
<1> DEFINE m == Len(t)
           n == Len(u)
           c == t \o u
<1>1. t \in Seq(ProperItems) /\ u \in Seq(ProperItems)
  BY DEF Orderly
<1>2. m \in Nat /\ n \in Nat /\ DOMAIN t = 1..m /\ DOMAIN u = 1..n
      /\ DOMAIN c = 1..(m + n) /\ c \in Seq(ProperItems)
      /\ (\A i \in 1..m : c[i] = t[i]) /\ (\A i \in (m + 1)..(m + n) : c[i] = u[i - m])
  BY <1>1
<1> HIDE DEF m, n, c
<1>3. \A i \in 1..(m + n) : \/ i \in 1..m /\ c[i] = t[i]
                            \/ i \in (m + 1)..(m + n) /\ i - m \in 1..n /\ c[i] = u[i - m]
  BY <1>2
<1>4. ASSUME NEW i \in 1..(m + n), NEW j \in 1..(m + n), i < j PROVE Precedes(c[i], c[j])
  <2>1. CASE j \in 1..m /\ c[j] = t[j]
    <3>1. i \in 1..m /\ c[i] = t[i]
      BY <1>2, <1>4, <2>1
    <3>2. QED
      BY <1>2, <1>4, <2>1, <3>1 DEF Orderly
  <2>2. CASE (i \in 1..m /\ c[i] = t[i]) /\ (j \in (m + 1)..(m + n) /\ j - m \in 1..n /\ c[j] = u[j - m])
    BY <1>2, <2>2
  <2>3. CASE /\ i \in (m + 1)..(m + n) /\ i - m \in 1..n /\ c[i] = u[i - m]
             /\ j \in (m + 1)..(m + n) /\ j - m \in 1..n /\ c[j] = u[j - m]
    <3>1. i - m < j - m
      BY <1>2, <1>4, <2>3
    <3>2. QED
      BY <1>2, <2>3, <3>1 DEF Orderly
  <2>4. CASE i \in (m + 1)..(m + n) /\ j \in 1..m
    BY <1>2, <1>4, <2>4
  <2>5. QED
    BY <1>3, <2>1, <2>2, <2>3, <2>4
<1>5. QED
  BY <1>2, <1>4 DEF Orderly, c

\* The digest of a fold is an item that may stand in a log.
LEMMA DigestProper ==
    ASSUME NEW s \in Seq(ProperItems), NEW k \in TailStarts(s), NEW answered \in BOOLEAN
    PROVE  NewDigest(s, k, answered) \in ProperItems
<1> DEFINE d == NewDigest(s, k, answered)
<1>1. ASSUME NEW x \in Sources(s, k, answered) PROVE x \in DOMAIN s /\ ~IsUser(s[x])
  <2>1. CASE x \in Gone(s, k)
    BY <2>1, PartsAre DEF Gone, Stays
  <2>2. CASE PreviousDigest(s) # 0 /\ x = PreviousDigest(s)
    <3>1. x \in DOMAIN s /\ IsDigest(s[x])
      BY <2>2, PartsAre, PreviousIs
    <3>2. s[x] \in ProperItems
      BY <3>1
    <3>3. QED
      BY <3>1, <3>2, ProperIs
  <2>3. QED
    BY <1>1, <2>1, <2>2 DEF Sources
<1>2. ASSUME NEW m \in d.of PROVE m \in Messages /\ m[2] # 0
  <2>1. PICK x \in Sources(s, k, answered) : m \in s[x].of
    BY DigestIs
  <2>2. s[x] \in ProperItems /\ ~IsUser(s[x])
    BY <1>1
  <2>3. QED
    BY <2>1, <2>2, ProperIs
<1>3. d = [digest |-> TRUE, of |-> d.of]
  BY DigestIs
<1> HIDE DEF d
<1> DEFINE D == SUBSET {m \in Messages : m[2] # 0}
<1>4. d.of \in D
  BY <1>2
<1>5. d \in [digest : {TRUE}, of : D]
  <2> HIDE DEF D
  <2>1. \A o \in D : [digest |-> TRUE, of |-> o] \in [digest : {TRUE}, of : D]
    OBVIOUS
  <2>2. [digest |-> TRUE, of |-> d.of] \in [digest : {TRUE}, of : D]
    BY <1>4, <2>1, Zenon
  <2>3. QED
    BY <1>3, <2>2, Zenon
<1>6. d \in ProperItems
  BY <1>5 DEF ProperItems
<1>7. QED
  BY <1>6 DEF d

\* A fold keeps a log in order: what moves is the digest only, past users'
\* messages and digests that stay, and behind what it was made of.
LEMMA CompactedOrderly ==
    ASSUME NEW s, Orderly(s), NEW k \in TailStarts(s), NEW answered \in BOOLEAN
    PROVE  Orderly(Compacted(s, k, answered))
<1> DEFINE d == NewDigest(s, k, answered)
           c == Compacted(s, k, answered)
           old == PreviousDigest(s)
           S == Sources(s, k, answered)
<1>1. s \in Seq(ProperItems) /\ \A i, j \in DOMAIN s : i < j => Precedes(s[i], s[j])
  BY DEF Orderly
<1>2. PICK t \in Seq(ProperItems), u \in Seq(ProperItems) :
         c = t \o <<d>> \o u /\ Draws(t, s, Left(s, k)) /\ Draws(u, s, Rest(s, k))
  BY <1>1, CompactedIs
<1>3. d \in ProperItems /\ IsDigest(d) /\ ~IsUser(d)
  BY <1>1, DigestProper, DigestIs DEF IsDigest, IsUser
<1>4. \A m : m \in d.of <=> \E x \in S : m \in s[x].of
  BY DigestIs
<1>5. /\ Left(s, k) \in SUBSET DOMAIN s /\ Rest(s, k) \in SUBSET DOMAIN s /\ S \in SUBSET DOMAIN s
      /\ k \in DOMAIN s /\ \A x \in S : x <= k
  <2>1. old # 0 => old \in DOMAIN s /\ old < k
    BY <1>1, PartsAre
  <2>2. \A x \in S : x \in DOMAIN s /\ x <= k
    <3>1. \A x \in DOMAIN s : x \in Nat
      BY <1>1
    <3>2. k \in DOMAIN s
      BY <1>1, PartsAre
    <3>3. old # 0 => old <= k
      BY <2>1, <3>1, <3>2
    <3>4. QED
      BY <2>1, <3>3 DEF Sources, Gone
  <2>3. QED
    BY <1>1, <2>2, PartsAre
<1>6. \A x \in S : ~IsUser(s[x]) /\ (~Stays(s[x]) \/ (x = old /\ old # 0))
  <2>1. ASSUME old # 0 PROVE ~IsUser(s[old])
    <3>1. old \in DOMAIN s /\ IsDigest(s[old]) /\ s[old] \in ProperItems
      BY <1>1, <2>1, PartsAre, PreviousIs
    <3>2. QED
      BY <3>1, ProperIs
  <2>2. QED
    BY <2>1 DEF Sources, Gone, Stays
<1>7. \A x \in DOMAIN s : x \in Nat
  BY <1>1
<1>8. ASSUME NEW x \in Left(s, k) PROVE Precedes(s[x], d)
  <2>1. x \in DOMAIN s /\ Stays(s[x]) /\ x # old
    BY DEF Left
  <2>2. ASSUME NEW y \in S
        PROVE  /\ s[x].of \cap s[y].of = {}
               /\ ~IsUser(s[x]) => \A m \in s[x].of, n \in s[y].of : SaidFirst(m, n)
    <3>1. y \in DOMAIN s /\ ~IsUser(s[y])
      BY <1>5, <1>6
    <3>2. x # y
      BY <1>6, <2>1
    <3>3. CASE x < y
      BY <1>1, <2>1, <3>1, <3>3 DEF Precedes
    <3>4. CASE y < x
      <4>1. Precedes(s[y], s[x])
        BY <1>1, <2>1, <3>1, <3>4
      <4>2. ~IsDigest(s[x])
        <5>1. CASE ~Stays(s[y])
          BY <4>1, <5>1 DEF Precedes
        <5>2. CASE y = old /\ old # 0
          <6>1. IsDigest(s[x]) => x <= old
            BY <1>1, <2>1, <5>2, PreviousIs
          <6>2. QED
            BY <1>7, <2>1, <3>1, <3>4, <5>2, <6>1
        <5>3. QED
          BY <1>6, <5>1, <5>2
      <4>3. IsUser(s[x])
        BY <2>1, <4>2 DEF Stays
      <4>4. QED
        BY <4>1, <4>3 DEF Precedes
    <3>5. QED
      BY <1>7, <2>1, <3>1, <3>2, <3>3, <3>4
  <2>3. s[x].of \cap d.of = {}
    BY <1>4, <2>2
  <2>4. ~IsUser(s[x]) => \A m \in s[x].of, n \in d.of : SaidFirst(m, n)
    BY <1>4, <2>2
  <2>5. QED
    BY <2>1, <2>3, <2>4 DEF Precedes
<1>9. ASSUME NEW z \in Rest(s, k) PROVE Precedes(d, s[z])
  <2>1. z \in DOMAIN s /\ k < z
    BY DEF Rest
  <2>2. ASSUME NEW y \in S
        PROVE  /\ s[y].of \cap s[z].of = {}
               /\ ~IsUser(s[z]) => \A m \in s[y].of, n \in s[z].of : SaidFirst(m, n)
    <3>1. y \in DOMAIN s /\ ~IsUser(s[y]) /\ y < z
      BY <1>5, <1>6, <1>7, <2>1
    <3>2. QED
      BY <1>1, <2>1, <3>1 DEF Precedes
  <2>3. d.of \cap s[z].of = {}
    BY <1>4, <2>2
  <2>4. ~IsUser(s[z]) => \A m \in d.of, n \in s[z].of : SaidFirst(m, n)
    BY <1>4, <2>2
  <2>5. QED
    BY <1>3, <2>3, <2>4 DEF Precedes, Stays
<1> HIDE DEF d, c, S
<1>10. Orderly(t) /\ Orderly(u)
  BY <1>2, <1>5, OrderlyDraws
<1>11. Orderly(<<d>>)
  <2>1. <<d>> \in Seq(ProperItems) /\ DOMAIN <<d>> = {1}
    BY <1>3
  <2>2. QED
    BY <2>1 DEF Orderly
<1>12. Orderly(t \o <<d>>)
  <2>1. \A i \in DOMAIN t : Precedes(t[i], d)
    <3>1. \A i \in DOMAIN t : \E x \in Left(s, k) : t[i] = s[x]
      BY <1>2, DrawnIs
    <3>2. QED
      BY <1>8, <3>1
  <2>2. \A i \in DOMAIN t, j \in DOMAIN <<d>> : Precedes(t[i], <<d>>[j])
    BY <2>1
  <2>3. QED
    BY <1>10, <1>11, <2>2, OrderlyJoins
<1>13. \A i \in DOMAIN (t \o <<d>>), j \in DOMAIN u : Precedes((t \o <<d>>)[i], u[j])
  <2>1. TAKE i \in DOMAIN (t \o <<d>>), j \in DOMAIN u
  <2>2. PICK z \in Rest(s, k) : u[j] = s[z]
    BY <1>2, DrawnIs
  <2>3. CASE i = Len(t) + 1
    <3>1. (t \o <<d>>)[i] = d
      BY <2>3
    <3>2. QED
      BY <1>9, <2>2, <3>1
  <2>4. CASE i # Len(t) + 1
    <3>1. i \in DOMAIN t /\ (t \o <<d>>)[i] = t[i]
      BY <2>4
    <3>2. PICK x \in Left(s, k) : t[i] = s[x]
      <4>1. \A h \in DOMAIN t : \E x \in Left(s, k) : t[h] = s[x]
        BY <1>2, DrawnIs
      <4>2. QED
        BY <3>1, <4>1
    <3>3. x \in DOMAIN s /\ z \in DOMAIN s /\ x < z
      BY <1>5, <1>7 DEF Left, Rest
    <3>4. QED
      BY <1>1, <2>2, <3>1, <3>2, <3>3
  <2>5. QED
    BY <2>3, <2>4
<1>14. QED
  <2> DEFINE w == t \o <<d>>
  <2>1. Orderly(w) /\ \A i \in DOMAIN w, j \in DOMAIN u : Precedes(w[i], u[j])
    BY <1>12, <1>13
  <2> HIDE DEF w
  <2>2. Orderly(w \o u)
    BY <1>10, <2>1, OrderlyJoins
  <2>3. QED
    BY <1>2, <2>2 DEF w, c

\* A message that is newer than the log may be added to it.
LEMMA AppendOrderly ==
    ASSUME NEW s, Orderly(s), NEW m \in Messages, \A n \in Held(s) : SaidFirst(n, m)
    PROVE  Orderly(Append(s, Message(m))) /\ Held(Append(s, Message(m))) = Held(s) \cup {m}
<1> DEFINE x == Message(m)
           u == <<x>>
<1>1. x \in ProperItems /\ x.of = {m} /\ ~IsDigest(x) /\ s \in Seq(ProperItems)
  BY DEF Message, ProperItems, IsDigest, Orderly
<1> HIDE DEF x
<1>2. u \in Seq(ProperItems) /\ DOMAIN u = {1} /\ u[1] = x
  BY <1>1
<1> HIDE DEF u
<1>3. Orderly(u)
  BY <1>2 DEF Orderly
<1>4. ASSUME NEW i \in DOMAIN s PROVE Precedes(s[i], x)
  <2>1. \A n \in s[i].of : n \in Held(s)
    BY HeldMembers
  <2>2. m \notin s[i].of
    <3>1. m[1] \in Nat /\ m[2] \in Nat
      BY MessagesAre, BoundAssumption
    <3>2. ~SaidFirst(m, m)
      BY <3>1 DEF SaidFirst
    <3>3. QED
      BY <2>1, <3>2
  <2>3. QED
    BY <1>1, <2>1, <2>2 DEF Precedes
<1>5. Append(s, x) = s \o u
  BY <1>1 DEF u
<1>6. Held(u) = {m}
  <2>1. \A n : n \in Held(u) <=> n \in {m}
    BY <1>1, <1>2, HeldMembers
  <2>2. QED
    BY <2>1
<1>7. Held(s \o u) = Held(s) \cup Held(u)
  BY <1>1, <1>2, HeldJoins
<1>8. Orderly(s \o u)
  BY <1>2, <1>3, <1>4, OrderlyJoins
<1>9. QED
  BY <1>5, <1>6, <1>7, <1>8 DEF x

-----------------------------------------------------------------------------
(* Turns and logs.                                                         *)

\* What Record and a crash say of the mishaps.
LEMMA MishapsGrow ==
    ASSUME [Next]_vars
    PROVE  mishaps \subseteq mishaps' /\ limit' = limit
<1>1. ASSUME Record PROVE mishaps \subseteq mishaps' /\ limit' = limit
  BY <1>1, RecordFacts DEF Record
<1>2. ASSUME Crash PROVE mishaps \subseteq mishaps' /\ limit' = limit
  BY <1>2 DEF Crash
<1>3. ASSUME UNCHANGED vars PROVE mishaps \subseteq mishaps' /\ limit' = limit
  BY <1>3 DEF vars
<1>4. \/ Record \/ Crash \/ UNCHANGED vars
  BY DEF Next, StartTurn, OpenTurn, AddMessage, EndLoop, FinishTurn, AutosaveTick, AutosaveExit,
     PlanFold, PutFold,
         ReadPath, CopyLog, ReplaceFile, ReadBack, Sign, StartRotation, StartClear, RemoveArtifacts,
         Rotate, BranchCopy, Load, LoadNothing, SetSession, SetPath, StartRewind, CutLog, EndRewind
<1>5. QED
  BY <1>1, <1>2, <1>3, <1>4

\* All the mishaps there are.
Kinds == {"torn", "overlap", "skipped", "raced", "outage", "cut"}

\* Record adds no other.
LEMMA RecordKinds ==
    ASSUME Record, mishaps \subseteq Kinds
    PROVE  mishaps' \subseteq Kinds
BY DEF Record, Kinds

\* The turn that runs has a number.
Numbered == Running => turn.n >= 1

\* A turn said m by now.
SaidBy(m, t) == m[1] < t.n \/ (m[1] = t.n /\ (t.at # "idle" => m[2] < t.said))
\* s is in order and holds only what was said by now.
Sound(s, t) == Orderly(s) /\ \A m \in Held(s) : SaidBy(m, t)

\* So do all logs there are: in memory, on disk, in a fold, in a save, in
\* a frontend's hand.
OrderedLogs ==
    /\ Sound(log, turn) /\ Sound(front.log, turn)
    /\ \A p \in Paths : Sound(file[p], turn) /\ Sound(sig[p], turn)
    /\ \A a \in Folders : Sound(fold[a].of, turn) /\ Sound(fold[a].to, turn)
    /\ \A a \in Savers : Sound(save[a].content, turn)

LogsInv == TypeOK /\ Numbered /\ OrderedLogs

\* Such a log has its type.
LEMMA SoundTyped ==
    ASSUME NEW s, NEW t, Sound(s, t)
    PROVE  s \in Logs
<1>1. s \in Seq(ProperItems)
  BY DEF Sound, Orderly
<1>2. \A x \in ProperItems : x \in Items
  BY ProperIs
<1>3. QED
  BY <1>1, <1>2 DEF Logs

\* A log holds messages.
LEMMA HeldTyped ==
    ASSUME NEW s \in Logs
    PROVE  Held(s) \in SUBSET Messages
<1>1. s \in Seq(Items)
  BY DEF Logs
<1>2. ASSUME NEW m \in Held(s) PROVE m \in Messages
  <2>1. PICK i \in DOMAIN s : m \in s[i].of
    BY HeldMembers
  <2>2. s[i] \in Items
    BY <1>1
  <2>3. QED
    BY <2>1, <2>2 DEF Items
<1>3. QED
  BY <1>2

\* The empty log is such a log.
LEMMA EmptySound ==
    ASSUME NEW t
    PROVE  Sound(<<>>, t) /\ <<>> \in Logs /\ NoFile = <<>>
BY DEF Sound, Orderly, Held, Logs, NoFile

\* A fold leaves such a log such a log.
LEMMA CompactedSound ==
    ASSUME NEW s, NEW t, Sound(s, t), NEW k \in TailStarts(s), NEW answered \in BOOLEAN
    PROVE  Sound(Compacted(s, k, answered), t)
<1>1. s \in Seq(ProperItems)
  BY DEF Sound, Orderly
<1>2. ProperItems \subseteq Items
  BY ProperIs
<1>3. Orderly(Compacted(s, k, answered))
  BY CompactedOrderly DEF Sound
<1>4. Held(Compacted(s, k, answered)) \subseteq Held(s)
  BY <1>1, <1>2, CompactedHeld
<1>5. QED
  BY <1>3, <1>4 DEF Sound

\* The turn's counter only goes up.
LEMMA TurnMoves ==
    ASSUME TypeOK, Numbered, [Next]_vars
    PROVE  \/ turn' = turn
           \/ /\ turn.at = "idle" /\ turn.n < MaxTurns
              /\ turn' = [at |-> "admitted", n |-> turn.n + 1, start |-> 0, said |-> 0]
           \/ /\ turn.at # "idle" /\ turn'.at # "idle"
              /\ turn'.n = turn.n /\ turn'.said \in {turn.said, turn.said + 1}
           \/ turn' = [at |-> "idle", n |-> turn.n, start |-> 0, said |-> 0]
<1> DEFINE G == \/ turn' = turn
                \/ /\ turn.at = "idle" /\ turn.n < MaxTurns
                   /\ turn' = [at |-> "admitted", n |-> turn.n + 1, start |-> 0, said |-> 0]
                \/ /\ turn.at # "idle" /\ turn'.at # "idle"
                   /\ turn'.n = turn.n /\ turn'.said \in {turn.said, turn.said + 1}
                \/ turn' = [at |-> "idle", n |-> turn.n, start |-> 0, said |-> 0]
<1>t. turn \in [at : {"idle", "admitted", "loop", "ending"}, n : 0..MaxTurns,
                start : Nat, said : 0..(MaxReplies + 1)]
  BY DEF TypeOK
<1> SUFFICES G
  OBVIOUS
<1>1. ASSUME StartTurn PROVE G
  BY <1>1 DEF StartTurn, Running
<1>2. ASSUME OpenTurn PROVE G
  BY <1>2 DEF OpenTurn
<1>3. ASSUME AddMessage PROVE G
  BY <1>3 DEF AddMessage
<1>4. ASSUME EndLoop PROVE G
  BY <1>4 DEF EndLoop
<1>5. ASSUME FinishTurn PROVE G
  BY <1>5 DEF FinishTurn, NoTurn
<1>6. ASSUME AutosaveTick PROVE G
  BY <1>6 DEF AutosaveTick
<1>7. ASSUME AutosaveExit PROVE G
  BY <1>7 DEF AutosaveExit
<1>8. ASSUME NEW a \in Folders, PlanFold(a) PROVE G
  BY <1>8 DEF PlanFold
<1>9. ASSUME NEW a \in Folders, PutFold(a) PROVE G
  BY <1>9 DEF PutFold
<1>10. ASSUME NEW a \in Savers, ReadPath(a) PROVE G
  BY <1>10 DEF ReadPath
<1>11. ASSUME NEW a \in Savers, CopyLog(a) PROVE G
  BY <1>11 DEF CopyLog
<1>12. ASSUME NEW a \in Savers, ReplaceFile(a) PROVE G
  BY <1>12 DEF ReplaceFile
<1>13. ASSUME NEW a \in Savers, ReadBack(a) PROVE G
  BY <1>13 DEF ReadBack
<1>14. ASSUME NEW a \in Savers, Sign(a) PROVE G
  BY <1>14 DEF Sign
<1>15. ASSUME NEW op \in {"new", "branch", "switch", "resume"}, StartRotation(op) PROVE G
  BY <1>15 DEF StartRotation
<1>16. ASSUME StartClear PROVE G
  BY <1>16 DEF StartClear
<1>17. ASSUME RemoveArtifacts PROVE G
  BY <1>17 DEF RemoveArtifacts
<1>18. ASSUME Rotate PROVE G
  BY <1>18 DEF Rotate
<1>19. ASSUME BranchCopy PROVE G
  BY <1>19 DEF BranchCopy
<1>20. ASSUME NEW p \in Paths, Load(p) PROVE G
  BY <1>20 DEF Load
<1>21. ASSUME LoadNothing PROVE G
  BY <1>21 DEF LoadNothing
<1>22. ASSUME SetSession PROVE G
  BY <1>22 DEF SetSession
<1>23. ASSUME SetPath PROVE G
  BY <1>23 DEF SetPath
<1>24. ASSUME Crash PROVE G
  BY <1>24 DEF Crash, NoTurn
<1>25. ASSUME UNCHANGED vars PROVE G
  BY <1>25 DEF vars, memory
<1>26. ASSUME StartRewind PROVE G
  BY <1>26 DEF StartRewind
<1>27. ASSUME CutLog PROVE G
  BY <1>27 DEF CutLog
<1>28. ASSUME EndRewind PROVE G
  BY <1>28 DEF EndRewind
<1>29. QED
  BY <1>1, <1>2, <1>3, <1>4, <1>5, <1>6, <1>7, <1>8, <1>9, <1>10, <1>11, <1>12, <1>13, <1>14, <1>15,
     <1>16, <1>17, <1>18, <1>19, <1>20, <1>21, <1>22, <1>23, <1>24, <1>25, <1>26, <1>27, <1>28 DEF Next

\* What was said by now was said by later.
LEMMA SaidStays ==
    ASSUME TypeOK, Numbered, [Next]_vars, NEW m \in Messages, SaidBy(m, turn)
    PROVE  SaidBy(m, turn')
<1>1. turn.n \in Nat /\ turn.said \in Nat /\ turn.at \in {"idle", "admitted", "loop", "ending"}
      /\ turn = [at |-> turn.at, n |-> turn.n, start |-> turn.start, said |-> turn.said]
  BY BoundAssumption DEF TypeOK
<1>2. m[1] \in Nat /\ m[2] \in Nat
  BY MessagesAre, BoundAssumption
<1>3. QED
  BY <1>1, <1>2, TurnMoves DEF SaidBy

\* So a log that does not change stays sound.
LEMMA SoundStays ==
    ASSUME TypeOK, Numbered, [Next]_vars, NEW s, Sound(s, turn)
    PROVE  Sound(s, turn')
<1>1. s \in Logs
  BY SoundTyped
<1>2. \A m \in Held(s) : m \in Messages /\ SaidBy(m, turn)
  BY <1>1, HeldTyped DEF Sound
<1>3. QED
  BY <1>2, SaidStays DEF Sound

-----------------------------------------------------------------------------
(* Types of what a session keeps.                                          *)

\* The parts of TypeOK, in groups that the steps change together.
SaveTypes == [at : Stages, path : Paths \cup {NoPath}, content : Logs]
FrontTypes == [op : {"none", "new", "clear", "branch", "switch", "resume", "rewind"},
               at : {"none", "snapshot", "remove", "rotate", "loaded", "set", "cut", "saving"},
               to : Paths \cup {NoPath}, log : Logs]
DataTyped ==
    /\ log \in Logs
    /\ file \in [Paths -> Logs] /\ sig \in [Paths -> Logs]
    /\ fold \in [Folders -> [of : Logs, to : Logs]]
    /\ save \in [Savers -> SaveTypes]
    /\ front \in FrontTypes
PlaceTyped ==
    /\ path \in Paths \cup {NoPath} /\ conv \in Paths \cup {NoPath}
    /\ minted \in 0..MaxPaths
    /\ auto \in BOOLEAN
    /\ own \in [Paths -> SUBSET Messages] /\ rewound \in [Paths -> SUBSET Messages]
    /\ cleared \subseteq Paths
TurnTyped ==
    /\ turn \in [at : {"idle", "admitted", "loop", "ending"}, n : 0..MaxTurns,
                 start : Nat, said : 0..(MaxReplies + 1)]
    /\ Numbered
    /\ ended \subseteq 1..MaxTurns
BoundTyped ==
    /\ limit \in Limits
    /\ count \in [folds : 0..limit.folds, calls : 0..limit.calls, ticks : 0..limit.ticks,
                 outages : 0..limit.outages, crashes : 0..limit.crashes]

\* They are TypeOK.
LEMMA TypeParts ==
    TypeOK /\ Numbered <=> DataTyped /\ PlaceTyped /\ TurnTyped /\ BoundTyped /\ mishaps \subseteq Kinds
BY DEF TypeOK, DataTyped, PlaceTyped, TurnTyped, BoundTyped, Kinds, SaveTypes, FrontTypes, Stages

\* The bounds are numbers.
LEMMA LimitIs ==
    ASSUME limit \in Limits
    PROVE  /\ limit.folds \in Nat /\ limit.calls \in Nat /\ limit.ticks \in Nat /\ limit.outages \in Nat
           /\ limit.crashes \in Nat /\ limit.replies \in 0..MaxReplies
BY LimitAssumption

\* A message is an item.
LEMMA MessageTyped ==
    ASSUME NEW m \in Messages
    PROVE  Message(m) \in Items
BY DEF Message, Items

\* What a turn in its loop says next is a message.
LEMMA SaidIsMessage ==
    ASSUME TurnTyped, BoundTyped, AddMessage
    PROVE  <<turn.n, turn.said>> \in Messages
<1>1. turn.n \in 0..MaxTurns /\ turn.said \in Nat /\ (turn.at # "idle" => turn.n >= 1)
  BY BoundAssumption DEF TurnTyped, Numbered, Running
<1>2. turn.at = "loop" /\ turn.said <= limit.replies
  BY DEF AddMessage
<1>3. limit.replies \in 0..MaxReplies
  BY LimitIs DEF BoundTyped
<1>4. turn.n \in 1..MaxTurns /\ turn.said \in 0..MaxReplies
  BY <1>1, <1>2, <1>3, BoundAssumption
<1>5. QED
  BY <1>4 DEF Messages

\* A folded log is a log.
LEMMA CompactedTyped ==
    ASSUME NEW s \in Logs, NEW k \in TailStarts(s), NEW answered \in BOOLEAN
    PROVE  Compacted(s, k, answered) \in Logs
<1>1. s \in Seq(Items)
  BY DEF Logs
<1>2. PICK t \in Seq(Items), u \in Seq(Items) :
         Compacted(s, k, answered) = t \o <<NewDigest(s, k, answered)>> \o u
  BY <1>1, CompactedIs, SMTT(20)
<1>3. NewDigest(s, k, answered) \in Items
  <2>1. \A x \in Sources(s, k, answered) : x \in DOMAIN s
    BY <1>1, PartsAre DEF Sources
  <2>2. \A x \in DOMAIN s : s[x].of \in SUBSET Messages
    <3>1. \A x \in DOMAIN s : s[x] \in Items
      BY <1>1
    <3>2. QED
      BY <3>1 DEF Items
  <2>3. NewDigest(s, k, answered).of \in SUBSET Messages
    BY <2>1, <2>2, DigestIs
  <2>4. QED
    <3> DEFINE D == NewDigest(s, k, answered)
    <3>1. D = [digest |-> TRUE, of |-> D.of] /\ D.of \in SUBSET Messages
      BY <2>3, DigestIs
    <3> HIDE DEF D
    <3>2. \E f \in SUBSET Messages : D = [digest |-> TRUE, of |-> f]
      BY <3>1, Zenon
    <3>3. D \in Items
      BY <3>2 DEF Items
    <3>4. QED
      BY <3>3 DEF D
<1>4. <<NewDigest(s, k, answered)>> \in Seq(Items)
  BY <1>3
<1>5. QED
  BY <1>2, <1>4 DEF Logs

\* A log that is cut is a log, and holds no more.
LEMMA CutDraws ==
    ASSUME NEW T, NEW s \in Seq(T), NEW b \in 0..Len(s)
    PROVE  /\ SubSeq(s, 1, b) \in Seq(T)
           /\ Draws(SubSeq(s, 1, b), s, {x \in DOMAIN s : 0 < x /\ x <= b})
<1>1. 0 \in Nat /\ b \in Nat /\ 0 <= b /\ b <= Len(s)
  OBVIOUS
<1>2. SubSeq(s, 1, b) = SubSeq(s, 0 + 1, b)
  OBVIOUS
<1>3. QED
  BY <1>1, <1>2, PartDraws

LEMMA CutTyped ==
    ASSUME NEW s \in Logs, NEW b \in 0..Len(s)
    PROVE  SubSeq(s, 1, b) \in Logs
BY CutDraws DEF Logs

LEMMA CutHeld ==
    ASSUME NEW s \in Logs, NEW b \in 0..Len(s)
    PROVE  /\ Held(SubSeq(s, 1, b)) \subseteq Held(s)
           /\ s = <<>> => SubSeq(s, 1, b) = <<>>
<1>1. s \in Seq(Items)
  BY DEF Logs
<1>2. PICK E \in SUBSET DOMAIN s : Draws(SubSeq(s, 1, b), s, E)
  BY <1>1, CutDraws
<1>3. Held(SubSeq(s, 1, b)) = UNION {s[x].of : x \in E}
  BY <1>2, HeldIs
<1>4. Held(SubSeq(s, 1, b)) \subseteq Held(s)
  BY <1>3 DEF Held
<1>5. s = <<>> => SubSeq(s, 1, b) = <<>>
  BY <1>1
<1>6. QED
  BY <1>4, <1>5

\* It stays in order.
LEMMA CutSound ==
    ASSUME NEW s, NEW t, Sound(s, t), NEW b \in 0..Len(s)
    PROVE  Sound(SubSeq(s, 1, b), t)
<1>1. s \in Seq(ProperItems) /\ s \in Logs /\ Orderly(s)
  BY SoundTyped DEF Sound, Orderly
<1> DEFINE E == {x \in DOMAIN s : 0 < x /\ x <= b}
<1>2. SubSeq(s, 1, b) \in Seq(ProperItems) /\ Draws(SubSeq(s, 1, b), s, E) /\ E \in SUBSET DOMAIN s
  BY <1>1, CutDraws
<1> HIDE DEF E
<1>3. Orderly(SubSeq(s, 1, b))
  BY <1>1, <1>2, OrderlyDraws
<1>4. Held(SubSeq(s, 1, b)) \subseteq Held(s)
  BY <1>1, CutHeld
<1>5. QED
  BY <1>3, <1>4 DEF Sound

\* A save has its type, wherever it stands.
LEMMA SavingTyped ==
    ASSUME NEW at \in Stages, NEW p \in Paths \cup {NoPath}, NEW c \in Logs
    PROVE  Saving(at, p, c) \in SaveTypes
BY DEF Saving, SaveTypes

\* What nobody's save, fold and call are.
LEMMA SaversTyped ==
    /\ NoSave \in SaveTypes /\ Asked \in SaveTypes /\ <<>> \in Logs /\ NoFile = <<>>
    /\ NoFold \in [of : Logs, to : Logs] /\ NoFront \in FrontTypes
    /\ Stages = {"none", "asked", "path", "copied", "replaced", "read"}
    /\ Savers = {"turn", "auto", "front", "compact"} /\ Folders = {"turn", "compact"}
BY DEF NoSave, Asked, Saving, SaveTypes, Stages, Logs, NoFile, NoPath, NoFold, NoFront, FrontTypes,
   Savers, Folders

\* The fields of a save.
LEMMA SaverIs ==
    ASSUME DataTyped, NEW a \in Savers
    PROVE  save[a].path \in Paths \cup {NoPath} /\ save[a].content \in Logs /\ save[a].at \in Stages
BY DEF DataTyped, SaveTypes

\* The fields of a frontend's call.
LEMMA FrontIs ==
    ASSUME DataTyped
    PROVE  /\ front.to \in Paths \cup {NoPath} /\ front.log \in Logs
           /\ front = [op |-> front.op, at |-> front.at, to |-> front.to, log |-> front.log]
           /\ front.op \in {"none", "new", "clear", "branch", "switch", "resume", "rewind"}
           /\ front.at \in {"none", "snapshot", "remove", "rotate", "loaded", "set", "cut", "saving"}
BY DEF DataTyped, FrontTypes

\* A call has its type, wherever it stands.
LEMMA FrontMade ==
    ASSUME NEW op \in {"none", "new", "clear", "branch", "switch", "resume", "rewind"},
           NEW at \in {"none", "snapshot", "remove", "rotate", "loaded", "set", "cut", "saving"},
           NEW to \in Paths \cup {NoPath}, NEW s \in Logs
    PROVE  [op |-> op, at |-> at, to |-> to, log |-> s] \in FrontTypes
BY DEF FrontTypes

\* A saver that goes on keeps the type of save.
LEMMA SaveGoes ==
    ASSUME DataTyped, NEW a \in Savers, NEW v \in SaveTypes, save' = [save EXCEPT ![a] = v]
    PROVE  save' \in [Savers -> SaveTypes]
BY DEF DataTyped

\* Every step leaves logs, files, folds, saves and calls their types.
LEMMA DataStep ==
    ASSUME TypeOK, Numbered, Types, [Next]_vars
    PROVE  DataTyped'
<1>t. DataTyped /\ PlaceTyped /\ TurnTyped /\ BoundTyped /\ SaveType
  BY TypeParts DEF Types
<1>1. ASSUME StartTurn PROVE DataTyped'
  BY <1>1, <1>t, SaversTyped DEF StartTurn, DataTyped, disk
<1>2. ASSUME OpenTurn PROVE DataTyped'
  BY <1>2, <1>t, SaversTyped DEF OpenTurn, DataTyped, disk
<1>3. ASSUME AddMessage PROVE DataTyped'
  <2>1. <<turn.n, turn.said>> \in Messages
    BY <1>3, <1>t, SaidIsMessage
  <2>2. Message(<<turn.n, turn.said>>) \in Items
    BY <2>1, MessageTyped
  <2>3. log' \in Logs
    <3>1. log \in Seq(Items)
      BY <1>t DEF DataTyped, Logs
    <3>2. QED
      BY <2>2, <3>1, <1>3 DEF AddMessage, Logs
  <2>4. QED
    BY <2>3, <1>3, <1>t DEF AddMessage, DataTyped, disk
<1>4. ASSUME EndLoop PROVE DataTyped'
  BY <1>4, <1>t, SaversTyped DEF EndLoop, DataTyped, disk
<1>5. ASSUME FinishTurn PROVE DataTyped'
  BY <1>5, <1>t, SaversTyped DEF FinishTurn, DataTyped, disk
<1>6. ASSUME AutosaveTick PROVE DataTyped'
  BY <1>6, <1>t, SaversTyped DEF AutosaveTick, DataTyped, disk
<1>7. ASSUME AutosaveExit PROVE DataTyped'
  BY <1>7, <1>t, SaversTyped DEF AutosaveExit, DataTyped, disk
<1>8. ASSUME NEW a \in Folders, PlanFold(a) PROVE DataTyped'
  <2>1. PICK start \in TailStarts(log), answered \in BOOLEAN :
               fold' = [fold EXCEPT ![a] = [of |-> log, to |-> Compacted(log, start, answered)]]
    BY <1>8 DEF PlanFold
  <2>2. log \in Logs
    BY <1>t DEF DataTyped
  <2>3. Compacted(log, start, answered) \in Logs
    BY <2>2, CompactedTyped
  <2> DEFINE c == Compacted(log, start, answered)
  <2>4. c \in Logs /\ fold' = [fold EXCEPT ![a] = [of |-> log, to |-> c]]
    BY <2>1, <2>3
  <2> HIDE DEF c
  <2>5. fold' \in [Folders -> [of : Logs, to : Logs]]
    BY <2>2, <2>4, <1>t DEF DataTyped
  <2>6. QED
    BY <2>5, <1>8, <1>t DEF PlanFold, DataTyped, disk
<1>9. ASSUME NEW a \in Folders, PutFold(a) PROVE DataTyped'
  BY <1>9, <1>t, SaversTyped DEF PutFold, DataTyped, disk
<1>10. ASSUME NEW a \in Savers, ReadPath(a) PROVE DataTyped'
  <2>1. PICK v \in SaveTypes : save' = [save EXCEPT ![a] = v]
    <3>1. path \in Paths \cup {NoPath} /\ "path" \in Stages
      BY <1>t, SaversTyped DEF PlaceTyped
    <3>2. Saving("path", path, <<>>) \in SaveTypes
      BY <3>1, SavingTyped, SaversTyped
    <3>3. QED
      BY <3>2, <1>10, SaversTyped DEF ReadPath
  <2>2. save' \in [Savers -> SaveTypes]
    BY <2>1, <1>t, SaveGoes
  <2>3. QED
    BY <2>2, <1>10, <1>t DEF ReadPath, DataTyped, disk
<1>11. ASSUME NEW a \in Savers, CopyLog(a) PROVE DataTyped'
  <2>1. PICK v \in SaveTypes : save' = [save EXCEPT ![a] = v]
    <3>1. Saving("copied", save[a].path, log) \in SaveTypes
      <4>1. log \in Logs
        BY <1>t DEF DataTyped
      <4>2. QED
        BY <4>1, <1>t, SavingTyped, SaverIs, SaversTyped
    <3>2. QED
      BY <3>1, <1>11, SaversTyped DEF CopyLog
  <2>2. save' \in [Savers -> SaveTypes]
    BY <2>1, <1>t, SaveGoes
  <2>3. QED
    BY <2>2, <1>11, <1>t DEF CopyLog, DataTyped, disk
<1>12. ASSUME NEW a \in Savers, ReplaceFile(a) PROVE DataTyped'
  <2>1. PICK v \in SaveTypes : save' = [save EXCEPT ![a] = v]
    <3>1. Saving("replaced", save[a].path, save[a].content) \in SaveTypes
      BY <1>t, SavingTyped, SaverIs, SaversTyped
    <3>2. QED
      BY <3>1, <1>12, SaversTyped DEF ReplaceFile
  <2>2. save' \in [Savers -> SaveTypes]
    BY <2>1, <1>t, SaveGoes
  <2>3. QED
    BY <2>2, <1>12, <1>t, SaverIs DEF ReplaceFile, DataTyped, disk
<1>13. ASSUME NEW a \in Savers, ReadBack(a) PROVE DataTyped'
  <2>1. PICK v \in SaveTypes : save' = [save EXCEPT ![a] = v]
    <3>1. CASE file[save[a].path] = NoFile
      <4>1. save' = [save EXCEPT ![a] = NoSave]
        BY <3>1, <1>13 DEF ReadBack
      <4>2. QED
        BY <4>1, SaversTyped
    <3>2. CASE file[save[a].path] # NoFile
      <4>1. save' = [save EXCEPT ![a] = Saving("read", save[a].path, file[save[a].path])]
        BY <3>2, <1>13 DEF ReadBack
      <4>2. file[save[a].path] \in Logs
        <5>1. save[a].path \in Paths
          BY <1>t, <1>13 DEF ReadBack, SaveType
        <5>2. QED
          BY <1>t, <5>1 DEF DataTyped
      <4>3. Saving("read", save[a].path, file[save[a].path]) \in SaveTypes
        BY <4>2, <1>t, SavingTyped, SaverIs, SaversTyped
      <4>4. QED
        BY <4>1, <4>3
    <3>3. QED
      BY <3>1, <3>2
  <2>2. save' \in [Savers -> SaveTypes]
    BY <2>1, <1>t, SaveGoes
  <2>3. QED
    BY <2>2, <1>13, <1>t DEF ReadBack, DataTyped, disk
<1>14. ASSUME NEW a \in Savers, Sign(a) PROVE DataTyped'
  <2>1. PICK v \in SaveTypes : save' = [save EXCEPT ![a] = v]
    BY <1>14, SaversTyped DEF Sign
  <2>2. save' \in [Savers -> SaveTypes]
    BY <2>1, <1>t, SaveGoes
  <2>3. QED
    BY <2>2, <1>14, <1>t, SaverIs DEF Sign, DataTyped, disk
<1>15. ASSUME NEW op \in {"new", "branch", "switch", "resume"}, StartRotation(op) PROVE DataTyped'
  <2>1. front' \in FrontTypes
    <3>1. front' = [op |-> op, at |-> "snapshot", to |-> NoPath, log |-> <<>>]
      BY <1>15 DEF StartRotation, NoFront
    <3>2. QED
      BY <3>1, FrontMade, SaversTyped
  <2>2. save' \in [Savers -> SaveTypes]
    BY <1>15, <1>t, SaveGoes, SaversTyped DEF StartRotation
  <2>3. QED
    BY <2>1, <2>2, <1>15, <1>t DEF StartRotation, DataTyped, disk
<1>16. ASSUME StartClear PROVE DataTyped'
  <2>1. front' \in FrontTypes
    <3>1. front' = [op |-> "clear", at |-> "remove", to |-> path, log |-> <<>>]
      BY <1>16 DEF StartClear, NoFront
    <3>2. QED
      BY <3>1, <1>t, FrontMade, SaversTyped DEF PlaceTyped
  <2>2. QED
    BY <2>1, <1>16, <1>t DEF StartClear, DataTyped, disk
<1>17. ASSUME RemoveArtifacts PROVE DataTyped'
  <2>1. front' \in FrontTypes
    <3>1. front' = [op |-> front.op, at |-> "rotate", to |-> front.to, log |-> front.log]
      BY <1>17, <1>t, FrontIs DEF RemoveArtifacts
    <3>2. QED
      BY <3>1, <1>t, FrontMade, FrontIs
  <2>2. QED
    BY <2>1, <1>17, <1>t, SaversTyped DEF RemoveArtifacts, DataTyped, disk
<1>18. ASSUME Rotate PROVE DataTyped'
  BY <1>18, <1>t, SaversTyped DEF Rotate, DataTyped, disk
<1>19. ASSUME BranchCopy PROVE DataTyped'
  <2>0. minted' \in Paths /\ log \in Logs
    BY <1>19, <1>t, PathFacts DEF BranchCopy, PlaceTyped, DataTyped
  <2>1. front' \in FrontTypes
    <3>1. front' = [op |-> front.op, at |-> "loaded", to |-> minted', log |-> log]
      BY <1>19, <1>t, FrontIs DEF BranchCopy
    <3>2. QED
      BY <2>0, <3>1, <1>t, FrontMade, FrontIs
  <2>2. save' \in [Savers -> SaveTypes]
    <3>1. Saving("copied", minted', log) \in SaveTypes
      BY <2>0, SavingTyped, SaversTyped
    <3>2. QED
      BY <3>1, <1>19, <1>t, SaveGoes, SaversTyped DEF BranchCopy
  <2>3. QED
    BY <2>1, <2>2, <1>19, <1>t DEF BranchCopy, DataTyped, disk
<1>20. ASSUME NEW p \in Paths, Load(p) PROVE DataTyped'
  <2>1. front' \in FrontTypes
    <3>0. file[p] \in Logs
      BY <1>t DEF DataTyped
    <3>1. front' = [op |-> front.op, at |-> "loaded", to |-> p, log |-> file[p]] \/ front' = NoFront
      BY <1>20, <1>t, FrontIs DEF Load
    <3>2. QED
      BY <3>0, <3>1, <1>t, FrontMade, FrontIs, SaversTyped
  <2>2. QED
    BY <2>1, <1>20, <1>t DEF Load, DataTyped, disk
<1>21. ASSUME LoadNothing PROVE DataTyped'
  BY <1>21, <1>t, SaversTyped DEF LoadNothing, DataTyped, disk
<1>22. ASSUME SetSession PROVE DataTyped'
  <2>1. front' \in FrontTypes
    <3>1. front' = [op |-> front.op, at |-> "set", to |-> front.to, log |-> front.log]
      BY <1>22, <1>t, FrontIs DEF SetSession
    <3>2. QED
      BY <3>1, <1>t, FrontMade, FrontIs
  <2>2. QED
    BY <2>1, <1>22, <1>t, FrontIs DEF SetSession, DataTyped, disk
<1>23. ASSUME SetPath PROVE DataTyped'
  BY <1>23, <1>t, SaversTyped DEF SetPath, DataTyped, disk
<1>24. ASSUME Crash PROVE DataTyped'
  BY <1>24, <1>t, SaversTyped DEF Crash, DataTyped, disk
<1>25. ASSUME UNCHANGED vars PROVE DataTyped'
  BY <1>25, <1>t, SaversTyped DEF vars, memory, disk, history, DataTyped, disk
<1>26. ASSUME StartRewind PROVE DataTyped'
  <2>1. front' \in FrontTypes
    <3>1. front' = [op |-> "rewind", at |-> "cut", to |-> NoPath, log |-> <<>>]
      BY <1>26 DEF StartRewind, NoFront
    <3>2. QED
      BY <3>1, FrontMade, SaversTyped
  <2>2. QED
    BY <2>1, <1>26, <1>t DEF StartRewind, DataTyped, disk
<1>27. ASSUME CutLog PROVE DataTyped'
  <2>1. front' \in FrontTypes
    <3>1. front' = [op |-> front.op, at |-> "saving", to |-> front.to, log |-> front.log]
      BY <1>27, <1>t, FrontIs DEF CutLog
    <3>2. QED
      BY <3>1, <1>t, FrontMade, FrontIs
  <2>2. save' \in [Savers -> SaveTypes]
    BY <1>27, <1>t, SaveGoes, SaversTyped DEF CutLog
  <2>3. log' \in Logs
    <3>1. log \in Logs
      BY <1>t DEF DataTyped
    <3>2. QED
      BY <3>1, <1>27, CutTyped DEF CutLog, Boundaries
  <2>4. QED
    BY <2>1, <2>2, <2>3, <1>27, <1>t DEF CutLog, DataTyped, disk
<1>28. ASSUME EndRewind PROVE DataTyped'
  BY <1>28, <1>t, SaversTyped DEF EndRewind, DataTyped, disk
<1>29. QED
  BY <1>1, <1>2, <1>3, <1>4, <1>5, <1>6, <1>7, <1>8, <1>9, <1>10, <1>11, <1>12, <1>13, <1>14, <1>15,
     <1>16, <1>17, <1>18, <1>19, <1>20, <1>21, <1>22, <1>23, <1>24, <1>25, <1>26, <1>27, <1>28 DEF Next

\* Every step leaves paths and their owners their types.
LEMMA PlaceStep ==
    ASSUME TypeOK, Numbered, [Next]_vars
    PROVE  PlaceTyped'
<1>t. DataTyped /\ PlaceTyped /\ TurnTyped /\ BoundTyped
  BY TypeParts
<1>1. ASSUME StartTurn PROVE PlaceTyped'
  BY <1>1, <1>t, PathFacts, SaversTyped DEF StartTurn, PlaceTyped, history
<1>2. ASSUME OpenTurn PROVE PlaceTyped'
  BY <1>2, <1>t, PathFacts, SaversTyped DEF OpenTurn, PlaceTyped, history
<1>3. ASSUME AddMessage PROVE PlaceTyped'
  <2>1. <<turn.n, turn.said>> \in Messages
    BY <1>3, <1>t, SaidIsMessage
  <2> DEFINE m == <<turn.n, turn.said>>
  <2>2. own' = [own EXCEPT ![conv] = own[conv] \cup {m}]
    BY <1>3 DEF AddMessage
  <2> HIDE DEF m
  <2>3. own' \in [Paths -> SUBSET Messages]
    BY <2>1, <2>2, <1>t DEF PlaceTyped, m
  <2>4. QED
    BY <2>3, <1>3, <1>t DEF AddMessage, PlaceTyped
<1>4. ASSUME EndLoop PROVE PlaceTyped'
  BY <1>4, <1>t, PathFacts, SaversTyped DEF EndLoop, PlaceTyped, history
<1>5. ASSUME FinishTurn PROVE PlaceTyped'
  BY <1>5, <1>t, PathFacts, SaversTyped DEF FinishTurn, PlaceTyped, history
<1>6. ASSUME AutosaveTick PROVE PlaceTyped'
  BY <1>6, <1>t, PathFacts, SaversTyped DEF AutosaveTick, PlaceTyped, history
<1>7. ASSUME AutosaveExit PROVE PlaceTyped'
  BY <1>7, <1>t, PathFacts, SaversTyped DEF AutosaveExit, PlaceTyped, history
<1>8. ASSUME NEW a \in Folders, PlanFold(a) PROVE PlaceTyped'
  BY <1>8, <1>t, PathFacts, SaversTyped DEF PlanFold, PlaceTyped, history
<1>9. ASSUME NEW a \in Folders, PutFold(a) PROVE PlaceTyped'
  BY <1>9, <1>t, PathFacts, SaversTyped DEF PutFold, PlaceTyped, history
<1>10. ASSUME NEW a \in Savers, ReadPath(a) PROVE PlaceTyped'
  BY <1>10, <1>t, PathFacts, SaversTyped DEF ReadPath, PlaceTyped, history
<1>11. ASSUME NEW a \in Savers, CopyLog(a) PROVE PlaceTyped'
  BY <1>11, <1>t, PathFacts, SaversTyped DEF CopyLog, PlaceTyped, history
<1>12. ASSUME NEW a \in Savers, ReplaceFile(a) PROVE PlaceTyped'
  <2>1. Held(save[a].content) \in SUBSET Messages
    BY <1>t, SaverIs, HeldTyped
  <2>2. own' \in [Paths -> SUBSET Messages]
    BY <2>1, <1>12, <1>t DEF ReplaceFile, PlaceTyped
  <2>3. QED
    BY <2>2, <1>12, <1>t DEF ReplaceFile, PlaceTyped
<1>13. ASSUME NEW a \in Savers, ReadBack(a) PROVE PlaceTyped'
  BY <1>13, <1>t, PathFacts, SaversTyped DEF ReadBack, PlaceTyped, history
<1>14. ASSUME NEW a \in Savers, Sign(a) PROVE PlaceTyped'
  BY <1>14, <1>t, PathFacts, SaversTyped DEF Sign, PlaceTyped, history
<1>15. ASSUME NEW op \in {"new", "branch", "switch", "resume"}, StartRotation(op) PROVE PlaceTyped'
  BY <1>15, <1>t, PathFacts, SaversTyped DEF StartRotation, PlaceTyped, history
<1>16. ASSUME StartClear PROVE PlaceTyped'
  BY <1>16, <1>t, PathFacts, SaversTyped DEF StartClear, PlaceTyped, history
<1>17. ASSUME RemoveArtifacts PROVE PlaceTyped'
  BY <1>17, <1>t, FrontIs DEF RemoveArtifacts, PlaceTyped
<1>18. ASSUME Rotate PROVE PlaceTyped'
  BY <1>18, <1>t, PathFacts, SaversTyped DEF Rotate, PlaceTyped, history
<1>19. ASSUME BranchCopy PROVE PlaceTyped'
  BY <1>19, <1>t, PathFacts, SaversTyped DEF BranchCopy, PlaceTyped, history
<1>20. ASSUME NEW p \in Paths, Load(p) PROVE PlaceTyped'
  BY <1>20, <1>t, PathFacts, SaversTyped DEF Load, PlaceTyped, history
<1>21. ASSUME LoadNothing PROVE PlaceTyped'
  BY <1>21, <1>t, PathFacts, SaversTyped DEF LoadNothing, PlaceTyped, history
<1>22. ASSUME SetSession PROVE PlaceTyped'
  BY <1>22, <1>t, FrontIs DEF SetSession, PlaceTyped, history
<1>23. ASSUME SetPath PROVE PlaceTyped'
  BY <1>23, <1>t, FrontIs DEF SetPath, PlaceTyped, history
<1>24. ASSUME Crash PROVE PlaceTyped'
  BY <1>24, <1>t, PathFacts, SaversTyped DEF Crash, PlaceTyped, history
<1>25. ASSUME UNCHANGED vars PROVE PlaceTyped'
  BY <1>25, <1>t, PathFacts, SaversTyped DEF vars, memory, disk, history, PlaceTyped, history
<1>26. ASSUME StartRewind PROVE PlaceTyped'
  BY <1>26, <1>t, PathFacts, SaversTyped DEF StartRewind, PlaceTyped, history
<1>27. ASSUME CutLog PROVE PlaceTyped'
  <2>1. Held(log) \in SUBSET Messages
    BY <1>t, HeldTyped DEF DataTyped
  <2>2. rewound' \in [Paths -> SUBSET Messages]
    BY <2>1, <1>27, <1>t DEF CutLog, PlaceTyped
  <2>3. QED
    BY <2>2, <1>27, <1>t DEF CutLog, PlaceTyped
<1>28. ASSUME EndRewind PROVE PlaceTyped'
  BY <1>28, <1>t, PathFacts, SaversTyped DEF EndRewind, PlaceTyped, history
<1>29. QED
  BY <1>1, <1>2, <1>3, <1>4, <1>5, <1>6, <1>7, <1>8, <1>9, <1>10, <1>11, <1>12, <1>13, <1>14, <1>15,
     <1>16, <1>17, <1>18, <1>19, <1>20, <1>21, <1>22, <1>23, <1>24, <1>25, <1>26, <1>27, <1>28 DEF Next

\* Every step leaves the turn its type.
LEMMA TurnStep ==
    ASSUME TypeOK, Numbered, [Next]_vars
    PROVE  TurnTyped'
<1>t. DataTyped /\ PlaceTyped /\ TurnTyped /\ BoundTyped
  BY TypeParts
<1>1. ASSUME StartTurn PROVE TurnTyped'
  BY <1>1, <1>t, BoundAssumption DEF StartTurn, TurnTyped, history, Numbered, Running, NoTurn
<1>2. ASSUME OpenTurn PROVE TurnTyped'
  <2>1. Len(log) \in Nat
    BY <1>t DEF DataTyped, Logs
  <2>2. QED
    BY <2>1, <1>2, <1>t DEF OpenTurn, TurnTyped, history, Numbered, Running
<1>3. ASSUME AddMessage PROVE TurnTyped'
  <2>1. turn.said + 1 \in 0..(MaxReplies + 1)
    <3>1. turn.said \in Nat /\ limit.replies \in 0..MaxReplies /\ MaxReplies \in Nat
      BY <1>t, LimitIs, BoundAssumption DEF TurnTyped, BoundTyped
    <3>2. turn.said <= limit.replies
      BY <1>3 DEF AddMessage
    <3>3. QED
      BY <3>1, <3>2
  <2>2. QED
    BY <2>1, <1>3, <1>t DEF AddMessage, TurnTyped, Numbered, Running
<1>4. ASSUME EndLoop PROVE TurnTyped'
  BY <1>4, <1>t, BoundAssumption DEF EndLoop, TurnTyped, history, Numbered, Running, NoTurn
<1>5. ASSUME FinishTurn PROVE TurnTyped'
  BY <1>5, <1>t, BoundAssumption DEF FinishTurn, TurnTyped, history, Numbered, Running, NoTurn
<1>6. ASSUME AutosaveTick PROVE TurnTyped'
  BY <1>6, <1>t, BoundAssumption DEF AutosaveTick, TurnTyped, history, Numbered, Running, NoTurn
<1>7. ASSUME AutosaveExit PROVE TurnTyped'
  BY <1>7, <1>t, BoundAssumption DEF AutosaveExit, TurnTyped, history, Numbered, Running, NoTurn
<1>8. ASSUME NEW a \in Folders, PlanFold(a) PROVE TurnTyped'
  BY <1>8, <1>t, BoundAssumption DEF PlanFold, TurnTyped, history, Numbered, Running, NoTurn
<1>9. ASSUME NEW a \in Folders, PutFold(a) PROVE TurnTyped'
  BY <1>9, <1>t, BoundAssumption DEF PutFold, TurnTyped, history, Numbered, Running, NoTurn
<1>10. ASSUME NEW a \in Savers, ReadPath(a) PROVE TurnTyped'
  BY <1>10, <1>t, BoundAssumption DEF ReadPath, TurnTyped, history, Numbered, Running, NoTurn
<1>11. ASSUME NEW a \in Savers, CopyLog(a) PROVE TurnTyped'
  BY <1>11, <1>t, BoundAssumption DEF CopyLog, TurnTyped, history, Numbered, Running, NoTurn
<1>12. ASSUME NEW a \in Savers, ReplaceFile(a) PROVE TurnTyped'
  BY <1>12, <1>t, BoundAssumption DEF ReplaceFile, TurnTyped, history, Numbered, Running, NoTurn
<1>13. ASSUME NEW a \in Savers, ReadBack(a) PROVE TurnTyped'
  BY <1>13, <1>t, BoundAssumption DEF ReadBack, TurnTyped, history, Numbered, Running, NoTurn
<1>14. ASSUME NEW a \in Savers, Sign(a) PROVE TurnTyped'
  BY <1>14, <1>t, BoundAssumption DEF Sign, TurnTyped, history, Numbered, Running, NoTurn
<1>15. ASSUME NEW op \in {"new", "branch", "switch", "resume"}, StartRotation(op) PROVE TurnTyped'
  BY <1>15, <1>t, BoundAssumption DEF StartRotation, TurnTyped, history, Numbered, Running, NoTurn
<1>16. ASSUME StartClear PROVE TurnTyped'
  BY <1>16, <1>t, BoundAssumption DEF StartClear, TurnTyped, history, Numbered, Running, NoTurn
<1>17. ASSUME RemoveArtifacts PROVE TurnTyped'
  BY <1>17, <1>t, BoundAssumption DEF RemoveArtifacts, TurnTyped, history, Numbered, Running, NoTurn
<1>18. ASSUME Rotate PROVE TurnTyped'
  BY <1>18, <1>t, BoundAssumption DEF Rotate, TurnTyped, history, Numbered, Running, NoTurn
<1>19. ASSUME BranchCopy PROVE TurnTyped'
  BY <1>19, <1>t, BoundAssumption DEF BranchCopy, TurnTyped, history, Numbered, Running, NoTurn
<1>20. ASSUME NEW p \in Paths, Load(p) PROVE TurnTyped'
  BY <1>20, <1>t, BoundAssumption DEF Load, TurnTyped, history, Numbered, Running, NoTurn
<1>21. ASSUME LoadNothing PROVE TurnTyped'
  BY <1>21, <1>t, BoundAssumption DEF LoadNothing, TurnTyped, history, Numbered, Running, NoTurn
<1>22. ASSUME SetSession PROVE TurnTyped'
  BY <1>22, <1>t, BoundAssumption DEF SetSession, TurnTyped, history, Numbered, Running, NoTurn
<1>23. ASSUME SetPath PROVE TurnTyped'
  BY <1>23, <1>t, BoundAssumption DEF SetPath, TurnTyped, history, Numbered, Running, NoTurn
<1>24. ASSUME Crash PROVE TurnTyped'
  BY <1>24, <1>t, BoundAssumption DEF Crash, TurnTyped, history, Numbered, Running, NoTurn
<1>25. ASSUME UNCHANGED vars PROVE TurnTyped'
  BY <1>25, <1>t, BoundAssumption DEF vars, memory, disk, history, TurnTyped, history, Numbered,
     Running, NoTurn
<1>26. ASSUME StartRewind PROVE TurnTyped'
  BY <1>26, <1>t, BoundAssumption DEF StartRewind, TurnTyped, history, Numbered, Running, NoTurn
<1>27. ASSUME CutLog PROVE TurnTyped'
  BY <1>27, <1>t, BoundAssumption DEF CutLog, TurnTyped, history, Numbered, Running, NoTurn
<1>28. ASSUME EndRewind PROVE TurnTyped'
  BY <1>28, <1>t, BoundAssumption DEF EndRewind, TurnTyped, history, Numbered, Running, NoTurn
<1>29. QED
  BY <1>1, <1>2, <1>3, <1>4, <1>5, <1>6, <1>7, <1>8, <1>9, <1>10, <1>11, <1>12, <1>13, <1>14, <1>15,
     <1>16, <1>17, <1>18, <1>19, <1>20, <1>21, <1>22, <1>23, <1>24, <1>25, <1>26, <1>27, <1>28 DEF Next

\* Every step stays within the bounds.
LEMMA BoundStep ==
    ASSUME TypeOK, Numbered, [Next]_vars
    PROVE  BoundTyped'
<1>t. DataTyped /\ PlaceTyped /\ TurnTyped /\ BoundTyped
  BY TypeParts
<1>1. ASSUME StartTurn PROVE BoundTyped'
  BY <1>1, <1>t, LimitIs DEF StartTurn, BoundTyped, Record
<1>2. ASSUME OpenTurn PROVE BoundTyped'
  BY <1>2, <1>t, LimitIs DEF OpenTurn, BoundTyped, Record
<1>3. ASSUME AddMessage PROVE BoundTyped'
  BY <1>3, <1>t, LimitIs DEF AddMessage, BoundTyped, Record
<1>4. ASSUME EndLoop PROVE BoundTyped'
  BY <1>4, <1>t, LimitIs DEF EndLoop, BoundTyped, Record
<1>5. ASSUME FinishTurn PROVE BoundTyped'
  BY <1>5, <1>t, LimitIs DEF FinishTurn, BoundTyped, Record
<1>6. ASSUME AutosaveTick PROVE BoundTyped'
  BY <1>6, <1>t, LimitIs DEF AutosaveTick, BoundTyped, Record
<1>7. ASSUME AutosaveExit PROVE BoundTyped'
  BY <1>7, <1>t, LimitIs DEF AutosaveExit, BoundTyped, Record
<1>8. ASSUME NEW a \in Folders, PlanFold(a) PROVE BoundTyped'
  <2>1. PICK answered \in BOOLEAN :
             /\ answered \/ count.outages < limit.outages
             /\ count' = [count EXCEPT !.folds = count.folds + 1,
                                       !.outages = IF answered THEN count.outages ELSE count.outages + 1]
    BY <1>8 DEF PlanFold
  <2>2. count.folds < limit.folds /\ limit' = limit
    BY <1>8 DEF PlanFold, Record
  <2>3. count.folds + 1 \in 0..limit.folds
    BY <2>2, <1>t, LimitIs DEF BoundTyped
  <2>4. (IF answered THEN count.outages ELSE count.outages + 1) \in 0..limit.outages
    BY <2>1, <1>t, LimitIs DEF BoundTyped
  <2>5. QED
    BY <2>1, <2>2, <2>3, <2>4, <1>t DEF BoundTyped
<1>9. ASSUME NEW a \in Folders, PutFold(a) PROVE BoundTyped'
  BY <1>9, <1>t, LimitIs DEF PutFold, BoundTyped, Record
<1>10. ASSUME NEW a \in Savers, ReadPath(a) PROVE BoundTyped'
  BY <1>10, <1>t, LimitIs DEF ReadPath, BoundTyped, Record
<1>11. ASSUME NEW a \in Savers, CopyLog(a) PROVE BoundTyped'
  BY <1>11, <1>t, LimitIs DEF CopyLog, BoundTyped, Record
<1>12. ASSUME NEW a \in Savers, ReplaceFile(a) PROVE BoundTyped'
  BY <1>12, <1>t, LimitIs DEF ReplaceFile, BoundTyped, Record
<1>13. ASSUME NEW a \in Savers, ReadBack(a) PROVE BoundTyped'
  BY <1>13, <1>t, LimitIs DEF ReadBack, BoundTyped, Record
<1>14. ASSUME NEW a \in Savers, Sign(a) PROVE BoundTyped'
  BY <1>14, <1>t, LimitIs DEF Sign, BoundTyped, Record
<1>15. ASSUME NEW op \in {"new", "branch", "switch", "resume"}, StartRotation(op) PROVE BoundTyped'
  <2>1. /\ limit' = limit /\ count.calls < limit.calls
        /\ count' = [count EXCEPT !.calls = count.calls + 1]
    BY <1>15 DEF StartRotation, Record
  <2>2. QED
    BY <2>1, <1>t, LimitIs DEF BoundTyped
<1>16. ASSUME StartClear PROVE BoundTyped'
  <2>1. /\ limit' = limit /\ count.calls < limit.calls
        /\ count' = [count EXCEPT !.calls = count.calls + 1]
    BY <1>16 DEF StartClear, Record
  <2>2. QED
    BY <2>1, <1>t, LimitIs DEF BoundTyped
<1>17. ASSUME RemoveArtifacts PROVE BoundTyped'
  BY <1>17, <1>t, LimitIs DEF RemoveArtifacts, BoundTyped, Record
<1>18. ASSUME Rotate PROVE BoundTyped'
  BY <1>18, <1>t, LimitIs DEF Rotate, BoundTyped, Record
<1>19. ASSUME BranchCopy PROVE BoundTyped'
  BY <1>19, <1>t, LimitIs DEF BranchCopy, BoundTyped, Record
<1>20. ASSUME NEW p \in Paths, Load(p) PROVE BoundTyped'
  BY <1>20, <1>t, LimitIs DEF Load, BoundTyped, Record
<1>21. ASSUME LoadNothing PROVE BoundTyped'
  BY <1>21, <1>t, LimitIs DEF LoadNothing, BoundTyped, Record
<1>22. ASSUME SetSession PROVE BoundTyped'
  BY <1>22, <1>t, LimitIs DEF SetSession, BoundTyped, Record
<1>23. ASSUME SetPath PROVE BoundTyped'
  BY <1>23, <1>t, LimitIs DEF SetPath, BoundTyped, Record
<1>24. ASSUME Crash PROVE BoundTyped'
  <2>1. /\ limit' = limit /\ count.crashes < limit.crashes
        /\ count' = [count EXCEPT !.crashes = count.crashes + 1]
    BY <1>24 DEF Crash, Record
  <2>2. QED
    BY <2>1, <1>t, LimitIs DEF BoundTyped
<1>25. ASSUME UNCHANGED vars PROVE BoundTyped'
  BY <1>25, <1>t, LimitIs DEF vars, memory, disk, history, BoundTyped, Record
<1>26. ASSUME StartRewind PROVE BoundTyped'
  <2>1. /\ limit' = limit /\ count.calls < limit.calls
        /\ count' = [count EXCEPT !.calls = count.calls + 1]
    BY <1>26 DEF StartRewind, Record
  <2>2. QED
    BY <2>1, <1>t, LimitIs DEF BoundTyped
<1>27. ASSUME CutLog PROVE BoundTyped'
  BY <1>27, <1>t, LimitIs DEF CutLog, BoundTyped, Record
<1>28. ASSUME EndRewind PROVE BoundTyped'
  BY <1>28, <1>t, LimitIs DEF EndRewind, BoundTyped, Record
<1>29. QED
  BY <1>1, <1>2, <1>3, <1>4, <1>5, <1>6, <1>7, <1>8, <1>9, <1>10, <1>11, <1>12, <1>13, <1>14, <1>15,
     <1>16, <1>17, <1>18, <1>19, <1>20, <1>21, <1>22, <1>23, <1>24, <1>25, <1>26, <1>27, <1>28 DEF Next

-----------------------------------------------------------------------------
(* All logs are in order.                                                  *)

\* Every step leaves all logs in order: the turn adds what is newer than all
\* of them, a fold keeps the order, the others carry a log from place to place.
LEMMA OrderedStep ==
    ASSUME TypeOK, Numbered, Types, OrderedLogs, [Next]_vars
    PROVE  OrderedLogs'
<1>t. DataTyped /\ PlaceTyped /\ TurnTyped /\ BoundTyped /\ SaveType
  BY TypeParts DEF Types
<1>k. \A s : Sound(s, turn) => Sound(s, turn')
  BY SoundStays
<1>d. /\ save \in [Savers -> SaveTypes] /\ file \in [Paths -> Logs] /\ sig \in [Paths -> Logs]
      /\ fold \in [Folders -> [of : Logs, to : Logs]] /\ front \in FrontTypes
  BY <1>t DEF DataTyped
<1>o. /\ Sound(log, turn') /\ Sound(front.log, turn') /\ Sound(<<>>, turn')
      /\ \A p \in Paths : Sound(file[p], turn') /\ Sound(sig[p], turn')
      /\ \A a \in Folders : Sound(fold[a].of, turn') /\ Sound(fold[a].to, turn')
      /\ \A a \in Savers : Sound(save[a].content, turn')
  BY <1>k, EmptySound DEF OrderedLogs
<1>v. NoSave.content = <<>> /\ Asked.content = <<>> /\ \A at, p, c : Saving(at, p, c).content = c
  BY DEF NoSave, Asked, Saving
<1>1. ASSUME StartTurn PROVE OrderedLogs'
  BY <1>1, <1>o DEF StartTurn, OrderedLogs, disk
<1>2. ASSUME OpenTurn PROVE OrderedLogs'
  BY <1>2, <1>o DEF OpenTurn, OrderedLogs, disk
<1>3. ASSUME AddMessage PROVE OrderedLogs'
  <2> DEFINE m == <<turn.n, turn.said>>
  <2>1. m \in Messages
    BY <1>3, <1>t, SaidIsMessage
  <2>2. Orderly(log) /\ \A n \in Held(log) : SaidFirst(n, m) /\ SaidBy(n, turn')
    <3>1. Sound(log, turn) /\ turn.at = "loop"
      BY <1>3 DEF OrderedLogs, AddMessage
    <3>2. \A n \in Held(log) : SaidBy(n, turn)
      BY <3>1 DEF Sound
    <3>3. Sound(log, turn')
      BY <1>o
    <3>4. QED
      BY <3>1, <3>3 DEF Sound, SaidFirst, SaidBy
  <2>3. SaidBy(m, turn')
    <3>1. turn' = [turn EXCEPT !.said = turn.said + 1] /\ turn.said \in Nat
      BY <1>3, <1>t DEF AddMessage, TurnTyped
    <3>2. QED
      BY <3>1, <1>t DEF SaidBy, TurnTyped
  <2>4. log' = Append(log, Message(m))
    BY <1>3 DEF AddMessage
  <2> HIDE DEF m
  <2>5. Orderly(log') /\ Held(log') = Held(log) \cup {m}
    BY <2>1, <2>2, <2>4, AppendOrderly
  <2>6. Sound(log', turn')
    BY <2>2, <2>3, <2>5 DEF Sound
  <2>7. QED
    BY <2>6, <1>o, <1>3 DEF AddMessage, OrderedLogs, disk
<1>4. ASSUME EndLoop PROVE OrderedLogs'
  <2>1. \A b \in Savers : b # "turn" => save'[b] = save[b]
    BY <1>d, <1>4 DEF EndLoop
  <2>2. Sound(save'["turn"].content, turn')
    <3>1. QED
      BY <1>o, <1>v, SaversTyped, <1>4 DEF EndLoop
  <2>3. QED
    BY <2>2, <1>o, <1>4 DEF EndLoop, OrderedLogs, disk
<1>5. ASSUME FinishTurn PROVE OrderedLogs'
  BY <1>5, <1>o DEF FinishTurn, OrderedLogs, disk
<1>6. ASSUME AutosaveTick PROVE OrderedLogs'
  <2>1. \A b \in Savers : b # "auto" => save'[b] = save[b]
    BY <1>d, <1>6 DEF AutosaveTick
  <2>2. Sound(save'["auto"].content, turn')
    <3>1. QED
      BY <1>o, <1>v, <1>6 DEF AutosaveTick
  <2>3. QED
    BY <2>2, <1>6 DEF AutosaveTick, OrderedLogs, disk
<1>7. ASSUME AutosaveExit PROVE OrderedLogs'
  BY <1>7 DEF AutosaveExit, OrderedLogs, disk
<1>8. ASSUME NEW a \in Folders, PlanFold(a) PROVE OrderedLogs'
  <2>1. PICK start \in TailStarts(log), answered \in BOOLEAN :
               fold' = [fold EXCEPT ![a] = [of |-> log, to |-> Compacted(log, start, answered)]]
    BY <1>8 DEF PlanFold
  <2> DEFINE c == Compacted(log, start, answered)
  <2>2. Sound(c, turn')
    BY <1>o, CompactedSound
  <2>3. fold' = [fold EXCEPT ![a] = [of |-> log, to |-> c]]
    BY <2>1
  <2> HIDE DEF c
  <2>4. \A b \in Folders : Sound(fold'[b].of, turn') /\ Sound(fold'[b].to, turn')
    BY <2>2, <2>3, <1>o, <1>d
  <2>5. QED
    BY <2>4, <1>8 DEF PlanFold, OrderedLogs, disk
<1>9. ASSUME NEW a \in Folders, PutFold(a) PROVE OrderedLogs'
  <2>1. \A b \in Savers : b # a => save'[b] = save[b]
    BY <1>d, <1>9 DEF PutFold
  <2>2. Sound(save'[a].content, turn')
    <3>1. QED
      BY <1>o, <1>v, SaversTyped, <1>9 DEF PutFold
  <2>3. QED
    BY <2>2, <1>o, <1>9 DEF PutFold, OrderedLogs, NoFold, disk
<1>10. ASSUME NEW a \in Savers, ReadPath(a) PROVE OrderedLogs'
  <2>1. \A b \in Savers : b # a => save'[b] = save[b]
    BY <1>d, <1>10 DEF ReadPath
  <2>2. Sound(save'[a].content, turn')
    <3>1. QED
      BY <1>o, <1>v, <1>10 DEF ReadPath
  <2>3. QED
    BY <2>2, <1>10 DEF ReadPath, OrderedLogs, disk
<1>11. ASSUME NEW a \in Savers, CopyLog(a) PROVE OrderedLogs'
  <2>1. \A b \in Savers : b # a => save'[b] = save[b]
    BY <1>d, <1>11 DEF CopyLog
  <2>2. Sound(save'[a].content, turn')
    <3>1. QED
      BY <1>o, <1>v, <1>11 DEF CopyLog
  <2>3. QED
    BY <2>2, <1>11 DEF CopyLog, OrderedLogs, disk
<1>12. ASSUME NEW a \in Savers, ReplaceFile(a) PROVE OrderedLogs'
  <2>1. \A b \in Savers : b # a => save'[b] = save[b]
    BY <1>d, <1>12 DEF ReplaceFile
  <2>2. Sound(save'[a].content, turn')
    <3>1. QED
      BY <1>o, <1>v, <1>12 DEF ReplaceFile
  <2>3. QED
    BY <2>2, <1>12 DEF ReplaceFile, OrderedLogs
<1>13. ASSUME NEW a \in Savers, ReadBack(a) PROVE OrderedLogs'
  <2>1. \A b \in Savers : b # a => save'[b] = save[b]
    BY <1>d, <1>13 DEF ReadBack
  <2>2. Sound(save'[a].content, turn')
    <3>0. save[a].path \in Paths
      BY <1>t, <1>13 DEF ReadBack, SaveType
    <3>1. QED
      BY <3>0, <1>o, <1>v, <1>13 DEF ReadBack
  <2>3. QED
    BY <2>2, <1>13 DEF ReadBack, OrderedLogs, disk
<1>14. ASSUME NEW a \in Savers, Sign(a) PROVE OrderedLogs'
  <2>1. \A b \in Savers : b # a => save'[b] = save[b]
    BY <1>d, <1>14 DEF Sign
  <2>2. Sound(save'[a].content, turn')
    <3>1. QED
      BY <1>o, <1>v, <1>14 DEF Sign
  <2>3. QED
    BY <2>2, <1>14 DEF Sign, OrderedLogs
<1>15. ASSUME NEW op \in {"new", "branch", "switch", "resume"}, StartRotation(op) PROVE OrderedLogs'
  <2>1. \A b \in Savers : b # "front" => save'[b] = save[b]
    BY <1>d, <1>15 DEF StartRotation
  <2>2. Sound(save'["front"].content, turn')
    <3>1. QED
      BY <1>o, <1>v, SaversTyped, <1>15 DEF StartRotation
  <2>3. QED
    BY <2>2, <1>15 DEF StartRotation, OrderedLogs, disk
<1>16. ASSUME StartClear PROVE OrderedLogs'
  BY <1>16 DEF StartClear, OrderedLogs, disk
<1>17. ASSUME RemoveArtifacts PROVE OrderedLogs'
  <2>1. front'.log = front.log
    BY <1>d, <1>17 DEF RemoveArtifacts, FrontTypes
  <2>2. \A p \in Paths : Sound(file'[p], turn')
    BY <1>o, <1>d, <1>17 DEF RemoveArtifacts, NoFile
  <2>3. QED
    BY <2>2, <1>17 DEF RemoveArtifacts, OrderedLogs
<1>18. ASSUME Rotate PROVE OrderedLogs'
  BY <1>18, <1>o DEF Rotate, OrderedLogs, disk, NoFront
<1>19. ASSUME BranchCopy PROVE OrderedLogs'
  <2>1. \A b \in Savers : b # "front" => save'[b] = save[b]
    BY <1>d, <1>19 DEF BranchCopy
  <2>2. Sound(save'["front"].content, turn')
    <3>1. QED
      BY <1>o, <1>v, <1>19 DEF BranchCopy
  <2>3. front'.log = log
    BY <1>d, <1>19 DEF BranchCopy, FrontTypes
  <2>4. QED
    BY <2>2, <1>19 DEF BranchCopy, OrderedLogs, disk
<1>20. ASSUME NEW p \in Paths, Load(p) PROVE OrderedLogs'
  <2>1. front'.log \in {file[p], <<>>}
    BY <1>20 DEF Load, NoFront
  <2>3. QED
    BY <2>1, <1>o, <1>20 DEF Load, OrderedLogs, disk
<1>21. ASSUME LoadNothing PROVE OrderedLogs'
  BY <1>21, <1>o DEF LoadNothing, OrderedLogs, disk, NoFront
<1>22. ASSUME SetSession PROVE OrderedLogs'
  <2>1. front'.log = front.log
    BY <1>d, <1>22 DEF SetSession, FrontTypes
  <2>3. QED
    BY <1>22 DEF SetSession, OrderedLogs, disk
<1>23. ASSUME SetPath PROVE OrderedLogs'
  BY <1>23, <1>o DEF SetPath, OrderedLogs, disk, NoFront
<1>24. ASSUME Crash PROVE OrderedLogs'
  <2>1. \A a \in Folders : fold'[a] = NoFold
    BY <1>24 DEF Crash
  <2>2. \A a \in Savers : save'[a] = NoSave
    BY <1>24 DEF Crash
  <2>3. QED
    BY <1>o, <1>24 DEF Crash, OrderedLogs, NoFront, NoFold, NoSave, Saving, disk
<1>25. ASSUME UNCHANGED vars PROVE OrderedLogs'
  BY <1>25 DEF vars, memory, disk, OrderedLogs, disk
<1>26. ASSUME StartRewind PROVE OrderedLogs'
  BY <1>26, <1>o DEF StartRewind, OrderedLogs, disk, NoFront
<1>27. ASSUME CutLog PROVE OrderedLogs'
  <2>1. front'.log = front.log
    BY <1>d, <1>27 DEF CutLog, FrontTypes
  <2>2. Sound(save'["front"].content, turn')
    BY <1>o, <1>v, SaversTyped, <1>27 DEF CutLog
  <2>3. Sound(log', turn')
    BY <1>27, <1>o, CutSound DEF CutLog, Boundaries
  <2>4. \A b \in Savers : b # "front" => save'[b] = save[b]
    BY <1>d, <1>27 DEF CutLog
  <2>5. QED
    BY <2>1, <2>2, <2>3, <2>4, <1>o, <1>27 DEF CutLog, OrderedLogs, disk
<1>28. ASSUME EndRewind PROVE OrderedLogs'
  BY <1>28, <1>o DEF EndRewind, OrderedLogs, disk, NoFront
<1>29. QED
  BY <1>1, <1>2, <1>3, <1>4, <1>5, <1>6, <1>7, <1>8, <1>9, <1>10, <1>11, <1>12, <1>13, <1>14, <1>15,
     <1>16, <1>17, <1>18, <1>19, <1>20, <1>21, <1>22, <1>23, <1>24, <1>25, <1>26, <1>27, <1>28 DEF Next

\* Initially all logs are empty.
LEMMA LogsInit == Init => LogsInv
<1> SUFFICES ASSUME Init PROVE LogsInv
  OBVIOUS
<1>1. /\ log = <<>> /\ front = NoFront /\ turn = NoTurn /\ minted = 0 /\ path = NoPath /\ conv = NoPath
      /\ file = [p \in Paths |-> NoFile] /\ sig = [p \in Paths |-> NoFile] /\ auto = FALSE
      /\ fold = [a \in Folders |-> NoFold] /\ save = [a \in Savers |-> NoSave]
      /\ own = [p \in Paths |-> {}] /\ rewound = [p \in Paths |-> {}]
      /\ ended = {} /\ cleared = {} /\ mishaps = {} /\ limit \in Limits
      /\ count = [folds |-> 0, calls |-> 0, ticks |-> 0, outages |-> 0, crashes |-> 0]
  BY DEF Init
<1>2. DataTyped
  BY <1>1, SaversTyped DEF DataTyped
<1>3. PlaceTyped /\ TurnTyped
  <2>1. PlaceTyped
    <3>1. minted \in 0..MaxPaths
      BY <1>1, BoundAssumption
    <3>2. own \in [Paths -> SUBSET Messages] /\ rewound \in [Paths -> SUBSET Messages]
      BY <1>1
    <3>3. QED
      BY <1>1, <3>1, <3>2 DEF PlaceTyped
  <2>2. TurnTyped
    BY <1>1, BoundAssumption DEF TurnTyped, NoTurn, Numbered, Running
  <2>3. QED
    BY <2>1, <2>2
<1>4. BoundTyped
  BY <1>1, LimitIs DEF BoundTyped
<1>5. OrderedLogs
  <2>1. Sound(<<>>, turn) /\ NoFile = <<>>
    BY EmptySound
  <2>2. /\ front.log = <<>>
        /\ \A a \in Folders : fold[a].of = <<>> /\ fold[a].to = <<>>
        /\ \A a \in Savers : save[a].content = <<>>
    BY <1>1 DEF NoFront, NoFold, NoSave, Saving
  <2>3. QED
    BY <1>1, <2>1, <2>2 DEF OrderedLogs
<1>6. QED
  BY <1>1, <1>2, <1>3, <1>4, <1>5, TypeParts DEF LogsInv

\* No step adds another kind of mishap.
LEMMA KindsStep == ASSUME mishaps \subseteq Kinds, [Next]_vars PROVE mishaps' \subseteq Kinds
<1>1. ASSUME Record PROVE mishaps' \subseteq Kinds
  BY <1>1, RecordKinds
<1>2. ASSUME Crash PROVE mishaps' \subseteq Kinds
  BY <1>2 DEF Crash, Kinds
<1>3. ASSUME UNCHANGED vars PROVE mishaps' \subseteq Kinds
  BY <1>3 DEF vars
<1>4. \/ Record \/ Crash \/ UNCHANGED vars
  BY DEF Next, StartTurn, OpenTurn, AddMessage, EndLoop, FinishTurn, AutosaveTick, AutosaveExit,
     PlanFold, PutFold,
         ReadPath, CopyLog, ReplaceFile, ReadBack, Sign, StartRotation, StartClear, RemoveArtifacts,
         Rotate, BranchCopy, Load, LoadNothing, SetSession, SetPath, StartRewind, CutLog, EndRewind
<1>5. QED
  BY <1>1, <1>2, <1>3, <1>4

\* Every step keeps LogsInv.
LEMMA LogsStep ==
    ASSUME Types, LogsInv, [Next]_vars
    PROVE  LogsInv'
<1>1. TypeOK /\ Numbered /\ OrderedLogs /\ mishaps \subseteq Kinds
  BY TypeParts DEF LogsInv
<1>2. DataTyped' /\ PlaceTyped' /\ TurnTyped' /\ BoundTyped' /\ mishaps' \subseteq Kinds
  BY <1>1, DataStep, PlaceStep, TurnStep, BoundStep, KindsStep
<1>3. (DataTyped /\ PlaceTyped /\ TurnTyped /\ BoundTyped /\ mishaps \subseteq Kinds
         => TypeOK /\ Numbered)'
  BY <1>1, TypeParts, PTL
<1>4. QED
  BY <1>2, <1>3, OrderedStep DEF LogsInv

\* What is in order tells: no user's message in a digest, and the log in order.
LEMMA OrderlyTells ==
    ASSUME NEW s, Orderly(s)
    PROVE  /\ \A i \in DOMAIN s : IsDigest(s[i]) => \A m \in s[i].of : m[2] # 0
           /\ \A i, j \in DOMAIN s : i < j =>
                /\ s[i].of \cap s[j].of = {}
                /\ ~IsUser(s[i]) /\ ~IsUser(s[j]) =>
                      \A m \in s[i].of, n \in s[j].of : m[1] < n[1] \/ (m[1] = n[1] /\ m[2] < n[2])
<1>1. \A i \in DOMAIN s : s[i] \in ProperItems
  BY DEF Orderly
<1>2. QED
  BY ProperIs DEF Orderly, Precedes, SaidFirst

\* Every reachable state has the shape TypeOK gives it: the session in
\* memory, the files, the saves, the turn and the calls of the frontends.
THEOREM TranscriptTypesHold == Spec => []TypeOK
<1>1. Inv /\ LogsInv /\ [Next]_vars => LogsInv'
  BY LogsStep DEF Inv
<1>2. LogsInv => TypeOK
  BY DEF LogsInv
<1>3. QED
  BY <1>1, <1>2, LogsInit, SavesInStep, PTL DEF Spec

\* Compaction (Agent.compact, partitionFold) keeps a session's messages in
\* their order, each once, and never has a user's message in a digest,
\* however folds, turns, saves, crashes and frontends' calls interleave.
THEOREM LogsInOrder == Spec => []LogInOrder
<1>1. Inv /\ LogsInv /\ [Next]_vars => LogsInv'
  BY LogsStep DEF Inv
<1>2. LogsInv => LogInOrder
  BY OrderlyTells DEF LogsInv, OrderedLogs, Sound, LogInOrder, UserTurnsVerbatim, InOrder
<1>3. QED
  BY <1>1, <1>2, LogsInit, SavesInStep, PTL DEF Spec

-----------------------------------------------------------------------------
(* Paths and calls.                                                        *)

\* A path that is not made yet is nobody's.
MintInv ==
    /\ path <= minted /\ conv <= minted /\ front.to <= minted
    /\ \A a \in Savers : save[a].path <= minted
    /\ \A p \in Paths : p > minted => own[p] = {} /\ file[p] = NoFile /\ p \notin cleared

\* Where a frontend's call can stand.
FrontInv ==
    /\ front.at = "none" <=> front = NoFront
    /\ front.at \in {"remove", "rotate"} => front.op = "clear"
    /\ front.at = "snapshot" => front.to = NoPath /\ front.op \in {"new", "branch", "switch", "resume"}
    /\ front.at = "loaded" => front.to # NoPath /\ front.op \in {"branch", "switch", "resume"}
    /\ front.at = "set" => front.to # NoPath /\ front.op \in {"branch", "switch", "resume"}
    /\ front.at \in {"cut", "saving"} => front.to = NoPath /\ front.op = "rewind"

\* Paths are numbers from 1, and no path is 0.
LEMMA PathNumbers ==
    /\ Paths \subseteq Nat /\ NoPath = 0 /\ MaxPaths \in Nat
    /\ \A p \in Paths : p >= 1 /\ p <= MaxPaths
BY BoundAssumption DEF Paths, NoPath

\* A path or none is a number.
LEMMA PathNumber ==
    ASSUME NEW p \in Paths \cup {NoPath}
    PROVE  p \in Nat
BY BoundAssumption DEF Paths, NoPath

\* The fields of what nobody's save and call are.
LEMMA SaveValues ==
    /\ NoSave.path = NoPath /\ Asked.path = NoPath /\ NoSave.at = "none" /\ Asked.at = "asked"
    /\ NoFront.to = NoPath /\ NoFront.at = "none" /\ NoFront.op = "none" /\ NoFront.log = <<>>
    /\ NoSave.content = <<>> /\ Asked.content = <<>>
    /\ \A at, p, c : Saving(at, p, c).path = p /\ Saving(at, p, c).at = at /\ Saving(at, p, c).content = c
BY DEF NoSave, Asked, Saving, NoFront

\* Every step leaves the paths to come untouched.
LEMMA MintStep ==
    ASSUME TypeOK, Numbered, Types, MintInv, FrontInv, [Next]_vars
    PROVE  MintInv'
<1>t. DataTyped /\ PlaceTyped /\ TurnTyped /\ BoundTyped /\ SaveType
  BY TypeParts DEF Types
<1>d. /\ save \in [Savers -> SaveTypes] /\ file \in [Paths -> Logs] /\ sig \in [Paths -> Logs]
      /\ front \in FrontTypes
      /\ path \in Paths \cup {NoPath} /\ conv \in Paths \cup {NoPath} /\ minted \in 0..MaxPaths
      /\ own \in [Paths -> SUBSET Messages] /\ cleared \subseteq Paths
      /\ \A a \in Savers : save[a].path \in Paths \cup {NoPath}
      /\ front.to \in Paths \cup {NoPath}
  BY <1>t, SaverIs, FrontIs DEF DataTyped, PlaceTyped
<1>m. MintInv
  OBVIOUS
<1>1. ASSUME StartTurn PROVE MintInv'
  BY <1>1 DEF StartTurn, MintInv, disk, history
<1>2. ASSUME OpenTurn PROVE MintInv'
  BY <1>2, <1>d, PathNumbers DEF OpenTurn, MintInv, disk, history
<1>3. ASSUME AddMessage PROVE MintInv'
  BY <1>3, <1>d, PathNumbers DEF AddMessage, MintInv, disk
<1>4. ASSUME EndLoop PROVE MintInv'
  BY <1>4, <1>d, PathNumbers, SaveValues DEF EndLoop, MintInv, disk, history
<1>5. ASSUME FinishTurn PROVE MintInv'
  BY <1>5 DEF FinishTurn, MintInv, disk
<1>6. ASSUME AutosaveTick PROVE MintInv'
  BY <1>6, SaveValues DEF AutosaveTick, MintInv, disk, history
<1>7. ASSUME AutosaveExit PROVE MintInv'
  BY <1>7 DEF AutosaveExit, MintInv, disk, history
<1>8. ASSUME NEW a \in Folders, PlanFold(a) PROVE MintInv'
  BY <1>8 DEF PlanFold, MintInv, disk, history
<1>9. ASSUME NEW a \in Folders, PutFold(a) PROVE MintInv'
  <2>1. /\ save' = save \/ save' = [save EXCEPT !["compact"] = Asked]
        /\ UNCHANGED <<path, conv, front, minted, own, file, cleared>>
    BY <1>9 DEF PutFold, disk, history
  <2>2. \A b \in Savers : save'[b] = save[b] \/ save'[b] = Asked
    BY <2>1, <1>d
  <2>3. \A b \in Savers : save'[b].path <= minted
    <3>1. Asked.path = 0 /\ 0 <= minted
      BY <1>d, PathNumbers, SaveValues
    <3>2. QED
      BY <3>1, <2>2, <1>m DEF MintInv
  <2>4. QED
    BY <2>1, <2>3, <1>m DEF MintInv
<1>10. ASSUME NEW a \in Savers, ReadPath(a) PROVE MintInv'
  BY <1>10, SaveValues DEF ReadPath, MintInv, disk, history
<1>11. ASSUME NEW a \in Savers, CopyLog(a) PROVE MintInv'
  <2>1. /\ save' = [save EXCEPT ![a] = IF log = <<>> THEN NoSave ELSE Saving("copied", save[a].path, log)]
        /\ UNCHANGED <<path, conv, front, minted, own, file, cleared>>
    BY <1>11 DEF CopyLog, disk, history
  <2>2. \A b \in Savers : save'[b].path \in {save[b].path, NoPath}
    BY <2>1, <1>d, SaveValues
  <2>3. \A b \in Savers : save'[b].path <= minted
    BY <2>2, <1>d, <1>m, PathNumbers DEF MintInv
  <2>4. QED
    BY <2>1, <2>3, <1>m DEF MintInv
<1>12. ASSUME NEW a \in Savers, ReplaceFile(a) PROVE MintInv'
  BY <1>12, <1>d, PathNumbers, SaveValues DEF ReplaceFile, MintInv
<1>13. ASSUME NEW a \in Savers, ReadBack(a) PROVE MintInv'
  <2>1. /\ save'[a].path \in {save[a].path, NoPath}
        /\ \A b \in Savers \ {a} : save'[b] = save[b]
        /\ UNCHANGED <<path, conv, front, minted, own, file, cleared>>
    BY <1>13, <1>d, SaveValues DEF ReadBack, disk, history
  <2>2. \A b \in Savers : save'[b].path <= minted
    BY <2>1, <1>d, <1>m, PathNumbers DEF MintInv
  <2>3. QED
    BY <2>1, <2>2, <1>m DEF MintInv
<1>14. ASSUME NEW a \in Savers, Sign(a) PROVE MintInv'
  BY <1>14, <1>d, PathNumbers, SaveValues DEF Sign, MintInv, history
<1>15. ASSUME NEW op \in {"new", "branch", "switch", "resume"}, StartRotation(op) PROVE MintInv'
  BY <1>15, SaveValues DEF StartRotation, MintInv, disk, history
<1>16. ASSUME StartClear PROVE MintInv'
  BY <1>16 DEF StartClear, MintInv, disk, history
<1>17. ASSUME RemoveArtifacts PROVE MintInv'
  BY <1>17, <1>d, PathNumbers DEF RemoveArtifacts, MintInv
<1>18. ASSUME Rotate PROVE MintInv'
  <2>1. /\ minted' = minted + 1 /\ path' = minted' /\ conv' = minted' /\ front' = NoFront
        /\ UNCHANGED <<save, file, own, cleared>>
    BY <1>18 DEF Rotate, disk, history
  <2>2. \A a \in Savers : save[a].path <= minted'
    <3>1. ASSUME NEW a \in Savers PROVE save[a].path <= minted'
      <4>1. save[a].path \in Nat /\ save[a].path <= minted /\ minted \in Nat
        <5>1. save[a].path \in Nat
          <6>1. save[a].path \in Paths \cup {NoPath}
            BY <1>d, Zenon
          <6>2. QED
            BY <6>1, PathNumber
        <5>2. minted \in Nat
          BY <1>d, PathNumbers
        <5>3. QED
          BY <5>1, <5>2, <1>m DEF MintInv
      <4>2. QED
        BY <4>1, <2>1
    <3>2. QED
      BY <3>1
  <2>3. \A q \in Paths : q > minted' => own[q] = {} /\ file[q] = NoFile /\ q \notin cleared
    BY <2>1, <1>d, PathNumbers DEF MintInv
  <2>4. path' <= minted' /\ conv' <= minted' /\ front'.to <= minted'
    BY <2>1, <1>d, PathNumbers, SaveValues
  <2>5. QED
    BY <2>1, <2>2, <2>3, <2>4 DEF MintInv
<1>19. ASSUME BranchCopy PROVE MintInv'
  BY <1>19, <1>d, PathNumbers, SaveValues, SaversTyped DEF BranchCopy, MintInv, disk, history
<1>20. ASSUME NEW p \in Paths, Load(p) PROVE MintInv'
  BY <1>20, <1>d, PathNumbers, SaveValues DEF Load, MintInv, disk, history
<1>21. ASSUME LoadNothing PROVE MintInv'
  BY <1>21, <1>d, PathNumbers, SaveValues DEF LoadNothing, MintInv, disk, history
<1>22. ASSUME SetSession PROVE MintInv'
  BY <1>22 DEF SetSession, MintInv, disk, history
<1>23. ASSUME SetPath PROVE MintInv'
  BY <1>23, <1>d, PathNumbers, SaveValues DEF SetPath, MintInv, disk, history
<1>24. ASSUME Crash PROVE MintInv'
  BY <1>24, <1>d, PathNumbers, SaveValues DEF Crash, MintInv, disk, history
<1>25. ASSUME UNCHANGED vars PROVE MintInv'
  BY <1>25 DEF vars, memory, disk, history, MintInv, disk, history
<1>26. ASSUME StartRewind PROVE MintInv'
  BY <1>26, <1>d, PathNumbers, SaveValues DEF StartRewind, MintInv, disk, history
<1>27. ASSUME CutLog PROVE MintInv'
  <2>1. /\ save' = [save EXCEPT !["front"] = Asked] /\ front'.to = front.to
        /\ UNCHANGED <<path, conv, minted, own, file, cleared>>
    BY <1>27, <1>d DEF CutLog, FrontTypes, disk
  <2>2. \A b \in Savers : save'[b].path \in {save[b].path, NoPath}
    BY <2>1, <1>d, SaveValues
  <2>3. \A b \in Savers : save'[b].path <= minted
    BY <2>2, <1>d, <1>m, PathNumbers DEF MintInv
  <2>4. QED
    BY <2>1, <2>3, <1>m DEF MintInv
<1>28. ASSUME EndRewind PROVE MintInv'
  BY <1>28, <1>d, PathNumbers, SaveValues DEF EndRewind, MintInv, disk, history
<1>29. QED
  BY <1>1, <1>2, <1>3, <1>4, <1>5, <1>6, <1>7, <1>8, <1>9, <1>10, <1>11, <1>12, <1>13, <1>14, <1>15,
     <1>16, <1>17, <1>18, <1>19, <1>20, <1>21, <1>22, <1>23, <1>24, <1>25, <1>26, <1>27, <1>28 DEF Next

\* Every step leaves a call where it can stand.
LEMMA FrontStep ==
    ASSUME TypeOK, Numbered, Types, FrontInv, [Next]_vars
    PROVE  FrontInv'
<1>t. DataTyped /\ PlaceTyped /\ TurnTyped /\ BoundTyped /\ SaveType
  BY TypeParts DEF Types
<1>d. /\ front \in FrontTypes
      /\ FrontInv
      /\ minted \in 0..MaxPaths /\ (minted < MaxPaths => minted + 1 # NoPath)
      /\ NoPath \notin Paths
  BY <1>t, PathNumbers DEF DataTyped, PlaceTyped
<1>g. /\ front.to \in Paths \cup {NoPath} /\ front.log \in Logs
           /\ front = [op |-> front.op, at |-> front.at, to |-> front.to, log |-> front.log]
           /\ front.op \in {"none", "new", "clear", "branch", "switch", "resume", "rewind"}
           /\ front.at \in {"none", "snapshot", "remove", "rotate", "loaded", "set", "cut", "saving"}
  BY <1>t, FrontIs
<1>1. ASSUME StartTurn PROVE FrontInv'
  BY <1>1 DEF StartTurn, FrontInv
<1>2. ASSUME OpenTurn PROVE FrontInv'
  BY <1>2 DEF OpenTurn, FrontInv
<1>3. ASSUME AddMessage PROVE FrontInv'
  BY <1>3 DEF AddMessage, FrontInv
<1>4. ASSUME EndLoop PROVE FrontInv'
  BY <1>4 DEF EndLoop, FrontInv
<1>5. ASSUME FinishTurn PROVE FrontInv'
  BY <1>5 DEF FinishTurn, FrontInv
<1>6. ASSUME AutosaveTick PROVE FrontInv'
  BY <1>6 DEF AutosaveTick, FrontInv
<1>7. ASSUME AutosaveExit PROVE FrontInv'
  BY <1>7 DEF AutosaveExit, FrontInv
<1>8. ASSUME NEW a \in Folders, PlanFold(a) PROVE FrontInv'
  BY <1>8 DEF PlanFold, FrontInv
<1>9. ASSUME NEW a \in Folders, PutFold(a) PROVE FrontInv'
  BY <1>9 DEF PutFold, FrontInv
<1>10. ASSUME NEW a \in Savers, ReadPath(a) PROVE FrontInv'
  BY <1>10 DEF ReadPath, FrontInv
<1>11. ASSUME NEW a \in Savers, CopyLog(a) PROVE FrontInv'
  BY <1>11 DEF CopyLog, FrontInv
<1>12. ASSUME NEW a \in Savers, ReplaceFile(a) PROVE FrontInv'
  BY <1>12 DEF ReplaceFile, FrontInv
<1>13. ASSUME NEW a \in Savers, ReadBack(a) PROVE FrontInv'
  BY <1>13 DEF ReadBack, FrontInv
<1>14. ASSUME NEW a \in Savers, Sign(a) PROVE FrontInv'
  BY <1>14 DEF Sign, FrontInv
<1>15. ASSUME NEW op \in {"new", "branch", "switch", "resume"}, StartRotation(op) PROVE FrontInv'
  BY <1>15 DEF StartRotation, FrontInv, NoFront
<1>16. ASSUME StartClear PROVE FrontInv'
  BY <1>16, <1>g DEF StartClear, FrontInv
<1>17. ASSUME RemoveArtifacts PROVE FrontInv'
  BY <1>17 DEF RemoveArtifacts, FrontInv, NoFront
<1>18. ASSUME Rotate PROVE FrontInv'
  BY <1>18 DEF Rotate, FrontInv, NoFront
<1>19. ASSUME BranchCopy PROVE FrontInv'
  <2>1. minted' # NoPath
    <3>1. minted < MaxPaths /\ minted' = minted + 1
      BY <1>19 DEF BranchCopy
    <3>2. QED
      BY <3>1, <1>d, <1>g
  <2>2. front' = [op |-> front.op, at |-> "loaded", to |-> minted', log |-> log]
    BY <1>g, <1>19 DEF BranchCopy
  <2>3. front.op = "branch"
    BY <1>19 DEF BranchCopy
  <2>4. QED
    BY <2>1, <2>2, <2>3 DEF FrontInv, NoFront
<1>20. ASSUME NEW p \in Paths, Load(p) PROVE FrontInv'
  BY <1>20, <1>d, <1>g DEF Load, FrontInv, NoFront
<1>21. ASSUME LoadNothing PROVE FrontInv'
  BY <1>21 DEF LoadNothing, FrontInv, NoFront
<1>22. ASSUME SetSession PROVE FrontInv'
  BY <1>22 DEF SetSession, FrontInv, NoFront
<1>23. ASSUME SetPath PROVE FrontInv'
  BY <1>23 DEF SetPath, FrontInv, NoFront
<1>24. ASSUME Crash PROVE FrontInv'
  BY <1>24 DEF Crash, FrontInv, NoFront
<1>25. ASSUME UNCHANGED vars PROVE FrontInv'
  BY <1>25 DEF vars, memory, FrontInv
<1>26. ASSUME StartRewind PROVE FrontInv'
  BY <1>26 DEF StartRewind, FrontInv, NoFront
<1>27. ASSUME CutLog PROVE FrontInv'
  BY <1>27, <1>g DEF CutLog, FrontInv, NoFront
<1>28. ASSUME EndRewind PROVE FrontInv'
  BY <1>28 DEF EndRewind, FrontInv, NoFront
<1>29. QED
  BY <1>1, <1>2, <1>3, <1>4, <1>5, <1>6, <1>7, <1>8, <1>9, <1>10, <1>11, <1>12, <1>13, <1>14, <1>15,
     <1>16, <1>17, <1>18, <1>19, <1>20, <1>21, <1>22, <1>23, <1>24, <1>25, <1>26, <1>27, <1>28 DEF Next

-----------------------------------------------------------------------------
(* Conversations are kept apart.                                           *)

\* No call of a frontend met a turn, a fold or a save on its way.
Untorn == "torn" \notin mishaps

\* While the frontend's call is on its way nothing else is.
Quiet ==
    front # NoFront =>
       /\ turn.at = "idle"
       /\ \A a \in Folders : fold[a] = NoFold
       /\ \A a \in Savers : a # "front" => save[a] = NoSave

\* If one did, it is among the mishaps.
SeenTorn == Untorn => Quiet

\* Torn is the opposite of Quiet.
LEMMA QuietIs == Quiet <=> ~Torn
BY DEF Quiet, Torn, Running

\* While nothing is torn it is quiet, before a step and after it.
LEMMA QuietStep ==
    ASSUME SeenTorn, [Next]_vars, Untorn'
    PROVE  Untorn /\ Quiet /\ Quiet'
<1>1. Untorn /\ Quiet
  BY MishapsGrow DEF Untorn, SeenTorn
<1>2. ASSUME Record PROVE Quiet'
  <2> DEFINE A == (IF Torn' THEN {"torn"} ELSE {})
             O == (IF Overlap' THEN {"overlap"} ELSE {})
             S == (IF Skipped THEN {"skipped"} ELSE {})
             R == (IF Raced THEN {"raced"} ELSE {})
             U == (IF Unanswered THEN {"outage"} ELSE {})
  <2>1. mishaps' = mishaps \cup A \cup O \cup S \cup R \cup U
    BY <1>2 DEF Record
  <2>2. Torn' => "torn" \in A
    OBVIOUS
  <2> HIDE DEF A, O, S, R, U
  <2>3. ~Torn'
    BY <2>1, <2>2 DEF Untorn
  <2>4. QED
    BY <2>3, QuietIs, PTL
<1>3. ASSUME Crash PROVE Quiet'
  BY <1>3 DEF Crash, Quiet
<1>4. ASSUME UNCHANGED vars PROVE Quiet'
  BY <1>1, <1>4 DEF vars, memory, Quiet
<1>5. \/ Record \/ Crash \/ UNCHANGED vars
  BY DEF Next, StartTurn, OpenTurn, AddMessage, EndLoop, FinishTurn, AutosaveTick, AutosaveExit,
     PlanFold, PutFold,
         ReadPath, CopyLog, ReplaceFile, ReadBack, Sign, StartRotation, StartClear, RemoveArtifacts,
         Rotate, BranchCopy, Load, LoadNothing, SetSession, SetPath, StartRewind, CutLog, EndRewind
<1>6. QED
  BY <1>1, <1>2, <1>3, <1>4, <1>5

\* Log, path and saves belong to one conversation.
OnPath ==
    /\ front.at # "set" => path = conv
    /\ front.at = "set" => conv = front.to
    /\ front.at = "remove" => front.to = path
    /\ turn.at \in {"loop", "ending"} => path # NoPath
    /\ \A a \in Savers : save[a].at \notin {"none", "asked"} =>
          save[a].path = IF front.at = "loaded" THEN front.to ELSE conv
    /\ \A a \in Folders : fold[a] # NoFold => conv # NoPath
    /\ front.op = "branch" => log # <<>> /\ conv # NoPath
    /\ front.at = "loaded" => save["front"].at \notin {"asked", "path"}
    /\ front.at = "loaded" /\ front.op = "branch" => front.log # <<>>

\* A branch whose copy is not on disk yet.
Pending == front.at = "loaded" /\ front.op = "branch" /\ save["front"].at = "copied"

\* What each file, fold and save holds is of the conversation it is for.
Apart ==
    /\ \A p \in Paths : Held(file[p]) \subseteq own[p]
    /\ conv = NoPath => log = <<>>
    /\ conv # NoPath => Held(log) \subseteq own[conv]
    /\ \A a \in Folders : fold[a] # NoFold => Held(fold[a].to) \subseteq own[conv]
    /\ \A a \in Savers : Writing(a) => Pending \/ Held(save[a].content) \subseteq own[save[a].path]
    /\ Pending => /\ save["front"].content = front.log /\ front.to # conv
                  /\ own[front.to] = {} /\ file[front.to] = NoFile
    /\ front.at = "loaded" /\ front.op = "branch" /\ ~Pending =>
          own[front.to] = Held(front.log) /\ file[front.to] = front.log
    /\ front.at = "loaded" /\ front.op # "branch" => file[front.to] = front.log /\ save["front"] = NoSave

\* A file that ClearSession removed is gone, and no call goes back to it.
Removed ==
    \A p \in cleared :
       /\ file[p] = NoFile
       /\ conv = p => front.at = "rotate"
       /\ front.at = "loaded" => p # front.to

\* The path that is made next is nobody's.
LEMMA NextPath ==
    ASSUME PlaceTyped, MintInv, minted < MaxPaths
    PROVE  /\ minted + 1 \in Paths /\ own[minted + 1] = {} /\ file[minted + 1] = NoFile
           /\ minted + 1 \notin cleared /\ minted + 1 # conv
<1>1. minted + 1 \in Paths /\ minted \in Nat
  BY PathFacts, PathNumbers DEF PlaceTyped
<1>2. minted + 1 > minted
  BY <1>1
<1>3. conv \in Nat /\ conv <= minted
  BY PathNumber DEF PlaceTyped, MintInv
<1>4. QED
  BY <1>1, <1>2, <1>3 DEF MintInv

\* Every step leaves log, path and saves on one conversation.
LEMMA OnPathStep ==
    ASSUME TypeOK, Numbered, Types, SaveInv, MintInv, FrontInv, Quiet, Quiet', OnPath, Apart, [Next]_vars
    PROVE  OnPath'
<1>t. DataTyped /\ PlaceTyped /\ TurnTyped /\ BoundTyped /\ SaveType
  BY TypeParts DEF Types
<1>d. /\ save \in [Savers -> SaveTypes] /\ fold \in [Folders -> [of : Logs, to : Logs]]
      /\ path \in Paths \cup {NoPath} /\ conv \in Paths \cup {NoPath} /\ minted \in 0..MaxPaths
      /\ turn \in [at : {"idle", "admitted", "loop", "ending"}, n : 0..MaxTurns,
                   start : Nat, said : 0..(MaxReplies + 1)]
  BY <1>t DEF DataTyped, PlaceTyped, TurnTyped
<1>g. /\ front.to \in Paths \cup {NoPath} /\ front.log \in Logs
      /\ front = [op |-> front.op, at |-> front.at, to |-> front.to, log |-> front.log]
      /\ front.op \in {"none", "new", "clear", "branch", "switch", "resume", "rewind"}
      /\ front.at \in {"none", "snapshot", "remove", "rotate", "loaded", "set", "cut", "saving"}
  BY <1>t, FrontIs
<1>a. /\ Quiet /\ Quiet' /\ OnPath /\ FrontInv
      /\ conv = NoPath => log = <<>>
      /\ front.at \notin {"snapshot", "loaded", "saving"} => save["front"] = NoSave
      /\ fold["compact"] # NoFold => save["compact"] = NoSave
      /\ \A a \in Savers : save[a].at \notin {"none", "asked"} => save[a].path # NoPath
  BY <1>t, PathFacts DEF Apart, SaveInv, SaveType
<1>n. /\ minted \in 0..MaxPaths /\ (minted < MaxPaths => minted + 1 # NoPath)
  BY <1>t, PathNumbers DEF PlaceTyped
<1>1. ASSUME StartTurn PROVE OnPath'
  BY <1>1 DEF StartTurn, OnPath
<1>2. ASSUME OpenTurn PROVE OnPath'
  BY <1>2, <1>a, <1>n, SaveValues DEF OpenTurn, OnPath, Quiet
<1>3. ASSUME AddMessage PROVE OnPath'
  BY <1>3 DEF AddMessage, OnPath
<1>4. ASSUME EndLoop PROVE OnPath'
  BY <1>4, SaveValues DEF EndLoop, OnPath
<1>5. ASSUME FinishTurn PROVE OnPath'
  BY <1>5 DEF FinishTurn, OnPath
<1>6. ASSUME AutosaveTick PROVE OnPath'
  BY <1>6, SaveValues DEF AutosaveTick, OnPath
<1>7. ASSUME AutosaveExit PROVE OnPath'
  BY <1>7 DEF AutosaveExit, OnPath
<1>8. ASSUME NEW a \in Folders, PlanFold(a) PROVE OnPath'
  <2>1. log # <<>>
    <3>1. PICK start \in TailStarts(log) : TRUE
      BY <1>8 DEF PlanFold
    <3>2. log \in Seq(Items)
      BY <1>t DEF DataTyped, Logs
    <3>3. start \in DOMAIN log
      BY <3>1, <3>2, PartsAre
    <3>4. QED
      BY <3>3
  <2>2. UNCHANGED <<log, path, turn, save, front, conv>> /\ conv # NoPath
    BY <2>1, <1>a, <1>8 DEF PlanFold
  <2>3. QED
    BY <2>2, <1>a DEF OnPath
<1>9. ASSUME NEW a \in Folders, PutFold(a) PROVE OnPath'
  BY <1>9, SaveValues DEF PutFold, OnPath, Quiet
<1>10. ASSUME NEW a \in Savers, ReadPath(a) PROVE OnPath'
  BY <1>10, <1>a, SaveValues DEF ReadPath, OnPath, Quiet
<1>11. ASSUME NEW a \in Savers, CopyLog(a) PROVE OnPath'
  BY <1>11, SaveValues DEF CopyLog, OnPath
<1>12. ASSUME NEW a \in Savers, ReplaceFile(a) PROVE OnPath'
  BY <1>12, SaveValues DEF ReplaceFile, OnPath
<1>13. ASSUME NEW a \in Savers, ReadBack(a) PROVE OnPath'
  BY <1>13, SaveValues DEF ReadBack, OnPath
<1>14. ASSUME NEW a \in Savers, Sign(a) PROVE OnPath'
  BY <1>14, SaveValues DEF Sign, OnPath
<1>15. ASSUME NEW op \in {"new", "branch", "switch", "resume"}, StartRotation(op) PROVE OnPath'
  BY <1>15, <1>a, SaveValues DEF StartRotation, OnPath
<1>16. ASSUME StartClear PROVE OnPath'
  BY <1>16, SaveValues DEF StartClear, OnPath
<1>17. ASSUME RemoveArtifacts PROVE OnPath'
  BY <1>17 DEF RemoveArtifacts, OnPath
<1>18. ASSUME Rotate PROVE OnPath'
  BY <1>18, <1>a, SaveValues DEF Rotate, OnPath, Quiet
<1>19. ASSUME BranchCopy PROVE OnPath'
  BY <1>19, SaveValues DEF BranchCopy, OnPath, Quiet
<1>20. ASSUME NEW p \in Paths, Load(p) PROVE OnPath'
  BY <1>20, SaveValues DEF Load, OnPath, Quiet
<1>21. ASSUME LoadNothing PROVE OnPath'
  BY <1>21, SaveValues DEF LoadNothing, OnPath
<1>22. ASSUME SetSession PROVE OnPath'
  BY <1>22 DEF SetSession, OnPath, FrontInv
<1>23. ASSUME SetPath PROVE OnPath'
  BY <1>23, SaveValues DEF SetPath, OnPath, Quiet
<1>24. ASSUME Crash PROVE OnPath'
  <2>1. \A a \in Folders : fold'[a] = NoFold
    BY <1>24 DEF Crash
  <2>2. \A a \in Savers : save'[a].at = "none"
    BY <1>24, SaveValues DEF Crash
  <2>3. front' = NoFront /\ path' = NoPath /\ conv' = NoPath /\ turn'.at = "idle"
    BY <1>24 DEF Crash, NoTurn
  <2>4. QED
    BY <2>1, <2>2, <2>3, SaveValues DEF OnPath
<1>25. ASSUME UNCHANGED vars PROVE OnPath'
  BY <1>25 DEF vars, memory, OnPath
<1>26. ASSUME StartRewind PROVE OnPath'
  BY <1>26, <1>a, SaveValues DEF StartRewind, OnPath
<1>27. ASSUME CutLog PROVE OnPath'
  <2>1. /\ UNCHANGED <<path, turn, fold, conv>> /\ save' = [save EXCEPT !["front"] = Asked]
        /\ front'.at = "saving" /\ front'.op = "rewind" /\ front.at = "cut"
    BY <1>27, <1>g, <1>a DEF CutLog, FrontInv
  <2>2. QED
    BY <2>1, <1>a, <1>d, SaveValues DEF OnPath
<1>28. ASSUME EndRewind PROVE OnPath'
  BY <1>28, <1>a, SaveValues DEF EndRewind, OnPath
<1>29. QED
  BY <1>1, <1>2, <1>3, <1>4, <1>5, <1>6, <1>7, <1>8, <1>9, <1>10, <1>11, <1>12, <1>13, <1>14, <1>15,
     <1>16, <1>17, <1>18, <1>19, <1>20, <1>21, <1>22, <1>23, <1>24, <1>25, <1>26, <1>27, <1>28 DEF Next

\* A log with a message added holds it too.
LEMMA HeldAppend ==
    ASSUME NEW s \in Logs, NEW m \in Messages
    PROVE  Held(Append(s, Message(m))) = Held(s) \cup {m}
<1>1. s \in Seq(Items) /\ Message(m) \in Items
  BY MessageTyped DEF Logs
<1>2. Append(s, Message(m)) = s \o <<Message(m)>> /\ <<Message(m)>> \in Seq(Items)
  BY <1>1
<1>3. Held(Append(s, Message(m))) = Held(s) \cup Held(<<Message(m)>>)
  <2>1. \A x, y \in Seq(Items) : Held(x \o y) = Held(x) \cup Held(y)
    BY HeldJoins, Zenon
  <2>2. Held(s \o <<Message(m)>>) = Held(s) \cup Held(<<Message(m)>>)
    BY <1>1, <1>2, <2>1, Zenon
  <2>3. QED
    BY <1>2, <2>2, Zenon
<1>4. \A x : x \in Held(<<Message(m)>>) <=> x = m
  <2>1. DOMAIN <<Message(m)>> = {1} /\ <<Message(m)>>[1].of = {m}
    BY DEF Message
  <2>2. QED
    BY <2>1, HeldMembers
<1>5. QED
  BY <1>3, <1>4

\* The empty log holds nothing.
LEMMA HeldEmpty == Held(<<>>) = {} /\ NoFile = <<>>
BY DEF Held, NoFile

\* Every step leaves the conversations apart.
LEMMA ApartStep ==
    ASSUME TypeOK, Numbered, Types, SaveInv, MintInv, FrontInv, Quiet, Quiet', OnPath, Apart, [Next]_vars
    PROVE  Apart'
<1>t. DataTyped /\ PlaceTyped /\ TurnTyped /\ BoundTyped /\ SaveType
  BY TypeParts DEF Types
<1>d. /\ save \in [Savers -> SaveTypes] /\ fold \in [Folders -> [of : Logs, to : Logs]]
      /\ path \in Paths \cup {NoPath} /\ conv \in Paths \cup {NoPath} /\ minted \in 0..MaxPaths
      /\ file \in [Paths -> Logs] /\ own \in [Paths -> SUBSET Messages] /\ log \in Logs
      /\ NoPath \notin Paths
  BY <1>t, PathFacts DEF DataTyped, PlaceTyped
<1>g. /\ front.to \in Paths \cup {NoPath} /\ front.log \in Logs
      /\ front = [op |-> front.op, at |-> front.at, to |-> front.to, log |-> front.log]
      /\ front.op \in {"none", "new", "clear", "branch", "switch", "resume", "rewind"}
      /\ front.at \in {"none", "snapshot", "remove", "rotate", "loaded", "set", "cut", "saving"}
  BY <1>t, FrontIs
<1>a. /\ Quiet /\ Quiet' /\ OnPath /\ FrontInv /\ Apart
      /\ front.at \notin {"snapshot", "loaded", "saving"} => save["front"] = NoSave
      /\ \A a \in Savers : save[a].at \notin {"none", "asked"} => save[a].path \in Paths
      /\ Held(<<>>) = {} /\ NoFile = <<>>
  BY <1>t, HeldEmpty DEF SaveInv, SaveType
<1>n. minted < MaxPaths =>
         /\ minted + 1 \in Paths /\ own[minted + 1] = {} /\ file[minted + 1] = NoFile
         /\ minted + 1 \notin cleared /\ minted + 1 # conv
  BY <1>t, NextPath
<1>1. ASSUME StartTurn PROVE Apart'
  BY <1>1 DEF StartTurn, Apart, Pending, Writing, disk, history
<1>2. ASSUME OpenTurn PROVE Apart'
  BY <1>2, <1>a DEF OpenTurn, Apart, OnPath, Pending, Writing, disk, history
<1>3. ASSUME AddMessage PROVE Apart'
  <2> DEFINE m == <<turn.n, turn.said>>
  <2>1. m \in Messages
    BY <1>3, <1>t, SaidIsMessage
  <2>2. log' = Append(log, Message(m)) /\ own' = [own EXCEPT ![conv] = own[conv] \cup {m}]
    BY <1>3 DEF AddMessage
  <2>3. /\ front = NoFront /\ conv \in Paths
        /\ UNCHANGED <<path, fold, save, front, conv, file>>
    BY <1>d, <1>3, SaveValues DEF AddMessage, OnPath, Quiet, disk
  <2> HIDE DEF m
  <2>4. Held(log') = Held(log) \cup {m}
    BY <2>1, <2>2, <1>d, HeldAppend
  <2>5. \A p \in Paths : own[p] \subseteq own'[p]
    BY <2>2, <1>d
  <2>6. m \in own'[conv]
    BY <2>2, <2>3, <1>d
  <2>7. Held(log') \subseteq own'[conv']
    BY <2>3, <2>4, <2>5, <2>6, <1>d DEF Apart
  <2>8. ~Pending /\ ~Pending'
    BY <2>3, SaveValues DEF Pending
  <2>9. \A a \in Folders : fold'[a] # NoFold => Held(fold'[a].to) \subseteq own'[conv']
    BY <2>3, <2>5, <1>a DEF Apart
  <2>10. \A a \in Savers : Writing(a)' => Held(save'[a].content) \subseteq own'[save'[a].path]
    BY <2>3, <2>5, <2>8, <1>a DEF Apart, Writing
  <2>11. QED
    BY <2>3, <2>5, <2>7, <2>8, <2>10, <1>d, SaveValues DEF Apart
<1>4. ASSUME EndLoop PROVE Apart'
  BY <1>4, <1>d, <1>a, SaveValues DEF EndLoop, Apart, Pending, Writing, disk, history
<1>5. ASSUME FinishTurn PROVE Apart'
  BY <1>5 DEF FinishTurn, Apart, Pending, Writing, disk
<1>6. ASSUME AutosaveTick PROVE Apart'
  BY <1>6, <1>d, <1>a, SaveValues DEF AutosaveTick, Apart, Pending, Writing, disk, history
<1>7. ASSUME AutosaveExit PROVE Apart'
  BY <1>7 DEF AutosaveExit, Apart, Pending, Writing, disk, history
<1>8. ASSUME NEW a \in Folders, PlanFold(a) PROVE Apart'
  <2>1. PICK start \in TailStarts(log), answered \in BOOLEAN :
               fold' = [fold EXCEPT ![a] = [of |-> log, to |-> Compacted(log, start, answered)]]
    BY <1>8 DEF PlanFold
  <2> DEFINE c == Compacted(log, start, answered)
  <2>2. Held(c) \subseteq Held(log)
    BY <1>d, CompactedHeld DEF Logs
  <2>3. fold' = [fold EXCEPT ![a] = [of |-> log, to |-> c]]
    BY <2>1
  <2>4. log # <<>>
    <3>1. start \in DOMAIN log
      BY <1>d, PartsAre DEF Logs
    <3>2. QED
      BY <3>1
  <2> HIDE DEF c
  <2>5. UNCHANGED <<log, path, turn, save, front, conv, own, file>> /\ conv # NoPath
    BY <2>4, <1>8 DEF PlanFold, Apart, disk, history
  <2>6. Held(c) \subseteq own[conv]
    BY <2>2, <2>5, <1>a DEF Apart
  <2>7. \A b \in Folders : fold'[b] # NoFold => Held(fold'[b].to) \subseteq own'[conv']
    BY <2>3, <2>5, <2>6 DEF Apart
  <2>8. Pending' <=> Pending
    BY <2>5 DEF Pending
  <2>9. QED
    BY <2>5, <2>7, <2>8 DEF Apart, Writing
<1>9. ASSUME NEW a \in Folders, PutFold(a) PROVE Apart'
  <2>1. /\ UNCHANGED <<path, turn, front, conv, own, file>> /\ log' = fold[a].to
        /\ fold' = [fold EXCEPT ![a] = NoFold] /\ fold[a] # NoFold
        /\ save' = save \/ save' = [save EXCEPT !["compact"] = Asked]
    BY <1>9 DEF PutFold, disk, history
  <2>2. front = NoFront /\ ~Pending /\ ~Pending' /\ front.at # "loaded"
    BY <2>1, <1>a, SaveValues DEF Quiet, Pending
  <2>3. \A b \in Savers : Writing(b)' => Writing(b) /\ save'[b] = save[b]
    BY <2>1, <1>d, SaveValues DEF Writing
  <2>4. conv # NoPath /\ Held(log') \subseteq own[conv]
    BY <2>1, <1>a DEF Apart, OnPath
  <2>5. \A b \in Folders : fold'[b] # NoFold => fold'[b] = fold[b] /\ fold[b] # NoFold
    BY <2>1, <1>d
  <2>6. QED
    BY <2>1, <2>2, <2>3, <2>4, <2>5, <1>a DEF Apart
<1>10. ASSUME NEW a \in Savers, ReadPath(a) PROVE Apart'
  <2>1. /\ UNCHANGED <<log, path, turn, fold, front, conv, own, file>> /\ save[a].at = "asked"
        /\ \/ save' = [save EXCEPT ![a] = NoSave]
           \/ save' = [save EXCEPT ![a] = Saving("path", path, <<>>)]
    BY <1>10 DEF ReadPath, disk, history
  <2>2. \A b \in Savers : Writing(b)' => Writing(b) /\ save'[b] = save[b]
    BY <2>1, <1>d, SaveValues DEF Writing
  <2>3. front.at = "loaded" => save'["front"] = save["front"]
    <3>1. front.at = "loaded" => a # "front"
      BY <2>1, <1>a DEF OnPath
    <3>2. "front" \in Savers
      BY DEF Savers
    <3>3. a # "front" => save'["front"] = save["front"]
      BY <2>1, <3>2, <1>d
    <3>4. QED
      BY <3>1, <3>3
  <2>4. Pending' <=> Pending
    BY <2>1, <2>3 DEF Pending
  <2>5. \A b \in Savers : Writing(b)' => Pending' \/ Held(save'[b].content) \subseteq own'[save'[b].path]
    BY <2>1, <2>2, <2>4, <1>a DEF Apart
  <2>6. Pending => front.at = "loaded"
    BY DEF Pending
  <2>7. /\ Pending' => /\ save'["front"].content = front'.log /\ front'.to # conv'
                        /\ own'[front'.to] = {} /\ file'[front'.to] = NoFile
        /\ front'.at = "loaded" /\ front'.op = "branch" /\ ~Pending' =>
              own'[front'.to] = Held(front'.log) /\ file'[front'.to] = front'.log
        /\ front'.at = "loaded" /\ front'.op # "branch" =>
              file'[front'.to] = front'.log /\ save'["front"] = NoSave
    BY <2>1, <2>3, <2>4, <2>6 DEF Apart
  <2>8. QED
    BY <2>1, <2>5, <2>7 DEF Apart
<1>11. ASSUME NEW a \in Savers, CopyLog(a) PROVE Apart'
  <2>1. /\ UNCHANGED <<log, path, turn, fold, front, conv, own, file>> /\ save[a].at = "path"
        /\ \/ save' = [save EXCEPT ![a] = NoSave]
           \/ save' = [save EXCEPT ![a] = Saving("copied", save[a].path, log)]
    BY <1>11 DEF CopyLog, disk, history
  <2>2. \A b \in Savers \ {a} : save'[b] = save[b]
    BY <2>1, <1>d
  <2>3. front.at # "loaded"
    <3>1. front.at = "loaded" => a # "front" /\ front # NoFront
      BY <2>1, <1>a, SaveValues DEF OnPath
    <3>2. a # "front" /\ front # NoFront => save[a] = NoSave
      BY <1>a DEF Quiet
    <3>3. QED
      BY <2>1, <3>1, <3>2, SaveValues
  <2>4. save[a].path = conv /\ conv # NoPath
    BY <2>1, <2>3, <1>a, <1>d DEF OnPath
  <2>5. Writing(a)' => Held(save'[a].content) \subseteq own'[save'[a].path]
    BY <2>1, <2>4, <1>d, <1>a, SaveValues DEF Apart, Writing
  <2>6. ~Pending /\ ~Pending'
    BY <2>1, <2>3 DEF Pending
  <2>7. \A b \in Savers : Writing(b)' => Held(save'[b].content) \subseteq own'[save'[b].path]
    BY <2>1, <2>2, <2>5, <2>6, <1>a DEF Apart, Writing
  <2>8. QED
    BY <2>1, <2>3, <2>6, <2>7, <1>a DEF Apart
<1>12. ASSUME NEW a \in Savers, ReplaceFile(a) PROVE Apart'
  BY <1>12, <1>d, <1>a, SaveValues DEF ReplaceFile, Apart, OnPath, Quiet, FrontInv, Pending, Writing
<1>13. ASSUME NEW a \in Savers, ReadBack(a) PROVE Apart'
  <2>0. save[a].path \in Paths /\ ~Pending
    BY <1>a, SaveValues, <1>13 DEF ReadBack, Pending, Quiet
  <2>1. UNCHANGED <<log, path, turn, front, conv, own, file, fold>>
    BY <1>13 DEF ReadBack, disk, history
  <2>2. \/ save' = [save EXCEPT ![a] = NoSave]
        \/ save' = [save EXCEPT ![a] = Saving("read", save[a].path, file[save[a].path])]
    BY <1>13 DEF ReadBack
  <2>3. ~Pending'
    BY <2>0, <2>1, <2>2, <1>d, SaveValues, SaversTyped DEF Pending
  <2>4. front.at = "loaded" => front.op = "branch"
    BY <1>13, SaveValues DEF Apart, ReadBack, Quiet
  <2>5. \A b \in Savers : Writing(b)' => Held(save'[b].content) \subseteq own'[save'[b].path]
    BY <2>0, <2>1, <2>2, <1>d, <1>a, SaveValues DEF Apart, Writing
  <2>6. QED
    BY <2>0, <2>1, <2>3, <2>4, <2>5 DEF Apart
<1>14. ASSUME NEW a \in Savers, Sign(a) PROVE Apart'
  BY <1>14, <1>d, <1>a, SaveValues DEF Sign, Apart, Pending, Writing, history
<1>15. ASSUME NEW op \in {"new", "branch", "switch", "resume"}, StartRotation(op) PROVE Apart'
  BY <1>15, <1>d, <1>a, SaveValues DEF StartRotation, Apart, Pending, Writing, disk, history
<1>16. ASSUME StartClear PROVE Apart'
  BY <1>16, <1>g, SaveValues DEF StartClear, Apart, Pending, Writing, disk, history
<1>17. ASSUME RemoveArtifacts PROVE Apart'
  BY <1>17, <1>d, <1>a, SaveValues DEF RemoveArtifacts, Apart, Quiet, Pending
<1>18. ASSUME Rotate PROVE Apart'
  BY <1>18, <1>a, SaveValues DEF Rotate, Apart, Quiet, Pending, disk, history
<1>19. ASSUME BranchCopy PROVE Apart'
  BY <1>19, <1>d, <1>n, SaveValues, SaversTyped DEF BranchCopy, Apart, Pending, disk, history
<1>20. ASSUME NEW p \in Paths, Load(p) PROVE Apart'
  BY <1>20, <1>a, SaveValues DEF Load, Apart, Quiet, Pending, disk, history
<1>21. ASSUME LoadNothing PROVE Apart'
  BY <1>21, <1>a, SaveValues DEF LoadNothing, Apart, Quiet, Pending, disk, history
<1>22. ASSUME SetSession PROVE Apart'
  BY <1>22, <1>g, <1>a, SaveValues DEF SetSession, Apart, Quiet, FrontInv, Pending, disk, history
<1>23. ASSUME SetPath PROVE Apart'
  BY <1>23, <1>a, SaveValues DEF SetPath, Apart, Quiet, Pending, disk, history
<1>24. ASSUME Crash PROVE Apart'
  BY <1>24, <1>a, SaveValues DEF Crash, Apart, Pending, disk, history
<1>25. ASSUME UNCHANGED vars PROVE Apart'
  BY <1>25 DEF vars, memory, disk, history, Apart, Pending, Writing, disk, history
<1>26. ASSUME StartRewind PROVE Apart'
  BY <1>26, <1>a, SaveValues DEF StartRewind, Apart, Pending, Writing, disk, history
<1>27. ASSUME CutLog PROVE Apart'
  <2>1. /\ UNCHANGED <<path, turn, fold, conv, file, own>> /\ save' = [save EXCEPT !["front"] = Asked]
        /\ front'.at = "saving" /\ front.at = "cut"
    BY <1>27, <1>g DEF CutLog, disk
  <2>2. Held(log') \subseteq Held(log) /\ (log = <<>> => log' = <<>>)
    BY <1>27, <1>d, CutHeld DEF CutLog, Boundaries
  <2>3. \A b \in Savers : Writing(b)' => Writing(b) /\ save'[b] = save[b]
    BY <2>1, <1>d, SaveValues DEF Writing
  <2>4. ~Pending /\ ~Pending'
    BY <2>1 DEF Pending
  <2>5. QED
    BY <2>1, <2>2, <2>3, <2>4, <1>a DEF Apart
<1>28. ASSUME EndRewind PROVE Apart'
  BY <1>28, <1>a, SaveValues DEF EndRewind, Apart, Pending, Writing, disk, history
<1>29. QED
  BY <1>1, <1>2, <1>3, <1>4, <1>5, <1>6, <1>7, <1>8, <1>9, <1>10, <1>11, <1>12, <1>13, <1>14, <1>15,
     <1>16, <1>17, <1>18, <1>19, <1>20, <1>21, <1>22, <1>23, <1>24, <1>25, <1>26, <1>27, <1>28 DEF Next

\* Every step leaves removed files removed.
LEMMA RemovedStep ==
    ASSUME TypeOK, Numbered, Types, SaveInv, MintInv, FrontInv, Quiet, Quiet', OnPath, Removed, [Next]_vars
    PROVE  Removed'
<1>t. DataTyped /\ PlaceTyped /\ TurnTyped /\ BoundTyped /\ SaveType
  BY TypeParts DEF Types
<1>d. /\ save \in [Savers -> SaveTypes]
      /\ path \in Paths \cup {NoPath} /\ conv \in Paths \cup {NoPath} /\ minted \in 0..MaxPaths
      /\ file \in [Paths -> Logs] /\ cleared \subseteq Paths
      /\ NoPath \notin Paths
  BY <1>t, PathFacts DEF DataTyped, PlaceTyped
<1>g. /\ front.to \in Paths \cup {NoPath} /\ front.log \in Logs
      /\ front = [op |-> front.op, at |-> front.at, to |-> front.to, log |-> front.log]
      /\ front.op \in {"none", "new", "clear", "branch", "switch", "resume", "rewind"}
      /\ front.at \in {"none", "snapshot", "remove", "rotate", "loaded", "set", "cut", "saving"}
  BY <1>t, FrontIs
<1>a. /\ Quiet /\ Quiet' /\ OnPath /\ FrontInv /\ Removed
      /\ front.at \notin {"snapshot", "loaded", "saving"} => save["front"] = NoSave
      /\ \A a \in Savers : save[a].at \notin {"none", "asked"} => save[a].path \in Paths
  BY <1>t DEF SaveInv, SaveType
<1>n. minted < MaxPaths =>
         /\ minted + 1 \in Paths /\ own[minted + 1] = {} /\ file[minted + 1] = NoFile
         /\ minted + 1 \notin cleared /\ minted + 1 # conv
  BY <1>t, NextPath
<1>1. ASSUME StartTurn PROVE Removed'
  BY <1>1 DEF StartTurn, Removed, disk, history
<1>2. ASSUME OpenTurn PROVE Removed'
  BY <1>2, <1>n DEF OpenTurn, Removed, disk, history
<1>3. ASSUME AddMessage PROVE Removed'
  BY <1>3 DEF AddMessage, Removed, disk
<1>4. ASSUME EndLoop PROVE Removed'
  BY <1>4 DEF EndLoop, Removed, disk, history
<1>5. ASSUME FinishTurn PROVE Removed'
  BY <1>5 DEF FinishTurn, Removed, disk
<1>6. ASSUME AutosaveTick PROVE Removed'
  BY <1>6 DEF AutosaveTick, Removed, disk, history
<1>7. ASSUME AutosaveExit PROVE Removed'
  BY <1>7 DEF AutosaveExit, Removed, disk, history
<1>8. ASSUME NEW a \in Folders, PlanFold(a) PROVE Removed'
  BY <1>8 DEF PlanFold, Removed, disk, history
<1>9. ASSUME NEW a \in Folders, PutFold(a) PROVE Removed'
  BY <1>9 DEF PutFold, Removed, disk, history
<1>10. ASSUME NEW a \in Savers, ReadPath(a) PROVE Removed'
  BY <1>10 DEF ReadPath, Removed, disk, history
<1>11. ASSUME NEW a \in Savers, CopyLog(a) PROVE Removed'
  BY <1>11 DEF CopyLog, Removed, disk, history
<1>12. ASSUME NEW a \in Savers, ReplaceFile(a) PROVE Removed'
  BY <1>12, <1>a, SaveValues DEF ReplaceFile, Removed, OnPath, Quiet
<1>13. ASSUME NEW a \in Savers, ReadBack(a) PROVE Removed'
  BY <1>13 DEF ReadBack, Removed, disk, history
<1>14. ASSUME NEW a \in Savers, Sign(a) PROVE Removed'
  BY <1>14 DEF Sign, Removed, history
<1>15. ASSUME NEW op \in {"new", "branch", "switch", "resume"}, StartRotation(op) PROVE Removed'
  BY <1>15, SaveValues DEF StartRotation, Removed, disk, history
<1>16. ASSUME StartClear PROVE Removed'
  BY <1>16, SaveValues DEF StartClear, Removed, disk, history
<1>17. ASSUME RemoveArtifacts PROVE Removed'
  BY <1>17, <1>d, <1>g DEF RemoveArtifacts, Removed
<1>18. ASSUME Rotate PROVE Removed'
  BY <1>18, <1>n, SaveValues DEF Rotate, Removed, disk, history
<1>19. ASSUME BranchCopy PROVE Removed'
  BY <1>19, <1>n DEF BranchCopy, Removed, disk, history
<1>20. ASSUME NEW p \in Paths, Load(p) PROVE Removed'
  BY <1>20, SaveValues DEF Load, Removed, disk, history
<1>21. ASSUME LoadNothing PROVE Removed'
  BY <1>21, SaveValues DEF LoadNothing, Removed, disk, history
<1>22. ASSUME SetSession PROVE Removed'
  BY <1>22 DEF SetSession, Removed, disk, history
<1>23. ASSUME SetPath PROVE Removed'
  BY <1>23, SaveValues DEF SetPath, Removed, disk, history
<1>24. ASSUME Crash PROVE Removed'
  BY <1>24, <1>d, SaveValues DEF Crash, Removed, disk, history
<1>25. ASSUME UNCHANGED vars PROVE Removed'
  BY <1>25 DEF vars, memory, disk, history, Removed, disk, history
<1>26. ASSUME StartRewind PROVE Removed'
  BY <1>26, SaveValues DEF StartRewind, Removed, disk, history
<1>27. ASSUME CutLog PROVE Removed'
  <2>1. /\ UNCHANGED <<conv, file, cleared>> /\ front'.at = "saving" /\ front.at = "cut"
    BY <1>27, <1>g DEF CutLog, disk
  <2>2. QED
    BY <2>1 DEF Removed
<1>28. ASSUME EndRewind PROVE Removed'
  BY <1>28, SaveValues DEF EndRewind, Removed, disk, history
<1>29. QED
  BY <1>1, <1>2, <1>3, <1>4, <1>5, <1>6, <1>7, <1>8, <1>9, <1>10, <1>11, <1>12, <1>13, <1>14, <1>15,
     <1>16, <1>17, <1>18, <1>19, <1>20, <1>21, <1>22, <1>23, <1>24, <1>25, <1>26, <1>27, <1>28 DEF Next

\* Initially there is no conversation.
LEMMA PlacesInit == Init => MintInv /\ FrontInv /\ SeenTorn /\ OnPath /\ Apart /\ Removed
<1> SUFFICES ASSUME Init PROVE MintInv /\ FrontInv /\ SeenTorn /\ OnPath /\ Apart /\ Removed
  OBVIOUS
<1>1. /\ log = <<>> /\ front = NoFront /\ turn.at = "idle" /\ minted = 0 /\ path = NoPath /\ conv = NoPath
      /\ \A p \in Paths : file[p] = NoFile /\ own[p] = {}
      /\ (\A a \in Folders : fold[a] = NoFold) /\ \A a \in Savers : save[a] = NoSave
      /\ cleared = {}
  BY DEF Init, NoTurn
<1>2. MintInv
  BY <1>1, SaveValues, PathNumbers DEF MintInv
<1>3. FrontInv
  BY <1>1, SaveValues DEF FrontInv
<1>4. SeenTorn /\ OnPath /\ Removed
  BY <1>1, SaveValues DEF SeenTorn, Quiet, OnPath, Removed
<1>5. Apart
  BY <1>1, SaveValues, HeldEmpty DEF Apart, Pending
<1>6. QED
  BY <1>2, <1>3, <1>4, <1>5

\* What keeps the conversations apart.
PlacesInv == MintInv /\ FrontInv /\ SeenTorn /\ (Untorn => OnPath /\ Apart /\ Removed)

\* Every step keeps PlacesInv.
LEMMA PlacesStep ==
    ASSUME Inv, LogsInv, PlacesInv, [Next]_vars
    PROVE  PlacesInv'
<1>1. TypeOK /\ Numbered /\ Types /\ SaveInv /\ MintInv /\ FrontInv /\ SeenTorn
  BY DEF Inv, LogsInv, PlacesInv
<1>2. MintInv' /\ FrontInv'
  BY <1>1, MintStep, FrontStep
<1>3. ASSUME Untorn' PROVE Quiet' /\ OnPath' /\ Apart' /\ Removed'
  <2>1. Untorn /\ Quiet /\ Quiet'
    BY <1>1, <1>3, QuietStep
  <2>2. OnPath /\ Apart /\ Removed
    BY <2>1 DEF PlacesInv
  <2>3. QED
    BY <1>1, <2>1, <2>2, OnPathStep, ApartStep, RemovedStep
<1>4. QED
  BY <1>2, <1>3 DEF PlacesInv, SeenTorn

\* No file holds a message of another conversation, and a cleared session
\* is not written again, unless a frontend's call met work in progress:
\* Controller.NewSession, ClearSession, Branch, SwitchBranch and Resume
\* against the saves that pick up path and log one after the other.
THEOREM ConversationsApart == Spec => []FilesKeptApart
<1>1. Inv /\ LogsInv /\ [Next]_vars => LogsInv'
  BY LogsStep DEF Inv
<1>2. Inv /\ LogsInv /\ PlacesInv /\ [Next]_vars => PlacesInv'
  BY PlacesStep
<1>3. PlacesInv => FilesKeptApart
  <2> SUFFICES ASSUME PlacesInv, "torn" \notin mishaps
               PROVE  (\A p \in Paths : Held(file[p]) \subseteq own[p]) /\ \A p \in cleared : file[p] = NoFile
    BY DEF FilesKeptApart, FileIsOneConversation, ClearedStaysGone, Spared
  <2>1. Apart /\ Removed
    BY DEF PlacesInv, Untorn
  <2>2. QED
    BY <2>1 DEF Apart, Removed
<1>4. Init => PlacesInv
  BY PlacesInit DEF PlacesInv
<1>5. QED
  BY <1>1, <1>2, <1>3, <1>4, LogsInit, SavesInStep, PTL DEF Spec

-----------------------------------------------------------------------------
(* Files grow only.                                                        *)

\* What a step meets, Record notes.
LEMMA RecordTells ==
    ASSUME Record
    PROVE  /\ Overlap' => "overlap" \in mishaps'
           /\ Skipped => "skipped" \in mishaps'
           /\ Raced => "raced" \in mishaps'
           /\ Unanswered => "outage" \in mishaps'
<1> DEFINE A == (IF Torn' THEN {"torn"} ELSE {})
           O == (IF Overlap' THEN {"overlap"} ELSE {})
           S == (IF Skipped THEN {"skipped"} ELSE {})
           R == (IF Raced THEN {"raced"} ELSE {})
           U == (IF Unanswered THEN {"outage"} ELSE {})
<1>1. mishaps' = mishaps \cup A \cup O \cup S \cup R \cup U
  BY DEF Record
<1>2. /\ (Overlap' => "overlap" \in O) /\ (Skipped => "skipped" \in S)
      /\ (Raced => "raced" \in R) /\ (Unanswered => "outage" \in U)
  OBVIOUS
<1> HIDE DEF A, O, S, R, U
<1>3. QED
  BY <1>1, <1>2

\* Saves that overlap are among the mishaps.
SeenOverlap == "overlap" \notin mishaps => ~Overlap

\* Every step leaves them noted.
LEMMA OverlapStep ==
    ASSUME SeenOverlap, [Next]_vars
    PROVE  SeenOverlap'
<1> SUFFICES ASSUME "overlap" \notin mishaps' PROVE ~Overlap'
  BY DEF SeenOverlap
<1>1. ~Overlap
  BY MishapsGrow DEF SeenOverlap
<1>2. ASSUME Record PROVE ~Overlap'
  BY <1>2, RecordTells
<1>3. ASSUME Crash PROVE ~Overlap'
  BY <1>3, SaveValues DEF Crash, Overlap, Writing
<1>4. ASSUME UNCHANGED vars PROVE ~Overlap'
  BY <1>1, <1>4 DEF vars, memory, Overlap, Writing
<1>5. \/ Record \/ Crash \/ UNCHANGED vars
  BY DEF Next, StartTurn, OpenTurn, AddMessage, EndLoop, FinishTurn, AutosaveTick, AutosaveExit,
     PlanFold, PutFold,
         ReadPath, CopyLog, ReplaceFile, ReadBack, Sign, StartRotation, StartClear, RemoveArtifacts,
         Rotate, BranchCopy, Load, LoadNothing, SetSession, SetPath, StartRewind, CutLog, EndRewind
<1>6. QED
  BY <1>2, <1>3, <1>4, <1>5

\* A save is on its way to no less than its file holds, and the log to no less than
\* both, but for what a rewind took.
Growing ==
    /\ conv # NoPath => Held(file[conv]) \ rewound[conv] \subseteq Held(log)
    /\ \A a \in Folders : fold[a] # NoFold => Held(fold[a].to) = Held(fold[a].of)
    /\ \A a \in Savers : save[a].at = "copied" =>
          /\ Held(file[save[a].path]) \ rewound[save[a].path] \subseteq Held(save[a].content)
          /\ save[a].path = conv => Held(save[a].content) \subseteq Held(log)

\* Nothing happened that may make a file smaller.
Steady == Spared({"torn", "overlap", "raced", "outage"})

\* What stands while nothing is torn.
Settled ==
    /\ TypeOK /\ Numbered /\ Types /\ SaveInv
    /\ MintInv /\ FrontInv /\ Quiet /\ OnPath /\ Apart /\ Removed

\* No step takes a message from a file that is not being cleared, but for what a
\* rewind took from that conversation.
LEMMA FilesGrow ==
    ASSUME Settled, Growing, ~Overlap, [Next]_vars
    PROVE  \A p \in Paths \ cleared' : Held(file[p]) \ rewound'[p] \subseteq Held(file'[p])
<1> DEFINE Grown == \A p \in Paths \ cleared' : Held(file[p]) \ rewound'[p] \subseteq Held(file'[p])
<1> USE DEF Settled
<1>t. DataTyped /\ PlaceTyped /\ TurnTyped /\ BoundTyped /\ SaveType
  BY TypeParts DEF Types
<1>d. /\ save \in [Savers -> SaveTypes] /\ fold \in [Folders -> [of : Logs, to : Logs]]
      /\ path \in Paths \cup {NoPath} /\ conv \in Paths \cup {NoPath} /\ minted \in 0..MaxPaths
      /\ file \in [Paths -> Logs] /\ own \in [Paths -> SUBSET Messages] /\ log \in Logs /\ cleared \subseteq Paths
      /\ NoPath \notin Paths
  BY <1>t, PathFacts DEF DataTyped, PlaceTyped
<1>g. /\ front.to \in Paths \cup {NoPath} /\ front.log \in Logs
      /\ front = [op |-> front.op, at |-> front.at, to |-> front.to, log |-> front.log]
      /\ front.op \in {"none", "new", "clear", "branch", "switch", "resume", "rewind"}
      /\ front.at \in {"none", "snapshot", "remove", "rotate", "loaded", "set", "cut", "saving"}
  BY <1>t, FrontIs
<1>a. /\ Growing
      /\ \A a \in Savers : save[a].at \notin {"none", "asked"} => save[a].path \in Paths
      /\ Held(<<>>) = {} /\ NoFile = <<>>
  BY <1>t, HeldEmpty DEF SaveType
<1>1. ASSUME StartTurn PROVE Grown
  BY <1>1 DEF StartTurn, disk
<1>2. ASSUME OpenTurn PROVE Grown
  BY <1>2 DEF OpenTurn, disk
<1>3. ASSUME AddMessage PROVE Grown
  BY <1>3 DEF AddMessage, disk
<1>4. ASSUME EndLoop PROVE Grown
  BY <1>4 DEF EndLoop, disk
<1>5. ASSUME FinishTurn PROVE Grown
  BY <1>5 DEF FinishTurn, disk
<1>6. ASSUME AutosaveTick PROVE Grown
  BY <1>6 DEF AutosaveTick, disk
<1>7. ASSUME AutosaveExit PROVE Grown
  BY <1>7 DEF AutosaveExit, disk
<1>8. ASSUME NEW a \in Folders, PlanFold(a) PROVE Grown
  BY <1>8 DEF PlanFold, disk
<1>9. ASSUME NEW a \in Folders, PutFold(a) PROVE Grown
  BY <1>9 DEF PutFold, disk
<1>10. ASSUME NEW a \in Savers, ReadPath(a) PROVE Grown
  BY <1>10 DEF ReadPath, disk
<1>11. ASSUME NEW a \in Savers, CopyLog(a) PROVE Grown
  BY <1>11 DEF CopyLog, disk
<1>12. ASSUME NEW a \in Savers, ReplaceFile(a) PROVE Grown
  BY <1>12, <1>a DEF ReplaceFile, Growing
<1>13. ASSUME NEW a \in Savers, ReadBack(a) PROVE Grown
  BY <1>13 DEF ReadBack, disk
<1>14. ASSUME NEW a \in Savers, Sign(a) PROVE Grown
  BY <1>14 DEF Sign
<1>15. ASSUME NEW op \in {"new", "branch", "switch", "resume"}, StartRotation(op) PROVE Grown
  BY <1>15 DEF StartRotation, disk
<1>16. ASSUME StartClear PROVE Grown
  BY <1>16 DEF StartClear, disk
<1>17. ASSUME RemoveArtifacts PROVE Grown
  BY <1>17, <1>d DEF RemoveArtifacts
<1>18. ASSUME Rotate PROVE Grown
  BY <1>18 DEF Rotate, disk
<1>19. ASSUME BranchCopy PROVE Grown
  BY <1>19 DEF BranchCopy, disk
<1>20. ASSUME NEW q \in Paths, Load(q) PROVE Grown
  BY <1>20 DEF Load, disk
<1>21. ASSUME LoadNothing PROVE Grown
  BY <1>21 DEF LoadNothing, disk
<1>22. ASSUME SetSession PROVE Grown
  BY <1>22 DEF SetSession, disk
<1>23. ASSUME SetPath PROVE Grown
  BY <1>23 DEF SetPath, disk
<1>24. ASSUME Crash PROVE Grown
  BY <1>24 DEF Crash, disk
<1>25. ASSUME UNCHANGED vars PROVE Grown
  BY <1>25 DEF vars, disk, disk
<1>26. ASSUME StartRewind PROVE Grown
  BY <1>26 DEF StartRewind, disk
<1>27. ASSUME CutLog PROVE Grown
  BY <1>27 DEF CutLog, disk
<1>28. ASSUME EndRewind PROVE Grown
  BY <1>28 DEF EndRewind, disk
<1>29. QED
  BY <1>1, <1>2, <1>3, <1>4, <1>5, <1>6, <1>7, <1>8, <1>9, <1>10, <1>11, <1>12, <1>13, <1>14, <1>15,
     <1>16, <1>17, <1>18, <1>19, <1>20, <1>21, <1>22, <1>23, <1>24, <1>25, <1>26, <1>27, <1>28 DEF Next

\* Every step keeps Growing, if no fold puts a log over a newer one and
\* the summarizer answers.
LEMMA GrowingStep ==
    ASSUME Settled, Growing, ~Overlap, ~Overlap', Record => ~Raced, Record => ~Unanswered, [Next]_vars
    PROVE  Growing'
<1> USE DEF Settled
<1>t. DataTyped /\ PlaceTyped /\ TurnTyped /\ BoundTyped /\ SaveType
  BY TypeParts DEF Types
<1>d. /\ save \in [Savers -> SaveTypes] /\ fold \in [Folders -> [of : Logs, to : Logs]]
      /\ path \in Paths \cup {NoPath} /\ conv \in Paths \cup {NoPath} /\ minted \in 0..MaxPaths
      /\ file \in [Paths -> Logs] /\ own \in [Paths -> SUBSET Messages] /\ log \in Logs /\ cleared \subseteq Paths
      /\ NoPath \notin Paths
  BY <1>t, PathFacts DEF DataTyped, PlaceTyped
<1>g. /\ front.to \in Paths \cup {NoPath} /\ front.log \in Logs
      /\ front = [op |-> front.op, at |-> front.at, to |-> front.to, log |-> front.log]
      /\ front.op \in {"none", "new", "clear", "branch", "switch", "resume", "rewind"}
      /\ front.at \in {"none", "snapshot", "remove", "rotate", "loaded", "set", "cut", "saving"}
  BY <1>t, FrontIs
<1>a. /\ Growing /\ OnPath /\ Quiet /\ FrontInv /\ Apart
      /\ front.at \notin {"snapshot", "loaded", "saving"} => save["front"] = NoSave
      /\ \A a \in Savers : save[a].at \notin {"none", "asked"} => save[a].path \in Paths
      /\ Held(<<>>) = {} /\ NoFile = <<>>
  BY <1>t, HeldEmpty DEF SaveType, SaveInv
<1>b. \A a, b \in Savers : a # b /\ save[a].at = "copied" /\ save[b].at = "copied" => save[a].path # save[b].path
  BY DEF Overlap, Writing
<1>n. minted < MaxPaths =>
         /\ minted + 1 \in Paths /\ own[minted + 1] = {} /\ file[minted + 1] = NoFile
         /\ minted + 1 \notin cleared /\ minted + 1 # conv
  BY <1>t, NextPath
<1>1. ASSUME StartTurn PROVE Growing'
  BY <1>1 DEF StartTurn, Growing, disk, history
<1>2. ASSUME OpenTurn PROVE Growing'
  BY <1>2, <1>a, <1>n, SaveValues, SaversTyped DEF OpenTurn, Growing, OnPath, Quiet, disk, history
<1>3. ASSUME AddMessage PROVE Growing'
  <2> DEFINE m == <<turn.n, turn.said>>
  <2>1. m \in Messages
    BY <1>3, <1>t, SaidIsMessage
  <2>2. log' = Append(log, Message(m))
    BY <1>3 DEF AddMessage
  <2> HIDE DEF m
  <2>3. Held(log') = Held(log) \cup {m}
    BY <2>1, <2>2, <1>d, HeldAppend
  <2>4. UNCHANGED <<fold, save, conv, file, rewound>>
    BY <1>3 DEF AddMessage, disk
  <2>5. Held(log) \subseteq Held(log')
    BY <2>3
  <2>6. QED
    BY <2>4, <2>5, <1>a DEF Growing
<1>4. ASSUME EndLoop PROVE Growing'
  <2>1. /\ UNCHANGED <<log, fold, conv, file, rewound>>
        /\ save' = save \/ save' = [save EXCEPT !["turn"] = Asked]
    BY <1>4 DEF EndLoop, disk, history
  <2>2. \A b \in Savers : save'[b].at = "copied" => save'[b] = save[b]
    BY <2>1, <1>d, SaveValues
  <2>3. QED
    BY <2>1, <2>2, <1>a DEF Growing
<1>5. ASSUME FinishTurn PROVE Growing'
  BY <1>5 DEF FinishTurn, Growing, disk, history
<1>6. ASSUME AutosaveTick PROVE Growing'
  BY <1>6, <1>d, SaveValues DEF AutosaveTick, Growing, disk, history
<1>7. ASSUME AutosaveExit PROVE Growing'
  BY <1>7 DEF AutosaveExit, Growing, disk, history
<1>8. ASSUME NEW a \in Folders, PlanFold(a) PROVE Growing'
  <2>1. PICK start \in TailStarts(log), answered \in BOOLEAN :
             /\ fold' = [fold EXCEPT ![a] = [of |-> log, to |-> Compacted(log, start, answered)]]
             /\ count'.outages = IF answered THEN count.outages ELSE count.outages + 1
    <3>1. count \in [folds : 0..limit.folds, calls : 0..limit.calls, ticks : 0..limit.ticks,
                     outages : 0..limit.outages, crashes : 0..limit.crashes]
      BY <1>t DEF BoundTyped
    <3>2. QED
      BY <3>1, <1>8 DEF PlanFold
  <2>2. answered
    <3>1. count.outages \in Nat
      BY <1>t, LimitIs DEF BoundTyped
    <3>2. ~Unanswered
      BY <1>8 DEF PlanFold
    <3>3. QED
      BY <2>1, <3>1, <3>2 DEF Unanswered
  <2> DEFINE c == Compacted(log, start, answered)
  <2>3. Held(c) = Held(log)
    BY <2>2, <1>d, CompactedHeld DEF Logs
  <2>4. fold' = [fold EXCEPT ![a] = [of |-> log, to |-> c]]
    BY <2>1
  <2> HIDE DEF c
  <2>5. UNCHANGED <<log, save, conv, file, rewound>>
    BY <1>8 DEF PlanFold, disk, history
  <2>6. \A b \in Folders : fold'[b] # NoFold => Held(fold'[b].to) = Held(fold'[b].of)
    BY <2>3, <2>4 DEF Growing
  <2>7. QED
    BY <2>5, <2>6, <1>a DEF Growing
<1>9. ASSUME NEW a \in Folders, PutFold(a) PROVE Growing'
  <2>1. Held(log') = Held(log)
    <3>1. fold'[a] = NoFold /\ log' = fold[a].to /\ fold[a] # NoFold /\ Record
      BY <1>d, <1>9 DEF PutFold
    <3>2. log = fold[a].of
      BY <3>1 DEF Raced
    <3>3. QED
      BY <3>1, <3>2, <1>a DEF Growing
  <2>2. UNCHANGED <<conv, file, rewound>>
    BY <1>9 DEF PutFold, disk, history
  <2>3. \A b \in Savers : save'[b] = save[b] \/ save'[b].at = "asked"
    BY SaveValues, <1>9 DEF PutFold
  <2>4. \A b \in Folders : fold'[b] \in {fold[b], NoFold}
    BY <1>d, <1>9 DEF PutFold
  <2>5. QED
    BY <2>1, <2>2, <2>3, <2>4 DEF Growing
<1>10. ASSUME NEW a \in Savers, ReadPath(a) PROVE Growing'
  BY <1>10, <1>d, SaveValues, SaversTyped DEF ReadPath, Growing, disk, history
<1>11. ASSUME NEW a \in Savers, CopyLog(a) PROVE Growing'
  BY <1>11, <1>d, <1>a, SaveValues, SaversTyped DEF CopyLog, Growing, OnPath, Quiet, disk, history
<1>12. ASSUME NEW a \in Savers, ReplaceFile(a) PROVE Growing'
  BY <1>12, <1>d, <1>b, SaveValues DEF ReplaceFile, Growing, OnPath, Quiet, FrontInv
<1>13. ASSUME NEW a \in Savers, ReadBack(a) PROVE Growing'
  <2>1. /\ save'[a].at # "copied"
        /\ \A b \in Savers \ {a} : save'[b] = save[b]
        /\ UNCHANGED <<log, fold, conv, file, rewound>>
    BY <1>13, <1>d, SaveValues DEF ReadBack, disk, history
  <2>2. QED
    BY <2>1 DEF Growing
<1>14. ASSUME NEW a \in Savers, Sign(a) PROVE Growing'
  BY <1>14, <1>d, SaveValues DEF Sign, Growing, history
<1>15. ASSUME NEW op \in {"new", "branch", "switch", "resume"}, StartRotation(op) PROVE Growing'
  BY <1>15, <1>d, SaveValues DEF StartRotation, Growing, disk, history
<1>16. ASSUME StartClear PROVE Growing'
  BY <1>16 DEF StartClear, Growing, disk, history
<1>17. ASSUME RemoveArtifacts PROVE Growing'
  BY <1>17, <1>d, <1>a DEF RemoveArtifacts, Growing
<1>18. ASSUME Rotate PROVE Growing'
  BY <1>18, <1>a, <1>n DEF Rotate, Growing, OnPath, disk, history
<1>19. ASSUME BranchCopy PROVE Growing'
  BY <1>19, <1>a, <1>n, SaveValues, SaversTyped DEF BranchCopy, Growing, disk, history
<1>20. ASSUME NEW p \in Paths, Load(p) PROVE Growing'
  BY <1>20 DEF Load, Growing, disk, history
<1>21. ASSUME LoadNothing PROVE Growing'
  BY <1>21 DEF LoadNothing, Growing, disk, history
<1>22. ASSUME SetSession PROVE Growing'
  <2>1. /\ front.at = "loaded" /\ save["front"] = NoSave /\ log' = front.log /\ conv' = front.to
        /\ UNCHANGED <<fold, save, file, rewound>>
    BY <1>22 DEF SetSession, disk, history
  <2>2. file[front.to] = front.log
    BY <2>1, <1>a, SaveValues DEF Apart
  <2>3. \A b \in Savers : save[b].at # "copied"
    BY <2>1, <1>a, SaveValues DEF Quiet
  <2>4. QED
    BY <2>1, <2>2, <2>3 DEF Growing
<1>23. ASSUME SetPath PROVE Growing'
  BY <1>23 DEF SetPath, Growing, disk, history
<1>24. ASSUME Crash PROVE Growing'
  BY <1>24, SaveValues DEF Crash, Growing, history
<1>25. ASSUME UNCHANGED vars PROVE Growing'
  BY <1>25 DEF vars, memory, disk, Growing, disk, history
<1>26. ASSUME StartRewind PROVE Growing'
  BY <1>26, <1>d, SaveValues DEF StartRewind, Growing, disk, history
<1>27. ASSUME CutLog PROVE Growing'
  <2>1. /\ UNCHANGED <<fold, conv, file>> /\ save' = [save EXCEPT !["front"] = Asked] /\ front.at = "cut"
        /\ rewound' = [p \in Paths |-> IF p = conv THEN rewound[p] \cup (Held(log) \ Held(log'))
                                       ELSE rewound[p]]
    BY <1>27 DEF CutLog, disk
  <2>2. \A a \in Savers : save'[a].at # "copied"
    BY <2>1, <1>a, SaveValues DEF Quiet
  <2>3. conv # NoPath => Held(file[conv]) \ rewound'[conv] \subseteq Held(log')
    <3>1. conv # NoPath => rewound'[conv] = rewound[conv] \cup (Held(log) \ Held(log'))
      BY <2>1, <1>d
    <3>2. QED
      BY <3>1, <1>a DEF Growing
  <2>4. QED
    BY <2>1, <2>2, <2>3, <1>a DEF Growing
<1>28. ASSUME EndRewind PROVE Growing'
  BY <1>28 DEF EndRewind, Growing, disk, history
<1>29. QED
  BY <1>1, <1>2, <1>3, <1>4, <1>5, <1>6, <1>7, <1>8, <1>9, <1>10, <1>11, <1>12, <1>13, <1>14, <1>15,
     <1>16, <1>17, <1>18, <1>19, <1>20, <1>21, <1>22, <1>23, <1>24, <1>25, <1>26, <1>27, <1>28 DEF Next

-----------------------------------------------------------------------------
(* Who said what.                                                          *)

\* Who said what: no message is of a turn to come, none of the present turn is in
\* another conversation, and a turn that is over is not the present one.
Attributed ==
    /\ \A p \in Paths : \A m \in own[p] : SaidBy(m, turn)
    /\ Running => \A p \in Paths : p # conv => \A m \in own[p] : m[1] # turn.n
    /\ \A t \in ended : t <= turn.n /\ (Running => t < turn.n)

\* Every step keeps Attributed.
LEMMA AttributedStep ==
    ASSUME Settled, Quiet', OrderedLogs, Attributed, [Next]_vars
    PROVE  Attributed'
<1> USE DEF Settled
<1>t. DataTyped /\ PlaceTyped /\ TurnTyped /\ BoundTyped /\ SaveType
  BY TypeParts DEF Types
<1>d. /\ save \in [Savers -> SaveTypes] /\ fold \in [Folders -> [of : Logs, to : Logs]]
      /\ path \in Paths \cup {NoPath} /\ conv \in Paths \cup {NoPath} /\ minted \in 0..MaxPaths
      /\ file \in [Paths -> Logs] /\ own \in [Paths -> SUBSET Messages] /\ log \in Logs /\ cleared \subseteq Paths
      /\ NoPath \notin Paths
  BY <1>t, PathFacts DEF DataTyped, PlaceTyped
<1>g. /\ front.to \in Paths \cup {NoPath} /\ front.log \in Logs
      /\ front = [op |-> front.op, at |-> front.at, to |-> front.to, log |-> front.log]
      /\ front.op \in {"none", "new", "clear", "branch", "switch", "resume", "rewind"}
      /\ front.at \in {"none", "snapshot", "remove", "rotate", "loaded", "set", "cut", "saving"}
  BY <1>t, FrontIs
<1>a. /\ Attributed /\ OnPath /\ Quiet /\ Quiet' /\ FrontInv
      /\ front.at \notin {"snapshot", "loaded", "saving"} => save["front"] = NoSave
      /\ \A a \in Savers : save[a].at \notin {"none", "asked"} => save[a].path \in Paths
  BY <1>t DEF SaveType, SaveInv
<1>s. \A p \in Paths : \A m \in own[p] : SaidBy(m, turn')
  <2>1. \A p \in Paths : \A m \in own[p] : m \in Messages /\ SaidBy(m, turn)
    BY <1>d, <1>a DEF Attributed
  <2>2. QED
    BY <2>1, SaidStays
<1>u. /\ turn \in [at : {"idle", "admitted", "loop", "ending"}, n : 0..MaxTurns,
                   start : Nat, said : 0..(MaxReplies + 1)]
      /\ turn.n \in Nat /\ turn.said \in Nat /\ ended \subseteq 1..MaxTurns /\ MaxTurns \in Nat
  BY <1>t, BoundAssumption DEF TurnTyped
<1>n. minted < MaxPaths =>
         /\ minted + 1 \in Paths /\ own[minted + 1] = {} /\ file[minted + 1] = NoFile
         /\ minted + 1 \notin cleared /\ minted + 1 # conv
  BY <1>t, NextPath
<1>1. ASSUME StartTurn PROVE Attributed'
  <2>1. /\ turn.at = "idle" /\ turn' = [at |-> "admitted", n |-> turn.n + 1, start |-> 0, said |-> 0]
        /\ UNCHANGED <<own, ended, conv>>
    BY <1>1 DEF StartTurn, Running, history
  <2>2. \A p \in Paths : \A m \in own[p] : m[1] \in Nat /\ m[1] <= turn.n
    <3>1. \A p \in Paths : \A m \in own[p] : m \in Messages /\ SaidBy(m, turn)
      BY <1>d, <1>a DEF Attributed
    <3>2. \A p \in Paths : \A m \in own[p] : m[1] \in Nat
      BY <3>1, MessagesAre, BoundAssumption
    <3>3. QED
      BY <3>1, <3>2, <1>u DEF SaidBy
  <2>3. \A p \in Paths : \A m \in own[p] : m[1] # turn.n + 1
    <3>1. turn.n \in Nat
      BY <1>u
    <3>2. \A i \in Nat : i <= turn.n => i # turn.n + 1
      BY <3>1
    <3>3. QED
      BY <2>2, <3>2
  <2>4. \A t \in ended : t \in Nat /\ t < turn.n + 1
    <3>1. turn.n \in Nat /\ \A t \in ended : t \in Nat /\ t <= turn.n
      BY <1>a, <1>u DEF Attributed
    <3>2. \A i \in Nat : i <= turn.n => i < turn.n + 1
      BY <3>1
    <3>3. QED
      BY <3>1, <3>2
  <2>5. turn'.n = turn.n + 1
    BY <2>1
  <2>6. QED
    BY <1>s, <1>u, <2>1, <2>3 DEF Attributed
<1>2. ASSUME OpenTurn PROVE Attributed'
  BY <1>2, <1>d, <1>s DEF OpenTurn, Attributed, Running, history
<1>3. ASSUME AddMessage PROVE Attributed'
  <2> DEFINE m == <<turn.n, turn.said>>
  <2>1. /\ own' = [own EXCEPT ![conv] = own[conv] \cup {m}] /\ turn' = [turn EXCEPT !.said = turn.said + 1]
        /\ turn.at = "loop" /\ UNCHANGED <<ended, conv>>
    BY <1>3 DEF AddMessage
  <2>2. SaidBy(m, turn')
    BY <2>1, <1>u DEF SaidBy
  <2>3. turn'.n = turn.n /\ turn'.at = "loop"
    BY <2>1, <1>u
  <2> HIDE DEF m
  <2>4. \A p \in Paths : p # conv => own'[p] = own[p]
    BY <2>1, <1>d
  <2>5. conv \in Paths => own'[conv] = own[conv] \cup {m}
    BY <2>1, <1>d
  <2>6. \A p \in Paths : \A k \in own'[p] : SaidBy(k, turn')
    BY <2>2, <2>4, <2>5, <1>s
  <2>7. QED
    BY <2>1, <2>6 DEF Attributed, Running
<1>4. ASSUME EndLoop PROVE Attributed'
  BY <1>4, <1>s DEF EndLoop, Attributed, Running, history
<1>5. ASSUME FinishTurn PROVE Attributed'
  BY <1>5, <1>s, <1>u DEF FinishTurn, Attributed, Running, NoTurn
<1>6. ASSUME AutosaveTick PROVE Attributed'
  BY <1>6 DEF AutosaveTick, Attributed, Running, history
<1>7. ASSUME AutosaveExit PROVE Attributed'
  BY <1>7 DEF AutosaveExit, Attributed, Running, history
<1>8. ASSUME NEW a \in Folders, PlanFold(a) PROVE Attributed'
  BY <1>8 DEF PlanFold, Attributed, Running, history
<1>9. ASSUME NEW a \in Folders, PutFold(a) PROVE Attributed'
  BY <1>9 DEF PutFold, Attributed, Running, history
<1>10. ASSUME NEW a \in Savers, ReadPath(a) PROVE Attributed'
  BY <1>10 DEF ReadPath, Attributed, Running, history
<1>11. ASSUME NEW a \in Savers, CopyLog(a) PROVE Attributed'
  BY <1>11 DEF CopyLog, Attributed, Running, history
<1>12. ASSUME NEW a \in Savers, ReplaceFile(a) PROVE Attributed'
  <2>1. /\ UNCHANGED <<turn, ended, conv>>
        /\ own' = IF a = "front" /\ front.to = save[a].path
                  THEN [own EXCEPT ![front.to] = Held(save[a].content)] ELSE own
        /\ save[a].path \in Paths
    BY <1>12, <1>a DEF ReplaceFile
  <2>2. CASE own' = own
    BY <2>1, <2>2 DEF Attributed, Running
  <2>3. CASE own' # own
    <3>1. front.to \in Paths /\ own' = [own EXCEPT ![front.to] = Held(save[a].content)] /\ front # NoFront
      BY <2>1, <2>3, <1>d, SaveValues
    <3>2. turn.at = "idle"
      BY <3>1, <1>a DEF Quiet
    <3>3. \A m \in Held(save[a].content) : SaidBy(m, turn')
      BY <2>1 DEF OrderedLogs, Sound
    <3>4. \A p \in Paths : \A m \in own'[p] : SaidBy(m, turn')
      BY <3>1, <3>3, <1>s, <1>d
    <3>5. QED
      BY <2>1, <3>2, <3>4 DEF Attributed, Running
  <2>4. QED
    BY <2>2, <2>3
<1>13. ASSUME NEW a \in Savers, ReadBack(a) PROVE Attributed'
  BY <1>13 DEF ReadBack, Attributed, Running, history
<1>14. ASSUME NEW a \in Savers, Sign(a) PROVE Attributed'
  BY <1>14 DEF Sign, Attributed, Running, history
<1>15. ASSUME NEW op \in {"new", "branch", "switch", "resume"}, StartRotation(op) PROVE Attributed'
  BY <1>15 DEF StartRotation, Attributed, Running, history
<1>16. ASSUME StartClear PROVE Attributed'
  BY <1>16 DEF StartClear, Attributed, Running, history
<1>17. ASSUME RemoveArtifacts PROVE Attributed'
  BY <1>17 DEF RemoveArtifacts, Attributed, Running
<1>18. ASSUME Rotate PROVE Attributed'
  BY <1>18, SaveValues DEF Rotate, Attributed, Running, Quiet, history
<1>19. ASSUME BranchCopy PROVE Attributed'
  BY <1>19 DEF BranchCopy, Attributed, Running, history
<1>20. ASSUME NEW p \in Paths, Load(p) PROVE Attributed'
  BY <1>20 DEF Load, Attributed, Running, history
<1>21. ASSUME LoadNothing PROVE Attributed'
  BY <1>21 DEF LoadNothing, Attributed, Running, history
<1>22. ASSUME SetSession PROVE Attributed'
  BY <1>22, <1>g DEF SetSession, Attributed, Running, Quiet, history
<1>23. ASSUME SetPath PROVE Attributed'
  BY <1>23 DEF SetPath, Attributed, Running, history
<1>24. ASSUME Crash PROVE Attributed'
  BY <1>24, <1>s DEF Crash, Attributed, Running, NoTurn, history
<1>25. ASSUME UNCHANGED vars PROVE Attributed'
  BY <1>25 DEF vars, memory, history, Attributed, Running, history
<1>26. ASSUME StartRewind PROVE Attributed'
  BY <1>26 DEF StartRewind, Attributed, Running, history
<1>27. ASSUME CutLog PROVE Attributed'
  BY <1>27 DEF CutLog, Attributed, Running
<1>28. ASSUME EndRewind PROVE Attributed'
  BY <1>28 DEF EndRewind, Attributed, Running, history
<1>29. QED
  BY <1>1, <1>2, <1>3, <1>4, <1>5, <1>6, <1>7, <1>8, <1>9, <1>10, <1>11, <1>12, <1>13, <1>14, <1>15,
     <1>16, <1>17, <1>18, <1>19, <1>20, <1>21, <1>22, <1>23, <1>24, <1>25, <1>26, <1>27, <1>28 DEF Next

-----------------------------------------------------------------------------
(* What was said is kept.                                                  *)

\* What turns that are over said is on disk and in the log, what the present one
\* said is in the log and, as it ends, on its way to the disk.
Secured ==
    /\ \A p \in Paths \ cleared : \A m \in own[p] \ rewound[p] : m[1] \in ended => m \in Held(file[p])
    /\ conv # NoPath => \A m \in own[conv] \ rewound[conv] : m[1] \in ended => m \in Held(log)
    /\ conv # NoPath /\ Running => \A m \in own[conv] : m[1] = turn.n => m \in Held(log)
    /\ turn.at = "ending" /\ turn.said > 0 =>
          \A m \in own[conv] \ rewound[conv] : m[1] = turn.n =>
             /\ save["turn"].at \in {"none", "replaced", "read"} => m \in Held(file[conv])
             /\ save["turn"].at = "copied" => m \in Held(save["turn"].content)
    /\ front.at = "loaded" => \A m \in own[front.to] \ rewound[front.to] : m[1] \in ended => m \in Held(front.log)

\* Every step keeps Secured, if none of the mishaps comes with it.
LEMMA SecuredStep ==
    ASSUME Settled, Quiet', Attributed, Growing, Secured, ~Overlap,
           Record => ~Skipped, Record => ~Raced, Record => ~Unanswered, [Next]_vars
    PROVE  Secured'
<1> USE DEF Settled
<1>t. DataTyped /\ PlaceTyped /\ TurnTyped /\ BoundTyped /\ SaveType
  BY TypeParts DEF Types
<1>d. /\ save \in [Savers -> SaveTypes] /\ fold \in [Folders -> [of : Logs, to : Logs]]
      /\ path \in Paths \cup {NoPath} /\ conv \in Paths \cup {NoPath} /\ minted \in 0..MaxPaths
      /\ file \in [Paths -> Logs] /\ own \in [Paths -> SUBSET Messages] /\ log \in Logs /\ cleared \subseteq Paths
      /\ NoPath \notin Paths
  BY <1>t, PathFacts DEF DataTyped, PlaceTyped
<1>g. /\ front.to \in Paths \cup {NoPath} /\ front.log \in Logs
      /\ front = [op |-> front.op, at |-> front.at, to |-> front.to, log |-> front.log]
      /\ front.op \in {"none", "new", "clear", "branch", "switch", "resume", "rewind"}
      /\ front.at \in {"none", "snapshot", "remove", "rotate", "loaded", "set", "cut", "saving"}
  BY <1>t, FrontIs
<1>a. /\ Attributed /\ OnPath /\ Quiet /\ Quiet' /\ FrontInv /\ Secured
      /\ front.at \notin {"snapshot", "loaded", "saving"} => save["front"] = NoSave
      /\ turn.at # "ending" => save["turn"] = NoSave
      /\ \A a \in Savers : save[a].at \notin {"none", "asked"} => save[a].path \in Paths
      /\ Held(<<>>) = {} /\ NoFile = <<>>
  BY <1>t, HeldEmpty DEF SaveType, SaveInv
<1>u. /\ turn \in [at : {"idle", "admitted", "loop", "ending"}, n : 0..MaxTurns,
                   start : Nat, said : 0..(MaxReplies + 1)]
      /\ turn.n \in Nat /\ turn.said \in Nat /\ ended \subseteq 1..MaxTurns /\ MaxTurns \in Nat
  BY <1>t, BoundAssumption DEF TurnTyped
<1>f. \A p \in Paths \ cleared' : Held(file[p]) \ rewound'[p] \subseteq Held(file'[p])
  BY FilesGrow
<1>c. conv # NoPath /\ front = NoFront => conv \in Paths \ cleared
  BY <1>d, SaveValues DEF Removed
<1>n. minted < MaxPaths =>
         /\ minted + 1 \in Paths /\ own[minted + 1] = {} /\ file[minted + 1] = NoFile
         /\ minted + 1 \notin cleared /\ minted + 1 # conv
  BY <1>t, NextPath
<1>1. ASSUME StartTurn PROVE Secured'
  <2>1. /\ turn.at = "idle" /\ turn' = [at |-> "admitted", n |-> turn.n + 1, start |-> 0, said |-> 0]
        /\ UNCHANGED <<own, ended, conv, log, file, save, front, cleared, rewound>>
    BY <1>1 DEF StartTurn, Running, history, disk
  <2>2. \A p \in Paths : \A m \in own[p] : m[1] \in Nat /\ m[1] <= turn.n
    <3>1. \A p \in Paths : \A m \in own[p] : m \in Messages /\ SaidBy(m, turn)
      BY <1>d, <1>a DEF Attributed
    <3>2. \A p \in Paths : \A m \in own[p] : m[1] \in Nat
      BY <3>1, MessagesAre, BoundAssumption
    <3>3. QED
      BY <3>1, <3>2, <1>u DEF SaidBy
  <2>3. \A p \in Paths : \A m \in own[p] : m[1] # turn.n + 1
    <3>1. turn.n \in Nat
      BY <1>u
    <3>2. \A i \in Nat : i <= turn.n => i # turn.n + 1
      BY <3>1
    <3>3. QED
      BY <2>2, <3>2
  <2>4. turn'.n = turn.n + 1 /\ turn'.at = "admitted"
    BY <2>1
  <2>5. conv # NoPath => \A m \in own[conv] : m[1] # turn'.n
    BY <2>3, <2>4, <1>d
  <2>6. QED
    BY <2>1, <2>5 DEF Secured
<1>2. ASSUME OpenTurn PROVE Secured'
  BY <1>2, <1>f, <1>n DEF OpenTurn, Secured, Running, history
<1>3. ASSUME AddMessage PROVE Secured'
  <2> DEFINE m == <<turn.n, turn.said>>
  <2>1. /\ own' = [own EXCEPT ![conv] = own[conv] \cup {m}] /\ turn' = [turn EXCEPT !.said = turn.said + 1]
        /\ log' = Append(log, Message(m)) /\ turn.at = "loop"
        /\ UNCHANGED <<ended, conv, file, save, front, cleared, rewound>>
    BY <1>3 DEF AddMessage, disk
  <2>2. m \in Messages
    BY <1>3, <1>t, SaidIsMessage
  <2>3. turn'.n = turn.n /\ turn'.at = "loop" /\ m[1] = turn.n
    BY <2>1, <1>u
  <2>4. m[1] \notin ended
    BY <2>1, <1>u DEF Attributed, Running
  <2> HIDE DEF m
  <2>5. Held(log') = Held(log) \cup {m}
    BY <2>1, <2>2, <1>d, HeldAppend
  <2>6. \A p \in Paths : p # conv => own'[p] = own[p]
    BY <2>1, <1>d
  <2>7. conv \in Paths /\ front = NoFront /\ front' = NoFront
    BY <2>1, <1>d, SaveValues DEF OnPath, Quiet
  <2>8. own'[conv] = own[conv] \cup {m}
    BY <2>1, <2>7, <1>d
  <2>9. \A p \in Paths \ cleared : \A k \in own'[p] \ rewound[p] : k[1] \in ended => k \in Held(file[p])
    BY <2>4, <2>6, <2>8 DEF Secured
  <2>10. /\ \A k \in own'[conv] \ rewound[conv] : k[1] \in ended => k \in Held(log')
         /\ \A k \in own'[conv] : k[1] = turn.n => k \in Held(log')
    BY <2>1, <2>5, <2>7, <1>d DEF Secured, Running
  <2>11. QED
    BY <2>1, <2>7, <2>9, <2>10, SaveValues DEF Secured
<1>4. ASSUME EndLoop PROVE Secured'
  <2>1. /\ turn.at = "loop" /\ turn' = [turn EXCEPT !.at = "ending"]
        /\ save' = IF Len(log) > turn.start THEN [save EXCEPT !["turn"] = Asked] ELSE save
        /\ UNCHANGED <<log, front, conv, file, own, ended, cleared, rewound>> /\ Record
    BY <1>4 DEF EndLoop, disk, history
  <2>2. turn'.at = "ending" /\ turn'.n = turn.n /\ turn'.said = turn.said
    BY <2>1, <1>u
  <2>3. Len(log) \in Nat /\ turn.start \in Nat
    BY <1>d, <1>u DEF Logs
  <2>4. turn.said > 0 => save'["turn"].at = "asked"
    BY <2>1, <2>3, <1>d, SaveValues, SaversTyped DEF Skipped
  <2>5. QED
    BY <2>1, <2>4 DEF Secured, Running
<1>5. ASSUME FinishTurn PROVE Secured'
  <2>1. /\ turn.at = "ending" /\ save["turn"] = NoSave /\ turn'.at = "idle" /\ ended' = ended \cup {turn.n}
        /\ UNCHANGED <<log, front, conv, file, own, save, cleared, rewound>>
    BY <1>5 DEF FinishTurn, disk, NoTurn
  <2>2. front = NoFront /\ conv \in Paths \ cleared
    BY <2>1, <1>c, SaveValues DEF Quiet, OnPath
  <2>3. \A p \in Paths : p # conv => \A m \in own[p] : m[1] # turn.n
    BY <2>1, <1>a DEF Attributed, Running
  <2>4. \A m \in own[conv] \ rewound[conv] : m[1] = turn.n => m \in Held(file[conv]) /\ m \in Held(log)
    <3>1. SUFFICES ASSUME NEW m \in own[conv] \ rewound[conv], m[1] = turn.n PROVE m \in Held(file[conv]) /\ m \in Held(log)
      OBVIOUS
    <3>2. m \in Held(log)
      BY <2>1, <2>2, <3>1, <1>d DEF Secured, Running
    <3>3. turn.said > 0
      <4>1. m \in Messages /\ SaidBy(m, turn)
        BY <2>2, <1>d DEF Attributed
      <4>2. m[2] \in Nat
        BY <4>1, MessagesAre, BoundAssumption
      <4>3. QED
        BY <2>1, <3>1, <4>1, <4>2, <1>u DEF SaidBy
    <3>4. QED
      BY <2>1, <3>1, <3>2, <3>3, SaveValues DEF Secured
  <2>5. \A p \in Paths \ cleared : \A m \in own[p] \ rewound[p] : m[1] \in ended' => m \in Held(file[p])
    BY <2>1, <2>3, <2>4 DEF Secured
  <2>6. \A m \in own[conv] \ rewound[conv] : m[1] \in ended' => m \in Held(log)
    BY <2>1, <2>2, <2>4, <1>d DEF Secured
  <2>7. QED
    BY <2>1, <2>2, <2>5, SaveValues DEF Secured, Running
<1>6. ASSUME AutosaveTick PROVE Secured'
  BY <1>6, <1>d, <1>f, <1>c, SaveValues DEF AutosaveTick, Secured, Running, OnPath, Quiet, history
<1>7. ASSUME AutosaveExit PROVE Secured'
  BY <1>7, <1>f DEF AutosaveExit, Secured, Running, history
<1>8. ASSUME NEW a \in Folders, PlanFold(a) PROVE Secured'
  BY <1>8, <1>f, <1>c, SaveValues DEF PlanFold, Secured, Running, OnPath, Quiet, history
<1>9. ASSUME NEW a \in Folders, PutFold(a) PROVE Secured'
  <2>1. Held(log') = Held(log)
    <3>1. fold'[a] = NoFold /\ log' = fold[a].to /\ fold[a] # NoFold /\ Record
      BY <1>d, <1>9 DEF PutFold
    <3>2. log = fold[a].of
      BY <3>1 DEF Raced
    <3>3. QED
      BY <3>1, <3>2 DEF Growing
  <2>2. UNCHANGED <<turn, front, conv, file, own, ended, cleared, rewound>>
    BY <1>9 DEF PutFold, disk, history
  <2>3. save'["turn"] = save["turn"]
    BY <1>d, SaversTyped, <1>9 DEF PutFold
  <2>4. QED
    BY <2>1, <2>2, <2>3 DEF Secured, Running
<1>10. ASSUME NEW a \in Savers, ReadPath(a) PROVE Secured'
  BY <1>10, <1>d, <1>f, <1>c, SaveValues DEF ReadPath, Secured, Running, OnPath, Quiet, history
<1>11. ASSUME NEW a \in Savers, CopyLog(a) PROVE Secured'
  BY <1>11, <1>d, <1>a, <1>f, <1>c, SaveValues DEF CopyLog, Secured, Running, OnPath, Quiet, history
<1>12. ASSUME NEW a \in Savers, ReplaceFile(a) PROVE Secured'
  <2>1. /\ UNCHANGED <<turn, ended, conv, log, front, cleared, rewound>>
        /\ save[a].at = "copied" /\ save[a].path \in Paths
        /\ file' = [file EXCEPT ![save[a].path] = save[a].content]
        /\ save' = [save EXCEPT ![a] = Saving("replaced", save[a].path, save[a].content)]
        /\ own' = IF a = "front" /\ front.to = save[a].path
                  THEN [own EXCEPT ![front.to] = Held(save[a].content)] ELSE own
    BY <1>12, <1>a DEF ReplaceFile
  <2>2. CASE own' = own
    <3>1. \A p \in Paths \ cleared : \A m \in own[p] \ rewound[p] : m[1] \in ended => m \in Held(file'[p])
      BY <2>1, <1>f, <1>a DEF Secured
    <3>2. ASSUME turn.at = "ending", turn.said > 0, NEW m \in own[conv] \ rewound[conv], m[1] = turn.n
          PROVE  /\ save'["turn"].at \in {"none", "replaced", "read"} => m \in Held(file'[conv])
                 /\ save'["turn"].at = "copied" => m \in Held(save'["turn"].content)
      <4>1. front = NoFront /\ conv \in Paths \ cleared
        BY <3>2, <1>c, SaveValues DEF Quiet, OnPath
      <4>2. CASE a = "turn"
        <5>1. save["turn"].path = conv
          BY <2>1, <4>1, <4>2, SaveValues DEF OnPath
        <5>2. file'[conv] = save["turn"].content /\ save'["turn"].at = "replaced"
          BY <2>1, <4>2, <5>1, <1>d, SaveValues
        <5>3. QED
          BY <2>1, <3>2, <4>2, <5>2 DEF Secured
      <4>3. CASE a # "turn"
        <5>1. save'["turn"] = save["turn"]
          BY <2>1, <4>3, <1>d, SaversTyped
        <5>2. QED
          BY <2>1, <3>2, <4>1, <5>1, <1>f DEF Secured
      <4>4. QED
        BY <4>2, <4>3
    <3>3. QED
      BY <2>1, <2>2, <3>1, <3>2 DEF Secured, Running
  <2>3. CASE own' # own
    <3>1. /\ front.to \in Paths /\ own' = [own EXCEPT ![front.to] = Held(save[a].content)]
          /\ front # NoFront /\ a = "front"
      BY <2>1, <2>3, <1>d, SaveValues
    <3>2. turn.at = "idle" /\ Pending
      BY <2>1, <3>1, <1>a, <1>d, SaveValues DEF Quiet, FrontInv, Pending, Apart
    <3>3. front.log = save[a].content /\ front.to # conv /\ save[a].path = front.to
      BY <2>1, <3>2, <2>3 DEF Apart
    <3>4. own'[front.to] = Held(front.log) /\ file'[front.to] = front.log
      BY <2>1, <3>1, <3>3, <1>d
    <3>5. \A p \in Paths : p # front.to => own'[p] = own[p] /\ file'[p] = file[p]
      BY <2>1, <3>1, <3>3, <1>d
    <3>6. \A p \in Paths \ cleared : \A m \in own'[p] \ rewound[p] : m[1] \in ended => m \in Held(file'[p])
      BY <3>4, <3>5, <1>a DEF Secured
    <3>7. QED
      BY <2>1, <3>2, <3>3, <3>4 DEF Secured, Running
  <2>4. QED
    BY <2>2, <2>3
<1>13. ASSUME NEW a \in Savers, ReadBack(a) PROVE Secured'
  BY <1>13, <1>d, <1>f, <1>c, SaveValues DEF ReadBack, Secured, Running, OnPath, Quiet, history
<1>14. ASSUME NEW a \in Savers, Sign(a) PROVE Secured'
  BY <1>14, SaveValues DEF Sign, Secured, Running, history
<1>15. ASSUME NEW op \in {"new", "branch", "switch", "resume"}, StartRotation(op) PROVE Secured'
  BY <1>15, <1>d, <1>f, <1>c, SaveValues DEF StartRotation, Secured, Running, OnPath, history
<1>16. ASSUME StartClear PROVE Secured'
  BY <1>16, <1>f DEF StartClear, Secured, Running, history
<1>17. ASSUME RemoveArtifacts PROVE Secured'
  BY <1>17, <1>d, <1>g DEF RemoveArtifacts, Secured, Running, Quiet
<1>18. ASSUME Rotate PROVE Secured'
  BY <1>18, <1>f, <1>n, SaveValues DEF Rotate, Secured, history
<1>19. ASSUME BranchCopy PROVE Secured'
  BY <1>19, <1>g, <1>f, <1>n DEF BranchCopy, Secured, Running, Quiet, history
<1>20. ASSUME NEW p \in Paths, Load(p) PROVE Secured'
  <2>1. /\ UNCHANGED <<turn, ended, conv, log, save, cleared, own, file, rewound>> /\ file[p] # NoFile
        /\ front' = NoFront \/ front' = [op |-> front.op, at |-> "loaded", to |-> p, log |-> file[p]]
    BY <1>g, <1>20 DEF Load, disk, history
  <2>2. p \notin cleared
    BY <2>1 DEF Removed
  <2>3. front'.at = "loaded" => front'.to = p /\ front'.log = file[p]
    BY <2>1, SaveValues
  <2>4. front'.at = "loaded" => \A m \in own[p] \ rewound[p] : m[1] \in ended => m \in Held(front'.log)
    BY <2>2, <2>3, <1>a DEF Secured
  <2>5. QED
    BY <2>1, <2>3, <2>4 DEF Secured, Running
<1>21. ASSUME LoadNothing PROVE Secured'
  BY <1>21, <1>f, SaveValues DEF LoadNothing, Secured, Running, Quiet, history
<1>22. ASSUME SetSession PROVE Secured'
  BY <1>22, <1>g, <1>f DEF SetSession, Secured, Running, Quiet, history
<1>23. ASSUME SetPath PROVE Secured'
  BY <1>23, <1>f, SaveValues DEF SetPath, Secured, Running, Quiet, history
<1>24. ASSUME Crash PROVE Secured'
  BY <1>24, <1>f, SaveValues DEF Crash, Secured, NoTurn, history
<1>25. ASSUME UNCHANGED vars PROVE Secured'
  BY <1>25, <1>f, <1>c, SaveValues DEF vars, memory, history, Secured, Running, OnPath, Quiet, history
<1>26. ASSUME StartRewind PROVE Secured'
  BY <1>26, <1>f DEF StartRewind, Secured, Running, history
<1>27. ASSUME CutLog PROVE Secured'
  <2>1. /\ UNCHANGED <<turn, fold, conv, file, own, ended, cleared>>
        /\ front.at = "cut" /\ front'.at = "saving"
        /\ rewound' = [p \in Paths |-> IF p = conv THEN rewound[p] \cup (Held(log) \ Held(log'))
                                       ELSE rewound[p]]
    BY <1>27, <1>g DEF CutLog, disk
  <2>2. turn.at = "idle"
    BY <2>1, <1>a, SaveValues DEF Quiet
  <2>3. \A p \in Paths : rewound[p] \subseteq rewound'[p]
    BY <2>1
  <2>4. conv # NoPath => rewound'[conv] = rewound[conv] \cup (Held(log) \ Held(log'))
    BY <2>1, <1>d
  <2>5. conv # NoPath => \A m \in own[conv] \ rewound'[conv] : m[1] \in ended => m \in Held(log')
    BY <2>4, <1>a DEF Secured
  <2>6. \A p \in Paths \ cleared : \A m \in own[p] \ rewound'[p] : m[1] \in ended => m \in Held(file[p])
    BY <2>3, <1>a DEF Secured
  <2>7. turn'.at = "idle" /\ ~Running' /\ front'.at # "loaded"
    BY <2>1, <2>2 DEF Running
  <2>8. UNCHANGED <<conv, file, own, ended, cleared>>
    BY <2>1
  <2>9. \A p \in Paths \ cleared' : \A m \in own'[p] \ rewound'[p] : m[1] \in ended' => m \in Held(file'[p])
    BY <2>6, <2>8
  <2>10. conv' # NoPath => \A m \in own'[conv'] \ rewound'[conv'] : m[1] \in ended' => m \in Held(log')
    BY <2>5, <2>8
  <2>11. QED
    BY <2>7, <2>9, <2>10 DEF Secured
<1>28. ASSUME EndRewind PROVE Secured'
  BY <1>28, SaveValues DEF EndRewind, Secured, Running, disk, history
<1>29. QED
  BY <1>1, <1>2, <1>3, <1>4, <1>5, <1>6, <1>7, <1>8, <1>9, <1>10, <1>11, <1>12, <1>13, <1>14, <1>15,
     <1>16, <1>17, <1>18, <1>19, <1>20, <1>21, <1>22, <1>23, <1>24, <1>25, <1>26, <1>27, <1>28 DEF Next

\* Nothing happened for which a message may be missing.
Spotless == Spared({"torn", "overlap", "skipped", "raced", "outage"})

\* Initially nothing is said.
LEMMA GrowingInit == Init => SeenOverlap /\ Growing /\ Attributed /\ Secured
<1> SUFFICES ASSUME Init PROVE SeenOverlap /\ Growing /\ Attributed /\ Secured
  OBVIOUS
<1>1. /\ log = <<>> /\ front = NoFront /\ turn.at = "idle" /\ conv = NoPath
      /\ \A p \in Paths : file[p] = NoFile /\ own[p] = {}
      /\ (\A a \in Folders : fold[a] = NoFold) /\ \A a \in Savers : save[a] = NoSave
      /\ ended = {}
  BY DEF Init, NoTurn
<1>2. SeenOverlap
  BY <1>1, SaveValues DEF SeenOverlap, Overlap, Writing
<1>3. Growing
  BY <1>1, SaveValues DEF Growing
<1>4. Attributed
  BY <1>1 DEF Attributed, Running
<1>5. Secured
  BY <1>1, SaveValues DEF Secured, Running
<1>6. QED
  BY <1>2, <1>3, <1>4, <1>5

\* What keeps the messages, each part as long as no mishap it depends on.
KeepingInv ==
    /\ SeenOverlap
    /\ Steady => Growing
    /\ Untorn => Attributed
    /\ Spotless => Secured

\* Every step keeps KeepingInv, and takes no message from a file but by a rewind.
LEMMA KeepingStep ==
    ASSUME Inv, LogsInv, PlacesInv, KeepingInv, [Next]_vars
    PROVE  /\ KeepingInv'
           /\ Steady' => \A p \in Paths \ cleared' : Held(file[p]) \ rewound'[p] \subseteq Held(file'[p])
<1>1. mishaps \subseteq mishaps'
  BY MishapsGrow
<1>2. SeenOverlap'
  BY OverlapStep DEF KeepingInv
<1>3. ASSUME Untorn' PROVE Settled /\ Quiet' /\ Attributed /\ Attributed'
  <2>1. Untorn /\ Quiet /\ Quiet'
    BY <1>3, QuietStep DEF PlacesInv
  <2>2. Settled
    BY <2>1 DEF Settled, Inv, LogsInv, PlacesInv
  <2>3. OrderedLogs /\ Attributed
    BY <2>1 DEF LogsInv, KeepingInv
  <2>4. QED
    BY <2>1, <2>2, <2>3, AttributedStep
<1>4. ASSUME Steady' PROVE /\ Growing /\ Growing'
                           /\ \A p \in Paths \ cleared' : Held(file[p]) \ rewound'[p] \subseteq Held(file'[p])
                           /\ Record => ~Raced /\ ~Unanswered
  <2>1. /\ Untorn' /\ Steady /\ "overlap" \notin mishaps
        /\ "overlap" \notin mishaps' /\ "raced" \notin mishaps' /\ "outage" \notin mishaps'
    BY <1>1, <1>4 DEF Untorn, Steady, Spared
  <2>2. Settled /\ Growing /\ ~Overlap /\ ~Overlap'
    BY <2>1, <1>2, <1>3 DEF KeepingInv, SeenOverlap
  <2>3. Record => ~Raced /\ ~Unanswered
    BY <2>1, RecordTells
  <2>4. QED
    BY <2>2, <2>3, FilesGrow, GrowingStep
<1>5. ASSUME Spotless' PROVE Secured'
  <2>1. Untorn' /\ Steady' /\ Spotless /\ "skipped" \notin mishaps' /\ "overlap" \notin mishaps
    BY <1>1, <1>5 DEF Untorn, Steady, Spotless, Spared
  <2>2. Settled /\ Quiet' /\ Attributed /\ Growing /\ Secured /\ ~Overlap
    BY <2>1, <1>3, <1>4 DEF KeepingInv, SeenOverlap
  <2>3. (Record => ~Skipped) /\ (Record => ~Raced) /\ (Record => ~Unanswered)
    BY <2>1, <1>4, RecordTells
  <2>4. QED
    BY <2>2, <2>3, SecuredStep
<1>6. QED
  BY <1>2, <1>3, <1>4, <1>5 DEF KeepingInv

\* The four invariants hold together.
LEMMA SessionSteps == Spec => [](Inv /\ LogsInv /\ PlacesInv /\ KeepingInv)
<1>1. Init => LogsInv /\ PlacesInv /\ KeepingInv
  BY LogsInit, PlacesInit, GrowingInit DEF PlacesInv, KeepingInv
<1>2. Inv /\ LogsInv /\ PlacesInv /\ KeepingInv /\ [Next]_vars => LogsInv' /\ PlacesInv' /\ KeepingInv'
  BY LogsStep, PlacesStep, KeepingStep DEF Inv
<1>3. QED
  BY <1>1, <1>2, SavesInStep, PTL DEF Spec

\* What a file holds is still in it after every step (Session.Save replaces
\* a file by a copy of a log that holds no less), but for ClearSession, for
\* what Controller.Rewind took from that very conversation and for the
\* mishaps that are named.
THEOREM FilesGrowOnly == Spec => FilesOnlyGrow
<1>1. Inv /\ LogsInv /\ PlacesInv /\ KeepingInv /\ [Next]_vars =>
         [Spared({"torn", "overlap", "raced", "outage"})' =>
             \A p \in Paths \ cleared' : Held(file[p]) \ rewound'[p] \subseteq Held(file'[p])]_vars
  BY KeepingStep DEF Steady
<1>2. QED
  BY <1>1, SessionSteps, PTL DEF Spec, FilesOnlyGrow

\* When a turn is over, what it said is in the file of its conversation
\* (the saves of the turn's end, Controller.snapshot), unless a save was skipped
\* or a mishap took it; a later crash does not.
THEOREM TurnsAreSaved == Spec => []TurnSavedAtItsEnd
<1>1. KeepingInv => TurnSavedAtItsEnd
  <2> SUFFICES ASSUME KeepingInv, Spotless, NEW p \in Paths \ cleared PROVE Over(p) \subseteq Held(file[p])
    BY DEF TurnSavedAtItsEnd, EndedTurnOnDisk, Spotless
  <2>1. QED
    BY DEF KeepingInv, Secured, Over
<1>2. QED
  BY <1>1, SessionSteps, PTL

\* What was said in the conversation at work is in the session's log, word
\* for word or in a digest, unless a mishap took it.
THEOREM NothingIsForgotten == Spec => []NothingForgotten
<1>1. KeepingInv => NothingForgotten
  <2> SUFFICES ASSUME KeepingInv, Spotless, conv # NoPath
               PROVE  /\ Over(conv) \subseteq Held(log)
                      /\ \A m \in own[conv] : Running /\ m[1] = turn.n => m \in Held(log)
    BY DEF NothingForgotten, LogCovers, Spotless
  <2>1. QED
    BY DEF KeepingInv, Secured, Over
<1>2. QED
  BY <1>1, SessionSteps, PTL
-----------------------------------------------------------------------------
(* Lists of checkpoints and the directory.                                 *)

Increasing(s) == \A i, j \in DOMAIN s : i < j => s[i].turn < s[j].turn

\* The directory d holds the list s and nothing else, but for torn files.
Holds(s, d) ==
    /\ \A i \in DOMAIN s : d[s[i].turn] \in {s[i], TornFile}
    /\ \A n \in Turns : Readable(d[n]) => \E i \in DOMAIN s : s[i].turn = n

Directories == [Turns -> CheckpointType \cup {NoCheckpoint, TornFile}]

Keyed(d) == \A n \in Turns : Readable(d[n]) => d[n].turn = n

LEMMA TurnsAre == /\ Turns \subseteq Nat /\ -1 \notin Turns
                  /\ MaxUserTurns \in Nat /\ MaxRewinds \in Nat /\ MaxWrites \in Nat /\ MaxFaults \in Nat
BY CountAssumption DEF Turns

LEMMA CheckpointIs ==
    /\ \A c \in CheckpointType : c.turn \in Turns /\ c.turn \in Nat /\ c # NoCheckpoint
    /\ \A n \in Turns : Checkpoint(n) \in CheckpointType /\ Checkpoint(n).turn = n
<1>1. \A c \in CheckpointType : c.turn \in Turns /\ c.turn \in Nat
  BY TurnsAre DEF CheckpointType
<1>2. NoCheckpoint.turn = -1
  BY DEF NoCheckpoint
<1>3. \A n \in Turns : Checkpoint(n) \in CheckpointType /\ Checkpoint(n).turn = n
  BY DEF Checkpoint, CheckpointType
<1>4. QED
  BY <1>1, <1>2, <1>3, TurnsAre

LEMMA ReadableIs ==
    /\ \A c \in CheckpointType : Readable(c) /\ c # TornFile
    /\ ~Readable(NoCheckpoint) /\ ~Readable(TornFile)
<1>1. TornFile.turn = -2 /\ -2 \notin Nat
  BY DEF TornFile
<1>2. \A c \in CheckpointType : c # TornFile /\ c # NoCheckpoint
  BY <1>1, CheckpointIs
<1>3. QED
  BY <1>2 DEF Readable

LEMMA PrunedIs ==
    ASSUME NEW s \in Seq(CheckpointType)
    PROVE  /\ Excess(s) \in Nat /\ Excess(s) <= Len(s)
           /\ Len(s) > 0 => Excess(s) < Len(s)
           /\ Pruned(s) \in Seq(CheckpointType)
           /\ Len(Pruned(s)) = Len(s) - Excess(s)
           /\ DOMAIN Pruned(s) = 1..(Len(s) - Excess(s))
           /\ \A i \in 1..(Len(s) - Excess(s)) : Excess(s) + i \in DOMAIN s /\ Pruned(s)[i] = s[Excess(s) + i]
<1>1. Len(s) \in Nat /\ DOMAIN s = 1..Len(s)
  OBVIOUS
<1>2. Excess(s) \in Nat /\ Excess(s) <= Len(s) /\ (Len(s) > 0 => Excess(s) < Len(s))
  BY <1>1, MaxAssumption DEF Excess
<1> DEFINE e == Excess(s)
<1> HIDE DEF e
<1>3. e \in Nat /\ e <= Len(s)
  BY <1>2 DEF e
<1>4. \A i \in (e + 1)..Len(s) : s[i] \in CheckpointType
  BY <1>1, <1>3
<1>5. /\ SubSeq(s, e + 1, Len(s)) \in Seq(CheckpointType)
      /\ Len(SubSeq(s, e + 1, Len(s))) = Len(s) - e
      /\ \A i \in 1..(Len(s) - e) : SubSeq(s, e + 1, Len(s))[i] = s[e + i]
  <2>1. SubSeq(s, e + 1, Len(s)) \in Seq(CheckpointType)
    BY <1>1, <1>3
  <2>2. Len(SubSeq(s, e + 1, Len(s))) = Len(s) - e
    <3>1. e + 1 \in Int /\ Len(s) \in Int
      BY <1>1, <1>3
    <3>2. Len(SubSeq(s, e + 1, Len(s))) = IF e + 1 <= Len(s) THEN Len(s) - (e + 1) + 1 ELSE 0
      BY <1>4, <3>1, SubSeqProperties
    <3>3. \A a, b \in Nat : a <= b => (IF a + 1 <= b THEN b - (a + 1) + 1 ELSE 0) = b - a
      OBVIOUS
    <3>4. Len(s) \in Nat /\ e \in Nat /\ e <= Len(s)
      BY <1>1, <1>3
    <3>5. QED
      BY <3>2, <3>3, <3>4, Zenon
  <2>3. \A i \in 1..(Len(s) - e) : SubSeq(s, e + 1, Len(s))[i] = s[e + i]
    BY <1>1, <1>3
  <2>4. QED
    BY <2>1, <2>2, <2>3
<1>6. Pruned(s) = SubSeq(s, e + 1, Len(s))
  BY DEF Pruned, e
<1>7. Len(Pruned(s)) = Len(s) - e
  BY <1>5, <1>6
<1>8. \A i \in 1..(Len(s) - e) : e + i \in DOMAIN s /\ Pruned(s)[i] = s[e + i]
  <2>1. TAKE i \in 1..(Len(s) - e)
  <2>2. e + i \in DOMAIN s
    BY <1>1, <1>3
  <2>3. QED
    BY <1>5, <1>6, <2>2
<1>9. Pruned(s) \in Seq(CheckpointType)
  BY <1>5, <1>6
<1>10. DOMAIN Pruned(s) = 1..(Len(s) - e)
  BY <1>7, <1>9
<1>11. QED
  BY <1>2, <1>7, <1>8, <1>9, <1>10, Zenon DEF e

LEMMA UnlinkedIs ==
    ASSUME NEW d \in Directories, NEW s
    PROVE  /\ Unlinked(d, s) \in Directories
           /\ \A n \in Turns : Unlinked(d, s)[n] = d[n] \/ Unlinked(d, s)[n] = NoCheckpoint
           /\ Keyed(d) => Keyed(Unlinked(d, s))
BY ReadableIs DEF Unlinked, Directories, Keyed

\* Pruning and unlinking keep the directory in step with the list.
LEMMA PruneHolds ==
    ASSUME NEW s \in Seq(CheckpointType), NEW d \in Directories, Increasing(s), Holds(s, d)
    PROVE  Increasing(Pruned(s)) /\ Holds(Pruned(s), Unlinked(d, s))
<1> DEFINE e == Excess(s)
           p == Pruned(s)
<1> HIDE DEF e, p
<1>1. /\ e \in Nat /\ e <= Len(s) /\ Len(s) \in Nat /\ DOMAIN s = 1..Len(s)
      /\ DOMAIN p = 1..(Len(s) - e)
      /\ \A i \in 1..(Len(s) - e) : e + i \in DOMAIN s /\ p[i] = s[e + i]
  <2>1. Len(s) \in Nat /\ DOMAIN s = 1..Len(s)
    OBVIOUS
  <2>2. QED
    BY <2>1, PrunedIs, Zenon DEF e, p
<1>2. \A i \in DOMAIN s : s[i].turn \in Nat /\ s[i].turn \in Turns
  BY CheckpointIs
<1>3. Increasing(p)
  <2>1. SUFFICES ASSUME NEW i \in DOMAIN p, NEW j \in DOMAIN p, i < j PROVE p[i].turn < p[j].turn
    BY DEF Increasing
  <2>2. e + i \in DOMAIN s /\ e + j \in DOMAIN s /\ e + i < e + j /\ p[i] = s[e + i] /\ p[j] = s[e + j]
    BY <1>1, <2>1
  <2>3. QED
    BY <2>2 DEF Increasing
<1>4. \A n \in Turns : Unlinked(d, s)[n] = IF \E i \in 1..e : s[i].turn = n THEN NoCheckpoint ELSE d[n]
  BY DEF Unlinked, e
<1>5. ASSUME NEW i \in DOMAIN p PROVE Unlinked(d, s)[p[i].turn] \in {p[i], TornFile}
  <2>1. e + i \in DOMAIN s /\ p[i] = s[e + i] /\ i >= 1
    BY <1>1
  <2>2. ASSUME NEW k \in 1..e PROVE s[k].turn < s[e + i].turn
    <3>1. k \in DOMAIN s /\ k < e + i
      BY <1>1, <2>1
    <3>2. QED
      BY <2>1, <3>1 DEF Increasing
  <2>3. ~ \E k \in 1..e : s[k].turn = s[e + i].turn
    <3>1. \A k \in 1..e : k \in DOMAIN s
      BY <1>1
    <3>2. QED
      BY <1>2, <2>1, <2>2, <3>1
  <2>4. d[s[e + i].turn] \in {s[e + i], TornFile}
    BY <2>1 DEF Holds
  <2>5. QED
    BY <1>2, <1>4, <2>1, <2>3, <2>4
<1>6. ASSUME NEW n \in Turns, Readable(Unlinked(d, s)[n]) PROVE \E i \in DOMAIN p : p[i].turn = n
  <2>1. Readable(d[n]) /\ \A i \in 1..e : s[i].turn # n
    BY <1>4, <1>6, ReadableIs
  <2>2. PICK k \in DOMAIN s : s[k].turn = n
    BY <2>1 DEF Holds
  <2>3. k > e
    BY <1>1, <2>1, <2>2
  <2>4. k - e \in DOMAIN p /\ p[k - e] = s[k]
    BY <1>1, <2>3
  <2>5. QED
    BY <2>2, <2>4
<1>7. QED
  BY <1>3, <1>5, <1>6 DEF Holds, p

\* So does opening a checkpoint with a higher number.
LEMMA AppendHolds ==
    ASSUME NEW s \in Seq(CheckpointType), NEW d \in Directories, Increasing(s), Holds(s, d),
           NEW n \in Turns, \A i \in DOMAIN s : s[i].turn < n, NEW stored \in {Checkpoint(n), TornFile}
    PROVE  LET new == Append(Pruned(s), Checkpoint(n))
           IN  Increasing(new) /\ Holds(new, Unlinked([d EXCEPT ![n] = stored], s))
<1> DEFINE e == Excess(s)
           p == Pruned(s)
           c == Checkpoint(n)
           new == Append(p, c)
           d2 == Unlinked([d EXCEPT ![n] = stored], s)
<1>1. /\ p \in Seq(CheckpointType) /\ Increasing(p) /\ Holds(p, Unlinked(d, s))
      /\ \A i \in DOMAIN p : \E k \in DOMAIN s : p[i] = s[k]
  BY PruneHolds, PrunedIs
<1>2. c \in CheckpointType /\ c.turn = n /\ n \in Nat /\ c # NoCheckpoint
  BY CheckpointIs, TurnsAre
<1>3. \A i \in DOMAIN p : p[i].turn < n /\ p[i].turn \in Nat /\ p[i].turn \in Turns
  BY <1>1, CheckpointIs
<1>4. \A m \in Turns : d2[m] = IF m = n THEN stored ELSE Unlinked(d, s)[m]
  <2>1. \A m \in Turns : [d EXCEPT ![n] = stored][m] = IF m = n THEN stored ELSE d[m]
    BY DEF Directories
  <2>2. ~ \E i \in 1..e : s[i].turn = n
    <3>1. \A i \in 1..e : i \in DOMAIN s
      BY PrunedIs
    <3>2. \A i \in DOMAIN s : s[i].turn \in Nat
      BY CheckpointIs
    <3>3. QED
      BY <1>2, <3>1, <3>2
  <2>3. QED
    BY <2>1, <2>2 DEF Unlinked
<1>10. stored \in {c, TornFile}
  OBVIOUS
<1> HIDE DEF e, p, c, d2
<1>5. Len(p) \in Nat /\ DOMAIN p = 1..Len(p) /\ new \in Seq(CheckpointType) /\ Len(new) = Len(p) + 1
      /\ DOMAIN new = 1..(Len(p) + 1) /\ new[Len(p) + 1] = c /\ \A i \in 1..Len(p) : new[i] = p[i]
  BY <1>1, <1>2
<1> HIDE DEF new
<1>6. Increasing(new)
  <2>1. SUFFICES ASSUME NEW i \in DOMAIN new, NEW j \in DOMAIN new, i < j PROVE new[i].turn < new[j].turn
    BY DEF Increasing
  <2>2. i \in DOMAIN p /\ new[i] = p[i]
    BY <1>5, <2>1
  <2>3. CASE j \in DOMAIN p
    BY <1>1, <1>5, <2>1, <2>2, <2>3 DEF Increasing
  <2>4. CASE j = Len(p) + 1
    BY <1>2, <1>3, <1>5, <2>2, <2>4
  <2>5. QED
    BY <1>5, <2>3, <2>4
<1>7. \A i \in DOMAIN new : d2[new[i].turn] \in {new[i], TornFile}
  <2>1. TAKE i \in DOMAIN new
  <2>2. CASE i \in DOMAIN p
    <3>1. new[i] = p[i] /\ p[i].turn # n /\ p[i].turn \in Turns
      BY <1>2, <1>3, <1>5, <2>2
    <3>2. Unlinked(d, s)[p[i].turn] \in {p[i], TornFile}
      BY <1>1, <2>2 DEF Holds
    <3>3. QED
      BY <1>4, <3>1, <3>2
  <2>3. CASE i = Len(p) + 1
    BY <1>2, <1>4, <1>5, <1>10, <2>3
  <2>4. QED
    BY <1>5, <2>2, <2>3
<1>8. ASSUME NEW m \in Turns, Readable(d2[m]) PROVE \E i \in DOMAIN new : new[i].turn = m
  <2>1. CASE m = n
    BY <1>2, <1>5, <2>1
  <2>2. CASE m # n
    <3>1. Readable(Unlinked(d, s)[m])
      BY <1>4, <1>8, <2>2
    <3>2. PICK i \in DOMAIN p : p[i].turn = m
      BY <1>1, <3>1 DEF Holds
    <3>3. i \in DOMAIN new /\ new[i] = p[i]
      BY <1>5
    <3>4. QED
      BY <3>2, <3>3
  <2>3. QED
    BY <2>1, <2>2
<1>9. QED
  BY <1>6, <1>7, <1>8 DEF Holds, new, d2, c, p

\* So does writing a checkpoint in place.
LEMMA ReviseHolds ==
    ASSUME NEW s \in Seq(CheckpointType), NEW d \in Directories, Increasing(s), Holds(s, d),
           NEW k \in DOMAIN s, NEW c \in CheckpointType, c.turn = s[k].turn, NEW stored \in {c, TornFile}
    PROVE  LET new == [s EXCEPT ![k] = c]
           IN  Increasing(new) /\ Holds(new, [d EXCEPT ![c.turn] = stored])
<1> DEFINE new == [s EXCEPT ![k] = c]
           d2 == [d EXCEPT ![c.turn] = stored]
<1>1. DOMAIN new = DOMAIN s /\ \A i \in DOMAIN s : new[i] = IF i = k THEN c ELSE s[i]
  OBVIOUS
<1>2. c.turn \in Turns /\ \A m \in Turns : d2[m] = IF m = c.turn THEN stored ELSE d[m]
  BY CheckpointIs DEF Directories
<1>3. \A i \in DOMAIN s : s[i].turn \in Nat /\ s[i].turn \in Turns /\ i \in Nat
  BY CheckpointIs
<1> HIDE DEF new, d2
<1>4. \A i \in DOMAIN s : new[i].turn = s[i].turn
  BY <1>1
<1>5. Increasing(new)
  BY <1>1, <1>4 DEF Increasing
<1>6. \A i \in DOMAIN s : i # k => s[i].turn # c.turn
  BY <1>3 DEF Increasing
<1>7. \A i \in DOMAIN new : d2[new[i].turn] \in {new[i], TornFile}
  BY <1>1, <1>2, <1>3, <1>4, <1>6 DEF Holds
<1>8. \A m \in Turns : Readable(d2[m]) => \E i \in DOMAIN new : new[i].turn = m
  BY <1>1, <1>2, <1>4 DEF Holds
<1>9. QED
  BY <1>5, <1>7, <1>8 DEF Holds, new, d2

\* What a resumed session loads is the readable part of the directory, in the
\* order of its numbers.
LEMMA LoadedIs ==
    ASSUME dir \in Directories, Keyed(dir)
    PROVE  /\ Loaded \in Seq(CheckpointType) /\ Increasing(Loaded) /\ Holds(Loaded, dir)
           /\ \A i \in DOMAIN Loaded : dir[Loaded[i].turn] = Loaded[i]
<1> DEFINE ns == {n \in Turns : Readable(dir[n])}
           C == Cardinality(ns)
           nth == Ascending(ns)
<1>1. ns \subseteq Nat /\ IsFiniteSet(ns)
  <2>1. IsFiniteSet(Turns)
    <3>1. 0 \in Int /\ MaxUserTurns + MaxRewinds \in Int
      BY TurnsAre
    <3>2. QED
      BY <3>1, FS_Interval DEF Turns
  <2>2. ns \in SUBSET Turns
    OBVIOUS
  <2>3. IsFiniteSet(ns)
    BY <2>1, <2>2, FS_Subset, Zenon
  <2>4. QED
    BY <2>2, <2>3, TurnsAre
<1>2. \A n \in ns : dir[n] \in CheckpointType /\ dir[n].turn = n /\ n \in Turns
  BY DEF Directories, Keyed, Readable
<1>3. Loaded = [i \in 1..C |-> dir[nth[i]]]
  <2>1. Loaded = [i \in 1..C |-> dir[CHOOSE n \in ns : Cardinality({m \in ns : m < n}) = i - 1]]
    BY Zenon DEF Loaded
  <2>2. ASSUME NEW i \in 1..C PROVE (CHOOSE n \in ns : Cardinality({m \in ns : m < n}) = i - 1) = nth[i]
    <3> DEFINE ith(k) == CHOOSE n \in ns : Cardinality({m \in ns : m < n}) = k - 1
    <3>1. nth = [k \in 1..C |-> ith(k)]
      BY DEF Ascending
    <3> HIDE DEF ith, nth, C
    <3>2. nth[i] = ith(i)
      BY <3>1
    <3>3. QED
      BY <3>2 DEF ith
  <2> DEFINE g == [i \in 1..C |-> dir[CHOOSE n \in ns : Cardinality({m \in ns : m < n}) = i - 1]]
             h == [i \in 1..C |-> dir[nth[i]]]
  <2>3. ASSUME NEW i \in 1..C PROVE g[i] = h[i]
    <3>1. g[i] = dir[CHOOSE n \in ns : Cardinality({m \in ns : m < n}) = i - 1] /\ h[i] = dir[nth[i]]
      BY Zenon
    <3>2. QED
      BY <2>2, <3>1, Zenon
  <2>4. g = h
    BY <2>3
  <2>5. QED
    BY <2>1, <2>4
<1> HIDE DEF ns
<1>4. /\ C \in Nat /\ nth \in [1..C -> ns]
      /\ \A j, k \in 1..C : j < k => nth[j] < nth[k]
      /\ \A n \in ns : \E k \in 1..C : nth[k] = n
  BY <1>1, AscendingIs, Zenon
<1> HIDE DEF nth, C
<1>5. Len(Loaded) = C /\ DOMAIN Loaded = 1..C /\ Loaded \in Seq(CheckpointType)
      /\ \A i \in 1..C : Loaded[i] = dir[nth[i]] /\ Loaded[i].turn = nth[i]
  <2>1. \A i \in 1..C : dir[nth[i]] \in CheckpointType
    BY <1>2, <1>4
  <2>2. Loaded \in Seq(CheckpointType) /\ DOMAIN Loaded = 1..C /\ Len(Loaded) = C
    BY <1>3, <1>4, <2>1
  <2>3. QED
    BY <1>2, <1>3, <1>4, <2>2
<1>6. Increasing(Loaded)
  BY <1>4, <1>5 DEF Increasing
<1>7. Holds(Loaded, dir)
  <2>1. \A i \in DOMAIN Loaded : dir[Loaded[i].turn] = Loaded[i]
    BY <1>5
  <2>2. ASSUME NEW n \in Turns, Readable(dir[n]) PROVE \E i \in DOMAIN Loaded : Loaded[i].turn = n
    <3>1. n \in ns
      BY <2>2 DEF ns
    <3>2. QED
      BY <1>4, <1>5, <3>1
  <2>3. QED
    BY <2>1, <2>2 DEF Holds
<1>8. QED
  BY <1>5, <1>6, <1>7

-----------------------------------------------------------------------------
(* The list of all checkpoints.                                            *)

\* NextTurn is above every number of the store.
LEMMA NextIs ==
    ASSUME NEW S \in SUBSET Turns
    PROVE  NextNumber(S) \in Nat /\ \A m \in S : m < NextNumber(S)
<1>1. CASE S = {}
  BY <1>1 DEF NextNumber
<1>2. CASE S # {}
  <2>1. MaxUserTurns + MaxRewinds \in Nat
    BY TurnsAre
  <2>2. \E n \in S : \A m \in S : m <= n
    BY <1>2, <2>1, GreatestExists DEF Turns
  <2> DEFINE g == CHOOSE n \in S : \A m \in S : m <= n
  <2>3. g \in S /\ \A m \in S : m <= g
    BY <2>2, Zenon
  <2>4. NextNumber(S) = 1 + g
    BY <1>2 DEF NextNumber
  <2> HIDE DEF g
  <2>5. \A m \in S : m \in Nat
    BY TurnsAre
  <2>6. QED
    BY <2>3, <2>4, <2>5
<1>3. QED
  BY <1>1, <1>2

LEMMA AllIs ==
    ASSUME StoreTypeOK
    PROVE  /\ All \in Seq(CheckpointType)
           /\ Len(All) \in Nat /\ DOMAIN All = 1..Len(All)
           /\ \A i \in DOMAIN All : All[i] \in CheckpointType
           /\ Numbers \subseteq Turns
           /\ cur = NoCheckpoint => All = done
           /\ cur # NoCheckpoint => /\ cur \in CheckpointType
                                    /\ All = Append(done, cur) /\ Len(All) = Len(done) + 1 /\ All[Len(All)] = cur
                                    /\ \A i \in DOMAIN done : i \in DOMAIN All /\ All[i] = done[i]
<1>1. done \in Seq(CheckpointType) /\ cur \in CheckpointType \cup {NoCheckpoint}
  BY DEF StoreTypeOK
<1>2. CASE cur = NoCheckpoint
  <2>1. All = done
    BY <1>2 DEF All
  <2>2. \A i \in DOMAIN All : All[i] \in CheckpointType
    BY <1>1, <2>1
  <2>3. QED
    BY <1>1, <1>2, <2>1, <2>2, CheckpointIs DEF Numbers
<1>3. CASE cur # NoCheckpoint
  <2>1. All = Append(done, cur) /\ cur \in CheckpointType
    BY <1>1, <1>3 DEF All
  <2>2. /\ Append(done, cur) \in Seq(CheckpointType) /\ Len(Append(done, cur)) = Len(done) + 1
        /\ Append(done, cur)[Len(done) + 1] = cur /\ Len(done) \in Nat
        /\ \A i \in DOMAIN done : i \in DOMAIN Append(done, cur) /\ Append(done, cur)[i] = done[i]
    BY <1>1, <2>1
  <2>3. All \in Seq(CheckpointType) /\ Len(All) = Len(done) + 1 /\ All[Len(All)] = cur /\ Len(All) \in Nat
        /\ \A i \in DOMAIN done : i \in DOMAIN All /\ All[i] = done[i]
    BY <2>1, <2>2
  <2>4. DOMAIN All = 1..Len(All) /\ \A i \in DOMAIN All : All[i] \in CheckpointType
    BY <2>3
  <2>5. QED
    BY <1>3, <2>1, <2>3, <2>4, CheckpointIs DEF Numbers
<1>4. QED
  BY <1>2, <1>3

\* Positions have a first and a last in the order of their turns.
LEMMA Ends ==
    ASSUME StoreTypeOK, NEW P \in SUBSET DOMAIN All, P # {}
    PROVE  /\ \E i \in P : \A j \in P : Before(i, j)
           /\ \E i \in P : \A j \in P : Before(j, i)
<1>1. /\ Len(All) \in Nat /\ DOMAIN All = 1..Len(All)
      /\ \A i \in P : All[i].turn \in Turns /\ All[i].turn \in Nat
  BY AllIs, CheckpointIs
<1> DEFINE T == {All[i].turn : i \in P}
<1>2. T \in SUBSET Nat /\ T # {} /\ T \subseteq 0..(MaxUserTurns + MaxRewinds) /\ MaxUserTurns + MaxRewinds \in Nat
  <2>1. \A t \in T : t \in Nat /\ t \in Turns
    BY <1>1
  <2>2. QED
    BY <2>1, TurnsAre DEF Turns
<1>3. \E i \in P : \A j \in P : Before(i, j)
  <2>1. PICK t \in T : \A u \in T : t <= u
    BY <1>2, LeastExists, Zenon
  <2> DEFINE I == {i \in P : All[i].turn = t}
  <2>2. I \in SUBSET Nat /\ I # {}
    BY <1>1
  <2>3. PICK i \in I : \A j \in I : i <= j
    BY <2>2, LeastExists, Zenon
  <2>4. ASSUME NEW j \in P PROVE Before(i, j)
    <3>1. t <= All[j].turn /\ All[i].turn = t
      BY <2>1, <2>3
    <3>2. CASE All[j].turn = t
      BY <2>3, <3>1, <3>2 DEF Before
    <3>3. CASE All[j].turn # t
      <4>1. t \in Nat /\ All[j].turn \in Nat
        BY <1>1, <1>2
      <4>2. All[i].turn < All[j].turn
        BY <3>1, <3>3, <4>1
      <4>3. QED
        BY <4>2 DEF Before
    <3>4. QED
      BY <3>2, <3>3
  <2>5. QED
    BY <2>3, <2>4
<1>4. \E i \in P : \A j \in P : Before(j, i)
  <2>1. PICK t \in T : \A u \in T : u <= t
    BY <1>2, GreatestExists, Zenon
  <2> DEFINE I == {i \in P : All[i].turn = t}
  <2>2. I \in SUBSET (0..Len(All)) /\ I # {}
    BY <1>1
  <2>3. PICK i \in I : \A j \in I : j <= i
    BY <1>1, <2>2, GreatestExists, Zenon
  <2>4. ASSUME NEW j \in P PROVE Before(j, i)
    <3>1. All[j].turn <= t /\ All[i].turn = t
      BY <2>1, <2>3
    <3>2. CASE All[j].turn = t
      BY <2>3, <3>1, <3>2 DEF Before
    <3>3. CASE All[j].turn # t
      <4>1. t \in Nat /\ All[j].turn \in Nat
        BY <1>1, <1>2
      <4>2. All[j].turn < All[i].turn
        BY <3>1, <3>3, <4>1
      <4>3. QED
        BY <4>2 DEF Before
    <3>4. QED
      BY <3>2, <3>3
  <2>5. QED
    BY <2>3, <2>4
<1>5. QED
  BY <1>3, <1>4

\* What RestoreCode finds for a file.
LEMMA EarliestIs ==
    ASSUME StoreTypeOK, NEW n, NEW f \in SuffixPaths(n)
    PROVE  \E i \in Suffix(n, f) : /\ \A j \in Suffix(n, f) : Before(i, j)
                                   /\ Earliest(n, f) = All[i].snaps[f].pre
<1> DEFINE P == Suffix(n, f)
           first == CHOOSE i \in P : \A j \in P : Before(i, j)
<1>1. P \in SUBSET DOMAIN All /\ P # {}
  BY DEF Suffix, SuffixPaths
<1>2. \E i \in P : \A j \in P : Before(i, j)
  BY <1>1, Ends, Zenon
<1>3. first \in P /\ \A j \in P : Before(first, j)
  BY <1>2, Zenon
<1>4. Earliest(n, f) = All[first].snaps[f].pre
  BY DEF Earliest
<1>5. QED
  BY <1>3, <1>4, Zenon

\* What the preview finds for it.
LEMMA LastPostIs ==
    ASSUME StoreTypeOK, NEW n, NEW f, LastPost(n, f) # NoHash
    PROVE  \E i \in Suffix(n, f) : LastPost(n, f) = All[i].snaps[f].post
<1> DEFINE P == Hashed(n, f)
           last == CHOOSE i \in P : \A j \in P : Before(j, i)
<1>1. P \in SUBSET DOMAIN All /\ P \subseteq Suffix(n, f)
  BY DEF Suffix, Hashed
<1>2. P # {} /\ LastPost(n, f) = All[last].snaps[f].post
  BY DEF LastPost
<1>3. \E i \in P : \A j \in P : Before(j, i)
  BY <1>1, <1>2, Ends, Zenon
<1>4. last \in P
  BY <1>3, Zenon
<1>5. QED
  BY <1>1, <1>2, <1>4

-----------------------------------------------------------------------------
(* What the operations of the store do to the list and the directory.      *)


Snap(c, f, snap) == [c EXCEPT !.snaps[f] = snap]

LEMMA ContentsAre ==
    /\ Contents \subseteq Int /\ NoHash \in Int /\ NoHash \notin Contents
    /\ Absent \in Contents /\ Original \in Contents
    /\ \A x \in Contents : HashOf(x) \in Contents \cup {NoHash}
    /\ NoSnap \notin Snapshots
<1>1. /\ Contents \subseteq Int /\ NoHash \in Int /\ NoHash \notin Contents
      /\ Absent \in Contents /\ Original \in Contents
  BY TurnsAre DEF Contents, NoHash, Absent, Original
<1>2. NoSnap \notin Snapshots
  BY <1>1 DEF NoSnap, Snapshots
<1>3. QED
  BY <1>1, <1>2 DEF HashOf

LEMMA SnapIs ==
    ASSUME NEW c \in CheckpointType, NEW f \in Files, NEW x \in Snapshots
    PROVE  /\ Snap(c, f, x) \in CheckpointType /\ Snap(c, f, x).turn = c.turn
           /\ Snap(c, f, x).snaps[f] = x
           /\ \A g \in Files : g # f => Snap(c, f, x).snaps[g] = c.snaps[g]
BY DEF Snap, CheckpointType

LEMMA SnappedIs ==
    ASSUME NEW c \in CheckpointType
    PROVE  /\ DOMAIN c.snaps = Files
           /\ \A f : f \in Snapped(c) <=> f \in Files /\ c.snaps[f] # NoSnap
           /\ \A f \in Snapped(c) : c.snaps[f] \in Snapshots
           /\ \A f \in Files : /\ c.snaps[f] \in Snapshots \cup {NoSnap}
                              /\ c.snaps[f].pre \in Contents \cup {NoHash}
                              /\ c.snaps[f].post \in Contents \cup {NoHash}
<1>1. DOMAIN c.snaps = Files /\ \A f \in Files : c.snaps[f] \in Snapshots \cup {NoSnap}
  BY DEF CheckpointType
<1>2. \A x \in Snapshots \cup {NoSnap} : x.pre \in Contents \cup {NoHash} /\ x.post \in Contents \cup {NoHash}
  BY DEF Snapshots, NoSnap
<1>3. QED
  BY <1>1, <1>2 DEF Snapped

LEMMA WrittenIs ==
    ASSUME NEW c, NEW d \in Written(c)
    PROVE  \E stored \in {c, TornFile} : d = [dir EXCEPT ![c.turn] = stored]
BY DEF Written

Revised(k, c) ==
    /\ c.turn = All[k].turn
    /\ All' = [All EXCEPT ![k] = c]
    /\ dir' \in Written(c)

\* Begin
LEMMA BeginIs ==
    ASSUME StoreTypeOK, NEW n \in Turns, StoreBegin(n)
    PROVE  /\ All' = Append(Pruned(All), Checkpoint(n))
           /\ \E stored \in {Checkpoint(n), TornFile} : dir' = Unlinked([dir EXCEPT ![n] = stored], All)
           /\ cur' = Checkpoint(n) /\ cur' # NoCheckpoint /\ done' = Pruned(All)
<1>1. Closed = All
  BY DEF Closed, All
<1>2. /\ cur' = Checkpoint(n) /\ cur' # NoCheckpoint /\ done' = Pruned(All)
      /\ \E stored \in {Checkpoint(n), TornFile} : dir' = Unlinked([dir EXCEPT ![n] = stored], All)
  <2>1. cur' = Checkpoint(n) /\ cur' # NoCheckpoint /\ done' = Pruned(All)
    BY <1>1, CheckpointIs DEF StoreBegin
  <2>2. PICK d \in Written(Checkpoint(n)) : dir' = Unlinked(d, All)
    BY <1>1 DEF StoreBegin
  <2>3. PICK stored \in {Checkpoint(n), TornFile} : d = [dir EXCEPT ![n] = stored]
    BY WrittenIs, CheckpointIs
  <2>4. QED
    BY <2>1, <2>2, <2>3
<1>3. All' = Append(done', cur')
  BY <1>2 DEF All
<1>4. QED
  BY <1>2, <1>3

\* Finalize
LEMMA FinalizeIs ==
    ASSUME StoreTypeOK, KeepFinalized
    PROVE  /\ All' = Pruned(All) /\ dir' = Unlinked(dir, All)
           /\ cur' = NoCheckpoint /\ done' = Pruned(All)
<1>1. Closed = All
  BY DEF Closed, All
<1>2. QED
  BY <1>1 DEF KeepFinalized, All

\* Changing the open checkpoint.
LEMMA CurIs ==
    ASSUME StoreTypeOK, cur # NoCheckpoint, NEW c \in CheckpointType, c.turn = cur.turn,
           cur' = c, dir' \in Written(c), done' = done
    PROVE  Len(All) \in DOMAIN All /\ All[Len(All)] = cur /\ Revised(Len(All), c)
<1>1. cur \in CheckpointType /\ All = Append(done, cur) /\ done \in Seq(CheckpointType)
  BY AllIs DEF StoreTypeOK
<1>2. c # NoCheckpoint
  BY CheckpointIs
<1>3. All' = Append(done, c)
  BY <1>2 DEF All
<1>4. Len(All) = Len(done) + 1 /\ Len(All) \in DOMAIN All /\ All[Len(All)] = cur
  BY <1>1
<1>5. Append(done, c) = [Append(done, cur) EXCEPT ![Len(done) + 1] = c]
  <2> DEFINE s == Append(done, c)
             a == Append(done, cur)
             t == [a EXCEPT ![Len(done) + 1] = c]
  <2>1. s \in Seq(CheckpointType) /\ Len(s) = Len(done) + 1
        /\ \A i \in 1..(Len(done) + 1) : s[i] = IF i = Len(done) + 1 THEN c ELSE done[i]
    BY <1>1
  <2>2. a \in Seq(CheckpointType) /\ Len(a) = Len(done) + 1 /\ Len(done) \in Nat
        /\ \A i \in 1..(Len(done) + 1) : a[i] = IF i = Len(done) + 1 THEN cur ELSE done[i]
    BY <1>1
  <2> HIDE DEF a
  <2>3. t \in Seq(CheckpointType) /\ Len(t) = Len(done) + 1
        /\ \A i \in 1..(Len(done) + 1) : t[i] = IF i = Len(done) + 1 THEN c ELSE done[i]
    BY <2>2
  <2> HIDE DEF s, t
  <2>4. s = t
    BY <2>1, <2>3, SeqEqual
  <2>5. QED
    BY <2>4 DEF s, t, a
<1>6. QED
  BY <1>1, <1>3, <1>4, <1>5 DEF Revised

\* Snapshot
LEMMA SnapshotIs ==
    ASSUME StoreTypeOK, NEW f \in Files, StoreSnapshot(f), done' = done
    PROVE  \/ (cur = NoCheckpoint \/ f \in Snapped(cur)) /\ UNCHANGED <<cur, dir>>
           \/ /\ cur # NoCheckpoint /\ f \notin Snapped(cur)
              /\ cur' = Snap(cur, f, [pre |-> fs[f], post |-> NoHash])
              /\ cur' \in CheckpointType
              /\ Len(All) \in DOMAIN All /\ All[Len(All)] = cur /\ Revised(Len(All), cur')
<1>1. CASE cur = NoCheckpoint \/ f \in Snapped(cur)
  BY <1>1 DEF StoreSnapshot
<1>2. CASE ~(cur = NoCheckpoint \/ f \in Snapped(cur))
  <2> DEFINE c == Snap(cur, f, [pre |-> fs[f], post |-> NoHash])
  <2>1. cur' = c /\ dir' \in Written(c)
    BY <1>2 DEF StoreSnapshot, Snap
  <2>2. cur \in CheckpointType /\ [pre |-> fs[f], post |-> NoHash] \in Snapshots
    BY <1>2 DEF StoreTypeOK, Snapshots
  <2>3. c \in CheckpointType /\ c.turn = cur.turn
    BY <2>2, SnapIs
  <2> HIDE DEF c
  <2>4. Len(All) \in DOMAIN All /\ All[Len(All)] = cur /\ Revised(Len(All), c)
    BY <1>2, <2>1, <2>3, CurIs
  <2>5. QED
    BY <1>2, <2>1, <2>3, <2>4 DEF c
<1>3. QED
  BY <1>1, <1>2

\* NotePostEdit
LEMMA NoteIs ==
    ASSUME StoreTypeOK, NEW f \in Files, StoreNote(f), done' = done
    PROVE  \/ cur = NoCheckpoint /\ UNCHANGED <<cur, dir>>
           \/ /\ cur # NoCheckpoint
              /\ cur' = IF f \in Snapped(cur)
                        THEN Snap(cur, f, [pre |-> cur.snaps[f].pre, post |-> HashOf(fs[f])]) ELSE cur
              /\ cur' \in CheckpointType
              /\ Len(All) \in DOMAIN All /\ All[Len(All)] = cur /\ Revised(Len(All), cur')
<1>1. CASE cur = NoCheckpoint
  BY <1>1 DEF StoreNote
<1>2. CASE cur # NoCheckpoint
  <2> DEFINE x == [pre |-> cur.snaps[f].pre, post |-> HashOf(fs[f])]
             c == IF f \in Snapped(cur) THEN Snap(cur, f, x) ELSE cur
  <2>1. cur \in CheckpointType /\ (f \in Snapped(cur) => cur.snaps[f] \in Snapshots /\ x \in Snapshots)
    <3>1. cur \in CheckpointType /\ fs[f] \in Contents
      BY <1>2 DEF StoreTypeOK
    <3>2. f \in Snapped(cur) => cur.snaps[f] \in Snapshots
      BY <3>1, SnappedIs
    <3>3. HashOf(fs[f]) \in Contents \cup {NoHash}
      BY <3>1, ContentsAre
    <3>4. QED
      BY <3>1, <3>2, <3>3 DEF Snapshots
  <2>2. f \in Snapped(cur) => [cur EXCEPT !.snaps[f].post = HashOf(fs[f])] = Snap(cur, f, x)
    BY <2>1 DEF Snap, Snapshots, CheckpointType
  <2>3. cur' = c /\ dir' \in Written(c)
    BY <1>2, <2>2 DEF StoreNote
  <2>4. c \in CheckpointType /\ c.turn = cur.turn
    BY <2>1, SnapIs
  <2> HIDE DEF c
  <2>5. Len(All) \in DOMAIN All /\ All[Len(All)] = cur /\ Revised(Len(All), c)
    BY <1>2, <2>3, <2>4, CurIs
  <2>6. QED
    BY <1>2, <2>3, <2>4, <2>5 DEF c
<1>3. QED
  BY <1>1, <1>2

LEMMA MarkedIs ==
    ASSUME NEW c \in CheckpointType
    PROVE  /\ MarkedPost(c) \in CheckpointType /\ MarkedPost(c).turn = c.turn
           /\ \A f \in Files : MarkedPost(c).snaps[f] =
                IF f \in Snapped(c) THEN [pre |-> c.snaps[f].pre, post |-> HashOf(c.snaps[f].pre)] ELSE c.snaps[f]
<1>1. \A f \in Snapped(c) : /\ c.snaps[f] \in Snapshots
                            /\ [c.snaps[f] EXCEPT !.post = HashOf(c.snaps[f].pre)]
                                 = [pre |-> c.snaps[f].pre, post |-> HashOf(c.snaps[f].pre)]
                            /\ [pre |-> c.snaps[f].pre, post |-> HashOf(c.snaps[f].pre)] \in Snapshots
  BY SnappedIs, ContentsAre DEF Snapshots
<1> DEFINE new == [f \in Files |-> IF f \in Snapped(c)
                       THEN [pre |-> c.snaps[f].pre, post |-> HashOf(c.snaps[f].pre)] ELSE c.snaps[f]]
<1>2. MarkedPost(c) = [c EXCEPT !.snaps = new]
  BY <1>1 DEF MarkedPost
<1>3. new \in [Files -> Snapshots \cup {NoSnap}]
  BY <1>1, SnappedIs
<1> HIDE DEF new
<1>4. MarkedPost(c) \in CheckpointType /\ MarkedPost(c).turn = c.turn /\ MarkedPost(c).snaps = new
  BY <1>2, <1>3 DEF CheckpointType
<1>5. QED
  BY <1>4 DEF new

\* The marks of KeepCurrent
LEMMA MarkIs ==
    ASSUME StoreTypeOK, KeepMarked
    PROVE  /\ cur' = cur
           /\ \/ UNCHANGED <<done, dir>> /\ ~(done # <<>> /\ done[Len(done)].turn = rw.keep)
              \/ LET k == Len(done)
                     c == MarkedPost(done[k])
                 IN  /\ done # <<>> /\ done[k].turn = rw.keep
                     /\ k \in DOMAIN done /\ k \in DOMAIN All /\ All[k] = done[k] /\ c \in CheckpointType
                     /\ done' = [done EXCEPT ![k] = c]
                     /\ Revised(k, c)
<1>1. CASE ~(done # <<>> /\ done[Len(done)].turn = rw.keep)
  BY <1>1 DEF KeepMarked
<1>2. CASE done # <<>> /\ done[Len(done)].turn = rw.keep
  <2> DEFINE k == Len(done)
             c == MarkedPost(done[k])
  <2>1. done \in Seq(CheckpointType) /\ k \in DOMAIN done /\ done[k] \in CheckpointType
    BY <1>2 DEF StoreTypeOK
  <2>2. c \in CheckpointType /\ c.turn = done[k].turn
    BY <2>1, MarkedIs
  <2>3. done' = [done EXCEPT ![k] = c] /\ dir' \in Written(c) /\ cur' = cur
    BY <1>2 DEF KeepMarked
  <2> HIDE DEF c
  <2>4. k \in DOMAIN All /\ All[k] = done[k]
    BY <2>1, AllIs
  <2>5. All' = [All EXCEPT ![k] = c]
    <3>1. CASE cur = NoCheckpoint
      BY <2>3, <3>1 DEF All
    <3>2. CASE cur # NoCheckpoint
      <4>1. All = Append(done, cur) /\ All' = Append([done EXCEPT ![k] = c], cur) /\ cur \in CheckpointType
        BY <2>3, <3>2 DEF All, StoreTypeOK
      <4>2. Append([done EXCEPT ![k] = c], cur) = [Append(done, cur) EXCEPT ![k] = c]
        <5> DEFINE n == Len(done)
                   d == [done EXCEPT ![k] = c]
                   s == Append(d, cur)
                   a == Append(done, cur)
                   t == [a EXCEPT ![k] = c]
        <5>1. d \in Seq(CheckpointType) /\ Len(d) = n /\ n \in Nat /\ DOMAIN done = 1..n
              /\ \A i \in 1..n : d[i] = IF i = k THEN c ELSE done[i]
          BY <2>1, <2>2
        <5>2. a \in Seq(CheckpointType) /\ Len(a) = n + 1 /\ a[n + 1] = cur
              /\ \A i \in 1..n : a[i] = done[i]
          BY <2>1, <4>1
        <5> HIDE DEF d, a, k
        <5>3. s \in Seq(CheckpointType) /\ Len(s) = n + 1 /\ s[n + 1] = cur
              /\ \A i \in 1..n : s[i] = d[i]
          BY <4>1, <5>1
        <5>4. t \in Seq(CheckpointType) /\ Len(t) = n + 1
              /\ \A i \in 1..(n + 1) : t[i] = IF i = k THEN c ELSE a[i]
          BY <2>1, <2>2, <5>1, <5>2
        <5> HIDE DEF s, t, n
        <5>5. ASSUME NEW i \in 1..(n + 1) PROVE s[i] = t[i]
          <6>1. CASE i \in 1..n
            BY <5>1, <5>2, <5>3, <5>4, <5>5, <6>1
          <6>2. CASE i = n + 1
            <7>1. i # k
              BY <2>1, <5>1, <6>2
            <7>2. QED
              BY <5>2, <5>3, <5>4, <6>2, <7>1
          <6>3. QED
            BY <5>1, <6>1, <6>2
        <5>6. s = t
          BY <5>3, <5>4, <5>5, SeqEqual
        <5>7. QED
          BY <5>6 DEF s, t, d, a
      <4>3. QED
        BY <4>1, <4>2
    <3>3. QED
      BY <3>1, <3>2
  <2>6. QED
    BY <1>2, <2>1, <2>2, <2>3, <2>4, <2>5 DEF Revised, c
<1>3. QED
  BY <1>1, <1>2 DEF KeepMarked

-----------------------------------------------------------------------------
(* Types.                                                                  *)

Places ==
    /\ turnAt = "numbered" => num \in Turns
    /\ edit.at # "none" => turnAt = "open" /\ edit.file \in Files
    /\ edit.at = "snapped" => used.writes < MaxWrites
    /\ rw.at # "idle" => rw.turn \in Turns
    /\ rw.at = "write" => rw.paths \subseteq DOMAIN rw.plan

TypedInv == StoreTypeOK /\ Places /\ Keyed(dir)

StoreTyped ==
    /\ done \in Seq(CheckpointType)
    /\ cur \in CheckpointType \cup {NoCheckpoint}
    /\ dir \in Directories
    /\ Keyed(dir)

LEMMA BeginTyped ==
    ASSUME TypedInv, NEW n \in Turns, StoreBegin(n)
    PROVE  StoreTyped'
<1>1. All \in Seq(CheckpointType) /\ Checkpoint(n) \in CheckpointType /\ Checkpoint(n).turn = n
  BY AllIs, CheckpointIs DEF TypedInv
<1>2. done' \in Seq(CheckpointType) /\ cur' \in CheckpointType
  BY <1>1, BeginIs, PrunedIs DEF TypedInv
<1>3. ASSUME NEW stored \in {Checkpoint(n), TornFile}
      PROVE  [dir EXCEPT ![n] = stored] \in Directories /\ Keyed([dir EXCEPT ![n] = stored])
  BY <1>1, ReadableIs DEF TypedInv, StoreTypeOK, Directories, Keyed
<1>4. dir' \in Directories /\ Keyed(dir')
  <2>1. PICK stored \in {Checkpoint(n), TornFile} : dir' = Unlinked([dir EXCEPT ![n] = stored], All)
    BY BeginIs DEF TypedInv
  <2>2. QED
    BY <1>3, <2>1, UnlinkedIs
<1>5. QED
  BY <1>2, <1>4 DEF StoreTyped

LEMMA WrittenTyped ==
    ASSUME TypedInv, NEW c \in CheckpointType, NEW d \in Written(c)
    PROVE  d \in Directories /\ Keyed(d)
<1>1. PICK stored \in {c, TornFile} : d = [dir EXCEPT ![c.turn] = stored]
  BY WrittenIs
<1>2. QED
  BY <1>1, CheckpointIs, ReadableIs DEF TypedInv, StoreTypeOK, Directories, Keyed

LEMMA CurTyped ==
    ASSUME TypedInv, done' = done,
           \/ UNCHANGED <<cur, dir>>
           \/ cur' \in CheckpointType /\ dir' \in Written(cur')
    PROVE  StoreTyped'
<1>1. \A c \in CheckpointType : \A d \in Written(c) : d \in Directories /\ Keyed(d)
  BY WrittenTyped
<1>2. done' \in Seq(CheckpointType) /\ cur' \in CheckpointType \cup {NoCheckpoint}
  BY DEF TypedInv, StoreTypeOK
<1>3. dir' \in Directories /\ Keyed(dir')
  <2>1. CASE UNCHANGED <<cur, dir>>
    BY <2>1 DEF TypedInv, StoreTypeOK, Directories
  <2>2. CASE cur' \in CheckpointType /\ dir' \in Written(cur')
    BY <1>1, <2>2
  <2>3. QED
    BY <2>1, <2>2
<1>4. QED
  BY <1>2, <1>3 DEF StoreTyped

LEMMA SnapshotTyped ==
    ASSUME TypedInv, NEW f \in Files, StoreSnapshot(f), done' = done
    PROVE  StoreTyped'
BY SnapshotIs, CurTyped DEF TypedInv, Revised

LEMMA NoteTyped ==
    ASSUME TypedInv, NEW f \in Files, StoreNote(f), done' = done
    PROVE  StoreTyped'
BY NoteIs, CurTyped DEF TypedInv, Revised

LEMMA FinalizeTyped ==
    ASSUME TypedInv, KeepFinalized
    PROVE  StoreTyped'
<1>1. done' \in Seq(CheckpointType) /\ cur' = NoCheckpoint
  BY AllIs, PrunedIs, FinalizeIs DEF TypedInv
<1>2. dir' \in Directories /\ Keyed(dir')
  BY FinalizeIs, UnlinkedIs DEF TypedInv, StoreTypeOK, Directories
<1>3. QED
  BY <1>1, <1>2 DEF StoreTyped

LEMMA MarkTyped ==
    ASSUME TypedInv, KeepMarked
    PROVE  StoreTyped'
<1>1. cur' \in CheckpointType \cup {NoCheckpoint}
  BY MarkIs DEF TypedInv, StoreTypeOK
<1>2. CASE UNCHANGED <<done, dir>>
  BY <1>1, <1>2 DEF TypedInv, StoreTypeOK, StoreTyped, Directories
<1>3. ASSUME NEW k \in DOMAIN done, NEW c \in CheckpointType, done' = [done EXCEPT ![k] = c], Revised(k, c)
      PROVE  StoreTyped'
  <2>1. done' \in Seq(CheckpointType)
    BY <1>3 DEF TypedInv, StoreTypeOK
  <2>2. dir' \in Directories /\ Keyed(dir')
    BY <1>3, WrittenTyped DEF Revised
  <2>3. QED
    BY <1>1, <2>1, <2>2 DEF StoreTyped
<1>4. QED
  BY <1>2, <1>3, MarkIs DEF TypedInv

LEMMA LoadTyped ==
    ASSUME TypedInv, CrashAndResume
    PROVE  StoreTyped' /\ cpTurn' \in Nat /\ bound' \subseteq Nat
<1>1. Loaded \in Seq(CheckpointType) /\ dir \in Directories
  BY LoadedIs DEF TypedInv, StoreTypeOK, Directories
<1>2. done' = Pruned(Loaded) /\ done' \in Seq(CheckpointType) /\ cur' = NoCheckpoint
  BY <1>1, PrunedIs DEF CrashAndResume
<1>3. dir' \in Directories /\ Keyed(dir')
  BY <1>1, UnlinkedIs DEF TypedInv, CrashAndResume
<1>4. \A i \in DOMAIN done' : done'[i].turn \in Turns /\ done'[i].turn \in Nat
  BY <1>2, CheckpointIs
<1>5. cpTurn' \in Nat /\ bound' \subseteq Nat
  <2> DEFINE ns == {done'[i].turn : i \in DOMAIN done'}
  <2>1. ns \in SUBSET Turns /\ ns \subseteq Nat
    BY <1>4
  <2>2. cpTurn' = NextNumber(ns) /\ bound' = ns
    BY DEF CrashAndResume
  <2>3. QED
    BY <2>1, <2>2, NextIs, Zenon
<1>6. QED
  BY <1>2, <1>3, <1>5 DEF StoreTyped

LEMMA StoreTypedSuffices ==
    ASSUME TypedInv, UNCHANGED storeVars
    PROVE  StoreTyped'
BY DEF TypedInv, StoreTypeOK, StoreTyped, storeVars, Directories

LEMMA SuffixPathsAre ==
    ASSUME TypedInv, NEW n
    PROVE  /\ SuffixPaths(n) \subseteq Files
           /\ [f \in SuffixPaths(n) |-> Earliest(n, f)] \in Plans
<1>1. SuffixPaths(n) \in SUBSET Files
  BY DEF SuffixPaths
<1>2. ASSUME NEW f \in SuffixPaths(n) PROVE Earliest(n, f) \in Contents
  <2>1. PICK i \in Suffix(n, f) : Earliest(n, f) = All[i].snaps[f].pre
    BY EarliestIs DEF TypedInv
  <2>2. All[i] \in CheckpointType /\ f \in Snapped(All[i])
    BY AllIs DEF TypedInv, Suffix
  <2>3. All[i].snaps[f] \in Snapshots
    BY <2>2, SnappedIs
  <2>4. QED
    BY <2>1, <2>3 DEF Snapshots
<1>3. [f \in SuffixPaths(n) |-> Earliest(n, f)] \in [SuffixPaths(n) -> Contents]
  BY <1>2
<1>4. QED
  BY <1>1, <1>3 DEF Plans

\* The variables beside the store's.
RestTyped ==
    /\ fs \in [Files -> Contents]
    /\ author \subseteq Files
    /\ cpTurn \in Nat
    /\ bound \subseteq Nat
    /\ turnAt \in {"idle", "numbered", "open"}
    /\ num \in Turns \cup {-1}
    /\ edit \in [file : Files \cup {"none"}, at : {"none", "snapped", "written"}]
    /\ rw \in [at : {"idle", "log", "code", "keep", "snap", "mark", "restore", "write"},
              turn : Turns \cup {-1}, scope : {"none", "code", "conversation", "both"},
              keep : Int, paths : SUBSET Files, plan : Plans]
    /\ origin \in [Turns -> [fs : [Files -> Contents], foreign : SUBSET Files]]
    /\ blurred \subseteq Files
    /\ dirty \in BOOLEAN
    /\ used \in [turns : 0..MaxUserTurns, writes : 0..MaxWrites, rewinds : 0..MaxRewinds, faults : 0..MaxFaults]

LEMMA TypedParts == TypedInv <=> StoreTyped /\ RestTyped /\ Places
BY DEF TypedInv, StoreTyped, RestTyped, StoreTypeOK, Directories

LEMMA TypedInit == StoreInit => TypedInv
<1> SUFFICES ASSUME StoreInit PROVE TypedInv
  OBVIOUS
<1>1. StoreTyped
  BY TurnsAre, ReadableIs DEF StoreInit, StoreTyped, Directories, Keyed
<1>2. NoPlan \in Plans
  <2>1. NoPlan \in [{} -> Contents]
    BY DEF NoPlan
  <2>2. QED
    BY <2>1 DEF Plans
<1>3. fs \in [Files -> Contents]
  BY ContentsAre DEF StoreInit
<1>4. RestTyped
  <2>1. rw \in [at : {"idle"}, turn : {-1}, scope : {"none"}, keep : Int, paths : SUBSET Files, plan : Plans]
    BY <1>2 DEF StoreInit, NoRewind
  <2>2. origin \in [Turns -> [fs : [Files -> Contents], foreign : SUBSET Files]]
    BY <1>3 DEF StoreInit
  <2>3. used \in [turns : 0..MaxUserTurns, writes : 0..MaxWrites, rewinds : 0..MaxRewinds, faults : 0..MaxFaults]
    BY TurnsAre DEF StoreInit
  <2>4. QED
    BY <1>3, <2>1, <2>2, <2>3 DEF StoreInit, RestTyped, NoEdit
<1>5. Places
  BY DEF StoreInit, Places, NoEdit, NoRewind
<1>6. QED
  BY <1>1, <1>4, <1>5, TypedParts

LEMMA TypedStep == TypedInv /\ [StoreNext]_cpVars => TypedInv'
<1> SUFFICES ASSUME TypedInv, [StoreNext]_cpVars PROVE TypedInv'
  OBVIOUS
<1> USE TurnsAre
<1>0. StoreTyped /\ RestTyped /\ Places
  BY TypedParts
<1>1. SUFFICES StoreTyped' /\ RestTyped' /\ Places'
  <2>1. TypedInv' <=> (StoreTyped' /\ RestTyped' /\ Places')
    BY TypedParts, PTL
  <2>2. QED
    BY <2>1
<1>2. NoPlan \in Plans /\ NoRewind \in [at : {"idle"}, turn : {-1}, scope : {"none"}, keep : Int, paths : SUBSET Files, plan : Plans]
  <2>1. NoPlan \in [{} -> Contents]
    BY DEF NoPlan
  <2>2. NoPlan \in Plans
    BY <2>1 DEF Plans
  <2>3. QED
    BY <2>2 DEF NoRewind
<1>3. CASE TurnBegins
  BY <1>0, <1>3, StoreTypedSuffices DEF TurnBegins, RestTyped, Places, fileVars
<1>4. CASE OpensCheckpoint
  <2>1. num \in Turns
    BY <1>0, <1>4 DEF OpensCheckpoint, Places
  <2>2. StoreTyped'
    BY <1>4, <2>1, BeginTyped DEF OpensCheckpoint
  <2>3. RestTyped' /\ Places'
    BY <1>0, <1>4, <2>1 DEF OpensCheckpoint, RestTyped, Places, fileVars, ctlVars
  <2>4. QED
    BY <2>2, <2>3
<1>5. ASSUME NEW f \in Files, PreEdit(f) PROVE StoreTyped' /\ RestTyped' /\ Places'
  <2>1. StoreTyped'
    BY <1>5, SnapshotTyped DEF PreEdit
  <2>2. RestTyped' /\ Places'
    BY <1>0, <1>5 DEF PreEdit, RestTyped, Places, fileVars, ctlVars
  <2>3. QED
    BY <2>1, <2>2
<1>6. ASSUME NEW f \in Files, Executes(f) PROVE StoreTyped' /\ RestTyped' /\ Places'
  <2>1. used.writes < MaxWrites /\ used.writes \in Nat /\ used.faults \in 0..MaxFaults
    BY <1>0, <1>6 DEF Executes, Places, RestTyped
  <2>2. 1 + used.writes + used.faults \in Contents /\ Absent \in Contents
    BY <2>1, ContentsAre DEF Contents, Absent
  <2>3. fs' \in [Files -> Contents]
    BY <1>0, <1>6, <2>2 DEF Executes, RestTyped, fileVars
  <2>4. RestTyped' /\ Places'
    BY <1>0, <1>6, <2>1, <2>3 DEF Executes, RestTyped, Places, fileVars, ctlVars, NoEdit
  <2>5. QED
    BY <1>6, <2>4, StoreTypedSuffices DEF Executes
<1>7. ASSUME NEW f \in Files, PostEdit(f) PROVE StoreTyped' /\ RestTyped' /\ Places'
  <2>1. StoreTyped'
    BY <1>7, NoteTyped DEF PostEdit
  <2>2. RestTyped' /\ Places'
    BY <1>0, <1>7 DEF PostEdit, RestTyped, Places, fileVars, ctlVars, NoEdit
  <2>3. QED
    BY <2>1, <2>2
<1>8. ASSUME NEW f \in Files, Foreign(f) PROVE StoreTyped' /\ RestTyped' /\ Places'
  <2>1. used.faults < MaxFaults /\ used.writes \in 0..MaxWrites /\ used.faults \in Nat
    BY <1>0, <1>8 DEF Foreign, RestTyped
  <2>2. 1 + used.writes + used.faults \in Contents
    BY <2>1, ContentsAre DEF Contents, Absent
  <2>3. fs' \in [Files -> Contents]
    BY <1>0, <1>8, <2>2 DEF Foreign, RestTyped
  <2>4. origin' \in [Turns -> [fs : [Files -> Contents], foreign : SUBSET Files]]
    BY <1>0, <1>8, SMTT(20) DEF Foreign, RestTyped
  <2>5. used' \in [turns : 0..MaxUserTurns, writes : 0..MaxWrites, rewinds : 0..MaxRewinds, faults : 0..MaxFaults]
        /\ used'.writes = used.writes
    BY <1>0, <1>8, <2>1 DEF Foreign, RestTyped
  <2>6. author' \subseteq Files /\ blurred' \subseteq Files
    BY <1>0, <1>8 DEF Foreign, RestTyped
  <2>7. RestTyped'
    <3>1. UNCHANGED <<cpTurn, bound, turnAt, num, edit, rw, dirty>>
      BY <1>8 DEF Foreign, ctlVars
    <3>2. QED
      BY <1>0, <2>3, <2>4, <2>5, <2>6, <3>1 DEF RestTyped
  <2>8. Places'
    BY <1>0, <1>8, <2>5 DEF Foreign, Places
  <2>9. QED
    BY <1>8, <2>7, <2>8, StoreTypedSuffices DEF Foreign
<1>9. ASSUME NEW f \in Files, KeepSnapshots(f) PROVE StoreTyped' /\ RestTyped' /\ Places'
  <2>1. StoreTyped'
    BY <1>9, SnapshotTyped DEF KeepSnapshots
  <2>2. RestTyped' /\ Places'
    BY <1>0, <1>9 DEF KeepSnapshots, RestTyped, Places, fileVars, ctlVars
  <2>3. QED
    BY <2>1, <2>2
<1>10. ASSUME NEW f \in Files, RestoresFile(f) PROVE StoreTyped' /\ RestTyped' /\ Places'
  <2>1. rw.plan \in Plans /\ f \in DOMAIN rw.plan
    BY <1>0, <1>10 DEF RestoresFile, RestTyped, Places
  <2>2. rw.plan[f] \in Contents
    BY <2>1 DEF Plans
  <2>3. RestTyped' /\ Places'
    BY <1>0, <1>10, <2>2 DEF RestoresFile, RestTyped, Places, ctlVars
  <2>4. QED
    BY <1>10, <2>3, StoreTypedSuffices DEF RestoresFile
<1>11. CASE TurnEnds
  BY <1>0, <1>11, StoreTypedSuffices DEF TurnEnds, RestTyped, Places, fileVars, ctlVars, NoEdit
<1>12. ASSUME NEW t \in Turns, NEW scope \in {"code", "conversation", "both"}, RewindBegins(t, scope)
       PROVE  StoreTyped' /\ RestTyped' /\ Places'
  <2>1. rw' \in [at : {"log", "code"}, turn : Turns, scope : {"code", "conversation", "both"}, keep : Int, paths : SUBSET Files, plan : Plans]
    BY <1>2, <1>12 DEF RewindBegins
  <2>2. RestTyped' /\ Places'
    BY <1>0, <1>12, <2>1 DEF RewindBegins, RestTyped, Places, fileVars, ctlVars
  <2>3. QED
    BY <1>12, <2>2, StoreTypedSuffices DEF RewindBegins
<1>13. CASE LogCompacted
  BY <1>0, <1>2, <1>13, StoreTypedSuffices DEF LogCompacted, RestTyped, Places, fileVars, ctlVars
<1>14. CASE LogRewound
  <2>1. rw.turn \in Turns /\ rw.turn \in Nat
    BY <1>0, <1>14 DEF LogRewound, Places
  <2>2. RestTyped' /\ Places'
    BY <1>0, <1>2, <1>14, <2>1 DEF LogRewound, RestTyped, Places, fileVars
  <2>3. QED
    BY <1>14, <2>2, StoreTypedSuffices DEF LogRewound
<1>15. CASE KeepNumbered
  <2>1. SuffixPaths(rw.turn) \subseteq Files /\ NextNumber(Numbers) \in Int
    <3>1. Numbers \in SUBSET Turns
      BY AllIs DEF TypedInv
    <3>2. NextNumber(Numbers) \in Nat
      BY <3>1, NextIs, Zenon
    <3>3. SuffixPaths(rw.turn) \subseteq Files
      BY SuffixPathsAre, Zenon
    <3>4. QED
      BY <3>2, <3>3
  <2>2. RestTyped' /\ Places'
    BY <1>0, <1>15, <2>1 DEF KeepNumbered, RestTyped, Places, fileVars, ctlVars
  <2>3. QED
    BY <1>15, <2>2, StoreTypedSuffices DEF KeepNumbered
<1>16. CASE KeepBegins
  <2>1. StoreTyped'
    BY <1>16, BeginTyped DEF KeepBegins
  <2>2. RestTyped' /\ Places'
    BY <1>0, <1>16 DEF KeepBegins, Moves, RestTyped, Places, fileVars, ctlVars
  <2>3. QED
    BY <2>1, <2>2
<1>17. CASE KeepFinalized
  <2>1. RestTyped' /\ Places'
    BY <1>0, <1>17 DEF KeepFinalized, Moves, RestTyped, Places, fileVars, ctlVars
  <2>2. QED
    BY <1>17, <2>1, FinalizeTyped
<1>18. CASE KeepMarked
  <2>1. RestTyped' /\ Places'
    BY <1>0, <1>18 DEF KeepMarked, Moves, RestTyped, Places, fileVars, ctlVars
  <2>2. QED
    BY <1>18, <2>1, MarkTyped
<1>19. CASE RestorePlanned
  <2> DEFINE p == SuffixPaths(rw.turn)
             g == [f \in SuffixPaths(rw.turn) |-> Earliest(rw.turn, f)]
  <2>1. p \subseteq Files /\ g \in Plans /\ DOMAIN g = p
    BY SuffixPathsAre
  <2>2. rw' = [rw EXCEPT !.at = "write", !.paths = p, !.plan = g]
    BY <1>19 DEF RestorePlanned
  <2> HIDE DEF p, g
  <2>3. /\ rw.at = "restore"
        /\ UNCHANGED <<fs, author, cpTurn, bound, turnAt, num, edit, origin, blurred, dirty, used>>
    BY <1>19 DEF RestorePlanned, fileVars, ctlVars
  <2>4. RestTyped'
    BY <1>0, <2>1, <2>2, <2>3 DEF RestTyped
  <2>5. Places'
    <3>1. rw'.turn = rw.turn /\ rw'.at = "write" /\ rw'.paths = p /\ rw'.plan = g
      BY <1>0, <2>2 DEF RestTyped
    <3>2. QED
      BY <1>0, <2>1, <2>3, <3>1 DEF Places
  <2>6. QED
    BY <1>19, <2>4, <2>5, StoreTypedSuffices DEF RestorePlanned
<1>20. CASE RewindEnds
  BY <1>0, <1>2, <1>20, StoreTypedSuffices DEF RewindEnds, RestTyped, Places, fileVars, ctlVars
<1>21. CASE Summarizes
  BY <1>0, <1>21, StoreTypedSuffices DEF Summarizes, RestTyped, Places, fileVars, ctlVars
<1>22. CASE CrashAndResume
  <2>1. StoreTyped' /\ cpTurn' \in Nat /\ bound' \subseteq Nat
    BY <1>22, LoadTyped
  <2>2. RestTyped' /\ Places'
    <3>1. origin' \in [Turns -> [fs : [Files -> Contents], foreign : SUBSET Files]]
      BY <1>0, <1>22 DEF CrashAndResume, RestTyped, LostSince
    <3>2. /\ turnAt' = "idle" /\ num' = -1 /\ edit' = NoEdit /\ rw' = NoRewind
          /\ used.faults < MaxFaults /\ used' = [used EXCEPT !.faults = @ + 1]
          /\ UNCHANGED <<fs, author, blurred, dirty>>
      BY <1>22 DEF CrashAndResume, fileVars
    <3>3. used' \in [turns : 0..MaxUserTurns, writes : 0..MaxWrites, rewinds : 0..MaxRewinds, faults : 0..MaxFaults]
      BY <1>0, <3>2 DEF RestTyped
    <3>4. rw' \in [at : {"idle"}, turn : {-1}, scope : {"none"}, keep : Int, paths : SUBSET Files, plan : Plans]
          /\ rw'.at = "idle" /\ edit' = [file |-> "none", at |-> "none"]
      BY <1>2, <3>2 DEF NoEdit
    <3>5. RestTyped'
      BY <1>0, <2>1, <3>1, <3>2, <3>3, <3>4 DEF RestTyped
    <3>6. QED
      BY <3>2, <3>4, <3>5 DEF Places
  <2>3. QED
    BY <2>1, <2>2
<1>23. CASE UNCHANGED cpVars
  BY <1>0, <1>23, StoreTypedSuffices DEF cpVars, RestTyped, Places, fileVars, ctlVars
<1>24. QED
  BY <1>3, <1>4, <1>5, <1>6, <1>7, <1>8, <1>9, <1>10, <1>11, <1>12, <1>13, <1>14, <1>15, <1>16, <1>17, <1>18,
     <1>19, <1>20, <1>21, <1>22, <1>23 DEF StoreNext

-----------------------------------------------------------------------------
(* While every number is used in order, the directory is the store.        *)

OrderInv == ~dirty => Increasing(All) /\ Holds(All, dir)

LEMMA RevisedOrder ==
    ASSUME TypedInv, Increasing(All), Holds(All, dir),
           NEW k \in DOMAIN All, NEW c \in CheckpointType, Revised(k, c)
    PROVE  Increasing(All') /\ Holds(All', dir')
<1>1. All \in Seq(CheckpointType) /\ dir \in Directories /\ c.turn = All[k].turn /\ All' = [All EXCEPT ![k] = c]
  BY AllIs DEF TypedInv, StoreTypeOK, Directories, Revised
<1>2. PICK stored \in {c, TornFile} : dir' = [dir EXCEPT ![c.turn] = stored]
  BY WrittenIs DEF Revised
<1>3. QED
  BY <1>1, <1>2, ReviseHolds

LEMMA BegunOrder ==
    ASSUME TypedInv, OrderInv, NEW n \in Turns, StoreBegin(n), ~dirty, ~(n < NextNumber(Numbers))
    PROVE  Increasing(All') /\ Holds(All', dir')
<1>1. Numbers \in SUBSET Turns /\ All \in Seq(CheckpointType) /\ dir \in Directories
  BY AllIs DEF TypedInv, StoreTypeOK, Directories
<1>2. NextNumber(Numbers) \in Nat /\ \A m \in Numbers : m < NextNumber(Numbers)
  BY <1>1, NextIs
<1>3. \A i \in DOMAIN All : All[i].turn < n
  <2>1. TAKE i \in DOMAIN All
  <2>2. All[i].turn \in Numbers /\ All[i].turn \in Nat /\ n \in Nat
    BY <1>1, TurnsAre DEF Numbers
  <2>3. QED
    BY <1>2, <2>2
<1>4. Increasing(All) /\ Holds(All, dir)
  BY DEF OrderInv
<1>5. PICK stored \in {Checkpoint(n), TornFile} : dir' = Unlinked([dir EXCEPT ![n] = stored], All)
  BY BeginIs DEF TypedInv
<1> DEFINE new == Append(Pruned(All), Checkpoint(n))
           d == Unlinked([dir EXCEPT ![n] = stored], All)
<1>6. Increasing(new) /\ Holds(new, d)
  BY <1>1, <1>3, <1>4, AppendHolds
<1>7. All' = new /\ dir' = d
  BY <1>5, BeginIs DEF TypedInv
<1>8. QED
  BY <1>6, <1>7, Zenon

LEMMA OrderStep == TypedInv /\ OrderInv /\ [StoreNext]_cpVars => OrderInv'
<1> SUFFICES ASSUME TypedInv, OrderInv, [StoreNext]_cpVars, ~dirty' PROVE Increasing(All') /\ Holds(All', dir')
  BY DEF OrderInv
<1> DEFINE Goal == Increasing(All') /\ Holds(All', dir')
<1>1. StoreTypeOK
  BY DEF TypedInv
<1>2. ~dirty => Increasing(All) /\ Holds(All, dir)
  BY DEF OrderInv
<1>3. ASSUME ~dirty, UNCHANGED <<done, cur, dir>> PROVE Goal
  <2>1. All' = All /\ dir' = dir
    BY <1>3 DEF All
  <2>2. QED
    BY <1>2, <1>3, <2>1
<1>4. ASSUME ~dirty, NEW k \in DOMAIN All, NEW c \in CheckpointType, Revised(k, c) PROVE Goal
  BY <1>2, <1>4, RevisedOrder
<1>5. CASE OpensCheckpoint
  <2>1. ~dirty /\ ~(num < NextNumber(Numbers)) /\ num \in Turns /\ StoreBegin(num)
    BY <1>5 DEF OpensCheckpoint, TypedInv, Places
  <2>2. QED
    BY <2>1, BegunOrder
<1>6. CASE KeepBegins
  <2>1. ~dirty /\ ~(rw.keep < NextNumber(Numbers)) /\ rw.keep \in Turns /\ StoreBegin(rw.keep)
    BY <1>6 DEF KeepBegins
  <2>2. QED
    BY <2>1, BegunOrder
<1>7. ASSUME NEW f \in Files, StoreSnapshot(f), done' = done, ~dirty PROVE Goal
  <2>1. CASE UNCHANGED <<cur, dir>>
    BY <1>3, <1>7, <2>1
  <2>2. CASE cur' \in CheckpointType /\ Len(All) \in DOMAIN All /\ Revised(Len(All), cur')
    BY <1>4, <1>7, <2>2
  <2>3. QED
    BY <1>1, <1>7, <2>1, <2>2, SnapshotIs
<1>8. ASSUME NEW f \in Files, PostEdit(f) PROVE Goal
  <2>1. StoreNote(f) /\ done' = done /\ ~dirty
    BY <1>8 DEF PostEdit
  <2>2. CASE UNCHANGED <<cur, dir>>
    BY <1>3, <2>1, <2>2
  <2>3. CASE cur' \in CheckpointType /\ Len(All) \in DOMAIN All /\ Revised(Len(All), cur')
    BY <1>4, <2>1, <2>3
  <2>4. QED
    BY <1>1, <2>1, <2>2, <2>3, NoteIs
<1>9. CASE KeepFinalized
  <2>1. ~dirty /\ All \in Seq(CheckpointType) /\ dir \in Directories
    BY <1>1, <1>9, AllIs DEF KeepFinalized, StoreTypeOK, Directories
  <2>2. All' = Pruned(All) /\ dir' = Unlinked(dir, All)
    BY <1>1, <1>9, FinalizeIs
  <2>3. QED
    BY <1>2, <2>1, <2>2, PruneHolds, Zenon
<1>10. CASE KeepMarked
  <2>1. ~dirty /\ cur' = cur
    BY <1>10 DEF KeepMarked
  <2>2. CASE UNCHANGED <<done, dir>>
    BY <1>3, <2>1, <2>2
  <2>3. CASE \E k \in DOMAIN All, c \in CheckpointType : Revised(k, c)
    BY <1>4, <2>1, <2>3
  <2>4. QED
    BY <1>1, <1>10, <2>2, <2>3, MarkIs
<1>11. CASE CrashAndResume
  <2>1. Loaded \in Seq(CheckpointType) /\ Increasing(Loaded) /\ Holds(Loaded, dir) /\ dir \in Directories
    BY LoadedIs DEF TypedInv, StoreTypeOK, Directories
  <2>2. All' = Pruned(Loaded) /\ dir' = Unlinked(dir, Loaded)
    BY <1>11 DEF CrashAndResume, All
  <2>3. QED
    BY <2>1, <2>2, PruneHolds, Zenon
<1>12. CASE \E f \in Files : PreEdit(f) \/ KeepSnapshots(f)
  BY <1>7, <1>12 DEF PreEdit, KeepSnapshots
<1>13. CASE \/ TurnBegins \/ TurnEnds \/ LogCompacted \/ LogRewound \/ KeepNumbered \/ RestorePlanned
            \/ RewindEnds \/ Summarizes \/ UNCHANGED cpVars
  <2>1. UNCHANGED <<done, cur, dir>>
    BY <1>13 DEF TurnBegins, TurnEnds, LogCompacted, LogRewound, KeepNumbered, RestorePlanned, RewindEnds,
       Summarizes, cpVars, storeVars
  <2>2. ~dirty
    BY <1>13 DEF TurnBegins, TurnEnds, LogCompacted, LogRewound, KeepNumbered, RestorePlanned, RewindEnds,
       Summarizes, cpVars
  <2>3. QED
    BY <1>3, <2>1, <2>2
<1>14. CASE \E f \in Files : Executes(f) \/ Foreign(f) \/ RestoresFile(f)
  BY <1>3, <1>14 DEF Executes, Foreign, RestoresFile, storeVars
<1>15. ASSUME NEW t \in Turns, NEW scope, RewindBegins(t, scope) PROVE Goal
  BY <1>3, <1>15 DEF RewindBegins, storeVars
<1>16. QED
  BY <1>5, <1>6, <1>8, <1>9, <1>10, <1>11, <1>12, <1>13, <1>14, <1>15 DEF StoreNext

\* The controller's counter, the rewind and the store keep their types:
\* numbers stay below the bound, a plan maps files to contents, a snapshot
\* that is there has one.
THEOREM StoreTypesHold == StoreSpec => []StoreTypeOK
<1>1. StoreInit => TypedInv
  BY TypedInit
<1>2. TypedInv => StoreTypeOK
  BY DEF TypedInv
<1>3. QED
  BY <1>1, <1>2, TypedStep, PTL DEF StoreSpec

LEMMA OrderInit == StoreInit => OrderInv
<1> SUFFICES ASSUME StoreInit PROVE Increasing(All) /\ Holds(All, dir)
  BY DEF OrderInv
<1>1. All = <<>> /\ DOMAIN All = {}
  BY DEF StoreInit, All
<1>2. QED
  BY <1>1, ReadableIs DEF Increasing, Holds, StoreInit

\* After every step of Begin, Snapshot, NotePostEdit, Finalize, KeepCurrent and
\* load, checkpoint.go's directory holds each checkpoint of the list as it is in
\* memory, or its file torn, and no other checkpoint, whichever writes are left
\* torn, for any files and any limit, while numbers are used in order.
THEOREM StoreSurvives == StoreSpec => []DiskIsStore
<1>1. StoreInit => TypedInv /\ OrderInv
  BY TypedInit, OrderInit
<1>2. OrderInv => DiskIsStore
  BY DEF OrderInv, DiskIsStore, Holds, Numbers
<1>3. QED
  BY <1>1, <1>2, TypedStep, OrderStep, PTL DEF StoreSpec

-----------------------------------------------------------------------------
(* What the records say of a file.                                         *)

Entries == {All[i] : i \in DOMAIN All}
Records == Entries \cup {c \in {dir[n] : n \in Turns} : Readable(c)}

LEMMA RecordsAre ==
    ASSUME TypedInv
    PROVE  /\ \A c \in Records : c \in CheckpointType
           /\ \A i \in DOMAIN All : All[i] \in Records
BY AllIs DEF TypedInv, StoreTypeOK, Records, Entries, Readable

LEMMA RevisedRecords ==
    ASSUME TypedInv, NEW k \in DOMAIN All, NEW c \in CheckpointType, Revised(k, c)
    PROVE  Records' \subseteq Records \cup {c}
<1>1. All \in Seq(CheckpointType) /\ c.turn \in Turns
  BY AllIs, CheckpointIs DEF TypedInv
<1>2. DOMAIN All' = DOMAIN All /\ \A i \in DOMAIN All : All'[i] = IF i = k THEN c ELSE All[i]
  BY <1>1 DEF Revised
<1>3. \A n \in Turns : dir'[n] \in {c, TornFile, dir[n]}
  <2>1. PICK stored \in {c, TornFile} : dir' = [dir EXCEPT ![c.turn] = stored]
    BY WrittenIs DEF Revised
  <2>2. QED
    BY <2>1 DEF TypedInv, StoreTypeOK
<1>4. \A n \in Turns : Readable(dir'[n]) => dir'[n] \in {c, dir[n]}
  BY <1>3, ReadableIs
<1>5. QED
  BY <1>2, <1>4 DEF Records, Entries

LEMMA PrunedRecords ==
    ASSUME NEW s \in Seq(CheckpointType), NEW i \in DOMAIN Pruned(s)
    PROVE  \E k \in DOMAIN s : Pruned(s)[i] = s[k]
<1>1. /\ DOMAIN Pruned(s) = 1..(Len(s) - Excess(s))
      /\ \A j \in 1..(Len(s) - Excess(s)) : Excess(s) + j \in DOMAIN s /\ Pruned(s)[j] = s[Excess(s) + j]
  BY PrunedIs, Zenon
<1>2. QED
  BY <1>1, Zenon

LEMMA BegunRecords ==
    ASSUME TypedInv, NEW n \in Turns, StoreBegin(n)
    PROVE  Records' \subseteq Records \cup {Checkpoint(n)}
<1>1. /\ All' = Append(Pruned(All), Checkpoint(n))
      /\ \E stored \in {Checkpoint(n), TornFile} : dir' = Unlinked([dir EXCEPT ![n] = stored], All)
      /\ All \in Seq(CheckpointType) /\ Checkpoint(n) \in CheckpointType /\ Pruned(All) \in Seq(CheckpointType)
  BY BeginIs, AllIs, CheckpointIs, PrunedIs DEF TypedInv
<1>2. \A i \in DOMAIN All' : All'[i] = Checkpoint(n) \/ \E j \in DOMAIN Pruned(All) : All'[i] = Pruned(All)[j]
  BY <1>1
<1>3. \A i \in DOMAIN All' : All'[i] \in Records \cup {Checkpoint(n)}
  BY <1>1, <1>2, PrunedRecords DEF Records, Entries
<1>4. \A m \in Turns : dir'[m] \in {dir[m], Checkpoint(n), TornFile, NoCheckpoint}
  <2>1. PICK stored \in {Checkpoint(n), TornFile} : dir' = Unlinked([dir EXCEPT ![n] = stored], All)
    BY <1>1
  <2>2. \A m \in Turns : [dir EXCEPT ![n] = stored][m] \in {dir[m], Checkpoint(n), TornFile}
    BY DEF TypedInv, StoreTypeOK
  <2>3. QED
    BY <2>1, <2>2 DEF Unlinked
<1>5. \A m \in Turns : Readable(dir'[m]) => dir'[m] \in {dir[m], Checkpoint(n)}
  BY <1>4, ReadableIs
<1>6. QED
  BY <1>3, <1>5 DEF Records, Entries

LEMMA FinalizedRecords ==
    ASSUME TypedInv, KeepFinalized
    PROVE  Records' \subseteq Records
<1>1. All' = Pruned(All) /\ dir' = Unlinked(dir, All) /\ All \in Seq(CheckpointType)
  BY FinalizeIs, AllIs DEF TypedInv
<1>2. \A i \in DOMAIN All' : All'[i] \in Records
  BY <1>1, PrunedRecords DEF Records, Entries
<1>3. \A m \in Turns : dir'[m] \in {dir[m], NoCheckpoint}
  BY <1>1 DEF Unlinked
<1>4. QED
  BY <1>2, <1>3, ReadableIs DEF Records, Entries

LEMMA LoadedRecords ==
    ASSUME TypedInv, CrashAndResume
    PROVE  Records' \subseteq Records
<1>1. /\ Loaded \in Seq(CheckpointType) /\ dir \in Directories
      /\ \A i \in DOMAIN Loaded : dir[Loaded[i].turn] = Loaded[i]
  BY LoadedIs DEF TypedInv, StoreTypeOK, Directories
<1>2. All' = Pruned(Loaded) /\ dir' = Unlinked(dir, Loaded)
  BY DEF CrashAndResume, All
<1>3. \A i \in DOMAIN Loaded : Loaded[i] \in CheckpointType /\ Loaded[i].turn \in Turns /\ Readable(Loaded[i])
  BY <1>1, CheckpointIs, ReadableIs
<1>4. \A i \in DOMAIN Loaded : Loaded[i] \in Records
  BY <1>1, <1>3 DEF Records
<1>5. \A i \in DOMAIN All' : All'[i] \in Records
  BY <1>1, <1>2, <1>4, PrunedRecords
<1>6. \A m \in Turns : dir'[m] \in {dir[m], NoCheckpoint}
  BY <1>2 DEF Unlinked
<1>7. QED
  BY <1>5, <1>6, ReadableIs DEF Records, Entries

LEMMA KeptRecords ==
    ASSUME UNCHANGED <<done, cur, dir>>
    PROVE  Records' = Records
BY DEF Records, Entries, All

Clock == used.writes + used.faults
OlderThan(c, t) == \A f \in Files : c.snaps[f].pre <= t /\ c.snaps[f].post <= t

FreshInv ==
    /\ \A f \in Files : fs[f] <= Clock
    /\ \A f \in author : fs[f] >= 1
    /\ \A c \in Records : OlderThan(c, Clock)
    /\ rw.at = "write" => \A f \in DOMAIN rw.plan : rw.plan[f] <= Clock

\* A record whose hash is the present content of a file that somebody else
\* wrote last has that content as its snapshot too.
HonestOf(c) ==
    \A f \in Files : f \in Snapped(c) /\ f \in author /\ f \notin blurred /\ c.snaps[f].post = fs[f]
                        => c.snaps[f].pre = fs[f]

HonestInv ==
    /\ \A c \in Records : HonestOf(c)
    /\ edit.at = "written" /\ edit.file \in author => edit.file \in blurred

LEMMA ClockIs ==
    ASSUME TypedInv
    PROVE  Clock \in Nat /\ \A x \in Contents \cup {NoHash} : HashOf(x) \in Int /\ (x <= Clock => HashOf(x) <= Clock)
<1>1. Clock \in Nat
  BY TurnsAre DEF TypedInv, StoreTypeOK, Clock
<1>2. QED
  BY <1>1, ContentsAre DEF HashOf, NoHash

\* What the preview calls safe.
LEMMA PreviewTells ==
    ASSUME TypedInv, FreshInv, HonestInv
    PROVE  PreviewHonest
<1>1. SUFFICES ASSUME NEW n \in Numbers, NEW f \in SuffixPaths(n), f \notin blurred, Safe(n, f), f \in author
               PROVE  \E i \in DOMAIN All : f \in Snapped(All[i]) /\ All[i].snaps[f].pre = fs[f]
  BY DEF PreviewHonest, InStore
<1>2. f \in Files /\ fs[f] >= 1 /\ HashOf(fs[f]) = fs[f] /\ fs[f] # NoHash
  <2>1. f \in Files /\ fs[f] >= 1
    BY <1>1 DEF SuffixPaths, FreshInv
  <2>2. QED
    BY <2>1 DEF HashOf, Absent, NoHash
<1>3. CASE LastPost(n, f) # NoHash
  <2>1. PICK i \in Suffix(n, f) : LastPost(n, f) = All[i].snaps[f].post
    BY <1>3, LastPostIs DEF TypedInv
  <2>2. i \in DOMAIN All /\ f \in Snapped(All[i]) /\ All[i] \in Records
    BY RecordsAre DEF Suffix
  <2>3. All[i].snaps[f].post = fs[f]
    BY <1>1, <1>2, <1>3, <2>1 DEF Safe
  <2>4. QED
    BY <1>1, <1>2, <2>2, <2>3 DEF HonestInv, HonestOf
<1>4. CASE LastPost(n, f) = NoHash
  <2>1. PICK i \in Suffix(n, f) : Earliest(n, f) = All[i].snaps[f].pre
    BY EarliestIs DEF TypedInv
  <2>2. i \in DOMAIN All /\ f \in Snapped(All[i])
    BY DEF Suffix
  <2>3. Earliest(n, f) = fs[f]
    BY <1>1, <1>2, <1>4 DEF Safe
  <2>4. QED
    BY <2>1, <2>2, <2>3
<1>5. QED
  BY <1>3, <1>4

LEMMA ClockMoves ==
    ASSUME TypedInv, [StoreNext]_cpVars
    PROVE  /\ Clock \in Nat /\ Clock' \in Nat /\ Clock <= Clock'
           /\ ~UNCHANGED <<fs, author>> =>
                \/ \E f \in Files : Executes(f) \/ Foreign(f)
                \/ Clock' = Clock /\ \E f \in Files : RestoresFile(f)
<1>1. Clock \in Nat /\ used.writes \in Nat /\ used.faults \in Nat
  BY TurnsAre DEF TypedInv, StoreTypeOK, Clock
<1>2. used \in [turns : 0..MaxUserTurns, writes : 0..MaxWrites, rewinds : 0..MaxRewinds, faults : 0..MaxFaults]
  BY DEF TypedInv, StoreTypeOK
<1>3. ASSUME NEW f \in Files, Executes(f) \/ Foreign(f) PROVE Clock' = Clock + 1
  BY <1>1, <1>2, <1>3 DEF Executes, Foreign, Clock
<1>4. CASE CrashAndResume
  <2>1. Clock' = Clock + 1
    BY <1>1, <1>2, <1>4 DEF CrashAndResume, Clock
  <2>2. QED
    BY <1>1, <1>4, <2>1 DEF CrashAndResume, fileVars
<1>5. ASSUME NEW t \in Turns, NEW scope, RewindBegins(t, scope) PROVE Clock' = Clock /\ UNCHANGED <<fs, author>>
  BY <1>2, <1>5 DEF RewindBegins, Clock, fileVars
<1>6. CASE TurnBegins
  <2>1. Clock' = Clock /\ UNCHANGED <<fs, author>>
    BY <1>2, <1>6 DEF TurnBegins, Clock, fileVars
  <2>2. QED
    BY <1>1, <2>1
<1>7. CASE \/ OpensCheckpoint \/ TurnEnds \/ LogCompacted \/ LogRewound \/ KeepNumbered \/ KeepBegins
           \/ KeepFinalized \/ KeepMarked \/ RestorePlanned \/ RewindEnds \/ Summarizes \/ UNCHANGED cpVars
           \/ \E f \in Files : PreEdit(f) \/ PostEdit(f) \/ KeepSnapshots(f)
  <2>1. UNCHANGED <<fs, author, used>>
    BY <1>7 DEF OpensCheckpoint, TurnEnds, LogCompacted, LogRewound, KeepNumbered, KeepBegins, KeepFinalized,
       KeepMarked, RestorePlanned, RewindEnds, Summarizes, cpVars, PreEdit, PostEdit, KeepSnapshots, fileVars
  <2>2. QED
    BY <1>1, <2>1 DEF Clock
<1>8. ASSUME NEW f \in Files, RestoresFile(f) PROVE Clock' = Clock
  BY <1>8 DEF RestoresFile, Clock
<1>9. QED
  BY <1>1, <1>3, <1>4, <1>5, <1>6, <1>7, <1>8 DEF StoreNext

\* Every record of the next state is one of this state, or what a snapshot, a
\* hash or a mark made of one.
SnapOf(c, f, d) ==
    /\ c \in Records
    /\ f \in Files \ Snapped(c)
    /\ d = Snap(c, f, [pre |-> fs[f], post |-> NoHash])
NoteOf(c, f, d) ==
    /\ c \in Records
    /\ edit = [file |-> f, at |-> "written"]
    /\ f \in Snapped(c)
    /\ d = Snap(c, f, [pre |-> c.snaps[f].pre, post |-> HashOf(fs[f])])
Arises(d) ==
    \/ d \in Records
    \/ \E n \in Turns : d = Checkpoint(n)
    \/ \E c \in Records : d = MarkedPost(c)
    \/ \E c, f : SnapOf(c, f, d)
    \/ \E c, f : NoteOf(c, f, d)

\* ... while the files keep their contents and authors.
LEMMA RecordsArise ==
    ASSUME TypedInv, [StoreNext]_cpVars, NEW d \in Records'
    PROVE  /\ Arises(d)
           /\ d \notin Records => UNCHANGED <<fs, author, blurred>>
<1> DEFINE Goal == Arises(d) /\ (d \notin Records => UNCHANGED <<fs, author, blurred>>)
<1>1. StoreTypeOK
  BY DEF TypedInv
<1>2. CASE d \in Records
  BY <1>2 DEF Arises
<1>3. ASSUME UNCHANGED <<done, cur, dir>> PROVE Goal
  BY <1>2, <1>3, KeptRecords
<1>4. ASSUME NEW n \in Turns, StoreBegin(n), UNCHANGED <<fs, author, blurred>> PROVE Goal
  <2>1. d \in Records \cup {Checkpoint(n)}
    BY <1>4, BegunRecords
  <2>2. CASE d = Checkpoint(n)
    BY <1>4, <2>2 DEF Arises
  <2>3. QED
    BY <1>2, <2>1, <2>2
<1>5. CASE OpensCheckpoint
  <2>1. num \in Turns /\ StoreBegin(num) /\ UNCHANGED <<fs, author, blurred>>
    BY <1>5 DEF OpensCheckpoint, TypedInv, Places, fileVars
  <2>2. QED
    BY <1>4, <2>1
<1>6. CASE KeepBegins
  <2>1. rw.keep \in Turns /\ StoreBegin(rw.keep) /\ UNCHANGED <<fs, author, blurred>>
    BY <1>6 DEF KeepBegins, fileVars
  <2>2. QED
    BY <1>4, <2>1
<1>7. ASSUME NEW f \in Files, StoreSnapshot(f), done' = done, UNCHANGED <<fs, author, blurred>> PROVE Goal
  <2>1. CASE UNCHANGED <<cur, dir>>
    BY <1>3, <1>7, <2>1
  <2>2. CASE /\ f \notin Snapped(cur)
             /\ cur' = Snap(cur, f, [pre |-> fs[f], post |-> NoHash])
             /\ cur' \in CheckpointType
             /\ Len(All) \in DOMAIN All /\ All[Len(All)] = cur /\ Revised(Len(All), cur')
    <3>1. cur \in Records
      BY <2>2, RecordsAre
    <3>2. d \in Records \cup {cur'}
      BY <2>2, RevisedRecords
    <3>3. CASE d = cur'
      <4>1. SnapOf(cur, f, d)
        BY <2>2, <3>1, <3>3 DEF SnapOf
      <4>2. QED
        BY <1>7, <4>1 DEF Arises
    <3>4. QED
      BY <1>2, <3>2, <3>3
  <2>3. QED
    BY <1>1, <1>7, <2>1, <2>2, SnapshotIs
<1>8. ASSUME NEW f \in Files, PostEdit(f) PROVE Goal
  <2>1. StoreNote(f) /\ done' = done /\ edit = [file |-> f, at |-> "written"] /\ UNCHANGED <<fs, author, blurred>>
    BY <1>8 DEF PostEdit, fileVars
  <2>2. CASE UNCHANGED <<cur, dir>>
    BY <1>3, <2>1, <2>2
  <2>3. CASE /\ cur' = IF f \in Snapped(cur)
                       THEN Snap(cur, f, [pre |-> cur.snaps[f].pre, post |-> HashOf(fs[f])]) ELSE cur
             /\ cur' \in CheckpointType
             /\ Len(All) \in DOMAIN All /\ All[Len(All)] = cur /\ Revised(Len(All), cur')
    <3>1. cur \in Records
      BY <2>3, RecordsAre
    <3>2. d \in Records \cup {cur'}
      BY <2>3, RevisedRecords
    <3>3. CASE d = cur' /\ f \in Snapped(cur)
      <4>1. NoteOf(cur, f, d)
        BY <2>1, <2>3, <3>1, <3>3 DEF NoteOf
      <4>2. QED
        BY <2>1, <4>1 DEF Arises
    <3>4. CASE d = cur' /\ f \notin Snapped(cur)
      BY <1>2, <2>3, <3>1, <3>4
    <3>5. QED
      BY <1>2, <3>2, <3>3, <3>4
  <2>4. QED
    BY <1>1, <2>1, <2>2, <2>3, NoteIs
<1>9. CASE KeepFinalized
  BY <1>2, <1>9, FinalizedRecords
<1>10. CASE KeepMarked
  <2>1. UNCHANGED <<fs, author, blurred, edit, cur>>
    BY <1>10 DEF KeepMarked, fileVars
  <2>2. CASE UNCHANGED <<done, dir>>
    BY <1>3, <2>1, <2>2
  <2>3. CASE \E k \in DOMAIN All : MarkedPost(All[k]) \in CheckpointType /\ Revised(k, MarkedPost(All[k]))
    <3>1. PICK k \in DOMAIN All : MarkedPost(All[k]) \in CheckpointType /\ Revised(k, MarkedPost(All[k]))
      BY <2>3
    <3>2. d \in Records \cup {MarkedPost(All[k])}
      BY <3>1, RevisedRecords
    <3>3. All[k] \in Records
      BY RecordsAre
    <3>4. CASE d = MarkedPost(All[k])
      BY <2>1, <3>3, <3>4 DEF Arises
    <3>5. QED
      BY <1>2, <3>2, <3>4
  <2>4. QED
    BY <1>1, <1>10, <2>2, <2>3, MarkIs
<1>11. CASE CrashAndResume
  BY <1>2, <1>11, LoadedRecords
<1>12. CASE \E f \in Files : PreEdit(f) \/ KeepSnapshots(f)
  BY <1>7, <1>12 DEF PreEdit, KeepSnapshots, fileVars
<1>13. CASE \/ TurnBegins \/ TurnEnds \/ LogCompacted \/ LogRewound \/ KeepNumbered \/ RestorePlanned
            \/ RewindEnds \/ Summarizes \/ UNCHANGED cpVars
  <2>1. UNCHANGED <<done, cur, dir>>
    BY <1>13 DEF TurnBegins, TurnEnds, LogCompacted, LogRewound, KeepNumbered, RestorePlanned, RewindEnds,
       Summarizes, cpVars, storeVars
  <2>2. QED
    BY <1>3, <2>1
<1>14. CASE \E f \in Files : Executes(f) \/ Foreign(f) \/ RestoresFile(f)
  BY <1>3, <1>14 DEF Executes, Foreign, RestoresFile, storeVars
<1>15. ASSUME NEW t \in Turns, NEW scope, RewindBegins(t, scope) PROVE Goal
  BY <1>3, <1>15 DEF RewindBegins, storeVars
<1>16. QED
  BY <1>5, <1>6, <1>8, <1>9, <1>10, <1>11, <1>12, <1>13, <1>14, <1>15 DEF StoreNext

\* Where the snapshot and the hash of a file in a record come from.
LEMMA NewSnaps ==
    ASSUME TypedInv, NEW d, Arises(d), NEW g \in Files
    PROVE  \/ d.snaps[g] = NoSnap
           \/ \E c \in Records :
                \/ d.snaps[g] = c.snaps[g] /\ (g \in Snapped(d) => g \in Snapped(c))
                \/ d.snaps[g] = [pre |-> c.snaps[g].pre, post |-> HashOf(c.snaps[g].pre)]
           \/ d.snaps[g] = [pre |-> fs[g], post |-> NoHash]
           \/ \E c \in Records : /\ edit = [file |-> g, at |-> "written"]
                                 /\ d.snaps[g] = [pre |-> c.snaps[g].pre, post |-> HashOf(fs[g])]
<1>1. \A c \in Records : c \in CheckpointType
  BY RecordsAre
<1>2. CASE d \in Records
  BY <1>2
<1>3. CASE \E n \in Turns : d = Checkpoint(n)
  BY <1>3 DEF Checkpoint
<1>4. ASSUME NEW c \in Records, d = MarkedPost(c)
      PROVE  \/ d.snaps[g] = c.snaps[g] /\ (g \in Snapped(d) => g \in Snapped(c))
             \/ d.snaps[g] = [pre |-> c.snaps[g].pre, post |-> HashOf(c.snaps[g].pre)]
  <2>1. d \in CheckpointType /\ d.snaps[g] = IF g \in Snapped(c)
            THEN [pre |-> c.snaps[g].pre, post |-> HashOf(c.snaps[g].pre)] ELSE c.snaps[g]
    BY <1>1, <1>4, MarkedIs
  <2>2. QED
    BY <1>1, <2>1, SnappedIs
<1>5. ASSUME NEW c \in Records, NEW f \in Files, NEW x \in Snapshots, d = Snap(c, f, x)
      PROVE  \/ g = f /\ d.snaps[g] = x
             \/ d.snaps[g] = c.snaps[g] /\ (g \in Snapped(d) => g \in Snapped(c))
  <2>1. d \in CheckpointType /\ d.snaps[f] = x /\ (g # f => d.snaps[g] = c.snaps[g])
    BY <1>1, <1>5, SnapIs
  <2>2. QED
    BY <1>1, <2>1, SnappedIs
<1>6. ASSUME NEW c, NEW f, SnapOf(c, f, d)
      PROVE  \/ d.snaps[g] = c.snaps[g] /\ (g \in Snapped(d) => g \in Snapped(c))
             \/ d.snaps[g] = [pre |-> fs[g], post |-> NoHash]
  <2>1. c \in Records /\ f \in Files /\ d = Snap(c, f, [pre |-> fs[f], post |-> NoHash])
    BY <1>6 DEF SnapOf
  <2>2. [pre |-> fs[f], post |-> NoHash] \in Snapshots
    BY <2>1 DEF TypedInv, StoreTypeOK, Snapshots
  <2>3. QED
    BY <1>5, <2>1, <2>2
<1>7. ASSUME NEW c, NEW f, NoteOf(c, f, d)
      PROVE  \/ d.snaps[g] = c.snaps[g] /\ (g \in Snapped(d) => g \in Snapped(c))
             \/ /\ edit = [file |-> g, at |-> "written"]
                /\ d.snaps[g] = [pre |-> c.snaps[g].pre, post |-> HashOf(fs[g])]
  <2>1. c \in Records /\ f \in Snapped(c) /\ f \in Files
        /\ d = Snap(c, f, [pre |-> c.snaps[f].pre, post |-> HashOf(fs[f])])
        /\ edit = [file |-> f, at |-> "written"]
    BY <1>1, <1>7, SnappedIs DEF NoteOf
  <2>2. [pre |-> c.snaps[f].pre, post |-> HashOf(fs[f])] \in Snapshots
    <3>1. c.snaps[f] \in Snapshots /\ fs[f] \in Contents
      BY <1>1, <2>1, SnappedIs DEF TypedInv, StoreTypeOK
    <3>2. QED
      BY <3>1, ContentsAre DEF Snapshots
  <2>3. QED
    BY <1>5, <2>1, <2>2
<1>8. QED
  BY <1>2, <1>3, <1>4, <1>6, <1>7 DEF Arises, SnapOf, NoteOf

LEMMA RewindIs ==
    ASSUME TypedInv
    PROVE  /\ rw \in [at : {"idle", "log", "code", "keep", "snap", "mark", "restore", "write"},
                     turn : Turns \cup {-1}, scope : {"none", "code", "conversation", "both"},
                     keep : Int, paths : SUBSET Files, plan : Plans]
           /\ DOMAIN rw.plan \subseteq Files
           /\ \A f \in DOMAIN rw.plan : rw.plan[f] \in Contents
<1>1. rw \in [at : {"idle", "log", "code", "keep", "snap", "mark", "restore", "write"},
              turn : Turns \cup {-1}, scope : {"none", "code", "conversation", "both"},
              keep : Int, paths : SUBSET Files, plan : Plans]
  BY DEF TypedInv, StoreTypeOK
<1>2. rw.plan \in Plans
  BY <1>1
<1>3. PICK S \in SUBSET Files : rw.plan \in [S -> Contents]
  BY <1>2 DEF Plans
<1>4. QED
  BY <1>1, <1>3

\* The rewind writes only what it planned before.
LEMMA WriteGoesOn ==
    ASSUME TypedInv, [StoreNext]_cpVars, ~RestorePlanned, rw'.at = "write"
    PROVE  rw.at = "write" /\ rw'.plan = rw.plan
<1>1. rw \in [at : {"idle", "log", "code", "keep", "snap", "mark", "restore", "write"},
              turn : Turns \cup {-1}, scope : {"none", "code", "conversation", "both"},
              keep : Int, paths : SUBSET Files, plan : Plans]
  BY RewindIs
<1>2. CASE \/ TurnBegins \/ OpensCheckpoint \/ TurnEnds \/ Summarizes \/ UNCHANGED cpVars
           \/ \E g \in Files : PreEdit(g) \/ PostEdit(g) \/ Executes(g) \/ Foreign(g)
  BY <1>2 DEF TurnBegins, OpensCheckpoint, TurnEnds, Summarizes, cpVars, PreEdit, PostEdit, Executes, Foreign
<1>3. CASE \E g \in Files : KeepSnapshots(g) \/ RestoresFile(g)
  BY <1>1, <1>3 DEF KeepSnapshots, RestoresFile
<1>4. NoRewind.at = "idle" /\ DOMAIN NoRewind = {"at", "turn", "scope", "keep", "paths", "plan"}
  BY DEF NoRewind
<1>5. CASE LogCompacted \/ RewindEnds \/ CrashAndResume
  BY <1>4, <1>5 DEF LogCompacted, RewindEnds, CrashAndResume
<1>6. ASSUME NEW t \in Turns, NEW scope, RewindBegins(t, scope) PROVE FALSE
  <2>1. rw' = [NoRewind EXCEPT !.at = IF scope = "code" THEN "code" ELSE "log", !.turn = t, !.scope = scope]
    BY <1>6 DEF RewindBegins
  <2>2. rw'.at = IF scope = "code" THEN "code" ELSE "log"
    BY <2>1 DEF NoRewind
  <2>3. QED
    BY <2>2
<1>7. CASE KeepNumbered \/ KeepBegins \/ KeepFinalized \/ KeepMarked
  BY <1>1, <1>7 DEF KeepNumbered, KeepBegins, KeepFinalized, KeepMarked, Moves
<1>8. CASE LogRewound
  BY <1>1, <1>4, <1>8 DEF LogRewound
<1>9. QED
  BY <1>2, <1>3, <1>5, <1>6, <1>7, <1>8 DEF StoreNext

LEMMA FreshStep == TypedInv /\ FreshInv /\ [StoreNext]_cpVars => FreshInv'
<1> SUFFICES ASSUME TypedInv, FreshInv, [StoreNext]_cpVars PROVE FreshInv'
  OBVIOUS
<1>1. /\ Clock \in Nat /\ Clock' \in Nat /\ Clock <= Clock'
      /\ ~UNCHANGED <<fs, author>> =>
            \/ \E f \in Files : Executes(f) \/ Foreign(f)
            \/ Clock' = Clock /\ \E f \in Files : RestoresFile(f)
  BY ClockMoves
<1>2. /\ \A f \in Files : fs[f] <= Clock /\ fs[f] \in Contents /\ fs[f] \in Int
      /\ \A f \in author : fs[f] >= 1 /\ f \in Files
      /\ \A c \in Records : OlderThan(c, Clock) /\ c \in CheckpointType
  BY RecordsAre, ContentsAre DEF FreshInv, TypedInv, StoreTypeOK
<1>3. (\A f \in Files : fs'[f] <= Clock') /\ (\A f \in author' : fs'[f] >= 1)
  <2>1. CASE UNCHANGED <<fs, author>>
    BY <1>1, <1>2, <2>1
  <2>2. ASSUME NEW f \in Files, Executes(f) \/ Foreign(f)
        PROVE  (\A g \in Files : fs'[g] <= Clock') /\ (\A g \in author' : fs'[g] >= 1)
    <3>1. Clock' = Clock + 1 /\ 1 + used.writes + used.faults = Clock + 1
      <4>1. used \in [turns : 0..MaxUserTurns, writes : 0..MaxWrites, rewinds : 0..MaxRewinds, faults : 0..MaxFaults]
            /\ used.writes \in Nat /\ used.faults \in Nat
        BY TurnsAre DEF TypedInv, StoreTypeOK
      <4>2. QED
        BY <2>2, <4>1 DEF Executes, Foreign, Clock
    <3>2. fs \in [Files -> Contents]
      BY DEF TypedInv, StoreTypeOK
    <3>3. CASE Executes(f)
      <4>1. CASE UNCHANGED <<fs, author>>
        BY <1>1, <1>2, <4>1
      <4>2. CASE /\ fs' \in {[fs EXCEPT ![f] = 1 + used.writes + used.faults], [fs EXCEPT ![f] = Absent]}
                 /\ author' = author \ {f}
        BY <1>1, <1>2, <3>1, <3>2, <4>2 DEF Absent
      <4>3. QED
        BY <3>3, <4>1, <4>2 DEF Executes, fileVars
    <3>4. CASE Foreign(f)
      <4>1. fs' = [fs EXCEPT ![f] = Clock + 1] /\ author' = author \cup {f}
        BY <3>1, <3>4 DEF Foreign
      <4>2. QED
        BY <1>1, <1>2, <3>1, <3>2, <4>1
    <3>5. QED
      BY <2>2, <3>3, <3>4
  <2>3. ASSUME NEW f \in Files, RestoresFile(f), Clock' = Clock
        PROVE  (\A g \in Files : fs'[g] <= Clock') /\ (\A g \in author' : fs'[g] >= 1)
    <3>1. fs' = [fs EXCEPT ![f] = rw.plan[f]] /\ author' = author \ {f} /\ fs \in [Files -> Contents]
      BY <2>3 DEF RestoresFile, TypedInv, StoreTypeOK
    <3>2. rw.plan[f] <= Clock
      BY <2>3 DEF RestoresFile, FreshInv, TypedInv, Places
    <3>3. QED
      BY <1>2, <2>3, <3>1, <3>2
  <2>4. QED
    BY <1>1, <2>1, <2>2, <2>3
<1>4. ASSUME NEW d \in Records' PROVE OlderThan(d, Clock')
  <2>1. SUFFICES ASSUME NEW g \in Files PROVE d.snaps[g].pre <= Clock' /\ d.snaps[g].post <= Clock'
    BY DEF OlderThan
  <2>2. Arises(d)
    BY RecordsArise
  <2>3. NoHash <= Clock'
    BY <1>1 DEF NoHash
  <2>4. ASSUME NEW c \in Records
        PROVE  /\ c.snaps[g].pre <= Clock' /\ c.snaps[g].post <= Clock'
               /\ HashOf(c.snaps[g].pre) <= Clock'
    <3>1. c.snaps[g].pre \in Contents \cup {NoHash} /\ c.snaps[g].post \in Contents \cup {NoHash}
      BY <1>2, <2>4, SnappedIs
    <3>2. c.snaps[g].pre <= Clock /\ c.snaps[g].post <= Clock
      BY <1>2, <2>4 DEF OlderThan
    <3>3. HashOf(c.snaps[g].pre) <= Clock /\ HashOf(c.snaps[g].pre) \in Int
      BY <3>1, <3>2, ClockIs
    <3>4. c.snaps[g].pre \in Int /\ c.snaps[g].post \in Int
      BY <3>1, ContentsAre
    <3>5. \A x \in Int : x <= Clock => x <= Clock'
      BY <1>1
    <3>6. QED
      BY <3>2, <3>3, <3>4, <3>5
  <2>5. fs[g] <= Clock' /\ HashOf(fs[g]) <= Clock'
    <3>1. HashOf(fs[g]) <= Clock /\ HashOf(fs[g]) \in Int
      BY <1>2, ClockIs
    <3>2. QED
      BY <1>1, <1>2, <3>1
  <2>6. NoSnap.pre = NoHash /\ NoSnap.post = NoHash
    BY DEF NoSnap
  <2>7. CASE d.snaps[g] = NoSnap \/ d.snaps[g] = [pre |-> fs[g], post |-> NoHash]
    BY <2>3, <2>5, <2>6, <2>7
  <2>8. CASE \E c \in Records : \/ d.snaps[g] = c.snaps[g]
                               \/ d.snaps[g] = [pre |-> c.snaps[g].pre, post |-> HashOf(c.snaps[g].pre)]
                               \/ d.snaps[g] = [pre |-> c.snaps[g].pre, post |-> HashOf(fs[g])]
    <3>1. PICK c \in Records : \/ d.snaps[g] = c.snaps[g]
                              \/ d.snaps[g] = [pre |-> c.snaps[g].pre, post |-> HashOf(c.snaps[g].pre)]
                              \/ d.snaps[g] = [pre |-> c.snaps[g].pre, post |-> HashOf(fs[g])]
      BY <2>8
    <3>2. QED
      BY <2>4, <2>5, <3>1
  <2>9. QED
    BY <2>2, <2>7, <2>8, NewSnaps
<1>5. ASSUME rw'.at = "write", NEW f \in DOMAIN rw'.plan PROVE rw'.plan[f] <= Clock'
  <2>1. CASE RestorePlanned
    <3>1. rw' = [rw EXCEPT !.at = "write", !.paths = SuffixPaths(rw.turn),
                           !.plan = [g \in SuffixPaths(rw.turn) |-> Earliest(rw.turn, g)]]
      BY <2>1 DEF RestorePlanned
    <3>2. rw'.plan = [g \in SuffixPaths(rw.turn) |-> Earliest(rw.turn, g)]
      BY <3>1 DEF TypedInv, StoreTypeOK
    <3>3. f \in SuffixPaths(rw.turn) /\ rw'.plan[f] = Earliest(rw.turn, f)
      BY <1>5, <3>2
    <3>4. PICK i \in Suffix(rw.turn, f) : Earliest(rw.turn, f) = All[i].snaps[f].pre
      BY <3>3, EarliestIs DEF TypedInv
    <3>5. All[i] \in Records /\ f \in Files
      BY <3>3, RecordsAre DEF Suffix, SuffixPaths
    <3>6. All[i].snaps[f].pre <= Clock /\ All[i].snaps[f].pre \in Int
      BY <1>2, <3>5, SnappedIs, ContentsAre DEF OlderThan
    <3>7. QED
      BY <1>1, <3>3, <3>4, <3>6
  <2>2. CASE ~RestorePlanned
    <3>1. rw.at = "write" /\ rw'.plan = rw.plan
      BY <1>5, <2>2, WriteGoesOn
    <3>2. rw.plan[f] <= Clock /\ rw.plan[f] \in Int
      BY <1>5, <3>1, RewindIs, ContentsAre DEF FreshInv
    <3>3. QED
      BY <1>1, <3>1, <3>2
  <2>3. QED
    BY <2>1, <2>2
<1>6. QED
  BY <1>3, <1>4, <1>5 DEF FreshInv

LEMMA FilesKept ==
    ASSUME [StoreNext]_cpVars, ~ \E f \in Files : Executes(f) \/ Foreign(f) \/ RestoresFile(f)
    PROVE  /\ UNCHANGED <<fs, author, blurred>>
           /\ edit' = edit \/ edit'.at # "written"
<1>1. CASE \/ OpensCheckpoint \/ TurnEnds \/ LogCompacted \/ LogRewound \/ KeepNumbered \/ KeepBegins
           \/ KeepFinalized \/ KeepMarked \/ RestorePlanned \/ RewindEnds \/ Summarizes \/ TurnBegins \/ UNCHANGED cpVars
           \/ \E f \in Files : KeepSnapshots(f)
  BY <1>1 DEF OpensCheckpoint, TurnEnds, LogCompacted, LogRewound, KeepNumbered, KeepBegins, KeepFinalized,
     KeepMarked, RestorePlanned, RewindEnds, Summarizes, TurnBegins, cpVars, KeepSnapshots, fileVars
<1>2. ASSUME NEW t \in Turns, NEW scope, RewindBegins(t, scope)
      PROVE  UNCHANGED <<fs, author, blurred>> /\ edit' = edit
  BY <1>2 DEF RewindBegins, fileVars
<1>3. ASSUME NEW f \in Files, PreEdit(f) \/ PostEdit(f)
      PROVE  UNCHANGED <<fs, author, blurred>> /\ edit'.at # "written"
  BY <1>3 DEF PreEdit, PostEdit, fileVars, NoEdit
<1>4. CASE CrashAndResume
  BY <1>4 DEF CrashAndResume, fileVars, NoEdit
<1>5. QED
  BY <1>1, <1>2, <1>3, <1>4 DEF StoreNext

LEMMA HonestStep == TypedInv /\ FreshInv /\ HonestInv /\ [StoreNext]_cpVars => HonestInv'
<1> SUFFICES ASSUME TypedInv, FreshInv, HonestInv, [StoreNext]_cpVars PROVE HonestInv'
  OBVIOUS
<1>1. /\ fs \in [Files -> Contents] /\ author \subseteq Files
      /\ edit \in [file : Files \cup {"none"}, at : {"none", "snapped", "written"}]
      /\ \A c \in Records : c \in CheckpointType /\ HonestOf(c)
      /\ edit.at = "written" /\ edit.file \in author => edit.file \in blurred
  BY RecordsAre DEF TypedInv, StoreTypeOK, HonestInv
<1>2. ASSUME ~ \E f \in Files : Executes(f) \/ Foreign(f) \/ RestoresFile(f),
             NEW d \in Records'
      PROVE  HonestOf(d)'
  <2>1. UNCHANGED <<fs, author, blurred>>
    BY <1>2, FilesKept
  <2>2. SUFFICES ASSUME NEW g \in Files, g \in Snapped(d), g \in author, g \notin blurred, d.snaps[g].post = fs[g]
                 PROVE  d.snaps[g].pre = fs[g]
    BY <2>1 DEF HonestOf
  <2>3. fs[g] >= 1 /\ fs[g] # NoHash /\ HashOf(fs[g]) = fs[g]
    BY <2>2 DEF FreshInv, NoHash, HashOf, Absent
  <2>4. CASE d.snaps[g] = NoSnap \/ d.snaps[g] = [pre |-> fs[g], post |-> NoHash]
    BY <2>2, <2>3, <2>4 DEF NoSnap
  <2>5. ASSUME NEW c \in Records, d.snaps[g] = c.snaps[g], g \in Snapped(c) PROVE d.snaps[g].pre = fs[g]
    BY <1>1, <2>2, <2>5 DEF HonestOf
  <2>6. ASSUME NEW c \in Records, d.snaps[g] = [pre |-> c.snaps[g].pre, post |-> HashOf(c.snaps[g].pre)]
        PROVE  d.snaps[g].pre = fs[g]
    BY <2>2, <2>3, <2>6 DEF HashOf
  <2>7. edit # [file |-> g, at |-> "written"]
    BY <1>1, <2>2
  <2>8. Arises(d)
    BY <1>2, RecordsArise
  <2>9. QED
    BY <2>2, <2>4, <2>5, <2>6, <2>7, <2>8, NewSnaps
<1>3. ASSUME NEW f \in Files, Executes(f) \/ Foreign(f) \/ RestoresFile(f), NEW d \in Records'
      PROVE  d \in Records
  <2>1. UNCHANGED <<done, cur, dir>>
    BY <1>3 DEF Executes, Foreign, RestoresFile, storeVars
  <2>2. QED
    BY <1>3, <2>1, KeptRecords
<1>4. ASSUME NEW f \in Files, NEW d \in Records, Executes(f) PROVE HonestOf(d)'
  <2>1. CASE UNCHANGED <<fs, author, blurred>>
    BY <1>1, <1>4, <2>1 DEF HonestOf
  <2>2. CASE /\ fs' \in {[fs EXCEPT ![f] = 1 + used.writes + used.faults], [fs EXCEPT ![f] = Absent]}
             /\ author' = author \ {f} /\ blurred' = blurred \ {f}
    BY <1>1, <1>4, <2>2 DEF HonestOf
  <2>3. QED
    BY <1>4, <2>1, <2>2 DEF Executes, fileVars
<1>5. ASSUME NEW f \in Files, NEW d \in Records, RestoresFile(f) PROVE HonestOf(d)'
  <2>1. fs' = [fs EXCEPT ![f] = rw.plan[f]] /\ author' = author \ {f} /\ blurred' = blurred
    BY <1>5 DEF RestoresFile
  <2>2. QED
    BY <1>1, <1>5, <2>1 DEF HonestOf
<1>6. ASSUME NEW f \in Files, NEW d \in Records, Foreign(f) PROVE HonestOf(d)'
  <2>1. fs' = [fs EXCEPT ![f] = 1 + used.writes + used.faults] /\ author' = author \cup {f} /\ blurred \subseteq blurred'
    BY <1>6 DEF Foreign
  <2>2. d.snaps[f].post <= Clock /\ d.snaps[f].post \in Int /\ Clock \in Nat /\ fs'[f] = Clock + 1
    <3>1. used.writes \in Nat /\ used.faults \in Nat
      BY TurnsAre DEF TypedInv, StoreTypeOK
    <3>2. d.snaps[f].post \in Int /\ d.snaps[f].post <= Clock
      BY <1>1, <1>6, SnappedIs, ContentsAre DEF FreshInv, OlderThan
    <3>3. QED
      BY <1>1, <2>1, <3>1, <3>2 DEF Clock
  <2>3. d.snaps[f].post # fs'[f]
    BY <2>2
  <2>4. QED
    BY <1>1, <1>6, <2>1, <2>3 DEF HonestOf
<1>7. ASSUME edit'.at = "written", edit'.file \in author' PROVE edit'.file \in blurred'
  <2>1. CASE ~ \E f \in Files : Executes(f) \/ Foreign(f) \/ RestoresFile(f)
    BY <1>1, <1>7, <2>1, FilesKept
  <2>2. ASSUME NEW f \in Files, Executes(f) PROVE FALSE
    BY <1>1, <1>7, <2>2 DEF Executes, NoEdit, fileVars
  <2>3. ASSUME NEW f \in Files, Foreign(f) PROVE edit'.file \in blurred'
    BY <1>1, <1>7, <2>3 DEF Foreign
  <2>4. ASSUME NEW f \in Files, RestoresFile(f) PROVE edit'.file \in blurred'
    BY <1>1, <1>7, <2>4 DEF RestoresFile
  <2>5. QED
    BY <2>1, <2>2, <2>3, <2>4
<1>8. QED
  BY <1>2, <1>3, <1>4, <1>5, <1>6, <1>7 DEF HonestInv

LEMMA HonestInit == StoreInit => FreshInv /\ HonestInv
<1> SUFFICES ASSUME StoreInit PROVE FreshInv /\ HonestInv
  OBVIOUS
<1>1. Records = {} /\ Clock = 0
  BY ReadableIs DEF StoreInit, Records, Entries, All, Clock
<1>2. FreshInv
  BY <1>1 DEF StoreInit, FreshInv, NoRewind, Original, Absent
<1>3. HonestInv
  BY <1>1 DEF StoreInit, HonestInv, NoEdit
<1>4. QED
  BY <1>2, <1>3

\* RewindPreview calls no file safe that holds somebody else's content which
\* no checkpoint has, whatever turns, rewinds and crashes came before.
THEOREM PreviewsHonestly == StoreSpec => []PreviewHonest
<1>1. StoreInit => TypedInv /\ FreshInv /\ HonestInv
  BY TypedInit, HonestInit
<1>2. TypedInv /\ FreshInv /\ HonestInv => PreviewHonest
  BY PreviewTells
<1>3. QED
  BY <1>1, <1>2, TypedStep, FreshStep, HonestStep, PTL DEF StoreSpec

-----------------------------------------------------------------------------
(* The set of the checkpoints, and the earliest snapshot in it.            *)

Elements(s) == {s[i] : i \in DOMAIN s}
Since(E, n, f) == {c \in E : c.turn >= n /\ f \in Snapped(c)}
PathsIn(E, n) == {f \in Files : Since(E, n, f) # {}}
EarliestIn(E, n, f, x) ==
    \E c \in Since(E, n, f) : (\A d \in Since(E, n, f) : c.turn <= d.turn) /\ x = c.snaps[f].pre
Topmost(E) == {c \in E : \A d \in E : d.turn <= c.turn}
Covered(E) == {f \in Files : \E c \in Topmost(E) : f \in Snapped(c)}

\* The earliest snapshot of f since turn n is what it was; if there is none, f
\* still is what it was.
ExactFor(E, n, f, was, now) ==
    /\ \A c \in Since(E, n, f) : (\A d \in Since(E, n, f) : c.turn <= d.turn) => c.snaps[f].pre = was
    /\ Since(E, n, f) = {} => now = was

\* Only the turns and the snapshots of f matter to ExactFor.
LEMMA AlikeExact ==
    ASSUME NEW D, NEW E, NEW n, NEW f, NEW was, NEW now, ExactFor(D, n, f, was, now),
           \A c \in Since(D, n, f) : \E d \in Since(E, n, f) : d.turn = c.turn /\ d.snaps[f].pre = c.snaps[f].pre,
           \A c \in Since(E, n, f) : \E d \in Since(D, n, f) : d.turn = c.turn /\ d.snaps[f].pre = c.snaps[f].pre
    PROVE  ExactFor(E, n, f, was, now)
<1> DEFINE X == Since(D, n, f)
           Y == Since(E, n, f)
<1>1. /\ \A c \in X : (\A d \in X : c.turn <= d.turn) => c.snaps[f].pre = was
      /\ X = {} => now = was
      /\ \A c \in X : \E d \in Y : d.turn = c.turn /\ d.snaps[f].pre = c.snaps[f].pre
      /\ \A c \in Y : \E d \in X : d.turn = c.turn /\ d.snaps[f].pre = c.snaps[f].pre
  BY DEF ExactFor
<1> HIDE DEF X, Y
<1>2. ASSUME NEW c \in Y, \A d \in Y : c.turn <= d.turn PROVE c.snaps[f].pre = was
  <2>1. PICK b \in X : b.turn = c.turn /\ b.snaps[f].pre = c.snaps[f].pre
    BY <1>1
  <2>2. ASSUME NEW d \in X PROVE b.turn <= d.turn
    <3>1. PICK e \in Y : e.turn = d.turn
      BY <1>1
    <3>2. QED
      BY <1>2, <2>1, <3>1
  <2>3. QED
    BY <1>1, <2>1, <2>2
<1>3. Y = {} => now = was
  BY <1>1
<1>4. QED
  BY <1>2, <1>3 DEF ExactFor, Y

LEMMA ElementsAre ==
    ASSUME NEW s \in Seq(CheckpointType)
    PROVE  \A c \in Elements(s) : c \in CheckpointType /\ c.turn \in Nat
BY CheckpointIs DEF Elements

LEMMA EntriesAre ==
    ASSUME TypedInv
    PROVE  /\ Entries = Elements(All)
           /\ \A c \in Entries : c \in CheckpointType /\ c.turn \in Nat /\ c.turn \in Numbers /\ c.turn \in Turns
           /\ Numbers = {c.turn : c \in Entries}
           /\ \A n \in Numbers : n \in Nat /\ n \in Turns
<1>1. Entries = Elements(All)
  BY DEF Entries, Elements
<1>2. \A c \in Entries : c \in CheckpointType /\ c.turn \in Nat /\ c.turn \in Turns
  BY AllIs, CheckpointIs DEF TypedInv, Entries
<1>3. Numbers = {c.turn : c \in Entries}
  BY DEF Numbers, Entries
<1>4. QED
  BY <1>1, <1>2, <1>3

LEMMA PathsAre ==
    ASSUME NEW n
    PROVE  SuffixPaths(n) = PathsIn(Entries, n)
<1>1. \A f : Since(Entries, n, f) = {All[i] : i \in Suffix(n, f)}
  BY DEF Since, Entries, Suffix
<1>2. \A f : Since(Entries, n, f) # {} <=> Suffix(n, f) # {}
  BY <1>1
<1>3. QED
  BY <1>2 DEF SuffixPaths, PathsIn

LEMMA EarliestFirst ==
    ASSUME TypedInv, NEW n, NEW f \in SuffixPaths(n)
    PROVE  EarliestIn(Entries, n, f, Earliest(n, f))
<1>1. PICK i \in Suffix(n, f) : /\ \A j \in Suffix(n, f) : Before(i, j)
                                /\ Earliest(n, f) = All[i].snaps[f].pre
  BY EarliestIs DEF TypedInv
<1>2. Since(Entries, n, f) = {All[j] : j \in Suffix(n, f)}
  BY DEF Since, Entries, Suffix
<1>3. ASSUME NEW j \in Suffix(n, f) PROVE All[i].turn <= All[j].turn
  <2>1. All[i].turn \in Nat /\ All[j].turn \in Nat
    BY AllIs, CheckpointIs DEF TypedInv, Suffix
  <2>2. Before(i, j)
    BY <1>1
  <2>3. QED
    BY <2>1, <2>2 DEF Before
<1>4. QED
  BY <1>1, <1>2, <1>3 DEF EarliestIn

\* The oldest are pruned, never the newest.
LEMMA PrunedElements ==
    ASSUME NEW s \in Seq(CheckpointType), Increasing(s)
    PROVE  /\ Elements(Pruned(s)) \subseteq Elements(s)
           /\ \A c \in Elements(Pruned(s)), d \in Elements(s) : d.turn >= c.turn => d \in Elements(Pruned(s))
           /\ Elements(s) # {} => Elements(Pruned(s)) # {}
<1> DEFINE e == Excess(s)
           p == Pruned(s)
<1> HIDE DEF e, p
<1>1. /\ e \in Nat /\ e <= Len(s) /\ (Len(s) > 0 => e < Len(s)) /\ Len(s) \in Nat /\ DOMAIN s = 1..Len(s)
      /\ DOMAIN p = 1..(Len(s) - e)
      /\ \A i \in 1..(Len(s) - e) : e + i \in DOMAIN s /\ p[i] = s[e + i]
  <2>1. Len(s) \in Nat /\ DOMAIN s = 1..Len(s)
    OBVIOUS
  <2>2. QED
    BY <2>1, PrunedIs, Zenon DEF e, p
<1>2. \A i \in DOMAIN p : p[i] \in Elements(s)
  BY <1>1 DEF Elements
<1>3. ASSUME NEW i \in DOMAIN p, NEW j \in DOMAIN s, s[j].turn >= p[i].turn PROVE s[j] \in Elements(p)
  <2>1. e + i \in DOMAIN s /\ p[i] = s[e + i]
    BY <1>1
  <2>2. ~(j < e + i)
    <3>1. j < e + i => s[j].turn < s[e + i].turn
      BY <2>1 DEF Increasing
    <3>2. s[j].turn \in Nat /\ s[e + i].turn \in Nat
      BY <2>1, CheckpointIs
    <3>3. QED
      BY <1>3, <2>1, <3>1, <3>2
  <2>3. j - e \in DOMAIN p /\ p[j - e] = s[j]
    BY <1>1, <2>2
  <2>4. QED
    BY <2>3 DEF Elements
<1>4. Elements(s) # {} => Elements(p) # {}
  <2>1. Elements(s) # {} => Len(s) > 0
    BY <1>1 DEF Elements
  <2>2. Len(s) > 0 => 1 \in DOMAIN p
    BY <1>1
  <2>3. QED
    BY <2>1, <2>2 DEF Elements
<1>5. QED
  BY <1>2, <1>3, <1>4 DEF Elements, p

LEMMA PrunedSince ==
    ASSUME NEW s \in Seq(CheckpointType), Increasing(s), NEW c \in Elements(Pruned(s)), NEW f
    PROVE  Since(Elements(Pruned(s)), c.turn, f) = Since(Elements(s), c.turn, f)
BY PrunedElements DEF Since

LEMMA PrunedCovered ==
    ASSUME NEW s \in Seq(CheckpointType), Increasing(s)
    PROVE  Topmost(Elements(s)) \subseteq Topmost(Elements(Pruned(s)))
<1>1. SUFFICES ASSUME NEW c \in Elements(s), \A d \in Elements(s) : d.turn <= c.turn
               PROVE  c \in Elements(Pruned(s)) /\ \A d \in Elements(Pruned(s)) : d.turn <= c.turn
  BY DEF Topmost
<1>2. PICK b \in Elements(Pruned(s)) : TRUE
  BY PrunedElements
<1>3. b.turn <= c.turn /\ b.turn \in Nat /\ c.turn \in Nat
  BY <1>1, PrunedElements, ElementsAre
<1>4. c.turn >= b.turn
  BY <1>3
<1>5. QED
  BY <1>1, <1>2, <1>4, PrunedElements

ExactInv ==
    ~dirty => \A n \in Numbers : \A f \in Files \ origin[n].foreign :
                 ExactFor(Entries, n, f, origin[n].fs[f], fs[f])

\* What is to hold after the step.
ExactNext ==
    \A n \in Numbers' : \A f \in Files \ origin'[n].foreign :
       ExactFor(Entries', n, f, origin'[n].fs[f], fs'[f])

LEMMA NextNumbers == Numbers' = {c.turn : c \in Entries'}
BY DEF Numbers, Entries

\* The set of checkpoints after Begin.
LEMMA BegunEntries ==
    ASSUME TypedInv, OrderInv, ~dirty, NEW n \in Turns, StoreBegin(n), ~(n < NextNumber(Numbers))
    PROVE  /\ Entries' = Elements(Pruned(All)) \cup {Checkpoint(n)}
           /\ \A d \in Entries : d.turn < n
           /\ \A d \in Elements(Pruned(All)) : d \in Entries
           /\ \A f : f \notin Snapped(Checkpoint(n))
           /\ All \in Seq(CheckpointType) /\ Increasing(All)
<1>1. All \in Seq(CheckpointType) /\ Increasing(All) /\ Pruned(All) \in Seq(CheckpointType)
      /\ Checkpoint(n) \in CheckpointType
  BY AllIs, PrunedIs, CheckpointIs DEF TypedInv, OrderInv
<1>2. All' = Append(Pruned(All), Checkpoint(n))
  BY BeginIs DEF TypedInv
<1>3. Entries' = Elements(Pruned(All)) \cup {Checkpoint(n)}
  <2> DEFINE p == Pruned(All)
             c == Checkpoint(n)
  <2> HIDE DEF p, c
  <2>1. p \in Seq(CheckpointType) /\ c \in CheckpointType /\ All' = Append(p, c)
    BY <1>1, <1>2 DEF p, c
  <2>2. /\ DOMAIN Append(p, c) = 1..(Len(p) + 1) /\ Len(p) \in Nat /\ DOMAIN p = 1..Len(p)
        /\ \A i \in DOMAIN p : Append(p, c)[i] = p[i]
        /\ Append(p, c)[Len(p) + 1] = c
    BY <2>1
  <2>3. Elements(Append(p, c)) = Elements(p) \cup {c}
    <3>1. Len(p) + 1 \in DOMAIN Append(p, c) /\ DOMAIN p \subseteq DOMAIN Append(p, c)
      BY <2>2
    <3>2. \A i \in DOMAIN Append(p, c) : i \in DOMAIN p \/ i = Len(p) + 1
      BY <2>2
    <3>3. QED
      BY <2>2, <3>1, <3>2 DEF Elements
  <2>4. QED
    BY <2>1, <2>3 DEF p, c, Entries, Elements
<1>4. \A d \in Entries : d.turn < n
  <2>1. Numbers \in SUBSET Turns
    BY AllIs DEF TypedInv
  <2>2. NextNumber(Numbers) \in Nat /\ \A m \in Numbers : m < NextNumber(Numbers)
    BY <2>1, NextIs
  <2>3. n \in Nat
    BY TurnsAre
  <2>4. ASSUME NEW d \in Entries PROVE d.turn < n
    <3>1. d.turn \in Numbers /\ d.turn \in Nat
      BY EntriesAre
    <3>2. QED
      BY <2>2, <2>3, <3>1
  <2>5. QED
    BY <2>4
<1>5. \A d \in Elements(Pruned(All)) : d \in Entries
  BY <1>1, PrunedElements, EntriesAre
<1>6. \A f : f \notin Snapped(Checkpoint(n))
  BY DEF Snapped, Checkpoint
<1>7. QED
  BY <1>1, <1>3, <1>4, <1>5, <1>6

\* After a change in place.
LEMMA RevisedEntries ==
    ASSUME TypedInv, Increasing(All), NEW k \in DOMAIN All, NEW c \in CheckpointType, Revised(k, c)
    PROVE  /\ Entries' = (Entries \ {All[k]}) \cup {c}
           /\ c.turn = All[k].turn /\ All[k] \in Entries
<1>1. All \in Seq(CheckpointType) /\ Len(All) \in Nat /\ DOMAIN All = 1..Len(All)
  BY AllIs DEF TypedInv
<1>2. DOMAIN All' = DOMAIN All /\ All'[k] = c /\ \A i \in DOMAIN All : i # k => All'[i] = All[i]
  BY <1>1 DEF Revised
<1>3. ASSUME NEW i \in DOMAIN All, All[i] = All[k] PROVE i = k
  <2>1. All[i].turn \in Nat /\ All[k].turn \in Nat /\ i \in Nat /\ k \in Nat
    <3>1. All[i] \in CheckpointType /\ All[k] \in CheckpointType
      BY AllIs DEF TypedInv
    <3>2. QED
      BY <1>1, <3>1, CheckpointIs
  <2>2. (i < k => All[i].turn < All[k].turn) /\ (k < i => All[k].turn < All[i].turn)
    BY DEF Increasing
  <2>3. QED
    BY <1>3, <2>1, <2>2
<1>4. Entries' = {All'[i] : i \in DOMAIN All}
  BY <1>2 DEF Entries
<1>5. QED
  BY <1>2, <1>3, <1>4 DEF Entries, Revised

\* A turn begins with every file as it is.
LEMMA ExactBegun ==
    ASSUME TypedInv, OrderInv, ExactInv, ~dirty, NEW n \in Turns, StoreBegin(n), ~(n < NextNumber(Numbers)),
           origin' = [origin EXCEPT ![n] = [fs |-> fs, foreign |-> {}]], fs' = fs
    PROVE  ExactNext
<1> DEFINE P == Elements(Pruned(All))
           c == Checkpoint(n)
<1>1. /\ Entries' = P \cup {c}
      /\ \A d \in Entries : d.turn < n /\ d.turn \in Nat
      /\ \A d \in P : d \in Entries
      /\ \A f : f \notin Snapped(c)
      /\ All \in Seq(CheckpointType) /\ Increasing(All)
      /\ c.turn = n /\ n \in Nat
      /\ Entries = Elements(All)
  BY BegunEntries, EntriesAre, CheckpointIs, TurnsAre
<1>2. origin'[n] = [fs |-> fs, foreign |-> {}] /\ \A m \in Turns : m # n => origin'[m] = origin[m]
  BY DEF TypedInv, StoreTypeOK
<1>3. ASSUME NEW f \in Files PROVE ExactFor(Entries', n, f, fs[f], fs[f])
  <2>1. Since(Entries', n, f) = {}
    BY <1>1 DEF Since
  <2>2. QED
    BY <2>1 DEF ExactFor
<1>4. ASSUME NEW b \in P, NEW f \in Files \ origin[b.turn].foreign
      PROVE  ExactFor(Entries', b.turn, f, origin[b.turn].fs[f], fs[f])
  <2>1. Since(Entries', b.turn, f) = Since(P, b.turn, f)
    BY <1>1 DEF Since
  <2>2. Since(P, b.turn, f) = Since(Entries, b.turn, f)
    BY <1>1, PrunedSince
  <2>3. ExactFor(Entries, b.turn, f, origin[b.turn].fs[f], fs[f])
    BY <1>1, EntriesAre DEF ExactInv
  <2>4. QED
    BY <2>1, <2>2, <2>3 DEF ExactFor
<1>5. \A m \in Numbers' : m = n \/ (m # n /\ m \in Turns /\ \E b \in P : m = b.turn)
  BY <1>1, NextNumbers, EntriesAre
<1> HIDE DEF P, c
<1>6. ASSUME NEW m \in Numbers', NEW f \in Files \ origin'[m].foreign
      PROVE  ExactFor(Entries', m, f, origin'[m].fs[f], fs'[f])
  <2>1. CASE m = n
    BY <1>2, <1>3, <2>1
  <2>2. CASE m # n
    <3>1. PICK b \in P : m = b.turn
      BY <1>5, <2>2
    <3>2. origin'[m] = origin[m]
      BY <1>2, <1>5, <2>2
    <3>3. QED
      BY <1>4, <1>6, <3>1, <3>2
  <2>3. QED
    BY <2>1, <2>2
<1>7. QED
  BY <1>6 DEF ExactNext

\* Pruning, in the store or on loading it, forgets turns and nothing of the
\* others; loading loses torn checkpoints, whose files are excepted.
LEMMA ExactPruned ==
    ASSUME TypedInv, ExactInv, ~dirty, NEW s \in Seq(CheckpointType), Increasing(s), Elements(s) \subseteq Entries,
           \A n \in Turns : /\ origin'[n].fs = origin[n].fs
                            /\ origin[n].foreign \subseteq origin'[n].foreign
                            /\ \A f \in Files \ origin'[n].foreign : Since(Elements(s), n, f) = Since(Entries, n, f),
           All' = Pruned(s), fs' = fs
    PROVE  ExactNext
<1>1. Entries' = Elements(Pruned(s))
  BY DEF Entries, Elements
<1>2. ASSUME NEW b \in Entries', NEW f \in Files \ origin'[b.turn].foreign
      PROVE  ExactFor(Entries', b.turn, f, origin'[b.turn].fs[f], fs[f])
  <2>1. b.turn \in Numbers /\ b.turn \in Turns
    BY <1>1, PrunedElements, EntriesAre
  <2>2. Since(Entries', b.turn, f) = Since(Entries, b.turn, f)
    <3>1. Since(Entries', b.turn, f) = Since(Elements(s), b.turn, f)
      BY <1>1, PrunedSince
    <3>2. QED
      BY <1>2, <2>1, <3>1
  <2>3. ExactFor(Entries, b.turn, f, origin[b.turn].fs[f], fs[f])
    BY <1>2, <2>1 DEF ExactInv
  <2>4. origin'[b.turn].fs = origin[b.turn].fs
    BY <2>1
  <2>5. QED
    BY <2>2, <2>3, <2>4 DEF ExactFor
<1>3. QED
  BY <1>2, NextNumbers DEF ExactNext

\* Hashes do not matter.
LEMMA ExactRevised ==
    ASSUME TypedInv, OrderInv, ExactInv, ~dirty, NEW k \in DOMAIN All, NEW c \in CheckpointType, Revised(k, c),
           \A f \in Files : f \in Snapped(c) <=> f \in Snapped(All[k]),
           \A f \in Snapped(c) : c.snaps[f].pre = All[k].snaps[f].pre,
           origin' = origin, fs' = fs
    PROVE  ExactNext
<1>1. /\ Entries' = (Entries \ {All[k]}) \cup {c}
      /\ c.turn = All[k].turn /\ All[k] \in Entries
  BY RevisedEntries DEF OrderInv
<1>2. Numbers' = Numbers
  BY <1>1, NextNumbers, EntriesAre
<1>3. ASSUME NEW n \in Numbers, NEW f \in Files \ origin[n].foreign
      PROVE  ExactFor(Entries', n, f, origin[n].fs[f], fs[f])
  <2>1. ExactFor(Entries, n, f, origin[n].fs[f], fs[f])
    BY DEF ExactInv
  <2>2. \A a \in Since(Entries, n, f) : \E d \in Since(Entries', n, f) : d.turn = a.turn /\ d.snaps[f].pre = a.snaps[f].pre
    BY <1>1 DEF Since
  <2>3. \A a \in Since(Entries', n, f) : \E d \in Since(Entries, n, f) : d.turn = a.turn /\ d.snaps[f].pre = a.snaps[f].pre
    BY <1>1 DEF Since
  <2>4. QED
    BY <2>1, <2>2, <2>3, AlikeExact
<1>4. QED
  BY <1>2, <1>3 DEF ExactNext

\* The open checkpoint is the last.
LEMMA CurTop ==
    ASSUME TypedInv, OrderInv, ~dirty, cur # NoCheckpoint
    PROVE  /\ cur \in Topmost(Entries) /\ cur \in Entries
           /\ \A d \in Entries : d # cur => d.turn < cur.turn
<1>1. /\ Len(All) \in Nat /\ DOMAIN All = 1..Len(All)
      /\ Len(All) \in DOMAIN All /\ All[Len(All)] = cur /\ Increasing(All)
  <2>1. Len(All) = Len(done) + 1 /\ All[Len(All)] = cur /\ Len(All) \in Nat /\ DOMAIN All = 1..Len(All)
    BY AllIs DEF TypedInv
  <2>2. Len(done) \in Nat
    BY DEF TypedInv, StoreTypeOK
  <2>3. QED
    BY <2>1, <2>2 DEF OrderInv
<1>2. cur \in Entries
  BY <1>1 DEF Entries
<1>3. ASSUME NEW d \in Entries, d # cur PROVE d.turn < cur.turn
  <2>1. PICK i \in DOMAIN All : d = All[i]
    BY DEF Entries
  <2>2. i # Len(All)
    BY <1>1, <1>3, <2>1
  <2>3. i < Len(All)
    BY <1>1, <2>2
  <2>4. QED
    BY <1>1, <2>1, <2>3 DEF Increasing
<1>4. \A d \in Entries : d.turn <= cur.turn
  <2>1. cur.turn \in Nat /\ \A d \in Entries : d.turn \in Nat
    BY <1>2, EntriesAre
  <2>2. QED
    BY <1>3, <2>1
<1>5. QED
  BY <1>2, <1>3, <1>4 DEF Topmost

\* The first snapshot of a file since a turn is what it was at its start.
LEMMA ExactSnapped ==
    ASSUME TypedInv, OrderInv, ExactInv, ~dirty, NEW f \in Files, cur # NoCheckpoint, f \notin Snapped(cur),
           cur' = Snap(cur, f, [pre |-> fs[f], post |-> NoHash]), cur' \in CheckpointType,
           Len(All) \in DOMAIN All, All[Len(All)] = cur, Revised(Len(All), cur'),
           origin' = origin, fs' = fs
    PROVE  ExactNext
<1>1. /\ Entries' = (Entries \ {cur}) \cup {cur'}
      /\ cur'.turn = cur.turn /\ cur \in Entries
  BY RevisedEntries DEF OrderInv
<1>2. /\ [pre |-> fs[f], post |-> NoHash] \in Snapshots
      /\ cur \in CheckpointType /\ f \in Files
  BY DEF TypedInv, StoreTypeOK, Snapshots
<1>3. /\ cur'.snaps[f] = [pre |-> fs[f], post |-> NoHash]
      /\ f \in Snapped(cur')
      /\ \A g \in Files : g # f => (g \in Snapped(cur') <=> g \in Snapped(cur)) /\ cur'.snaps[g] = cur.snaps[g]
  BY <1>2, SnapIs, SnappedIs, ContentsAre
<1>4. Numbers' = Numbers
  BY <1>1, NextNumbers, EntriesAre
<1>5. ASSUME NEW n \in Numbers, NEW g \in Files \ origin[n].foreign
      PROVE  ExactFor(Entries', n, g, origin[n].fs[g], fs[g])
  <2>1. ExactFor(Entries, n, g, origin[n].fs[g], fs[g])
    BY DEF ExactInv
  <2>2. CASE g # f
    <3>1. \A a \in Since(Entries, n, g) : \E d \in Since(Entries', n, g) : d.turn = a.turn /\ d.snaps[g].pre = a.snaps[g].pre
      BY <1>1, <1>3, <2>2 DEF Since
    <3>2. \A a \in Since(Entries', n, g) : \E d \in Since(Entries, n, g) : d.turn = a.turn /\ d.snaps[g].pre = a.snaps[g].pre
      BY <1>1, <1>3, <2>2 DEF Since
    <3>3. QED
      BY <2>1, <3>1, <3>2, AlikeExact
  <2>3. CASE g = f
    <3>1. \A d \in Entries : d # cur => d.turn < cur.turn
      BY CurTop
    <3>2. n \in Nat /\ cur.turn \in Nat /\ cur.turn >= n
      <4>1. PICK d \in Entries : d.turn = n
        BY EntriesAre
      <4>2. d.turn \in Nat /\ cur.turn \in Nat
        BY <1>1, EntriesAre
      <4>3. QED
        BY <3>1, <4>1, <4>2
    <3>3. Since(Entries', n, f) = Since(Entries, n, f) \cup {cur'}
      BY <1>1, <1>3, <3>2 DEF Since
    <3>4. Since(Entries, n, f) \subseteq Entries \ {cur}
      BY DEF Since
    <3>5. CASE Since(Entries, n, f) = {}
      <4>1. fs[f] = origin[n].fs[f]
        BY <2>1, <2>3, <3>5 DEF ExactFor
      <4>2. QED
        BY <1>3, <2>3, <3>3, <3>5, <4>1 DEF ExactFor
    <3>6. CASE Since(Entries, n, f) # {}
      <4>1. PICK b \in Since(Entries, n, f) : TRUE
        BY <3>6
      <4>2. b.turn < cur'.turn /\ b.turn \in Nat /\ cur'.turn \in Nat
        BY <1>1, <3>1, <3>2, <3>4, <4>1, EntriesAre
      <4>3. ~ \A d \in Since(Entries', n, f) : cur'.turn <= d.turn
        BY <3>3, <4>1, <4>2
      <4>4. QED
        BY <2>1, <2>3, <3>3, <3>6, <4>3 DEF ExactFor
    <3>7. QED
      BY <3>5, <3>6
  <2>4. QED
    BY <2>2, <2>3
<1>6. QED
  BY <1>4, <1>5 DEF ExactNext

\* A file the last checkpoint has may change: its snapshot is there.
LEMMA ExactCovered ==
    ASSUME TypedInv, ExactInv, ~dirty, UNCHANGED <<done, cur, dir>>, origin' = origin,
           \A f \in Files : fs'[f] = fs[f] \/ f \in Covered(Entries)
    PROVE  ExactNext
<1>1. Entries' = Entries /\ Numbers' = Numbers
  BY DEF Entries, Numbers, All
<1>2. ASSUME NEW n \in Numbers, NEW f \in Files \ origin[n].foreign
      PROVE  ExactFor(Entries, n, f, origin[n].fs[f], fs'[f])
  <2>1. ExactFor(Entries, n, f, origin[n].fs[f], fs[f])
    BY DEF ExactInv
  <2>2. CASE fs'[f] = fs[f]
    BY <2>1, <2>2
  <2>3. CASE f \in Covered(Entries)
    <3>1. PICK c \in Entries : f \in Snapped(c) /\ \A d \in Entries : d.turn <= c.turn
      BY <2>3 DEF Covered, Topmost
    <3>2. PICK d \in Entries : d.turn = n
      BY EntriesAre
    <3>3. c.turn >= n
      BY <3>1, <3>2, EntriesAre
    <3>4. Since(Entries, n, f) # {}
      BY <3>1, <3>3 DEF Since
    <3>5. QED
      BY <2>1, <3>4 DEF ExactFor
  <2>4. QED
    BY <2>2, <2>3
<1>3. QED
  BY <1>1, <1>2 DEF ExactNext

\* What others change is excepted.
LEMMA ExactForeign ==
    ASSUME TypedInv, ExactInv, ~dirty, NEW f \in Files, Foreign(f)
    PROVE  ExactNext
<1>1. UNCHANGED <<done, cur, dir>>
  BY DEF Foreign, storeVars
<1>2. Entries' = Entries /\ Numbers' = Numbers
  BY <1>1 DEF Entries, Numbers, All
<1>3. /\ \A g \in Files : g # f => fs'[g] = fs[g]
      /\ \A n \in Numbers : origin'[n].fs = origin[n].fs /\ origin'[n].foreign = origin[n].foreign \cup {f}
  BY EntriesAre DEF Foreign, TypedInv, StoreTypeOK
<1>4. ASSUME NEW n \in Numbers, NEW g \in Files \ origin'[n].foreign
      PROVE  ExactFor(Entries, n, g, origin'[n].fs[g], fs'[g])
  <2>1. g # f /\ g \notin origin[n].foreign /\ fs'[g] = fs[g] /\ origin'[n].fs = origin[n].fs
    BY <1>3, <1>4
  <2>2. QED
    BY <2>1 DEF ExactInv
<1>5. QED
  BY <1>2, <1>4 DEF ExactNext

-----------------------------------------------------------------------------
(* Who is at work.                                                         *)

AloneInv ==
    ~dirty => /\ rw.at # "idle" => turnAt = "idle"
              /\ turnAt = "open" => cur # NoCheckpoint
              /\ edit.at # "none" => edit.file \in Snapped(cur)

LEMMA SnapshotSnaps ==
    ASSUME TypedInv, NEW f \in Files, StoreSnapshot(f), done' = done, cur # NoCheckpoint
    PROVE  cur' # NoCheckpoint /\ cur'.turn = cur.turn /\ Snapped(cur') = Snapped(cur) \cup {f}
<1>1. cur \in CheckpointType
  BY DEF TypedInv, StoreTypeOK
<1>2. CASE f \in Snapped(cur) /\ UNCHANGED <<cur, dir>>
  BY <1>2
<1>3. CASE cur' = Snap(cur, f, [pre |-> fs[f], post |-> NoHash]) /\ cur' \in CheckpointType
  <2>1. [pre |-> fs[f], post |-> NoHash] \in Snapshots
    BY DEF TypedInv, StoreTypeOK, Snapshots
  <2>2. /\ cur'.turn = cur.turn
        /\ cur'.snaps[f] # NoSnap
        /\ \A g \in Files : g # f => cur'.snaps[g] = cur.snaps[g]
    BY <1>1, <1>3, <2>1, SnapIs, ContentsAre
  <2>3. QED
    BY <1>1, <1>3, <2>2, SnappedIs, CheckpointIs
<1>4. QED
  BY <1>2, <1>3, SnapshotIs DEF TypedInv

LEMMA NoteSnaps ==
    ASSUME TypedInv, NEW f \in Files, StoreNote(f), done' = done, cur # NoCheckpoint
    PROVE  /\ cur' \in CheckpointType /\ Len(All) \in DOMAIN All /\ All[Len(All)] = cur /\ Revised(Len(All), cur')
           /\ \A g : g \in Snapped(cur') <=> g \in Snapped(cur)
           /\ \A g \in Snapped(cur') : cur'.snaps[g].pre = cur.snaps[g].pre
<1>1. cur \in CheckpointType
  BY DEF TypedInv, StoreTypeOK
<1>2. /\ cur' = IF f \in Snapped(cur)
                THEN Snap(cur, f, [pre |-> cur.snaps[f].pre, post |-> HashOf(fs[f])]) ELSE cur
      /\ cur' \in CheckpointType
      /\ Len(All) \in DOMAIN All /\ All[Len(All)] = cur /\ Revised(Len(All), cur')
  BY NoteIs DEF TypedInv
<1>3. CASE f \in Snapped(cur)
  <2> DEFINE x == [pre |-> cur.snaps[f].pre, post |-> HashOf(fs[f])]
  <2>1. x \in Snapshots
    <3>1. cur.snaps[f] \in Snapshots
      BY <1>1, <1>3, SnappedIs
    <3>2. HashOf(fs[f]) \in Contents \cup {NoHash}
      BY ContentsAre DEF TypedInv, StoreTypeOK
    <3>3. QED
      BY <3>1, <3>2 DEF Snapshots
  <2>2. cur' = Snap(cur, f, x) /\ x # NoSnap /\ x.pre = cur.snaps[f].pre
    BY <1>2, <1>3, <2>1, ContentsAre
  <2> HIDE DEF x
  <2>3. cur'.snaps[f] = x /\ \A g \in Files : g # f => cur'.snaps[g] = cur.snaps[g]
    BY <1>1, <2>1, <2>2, SnapIs
  <2>4. \A g : g \in Snapped(cur') <=> g \in Snapped(cur)
    <3>1. \A g : /\ g \in Snapped(cur') <=> g \in Files /\ cur'.snaps[g] # NoSnap
                 /\ g \in Snapped(cur) <=> g \in Files /\ cur.snaps[g] # NoSnap
      BY <1>1, <1>2, SnappedIs
    <3>2. QED
      BY <1>3, <2>2, <2>3, <3>1
  <2>5. \A g \in Snapped(cur') : cur'.snaps[g].pre = cur.snaps[g].pre
    <3>1. Snapped(cur') \subseteq Files
      BY <1>2, SnappedIs
    <3>2. QED
      BY <2>2, <2>3, <3>1
  <2>6. QED
    BY <1>2, <2>4, <2>5
<1>4. CASE f \notin Snapped(cur)
  <2>1. cur' = cur
    BY <1>2, <1>4
  <2>2. QED
    BY <1>2, <2>1
<1>5. QED
  BY <1>3, <1>4

\* The marks leave snapshots alone.
LEMMA MarkSnaps ==
    ASSUME TypedInv, KeepMarked, ~UNCHANGED <<done, dir>>
    PROVE  \E k \in DOMAIN All, c \in CheckpointType :
             /\ Revised(k, c)
             /\ \A g : g \in Snapped(c) <=> g \in Snapped(All[k])
             /\ \A g \in Snapped(c) : c.snaps[g].pre = All[k].snaps[g].pre
<1> DEFINE k == Len(done)
           c == MarkedPost(done[k])
<1>1. k \in DOMAIN All /\ All[k] = done[k] /\ c \in CheckpointType /\ Revised(k, c)
  BY MarkIs DEF TypedInv
<1>2. All[k] \in CheckpointType /\ c = MarkedPost(All[k])
  BY <1>1, AllIs DEF TypedInv
<1> HIDE DEF k, c
<1>3. \A g \in Files : c.snaps[g] =
                IF g \in Snapped(All[k]) THEN [pre |-> All[k].snaps[g].pre, post |-> HashOf(All[k].snaps[g].pre)]
                ELSE All[k].snaps[g]
  BY <1>2, MarkedIs
<1>4. \A g \in Snapped(All[k]) : [pre |-> All[k].snaps[g].pre, post |-> HashOf(All[k].snaps[g].pre)] \in Snapshots
  <2>1. TAKE g \in Snapped(All[k])
  <2>2. All[k].snaps[g] \in Snapshots
    BY <1>2, SnappedIs
  <2>3. All[k].snaps[g].pre \in Contents
    BY <2>2 DEF Snapshots
  <2>4. QED
    BY <2>3, ContentsAre DEF Snapshots
<1>5. \A g : (g \in Snapped(c) <=> g \in Files /\ c.snaps[g] # NoSnap)
             /\ (g \in Snapped(All[k]) <=> g \in Files /\ All[k].snaps[g] # NoSnap)
  BY <1>1, <1>2, SnappedIs
<1>6. \A g : g \in Snapped(c) <=> g \in Snapped(All[k])
  BY <1>3, <1>4, <1>5, ContentsAre
<1>7. ASSUME NEW g \in Snapped(c) PROVE c.snaps[g].pre = All[k].snaps[g].pre
  <2>1. g \in Files /\ g \in Snapped(All[k])
    BY <1>5, <1>6
  <2>2. c.snaps[g] = [pre |-> All[k].snaps[g].pre, post |-> HashOf(All[k].snaps[g].pre)]
    BY <1>3, <2>1
  <2>3. QED
    BY <2>2
<1>8. QED
  BY <1>1, <1>6, <1>7

LEMMA AloneStep == TypedInv /\ AloneInv /\ [StoreNext]_cpVars => AloneInv'
<1> SUFFICES ASSUME TypedInv, AloneInv, [StoreNext]_cpVars, ~dirty'
             PROVE  /\ rw'.at # "idle" => turnAt' = "idle"
                    /\ turnAt' = "open" => cur' # NoCheckpoint
                    /\ edit'.at # "none" => edit'.file \in Snapped(cur')
  BY DEF AloneInv
<1> DEFINE Goal == /\ rw'.at # "idle" => turnAt' = "idle"
                   /\ turnAt' = "open" => cur' # NoCheckpoint
                   /\ edit'.at # "none" => edit'.file \in Snapped(cur')
<1>1. /\ ~dirty => /\ rw.at # "idle" => turnAt = "idle"
                   /\ turnAt = "open" => cur # NoCheckpoint
                   /\ edit.at # "none" => edit.file \in Snapped(cur)
      /\ edit.at # "none" => turnAt = "open"
      /\ turnAt \in {"idle", "numbered", "open"}
  BY DEF AloneInv, TypedInv, Places, StoreTypeOK
<1>2. rw \in [at : {"idle", "log", "code", "keep", "snap", "mark", "restore", "write"},
              turn : Turns \cup {-1}, scope : {"none", "code", "conversation", "both"},
              keep : Int, paths : SUBSET Files, plan : Plans]
      /\ edit \in [file : Files \cup {"none"}, at : {"none", "snapped", "written"}]
  BY DEF TypedInv, StoreTypeOK
<1>3. CASE TurnBegins
  <2>1. ~dirty /\ rw.at = "idle" /\ rw' = rw /\ turnAt = "idle" /\ turnAt' = "numbered" /\ edit' = edit
    BY <1>3 DEF TurnBegins
  <2>2. QED
    BY <1>1, <2>1
<1>4. CASE OpensCheckpoint
  <2>1. ~dirty /\ turnAt = "numbered" /\ rw' = rw /\ turnAt' = "open" /\ edit' = edit /\ StoreBegin(num) /\ num \in Turns
    BY <1>4 DEF OpensCheckpoint, TypedInv, Places
  <2>2. rw.at = "idle" /\ edit.at = "none"
    BY <1>1, <2>1
  <2>3. cur' # NoCheckpoint
    BY <2>1, BeginIs DEF TypedInv
  <2>4. QED
    BY <2>1, <2>2, <2>3
<1>5. ASSUME NEW f \in Files, PreEdit(f) PROVE Goal
  <2>1. ~dirty /\ turnAt = "open" /\ turnAt' = turnAt /\ rw' = rw /\ edit' = [file |-> f, at |-> "snapped"]
        /\ StoreSnapshot(f) /\ done' = done
    BY <1>5 DEF PreEdit
  <2>2. cur # NoCheckpoint
    BY <1>1, <2>1
  <2>3. cur' # NoCheckpoint /\ Snapped(cur') = Snapped(cur) \cup {f}
    BY <2>1, <2>2, SnapshotSnaps
  <2>4. QED
    BY <1>1, <2>1, <2>3
<1>6. ASSUME NEW f \in Files, Executes(f) PROVE Goal
  <2>1. ~dirty /\ UNCHANGED <<cur, turnAt, rw>> /\ edit = [file |-> f, at |-> "snapped"]
        /\ (edit' = NoEdit \/ edit' = [edit EXCEPT !.at = "written"])
    BY <1>6 DEF Executes, storeVars
  <2>2. QED
    BY <1>1, <1>2, <2>1 DEF NoEdit
<1>7. ASSUME NEW f \in Files, PostEdit(f) PROVE Goal
  <2>1. ~dirty /\ edit = [file |-> f, at |-> "written"] /\ UNCHANGED <<turnAt, rw, done>> /\ edit' = NoEdit /\ StoreNote(f)
    BY <1>7 DEF PostEdit
  <2>2. turnAt = "open" /\ cur # NoCheckpoint
    BY <1>1, <2>1
  <2>3. cur' \in CheckpointType
    BY <2>1, <2>2, NoteSnaps
  <2>4. QED
    BY <1>1, <2>1, <2>3, CheckpointIs DEF NoEdit
<1>8. ASSUME ~dirty, rw.at # "idle" PROVE turnAt = "idle" /\ edit.at = "none"
  BY <1>1, <1>8
<1>9. CASE \/ KeepBegins \/ KeepFinalized \/ KeepMarked \/ KeepNumbered \/ RestorePlanned \/ LogRewound \/ LogCompacted
           \/ RewindEnds \/ \E f \in Files : KeepSnapshots(f) \/ RestoresFile(f)
  <2>1. UNCHANGED <<turnAt, edit>> /\ rw.at # "idle" /\ ~dirty
    <3>1. CASE KeepBegins
      BY <3>1, Zenon DEF KeepBegins, TypedInv, StoreTypeOK
    <3>2. CASE \/ KeepFinalized \/ KeepMarked \/ KeepNumbered \/ RestorePlanned \/ LogRewound \/ LogCompacted
               \/ RewindEnds \/ \E f \in Files : KeepSnapshots(f) \/ RestoresFile(f)
      BY <3>2 DEF KeepFinalized, KeepMarked, KeepNumbered, RestorePlanned, LogRewound, LogCompacted,
         RewindEnds, KeepSnapshots, RestoresFile
    <3>3. QED
      BY <1>9, <3>1, <3>2
  <2>2. QED
    BY <1>8, <2>1
<1>10. CASE CrashAndResume
  BY <1>10 DEF CrashAndResume, NoEdit, NoRewind
<1>11. ASSUME NEW t \in Turns, NEW scope, RewindBegins(t, scope) PROVE Goal
  <2>1. UNCHANGED <<cur, turnAt, edit>> /\ turnAt = "idle" /\ ~dirty
    BY <1>11 DEF RewindBegins, storeVars
  <2>2. QED
    BY <1>1, <2>1
<1>12. CASE TurnEnds
  BY <1>1, <1>12 DEF TurnEnds, storeVars, NoEdit
<1>13. CASE Summarizes \/ UNCHANGED cpVars \/ \E f \in Files : Foreign(f)
  <2>1. UNCHANGED <<cur, turnAt, edit, rw, dirty>>
    BY <1>13 DEF Summarizes, cpVars, Foreign, storeVars
  <2>2. QED
    BY <1>1, <2>1
<1>14. QED
  BY <1>3, <1>4, <1>5, <1>6, <1>7, <1>9, <1>10, <1>11, <1>12, <1>13 DEF StoreNext

-----------------------------------------------------------------------------
(* The rewind.                                                             *)

PlanKept ==
    /\ DOMAIN rw.plan = PathsIn(Entries, rw.turn)
    /\ DOMAIN rw.plan \subseteq Covered(Entries)
    /\ \A f \in DOMAIN rw.plan : EarliestIn(Entries, rw.turn, f, rw.plan[f])
    /\ \A f \in DOMAIN rw.plan \ rw.paths :
          rw.turn \in Numbers => f \in origin[rw.turn].foreign \/ fs[f] = rw.plan[f]

\* What the rewind is about to restore is in the last checkpoint.
KeepInv ==
    ~dirty =>
       /\ rw.at = "keep" => PathsIn(Entries, rw.turn) \subseteq rw.paths
       /\ rw.at = "snap" => cur # NoCheckpoint /\ PathsIn(Entries, rw.turn) \subseteq rw.paths \cup Snapped(cur)
       /\ rw.at \in {"mark", "restore"} => PathsIn(Entries, rw.turn) \subseteq Covered(Entries)
       /\ rw.at = "write" => PlanKept

LEMMA ExactStep == TypedInv /\ OrderInv /\ ExactInv /\ AloneInv /\ KeepInv /\ [StoreNext]_cpVars => ExactInv'
<1> SUFFICES ASSUME TypedInv, OrderInv, ExactInv, AloneInv, KeepInv, [StoreNext]_cpVars, ~dirty' PROVE ExactNext
  BY DEF ExactInv, ExactNext
<1>1. ASSUME ~dirty, UNCHANGED <<done, cur, dir>>, origin' = origin, fs' = fs PROVE ExactNext
  BY <1>1, ExactCovered
<1>2. CASE OpensCheckpoint
  <2>1. ~dirty /\ ~(num < NextNumber(Numbers)) /\ num \in Turns /\ StoreBegin(num) /\ fs' = fs
        /\ origin' = [origin EXCEPT ![num] = [fs |-> fs, foreign |-> {}]]
    BY <1>2 DEF OpensCheckpoint, TypedInv, Places, fileVars
  <2>2. QED
    BY <2>1, ExactBegun
<1>3. CASE KeepBegins
  <2>1. ~dirty /\ ~(rw.keep < NextNumber(Numbers)) /\ rw.keep \in Turns /\ StoreBegin(rw.keep) /\ fs' = fs
        /\ origin' = [origin EXCEPT ![rw.keep] = [fs |-> fs, foreign |-> {}]]
    BY <1>3 DEF KeepBegins, fileVars
  <2>2. QED
    BY <2>1, ExactBegun
<1>4. ASSUME NEW f \in Files, StoreSnapshot(f), done' = done, ~dirty, origin' = origin, fs' = fs PROVE ExactNext
  <2>1. CASE UNCHANGED <<cur, dir>>
    BY <1>1, <1>4, <2>1
  <2>2. CASE /\ cur # NoCheckpoint /\ f \notin Snapped(cur)
             /\ cur' = Snap(cur, f, [pre |-> fs[f], post |-> NoHash])
             /\ cur' \in CheckpointType
             /\ Len(All) \in DOMAIN All /\ All[Len(All)] = cur /\ Revised(Len(All), cur')
    BY <1>4, <2>2, ExactSnapped
  <2>3. QED
    BY <1>4, <2>1, <2>2, SnapshotIs DEF TypedInv
<1>5. CASE \E f \in Files : PreEdit(f) \/ KeepSnapshots(f)
  BY <1>4, <1>5 DEF PreEdit, KeepSnapshots, fileVars
<1>6. ASSUME NEW f \in Files, PostEdit(f) PROVE ExactNext
  <2>1. ~dirty /\ StoreNote(f) /\ done' = done /\ origin' = origin /\ fs' = fs
        /\ edit = [file |-> f, at |-> "written"]
    BY <1>6 DEF PostEdit, fileVars
  <2>2. cur # NoCheckpoint
    BY <2>1 DEF AloneInv, TypedInv, Places
  <2>3. /\ cur' \in CheckpointType /\ Len(All) \in DOMAIN All /\ All[Len(All)] = cur /\ Revised(Len(All), cur')
        /\ \A g : g \in Snapped(cur') <=> g \in Snapped(cur)
        /\ \A g \in Snapped(cur') : cur'.snaps[g].pre = cur.snaps[g].pre
    BY <2>1, <2>2, NoteSnaps
  <2>4. QED
    BY <2>1, <2>3, ExactRevised
<1>7. ASSUME NEW f \in Files, Executes(f) PROVE ExactNext
  <2>1. ~dirty /\ UNCHANGED <<done, cur, dir>> /\ origin' = origin /\ edit = [file |-> f, at |-> "snapped"]
        /\ \A g \in Files : g # f => fs'[g] = fs[g]
    BY <1>7 DEF Executes, storeVars, fileVars, TypedInv, StoreTypeOK
  <2>2. cur # NoCheckpoint /\ f \in Snapped(cur)
    BY <2>1 DEF AloneInv, TypedInv, Places
  <2>3. f \in Covered(Entries)
    BY <2>1, <2>2, CurTop DEF Covered
  <2>4. QED
    BY <2>1, <2>3, ExactCovered
<1>8. ASSUME NEW f \in Files, Foreign(f) PROVE ExactNext
  BY <1>8, ExactForeign DEF Foreign
<1>9. ASSUME NEW f \in Files, RestoresFile(f) PROVE ExactNext
  <2>1. ~dirty /\ UNCHANGED <<done, cur, dir>> /\ origin' = origin /\ rw.at = "write" /\ f \in rw.paths
        /\ \A g \in Files : g # f => fs'[g] = fs[g]
    BY <1>9 DEF RestoresFile, storeVars, TypedInv, StoreTypeOK
  <2>2. f \in Covered(Entries)
    BY <2>1 DEF KeepInv, PlanKept, TypedInv, Places
  <2>3. QED
    BY <2>1, <2>2, ExactCovered
<1>10. CASE KeepFinalized
  <2>1. ~dirty /\ origin' = origin /\ fs' = fs
    BY <1>10 DEF KeepFinalized, fileVars
  <2>2. All' = Pruned(All) /\ All \in Seq(CheckpointType) /\ Increasing(All) /\ Elements(All) = Entries
    BY <1>10, <2>1, FinalizeIs, AllIs, EntriesAre DEF TypedInv, OrderInv
  <2>3. QED
    BY <2>1, <2>2, ExactPruned
<1>11. CASE KeepMarked
  <2>1. ~dirty /\ origin' = origin /\ fs' = fs /\ cur' = cur
    BY <1>11 DEF KeepMarked, fileVars
  <2>2. CASE UNCHANGED <<done, dir>>
    BY <1>1, <2>1, <2>2
  <2>3. CASE ~UNCHANGED <<done, dir>>
    <3>1. PICK k \in DOMAIN All, c \in CheckpointType :
             /\ Revised(k, c)
             /\ \A g : g \in Snapped(c) <=> g \in Snapped(All[k])
             /\ \A g \in Snapped(c) : c.snaps[g].pre = All[k].snaps[g].pre
      BY <1>11, <2>3, MarkSnaps
    <3>2. QED
      BY <2>1, <3>1, ExactRevised
  <2>4. QED
    BY <2>2, <2>3
<1>12. CASE CrashAndResume
  <2>1. /\ ~dirty /\ fs' = fs /\ All' = Pruned(Loaded)
        /\ origin' = [n \in Turns |-> [origin[n] EXCEPT !.foreign = @ \cup LostSince(n)]]
    BY <1>12 DEF CrashAndResume, fileVars, All
  <2>2. /\ Loaded \in Seq(CheckpointType) /\ Increasing(Loaded) /\ Holds(Loaded, dir)
        /\ \A i \in DOMAIN Loaded : dir[Loaded[i].turn] = Loaded[i]
    BY LoadedIs DEF TypedInv, StoreTypeOK, Directories
  <2>3. Holds(All, dir)
    BY <2>1 DEF OrderInv
  <2>4. Elements(Loaded) \subseteq Entries
    <3>1. SUFFICES ASSUME NEW i \in DOMAIN Loaded PROVE Loaded[i] \in Entries
      BY DEF Elements
    <3>2. Loaded[i].turn \in Turns /\ Readable(Loaded[i]) /\ Loaded[i] # TornFile /\ dir[Loaded[i].turn] = Loaded[i]
      BY <2>2, CheckpointIs, ReadableIs
    <3>3. PICK j \in DOMAIN All : All[j].turn = Loaded[i].turn
      BY <2>3, <3>2 DEF Holds
    <3>4. dir[All[j].turn] \in {All[j], TornFile}
      BY <2>3 DEF Holds
    <3>5. QED
      BY <3>2, <3>3, <3>4 DEF Entries
  <2>5. ASSUME NEW c \in Entries, dir[c.turn] # TornFile PROVE c \in Elements(Loaded)
    <3>1. PICK i \in DOMAIN All : c = All[i]
      BY DEF Entries
    <3>2. dir[c.turn] = c /\ c.turn \in Turns /\ Readable(c)
      BY <2>3, <2>5, <3>1, EntriesAre, ReadableIs DEF Holds
    <3>3. PICK j \in DOMAIN Loaded : Loaded[j].turn = c.turn
      BY <2>2, <3>2 DEF Holds
    <3>4. QED
      BY <2>2, <3>2, <3>3 DEF Elements
  <2>6. ASSUME NEW n \in Turns
        PROVE  /\ origin'[n].fs = origin[n].fs
               /\ origin'[n].foreign = origin[n].foreign \cup LostSince(n)
    BY <2>1 DEF TypedInv, StoreTypeOK
  <2>7. ASSUME NEW n \in Turns, NEW f \in Files \ origin'[n].foreign
        PROVE  Since(Elements(Loaded), n, f) = Since(Entries, n, f)
    <3>1. f \in Files /\ f \notin LostSince(n)
      BY <2>6, <2>7
    <3>2. ASSUME NEW c \in Since(Entries, n, f) PROVE dir[c.turn] # TornFile
      <4>1. PICK i \in DOMAIN All : c = All[i]
        BY <3>2 DEF Since, Entries
      <4>2. i \in Suffix(n, f)
        BY <3>2, <4>1 DEF Since, Suffix
      <4>3. QED
        BY <3>1, <4>1, <4>2 DEF LostSince
    <3>3. QED
      BY <2>4, <2>5, <3>2 DEF Since
  <2>8. QED
    BY <2>1, <2>2, <2>4, <2>6, <2>7, ExactPruned
<1>13. CASE \/ TurnBegins \/ TurnEnds \/ LogCompacted \/ LogRewound \/ KeepNumbered \/ RestorePlanned
            \/ RewindEnds \/ Summarizes \/ UNCHANGED cpVars
  <2>1. UNCHANGED <<done, cur, dir, origin, fs>>
    BY <1>13 DEF TurnBegins, TurnEnds, LogCompacted, LogRewound, KeepNumbered, RestorePlanned, RewindEnds,
       Summarizes, cpVars, storeVars, fileVars
  <2>2. ~dirty
    BY <1>13 DEF TurnBegins, TurnEnds, LogCompacted, LogRewound, KeepNumbered, RestorePlanned, RewindEnds,
       Summarizes, cpVars
  <2>3. QED
    BY <1>1, <2>1, <2>2
<1>14. ASSUME NEW t \in Turns, NEW scope, RewindBegins(t, scope) PROVE ExactNext
  BY <1>1, <1>14 DEF RewindBegins, storeVars, fileVars
<1>15. QED
  BY <1>2, <1>3, <1>5, <1>6, <1>7, <1>8, <1>9, <1>10, <1>11, <1>12, <1>13, <1>14 DEF StoreNext

\* What a rewind has written when it ends.
LEMMA RewindTells ==
    ASSUME TypedInv, ExactInv, KeepInv, RewindEnds, ~dirty, rw.turn \in Numbers
    PROVE  NotAsAt(rw.turn) = {}
<1>1. rw.at = "write" /\ rw.paths = {} /\ PlanKept
  BY DEF RewindEnds, KeepInv
<1>2. SUFFICES ASSUME NEW f \in Files \ origin[rw.turn].foreign PROVE fs[f] = origin[rw.turn].fs[f]
  BY DEF NotAsAt
<1>3. ExactFor(Entries, rw.turn, f, origin[rw.turn].fs[f], fs[f])
  BY DEF ExactInv
<1>4. CASE f \in DOMAIN rw.plan
  <2>1. EarliestIn(Entries, rw.turn, f, fs[f])
    BY <1>1, <1>2, <1>4 DEF PlanKept
  <2>2. QED
    BY <1>3, <2>1 DEF ExactFor, EarliestIn
<1>5. CASE f \notin DOMAIN rw.plan
  BY <1>1, <1>3, <1>5 DEF ExactFor, PlanKept, PathsIn
<1>6. QED
  BY <1>4, <1>5

\* Fewer checkpoints, or emptier ones, have fewer files.
LEMMA FewerPaths ==
    ASSUME NEW D, NEW E, NEW n, NEW X,
           \A c \in E : \A f \in Snapped(c) : c \in D \/ f \in X \/ \E d \in D : d.turn = c.turn /\ f \in Snapped(d)
    PROVE  PathsIn(E, n) \subseteq PathsIn(D, n) \cup X
BY DEF PathsIn, Since

LEMMA KeepStep == TypedInv /\ OrderInv /\ AloneInv /\ KeepInv /\ [StoreNext]_cpVars => KeepInv'
<1> DEFINE InHand(at, t, ps) ==
              /\ at = "keep" => PathsIn(Entries', t) \subseteq ps
              /\ at = "snap" => cur' # NoCheckpoint /\ PathsIn(Entries', t) \subseteq ps \cup Snapped(cur')
              /\ at \in {"mark", "restore"} => PathsIn(Entries', t) \subseteq Covered(Entries')
           Goal == InHand(rw'.at, rw'.turn, rw'.paths) /\ (rw'.at = "write" => PlanKept')
<1> SUFFICES ASSUME TypedInv, OrderInv, AloneInv, KeepInv, [StoreNext]_cpVars, ~dirty' PROVE Goal
  BY DEF KeepInv
<1>1. /\ rw \in [at : {"idle", "log", "code", "keep", "snap", "mark", "restore", "write"},
                turn : Turns \cup {-1}, scope : {"none", "code", "conversation", "both"},
                keep : Int, paths : SUBSET Files, plan : Plans]
      /\ edit.at # "none" => turnAt = "open"
      /\ turnAt = "numbered" => num \in Turns
  BY DEF TypedInv, StoreTypeOK, Places
<1>2. ~dirty => /\ rw.at = "keep" => PathsIn(Entries, rw.turn) \subseteq rw.paths
                /\ rw.at = "snap" => cur # NoCheckpoint /\ PathsIn(Entries, rw.turn) \subseteq rw.paths \cup Snapped(cur)
                /\ rw.at \in {"mark", "restore"} => PathsIn(Entries, rw.turn) \subseteq Covered(Entries)
                /\ rw.at = "write" => PlanKept
                /\ rw.at # "idle" => turnAt = "idle"
  BY DEF KeepInv, AloneInv
<1>3. ASSUME rw'.at \in {"idle", "log", "code"} PROVE Goal
  BY <1>3
<1>4. ASSUME UNCHANGED <<done, cur, dir>>
      PROVE  Entries' = Entries /\ Numbers' = Numbers /\ cur' = cur
  BY <1>4 DEF Entries, Numbers, All
\* The rewind does not move.
<1>5. ASSUME ~dirty, UNCHANGED <<done, cur, dir, rw>>,
             rw.at = "write" => \A f \in DOMAIN rw.plan \ rw.paths :
                rw.turn \in Numbers => f \in origin'[rw.turn].foreign \/ fs'[f] = rw.plan[f]
      PROVE  Goal
  <2>1. Entries' = Entries /\ Numbers' = Numbers /\ cur' = cur /\ rw' = rw
    BY <1>4, <1>5
  <2>2. InHand(rw'.at, rw'.turn, rw'.paths)
    BY <1>2, <1>5, <2>1
  <2>3. rw'.at = "write" => PlanKept'
    BY <1>2, <1>5, <2>1 DEF PlanKept
  <2>4. QED
    BY <2>2, <2>3
<1>6. CASE \/ Summarizes \/ UNCHANGED cpVars
  <2>1. ~dirty /\ UNCHANGED <<done, cur, dir, rw, origin, fs>>
    BY <1>6 DEF Summarizes, cpVars, storeVars, fileVars
  <2>2. QED
    BY <1>2, <1>5, <2>1 DEF PlanKept
<1>7. ASSUME NEW g \in Files, Foreign(g) PROVE Goal
  <2>1. ~dirty /\ UNCHANGED <<done, cur, dir, rw>>
    BY <1>7 DEF Foreign, storeVars
  <2>2. /\ \A f \in Files : f # g => fs'[f] = fs[f]
        /\ \A n \in Numbers : origin'[n].foreign = origin[n].foreign \cup {g}
    BY <1>7, EntriesAre DEF Foreign, TypedInv, StoreTypeOK
  <2>3. DOMAIN rw.plan \subseteq Files
    BY RewindIs
  <2>4. QED
    BY <1>2, <1>5, <2>1, <2>2, <2>3 DEF PlanKept
\* A turn is at work, so no rewind is.
<1>8. ASSUME ~dirty, rw' = rw, turnAt # "idle" \/ rw.at = "idle" PROVE Goal
  BY <1>2, <1>3, <1>8
<1>9. CASE TurnBegins \/ OpensCheckpoint \/ TurnEnds \/ \E f \in Files : PreEdit(f) \/ Executes(f) \/ PostEdit(f)
  <2>1. CASE TurnBegins \/ OpensCheckpoint
    BY <1>8, <2>1, Zenon DEF TurnBegins, OpensCheckpoint
  <2>2. CASE TurnEnds \/ \E f \in Files : PreEdit(f) \/ Executes(f) \/ PostEdit(f)
    BY <1>1, <1>8, <2>2 DEF TurnEnds, PreEdit, Executes, PostEdit
  <2>3. QED
    BY <1>9, <2>1, <2>2
<1>10. CASE LogCompacted \/ RewindEnds \/ CrashAndResume
  BY <1>3, <1>10 DEF LogCompacted, RewindEnds, CrashAndResume, NoRewind
<1>11. CASE LogRewound
  BY <1>1, <1>3, <1>11 DEF LogRewound, NoRewind
<1>12. ASSUME NEW t \in Turns, NEW scope, RewindBegins(t, scope) PROVE Goal
  <2>1. rw' = [NoRewind EXCEPT !.at = IF scope = "code" THEN "code" ELSE "log", !.turn = t, !.scope = scope]
    BY <1>12 DEF RewindBegins
  <2>2. rw'.at \in {"log", "code"}
    BY <2>1 DEF NoRewind
  <2>3. QED
    BY <1>3, <2>2
<1>13. CASE KeepNumbered
  <2>1. UNCHANGED <<done, cur, dir>> /\ rw.at = "code"
    BY <1>13 DEF KeepNumbered, storeVars
  <2>2. SuffixPaths(rw.turn) = PathsIn(Entries, rw.turn) /\ Entries' = Entries
    BY <1>4, <2>1, PathsAre
  <2>3. CASE SuffixPaths(rw.turn) = {}
    <3>1. rw'.at = "restore" /\ rw'.turn = rw.turn
      BY <1>1, <1>13, <2>3 DEF KeepNumbered
    <3>2. QED
      BY <2>2, <2>3, <3>1
  <2>4. CASE SuffixPaths(rw.turn) # {}
    <3>1. rw'.at = "keep" /\ rw'.turn = rw.turn /\ rw'.paths = SuffixPaths(rw.turn)
      BY <1>1, <1>13, <2>4 DEF KeepNumbered
    <3>2. QED
      BY <2>2, <3>1
  <2>5. QED
    BY <2>3, <2>4
<1>14. CASE KeepBegins
  <2>1. ~dirty /\ ~(rw.keep < NextNumber(Numbers)) /\ rw.keep \in Turns /\ StoreBegin(rw.keep) /\ rw.at = "keep"
        /\ rw' = [rw EXCEPT !.at = "snap"]
    BY <1>14, Zenon DEF KeepBegins, Moves
  <2>2. rw'.at = "snap" /\ rw'.turn = rw.turn /\ rw'.paths = rw.paths
    BY <1>1, <2>1
  <2>3. /\ Entries' = Elements(Pruned(All)) \cup {Checkpoint(rw.keep)}
        /\ \A d \in Elements(Pruned(All)) : d \in Entries
        /\ \A f : f \notin Snapped(Checkpoint(rw.keep))
    BY <2>1, BegunEntries
  <2>4. PathsIn(Entries', rw.turn) \subseteq PathsIn(Entries, rw.turn) \cup {}
    <3>1. \A c \in Entries' : \A f \in Snapped(c) : c \in Entries
      BY <2>3
    <3>2. QED
      BY <3>1, FewerPaths
  <2>5. cur' # NoCheckpoint
    BY <2>1, BeginIs DEF TypedInv
  <2>6. QED
    BY <1>2, <2>1, <2>2, <2>4, <2>5
<1>15. ASSUME NEW f \in Files, KeepSnapshots(f) PROVE Goal
  <2>1. ~dirty /\ rw.at = "snap" /\ StoreSnapshot(f) /\ done' = done /\ rw' = [rw EXCEPT !.paths = @ \ {f}]
    BY <1>15 DEF KeepSnapshots
  <2>2. rw'.at = "snap" /\ rw'.turn = rw.turn /\ rw'.paths = rw.paths \ {f}
    BY <1>1, <2>1
  <2>3. cur # NoCheckpoint /\ PathsIn(Entries, rw.turn) \subseteq rw.paths \cup Snapped(cur)
    BY <1>2, <2>1
  <2>4. cur' # NoCheckpoint /\ cur'.turn = cur.turn /\ Snapped(cur') = Snapped(cur) \cup {f}
    BY <2>1, <2>3, SnapshotSnaps
  <2>5. PathsIn(Entries', rw.turn) \subseteq PathsIn(Entries, rw.turn) \cup {f}
    <3>1. CASE UNCHANGED <<cur, dir>>
      <4>1. Entries' = Entries
        BY <1>4, <2>1, <3>1
      <4>2. QED
        BY <4>1
    <3>2. CASE /\ cur' \in CheckpointType
               /\ Len(All) \in DOMAIN All /\ All[Len(All)] = cur /\ Revised(Len(All), cur')
      <4>1. Entries' = (Entries \ {cur}) \cup {cur'} /\ cur \in Entries
        BY <2>1, <3>2, RevisedEntries DEF OrderInv
      <4>2. \A c \in Entries' : \A h \in Snapped(c) :
               c \in Entries \/ h \in {f} \/ \E d \in Entries : d.turn = c.turn /\ h \in Snapped(d)
        BY <2>4, <4>1
      <4>3. QED
        BY <4>2, FewerPaths
    <3>3. QED
      BY <2>1, <3>1, <3>2, SnapshotIs DEF TypedInv
  <2>6. QED
    BY <2>2, <2>3, <2>4, <2>5
<1>16. CASE KeepFinalized
  <2>1. ~dirty /\ rw.at = "snap" /\ rw.paths = {} /\ rw' = [rw EXCEPT !.at = "mark"]
    BY <1>16 DEF KeepFinalized, Moves
  <2>2. rw'.at = "mark" /\ rw'.turn = rw.turn
    BY <1>1, <2>1
  <2>3. All' = Pruned(All) /\ All \in Seq(CheckpointType) /\ Increasing(All) /\ Elements(All) = Entries
    BY <1>16, <2>1, FinalizeIs, AllIs, EntriesAre DEF TypedInv, OrderInv
  <2>4. Entries' = Elements(Pruned(All))
    BY <2>3 DEF Entries, Elements
  <2>5. cur \in Topmost(Entries) /\ PathsIn(Entries, rw.turn) \subseteq Snapped(cur)
    BY <1>2, <2>1, CurTop
  <2>6. cur \in Topmost(Entries') /\ \A c \in Entries' : c \in Entries
    BY <2>3, <2>4, <2>5, PrunedCovered, PrunedElements
  <2>7. PathsIn(Entries', rw.turn) \subseteq PathsIn(Entries, rw.turn) \cup {}
    BY <2>6, FewerPaths
  <2>8. PathsIn(Entries', rw.turn) \subseteq Covered(Entries')
    BY <2>5, <2>6, <2>7 DEF Covered, PathsIn
  <2>9. QED
    BY <2>2, <2>8
<1>17. CASE KeepMarked
  <2>1. ~dirty /\ rw.at = "mark" /\ rw' = [rw EXCEPT !.at = "restore"] /\ cur' = cur
    BY <1>17 DEF KeepMarked, Moves
  <2>2. rw'.at = "restore" /\ rw'.turn = rw.turn
    BY <1>1, <2>1
  <2>3. PathsIn(Entries, rw.turn) \subseteq Covered(Entries)
    BY <1>2, <2>1
  <2>4. PathsIn(Entries', rw.turn) \subseteq Covered(Entries')
    <3>1. CASE UNCHANGED <<done, dir>>
      BY <1>4, <2>1, <2>3, <3>1
    <3>2. CASE ~UNCHANGED <<done, dir>>
      <4>1. PICK k \in DOMAIN All, c \in CheckpointType :
               /\ Revised(k, c)
               /\ \A g : g \in Snapped(c) <=> g \in Snapped(All[k])
        BY <1>17, <3>2, MarkSnaps
      <4>2. Entries' = (Entries \ {All[k]}) \cup {c} /\ c.turn = All[k].turn /\ All[k] \in Entries
        BY <2>1, <4>1, RevisedEntries DEF OrderInv
      <4>3. PathsIn(Entries', rw.turn) \subseteq PathsIn(Entries, rw.turn) \cup {}
        <5>1. \A b \in Entries' : \A h \in Snapped(b) :
                 b \in Entries \/ \E d \in Entries : d.turn = b.turn /\ h \in Snapped(d)
          BY <4>1, <4>2
        <5>2. QED
          BY <5>1, FewerPaths
      <4>4. Covered(Entries) \subseteq Covered(Entries')
        BY <4>1, <4>2 DEF Covered, Topmost
      <4>5. QED
        BY <2>3, <4>3, <4>4
    <3>3. QED
      BY <3>1, <3>2
  <2>5. QED
    BY <2>2, <2>4
<1>18. CASE RestorePlanned
  <2> DEFINE p == SuffixPaths(rw.turn)
             h == [f \in SuffixPaths(rw.turn) |-> Earliest(rw.turn, f)]
  <2>1. rw' = [rw EXCEPT !.at = "write", !.paths = p, !.plan = h] /\ rw.at = "restore" /\ ~dirty
    BY <1>18 DEF RestorePlanned
  <2>2. DOMAIN h = p /\ \A f \in p : EarliestIn(Entries, rw.turn, f, h[f])
    BY EarliestFirst
  <2>3. p = PathsIn(Entries, rw.turn)
    BY PathsAre
  <2>4. Entries' = Entries
    BY <1>4, <1>18 DEF RestorePlanned, storeVars
  <2> HIDE DEF p, h
  <2>5. rw'.at = "write" /\ rw'.turn = rw.turn /\ rw'.paths = p /\ rw'.plan = h
    BY <1>1, <2>1
  <2>6. PathsIn(Entries, rw.turn) \subseteq Covered(Entries)
    BY <1>2, <2>1
  <2>7. PlanKept'
    BY <2>2, <2>3, <2>4, <2>5, <2>6 DEF PlanKept
  <2>8. QED
    BY <2>5, <2>7
<1>19. ASSUME NEW g \in Files, RestoresFile(g) PROVE Goal
  <2>1. ~dirty /\ rw.at = "write" /\ UNCHANGED <<done, cur, dir, origin>> /\ rw' = [rw EXCEPT !.paths = @ \ {g}]
        /\ g \in rw.paths
    BY <1>19 DEF RestoresFile, storeVars
  <2>2. rw'.at = "write" /\ rw'.turn = rw.turn /\ rw'.paths = rw.paths \ {g} /\ rw'.plan = rw.plan
    BY <1>1, <2>1
  <2>3. fs'[g] = rw.plan[g] /\ \A f \in Files : f # g => fs'[f] = fs[f]
    BY <1>19 DEF RestoresFile, TypedInv, StoreTypeOK
  <2>4. DOMAIN rw.plan \subseteq Files /\ PlanKept
    BY <1>2, <2>1, RewindIs
  <2>5. Entries' = Entries /\ Numbers' = Numbers /\ origin' = origin
    BY <1>4, <2>1
  <2>6. PlanKept'
    BY <2>2, <2>3, <2>4, <2>5 DEF PlanKept
  <2>7. QED
    BY <2>2, <2>6
<1>20. QED
  BY <1>6, <1>7, <1>9, <1>10, <1>11, <1>12, <1>13, <1>14, <1>15, <1>16, <1>17, <1>18, <1>19 DEF StoreNext

RewindInv == TypedInv /\ OrderInv /\ AloneInv /\ ExactInv /\ KeepInv

LEMMA RewindInit == StoreInit => RewindInv
<1> SUFFICES ASSUME StoreInit PROVE RewindInv
  OBVIOUS
<1>1. TypedInv /\ OrderInv
  BY TypedInit, OrderInit
<1>2. AloneInv
  BY DEF StoreInit, AloneInv, NoEdit, NoRewind
<1>3. Numbers = {}
  BY DEF StoreInit, Numbers, All
<1>4. ExactInv
  BY <1>3 DEF ExactInv
<1>5. KeepInv
  BY DEF StoreInit, KeepInv, NoRewind
<1>6. QED
  BY <1>1, <1>2, <1>4, <1>5 DEF RewindInv

\* Rewind leaves every file as it was when the turn began, but for what others
\* wrote since, for any files, limit, turns, rewinds and crashes, while numbers
\* are used in order and no turn runs into a rewind.
THEOREM RewindsExactly == StoreSpec => RewindExact
<1>1. RewindInv /\ [StoreNext]_cpVars => RewindInv'
  BY TypedStep, OrderStep, AloneStep, ExactStep, KeepStep DEF RewindInv
<1>2. RewindInv /\ [StoreNext]_cpVars => [RewindEnds /\ ~dirty /\ rw.turn \in Numbers => NotAsAt(rw.turn) = {}]_cpVars
  BY RewindTells DEF RewindInv
<1>3. QED
  BY <1>1, <1>2, RewindInit, PTL DEF StoreSpec, RewindExact
=============================================================================
