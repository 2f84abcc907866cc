----------------------------- MODULE Transcript -----------------------------
(***************************************************************************)
(* The conversation in memory and its file: the session of                 *)
(* internal/agent (session.go, save.go, compact.go) and the calls of       *)
(* internal/control/controller.go that append to it, fold it, cut it, save *)
(* it and swap it for another.                                             *)
(*                                                                         *)
(* Several goroutines share it: the turn, its autosaver, the goroutine of a   *)
(* /compact, a frontend's call (/new, /clear, branch, switch, resume, a    *)
(* rewind of the conversation) and, after a crash, nobody.  A message is   *)
(* <<turn, number>>, number 0 being the user's; an item of the log is a    *)
(* message or the digest of some.  Contents are not modelled, only what a  *)
(* log still holds.  Left out: SummarizeFrom, SummarizeUpTo (which digest   *)
(* user turns too) and Fork, a branch of a cut log.                        *)
(***************************************************************************)
EXTENDS Naturals, Sequences, FiniteSets

CONSTANTS Ops,     \* the frontend calls that occur
          Keep,    \* agent.tailFloor: newest items a fold leaves alone
          MaxPaths, MaxTurns, MaxReplies,  \* bounds
          Limits   \* how many folds, calls, ... a behaviour may have (bounds), see LimitAssumption

ASSUME OpsAssumption == Ops \subseteq {"new", "clear", "branch", "switch", "resume", "rewind", "compact"}
ASSUME BoundAssumption == {Keep, MaxPaths, MaxTurns, MaxReplies} \subseteq Nat

\* replies are those of one turn, the others of the whole behaviour.
ASSUME LimitAssumption ==
    Limits \subseteq [folds : Nat, calls : Nat, ticks : Nat, outages : Nat, crashes : Nat, replies : 0..MaxReplies]

NoPath == 0
Paths == 1..MaxPaths
Savers == {"turn", "auto", "front", "compact"}
Folders == {"turn", "compact"}

VARIABLES
    log,       \* the messages of agent.session
    path,      \* c.sessionPath
    minted,    \* session paths made so far
    file, sig, \* path -> contents of the file, and the contents its .sig signs
    turn,      \* the turn: where it stands, its number, startMessages, messages added
    auto,      \* an autosaveWhileRunning goroutine lives
    fold,      \* folder -> the log it planned on and the one it will put, or NoFold
    save,      \* saver -> where its snapshot stands
    front,     \* the frontend's call
    conv,      \* the path of the conversation the log is (history)
    own,       \* path -> messages said in that conversation (history)
    ended,     \* turns that cleared c.running (history)
    cleared,   \* paths ClearSession removed (history)
    rewound,   \* path -> messages a rewind took from that conversation (history)
    mishaps,   \* races and faults so far, see Record and Crash (history)
    count,     \* folds, frontend calls, autosaves and crashes so far (bound)
    limit      \* the most of each (bound)

memory == <<log, path, turn, auto, fold, save, front, conv>>
disk == <<file, sig>>
history == <<own, ended, cleared, rewound>>
vars == <<memory, minted, disk, history, mishaps, count, limit>>

NoFile == <<>>  \* a session without content is never saved
Saving(at, p, content) == [at |-> at, path |-> p, content |-> content]
NoSave == Saving("none", NoPath, <<>>)
Asked == Saving("asked", NoPath, <<>>)
NoFold == [of |-> <<>>, to |-> <<>>]
NoFront == [op |-> "none", at |-> "none", to |-> NoPath, log |-> <<>>]
NoTurn == [at |-> "idle", n |-> 0, start |-> 0, said |-> 0]

Init ==
    /\ log = <<>> /\ path = NoPath /\ minted = 0
    /\ file = [p \in Paths |-> NoFile] /\ sig = [p \in Paths |-> NoFile]
    /\ turn = NoTurn /\ auto = FALSE
    /\ fold = [a \in Folders |-> NoFold]
    /\ save = [a \in Savers |-> NoSave]
    /\ front = NoFront
    /\ conv = NoPath /\ own = [p \in Paths |-> {}]
    /\ ended = {} /\ cleared = {} /\ rewound = [p \in Paths |-> {}] /\ mishaps = {}
    /\ count = [folds |-> 0, calls |-> 0, ticks |-> 0, outages |-> 0, crashes |-> 0]
    /\ limit \in Limits

-----------------------------------------------------------------------------
(* Logs and folds.                                                         *)

Message(m) == [digest |-> FALSE, of |-> {m}]
Held(s) == UNION {s[i].of : i \in DOMAIN s}

IsDigest(x) == x.digest

IsUser(x) == ~x.digest /\ \E t \in 1..MaxTurns : <<t, 0>> \in x.of

\* The user turn that opens the log and the digests right behind it.
pinnedPrefixLen(s) ==
    LET first == IF s # <<>> /\ IsUser(s[1]) THEN 1 ELSE 0
    IN  CHOOSE h \in first..Len(s) :
            /\ \A i \in (first + 1)..h : IsDigest(s[i])
            /\ h = Len(s) \/ ~IsDigest(s[h + 1])

\* The newest digest if it is in the pinned prefix, else 0.
PreviousDigest(s) ==
    LET digests == {i \in DOMAIN s : IsDigest(s[i])}
        newest == CHOOSE i \in digests : \A j \in digests : j <= i
    IN  IF digests # {} /\ newest <= pinnedPrefixLen(s) THEN newest ELSE 0

\* The items of s at the positions in P, in their order.
Picked(s, P) ==
    LET Nth(k) == CHOOSE i \in P : Cardinality({j \in P : j < i}) = k - 1
    IN  [k \in 1..Cardinality(P) |-> s[Nth(k)]]

\* partitionFold: what stays verbatim in a region and what is folded, both in order.
Stays(x) == IsDigest(x) \/ IsUser(x)
Kept(region) == Picked(region, {i \in DOMAIN region : Stays(region[i])})
Folded(region) == Picked(region, {i \in DOMAIN region : ~Stays(region[i])})

Region(s, start) == SubSeq(s, pinnedPrefixLen(s) + 1, start)

\* planCompaction: where the tail may begin; its token budget decides.
TailStarts(s) ==
    {k \in (pinnedPrefixLen(s) + 1)..Len(s) :
        k + Keep <= Len(s) /\ Folded(Region(s, k)) # <<>>}

\* The pinned prefix without the digest that is about to be replaced.
Prefix(s) ==
    LET old == PreviousDigest(s)
    IN  SubSeq(s, 1, old - 1) \o SubSeq(s, old + 1, pinnedPrefixLen(s))

Digest(messages) == [digest |-> TRUE, of |-> messages]

\* What the new digest holds: what is folded, and what the earlier digest held,
\* which the summarizer is asked to update; if it does not answer, the
\* mechanicalFoldDigest that takes its place only counts the messages.
Digested(s, start, answered) ==
    IF ~answered THEN {}
    ELSE Held(Folded(Region(s, start)))
             \cup (IF PreviousDigest(s) # 0 THEN s[PreviousDigest(s)].of ELSE {})

\* Variant: the earlier digest is dropped and not fed to the new one.
CompactedFresh(s, start, answered) ==
    LET digest == Digest(IF answered THEN Held(Folded(Region(s, start))) ELSE {})
    IN  Prefix(s) \o Kept(Region(s, start)) \o <<digest>> \o SubSeq(s, start + 1, Len(s))

\* Variant: the tail begins one item too early.
CompactedTwice(s, start, answered) ==
    Prefix(s) \o Kept(Region(s, start)) \o <<Digest(Digested(s, start, answered))>>
              \o SubSeq(s, start, Len(s))

\* The log compact puts: prefix, kept user turns, one digest, tail.
Compacted(s, start, answered) ==
    Prefix(s) \o Kept(Region(s, start)) \o <<Digest(Digested(s, start, answered))>>
              \o SubSeq(s, start + 1, Len(s))

-----------------------------------------------------------------------------
(* What goes wrong, so that the properties can say when they hold.         *)

Running == turn.at # "idle"
Writing(a) == save[a].at \in {"copied", "replaced", "read"}

\* A rotation or a rewind next to a turn, a fold or another save.
Torn ==
    /\ front # NoFront
    /\ \/ Running
       \/ \E a \in Folders : fold[a] # NoFold
       \/ \E a \in Savers \ {"front"} : save[a] # NoSave

\* Two saves of one file at a time.
Overlap == \E a, b \in Savers : a # b /\ Writing(a) /\ Writing(b) /\ save[a].path = save[b].path

\* A turn that added messages leaves the log no longer than it found it.
Skipped == turn.at = "loop" /\ turn'.at = "ending" /\ turn.said > 0 /\ Len(log) <= turn.start

\* A fold is put over a log that is not the one it was planned on.
Raced == \E a \in Folders : fold[a] # NoFold /\ fold'[a] = NoFold /\ log # fold[a].of

\* A fold the summarizer did not answer for.
Unanswered == count'.outages > count.outages

Record ==
    /\ UNCHANGED limit
    /\ mishaps' = mishaps
          \cup (IF Torn' THEN {"torn"} ELSE {})
          \cup (IF Overlap' THEN {"overlap"} ELSE {})
          \cup (IF Skipped THEN {"skipped"} ELSE {})
          \cup (IF Raced THEN {"raced"} ELSE {})
          \cup (IF Unanswered THEN {"outage"} ELSE {})

\* A crash between the replacement of a file and its signature.
Cut == \E a \in Savers : save[a].at \in {"replaced", "read"}

-----------------------------------------------------------------------------
(* The turn.                                                               *)

\* runGuarded: admit the turn and start its autosaver.
StartTurn ==
    /\ ~Running /\ turn.n < MaxTurns
    /\ turn' = [at |-> "admitted", n |-> turn.n + 1, start |-> 0, said |-> 0]
    /\ auto' = TRUE
    /\ UNCHANGED <<log, path, fold, save, front, conv, minted, disk, history, count>>
    /\ Record

\* runTurnWithRawDisplay: ensureSessionPath mints the path of a session that has
\* none, then startMessages := c.messageCount().
OpenTurn ==
    /\ turn.at = "admitted"
    /\ turn' = [turn EXCEPT !.at = "loop", !.start = Len(log)]
    /\ IF path # NoPath
       THEN UNCHANGED <<path, minted, conv>>
       ELSE /\ minted < MaxPaths
            /\ minted' = minted + 1
            /\ path' = minted'
            /\ conv' = IF conv = NoPath THEN minted' ELSE conv
    /\ UNCHANGED <<log, auto, fold, save, front, disk, history, count>>
    /\ Record

\* Session.Add: the user's message first, then replies and tool results.
AddMessage ==
    /\ turn.at = "loop" /\ fold["turn"] = NoFold /\ turn.said <= limit.replies
    /\ LET m == <<turn.n, turn.said>> IN
       /\ log' = Append(log, Message(m))
       /\ own' = [own EXCEPT ![conv] = @ \cup {m}]
    /\ turn' = [turn EXCEPT !.said = @ + 1]
    /\ UNCHANGED <<path, auto, fold, save, front, conv, minted, disk, ended, cleared, rewound, count>>
    /\ Record

\* The end of Run and snapshotActivityIfChanged.
EndLoop ==
    /\ turn.at = "loop" /\ fold["turn"] = NoFold
    /\ turn' = [turn EXCEPT !.at = "ending"]
    /\ save' = IF Len(log) > turn.start
               THEN [save EXCEPT !["turn"] = Asked]
               ELSE save
    /\ UNCHANGED <<log, path, auto, fold, front, conv, minted, disk, history, count>>
    /\ Record

\* Variant: the turn is over before its snapshot has returned.
FinishTurnEarly ==
    /\ turn.at = "ending"
    /\ turn' = [NoTurn EXCEPT !.n = turn.n]
    /\ ended' = ended \cup {turn.n}
    /\ UNCHANGED <<log, path, auto, fold, save, front, conv, minted, disk, own, cleared, rewound, count>>
    /\ Record

\* c.running = false, once the deferred snapshot has returned.
FinishTurn ==
    /\ turn.at = "ending" /\ save["turn"] = NoSave
    /\ turn' = [NoTurn EXCEPT !.n = turn.n]
    /\ ended' = ended \cup {turn.n}
    /\ UNCHANGED <<log, path, auto, fold, save, front, conv, minted, disk, own, cleared, rewound, count>>
    /\ Record

\* A tick of autosaveWhileRunning.  The ticker and ctx.Done race, so that one
\* may still come after the turn; two autosavers never save at once (bound).
AutosaveTick ==
    /\ auto /\ save["auto"] = NoSave /\ count.ticks < limit.ticks
    /\ count' = [count EXCEPT !.ticks = @ + 1]
    /\ save' = [save EXCEPT !["auto"] = Asked]
    /\ UNCHANGED <<log, path, turn, auto, fold, front, conv, minted, disk, history>>
    /\ Record

AutosaveExit ==
    /\ auto /\ ~Running /\ save["auto"] = NoSave
    /\ auto' = FALSE
    /\ UNCHANGED <<log, path, turn, fold, save, front, conv, minted, disk, history, count>>
    /\ Record

-----------------------------------------------------------------------------
(* Compaction, by the turn (maybeCompact) or by /compact (CompactNow).      *)

\* compact reads a.session.Messages and plans; then it summarizes, over the
\* network, or makes do with a mechanical digest.
PlanFold(a) ==
    /\ fold[a] = NoFold /\ count.folds < limit.folds
    /\ \/ a = "turn" /\ turn.at = "loop"
       \/ a = "compact" /\ a \in Ops /\ save[a] = NoSave
    /\ \E start \in TailStarts(log), answered \in BOOLEAN :
           /\ answered \/ count.outages < limit.outages
           /\ fold' = [fold EXCEPT ![a] = [of |-> log, to |-> Compacted(log, start, answered)]]
           /\ count' = [count EXCEPT !.folds = @ + 1, !.outages = IF answered THEN @ ELSE @ + 1]
    /\ UNCHANGED <<log, path, turn, auto, save, front, conv, minted, disk, history>>
    /\ Record

\* a.session.Replace, on whatever a.session is by then; /compact then saves.
PutFold(a) ==
    /\ fold[a] # NoFold
    /\ log' = fold[a].to
    /\ fold' = [fold EXCEPT ![a] = NoFold]
    /\ save' = IF a = "compact" THEN [save EXCEPT ![a] = Asked] ELSE save
    /\ UNCHANGED <<path, turn, auto, front, conv, minted, disk, history, count>>
    /\ Record

-----------------------------------------------------------------------------
(* snapshot and Session.Save.                                              *)

\* snapshot: the path, under c.mu.
ReadPath(a) ==
    /\ save[a].at = "asked"
    /\ save' = [save EXCEPT ![a] = IF path = NoPath THEN NoSave
                                   ELSE Saving("path", path, <<>>)]
    /\ UNCHANGED <<log, path, turn, auto, fold, front, conv, minted, disk, history, count>>
    /\ Record

\* Then the session, and its copy under its own lock.
CopyLog(a) ==
    /\ save[a].at = "path"
    /\ save' = [save EXCEPT ![a] = IF log = <<>> THEN NoSave
                                   ELSE Saving("copied", save[a].path, log)]
    /\ UNCHANGED <<log, path, turn, auto, fold, front, conv, minted, disk, history, count>>
    /\ Record

ReplaceFile(a) ==
    /\ save[a].at = "copied"
    /\ file' = [file EXCEPT ![save[a].path] = save[a].content]
    /\ save' = [save EXCEPT ![a] = Saving("replaced", save[a].path, save[a].content)]
    /\ own' = IF a = "front" /\ front.to = save[a].path  \* a branch comes to be
              THEN [own EXCEPT ![front.to] = Held(save[a].content)] ELSE own
    /\ UNCHANGED <<log, path, turn, auto, fold, front, conv, minted, sig, ended, cleared, rewound, count>>
    /\ Record

\* Save reads the file back to sign it.
ReadBack(a) ==
    /\ save[a].at = "replaced"
    /\ LET data == file[save[a].path] IN
       save' = [save EXCEPT ![a] = IF data = NoFile THEN NoSave
                                   ELSE Saving("read", save[a].path, data)]
    /\ UNCHANGED <<log, path, turn, auto, fold, front, conv, minted, disk, history, count>>
    /\ Record

\* Variant: a signature that is there is not written again.
SignOnce(a) ==
    /\ save[a].at = "read"
    /\ sig' = IF sig[save[a].path] = NoFile THEN [sig EXCEPT ![save[a].path] = save[a].content] ELSE sig
    /\ save' = [save EXCEPT ![a] = NoSave]
    /\ UNCHANGED <<log, path, turn, auto, fold, front, conv, minted, file, history, count>>
    /\ Record

Sign(a) ==
    /\ save[a].at = "read"
    /\ sig' = [sig EXCEPT ![save[a].path] = save[a].content]
    /\ save' = [save EXCEPT ![a] = NoSave]
    /\ UNCHANGED <<log, path, turn, auto, fold, front, conv, minted, file, history, count>>
    /\ Record

\* LoadSession: a signature that is there must match.
Loads(p) == file[p] # NoFile /\ sig[p] \in {NoFile, file[p]}

-----------------------------------------------------------------------------
(* The frontend's calls.  Each looks at c.running once, when it starts;    *)
(* serve's resume does not look.                                           *)

\* NewSession, Branch and SwitchBranch refuse during a turn, then Snapshot.
StartRotation(op) ==
    /\ front = NoFront /\ op \in Ops /\ count.calls < limit.calls
    /\ count' = [count EXCEPT !.calls = @ + 1]
    /\ \/ op = "resume"
       \/ op \in {"new", "switch"} /\ ~Running
       \/ op = "branch" /\ ~Running /\ log # <<>>
    /\ front' = [NoFront EXCEPT !.op = op, !.at = "snapshot"]
    /\ save' = [save EXCEPT !["front"] = Asked]
    /\ UNCHANGED <<log, path, turn, auto, fold, conv, minted, disk, history>>
    /\ Record

\* ClearSession notes the path in the region that looks at c.running.
StartClear ==
    /\ front = NoFront /\ "clear" \in Ops /\ ~Running /\ count.calls < limit.calls
    /\ count' = [count EXCEPT !.calls = @ + 1]
    /\ front' = [NoFront EXCEPT !.op = "clear", !.at = "remove", !.to = path]
    /\ UNCHANGED <<log, path, turn, auto, fold, save, conv, minted, disk, history>>
    /\ Record

\* removeSessionArtifacts; the .sig stays.
RemoveArtifacts ==
    /\ front.at = "remove"
    /\ IF front.to = NoPath
       THEN UNCHANGED <<file, cleared>>
       ELSE /\ file' = [file EXCEPT ![front.to] = NoFile]
            /\ cleared' = cleared \cup {front.to}
    /\ front' = [front EXCEPT !.at = "rotate"]
    /\ UNCHANGED <<log, path, turn, auto, fold, save, conv, minted, sig, own, ended, rewound, count>>
    /\ Record

\* Variant: the session is swapped and the path is not.
RotateLogOnly ==
    /\ \/ front.op = "new" /\ front.at = "snapshot" /\ save["front"] = NoSave
       \/ front.at = "rotate"
    /\ minted < MaxPaths
    /\ minted' = minted + 1
    /\ log' = <<>> /\ path' = path /\ conv' = minted'
    /\ front' = NoFront
    /\ UNCHANGED <<turn, auto, fold, save, disk, history, count>>
    /\ Record

\* /new and /clear swap session and path in one region.
Rotate ==
    /\ \/ front.op = "new" /\ front.at = "snapshot" /\ save["front"] = NoSave
       \/ front.at = "rotate"
    /\ minted < MaxPaths
    /\ minted' = minted + 1
    /\ log' = <<>> /\ path' = minted' /\ conv' = minted'
    /\ front' = NoFront
    /\ UNCHANGED <<turn, auto, fold, save, disk, history, count>>
    /\ Record

\* Branch copies the log and saves the copy under a path of its own.
BranchCopy ==
    /\ front.op = "branch" /\ front.at = "snapshot" /\ save["front"] = NoSave
    /\ minted < MaxPaths
    /\ minted' = minted + 1
    /\ front' = [front EXCEPT !.at = "loaded", !.to = minted', !.log = log]
    /\ save' = [save EXCEPT !["front"] = Saving("copied", minted', log)]
    /\ UNCHANGED <<log, path, turn, auto, fold, conv, disk, history, count>>
    /\ Record

\* Variant: the last line of a file is not read.
LoadTruncated(p) ==
    /\ front.op \in {"switch", "resume"} /\ front.at = "snapshot" /\ save["front"] = NoSave
    /\ file[p] # NoFile
    /\ front' = IF Loads(p)
                THEN [front EXCEPT !.at = "loaded", !.to = p, !.log = SubSeq(file[p], 1, Len(file[p]) - 1)]
                ELSE NoFront
    /\ UNCHANGED <<log, path, turn, auto, fold, save, conv, minted, disk, history, count>>
    /\ Record

\* SwitchBranch and resume load a file; a load that fails ends the call.
Load(p) ==
    /\ front.op \in {"switch", "resume"} /\ front.at = "snapshot" /\ save["front"] = NoSave
    /\ file[p] # NoFile
    /\ front' = IF Loads(p) THEN [front EXCEPT !.at = "loaded", !.to = p, !.log = file[p]]
                ELSE NoFront
    /\ UNCHANGED <<log, path, turn, auto, fold, save, conv, minted, disk, history, count>>
    /\ Record

\* There is no file to load.
LoadNothing ==
    /\ front.op \in {"switch", "resume"} /\ front.at = "snapshot" /\ save["front"] = NoSave
    /\ front' = NoFront
    /\ UNCHANGED <<log, path, turn, auto, fold, save, conv, minted, disk, history, count>>
    /\ Record

\* executor.SetSession; the path follows in a region of its own.
SetSession ==
    /\ front.at = "loaded" /\ save["front"] = NoSave
    /\ log' = front.log /\ conv' = front.to
    /\ front' = [front EXCEPT !.at = "set"]
    /\ UNCHANGED <<path, turn, auto, fold, save, minted, disk, history, count>>
    /\ Record

SetPath ==
    /\ front.at = "set"
    /\ path' = front.to
    /\ front' = NoFront
    /\ UNCHANGED <<log, turn, auto, fold, save, conv, minted, disk, history, count>>
    /\ Record

\* Rewind of a conversation looks at c.running and at the turn's boundary.  One
\* that is refused changes nothing and is left out.
StartRewind ==
    /\ front = NoFront /\ "rewind" \in Ops /\ ~Running /\ count.calls < limit.calls
    /\ count' = [count EXCEPT !.calls = @ + 1]
    /\ front' = [NoFront EXCEPT !.op = "rewind", !.at = "cut"]
    /\ UNCHANGED <<log, path, turn, auto, fold, save, conv, minted, disk, history>>
    /\ Record

\* Where a turn began: before its user's message, or at the end if it added none.
\* A fold moves the items and not the boundaries.
Boundaries ==
    {b \in 0..Len(log) : count.folds > 0 \/ b = Len(log) \/ IsUser(log[b + 1])}

\* s.Messages = s.Messages[:boundary], then Snapshot.
CutLog ==
    /\ front.at = "cut"
    /\ \E b \in Boundaries : log' = SubSeq(log, 1, b)
    /\ rewound' = [p \in Paths |-> IF p = conv THEN rewound[p] \cup (Held(log) \ Held(log'))
                                   ELSE rewound[p]]
    /\ front' = [front EXCEPT !.at = "saving"]
    /\ save' = [save EXCEPT !["front"] = Asked]
    /\ UNCHANGED <<path, turn, auto, fold, conv, minted, disk, own, ended, cleared, count>>
    /\ Record

EndRewind ==
    /\ front.at = "saving" /\ save["front"] = NoSave
    /\ front' = NoFront
    /\ UNCHANGED <<log, path, turn, auto, fold, save, conv, minted, disk, history, count>>
    /\ Record

-----------------------------------------------------------------------------
\* The process dies: the files are what is left.
Crash ==
    /\ count.crashes < limit.crashes
    /\ count' = [count EXCEPT !.crashes = @ + 1]
    /\ log' = <<>> /\ path' = NoPath /\ conv' = NoPath
    /\ turn' = [NoTurn EXCEPT !.n = turn.n] /\ auto' = FALSE
    /\ fold' = [a \in Folders |-> NoFold]
    /\ save' = [a \in Savers |-> NoSave]
    /\ front' = NoFront
    /\ mishaps' = mishaps \cup (IF Cut THEN {"cut"} ELSE {})
    /\ UNCHANGED <<minted, disk, history, limit>>

Next ==
    \/ StartTurn \/ OpenTurn \/ AddMessage \/ EndLoop \/ FinishTurn
    \/ AutosaveTick \/ AutosaveExit
    \/ \E a \in Folders : PlanFold(a) \/ PutFold(a)
    \/ \E a \in Savers : ReadPath(a) \/ CopyLog(a) \/ ReplaceFile(a) \/ ReadBack(a) \/ Sign(a)
    \/ \E op \in {"new", "branch", "switch", "resume"} : StartRotation(op)
    \/ StartClear \/ RemoveArtifacts \/ Rotate \/ BranchCopy
    \/ \E p \in Paths : Load(p)
    \/ LoadNothing \/ SetSession \/ SetPath
    \/ StartRewind \/ CutLog \/ EndRewind
    \/ Crash

Spec == Init /\ [][Next]_vars

-----------------------------------------------------------------------------
Messages == (1..MaxTurns) \X (0..MaxReplies)
Items == [digest : BOOLEAN, of : SUBSET Messages]
Logs == Seq(Items)

TypeOK ==
    /\ log \in Logs /\ path \in Paths \cup {NoPath} /\ conv \in Paths \cup {NoPath}
    /\ minted \in 0..MaxPaths
    /\ file \in [Paths -> Logs] /\ sig \in [Paths -> Logs]
    /\ turn \in [at : {"idle", "admitted", "loop", "ending"}, n : 0..MaxTurns,
                 start : Nat, said : 0..(MaxReplies + 1)]
    /\ auto \in BOOLEAN
    /\ fold \in [Folders -> [of : Logs, to : Logs]]
    /\ save \in [Savers -> [at : {"none", "asked", "path", "copied", "replaced", "read"},
                            path : Paths \cup {NoPath}, content : Logs]]
    /\ front \in [op : {"none", "new", "clear", "branch", "switch", "resume", "rewind"},
                  at : {"none", "snapshot", "remove", "rotate", "loaded", "set", "cut", "saving"},
                  to : Paths \cup {NoPath}, log : Logs]
    /\ own \in [Paths -> SUBSET Messages] /\ rewound \in [Paths -> SUBSET Messages]
    /\ ended \subseteq 1..MaxTurns /\ cleared \subseteq Paths
    /\ mishaps \subseteq {"torn", "overlap", "skipped", "raced", "outage", "cut"}
    /\ limit \in Limits
    /\ count \in [folds : 0..limit.folds, calls : 0..limit.calls, ticks : 0..limit.ticks,
                 outages : 0..limit.outages, crashes : 0..limit.crashes]

Spared(kinds) == mishaps \cap kinds = {}

\* The messages turns that are over said in conversation p, but for what a
\* rewind took from it.
Over(p) == {m \in own[p] \ rewound[p] : m[1] \in ended}

\* Once a turn is over, its conversation's file holds all it said, itself or in
\* a digest, and a crash cannot lose it.  Not so for the kinds of mishap named.
EndedTurnOnDisk(except) ==
    Spared(except) => \A p \in Paths \ cleared : Over(p) \subseteq Held(file[p])

TurnSavedAtItsEnd == EndedTurnOnDisk({"torn", "overlap", "skipped", "raced", "outage"})

\* What a session's log covers never shrinks under a fold: whatever turns that
\* are over and the present one said is in memory, itself or in a digest.
LogCovers(except) ==
    Spared(except) /\ conv # NoPath =>
        /\ Over(conv) \subseteq Held(log)
        /\ \A m \in own[conv] : Running /\ m[1] = turn.n => m \in Held(log)

NothingForgotten == LogCovers({"torn", "overlap", "skipped", "raced", "outage"})

\* However often a log is folded, by whom, and next to what: no user's message
\* goes into a digest, a digest comes before whatever was said after what it
\* digests, and no message stands in two places.
UserTurnsVerbatim ==
    \A i \in DOMAIN log : IsDigest(log[i]) => \A m \in log[i].of : m[2] # 0

InOrder ==
    \A i, j \in DOMAIN log : i < j =>
        /\ log[i].of \cap log[j].of = {}
        /\ ~IsUser(log[i]) /\ ~IsUser(log[j]) =>
               \A m \in log[i].of, n \in log[j].of :
                   m[1] < n[1] \/ (m[1] = n[1] /\ m[2] < n[2])

LogInOrder == UserTurnsVerbatim /\ InOrder

\* A session's file can be loaded whenever no save is between the file and its
\* signature.
Reloads(except) ==
    Spared(except) =>
        \A p \in Paths :
            file[p] # NoFile /\ (\A a \in Savers : save[a].path = p => save[a].at \notin {"replaced", "read"})
                => Loads(p)

SavedFileReloads == Reloads({"cut", "overlap"})

\* No file holds a message of another conversation, and what ClearSession
\* removed stays removed.
FileIsOneConversation(except) ==
    Spared(except) => \A p \in Paths : Held(file[p]) \subseteq own[p]

ClearedStaysGone(except) == Spared(except) => \A p \in cleared : file[p] = NoFile

FilesKeptApart == FileIsOneConversation({"torn"}) /\ ClearedStaysGone({"torn"})

\* No save loses what a file holds, over folds, restarts, resumes and switches:
\* but for what ClearSession removes, a file loses only what a rewind took from
\* that very conversation.
FilesOnlyGrow ==
    [][Spared({"torn", "overlap", "raced", "outage"})' =>
          \A p \in Paths \ cleared' : Held(file[p]) \ rewound'[p] \subseteq Held(file'[p])]_vars

-----------------------------------------------------------------------------
(* What comments promise and the code does not keep.                       *)

\* compact.go:232-234: an earlier digest is folded into the new one "instead of
\* letting the old and new summaries coexist".
OneDigest == Cardinality({i \in DOMAIN log : IsDigest(log[i])}) <= 1

\* compact.go:466-471: prior summaries are pinned so that "a later fold never
\* re-summarizes an earlier summary into nothing".
InDigests(s) == UNION {s[i].of : i \in {j \in DOMAIN s : IsDigest(s[j])}}
DigestSurvivesOutage ==
    [][\A a \in Folders : fold[a] # NoFold /\ log = fold[a].of /\ log' = fold[a].to
           => InDigests(log) \subseteq InDigests(log')]_vars

\* controller.go:2536-2539: Snapshot is "called after every turn so a crash
\* loses at most one in-flight prompt".
EveryTurnSaved == EndedTurnOnDisk({"torn", "overlap", "raced", "outage"})

\* controller.go:2558-2561: "racing the turn's appends is safe".
AutosaveHarmless == EndedTurnOnDisk({"torn", "skipped", "raced", "outage"})

\* save.go:138-139: "a crash mid-write can't leave a partial JSONL that won't
\* reload".
CrashReloads == Reloads({"overlap"})
OverlapReloads == Reloads({"cut"})

\* session.go:11-12: the run loop "is the only writer", so that no fold is put
\* over messages it has not seen.
RunLoopOnlyWriter == LogCovers({"torn", "overlap", "skipped", "outage"})

\* controller.go:1909-1913: no turn "writes to a session we are about to replace".
RotationExcludesTurns == FileIsOneConversation({})

\* controller.go:1939-1940: the conversation is discarded "without preserving it
\* in resume/history".
ClearedForGood == ClearedStaysGone({})

\* agent.go:433-434: SetSession "only fires while idle".
SetSessionWhenIdle == [][front.at = "loaded" /\ front'.at = "set" => ~Running]_vars
=============================================================================
