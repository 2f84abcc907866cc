---------------------------- MODULE TrustDomain ----------------------------
(***************************************************************************)
(* The trust domain of internal/trustdomain: on each host a daemon (Node,    *)
(* "trustdomain run") that synchronises its chain with the daemons of the    *)
(* other hosts tick by tick, and one-shot commands ("trustdomain admit",     *)
(* ...) that append a block to the same ledger file.  A request to a peer, a *)
(* step of Store.Save and a look at the file are actions of their own:       *)
(* anything may happen between two of them.  Left out: "trustdomain sync", a *)
(* command that makes one tick of its own next to the daemon.                *)
(***************************************************************************)
EXTENDS Ledger

CONSTANTS Hosts,            \* the identities with a host in this network
          Origin,           \* the chain all of them have joined with
          NoFile,           \* there is no ledger.json
          CheckpointEvery,  \* new blocks between checkpoints, 0 for never
          Commands,         \* the records that commands of each host append
          MaxHeight,        \* height no block exceeds (bound)
          MaxCommands,      \* commands that are run (bound)
          MaxFaults         \* failed requests, crashes and panics (bound)

ASSUME HostsAssumption == Hosts \subseteq Identities
ASSUME OriginAssumption == Origin \in Chains /\ Increasing(Origin)
ASSUME NoFileAssumption == NoFile \notin Chains
ASSUME CheckpointAssumption == CheckpointEvery \in Nat
ASSUME CommandsAssumption == Commands \in [Hosts -> SUBSET Records]
ASSUME BoundsAssumption == MaxHeight \in Nat /\ MaxCommands \in Nat /\ MaxFaults \in Nat

VARIABLES
    mem,       \* n.chain of each host's daemon
    up,        \* the daemon runs
    pc,        \* where its loop stands
    todo,      \* the peers this tick has still to ask
    ask,       \* the peer asked, the range wanted, whom blocks that do not attach revoke
    dirty,     \* n.dirty
    fresh,     \* n.stamp is the stamp of the file
    sight,     \* whom the blocks of n.candidates revoke
    disk,      \* ledger.json
    tmp,       \* ledger.json.tmp
    cmd,       \* the command of each host: its step and its chain
    commands,  \* commands so far (bound)
    faults     \* faults so far (bound)

nodeVars == <<mem, up, pc, todo, ask, dirty, sight>>
fileVars == <<disk, tmp, fresh>>
vars == <<nodeVars, fileVars, cmd, commands, faults>>

NoAsk == [peer |-> "nobody", from |-> 0, to |-> 0, seen |-> {}]
NoCommand == [pc |-> "none", chain |-> <<>>]

\* A range of blocks that is asked of a peer.
Asks == [peer : Hosts \cup {"nobody"}, from : Nat, to : Nat, seen : SUBSET Identities]

TypeOK ==
    /\ mem \in [Hosts -> Chains]
    /\ up \in [Hosts -> BOOLEAN]
    /\ pc \in [Hosts -> {"boot", "idle", "sync", "blocks", "height", "full", "ckpt", "write", "remove", "rename", "stamp"}]
    /\ todo \in [Hosts -> SUBSET Hosts]
    /\ ask \in [Hosts -> Asks]
    /\ dirty \in [Hosts -> BOOLEAN]
    /\ fresh \in [Hosts -> BOOLEAN]
    /\ sight \in [Hosts -> SUBSET Identities]
    /\ disk \in [Hosts -> Chains \cup {NoFile}]
    /\ tmp \in [Hosts -> Chains \cup {NoFile}]
    /\ cmd \in [Hosts -> [pc : {"none", "loaded", "remove", "rename"}, chain : Chains]]
    /\ commands \in 0..MaxCommands
    /\ faults \in 0..MaxFaults

\* Every host has joined, and its daemon read the ledger.
Init ==
    /\ mem = [h \in Hosts |-> Origin]
    /\ up = [h \in Hosts |-> TRUE]
    /\ pc = [h \in Hosts |-> "boot"]
    /\ todo = [h \in Hosts |-> {}]
    /\ ask = [h \in Hosts |-> NoAsk]
    /\ dirty = [h \in Hosts |-> FALSE]
    /\ fresh = [h \in Hosts |-> FALSE]
    /\ sight = [h \in Hosts |-> {}]
    /\ disk = [h \in Hosts |-> Origin]
    /\ tmp = [h \in Hosts |-> NoFile]
    /\ cmd = [h \in Hosts |-> NoCommand]
    /\ commands = 0
    /\ faults = 0

\* The handshake: each looks the other up among the active members of its
\* chain.
Reaches(h, p) == up[p] /\ IsMember(mem[h], p) /\ IsMember(mem[p], h)

Fault == faults < MaxFaults /\ faults' = faults + 1

Goto(h, place) == pc' = [pc EXCEPT ![h] = place]

\* The peer is done with; the next one follows.
NextPeer(h) == Goto(h, "sync") /\ ask' = [ask EXCEPT ![h] = NoAsk]

\* The process of the daemon is gone with all it held in memory.
Dies(h) ==
    /\ up' = [up EXCEPT ![h] = FALSE]
    /\ mem' = [mem EXCEPT ![h] = <<>>]
    /\ dirty' = [dirty EXCEPT ![h] = FALSE]
    /\ fresh' = [fresh EXCEPT ![h] = FALSE]
    /\ todo' = [todo EXCEPT ![h] = {}]
    /\ ask' = [ask EXCEPT ![h] = NoAsk]
    /\ sight' = [sight EXCEPT ![h] = {}]
    /\ Goto(h, "boot")

-----------------------------------------------------------------------------
(* A tick of the daemon of h.                                              *)

\* NewNode: the stamp is taken after the file was read.
Boot(h) ==
    /\ up[h] /\ pc[h] = "boot"
    /\ fresh' = [fresh EXCEPT ![h] = TRUE]
    /\ Goto(h, "idle")
    /\ UNCHANGED <<mem, up, todo, ask, dirty, sight, disk, tmp, cmd, commands, faults>>

\* reloadIfChanged: another process's file is adopted when it is as tall.
Adopts(h) == ~fresh[h] /\ disk[h] # NoFile /\ Height(disk[h]) >= Height(mem[h])

Reload(h) ==
    /\ up[h] /\ pc[h] = "idle"
    /\ mem' = IF Adopts(h) THEN [mem EXCEPT ![h] = disk[h]] ELSE mem
    /\ fresh' = IF Adopts(h) THEN [fresh EXCEPT ![h] = TRUE] ELSE fresh
    /\ dirty' = IF Adopts(h) THEN [dirty EXCEPT ![h] = FALSE] ELSE dirty
    /\ todo' = [todo EXCEPT ![h] = Hosts \ {h}]
    /\ Goto(h, "sync")
    /\ UNCHANGED <<up, ask, sight, disk, tmp, cmd, commands, faults>>

\* syncFrom, the first request: the peer's status and the plan made of it.
AskStatus(h, p) ==
    /\ up[h] /\ pc[h] = "sync" /\ p \in todo[h]
    /\ Reaches(h, p)
    /\ todo' = [todo EXCEPT ![h] = @ \ {p}]
    /\ LET plan == PlanSync(mem[h], mem[p])
       IN IF plan.need
          THEN /\ ask' = [ask EXCEPT ![h] = [NoAsk EXCEPT !.peer = p, !.from = plan.from, !.to = plan.to]]
               /\ Goto(h, "blocks")
          ELSE UNCHANGED <<ask, pc>>
    /\ UNCHANGED <<mem, up, dirty, sight, fileVars, cmd, commands, faults>>

\* The peer is down, refuses or the connection breaks: its status is zero and
\* so is the plan.
StatusFails(h, p) ==
    /\ up[h] /\ pc[h] = "sync" /\ p \in todo[h]
    /\ todo' = [todo EXCEPT ![h] = @ \ {p}]
    /\ Fault \/ (~Reaches(h, p) /\ UNCHANGED faults)
    /\ UNCHANGED <<mem, up, pc, ask, dirty, sight, fileVars, cmd, commands>>

\* The range the peer serves now.
Served(h) == LET c == mem[ask[h].peer] IN Upto(c, IF ask[h].to < Height(c) THEN ask[h].to ELSE Height(c))

\* Variant: a taller chain is taken over without a look at its predecessors.
ConnectsByHeight(h) == Height(Served(h)) > Height(mem[h])

\* TryExtend: all blocks of the range attach, or the first does not.
Connects(h) == ask[h].from = Height(mem[h]) + 1 /\ Extends(Served(h), mem[h])

\* The second request; a chain that has become shorter has nothing to serve, and
\* blocks that do not attach are kept for MergeFork.
AskBlocks(h) ==
    /\ up[h] /\ pc[h] = "blocks"
    /\ Reaches(h, ask[h].peer)
    /\ IF ask[h].from > Height(mem[ask[h].peer])
       THEN UNCHANGED <<mem, dirty>> /\ NextPeer(h)
       ELSE IF Connects(h)
       THEN /\ mem' = [mem EXCEPT ![h] = Served(h)]
            /\ dirty' = [dirty EXCEPT ![h] = TRUE]
            /\ NextPeer(h)
       ELSE /\ ask' = [ask EXCEPT ![h].seen = RevokedIn(Served(h), ask[h].from, ask[h].to)]
            /\ UNCHANGED <<mem, dirty>> /\ Goto(h, "height")
    /\ UNCHANGED <<up, todo, sight, fileVars, cmd, commands, faults>>

BlocksFail(h) ==
    /\ up[h] /\ pc[h] = "blocks"
    /\ NextPeer(h)
    /\ Fault \/ (~Reaches(h, ask[h].peer) /\ UNCHANGED faults)
    /\ UNCHANGED <<mem, up, todo, dirty, sight, fileVars, cmd, commands>>

\* The third: the height the peer has now, or zero if its status does not come.
AskHeight(h) ==
    /\ up[h] /\ pc[h] = "height"
    /\ \E n \in {0, Height(mem[ask[h].peer])} :
        /\ ask' = [ask EXCEPT ![h] = [peer |-> ask[h].peer, from |-> 0, to |-> n, seen |-> ask[h].seen]]
        /\ \/ Reaches(h, ask[h].peer) /\ n = Height(mem[ask[h].peer]) /\ UNCHANGED faults
           \/ n = 0 /\ (Fault \/ (~Reaches(h, ask[h].peer) /\ UNCHANGED faults))
    /\ Goto(h, "full")
    /\ UNCHANGED <<mem, up, todo, dirty, sight, fileVars, cmd, commands>>

\* The fourth: the chain up to that height, MergeFork, and the blocks of the
\* second request become candidates whoever wins.
AskFull(h) ==
    /\ up[h] /\ pc[h] = "full"
    /\ Reaches(h, ask[h].peer)
    /\ LET cand == Served(h)
       IN IF cand # mem[h] /\ Wins(cand, mem[h])
          THEN mem' = [mem EXCEPT ![h] = cand] /\ dirty' = [dirty EXCEPT ![h] = TRUE]
          ELSE UNCHANGED <<mem, dirty>>
    /\ sight' = [sight EXCEPT ![h] = @ \cup ask[h].seen]
    /\ NextPeer(h)
    /\ UNCHANGED <<up, todo, fileVars, cmd, commands, faults>>

\* No block comes: the empty candidate validates, and the look at its first
\* hash ends the process.
FullFails(h) ==
    /\ up[h] /\ pc[h] = "full"
    /\ Fault \/ (~Reaches(h, ask[h].peer) /\ UNCHANGED faults)
    /\ Dies(h)
    /\ UNCHANGED <<disk, tmp, cmd, commands>>

\* maybeCheckpoint: enough blocks since the last checkpoint, and signatures of
\* admins who hold the head.
CheckpointDue(h) ==
    /\ CheckpointEvery > 0
    /\ IsAdmin(mem[h], h)
    /\ Height(mem[h]) - LastCheckpoint(mem[h]) >= CheckpointEvery
    /\ Height(mem[h]) < MaxHeight

Signers(h) ==
    {p \in Admins(mem[h]) \cap Hosts : p = h \/ (Reaches(h, p) /\ IsAdmin(mem[p], p) /\ Extends(mem[p], mem[h]))}

CheckpointBlock(h) == [by |-> h, rec |-> NoRecord, ckpt |-> Height(mem[h])]

Checkpoint(h) ==
    /\ up[h] /\ pc[h] = "ckpt"
    /\ CheckpointDue(h) /\ Cardinality(Signers(h)) >= QuorumM
    /\ mem' = [mem EXCEPT ![h] = Append(@, CheckpointBlock(h))]
    /\ dirty' = [dirty EXCEPT ![h] = TRUE]
    /\ Goto(h, "write")
    /\ UNCHANGED <<up, todo, ask, sight, fileVars, cmd, commands, faults>>

\* Nothing is due, or too few sign.
NoCheckpoint(h) ==
    /\ up[h] /\ pc[h] = "ckpt"
    /\ \/ ~CheckpointDue(h) /\ UNCHANGED faults
       \/ CheckpointDue(h) /\ Cardinality(Signers(h)) < QuorumM /\ UNCHANGED faults
       \/ CheckpointDue(h) /\ QuorumM > 1 /\ Fault
    /\ Goto(h, IF dirty[h] THEN "write" ELSE "idle")
    /\ UNCHANGED <<mem, up, todo, ask, dirty, sight, fileVars, cmd, commands>>

PeersAsked(h) ==
    /\ up[h] /\ pc[h] = "sync" /\ todo[h] = {}
    /\ Goto(h, "ckpt")
    /\ UNCHANGED <<mem, up, todo, ask, dirty, sight, fileVars, cmd, commands, faults>>

-----------------------------------------------------------------------------
(* Store.Save by the daemon, and the new stamp.                            *)

SaveWrite(h) ==
    /\ up[h] /\ pc[h] = "write"
    /\ tmp' = [tmp EXCEPT ![h] = mem[h]]
    /\ Goto(h, "remove")
    /\ UNCHANGED <<mem, up, todo, ask, dirty, sight, disk, fresh, cmd, commands, faults>>

SaveRemove(h) ==
    /\ up[h] /\ pc[h] = "remove"
    /\ disk' = [disk EXCEPT ![h] = NoFile]
    /\ fresh' = [fresh EXCEPT ![h] = FALSE]
    /\ Goto(h, "rename")
    /\ UNCHANGED <<mem, up, todo, ask, dirty, sight, tmp, cmd, commands, faults>>

\* A rename that finds no temporary file leaves the chain dirty.
SaveRename(h) ==
    /\ up[h] /\ pc[h] = "rename"
    /\ disk' = IF tmp[h] = NoFile THEN disk ELSE [disk EXCEPT ![h] = tmp[h]]
    /\ tmp' = [tmp EXCEPT ![h] = NoFile]
    /\ fresh' = [fresh EXCEPT ![h] = FALSE]
    /\ dirty' = [dirty EXCEPT ![h] = tmp[h] = NoFile]
    /\ Goto(h, IF tmp[h] = NoFile THEN "idle" ELSE "stamp")
    /\ UNCHANGED <<mem, up, todo, ask, sight, cmd, commands, faults>>

Stamp(h) ==
    /\ up[h] /\ pc[h] = "stamp"
    /\ fresh' = [fresh EXCEPT ![h] = TRUE]
    /\ Goto(h, "idle")
    /\ UNCHANGED <<mem, up, todo, ask, dirty, sight, disk, tmp, cmd, commands, faults>>

-----------------------------------------------------------------------------
(* A command on host h, and faults.                                        *)

CmdLoad(h) ==
    /\ cmd[h].pc = "none" /\ disk[h] # NoFile
    /\ commands < MaxCommands
    /\ commands' = commands + 1
    /\ cmd' = [cmd EXCEPT ![h] = [pc |-> "loaded", chain |-> disk[h]]]
    /\ UNCHANGED <<nodeVars, fileVars, faults>>

\* A command that proposes has no peers: a record that needs a quorum needs one
\* of one.
Allowed(c, h, rec) ==
    /\ IsMember(c, h)
    /\ rec.op # "note" => QuorumM = 1 /\ IsAdmin(c, h)
    /\ rec.op = "revoke" => IsMember(c, rec.who)

\* Propose appends, and its save begins.
CmdPropose(h, rec) ==
    /\ cmd[h].pc = "loaded"
    /\ Allowed(cmd[h].chain, h, rec) /\ Height(cmd[h].chain) < MaxHeight
    /\ LET c == Append(cmd[h].chain, [by |-> h, rec |-> rec, ckpt |-> 0])
       IN /\ cmd' = [cmd EXCEPT ![h] = [pc |-> "remove", chain |-> c]]
          /\ tmp' = [tmp EXCEPT ![h] = c]
    /\ UNCHANGED <<nodeVars, disk, fresh, commands, faults>>

CmdRefused(h) ==
    /\ cmd[h].pc = "loaded"
    /\ \/ Height(cmd[h].chain) = MaxHeight
       \/ \E rec \in Commands[h] : ~Allowed(cmd[h].chain, h, rec)
    /\ cmd' = [cmd EXCEPT ![h] = NoCommand]
    /\ UNCHANGED <<nodeVars, fileVars, commands, faults>>

CmdRemove(h) ==
    /\ cmd[h].pc = "remove"
    /\ disk' = [disk EXCEPT ![h] = NoFile]
    /\ fresh' = [fresh EXCEPT ![h] = FALSE]
    /\ cmd' = [cmd EXCEPT ![h].pc = "rename"]
    /\ UNCHANGED <<nodeVars, tmp, commands, faults>>

CmdRename(h) ==
    /\ cmd[h].pc = "rename"
    /\ disk' = IF tmp[h] = NoFile THEN disk ELSE [disk EXCEPT ![h] = tmp[h]]
    /\ tmp' = [tmp EXCEPT ![h] = NoFile]
    /\ fresh' = [fresh EXCEPT ![h] = FALSE]
    /\ cmd' = [cmd EXCEPT ![h] = NoCommand]
    /\ UNCHANGED <<nodeVars, commands, faults>>

\* The host loses power, or its processes are killed.
Crash(h) ==
    /\ up[h] \/ cmd[h].pc # "none"
    /\ Fault
    /\ Dies(h)
    /\ cmd' = [cmd EXCEPT ![h] = NoCommand]
    /\ UNCHANGED <<disk, tmp, commands>>

\* "run" again: without a ledger it ends at once.
Restart(h) ==
    /\ ~up[h] /\ disk[h] # NoFile
    /\ up' = [up EXCEPT ![h] = TRUE]
    /\ mem' = [mem EXCEPT ![h] = disk[h]]
    /\ UNCHANGED <<pc, todo, ask, dirty, sight, fileVars, cmd, commands, faults>>

-----------------------------------------------------------------------------
Sync(h) ==
    \/ \E p \in Hosts : AskStatus(h, p) \/ StatusFails(h, p)
    \/ AskBlocks(h) \/ BlocksFail(h)
    \/ AskHeight(h) \/ AskFull(h) \/ FullFails(h)

Save(h) == SaveWrite(h) \/ SaveRemove(h) \/ SaveRename(h) \/ Stamp(h)

Tick(h) == Boot(h) \/ Reload(h) \/ Sync(h) \/ PeersAsked(h) \/ Checkpoint(h) \/ NoCheckpoint(h) \/ Save(h)

Command(h) ==
    \/ \E rec \in Commands[h] : CmdPropose(h, rec)
    \/ CmdRefused(h) \/ CmdRemove(h) \/ CmdRename(h)

Next == \E h \in Hosts : Tick(h) \/ CmdLoad(h) \/ Command(h) \/ Crash(h) \/ Restart(h)

Spec == Init /\ [][Next]_vars

\* Daemons go on, commands that were begun end and a daemon that ended is
\* started again; requests fail and hosts crash a bounded number of times.
FairSpec == Spec /\ \A h \in Hosts : WF_vars(Tick(h)) /\ WF_vars(Command(h)) /\ WF_vars(Restart(h))

-----------------------------------------------------------------------------
(* Properties.                                                             *)

\* Synchronisation never takes a daemon to a chain that loses against its own:
\* TryExtend does not ask ForkChoice, and its result is preferred all the same.
SyncImproves ==
    [][ \A h \in Hosts : pc[h] \in {"blocks", "full"} /\ up'[h] /\ mem'[h] # mem[h] => Wins(mem'[h], mem[h]) ]_vars

\* Every chain that some process or file holds has increasing checkpoints;
\* validateCheckpoint does not ask for it, the proposers see to it.
CheckpointsIncrease ==
    \A h \in Hosts : /\ Increasing(mem[h]) /\ Increasing(cmd[h].chain)
                     /\ \A f \in {disk[h], tmp[h]} \ {NoFile} : Increasing(f)

\* The daemon of h would not ask k for its better chain: k is shorter.
Hidden(h, k) ==
    Height(mem[k]) < Height(mem[h]) /\ LastCheckpoint(mem[k]) > LastCheckpoint(mem[h])

\* Any two daemons that reach each other come to hold one chain for good, but
\* for the case that one has the later checkpoint and the other more blocks.
Converges ==
    <>[](\A h, k \in Hosts : up[h] /\ Reaches(h, k) =>
            mem[h] = mem[k] \/ Hidden(h, k) \/ Hidden(k, h))

(* What comments and docs say and the code does not do.                    *)

\* "短暂分叉 ... 待下一检查点收敛": without the exception.
AllConverge == <>[](\A h, k \in Hosts : up[h] /\ Reaches(h, k) => mem[h] = mem[k])

\* "a flaky peer must look like a temporarily empty one, never a fatal one".
FlakyPeerHarmless == [][ \A h \in Hosts : pc[h] = "full" /\ up[h] /\ ~up'[h] => cmd'[h] # cmd[h] ]_vars

\* "never clobber our chain with less".
ReloadKeepsBetter ==
    [][ \A h \in Hosts : pc[h] = "idle" /\ up[h] /\ up'[h] /\ mem'[h] # mem[h] => Wins(mem'[h], mem[h]) ]_vars

\* "leaves at worst a stale .tmp beside a missing main file".
LedgerRecoverable == \A h \in Hosts : disk[h] = NoFile => tmp[h] # NoFile

\* "so a long-running daemon notices blocks appended by OTHER processes": it
\* does not write over a file that it has not read.
OverwritesOnlyRead ==
    [][ \A h \in Hosts : pc[h] = "remove" /\ pc'[h] = "rename" /\ disk[h] # NoFile =>
            fresh[h] \/ Extends(mem[h], disk[h]) ]_vars

\* "revocations inside them stay effective defensively": those of a branch the
\* daemon leaves as well.
AbandonedRevocationsSeen ==
    [][ \A h \in Hosts : pc[h] = "full" /\ up'[h] =>
            \A m \in RevokedIn(mem[h], 1, Height(mem[h])) : m \in sight'[h] \/ ~IsMember(mem'[h], m) ]_vars
=============================================================================
