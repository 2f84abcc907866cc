------------------------- MODULE TrustDomainProofs -------------------------
(***************************************************************************)
(* TrustDomain for every network, order of hashes, checkpoint interval and *)
(* number of commands and faults: checkpoints increase along every chain   *)
(* that a process or a file holds, and so synchronisation, which extends a *)
(* chain without a look at ForkChoice, never takes a worse one.            *)
(***************************************************************************)
EXTENDS TrustDomain, FiniteSetTheorems, WellFoundedInduction, TLAPS

-----------------------------------------------------------------------------
(* Chains.                                                                 *)

\* A set of heights has a last one.
LEMMA LastExists ==
    ASSUME NEW n \in Nat, NEW s \in SUBSET (1..n), s # {}
    PROVE  LastOf(s) \in s /\ \A j \in s : j <= LastOf(s)
<1> DEFINE below == {u \in 0..n : n - u \in s}
<1>1. below \subseteq Nat /\ below # {}
  <2>1. PICK i \in s : TRUE
    OBVIOUS
  <2>2. n - i \in below
    BY <2>1
  <2>3. \A u \in below : u \in Nat
    OBVIOUS
  <2>4. QED
    BY <2>2, <2>3, Zenon
<1>2. PICK u \in below : \A v \in below : ~ (<<v, u>> \in OpToRel(<, Nat))
  BY <1>1, WFMin, NatLessThanWellFounded, Zenon
<1>3. \A v \in below : ~(v < u)
  <2>1. \A v \in below : <<v, u>> \in Nat \X Nat
    BY <1>1
  <2>2. QED
    BY <1>2, <2>1, Zenon DEF OpToRel
<1>4. n - u \in s
  OBVIOUS
<1>5. ASSUME NEW j \in s PROVE j <= n - u
  <2>1. n - j \in below
    OBVIOUS
  <2>2. ~(n - j < u)
    BY <1>3, <2>1
  <2>3. QED
    BY <2>2
<1>6. QED
  BY <1>4, <1>5 DEF LastOf

\* What LastCheckpoint means: nothing, or the mark of a block after which no
\* block is marked.
LEMMA LastCheckpointIs ==
    ASSUME NEW c \in Chains
    PROVE  /\ LastCheckpoint(c) \in Nat
           /\ \/ LastCheckpoint(c) = 0 /\ \A j \in 1..Len(c) : c[j].ckpt = 0
              \/ \E i \in 1..Len(c) : /\ c[i].ckpt # 0
                                      /\ LastCheckpoint(c) = c[i].ckpt
                                      /\ \A j \in 1..Len(c) : c[j].ckpt # 0 => j <= i
<1> DEFINE marked == {i \in 1..Len(c) : c[i].ckpt # 0}
<1>1. Len(c) \in Nat /\ \A i \in 1..Len(c) : c[i] \in Block
  BY DEF Chains
<1>2. \A i \in 1..Len(c) : c[i].ckpt \in Nat
  BY <1>1 DEF Block
<1>3. CASE marked = {}
  BY <1>3 DEF LastCheckpoint
<1>4. CASE marked # {}
  <2>1. LastOf(marked) \in marked /\ \A j \in marked : j <= LastOf(marked)
    BY <1>1, <1>4, LastExists
  <2>2. LastCheckpoint(c) = c[LastOf(marked)].ckpt
    BY <1>4 DEF LastCheckpoint
  <2>3. QED
    BY <1>2, <2>1, <2>2
<1>5. QED
  BY <1>3, <1>4

LEMMA PrefixIs ==
    ASSUME NEW c \in Chains, NEW n \in 0..Len(c)
    PROVE  /\ Upto(c, n) \in Chains
           /\ Len(Upto(c, n)) = n
           /\ \A i \in 1..n : Upto(c, n)[i] = c[i]
BY DEF Upto, Chains

LEMMA PrefixIncreases ==
    ASSUME NEW c \in Chains, NEW n \in 0..Len(c), Increasing(c)
    PROVE  Increasing(Upto(c, n))
<1>1. n \in Nat /\ \A i \in 1..n : i \in 1..Len(c) /\ \A j \in 1..(i - 1) : j \in 1..n
  BY DEF Chains
<1>2. Len(Upto(c, n)) = n /\ \A i \in 1..n : Upto(c, n)[i] = c[i]
  BY PrefixIs
<1>3. QED
  BY <1>1, <1>2 DEF Increasing

\* A block that covers less than its own height, and nothing when something
\* later is covered, keeps the marks increasing.
LEMMA AppendIncreases ==
    ASSUME NEW c \in Chains, NEW b \in Block, Increasing(c), b.ckpt \in {0, Len(c)}
    PROVE  Append(c, b) \in Chains /\ Increasing(Append(c, b))
<1> DEFINE d == Append(c, b)
<1>1. /\ d \in Chains /\ Len(d) = Len(c) + 1 /\ Len(c) \in Nat
      /\ d[Len(c) + 1] = b
      /\ \A i \in 1..Len(c) : d[i] = c[i]
  BY DEF Chains
<1>2. \A i \in 1..Len(c) : c[i].ckpt < i
  BY DEF Increasing
<1>3. \A i \in 1..Len(c) : c[i].ckpt \in Nat
  <2>1. \A i \in 1..Len(c) : c[i] \in Block
    BY DEF Chains
  <2>2. QED
    BY <2>1 DEF Block
<1>4. ASSUME NEW i \in 1..Len(d)
      PROVE  d[i].ckpt < i /\ (d[i].ckpt # 0 => \A j \in 1..(i - 1) : d[j].ckpt < d[i].ckpt)
  <2>1. CASE i = Len(c) + 1
    <3>1. ASSUME NEW j \in 1..(i - 1), b.ckpt # 0 PROVE d[j].ckpt < b.ckpt
      <4>1. j \in 1..Len(c) /\ b.ckpt = Len(c)
        BY <1>1, <2>1, <3>1
      <4>2. d[j].ckpt < j
        BY <1>1, <1>2, <4>1
      <4>3. d[j].ckpt \in Nat
        BY <1>1, <1>3, <4>1
      <4>4. QED
        BY <1>1, <4>1, <4>2, <4>3
    <3>2. QED
      BY <1>1, <2>1, <3>1
  <2>2. CASE i # Len(c) + 1
    <3>1. i \in 1..Len(c) /\ \A j \in 1..(i - 1) : j \in 1..Len(c)
      BY <1>1, <2>2
    <3>2. QED
      BY <1>1, <3>1 DEF Increasing
  <2>3. QED
    BY <2>1, <2>2
<1>5. QED
  BY <1>1, <1>4 DEF Increasing

\* Why TryExtend need not ask ForkChoice: with increasing marks an extension
\* has no earlier checkpoint, and more blocks.
LEMMA ExtensionWins ==
    ASSUME NEW c \in Chains, NEW d \in Chains, Extends(c, d), c # d, Increasing(c)
    PROVE  Wins(c, d)
<1>1. /\ Len(d) \in Nat /\ Len(c) \in Nat /\ Len(d) <= Len(c)
      /\ Upto(c, Len(d)) = d
  BY DEF Extends, Height, Chains
<1>2. \A i \in 1..Len(d) : c[i] = d[i]
  BY <1>1, PrefixIs
<1>3. Len(d) < Len(c)
  <2> SUFFICES ASSUME Len(d) = Len(c) PROVE FALSE
    BY <1>1
  <2>1. c = d
    BY <1>1, <1>2 DEF Chains
  <2>2. QED
    BY <2>1
<1>4. LastCheckpoint(d) <= LastCheckpoint(c)
  <2>1. CASE LastCheckpoint(d) = 0
    BY <2>1, LastCheckpointIs
  <2>2. CASE LastCheckpoint(d) # 0
    <3>1. PICK i \in 1..Len(d) : d[i].ckpt # 0 /\ LastCheckpoint(d) = d[i].ckpt
      BY <2>2, LastCheckpointIs
    <3>2. i \in 1..Len(c) /\ c[i].ckpt = LastCheckpoint(d) /\ c[i].ckpt # 0
      BY <1>1, <1>2, <3>1
    <3>3. PICK k \in 1..Len(c) : c[k].ckpt # 0 /\ LastCheckpoint(c) = c[k].ckpt /\ i <= k
      BY <3>2, LastCheckpointIs
    <3>4. CASE i = k
      BY <3>2, <3>3, <3>4, LastCheckpointIs
    <3>5. CASE i # k
      <4>1. i \in 1..(k - 1)
        BY <3>2, <3>3, <3>5
      <4>2. c[i].ckpt < c[k].ckpt
        BY <3>3, <4>1 DEF Increasing
      <4>3. QED
        BY <3>2, <3>3, <4>2, LastCheckpointIs
    <3>6. QED
      BY <3>4, <3>5
  <2>3. QED
    BY <2>1, <2>2
<1>5. LastCheckpoint(c) \in Nat /\ LastCheckpoint(d) \in Nat
  BY LastCheckpointIs
<1>6. QED
  BY <1>1, <1>3, <1>4, <1>5 DEF Wins, ForkChoice, Height

-----------------------------------------------------------------------------
(* The states.                                                             *)

\* Where a daemon stands: one that does not run is before its boot, and a
\* request that is under way has a peer.
Control ==
    \A h \in Hosts : /\ pc[h] \in {"blocks", "height", "full"} => ask[h].peer \in Hosts
                     /\ ~up[h] => pc[h] = "boot"

Inv == TypeOK /\ Control

LEMMA PlanIs ==
    ASSUME NEW c \in Chains, NEW d \in Chains
    PROVE  PlanSync(c, d).from \in Nat /\ PlanSync(c, d).to \in Nat
<1>1. Len(c) \in Nat /\ Len(d) \in Nat /\ LastCheckpoint(c) \in Nat
  BY LastCheckpointIs DEF Chains
<1>2. QED
  BY <1>1 DEF PlanSync, Height

\* What a peer serves is a part of its chain.
LEMMA ServedIs ==
    ASSUME Inv, NEW h \in Hosts, pc[h] \in {"blocks", "full"}
    PROVE  /\ ask[h].peer \in Hosts
           /\ Served(h) \in Chains
           /\ Increasing(mem[ask[h].peer]) => Increasing(Served(h))
<1> DEFINE c == mem[ask[h].peer]
           n == IF ask[h].to < Height(c) THEN ask[h].to ELSE Height(c)
<1>1. ask[h].peer \in Hosts /\ ask[h].to \in Nat
  BY DEF Inv, Control, TypeOK, Asks
<1>2. c \in Chains
  BY <1>1 DEF Inv, TypeOK
<1>3. n \in 0..Len(c)
  BY <1>1, <1>2 DEF Height, Chains
<1>4. Served(h) = Upto(c, n)
  BY DEF Served
<1>5. QED
  BY <1>1, <1>2, <1>3, <1>4, PrefixIs, PrefixIncreases

\* The blocks that are appended.
LEMMA NewBlockIs ==
    ASSUME NEW h \in Hosts, NEW c \in Chains, Increasing(c), NEW rec \in Records \cup {NoRecord},
           NEW n \in {0, Len(c)}
    PROVE  LET b == [by |-> h, rec |-> rec, ckpt |-> n]
           IN Append(c, b) \in Chains /\ Increasing(Append(c, b))
<1> DEFINE b == [by |-> h, rec |-> rec, ckpt |-> n]
<1>1. b \in Block /\ b.ckpt \in {0, Len(c)}
  BY HostsAssumption DEF Block, Chains
<1>2. QED
  BY <1>1, AppendIncreases

LEMMA EmptyChain == <<>> \in Chains /\ Increasing(<<>>)
BY DEF Chains, Increasing

-----------------------------------------------------------------------------
(* Type correctness.                                                       *)

LEMMA InitInv == Init => Inv /\ CheckpointsIncrease
<1> SUFFICES ASSUME Init PROVE Inv /\ CheckpointsIncrease
  OBVIOUS
<1>1. Inv
  BY OriginAssumption, BoundsAssumption, EmptyChain
     DEF Init, Inv, TypeOK, Control, NoAsk, Asks, NoCommand
<1>2. CheckpointsIncrease
  BY OriginAssumption, EmptyChain DEF Init, CheckpointsIncrease, NoCommand
<1>3. QED
  BY <1>1, <1>2

\* A daemon that is done with a peer, or asks another.
LEMMA NextPeerKeeps ==
    ASSUME Inv, NEW h \in Hosts, NextPeer(h)
    PROVE  /\ ask' \in [Hosts -> Asks]
           /\ pc' = [pc EXCEPT ![h] = "sync"]
<1>1. NoAsk \in Asks
  BY DEF NoAsk, Asks
<1>2. QED
  BY <1>1 DEF NextPeer, Goto, Inv, TypeOK

LEMMA BlocksFailInv ==
    ASSUME Inv, NEW h \in Hosts, BlocksFail(h)
    PROVE  Inv'
<1>1. /\ NextPeer(h) /\ up[h]
      /\ UNCHANGED <<mem, up, todo, dirty, sight, fileVars, cmd, commands>>
      /\ UNCHANGED faults \/ (faults < MaxFaults /\ faults' = faults + 1)
  BY DEF BlocksFail, Fault
<1>2. ask' \in [Hosts -> Asks] /\ pc' = [pc EXCEPT ![h] = "sync"]
  BY <1>1, NextPeerKeeps
<1>3. /\ faults' \in 0..MaxFaults
      /\ pc' \in [Hosts -> {"boot", "idle", "sync", "blocks", "height", "full", "ckpt", "write", "remove", "rename", "stamp"}]
  BY <1>1, <1>2, BoundsAssumption DEF Inv, TypeOK
<1>4. TypeOK'
  BY <1>1, <1>2, <1>3 DEF Inv, TypeOK, fileVars
<1>5. Control'
  BY <1>1, <1>2 DEF Inv, Control, TypeOK, NextPeer
<1>6. QED
  BY <1>4, <1>5 DEF Inv

LEMMA AskStatusInv ==
    ASSUME Inv, NEW h \in Hosts, NEW p \in Hosts, AskStatus(h, p)
    PROVE  Inv'
<1> DEFINE e == [NoAsk EXCEPT !.peer = p, !.from = PlanSync(mem[h], mem[p]).from,
                              !.to = PlanSync(mem[h], mem[p]).to]
<1>1. e \in Asks /\ e.peer = p
  <2>1. mem[h] \in Chains /\ mem[p] \in Chains
    BY DEF Inv, TypeOK
  <2>2. QED
    BY <2>1, PlanIs DEF Asks, NoAsk
<1>2. /\ \/ ask' = [ask EXCEPT ![h] = e] /\ pc' = [pc EXCEPT ![h] = "blocks"]
         \/ UNCHANGED <<ask, pc>>
      /\ up[h] /\ todo' = [todo EXCEPT ![h] = @ \ {p}]
      /\ UNCHANGED <<mem, up, dirty, sight, fileVars, cmd, commands, faults>>
  BY DEF AskStatus, Goto
<1> HIDE DEF e
<1>3. ask' \in [Hosts -> Asks]
  BY <1>1, <1>2 DEF Inv, TypeOK
<1>4. /\ pc' \in [Hosts -> {"boot", "idle", "sync", "blocks", "height", "full", "ckpt", "write", "remove", "rename", "stamp"}]
      /\ todo' \in [Hosts -> SUBSET Hosts]
  BY <1>2, SMTT(20) DEF Inv, TypeOK
<1>5. TypeOK'
  BY <1>2, <1>3, <1>4 DEF Inv, TypeOK, fileVars
<1>6. Control'
  BY <1>1, <1>2 DEF Inv, Control, TypeOK
<1>7. QED
  BY <1>5, <1>6 DEF Inv

\* A daemon goes on to its next request of the same peer.
LEMMA AskOn ==
    ASSUME Inv, NEW h \in Hosts, ask[h].peer \in Hosts, NEW e \in Asks, e.peer = ask[h].peer,
           ask' = [ask EXCEPT ![h] = e],
           NEW place \in {"height", "full"}, pc' = [pc EXCEPT ![h] = place], up[h], UNCHANGED up
    PROVE  /\ ask' \in [Hosts -> Asks] /\ Control'
           /\ pc' \in [Hosts -> {"boot", "idle", "sync", "blocks", "height", "full", "ckpt", "write", "remove",
                               "rename", "stamp"}]
<1>1. ask' \in [Hosts -> Asks]
  BY DEF Inv, TypeOK
<1>2. pc' \in [Hosts -> {"boot", "idle", "sync", "blocks", "height", "full", "ckpt", "write", "remove",
                       "rename", "stamp"}]
  BY DEF Inv, TypeOK
<1>3. Control'
  BY DEF Inv, Control, TypeOK
<1>4. QED
  BY <1>1, <1>2, <1>3

LEMMA AskBlocksInv ==
    ASSUME Inv, NEW h \in Hosts, AskBlocks(h)
    PROVE  Inv'
<1> DEFINE seen == RevokedIn(Served(h), ask[h].from, ask[h].to)
           e == [ask[h] EXCEPT !.seen = seen]
<1>1. Served(h) \in Chains /\ ask[h].peer \in Hosts
  BY ServedIs DEF AskBlocks
<1>2. /\ UNCHANGED mem \/ mem' = [mem EXCEPT ![h] = Served(h)]
      /\ UNCHANGED dirty \/ dirty' = [dirty EXCEPT ![h] = TRUE]
      /\ NextPeer(h) \/ (ask' = [ask EXCEPT ![h] = e] /\ pc' = [pc EXCEPT ![h] = "height"])
      /\ pc[h] = "blocks" /\ up[h]
      /\ UNCHANGED <<up, todo, sight, fileVars, cmd, commands, faults>>
  BY DEF AskBlocks, Goto
<1>3. mem' \in [Hosts -> Chains]
  BY <1>1, <1>2 DEF Inv, TypeOK
<1>4. dirty' \in [Hosts -> BOOLEAN]
  BY <1>2 DEF Inv, TypeOK
<1>5. e \in Asks /\ e.peer = ask[h].peer
  <2>1. seen \in SUBSET Identities
    BY DEF RevokedIn
  <2>2. ask[h] \in Asks
    BY DEF Inv, TypeOK
  <2> HIDE DEF seen
  <2>3. QED
    BY <2>1, <2>2 DEF Asks
<1> HIDE DEF e
<1>6. /\ ask' \in [Hosts -> Asks] /\ Control'
      /\ pc' \in [Hosts -> {"boot", "idle", "sync", "blocks", "height", "full", "ckpt", "write", "remove",
                          "rename", "stamp"}]
  <2>1. CASE NextPeer(h)
    <3>1. ask' \in [Hosts -> Asks] /\ pc' = [pc EXCEPT ![h] = "sync"]
      BY <2>1, NextPeerKeeps
    <3>2. Control'
      BY <1>2, <2>1, <3>1 DEF Inv, Control, TypeOK, NextPeer
    <3>3. QED
      BY <3>1, <3>2 DEF Inv, TypeOK
  <2>2. CASE ask' = [ask EXCEPT ![h] = e] /\ pc' = [pc EXCEPT ![h] = "height"]
    BY <1>1, <1>2, <1>5, <2>2, AskOn
  <2>3. QED
    BY <1>2, <2>1, <2>2
<1>7. TypeOK'
  BY <1>2, <1>3, <1>4, <1>6 DEF Inv, TypeOK, fileVars
<1>8. QED
  BY <1>6, <1>7 DEF Inv

LEMMA AskHeightInv ==
    ASSUME Inv, NEW h \in Hosts, AskHeight(h)
    PROVE  Inv'
<1>1. /\ ask[h] \in Asks /\ ask[h].peer \in Hosts /\ up[h]
      /\ Height(mem[ask[h].peer]) \in Nat
  BY DEF AskHeight, Inv, TypeOK, Control, Height, Chains
<1>2. PICK n \in {0, Height(mem[ask[h].peer])} :
        ask' = [ask EXCEPT ![h] = [peer |-> ask[h].peer, from |-> 0, to |-> n, seen |-> ask[h].seen]]
  BY DEF AskHeight
<1> DEFINE e == [peer |-> ask[h].peer, from |-> 0, to |-> n, seen |-> ask[h].seen]
<1>3. e \in Asks /\ e.peer = ask[h].peer
  BY <1>1, <1>2 DEF Asks
<1> HIDE DEF e
<1>4. /\ pc' = [pc EXCEPT ![h] = "full"] /\ faults' \in 0..MaxFaults
      /\ UNCHANGED <<mem, up, todo, dirty, sight, fileVars, cmd, commands>>
  BY BoundsAssumption DEF AskHeight, Goto, Fault, Inv, TypeOK
<1>5. /\ ask' \in [Hosts -> Asks] /\ Control'
      /\ pc' \in [Hosts -> {"boot", "idle", "sync", "blocks", "height", "full", "ckpt", "write", "remove",
                          "rename", "stamp"}]
  <2>1. ask' = [ask EXCEPT ![h] = e]
    BY <1>2 DEF e
  <2>2. QED
    BY <1>1, <1>3, <1>4, <2>1, AskOn
<1>6. TypeOK'
  BY <1>4, <1>5 DEF Inv, TypeOK, fileVars
<1>7. QED
  BY <1>5, <1>6 DEF Inv

LEMMA AskFullInv ==
    ASSUME Inv, NEW h \in Hosts, AskFull(h)
    PROVE  Inv'
<1> DEFINE seen == ask[h].seen
<1>1. seen \in SUBSET Identities
  BY DEF Inv, TypeOK, Asks
<1>2. /\ UNCHANGED mem \/ mem' = [mem EXCEPT ![h] = Served(h)]
      /\ UNCHANGED dirty \/ dirty' = [dirty EXCEPT ![h] = TRUE]
      /\ sight' = [sight EXCEPT ![h] = @ \cup seen]
      /\ NextPeer(h) /\ pc[h] = "full" /\ up[h]
      /\ UNCHANGED <<up, todo, fileVars, cmd, commands, faults>>
  BY DEF AskFull
<1>3. Served(h) \in Chains
  BY <1>2, ServedIs
<1> HIDE DEF seen
<1>4. mem' \in [Hosts -> Chains]
  BY <1>2, <1>3 DEF Inv, TypeOK
<1>5. dirty' \in [Hosts -> BOOLEAN]
  BY <1>2 DEF Inv, TypeOK
<1>6. sight' \in [Hosts -> SUBSET Identities]
  BY <1>1, <1>2 DEF Inv, TypeOK
<1>7. ask' \in [Hosts -> Asks] /\ pc' = [pc EXCEPT ![h] = "sync"]
  BY <1>2, NextPeerKeeps
<1>8. TypeOK'
  BY <1>2, <1>4, <1>5, <1>6, <1>7 DEF Inv, TypeOK, fileVars
<1>9. Control'
  BY <1>2, <1>7 DEF Inv, Control, TypeOK, NextPeer
<1>10. QED
  BY <1>8, <1>9 DEF Inv

LEMMA InvStep == Inv /\ [Next]_vars => Inv'
<1> SUFFICES ASSUME Inv, [Next]_vars PROVE Inv'
  OBVIOUS
<1>1. CASE UNCHANGED vars
  BY <1>1 DEF Inv, TypeOK, Control, vars, nodeVars, fileVars
<1>2. ASSUME NEW h \in Hosts,
             Tick(h) \/ CmdLoad(h) \/ Command(h) \/ Crash(h) \/ Restart(h)
      PROVE  Inv'
  <2>1. CASE Boot(h)
    BY <2>1 DEF Inv, TypeOK, Control, Boot, Goto, nodeVars, fileVars
  <2>2. CASE Reload(h)
    BY <2>2 DEF Inv, TypeOK, Control, Reload, Goto, nodeVars, fileVars, Adopts
  <2>3. CASE PeersAsked(h)
    BY <2>3 DEF Inv, TypeOK, Control, PeersAsked, Goto, nodeVars, fileVars
  <2>4. CASE NoCheckpoint(h)
    BY <2>4, BoundsAssumption DEF Inv, TypeOK, Control, NoCheckpoint, Goto, nodeVars, fileVars, Fault
  <2>5. CASE SaveWrite(h)
    BY <2>5 DEF Inv, TypeOK, Control, SaveWrite, Goto, nodeVars, fileVars
  <2>6. CASE SaveRemove(h)
    BY <2>6 DEF Inv, TypeOK, Control, SaveRemove, Goto, nodeVars, fileVars
  <2>7. CASE SaveRename(h)
    BY <2>7 DEF Inv, TypeOK, Control, SaveRename, Goto, nodeVars, fileVars
  <2>8. CASE Stamp(h)
    BY <2>8 DEF Inv, TypeOK, Control, Stamp, Goto, nodeVars, fileVars
  <2>9. CASE CmdLoad(h)
    BY <2>9, BoundsAssumption DEF Inv, TypeOK, Control, CmdLoad, Goto, nodeVars, fileVars
  <2>10. CASE CmdRefused(h)
    BY <2>10, EmptyChain DEF Inv, TypeOK, Control, CmdRefused, nodeVars, fileVars, NoCommand
  <2>11. CASE CmdRemove(h)
    BY <2>11 DEF Inv, TypeOK, Control, CmdRemove, Goto, nodeVars, fileVars
  <2>12. CASE CmdRename(h)
    BY <2>12, EmptyChain DEF Inv, TypeOK, Control, CmdRename, nodeVars, fileVars, NoCommand
  <2>13. CASE Restart(h)
    BY <2>13 DEF Inv, TypeOK, Control, Restart, Goto, nodeVars, fileVars
  <2>14. CASE BlocksFail(h)
    BY <2>14, BlocksFailInv
  <2>15. ASSUME NEW p \in Hosts, AskStatus(h, p) PROVE Inv'
    BY <2>15, AskStatusInv
  <2>16. ASSUME NEW p \in Hosts, StatusFails(h, p) PROVE Inv'
    BY <2>16, BoundsAssumption DEF Inv, TypeOK, Control, StatusFails, Fault, fileVars
  <2>17. CASE AskBlocks(h)
    BY <2>17, AskBlocksInv
  <2>18. CASE AskFull(h)
    BY <2>18, AskFullInv
  <2>19. CASE FullFails(h)
    BY <2>19, BoundsAssumption, EmptyChain DEF Inv, TypeOK, Control, FullFails, Dies, Fault, Goto, NoAsk, Asks
  <2>20. CASE Crash(h)
    BY <2>20, BoundsAssumption, EmptyChain DEF Inv, TypeOK, Control, Crash, Dies, Fault, Goto, NoAsk, Asks, NoCommand
  <2>21. CASE Checkpoint(h)
    <3>1. CheckpointBlock(h) \in Block
      BY HostsAssumption DEF CheckpointBlock, Block, Height, Chains, Inv, TypeOK
    <3>2. Append(mem[h], CheckpointBlock(h)) \in Chains
      BY <3>1 DEF Chains, Inv, TypeOK
    <3>3. QED
      BY <2>21, <3>2 DEF Inv, TypeOK, Control, Checkpoint, Goto, fileVars
  <2>22. ASSUME NEW rec \in Commands[h], CmdPropose(h, rec) PROVE Inv'
    <3> DEFINE c == Append(cmd[h].chain, [by |-> h, rec |-> rec, ckpt |-> 0])
    <3>1. rec \in Records
      BY CommandsAssumption
    <3>2. [by |-> h, rec |-> rec, ckpt |-> 0] \in Block /\ cmd[h].chain \in Chains
      BY <3>1, HostsAssumption DEF Block, Inv, TypeOK
    <3>3. c \in Chains
      BY <3>2 DEF Chains
    <3>4. cmd' = [cmd EXCEPT ![h] = [pc |-> "remove", chain |-> c]] /\ tmp' = [tmp EXCEPT ![h] = c]
      BY <2>22 DEF Inv, TypeOK, Control, CmdPropose
    <3> HIDE DEF c
    <3>5. cmd' \in [Hosts -> [pc : {"none", "loaded", "remove", "rename"}, chain : Chains]]
      BY <3>3, <3>4 DEF Inv, TypeOK
    <3>6. tmp' \in [Hosts -> Chains \cup {NoFile}]
      BY <3>3, <3>4 DEF Inv, TypeOK
    <3>7. QED
      BY <2>22, <3>5, <3>6 DEF Inv, TypeOK, Control, CmdPropose, nodeVars
  <2>23. CASE AskHeight(h)
    BY <2>23, AskHeightInv
  <2>24. QED
    BY <1>2, <2>1, <2>2, <2>3, <2>4, <2>5, <2>6, <2>7, <2>8, <2>9, <2>10, <2>11, <2>12, <2>13, <2>14, <2>15, <2>16, <2>17, <2>18, <2>19, <2>20, <2>21, <2>22, <2>23 DEF Tick, Sync, Save, Command
<1>3. QED
  BY <1>1, <1>2 DEF Next

\* The state of every daemon, file and command has its type, from the
\* handlers of a tick, Store.Save and the commands.
THEOREM TypeCorrect == Spec => []TypeOK
<1>1. Spec => []Inv
  BY InitInv, InvStep, PTL DEF Spec
<1>2. Inv => TypeOK
  BY DEF Inv
<1>3. QED
  BY <1>1, <1>2, PTL

-----------------------------------------------------------------------------
(* Checkpoints increase.                                                   *)

\* A chain or none, of which the checkpoints increase.
Sound(f) == f = NoFile \/ Increasing(f)

LEMMA IncreasingStep == Inv /\ CheckpointsIncrease /\ [Next]_vars => CheckpointsIncrease'
<1> SUFFICES ASSUME Inv, CheckpointsIncrease, [Next]_vars PROVE CheckpointsIncrease'
  OBVIOUS
<1>1. \A k \in Hosts : Increasing(mem[k]) /\ Increasing(cmd[k].chain) /\ Sound(disk[k]) /\ Sound(tmp[k])
  BY DEF CheckpointsIncrease, Sound
<1>2. SUFFICES \A k \in Hosts : /\ Increasing(mem'[k]) /\ Increasing(cmd'[k].chain)
                               /\ Sound(disk'[k]) /\ Sound(tmp'[k])
  BY DEF CheckpointsIncrease, Sound
<1>3. /\ DOMAIN mem = Hosts /\ DOMAIN cmd = Hosts /\ DOMAIN disk = Hosts /\ DOMAIN tmp = Hosts
      /\ \A k \in Hosts : mem[k] \in Chains /\ cmd[k].chain \in Chains
      /\ \A k \in Hosts : cmd[k] \in [pc : {"none", "loaded", "remove", "rename"}, chain : Chains]
  BY DEF Inv, TypeOK
<1>4. CASE UNCHANGED vars
  BY <1>1, <1>4 DEF vars, nodeVars, fileVars
<1>5. ASSUME NEW h \in Hosts,
             Tick(h) \/ CmdLoad(h) \/ Command(h) \/ Crash(h) \/ Restart(h)
      PROVE  \A k \in Hosts : /\ Increasing(mem'[k]) /\ Increasing(cmd'[k].chain)
                             /\ Sound(disk'[k]) /\ Sound(tmp'[k])
  <2>1. CASE UNCHANGED <<mem, cmd, disk, tmp>>
    BY <1>1, <2>1
  <2>2. CASE Reload(h)
    BY <1>1, <1>3, <2>2 DEF Reload, Adopts, Sound
  <2>3. CASE AskBlocks(h)
    <3>1. Increasing(Served(h))
      BY <1>1, <2>3, ServedIs DEF AskBlocks
    <3>2. UNCHANGED mem \/ mem' = [mem EXCEPT ![h] = Served(h)]
      BY <2>3 DEF AskBlocks
    <3>3. UNCHANGED <<cmd, disk, tmp>>
      BY <2>3 DEF AskBlocks, fileVars
    <3>4. QED
      BY <1>1, <1>3, <3>1, <3>2, <3>3
  <2>4. CASE AskFull(h)
    <3>1. Increasing(Served(h))
      BY <1>1, <2>4, ServedIs DEF AskFull
    <3>2. UNCHANGED mem \/ mem' = [mem EXCEPT ![h] = Served(h)]
      BY <2>4 DEF AskFull
    <3>3. UNCHANGED <<cmd, disk, tmp>>
      BY <2>4 DEF AskFull, fileVars
    <3>4. QED
      BY <1>1, <1>3, <3>1, <3>2, <3>3
  <2>5. CASE FullFails(h)
    BY <1>1, <1>3, <2>5, EmptyChain DEF FullFails, Dies
  <2>6. CASE Checkpoint(h)
    <3>1. Increasing(Append(mem[h], CheckpointBlock(h)))
      BY <1>1, <1>3, NewBlockIs DEF CheckpointBlock, Height
    <3>2. mem' = [mem EXCEPT ![h] = Append(@, CheckpointBlock(h))] /\ UNCHANGED <<cmd, disk, tmp>>
      BY <2>6 DEF Checkpoint, fileVars
    <3>3. QED
      BY <1>1, <1>3, <3>1, <3>2
  <2>7. CASE SaveWrite(h)
    BY <1>1, <1>3, <2>7 DEF SaveWrite, Sound
  <2>8. CASE SaveRemove(h)
    BY <1>1, <1>3, <2>8 DEF SaveRemove, Sound
  <2>9. CASE SaveRename(h)
    BY <1>1, <1>3, <2>9 DEF SaveRename, Sound
  <2>10. CASE CmdLoad(h)
    BY <1>1, <1>3, <2>10 DEF CmdLoad, nodeVars, fileVars, Sound
  <2>11. ASSUME NEW rec \in Commands[h], CmdPropose(h, rec)
         PROVE  \A k \in Hosts : /\ Increasing(mem'[k]) /\ Increasing(cmd'[k].chain)
                                /\ Sound(disk'[k]) /\ Sound(tmp'[k])
    <3> DEFINE c == Append(cmd[h].chain, [by |-> h, rec |-> rec, ckpt |-> 0])
    <3>1. Increasing(c)
      <4>1. rec \in Records \cup {NoRecord}
        BY CommandsAssumption
      <4>2. cmd[h].chain \in Chains /\ Increasing(cmd[h].chain)
        BY <1>1, <1>3
      <4>3. QED
        BY <4>1, <4>2, NewBlockIs
    <3>2. /\ cmd' = [cmd EXCEPT ![h] = [pc |-> "remove", chain |-> c]]
          /\ tmp' = [tmp EXCEPT ![h] = c]
          /\ UNCHANGED <<mem, disk>>
      BY <2>11 DEF CmdPropose, nodeVars
    <3> HIDE DEF c
    <3>3. QED
      BY <1>1, <1>3, <3>1, <3>2 DEF Sound
  <2>12. CASE CmdRefused(h)
    BY <1>1, <1>3, <2>12, EmptyChain DEF CmdRefused, NoCommand, nodeVars, fileVars
  <2>13. CASE CmdRemove(h)
    BY <1>1, <1>3, <2>13 DEF CmdRemove, nodeVars, Sound
  <2>14. CASE CmdRename(h)
    BY <1>1, <1>3, <2>14, EmptyChain DEF CmdRename, NoCommand, nodeVars, Sound
  <2>15. CASE Crash(h)
    BY <1>1, <1>3, <2>15, EmptyChain DEF Crash, Dies, NoCommand
  <2>16. CASE Restart(h)
    BY <1>1, <1>3, <2>16 DEF Restart, fileVars, Sound
  <2>17. ASSUME \/ Boot(h) \/ PeersAsked(h) \/ NoCheckpoint(h) \/ Stamp(h) \/ BlocksFail(h) \/ AskHeight(h)
                \/ \E p \in Hosts : AskStatus(h, p) \/ StatusFails(h, p)
         PROVE  UNCHANGED <<mem, cmd, disk, tmp>>
    BY <2>17 DEF Boot, PeersAsked, NoCheckpoint, Stamp, BlocksFail, AskHeight, AskStatus, StatusFails, fileVars
  <2>18. QED
    BY <1>5, <2>1, <2>2, <2>3, <2>4, <2>5, <2>6, <2>7, <2>8, <2>9, <2>10, <2>11, <2>12, <2>13, <2>14,
       <2>15, <2>16, <2>17 DEF Tick, Sync, Save, Command
<1>6. QED
  BY <1>4, <1>5 DEF Next

\* validateCheckpoint accepts a checkpoint of an earlier height than one before
\* it; none is ever proposed, or taken over from a peer or a file.
THEOREM CheckpointsKeepIncreasing == Spec => []CheckpointsIncrease
<1>1. Inv /\ CheckpointsIncrease /\ [Next]_vars => (Inv /\ CheckpointsIncrease)'
  BY InvStep, IncreasingStep
<1>2. QED
  BY InitInv, <1>1, PTL DEF Spec

-----------------------------------------------------------------------------
(* Synchronisation.                                                        *)

LEMMA SyncStep ==
    ASSUME Inv, CheckpointsIncrease, [Next]_vars, NEW k \in Hosts,
           pc[k] \in {"blocks", "full"}, up'[k], mem'[k] # mem[k]
    PROVE  Wins(mem'[k], mem[k])
<1>1. up[k] /\ pc[k] # "boot" /\ mem[k] \in Chains
  BY DEF Inv, TypeOK, Control
<1>2. ~ UNCHANGED vars
  BY DEF vars, nodeVars
<1>3. PICK h \in Hosts : Tick(h) \/ CmdLoad(h) \/ Command(h) \/ Crash(h) \/ Restart(h)
  BY <1>2 DEF Next
<1>4. h = k
  <2>1. h # k => mem'[k] = mem[k]
    BY <1>3 DEF Inv, TypeOK, Tick, CmdLoad, Command, Crash, Restart, Sync, Save, Dies, Boot, Reload, PeersAsked,
                Checkpoint, NoCheckpoint, SaveWrite, SaveRemove, SaveRename, Stamp, AskStatus, StatusFails,
                AskBlocks, BlocksFail, AskHeight, AskFull, FullFails, CmdPropose, CmdRefused, CmdRemove, CmdRename,
                nodeVars, fileVars
  <2>2. QED
    BY <2>1
<1>5. AskBlocks(k) \/ AskFull(k)
  <2>1. ~Crash(k) /\ ~FullFails(k)
    BY DEF Crash, FullFails, Dies, Inv, TypeOK
  <2>2. ~Restart(k)
    BY <1>1 DEF Restart
  <2>3. ~(CmdLoad(k) \/ Command(k))
    BY DEF CmdLoad, Command, CmdPropose, CmdRefused, CmdRemove, CmdRename, nodeVars
  <2>4. ~(Boot(k) \/ PeersAsked(k) \/ NoCheckpoint(k) \/ Save(k) \/ BlocksFail(k) \/ AskHeight(k))
    BY DEF Boot, PeersAsked, NoCheckpoint, Save, SaveWrite, SaveRemove, SaveRename, Stamp, BlocksFail, AskHeight
  <2>5. ~(\E p \in Hosts : AskStatus(k, p) \/ StatusFails(k, p))
    BY DEF AskStatus, StatusFails
  <2>6. ~(Reload(k) \/ Checkpoint(k))
    BY DEF Reload, Checkpoint
  <2>7. QED
    BY <1>3, <1>4, <2>1, <2>2, <2>3, <2>4, <2>5, <2>6 DEF Tick, Sync
<1>6. CASE AskFull(k)
  <2>1. Wins(Served(k), mem[k]) /\ mem' = [mem EXCEPT ![k] = Served(k)]
    BY <1>6 DEF AskFull
  <2>2. mem'[k] = Served(k)
    BY <2>1 DEF Inv, TypeOK
  <2>3. QED
    BY <2>1, <2>2
<1>7. CASE AskBlocks(k)
  <2>1. Connects(k) /\ mem' = [mem EXCEPT ![k] = Served(k)]
    BY <1>7 DEF AskBlocks
  <2>2. mem'[k] = Served(k) /\ Extends(Served(k), mem[k])
    BY <2>1 DEF Inv, TypeOK, Connects
  <2>3. Served(k) \in Chains /\ Increasing(Served(k))
    BY ServedIs DEF CheckpointsIncrease
  <2>4. QED
    BY <1>1, <2>2, <2>3, ExtensionWins
<1>8. QED
  BY <1>5, <1>6, <1>7

\* TryExtend takes blocks without a look at ForkChoice, and MergeFork with one:
\* neither takes a daemon to a chain that loses against the one it held.
THEOREM SyncTakesTheBetter == Spec => SyncImproves
<1>1. Inv /\ CheckpointsIncrease /\ [Next]_vars => (Inv /\ CheckpointsIncrease)'
  BY InvStep, IncreasingStep
<1>2. Inv /\ CheckpointsIncrease /\ [Next]_vars =>
        [ \A h \in Hosts : pc[h] \in {"blocks", "full"} /\ up'[h] /\ mem'[h] # mem[h] => Wins(mem'[h], mem[h]) ]_vars
  BY SyncStep
<1>3. QED
  BY InitInv, <1>1, <1>2, PTL DEF Spec, SyncImproves

-----------------------------------------------------------------------------
(* The daemons implement the ledger of the domain.                         *)

HeldChains == [h \in Hosts |-> IF up[h] THEN mem[h] ELSE NoFile]

Domain == INSTANCE OneLedger WITH Nothing <- NoFile, held <- HeldChains, filed <- disk

\* Both modules speak of the same chains.
LEMMA SameLedger ==
    /\ Domain!Chains = Chains
    /\ \A c : Domain!Increasing(c) <=> Increasing(c)
    /\ \A c : Domain!Height(c) = Height(c)
    /\ \A c, n : Domain!Upto(c, n) = Upto(c, n)
    /\ \A c, m : Domain!IsAdmin(c, m) <=> IsAdmin(c, m)
    /\ Domain!NoRecord = NoRecord
<1>1. Domain!NoRecord = NoRecord
  BY DEF Domain!NoRecord, NoRecord
<1>2. Domain!Chains = Chains
  BY <1>1 DEF Domain!Chains, Chains, Domain!Block, Block, Domain!Records, Records
<1>3. ASSUME NEW c PROVE Domain!Increasing(c) <=> Increasing(c)
  BY DEF Domain!Increasing, Increasing
<1>4. ASSUME NEW c PROVE Domain!Height(c) = Height(c)
  BY DEF Domain!Height, Height
<1>5. ASSUME NEW c, NEW n PROVE Domain!Upto(c, n) = Upto(c, n)
  BY DEF Domain!Upto, Upto
<1>6. ASSUME NEW c, NEW m PROVE Domain!IsAdmin(c, m) <=> IsAdmin(c, m)
  BY DEF Domain!IsAdmin, IsAdmin
<1>7. QED
  BY <1>1, <1>2, <1>3, <1>4, <1>5, <1>6

\* And of the same fork choice.
LEMMA SameChoice ==
    ASSUME NEW c, NEW d
    PROVE  Domain!Wins(c, d) <=> Wins(c, d)
<1>1. ASSUME NEW s PROVE Domain!LastOf(s) = LastOf(s)
  BY DEF Domain!LastOf, LastOf
<1>2. ASSUME NEW a PROVE Domain!LastCheckpoint(a) = LastCheckpoint(a)
  BY <1>1 DEF Domain!LastCheckpoint, LastCheckpoint
<1>3. QED
  BY <1>2, SameLedger DEF Domain!Wins, Wins, Domain!ForkChoice, ForkChoice

\* A daemon that runs has its chain, and one that does not has none.
LEMMA HeldIs ==
    ASSUME Inv, NEW h \in Hosts
    PROVE  /\ up[h] => HeldChains[h] = mem[h] /\ HeldChains[h] # NoFile /\ mem[h] \in Chains
           /\ ~up[h] => HeldChains[h] = NoFile
BY NoFileAssumption DEF HeldChains, Inv, TypeOK

\* What a step does to one daemon it does to the chains that are held.
LEMMA HeldChanges ==
    ASSUME Inv, NEW h \in Hosts, NEW c \in Chains,
           mem' = [mem EXCEPT ![h] = c], up' = up \/ up' = [up EXCEPT ![h] = TRUE], up'[h]
    PROVE  HeldChains' = [HeldChains EXCEPT ![h] = c]
<1>1. DOMAIN mem = Hosts /\ DOMAIN up = Hosts
  BY DEF Inv, TypeOK
<1>2. mem'[h] = c /\ \A k \in Hosts \ {h} : mem'[k] = mem[k] /\ up'[k] = up[k]
  BY <1>1
<1>3. QED
  BY <1>2 DEF HeldChains

\* A daemon takes a better chain.
LEMMA TakesBetter ==
    ASSUME Inv, NEW h \in Hosts, NEW p \in Hosts, up[h], up[p], NEW n \in 0..Height(mem[p]),
           Wins(Upto(mem[p], n), mem[h]), mem' = [mem EXCEPT ![h] = Upto(mem[p], n)],
           UNCHANGED <<up, disk>>
    PROVE  Domain!Improve(h, p)
<1>1. /\ HeldChains[h] = mem[h] /\ HeldChains[p] = mem[p]
      /\ HeldChains[h] # NoFile /\ HeldChains[p] # NoFile /\ mem[p] \in Chains
  BY HeldIs
<1>2. Upto(mem[p], n) \in Chains
  BY <1>1, PrefixIs DEF Height
<1>3. HeldChains' = [HeldChains EXCEPT ![h] = Upto(mem[p], n)]
  BY <1>2, HeldChanges
<1>4. /\ n \in 0..Domain!Height(HeldChains[p])
      /\ Domain!Wins(Domain!Upto(HeldChains[p], n), HeldChains[h])
      /\ HeldChains' = [HeldChains EXCEPT ![h] = Domain!Upto(HeldChains[p], n)]
  BY <1>1, <1>3, SameLedger, SameChoice
<1>5. QED
  BY <1>1, <1>4 DEF Domain!Improve

LEMMA BlocksImprove ==
    ASSUME Inv, CheckpointsIncrease, NEW h \in Hosts, AskBlocks(h)
    PROVE  UNCHANGED <<HeldChains, disk>> \/ \E p \in Hosts : Domain!Improve(h, p)
<1> DEFINE p == ask[h].peer
           n == IF ask[h].to < Height(mem[p]) THEN ask[h].to ELSE Height(mem[p])
<1>1. /\ p \in Hosts /\ up[h] /\ up[p] /\ UNCHANGED <<up, disk>>
      /\ mem[p] \in Chains /\ mem[h] \in Chains /\ ask[h].to \in Nat
  BY ServedIs DEF AskBlocks, Reaches, fileVars, Inv, TypeOK, Asks
<1>2. n \in 0..Height(mem[p])
  BY <1>1 DEF Height, Chains
<1>3. Served(h) = Upto(mem[p], n) /\ Served(h) \in Chains /\ Increasing(Served(h))
  BY ServedIs DEF Served, CheckpointsIncrease, AskBlocks
<1>4. CASE mem' = mem
  BY <1>1, <1>4 DEF HeldChains
<1>5. CASE mem' # mem
  <2>1. mem' = [mem EXCEPT ![h] = Served(h)] /\ Connects(h)
    BY <1>5 DEF AskBlocks
  <2>2. Served(h) # mem[h]
    BY <1>5, <2>1 DEF Inv, TypeOK
  <2>3. Wins(Served(h), mem[h])
    BY <1>1, <1>3, <2>1, <2>2, ExtensionWins DEF Connects
  <2> HIDE DEF n, p
  <2>4. Domain!Improve(h, p)
    BY <1>1, <1>2, <1>3, <2>1, <2>3, TakesBetter
  <2>5. QED
    BY <1>1, <2>4
<1>6. QED
  BY <1>4, <1>5

LEMMA FullImproves ==
    ASSUME Inv, NEW h \in Hosts, AskFull(h)
    PROVE  UNCHANGED <<HeldChains, disk>> \/ \E p \in Hosts : Domain!Improve(h, p)
<1> DEFINE p == ask[h].peer
           n == IF ask[h].to < Height(mem[p]) THEN ask[h].to ELSE Height(mem[p])
<1>1. /\ p \in Hosts /\ up[h] /\ up[p] /\ UNCHANGED <<up, disk>>
      /\ mem[p] \in Chains /\ ask[h].to \in Nat
  BY ServedIs DEF AskFull, Reaches, fileVars, Inv, TypeOK, Asks
<1>2. n \in 0..Height(mem[p])
  BY <1>1 DEF Height, Chains
<1>3. Served(h) = Upto(mem[p], n)
  BY DEF Served
<1>4. CASE mem' = mem
  BY <1>1, <1>4 DEF HeldChains
<1>5. CASE mem' # mem
  <2>1. mem' = [mem EXCEPT ![h] = Served(h)] /\ Wins(Served(h), mem[h])
    BY <1>5 DEF AskFull
  <2> HIDE DEF n, p
  <2>2. Domain!Improve(h, p)
    BY <1>1, <1>2, <1>3, <2>1, TakesBetter
  <2>3. QED
    BY <1>1, <2>2
<1>6. QED
  BY <1>4, <1>5

\* maybeCheckpoint marks, and what is marked wins.
LEMMA CheckpointMarks ==
    ASSUME Inv, CheckpointsIncrease, NEW h \in Hosts, Checkpoint(h)
    PROVE  Domain!Mark(h)
<1> DEFINE c == Append(mem[h], CheckpointBlock(h))
<1>1. /\ up[h] /\ IsAdmin(mem[h], h) /\ mem' = [mem EXCEPT ![h] = c]
      /\ UNCHANGED <<up, disk>>
  BY DEF Checkpoint, CheckpointDue, fileVars, Inv, TypeOK
<1>2. HeldChains[h] = mem[h] /\ HeldChains[h] # NoFile /\ mem[h] \in Chains
  BY <1>1, HeldIs
<1>3. c \in Chains /\ Increasing(c)
  BY <1>2, NewBlockIs DEF CheckpointsIncrease, CheckpointBlock, Height
<1>4. Extends(c, mem[h]) /\ c # mem[h]
  <2>1. Len(c) = Len(mem[h]) + 1 /\ Len(mem[h]) \in Nat
    BY <1>2 DEF Chains
  <2>2. SubSeq(c, 1, Len(mem[h])) = mem[h]
    BY <1>2 DEF Chains
  <2>3. QED
    BY <2>1, <2>2 DEF Extends, Height, Upto
<1>5. Wins(c, mem[h])
  BY <1>2, <1>3, <1>4, ExtensionWins
<1>6. HeldChains' = [HeldChains EXCEPT ![h] = c]
  <2> HIDE DEF c
  <2>1. QED
    BY <1>1, <1>3, HeldChanges
<1>7. HeldChains'[h] = c
  BY <1>6 DEF HeldChains
<1>8. c = Append(HeldChains[h], [by |-> h, rec |-> Domain!NoRecord, ckpt |-> Domain!Height(HeldChains[h])])
  BY <1>2, SameLedger DEF CheckpointBlock
<1>9. Domain!Wins(HeldChains'[h], HeldChains[h]) /\ Domain!IsAdmin(HeldChains[h], h)
  BY <1>1, <1>2, <1>5, <1>7, SameLedger, SameChoice
<1> HIDE DEF c
<1>10. QED
  BY <1>1, <1>2, <1>6, <1>8, <1>9 DEF Domain!Mark

\* reloadIfChanged adopts the file or leaves the chain.
LEMMA ReloadRereads ==
    ASSUME Inv, NEW h \in Hosts, Reload(h)
    PROVE  Domain!Reread(h) \/ UNCHANGED <<HeldChains, disk>>
<1>1. up[h] /\ UNCHANGED <<up, disk>>
  BY DEF Reload
<1>2. HeldChains[h] = mem[h] /\ HeldChains[h] # NoFile
  BY <1>1, HeldIs
<1>3. CASE Adopts(h)
  <2>1. disk[h] \in Chains /\ disk[h] # NoFile /\ Height(disk[h]) >= Height(mem[h])
    BY <1>3 DEF Adopts, Inv, TypeOK
  <2>2. HeldChains' = [HeldChains EXCEPT ![h] = disk[h]]
    BY <1>1, <1>3, <2>1, HeldChanges DEF Reload
  <2>3. QED
    BY <1>1, <1>2, <2>1, <2>2, SameLedger DEF Domain!Reread
<1>4. CASE ~Adopts(h)
  BY <1>1, <1>4 DEF Reload, HeldChains
<1>5. QED
  BY <1>3, <1>4

LEMMA RestartStarts ==
    ASSUME Inv, NEW h \in Hosts, Restart(h)
    PROVE  Domain!Start(h)
<1>1. ~up[h] /\ disk[h] # NoFile /\ disk[h] \in Chains /\ up' = [up EXCEPT ![h] = TRUE] /\ up'[h]
      /\ mem' = [mem EXCEPT ![h] = disk[h]] /\ UNCHANGED disk
  BY DEF Restart, Inv, TypeOK, fileVars
<1>2. HeldChains[h] = NoFile
  BY <1>1, HeldIs
<1>3. HeldChains' = [HeldChains EXCEPT ![h] = disk[h]]
  BY <1>1, HeldChanges
<1>4. QED
  BY <1>1, <1>2, <1>3 DEF Domain!Start

\* A daemon that dies holds nothing, and one that is gone already held nothing.
LEMMA DeathStops ==
    ASSUME Inv, NEW h \in Hosts, Dies(h), UNCHANGED disk
    PROVE  Domain!Stop(h) \/ UNCHANGED <<HeldChains, disk>>
<1>1. up' = [up EXCEPT ![h] = FALSE] /\ mem' = [mem EXCEPT ![h] = <<>>]
  BY DEF Dies
<1>2. HeldChains' = [HeldChains EXCEPT ![h] = NoFile]
  BY <1>1 DEF HeldChains, Inv, TypeOK
<1>3. CASE up[h]
  <2>1. HeldChains[h] # NoFile
    BY <1>3, HeldIs
  <2>2. QED
    BY <1>2, <2>1 DEF Domain!Stop
<1>4. CASE ~up[h]
  <2>1. HeldChains[h] = NoFile
    BY <1>4, HeldIs
  <2>2. QED
    BY <1>2, <2>1 DEF HeldChains
<1>5. QED
  BY <1>3, <1>4

\* A save puts an increasing chain in the place of the file, or takes it away.
LEMMA SavesStore ==
    ASSUME Inv, CheckpointsIncrease', Inv', NEW h \in Hosts, UNCHANGED <<mem, up>>,
           \A k \in Hosts \ {h} : disk'[k] = disk[k]
    PROVE  Domain!Store(h)
<1>1. HeldChains' = HeldChains
  BY DEF HeldChains
<1>2. disk' = [disk EXCEPT ![h] = disk'[h]]
  BY DEF Inv, TypeOK
<1>3. disk'[h] # NoFile => disk'[h] \in Chains /\ Increasing(disk'[h])
  BY DEF Inv, TypeOK, CheckpointsIncrease
<1>4. QED
  BY <1>1, <1>2, <1>3, SameLedger DEF Domain!Store

\* Every step of a daemon, a command or a fault is one of the domain, or none.
LEMMA StepInDomain ==
    ASSUME Inv, CheckpointsIncrease, (Inv /\ CheckpointsIncrease)', [Next]_vars
    PROVE  [Domain!Next]_(Domain!ledgerVars)
<1> USE DEF Domain!ledgerVars
<1>1. ASSUME UNCHANGED <<mem, up, disk>> PROVE UNCHANGED <<HeldChains, disk>>
  BY <1>1 DEF HeldChains
<1>2. CASE UNCHANGED vars
  BY <1>1, <1>2 DEF vars, nodeVars, fileVars
<1>3. ASSUME NEW h \in Hosts, Tick(h) \/ CmdLoad(h) \/ Command(h) \/ Crash(h) \/ Restart(h)
      PROVE  \/ Domain!Mark(h) \/ Domain!Reread(h) \/ Domain!Stop(h) \/ Domain!Start(h) \/ Domain!Store(h)
             \/ \E p \in Hosts : Domain!Improve(h, p)
             \/ UNCHANGED <<HeldChains, disk>>
  <2>1. CASE Reload(h)
    BY <2>1, ReloadRereads
  <2>2. CASE AskBlocks(h)
    BY <2>2, BlocksImprove
  <2>3. CASE AskFull(h)
    BY <2>3, FullImproves
  <2>4. CASE FullFails(h) \/ Crash(h)
    BY <2>4, DeathStops DEF FullFails, Crash
  <2>5. CASE Checkpoint(h)
    BY <2>5, CheckpointMarks
  <2>6. CASE Restart(h)
    BY <2>6, RestartStarts
  <2>7. CASE SaveRemove(h) \/ SaveRename(h) \/ CmdRemove(h) \/ CmdRename(h)
    <3>1. UNCHANGED <<mem, up>> /\ \A k \in Hosts \ {h} : disk'[k] = disk[k]
      BY <2>7 DEF SaveRemove, SaveRename, CmdRemove, CmdRename, nodeVars, Inv, TypeOK
    <3>2. QED
      BY <3>1, SavesStore
  <2>8. CASE \/ Boot(h) \/ PeersAsked(h) \/ NoCheckpoint(h) \/ SaveWrite(h) \/ Stamp(h) \/ BlocksFail(h)
             \/ AskHeight(h)
             \/ \E p \in Hosts : AskStatus(h, p) \/ StatusFails(h, p)
             \/ CmdLoad(h) \/ CmdRefused(h) \/ \E rec \in Commands[h] : CmdPropose(h, rec)
    <3>1. UNCHANGED <<mem, up, disk>>
      BY <2>8 DEF Boot, PeersAsked, NoCheckpoint, SaveWrite, Stamp, BlocksFail, AskHeight, AskStatus, StatusFails,
                  CmdLoad, CmdRefused, CmdPropose, nodeVars, fileVars
    <3>2. QED
      BY <1>1, <3>1
  <2>9. QED
    BY <1>3, <2>1, <2>2, <2>3, <2>4, <2>5, <2>6, <2>7, <2>8 DEF Tick, Sync, Save, Command
<1>4. CASE Next
  <2>1. PICK h \in Hosts : Tick(h) \/ CmdLoad(h) \/ Command(h) \/ Crash(h) \/ Restart(h)
    BY <1>4 DEF Next
  <2>2. QED
    BY <1>3, <2>1 DEF Domain!Next
<1>5. QED
  BY <1>2, <1>4

\* Daemons, commands, files and faults of all hosts keep the promise of one
\* ledger: the chain of a daemon that runs gets better with every step, but
\* where it takes over its own host's file, and no file has checkpoints out of
\* order.
THEOREM ImplementsLedger == Spec => Domain!Spec
<1>1. Init => Domain!Init
  <2> SUFFICES ASSUME Init PROVE Domain!Init
    OBVIOUS
  <2>1. HeldChains = [h \in Hosts |-> Origin] /\ disk = [h \in Hosts |-> Origin]
    BY DEF Init, HeldChains
  <2>2. Origin \in Domain!Chains /\ Domain!Increasing(Origin)
    BY OriginAssumption, SameLedger
  <2>3. QED
    BY <2>1, <2>2 DEF Domain!Init
<1>2. Inv /\ CheckpointsIncrease /\ [Next]_vars => (Inv /\ CheckpointsIncrease)'
  BY InvStep, IncreasingStep
<1>3. Inv /\ CheckpointsIncrease /\ (Inv /\ CheckpointsIncrease)' /\ [Next]_vars
        => [Domain!Next]_(Domain!ledgerVars)
  BY StepInDomain
<1>4. QED
  BY InitInv, <1>1, <1>2, <1>3, PTL DEF Spec, Domain!Spec
=============================================================================
