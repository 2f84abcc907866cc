------------------------------- MODULE Ledger -------------------------------
(***************************************************************************)
(* The ledger of internal/trustdomain as data: chains, the members they     *)
(* name, and the choice between two of them.  A chain is the sequence of its *)
(* blocks after the genesis, which all nodes of a domain share; the hash of  *)
(* the block at some height is the prefix that ends there, so that a block   *)
(* attaches to a chain exactly when its predecessors are that chain.         *)
(***************************************************************************)
EXTENDS Integers, Sequences, FiniteSets

CONSTANTS Identities,     \* keys that may be members
          Founders,       \* the admin keys of the genesis
          QuorumM,        \* approvals a quorum record or a checkpoint needs
          HashGeq(_, _)   \* the order of two head hashes, written in hexadecimal

ASSUME FoundersAssumption == Founders \subseteq Identities /\ QuorumM \in 1..Cardinality(Founders)

\* A record by its effect on members: an attestation, an audit anchor or a
\* token changes none.
Records == [op : {"note"}, who : {"nobody"}] \cup [op : {"admit", "revoke"}, who : Identities]
NoRecord == [op |-> "none", who |-> "nobody"]

\* ckpt is the height the checkpoint of the block covers, 0 for none.
Block == [by : Identities, rec : Records \cup {NoRecord}, ckpt : Nat]
Chains == Seq(Block)

Height(c) == Len(c)
Upto(c, n) == SubSeq(c, 1, n)
Extends(c, d) == Height(d) <= Height(c) /\ Upto(c, Height(d)) = d

-----------------------------------------------------------------------------
(* The state a chain amounts to.                                           *)

\* The last of a set of heights.
LastOf(s) == CHOOSE i \in s : \A j \in s : j <= i

\* The members who are admitted and not revoked, founders from the start.
IsMember(c, m) ==
    LET about == {i \in 1..Len(c) : c[i].rec.who = m}
    IN IF about = {} THEN m \in Founders ELSE c[LastOf(about)].rec.op = "admit"

\* A founder stays an admin until a revocation; who is admitted again is a
\* plain member.
IsAdmin(c, m) == m \in Founders /\ \A i \in 1..Len(c) : c[i].rec # [op |-> "revoke", who |-> m]

Admins(c) == {m \in Founders : IsAdmin(c, m)}

\* LastCheckpoint: the height covered by the latest block that has one.
LastCheckpoint(c) ==
    LET marked == {i \in 1..Len(c) : c[i].ckpt # 0}
    IN IF marked = {} THEN 0 ELSE c[LastOf(marked)].ckpt

-----------------------------------------------------------------------------
\* ForkChoice: the later checkpoint, then the longer chain, then the higher hash.
ForkChoice(a, b) ==
    IF LastCheckpoint(a) # LastCheckpoint(b)
    THEN (IF LastCheckpoint(a) > LastCheckpoint(b) THEN a ELSE b)
    ELSE IF Height(a) # Height(b) THEN (IF Height(a) > Height(b) THEN a ELSE b)
    ELSE IF HashGeq(a, b) THEN a ELSE b

\* MergeFork leaves d for c.
Wins(c, d) == ForkChoice(d, c) = c

\* Variant: forks of one height are left alone.
PlanSyncTallerOnly(local, remote) ==
    [need |-> Height(remote) > Height(local), from |-> Height(local) + 1, to |-> Height(remote)]

\* PlanSync: the missing range of a taller peer, and of a fork of the same
\* height what follows the checkpoint both hold, or everything.
PlanSync(local, remote) ==
    [need |-> remote # local /\ Height(remote) >= Height(local),
     from |-> IF Height(remote) > Height(local) THEN Height(local) + 1
              ELSE LET n == LastCheckpoint(local)
                   IN IF n > 0 /\ n = LastCheckpoint(remote) /\ Upto(local, n) = Upto(remote, n)
                      THEN n + 1 ELSE 0,
     to |-> Height(remote)]

\* The members that the blocks from..to of c revoke (BlockRevokes).
RevokedIn(c, from, to) ==
    {m \in Identities : \E i \in from..to : i \in 1..Len(c) /\ c[i].rec = [op |-> "revoke", who |-> m]}

\* The heights that checkpoints cover increase along the chain.
Increasing(c) ==
    \A i \in 1..Len(c) : /\ c[i].ckpt < i
                         /\ c[i].ckpt # 0 => \A j \in 1..(i - 1) : c[j].ckpt < c[i].ckpt
=============================================================================
