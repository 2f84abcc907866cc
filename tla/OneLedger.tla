------------------------------ MODULE OneLedger -----------------------------
(***************************************************************************)
(* What a trust domain promises on each host, whatever is asked of which   *)
(* peer and whatever fails: the chain of a running daemon only gets        *)
(* better.  The daemon leaves it for one that fork choice prefers and that *)
(* a running peer holds, marks it with a checkpoint, or takes the file of  *)
(* its own host if that is as tall; it starts with that file.  Whatever    *)
(* the file holds, its checkpoints increase.                               *)
(***************************************************************************)
EXTENDS Ledger

CONSTANTS Hosts,
          Nothing   \* a daemon that is down has no chain, and neither has a file that is gone

VARIABLES held,     \* host -> the chain its daemon works with
          filed     \* host -> the chain in its ledger file

ledgerVars == <<held, filed>>

\* Everybody begins with one chain.
Init ==
    /\ filed \in [Hosts -> Chains] /\ held = filed
    /\ \A h, k \in Hosts : filed[h] = filed[k] /\ Increasing(filed[h])

\* A better chain: that of a running peer, up to some height.
Improve(h, p) ==
    /\ held[h] # Nothing /\ held[p] # Nothing
    /\ \E n \in 0..Height(held[p]) :
          /\ Wins(Upto(held[p], n), held[h])
          /\ held' = [held EXCEPT ![h] = Upto(held[p], n)]
    /\ UNCHANGED filed

\* A checkpoint of everything so far, by an admin.
Mark(h) ==
    /\ held[h] # Nothing /\ IsAdmin(held[h], h)
    /\ held' = [held EXCEPT ![h] = Append(@, [by |-> h, rec |-> NoRecord, ckpt |-> Height(held[h])])]
    /\ Wins(held'[h], held[h])
    /\ UNCHANGED filed

Reread(h) ==
    /\ held[h] # Nothing /\ filed[h] # Nothing
    /\ Height(filed[h]) >= Height(held[h])
    /\ held' = [held EXCEPT ![h] = filed[h]]
    /\ UNCHANGED filed

Stop(h) ==
    /\ held[h] # Nothing
    /\ held' = [held EXCEPT ![h] = Nothing]
    /\ UNCHANGED filed

Start(h) ==
    /\ held[h] = Nothing /\ filed[h] # Nothing
    /\ held' = [held EXCEPT ![h] = filed[h]]
    /\ UNCHANGED filed

\* A daemon or a command puts a file in the place of another, or takes it away.
Store(h) ==
    /\ filed'[h] # Nothing => filed'[h] \in Chains /\ Increasing(filed'[h])
    /\ filed' = [filed EXCEPT ![h] = filed'[h]]
    /\ UNCHANGED held

Next ==
    \E h \in Hosts : Mark(h) \/ Reread(h) \/ Stop(h) \/ Start(h) \/ Store(h) \/ \E p \in Hosts : Improve(h, p)

Spec == Init /\ [][Next]_ledgerVars
=============================================================================
