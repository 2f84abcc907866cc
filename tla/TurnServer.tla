----------------------------- MODULE TurnServer -----------------------------
(***************************************************************************)
(* What the controller promises its frontends, whatever goroutine a prompt *)
(* comes from and whichever queue it passes through: a server with one     *)
(* slot.  A prompt waits until it is started, refused, taken into the turn *)
(* that runs, or handled without a turn; only a free slot starts a prompt, *)
(* and only an occupied one turns a prompt down.                           *)
(***************************************************************************)
CONSTANTS Prompts, None

VARIABLES slot,    \* the prompt whose turn runs, or None
          fate     \* prompt -> what became of it

serverVars == <<slot, fate>>

Init ==
    /\ slot = None
    /\ fate = [p \in Prompts |-> "waiting"]

\* A free slot is given to one waiting prompt.
Start(p) ==
    /\ slot = None
    /\ fate[p] = "waiting"
    /\ slot' = p
    /\ fate' = [fate EXCEPT ![p] = "running"]

\* The turn in the slot ends.
Finish ==
    /\ slot # None
    /\ slot' = None
    /\ fate' = [fate EXCEPT ![slot] = "finished"]

\* While a turn runs, waiting prompts are turned down (a second start, the
\* steers the turn leaves behind) ...
Refuse(ps) ==
    /\ slot # None
    /\ \A p \in ps : fate[p] = "waiting"
    /\ slot' = slot
    /\ fate' = [p \in Prompts |-> IF p \in ps THEN "refused" ELSE fate[p]]

\* ... or become part of it.
Absorb(p) ==
    /\ slot # None
    /\ fate[p] = "waiting"
    /\ slot' = slot
    /\ fate' = [fate EXCEPT ![p] = "absorbed"]

\* A command needs no turn.
Handle(p) ==
    /\ fate[p] = "waiting"
    /\ slot' = slot
    /\ fate' = [fate EXCEPT ![p] = "handled"]

Next ==
    \/ \E p \in Prompts : Start(p) \/ Absorb(p) \/ Handle(p)
    \/ \E ps \in SUBSET Prompts : Refuse(ps)
    \/ Finish

Spec == Init /\ [][Next]_serverVars
=============================================================================
