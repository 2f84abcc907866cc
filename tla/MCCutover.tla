----------------------------- MODULE MCCutover -----------------------------
\* Cutover for TLC: the buttons of one proposal of two steps, pressed by two
\* callers, with a crash and a device that leaves the inventory; or a cutover
\* of two proposals, with a runner and a human who rolls back.
EXTENDS Cutover, TLC

CONSTANTS c1, c2

MCPlans ==
    {[callers |-> {c1, c2}, ids |-> {1}, steps |-> {1, 2}, sessions |-> Sessions,
      approvals |-> 3, crashes |-> 1, removals |-> 1, cutover |-> FALSE],
     [callers |-> {c1, c2}, ids |-> {1, 2}, steps |-> {1}, sessions |-> {},
      approvals |-> 2, crashes |-> 0, removals |-> 0, cutover |-> TRUE]}
Symmetry == Permutations({c1, c2})
=============================================================================
