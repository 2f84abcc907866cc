---------------------------- MODULE MCScheduler ----------------------------
\* Scheduler for TLC: three calls that edit the list; or two and a crash; or
\* two, a run by hand and edits that are refused.
EXTENDS Scheduler

MCBudgets == {[ops |-> 3, runNow |-> 0, crashes |-> 0, refusals |-> {}],
              [ops |-> 2, runNow |-> 0, crashes |-> 1, refusals |-> {}],
              [ops |-> 2, runNow |-> 1, crashes |-> 0, refusals |-> {"past"}]}
=============================================================================
