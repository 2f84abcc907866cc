---------------------------- MODULE MCTranscript ----------------------------
\* Transcript for TLC: long turns that are folded, next to an autosave, by a
\* summarizer that may fail, or around a call of the frontend; or short turns
\* next to an autosave, two calls and a crash.
EXTENDS Transcript

MCLimits == {[folds |-> 2, calls |-> 0, ticks |-> 1, outages |-> 0, crashes |-> 0, replies |-> 2],
             [folds |-> 2, calls |-> 0, ticks |-> 0, outages |-> 1, crashes |-> 0, replies |-> 2],
             [folds |-> 1, calls |-> 1, ticks |-> 0, outages |-> 0, crashes |-> 0, replies |-> 1],
             [folds |-> 0, calls |-> 2, ticks |-> 1, outages |-> 0, crashes |-> 1, replies |-> 0]}
=============================================================================
