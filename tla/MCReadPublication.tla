-------------------------- MODULE MCReadPublication --------------------------
(* ReadPublication for TLC: one worker at a time, or two, the first left     *)
(* over from a foreground that died.                                         *)
EXTENDS ReadPublication

CONSTANTS w1, w2
=============================================================================
