------------------------ MODULE MCReadStoreSupervision ------------------------
(* ReadStoreSupervision for TLC: one maintenance thread, or two, which are     *)
(* interchangeable where only invariants are checked.                          *)
EXTENDS ReadStoreSupervision, TLC

CONSTANTS b1, b2

Interchangeable == Permutations(Background)
=============================================================================
