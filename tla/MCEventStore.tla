---------------------------- MODULE MCEventStore ----------------------------
(* Small instances of EventStore for TLC. *)
EXTENDS EventStore, TLC

CONSTANTS h1, h2

HandleSymmetry == Permutations(Handle)
=============================================================================
