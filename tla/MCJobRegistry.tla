---------------------------- MODULE MCJobRegistry ----------------------------
(* Small instances of JobRegistry for TLC. *)
EXTENDS JobRegistry

CONSTANTS b1, b2, d1, noDoc
==============================================================================
