---------------------------- MODULE MCImportQueue ----------------------------
(* ImportQueue for TLC: three rows, of which the last repeats the first. *)
EXTENDS ImportQueue

Repeats == [r \in 1 .. 3 |-> IF r = 2 THEN 2 ELSE 1]
=============================================================================
