---------------------------- MODULE MCLedgerCache ----------------------------
(* LedgerCache for TLC.                                                       *)
EXTENDS LedgerCache
=============================================================================
