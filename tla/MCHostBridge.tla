---------------------------- MODULE MCHostBridge ----------------------------
(* HostBridge for TLC: who makes which calls, and how many. *)
EXTENDS HostBridge

CONSTANTS c1, c2, v1

Mixed == [c \in {c1, c2} |->
            CASE c = c1 -> << {"open"},
                              {"read", "jobs", "cancel", "stop", "close"} >>
              [] c = c2 -> << {"open", "bulk", "restart"} >>]
=============================================================================
