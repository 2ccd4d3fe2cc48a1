---------------------------- MODULE CommittedLog ----------------------------
(***************************************************************************)
(* What an event log promises its users, with no file, lock or handle: one *)
(* sequence of records that grows by whole decisions.  Losing the machine  *)
(* may take back decisions nobody was told of, and never one that somebody *)
(* was.                                                                    *)
(***************************************************************************)
EXTENDS Integers, Sequences

VARIABLES
    committed,     \* the records readers may be given
    acked          \* the records whose append returned to its caller

Holds(recs, r) == \E k \in 1 .. Len(recs) : recs[k] = r

\* The sequence ends where a decision does.
EndsDecision(recs) ==
    recs # << >> => recs[Len(recs)].last = recs[Len(recs)].id

Init == acked = { committed[k] : k \in 1 .. Len(committed) }

\* One decision, all of it, is added at the end.
Commit ==
    /\ Len(committed') > Len(committed)
    /\ \A k \in 1 .. Len(committed) : committed'[k] = committed[k]
    /\ \A k \in Len(committed) + 1 .. Len(committed') :
           /\ committed'[k].seq = k - 1
           /\ committed'[k].last = committed'[Len(committed')].id
    /\ EndsDecision(committed')
    /\ UNCHANGED acked

\* Callers learn that their records are committed.
Acknowledge ==
    /\ acked \subseteq acked'
    /\ \A r \in acked' : Holds(committed, r)
    /\ UNCHANGED committed

\* The machine goes down: unacknowledged decisions may be gone.
Rollback ==
    /\ Len(committed') < Len(committed)
    /\ \A k \in 1 .. Len(committed') : committed'[k] = committed[k]
    /\ EndsDecision(committed')
    /\ \A r \in acked : Holds(committed', r)
    /\ UNCHANGED acked

Next == Commit \/ Acknowledge \/ Rollback

Spec == Init /\ [][Next]_<<committed, acked>>
=============================================================================
