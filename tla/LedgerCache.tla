----------------------------- MODULE LedgerCache -----------------------------
(***************************************************************************)
(* The ledger facade (product/viva/ledger/ledger.py): one Ledger over one   *)
(* EventStore handle, with its private fold, the read views it gives away,  *)
(* atomic decisions and staged settlements.                                 *)
(*                                                                         *)
(* The log is the committed log EventStore provides, taken as given here:   *)
(* it only grows, by whole decisions, under the writer lock.  Other handles *)
(* extend it, and other threads of this process ask this handle for the     *)
(* log's identity without the ledger's lock.  The ledger's RLock lets one   *)
(* ledger operation run at a time: op is that operation.                    *)
(*                                                                         *)
(* A projection is a mutable object, so it is a cell of a heap and holds    *)
(* the events folded into it; deepcopy fills a new cell.  Events themselves *)
(* are values: they are copied wherever they cross the facade.  A record    *)
(* hash is the count it ends at, the log being append-only.  Every bump of  *)
(* _cache_generation revokes the current view's record in the same          *)
(* critical section, so the record stands for both.                         *)
(***************************************************************************)
EXTENDS Integers, Sequences

CONSTANTS
    MaxLog,        \* bound: events committed
    MaxBatch       \* bound: events of one decision

ASSUME LedgerBoundsAssumption == MaxLog \in Nat \ {0} /\ MaxBatch \in Nat

\* Six projections are the most anybody can reach at a time.
Ref == 1 .. 6
NoRef == 0

\* An event is told by who wrote it: this ledger, another handle, or a
\* caller who folded it into a view and nowhere else.
Event == {"own", "other", "junk"}
Own(n) == [i \in 1 .. n |-> "own"]
Prefix(events, n) == SubSeq(events, 1, n)

\* EventStore._cached_identity: a legacy log has no authenticated head.
NoHead == -1
HeadCount == 0 .. MaxLog \cup {NoHead}
Identity == [head : HeadCount, size : 0 .. MaxLog]

VARIABLES
    log,           \* the committed log
    legacy,        \* it has no authenticated head yet
    cached,        \* the store handle: the identity it last authenticated
    writeFailed,   \* the store handle: _write_failed
    heap,          \* the projections
    basis,         \* _basis
    identity,      \* _projection_identity
    proj,          \* _proj
    owned,         \* the head _owned_projections records for _proj
    held,          \* projections callers retain
    op             \* the ledger operation under way, and its locals

vars == <<log, legacy, cached, writeFailed, heap, basis, identity, proj, owned,
          held, op>>

storeVars == <<log, legacy, cached, writeFailed>>
basisVars == <<basis, identity>>

Idle == [kind |-> "none", pc |-> "idle", reusable |-> FALSE, floor |-> 0,
         proj |-> NoRef, arg |-> NoRef, seen |-> << >>, chosen |-> << >>,
         prefix |-> [head |-> NoHead, size |-> 0], failed |-> FALSE]

\* The identity of the log as it is now.
Now == [head |-> IF legacy THEN NoHead ELSE Len(log), size |-> Len(log)]

\* The writer lock is held only while a decision is made and written.
StoreFree == op.pc # "deciding"

Reachable == ({basis, proj, op.proj, op.arg} \cup held) \ {NoRef}
NewRef == CHOOSE r \in Ref : r \notin Reachable
NewerRef == CHOOSE r \in Ref : r \notin Reachable \cup {NewRef}

\* h is what the step leaves on the heap; what nobody reaches is collected.
Keep(h) == heap' = [r \in Ref |-> IF r \in Reachable' THEN h[r] ELSE << >>]

\* A caller who is given a projection may retain it.
GiveAway(r) == held' \in {held, {r}}

Init ==
    /\ log \in {<< >>, <<"other">>}
    /\ legacy \in BOOLEAN
    /\ cached = Now
    /\ writeFailed = FALSE
    /\ heap = [r \in Ref |-> << >>]
    /\ basis = NoRef
    /\ identity = cached
    /\ proj = NoRef
    /\ owned = NoHead
    /\ held = {}
    /\ op = Idle

-----------------------------------------------------------------------------
\* The cache.

BasisReusable ==
    /\ basis # NoRef
    /\ identity.head # NoHead
    /\ identity.head = Len(heap[basis])

\* Mutant: a fold that can be reused is taken to be up to date.
AdvanceNothing(events, reusable) ==
    [ref |-> IF reusable THEN basis ELSE NewRef,
     events |-> IF reusable THEN heap[basis] ELSE events]

\* _advance_cache: the cell the fold is in, and what it then holds.
Advance(events, reusable) ==
    [ref |-> IF reusable THEN basis ELSE NewRef,
     events |-> IF reusable
                THEN heap[basis] \o SubSeq(events, Len(heap[basis]) + 1, Len(events))
                ELSE events]

\* Mutant: the identity read after the commit is believed to be the fold's.
SetBasisUnchecked(ref, count, now, witnessed) ==
    /\ proj' = NoRef
    /\ identity' = now
    /\ basis' = ref

SetBasis(ref, count, now, witnessed) ==
    /\ proj' = NoRef
    /\ identity' = now
    /\ basis' = IF witnessed /\ now.head \in {NoHead, count} THEN ref ELSE NoRef

\* _owned_projection_identity of _proj; every other view has no record.
Witness ==
    IF /\ proj # NoRef
       /\ identity.head = owned
       /\ cached.head = owned
       /\ ~writeFailed
    THEN owned
    ELSE NoHead

\* The except branches: an operation that raises leaves no cache.
Drop ==
    /\ basis' = NoRef
    /\ proj' = NoRef
    /\ owned' = NoHead
    /\ op' = Idle

-----------------------------------------------------------------------------
\* Reads.

\* Mutant: the handle's own idea of the log's identity decides.
ReadCached(kind) ==
    LET stale == basis = NoRef \/ cached # identity \/ ~BasisReusable IN
    /\ op = Idle
    /\ ~writeFailed
    /\ owned' = IF stale THEN NoHead ELSE owned
    /\ op' = [Idle EXCEPT !.kind = kind, !.reusable = BasisReusable,
                          !.floor = Len(log),
                          !.pc = IF stale THEN "snapshot" ELSE "publish"]
    /\ UNCHANGED <<storeVars, heap, basisVars, proj, held>>

\* projection() and is_resolved(): the store is asked for its identity, and
\* the fold is kept if it is the fold of that identity.
Read(kind) ==
    LET stale == basis = NoRef \/ Now # identity \/ ~BasisReusable IN
    /\ op = Idle
    /\ ~writeFailed
    /\ cached' = Now
    /\ owned' = IF stale THEN NoHead ELSE owned
    /\ op' = [Idle EXCEPT !.kind = kind, !.reusable = BasisReusable,
                          !.floor = Len(log),
                          !.pc = IF stale THEN "snapshot" ELSE "publish"]
    /\ UNCHANGED <<log, legacy, writeFailed, heap, basisVars, proj, held>>

ReadSnapshot ==
    LET fold == Advance(log, op.reusable) IN
    /\ op.pc = "snapshot"
    /\ ~writeFailed
    /\ cached' = Now
    /\ SetBasis(fold.ref, Len(fold.events), Now, TRUE)
    /\ op' = [op EXCEPT !.pc = "publish"]
    /\ UNCHANGED <<log, legacy, writeFailed, owned, held>>
    /\ Keep([heap EXCEPT ![fold.ref] = fold.events])

\* _publish_basis, unless the current view still is what it was given as.
Publish ==
    /\ op.kind = "read" /\ op.pc = "publish"
    /\ basis # NoRef
    /\ op' = Idle
    /\ UNCHANGED <<storeVars, basisVars>>
    /\ \/ /\ Witness # NoHead
          /\ GiveAway(proj)
          /\ UNCHANGED <<proj, owned>>
          /\ Keep(heap)
       \/ /\ Witness = NoHead
          /\ proj' = NewRef
          /\ owned' = IF identity.head = Len(heap[basis]) THEN identity.head
                      ELSE NoHead
          /\ GiveAway(NewRef)
          /\ Keep([heap EXCEPT ![NewRef] = heap[basis]])

\* is_resolved reads the private fold and gives nothing away.
Resolve ==
    /\ op.kind = "resolved" /\ op.pc = "publish"
    /\ basis # NoRef
    /\ op' = Idle
    /\ UNCHANGED <<storeVars, heap, basisVars, proj, owned, held>>

\* fresh_projection, snapshot_projection, projection_as_of: a fold of its own,
\* which leaves the cache alone but refreshes the store handle.
Replay ==
    /\ op = Idle
    /\ ~writeFailed
    /\ cached' = Now
    /\ held' = {NewRef}
    /\ UNCHANGED <<log, legacy, writeFailed, basisVars, proj, owned, op>>
    /\ Keep([heap EXCEPT ![NewRef] = log])

\* A consumer asks whether its view is still the ledger's; if it is not, the
\* view is never asked about with success again.
CheckWitness ==
    /\ op = Idle
    /\ owned # NoHead
    /\ Witness = NoHead
    /\ owned' = NoHead
    /\ UNCHANGED <<storeVars, heap, basisVars, proj, held, op>>

\* Mutant: folding into a view does not revoke it.
MutateUnguarded(r) ==
    /\ "junk" \notin { heap[r][k] : k \in DOMAIN heap[r] }
    /\ heap' = [heap EXCEPT ![r] = Append(@, "junk")]
    /\ UNCHANGED <<storeVars, basisVars, proj, owned, held, op>>

\* A caller folds an event into a view it retains; the view, or its core, is
\* revoked before it changes.
Mutate(r) ==
    /\ "junk" \notin { heap[r][k] : k \in DOMAIN heap[r] }
    /\ heap' = [heap EXCEPT ![r] = Append(@, "junk")]
    /\ owned' = IF r = proj THEN NoHead ELSE owned
    /\ UNCHANGED <<storeVars, basisVars, proj, held, op>>

-----------------------------------------------------------------------------
\* Appends: append_many, append_atomically and stage_atomically.

AppendBegin(kind) ==
    /\ op = Idle
    /\ owned' = NoHead
    /\ op' = [Idle EXCEPT !.kind = kind, !.pc = "append", !.reusable = BasisReusable]
    /\ UNCHANGED <<storeVars, heap, basisVars, proj, held>>

\* Under the writer lock the fold is brought up to the log, in place when it
\* can be, and the decision is given a copy of it.
Choose ==
    LET fold == Advance(log, op.reusable)
        copy == IF op.kind = "append" THEN NoRef ELSE NewerRef
        left == [heap EXCEPT ![fold.ref] = fold.events]
    IN
    /\ op.pc = "append"
    /\ ~writeFailed
    /\ cached' = Now
    /\ op' = [op EXCEPT !.pc = "deciding", !.proj = fold.ref, !.arg = copy,
                        !.seen = fold.events, !.prefix = Now]
    /\ IF op.kind = "decide" THEN GiveAway(copy) ELSE held' = held
    /\ UNCHANGED <<log, legacy, writeFailed, basisVars, proj, owned>>
    /\ Keep([r \in Ref |-> IF r = copy THEN fold.events ELSE left[r]])

\* The decision calls the ledger it runs under.  The RLock lets it in, the
\* store refuses it, and the refused call drops the cache.
Reenter ==
    /\ op.pc = "deciding" /\ op.kind \in {"decide", "stage"}
    /\ basis' = NoRef
    /\ proj' = NoRef
    /\ owned' = NoHead
    /\ UNCHANGED <<storeVars, identity, held, op>>
    /\ Keep(heap)

\* What the commit leaves for the handle once it returned.
Commit(chosen) ==
    /\ op.pc = "deciding"
    /\ log' = log \o chosen
    /\ legacy' = (legacy /\ chosen = << >>)
    /\ cached' = IF chosen = << >> THEN cached
                 ELSE [head |-> Len(log'), size |-> Len(log')]
    /\ op' = [op EXCEPT !.pc = "committed", !.chosen = chosen]
    /\ UNCHANGED <<writeFailed, heap, basisVars, proj, owned, held>>

\* The write failed: the batch is in the log or not, a legacy log was given
\* its head or not, and the handle could read the outcome back or not.
CommitFails(chosen) ==
    /\ op.pc = "deciding"
    /\ chosen # << >>
    /\ log' \in {log, log \o chosen}
    /\ legacy' \in {legacy, FALSE}
    /\ log' # log => ~legacy'
    /\ writeFailed' \in BOOLEAN
    /\ cached' = IF writeFailed' THEN cached ELSE Now'
    /\ Drop
    /\ UNCHANGED <<identity, held>>
    /\ Keep(heap)

\* The writer lock is gone and the observer has run: the handle's identity is
\* read again, and may by now be a later one.
AppendEnds ==
    LET folded == heap[op.proj] \o op.chosen
        witnessed == IF op.chosen = << >> THEN op.prefix = cached
                     ELSE op.prefix.size + Len(op.chosen) = cached.head
    IN
    /\ op.pc = "committed"
    /\ SetBasis(op.proj, Len(folded), cached, witnessed)
    /\ op' = Idle
    /\ UNCHANGED <<storeVars, owned, held>>
    /\ Keep([heap EXCEPT ![op.proj] = folded])

\* A decision, a fold or a copy raises, or a handle that failed refuses.
Raise ==
    /\ op # Idle
    /\ Drop
    /\ UNCHANGED <<storeVars, identity, held>>
    /\ Keep(heap)

-----------------------------------------------------------------------------
\* A staged ledger: its own fold, its additions, and views of the fold.

\* Mutant: a failed append is not remembered.
StageUnchecked == TRUE

\* _check_active, in the owning thread of a running operation.
StageActive == ~op.failed

Staging == op.pc = "deciding" /\ op.kind = "stage"

StageView ==
    /\ Staging /\ StageActive
    /\ held' = {NewRef}
    /\ UNCHANGED <<storeVars, basisVars, proj, owned, op>>
    /\ Keep([heap EXCEPT ![NewRef] = heap[op.arg]])

StageAppend(n) ==
    /\ Staging /\ StageActive
    /\ op' = [op EXCEPT !.chosen = @ \o Own(n)]
    /\ heap' = [heap EXCEPT ![op.arg] = @ \o Own(n)]
    /\ UNCHANGED <<storeVars, basisVars, proj, owned, held>>

\* An append raises with some of its events folded; the operation may go on.
StageFails(folded) ==
    /\ Staging /\ StageActive
    /\ op' = [op EXCEPT !.failed = TRUE]
    /\ heap' = [heap EXCEPT ![op.arg] = @ \o Own(folded)]
    /\ UNCHANGED <<storeVars, basisVars, proj, owned, held>>

-----------------------------------------------------------------------------
\* The rest of the process and of the world.

Peek ==
    /\ StoreFree
    /\ ~writeFailed
    /\ cached # Now
    /\ cached' = Now
    /\ UNCHANGED <<log, legacy, writeFailed, heap, basisVars, proj, owned, held, op>>

OtherAppends ==
    /\ StoreFree
    /\ Len(log) < MaxLog
    /\ log' = Append(log, "other")
    /\ legacy' = FALSE
    /\ UNCHANGED <<cached, writeFailed, heap, basisVars, proj, owned, held, op>>

\* A call authenticates the log in vain, and every later call of the handle
\* is refused: the operation under way raises at its next one.
StoreFails ==
    /\ StoreFree
    /\ ~writeFailed
    /\ writeFailed' = TRUE
    /\ UNCHANGED <<log, legacy, cached, heap, basisVars, proj, owned, held, op>>

\* A read of a handle that failed is refused.
ReadRefused ==
    /\ op = Idle
    /\ writeFailed
    /\ Drop
    /\ UNCHANGED <<storeVars, identity, held>>
    /\ Keep(heap)

\* What the operation under way may hand to the store.
Chosen ==
    IF op.kind = "stage" THEN {op.chosen}
    ELSE { Own(n) : n \in 0 .. MaxBatch }

Decided ==
    \E chosen \in Chosen :
        /\ op.kind = "stage" => StageActive
        /\ Len(log \o chosen) <= MaxLog
        /\ Commit(chosen) \/ CommitFails(chosen)

Next ==
    \/ \E kind \in {"read", "resolved"} : Read(kind)
    \/ ReadSnapshot \/ Publish \/ Resolve \/ Replay \/ CheckWitness
    \/ \E r \in held : Mutate(r)
    \/ \E kind \in {"append", "decide", "stage"} : AppendBegin(kind)
    \/ Choose \/ Reenter \/ Decided \/ AppendEnds \/ Raise
    \/ StageView
    \/ \E n \in 1 .. MaxBatch : Len(op.chosen) + n <= MaxBatch /\ StageAppend(n)
    \/ \E folded \in {0, 1} : StageFails(folded)
    \/ Peek \/ OtherAppends \/ StoreFails \/ ReadRefused

Spec == Init /\ [][Next]_vars

-----------------------------------------------------------------------------
TypeOK ==
    /\ log \in Seq({"own", "other"}) /\ Len(log) <= MaxLog
    /\ legacy \in BOOLEAN
    /\ cached \in Identity
    /\ writeFailed \in BOOLEAN
    /\ \A r \in Ref : heap[r] \in Seq(Event)
    /\ {basis, proj, op.proj, op.arg} \subseteq Ref \cup {NoRef}
    /\ identity \in Identity
    /\ owned \in HeadCount
    /\ owned # NoHead => proj # NoRef
    /\ held \subseteq Ref
    /\ op.pc \in {"idle", "snapshot", "publish", "append", "deciding", "committed"}
    /\ op.kind \in {"none", "read", "resolved", "append", "decide", "stage"}
    /\ op.prefix \in Identity

\* The private fold holds exactly the events of the prefix its identity names,
\* whatever callers did to the views and decisions they were given, and
\* whatever other threads and handles did while an append was finishing.  While
\* a decision is being made and committed the fold runs ahead of the identity,
\* and no one else can look.
BasisExact ==
    basis # NoRef /\ op.pc \notin {"deciding", "committed"} =>
        heap[basis] = Prefix(log, identity.size)

\* A view for which _owned_projection_identity gives a witness holds exactly the
\* committed prefix the witness names: answers bind to it as their source.
WitnessExact ==
    Witness # NoHead => heap[proj] = Prefix(log, Witness)

\* A decision is made on everything committed: the projection it is given is
\* the whole log, and nothing is committed until its own events are.
DecisionSeesAll == op.pc = "deciding" => op.seen = log

\* The answer of a read that ends in this step.
Answered == heap'[IF op.kind = "read" THEN proj' ELSE basis']
AnswerFresh ==
    op.pc = "publish" /\ op' = Idle /\ basis' # NoRef =>
        /\ Len(Answered) \in op.floor .. Len(log)
        /\ Answered = Prefix(log, Len(Answered))

\* projection() and is_resolved() answer from a prefix of the log that holds
\* at least what was committed when the store was asked, and nothing a caller
\* folded into an earlier view.
ReadIsFresh == [][AnswerFresh]_vars

CommitsWhole == Staging /\ log' # log => log' = heap[op.arg]

\* What a staged settlement commits is what its own fold showed: all the
\* events it appended, on top of the log, and nothing at all after an append
\* that failed, even if the operation swallowed the error.
StageWhole == [][CommitsWhole]_vars
=============================================================================
