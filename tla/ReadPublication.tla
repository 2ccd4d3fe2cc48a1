--------------------------- MODULE ReadPublication ---------------------------
(***************************************************************************)
(* How revisions of the encrypted read store are built, published, read and *)
(* thrown away (product/viva/read_store/store.py) by the processes of one    *)
(* vault: the sidecar's foreground, which opens or creates the store, reads  *)
(* it and starts a worker process each time it opens the vault, and the      *)
(* workers, which synchronize it.  A worker outlives a foreground that dies  *)
(* until it next reads its pipe.  Two foregrounds at once are left out.      *)
(*                                                                         *)
(* A revision is one directory under generations/ holding one database.  Of *)
(* its contents the model keeps how many committed events it was built from *)
(* and whether it still authenticates.  A generation moved to quarantine/   *)
(* is never looked at again: it is "gone", removed or not.  The committed   *)
(* log only grows here, so a revision is always of a prefix of it.          *)
(***************************************************************************)
EXTENDS Integers, FiniteSets

CONSTANTS
    front,         \* the process that opens the vault
    Worker,        \* worker processes
    MaxEvents,     \* bound: events committed
    MaxFaults,     \* bound: deaths, closings, damaged databases, failing steps
    MaxReaders     \* bound: readers of one revision at a time

Nobody == "nobody"
Due == "due"
Proc == Worker \cup {front}

ASSUME ProcAssumption == front \notin Worker /\ Proc \cap {Nobody, Due} = {}
ASSUME ReadBoundsAssumption ==
    MaxEvents \in Nat /\ MaxFaults \in Nat /\ MaxReaders \in Nat

Retain == 2     \* RETAIN_SUPERSEDED_GENERATIONS

\* A publication is of a new root, of new events, or follows a fault, so the
\* bound on generations keeps none from starting.
MaxGens == 1 + MaxEvents + 2 * MaxFaults
GenId == 1 .. MaxGens
Count == 0 .. MaxEvents
Epoch == 0 .. MaxGens

Manifest == [gen : GenId, epoch : Epoch, count : Count]
NoManifest == [gen |-> 0, epoch |-> 0, count |-> 0]

\* A generation's directory: where it is, its projection_meta, and whether
\* its database still opens and authenticates.
Generation == [at : {"none", "live", "gone"}, state : {"building", "ready"},
               epoch : Epoch, count : Count, intact : BOOLEAN]
Unborn == [at |-> "none", state |-> "building", epoch |-> 0, count |-> 0,
           intact |-> TRUE]

\* A ReadStore object: the highest epoch it has seen, and the manifest it
\* was opened on when that manifest's generation did not authenticate.
Closed == [open |-> FALSE, highest |-> 0, recovery |-> NoManifest]

\* A publication under way.  "wait" is before the writer lock; mode "copy"
\* extends the current revision from its count, "fresh" starts over; seen is
\* the pointer on which that was decided.
Place == {"idle", "wait", "build", "copied", "ready", "verified", "written",
          "published"}
Work == [at : Place, mode : {"none", "copy", "fresh"}, from : Count,
         to : Count, creates : BOOLEAN, seen : Manifest \cup {NoManifest},
         previous : Manifest \cup {NoManifest}, gen : GenId \cup {0},
         epoch : Epoch]
Idle == [at |-> "idle", mode |-> "none", from |-> 0, to |-> 0,
         creates |-> FALSE, seen |-> NoManifest, previous |-> NoManifest,
         gen |-> 0, epoch |-> 0]

VARIABLES
    log,        \* events committed
    root,       \* the read-model directory
    gens,       \* generations/
    minted,     \* generation names used
    current,    \* current.json
    temps,      \* current.<generation>.tmp files
    lock,       \* who holds writer.lock
    owned,      \* the worker of the foreground that has the vault open
    store,      \* each process's ReadStore
    refs,       \* the foreground's count of open readers of each generation
    work,       \* each process's publication
    faults

disk == <<root, gens, minted, current, temps>>
mem == <<owned, store, refs, work>>
vars == <<log, disk, lock, mem, faults>>

Init ==
    /\ log \in Count
    /\ root = "absent" /\ gens = [g \in GenId |-> Unborn] /\ minted = 0
    /\ current = NoManifest /\ temps = {}
    /\ lock = Nobody /\ owned = Nobody
    /\ store = [p \in Proc |-> Closed]
    /\ refs = [g \in GenId |-> 0]
    /\ work = [p \in Proc |-> Idle]
    /\ faults = 0

Fault == faults < MaxFaults /\ faults' = faults + 1
NoFault == UNCHANGED faults

-----------------------------------------------------------------------------
(* Reading the pointer *)

\* _assert_ready, on a database that can be opened
Ready(g) == gens[g].at = "live" /\ gens[g].intact /\ gens[g].state = "ready"

\* _validate_manifest_generation
Matches(m) == /\ m # NoManifest /\ Ready(m.gen)
              /\ gens[m.gen].epoch = m.epoch /\ gens[m.gen].count = m.count

\* _current_manifest: what a store that has seen epoch h accepts
Accepts(h, m) == Matches(m) /\ m.epoch >= h

\* The same with recover=True: where there is no pointer, the one temporary
\* that authenticates becomes it.
Candidates == { m \in temps : Matches(m) }
Resolved(h) == IF current = NoManifest /\ Cardinality(Candidates) = 1
               THEN CHOOSE m \in Candidates \cup {current} :
                       \/ m \in Candidates /\ m.epoch >= h
                       \/ /\ m = current
                          /\ \A c \in Candidates : c.epoch < h
               ELSE current

Larger(a, b) == IF a > b THEN a ELSE b
Smaller(a, b) == IF a < b THEN a ELSE b

-----------------------------------------------------------------------------
(* Cleanup *)

\* Generations neither pointed at nor read by process p itself: a process
\* counts its own readers only, and a worker keeps none.
Unneeded(p, now) == { g \in GenId : /\ gens[g].at = "live" /\ g # now.gen
                                    /\ p = front => refs'[g] = 0 }

\* Mutant: one predecessor is kept.
RetainedOne(p, now) ==
    LET ready == { g \in Unneeded(p, now) : Ready(g) }
    IN  { keep \in SUBSET ready :
            /\ Cardinality(keep) = Smaller(1, Cardinality(ready))
            /\ \A g \in keep, h \in ready \ keep :
                  gens[g].epoch >= gens[h].epoch }

\* The predecessors kept: the highest epochs, equal ones in any order.
Retained(p, now) ==
    LET ready == { g \in Unneeded(p, now) : Ready(g) }
    IN  { keep \in SUBSET ready :
            /\ Cardinality(keep) = Smaller(Retain, Cardinality(ready))
            /\ \A g \in keep, h \in ready \ keep :
                  gens[g].epoch >= gens[h].epoch }

\* _cleanup_locked, of a store that has seen epoch h: a pointer that it does
\* not accept makes it raise before it moves anything.
CleanupLocked(p, h) ==
    LET now == Resolved(h)
    IN  IF Accepts(h, now)
        THEN /\ current' = now /\ temps' = {}
             /\ \E keep \in Retained(p, now) :
                   gens' = [ g \in GenId |->
                               IF g \in Unneeded(p, now) \ keep
                               THEN [gens[g] EXCEPT !.at = "gone"]
                               ELSE gens[g] ]
        ELSE UNCHANGED <<current, gens, temps>>

\* Mutant: cleanup does not take the writer lock.
CleanupUnlocked(p, h) == CleanupLocked(p, h)

\* _cleanup_best_effort: a busy writer defers it.
Cleanup(p, h) == IF lock = Nobody THEN CleanupLocked(p, h)
                 ELSE UNCHANGED <<current, gens, temps>>

\* The highest epoch a store has seen once it has read the pointer
Seen(p) == IF Accepts(store[p].highest, current)
           THEN Larger(store[p].highest, current.epoch)
           ELSE store[p].highest

-----------------------------------------------------------------------------
(* Opening *)

Opened(p, m, recovering) ==
    store' = [store EXCEPT ![p] =
                 [open |-> TRUE, highest |-> m.epoch,
                  recovery |-> IF recovering THEN m ELSE NoManifest]]

\* A worker is started once the vault is open, and opens the store itself.
MayOpen(p) == /\ ~store[p].open
              /\ IF p = front THEN TRUE
                 ELSE owned = Due /\ work[front].at = "idle"
StartsWorker(p) == owned' = IF p = front THEN Due ELSE p

\* _open on a pointer that authenticates
OpenCurrent(p) ==
    /\ MayOpen(p) /\ root = "whole"
    /\ LET m == Resolved(0)
       IN  /\ Matches(m)
           /\ Opened(p, m, FALSE)
           /\ UNCHANGED refs
           /\ IF lock = Nobody THEN CleanupLocked(p, 0)
              ELSE current' = m /\ temps' = temps \ {m} /\ UNCHANGED gens
    /\ StartsWorker(p)
    /\ UNCHANGED <<log, root, minted, lock, work, faults>>

\* open_for_recovery: an authentic pointer to a generation that is not
OpenRecovers(p) ==
    /\ MayOpen(p) /\ root = "whole"
    /\ current # NoManifest /\ ~Matches(current)
    /\ Opened(p, current, TRUE)
    /\ StartsWorker(p)
    /\ UNCHANGED <<log, disk, lock, refs, work, faults>>

Unopenable == \/ root = "bare"
              \/ /\ root = "whole" /\ current = NoManifest
                 /\ Cardinality(Candidates) # 1

NoRoot == /\ root' = "absent" /\ current' = NoManifest /\ temps' = {}
          /\ gens' = [ g \in GenId |-> IF gens[g].at = "live"
                                       THEN [gens[g] EXCEPT !.at = "gone"]
                                       ELSE gens[g] ]

\* Vault._open_read_store renames a root that cannot be opened out of the
\* way; a create follows.
QuarantineRoot ==
    /\ ~store[front].open /\ Unopenable
    /\ NoRoot
    /\ lock' = Nobody          \* its file went with the root
    /\ UNCHANGED <<log, minted, mem, faults>>

\* ReadStore.create, up to its publish
Create ==
    /\ ~store[front].open /\ root = "absent"
    /\ root' = "whole"
    /\ store' = [store EXCEPT ![front] = [Closed EXCEPT !.open = TRUE]]
    /\ work' = [work EXCEPT ![front] = [Idle EXCEPT !.at = "wait",
                                                    !.mode = "fresh",
                                                    !.creates = TRUE]]
    /\ owned' = Due
    /\ UNCHANGED <<log, gens, minted, current, temps, lock, refs, faults>>

\* The process dies while it makes the root's entries.
CreateDies ==
    /\ ~store[front].open /\ root = "absent"
    /\ root' = "bare"
    /\ Fault
    /\ UNCHANGED <<log, gens, minted, current, temps, lock, mem>>

-----------------------------------------------------------------------------
(* Readers *)

\* open_reader
OpenReader ==
    /\ store[front].open /\ ~work[front].creates
    /\ Accepts(store[front].highest, current)
    /\ refs[current.gen] < MaxReaders
    /\ store' = [store EXCEPT ![front].highest = Seen(front)]
    /\ refs' = [refs EXCEPT ![current.gen] = @ + 1]
    /\ UNCHANGED <<log, disk, lock, owned, work, faults>>

\* ReadRevision.close and _release
CloseReader ==
    \E g \in GenId :
       /\ refs[g] > 0
       /\ refs' = [refs EXCEPT ![g] = @ - 1]
       /\ Cleanup(front, store[front].highest)
       /\ store' = [store EXCEPT ![front].highest =
                       IF lock = Nobody THEN Seen(front) ELSE @]
       /\ UNCHANGED <<log, root, minted, lock, owned, work, faults>>

\* A process is gone, at whatever point of its work: killed, or dead.  The
\* system gives its lock back.
Gone(P) ==
    /\ store' = [p \in Proc |-> IF p \in P THEN Closed ELSE store[p]]
    /\ refs' = IF front \in P THEN [g \in GenId |-> 0] ELSE refs
    /\ work' = [p \in Proc |-> IF p \in P THEN Idle ELSE work[p]]
    /\ lock' = IF lock \in P THEN Nobody ELSE lock
    /\ UNCHANGED <<log, disk>>

\* Vault.close: the worker is told to stop, and killed if it does not; then
\* the store is closed, which is refused while a revision is open.
Close ==
    /\ store[front].open /\ work[front].at = "idle"
    /\ \A g \in GenId : refs[g] = 0
    /\ Gone({front, owned} \cap Proc)
    /\ owned' = Nobody
    /\ Fault

\* A worker whose foreground has died finds its pipe closed.
Exit(p) ==
    /\ p \in Worker /\ store[p].open /\ work[p].at = "idle" /\ owned # p
    /\ Gone({p})
    /\ UNCHANGED owned /\ NoFault

-----------------------------------------------------------------------------
(* Synchronizing *)

Commit ==
    /\ log < MaxEvents
    /\ log' = log + 1
    /\ UNCHANGED <<disk, lock, mem, faults>>

\* Mutant: a legible revision is taken as equal to the log.
EqualOnceLegible == TRUE

\* The committed suffix after the current revision is empty.
Equal == current.count = log

\* synchronize, up to its publish: the current revision's own account of
\* itself decides between nothing to do, catching up and starting over.
\* Reading it is a reader opened and closed again.
Synchronizes(p, next) ==
    /\ store[p].open /\ work[p].at = "idle" /\ owned = p
    /\ store' = [store EXCEPT ![p].highest = Seen(p)]
    /\ UNCHANGED refs
    /\ IF Accepts(store[p].highest, current)
       THEN Cleanup(p, store[p].highest)
       ELSE UNCHANGED <<current, gens, temps>>
    /\ work' = [work EXCEPT ![p] = next]
    /\ UNCHANGED <<log, root, minted, lock, owned>>

StartsOver == [Idle EXCEPT !.at = "wait", !.mode = "fresh", !.to = log,
                           !.seen = current]
Extends == [Idle EXCEPT !.at = "wait", !.mode = "copy", !.to = log,
                        !.from = current.count, !.seen = current]

Synchronize(p) ==
    /\ Synchronizes(p, IF ~Accepts(store[p].highest, current) THEN StartsOver
                       ELSE IF Equal THEN Idle ELSE Extends)
    /\ NoFault

\* A legible revision of other versions, of another resolver, or whose prefix
\* the log does not have is not extended.
SynchronizeOther(p) ==
    /\ Accepts(store[p].highest, current)
    /\ Synchronizes(p, StartsOver)
    /\ Fault

\* What publish builds on: the manifest the store was opened on when it was
\* opened for recovery, whatever the pointer says by now.
Previous(p) == IF store[p].recovery # NoManifest THEN store[p].recovery
               ELSE current

\* Whether publish gets past reading its predecessor.
PreviousLegible(p) ==
    \/ store[p].recovery # NoManifest
    \/ Accepts(store[p].highest, current)
    \/ current = NoManifest /\ store[p].highest = 0

\* A create that fails takes the whole directory with it.
GivesUp(p) ==
    /\ work' = [work EXCEPT ![p] = Idle]
    /\ IF work[p].creates
       THEN /\ NoRoot
            /\ store' = [store EXCEPT ![p] = Closed]
            /\ owned' = Nobody
       ELSE /\ temps' = { m \in temps : m.gen # work[p].gen }
            /\ gens' = IF work[p].gen = 0 THEN gens
                       ELSE [gens EXCEPT ![work[p].gen].at =
                                IF @ = "live" THEN "gone" ELSE @]
            /\ UNCHANGED <<root, current, store, owned>>
    /\ lock' = IF work[p].creates \/ lock = p THEN Nobody ELSE lock
    /\ UNCHANGED <<log, minted, refs>>

\* Mutant: a publication keeps its predecessor's epoch.
EpochKept(p) == Larger(1, Previous(p).epoch)

NextEpoch(p) == Previous(p).epoch + 1

\* publish: the writer lock, its predecessor, and a directory of its own
Begin(p) ==
    /\ work[p].at = "wait" /\ lock = Nobody /\ root = "whole"
    /\ PreviousLegible(p)
    /\ minted < MaxGens
    /\ lock' = p
    /\ minted' = minted + 1
    /\ gens' = [gens EXCEPT ![minted'] = [Unborn EXCEPT !.at = "live"]]
    /\ work' = [work EXCEPT ![p].at = "build", ![p].gen = minted',
                            ![p].previous = Previous(p),
                            ![p].epoch = NextEpoch(p)]
    /\ store' = [store EXCEPT ![p].highest =
                    IF store[p].recovery = NoManifest
                    THEN Larger(@, current.epoch) ELSE @]
    /\ UNCHANGED <<log, root, current, temps, owned, refs, faults>>

\* publish refuses: another writer outlasts the wait, the root is gone, or
\* the pointer is one this store does not accept.
BeginRefused(p) ==
    /\ work[p].at = "wait"
    /\ \/ lock # Nobody
       \/ root # "whole"
       \/ ~PreviousLegible(p)
    /\ GivesUp(p)
    /\ NoFault

\* The revision to copy must be there.
Copyable(p) == /\ work[p].previous # NoManifest
               /\ gens[work[p].previous.gen].at = "live"

\* copyfile: until its first commit the new database is its predecessor's,
\* ready and with the predecessor's epoch.
Copy(p) ==
    /\ work[p].at = "build" /\ work[p].mode = "copy"
    /\ gens[work[p].gen].at = "live" /\ Copyable(p)
    /\ gens' = [gens EXCEPT ![work[p].gen] = gens[work[p].previous.gen]]
    /\ work' = [work EXCEPT ![p].at = "copied"]
    /\ UNCHANGED <<log, root, minted, current, temps, lock, owned, store,
                   refs, faults>>

\* The copy must be legible, and end where the suffix starts.
Contiguous(p) == /\ gens[work[p].gen].intact
                 /\ gens[work[p].gen].count = work[p].from

\* Where the build transaction starts: a copied database, or an empty one
Prepared(p) == IF work[p].mode = "copy" THEN "copied" ELSE "build"

\* The build transaction and the commit that makes it ready
Build(p) ==
    /\ work[p].at = Prepared(p)
    /\ gens[work[p].gen].at = "live"
    /\ work[p].mode = "copy" => Contiguous(p)
    /\ gens' = [gens EXCEPT ![work[p].gen].state = "ready",
                            ![work[p].gen].epoch = work[p].epoch,
                            ![work[p].gen].count = work[p].to]
    /\ work' = [work EXCEPT ![p].at = "ready"]
    /\ UNCHANGED <<log, root, minted, current, temps, lock, owned, store,
                   refs, faults>>

Mine(p) == [gen |-> work[p].gen, epoch |-> work[p].epoch,
            count |-> work[p].to]

\* Mutant: the pointer moves to a generation that was not verified.
WriteUnverified(p) ==
    /\ work[p].at \in {"build", "copied", "ready", "verified"}
    /\ temps' = temps \cup {Mine(p)}
    /\ work' = [work EXCEPT ![p].at = "written"]
    /\ UNCHANGED <<log, root, gens, minted, current, lock, owned, store,
                   refs, faults>>

\* Flushed, and verified through a new connection
Verify(p) ==
    /\ work[p].at = "ready" /\ Matches(Mine(p))
    /\ work' = [work EXCEPT ![p].at = "verified"]
    /\ UNCHANGED <<log, disk, lock, owned, store, refs, faults>>

\* Its manifest is written aside.
WriteManifest(p) ==
    /\ work[p].at = "verified"
    /\ temps' = temps \cup {Mine(p)}
    /\ work' = [work EXCEPT ![p].at = "written"]
    /\ UNCHANGED <<log, root, gens, minted, current, lock, owned, store,
                   refs, faults>>

\* The replace is the commit point; one that an opener has already done for
\* it is taken as done.
Replace(p) ==
    /\ work[p].at = "written"
    /\ \/ Mine(p) \in temps
       \/ current = Mine(p) /\ Accepts(store[p].highest, current)
    /\ current' = Mine(p)
    /\ temps' = temps \ {Mine(p)}
    /\ store' = [store EXCEPT ![p].recovery = NoManifest,
                              ![p].highest = work[p].epoch]
    /\ work' = [work EXCEPT ![p].at = "published"]
    /\ UNCHANGED <<log, root, gens, minted, lock, owned, refs, faults>>

\* Cleanup with the lock it already holds; publish returns.
Finish(p) ==
    /\ work[p].at = "published"
    /\ UNCHANGED refs
    /\ CleanupLocked(p, store[p].highest)
    /\ store' = [store EXCEPT ![p].highest = Seen(p)]
    /\ work' = [work EXCEPT ![p] = Idle]
    /\ lock' = IF lock = p THEN Nobody ELSE lock
    /\ UNCHANGED <<log, root, minted, owned, faults>>

\* What the steps before the replace raise on their own account
Broken(p) ==
    LET w == work[p]
    IN  \/ /\ w.at \in {"build", "copied"}
           /\ gens[w.gen].at # "live"
        \/ w.at = "build" /\ w.mode = "copy" /\ ~Copyable(p)
        \/ w.at = "copied" /\ ~Contiguous(p)
        \/ w.at = "ready" /\ ~Matches(Mine(p))
        \/ /\ w.at = "written" /\ Mine(p) \notin temps
           /\ ~(current = Mine(p) /\ Accepts(store[p].highest, current))

\* The publication has a directory that no pointer names yet.
Unpublished(p) ==
    work[p].at \in {"build", "copied", "ready", "verified", "written"}

\* A step before the replace fails: the unpublished generation goes.
Fails(p) ==
    /\ Unpublished(p)
    /\ \/ Broken(p) /\ NoFault
       \/ ~Broken(p) /\ Fault
    /\ GivesUp(p)

-----------------------------------------------------------------------------
(* What can happen to it *)

\* A process dies, or the watchdog kills the worker.  A vault that has lost
\* its worker gets another only by being opened again.
Die(p) ==
    /\ store[p].open
    /\ Gone({p})
    /\ owned' = IF p \in {front, owned} THEN Nobody ELSE owned
    /\ Fault

\* The database of a published generation stops authenticating.
Damage ==
    /\ \E g \in GenId : /\ Ready(g) /\ current.gen = g
                        /\ gens' = [gens EXCEPT ![g].intact = FALSE]
    /\ Fault
    /\ UNCHANGED <<log, root, minted, current, temps, lock, mem>>

Publish(p) == \/ Begin(p) \/ BeginRefused(p) \/ Copy(p) \/ Build(p)
              \/ Verify(p) \/ WriteManifest(p) \/ Replace(p) \/ Finish(p)
              \/ Fails(p)

Next ==
    \/ Commit \/ Damage
    \/ QuarantineRoot \/ Create \/ CreateDies \/ Close
    \/ OpenReader \/ CloseReader
    \/ \E p \in Proc : \/ OpenCurrent(p) \/ OpenRecovers(p)
                       \/ Synchronize(p) \/ SynchronizeOther(p)
                       \/ Publish(p) \/ Exit(p) \/ Die(p)

Spec == Init /\ [][Next]_vars

\* A publication, once begun, is carried on by its thread, and a worker keeps
\* being asked to synchronize (after each commit, and by each poll).
LiveSpec == /\ Spec
            /\ \A p \in Proc : WF_vars(Publish(p))
            /\ \A p \in Worker : WF_vars(Synchronize(p))

-----------------------------------------------------------------------------
(* Properties *)

TypeOK ==
    /\ log \in Count
    /\ root \in {"absent", "bare", "whole"}
    /\ gens \in [GenId -> Generation] /\ minted \in Epoch
    /\ current \in Manifest \cup {NoManifest} /\ temps \subseteq Manifest
    /\ lock \in Proc \cup {Nobody} /\ owned \in Worker \cup {Nobody, Due}
    /\ store \in [Proc -> [open : BOOLEAN, highest : Epoch,
                           recovery : Manifest \cup {NoManifest}]]
    /\ refs \in [GenId -> 0 .. MaxReaders]
    /\ work \in [Proc -> Work]
    /\ faults \in 0 .. MaxFaults

\* The pointer always names a complete revision that is where it should be
\* and is the one the pointer describes, whatever died, failed or was cleaned
\* up in between; only damage to its database takes it away.
CurrentServable ==
    current # NoManifest /\ gens[current.gen].intact => Matches(current)

\* No other process's opening, reading or cleanup takes a revision, or its
\* manifest, from the process that is building it on a predecessor.
BuildUntouched ==
    \A p \in Proc :
       Unpublished(p) /\ ~work[p].creates =>
          /\ gens[work[p].gen].at = "live"
          /\ work[p].at = "written" => Mine(p) \in temps

\* A revision that the foreground reads is thrown away under it, by a worker
\* that does not count its readers, only when two others of its epoch or
\* later have been made ready to retain instead, of which one that a dead
\* publisher left behind, even a mere copy, counts like a published one.
HeldSurvives ==
    \A g \in GenId :
       refs[g] > 0 /\ gens[g].intact /\ gens[g].at = "gone" =>
          Cardinality({ h \in GenId \ {g} :
                          /\ gens[h].state = "ready"
                          /\ gens[h].epoch >= gens[g].epoch }) >= Retain

\* A revision is cleaned up "never while a reader holds that revision": the
\* claim of the design notes, which the cleanup of a worker, in a process of
\* its own, does not keep for the foreground's readers.
HeldStays ==
    \A g \in GenId : refs[g] > 0 /\ gens[g].intact => gens[g].at # "gone"

\* The pointer moves
Moves == current # NoManifest /\ current' \notin {current, NoManifest}

\* p's replace, of a revision that it built from nothing
StartedOver(p) == /\ work[p].at = "written" /\ work[p].mode = "fresh"
                  /\ current' = Mine(p)

\* The pointer moves only to a later epoch, and never to a revision of fewer
\* events than the one it leaves, however many workers publish.  Two things
\* take it back, both of a worker that starts over: another has published
\* since it opened the store for recovery, whose manifest it still builds on,
\* or since it read the log.
AdvancesOnly ==
    Moves =>
       /\ \/ current'.epoch > current.epoch
          \/ \E p \in Worker : StartedOver(p) /\ work[p].previous # current
       /\ \/ current'.count >= current.count
          \/ \E p \in Worker : StartedOver(p) /\ work[p].seen # current
PointerAdvances == [][AdvancesOnly]_vars

\* "The authenticated pointer carries a monotonically increasing publication
\* epoch": the claim of the design notes.
EpochGrows == [][Moves => current'.epoch > current.epoch]_vars

CaughtUp == Matches(current) /\ current.count = log

\* The pointer is the one that p's publications build on: one that its store
\* accepts, or the damaged one that it was opened on for recovery.
BuildsOn(p) == \/ store[p].recovery = NoManifest
                  /\ Accepts(store[p].highest, current)
               \/ current # NoManifest /\ store[p].recovery = current

\* A worker that stays up ends with a servable revision of every committed
\* event, whatever died or failed before, unless another worker has moved the
\* pointer behind its back: then it builds on the manifest of its recovery, or
\* refuses the pointer, for good.
CatchesUp ==
    \A p \in Worker : <>[](owned = p /\ BuildsOn(p)) => <>[]CaughtUp
=============================================================================
