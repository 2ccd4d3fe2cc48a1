------------------------ MODULE ReadPublicationProofs ------------------------
(***************************************************************************)
(* What holds of the published revisions for every value of the constants.  *)
(* StoreInv says that names of generations are used once, that nobody but   *)
(* its creator touches a root without a pointer, that a publication under   *)
(* way has the writer lock, and what is known of the generation it builds.  *)
(* LineInv says what a publication was decided on and what it builds on,    *)
(* and so which way the pointer moves and what a reader may lose.  Both are *)
(* inductive for any number of workers.                                     *)
(***************************************************************************)
EXTENDS ReadPublication, FiniteSetTheorems, TLAPS

Store == [open : BOOLEAN, highest : Epoch, recovery : Manifest \cup {NoManifest}]
Making == {"build", "copied", "ready", "verified", "written"}

\* A manifest names a generation that was begun, and epochs do not outrun names.
Known(m) == m.epoch <= m.gen /\ m.gen <= minted

Named ==
    /\ \A g \in GenId : gens[g].epoch <= g
    /\ \A g \in GenId : g > minted => gens[g] = Unborn /\ refs[g] = 0
    /\ Known(current) /\ \A m \in temps : Known(m)
    /\ \A p \in Proc : Known(store[p].recovery) /\ Known(work[p].previous)
    /\ \A p \in Proc : work[p].at \in Making => work[p].epoch <= work[p].gen

\* A root without a pointer is its creator's alone; one with a pointer keeps it.
Alone ==
    /\ \A p \in Proc : ~store[p].open => work[p].at = "idle"
    /\ \A p \in Proc : work[p].at = "idle" => ~work[p].creates
    /\ \A p \in Proc : work[p].at = "wait" => work[p].gen = 0
    /\ \A p \in Worker : ~work[p].creates
    /\ ~store[front].open => \A g \in GenId : refs[g] = 0
    /\ store[front].open => root = "whole"
    /\ work[front].at # "idle" => work[front].creates
    /\ current = NoManifest =>
          /\ \A p \in Worker : ~store[p].open
          /\ \A g \in GenId : refs[g] = 0
          /\ store[front].open => work[front].at \in {"wait"} \cup Making
    /\ current # NoManifest =>
          /\ root = "whole"
          /\ work[front].at \in {"idle", "published"}

\* Whoever has begun a publication holds the writer lock.
Locks == \A p \in Proc : work[p].at \in Making \cup {"published"} => lock = p

\* The generation that is being made is the maker's, unread and not pointed at.
BuildingOf(p) ==
    LET g == work[p].gen IN
    /\ g \in GenId /\ g <= minted /\ g # current.gen /\ refs[g] = 0
    /\ work[p].previous.gen < g
    /\ gens[g].at = "live" /\ (work[p].at # "copied" => gens[g].intact)
    /\ work[p].at = "build" => gens[g].state = "building"
    /\ work[p].at \in {"ready", "verified", "written"} =>
          /\ gens[g].state = "ready" /\ gens[g].epoch = work[p].epoch
          /\ gens[g].count = work[p].to
    /\ work[p].at = "written" => Mine(p) \in temps
Building == \A p \in Proc : work[p].at \in Making => BuildingOf(p)

StoreInv == TypeOK /\ Named /\ Alone /\ Locks /\ Building /\ CurrentServable

\* What was decided when it was asked for: the events to publish are at least
\* those of the revision seen then.
Chosen(p) == /\ work[p].mode \in {"copy", "fresh"}
             /\ work[p].seen.count <= work[p].to /\ work[p].from <= work[p].to

\* A worker builds on the pointer, or on a manifest kept for recovery, of which
\* no copy is of use; so what a copy extends is the pointer's revision.
OnPrevious(p) ==
    LET w == work[p] IN
    /\ w.epoch = w.previous.epoch + 1
    /\ \/ w.previous = current
       \/ w.previous # NoManifest /\ ~gens[w.previous.gen].intact
    /\ w.at = "copied" /\ gens[w.gen].intact =>
          /\ w.previous = current /\ gens[w.gen].count = current.count
          /\ gens[w.gen].epoch = current.epoch
    /\ w.at \in {"ready", "verified", "written"} /\ w.mode = "copy" =>
          w.previous = current /\ w.from = current.count

Recovering(p) == store[p].recovery # NoManifest => ~gens[store[p].recovery.gen].intact

Ordered ==
    /\ current.count <= log
    /\ \A m \in temps : m.count <= log
    /\ \A p \in Proc : work[p].to <= log /\ Recovering(p)
    /\ \A p \in Proc : work[p].at \in {"wait"} \cup Making => Chosen(p)
    /\ \A p \in Worker : work[p].at \in Making => OnPrevious(p)

\* What is read was ready.
Read == \A g \in GenId : refs[g] > 0 => gens[g].state = "ready"

LineInv == Ordered /\ Read /\ HeldSurvives

\* The revisions that HeldSurvives counts.
Later(g) == { h \in GenId \ {g} : gens[h].state = "ready" /\ gens[h].epoch >= gens[g].epoch }

-----------------------------------------------------------------------------
(* Values *)

\* There are generations and epochs.
LEMMA Bounds == MaxGens \in Nat /\ 1 <= MaxGens
  BY ReadBoundsAssumption DEF MaxGens

\* Processes are not the names that stand for none.
LEMMA Processes ==
    /\ front \in Proc /\ front \notin Worker /\ Worker \subseteq Proc
    /\ Nobody \notin Proc /\ Due \notin Proc
    /\ \A p \in Proc : p = front \/ p \in Worker
  BY ProcAssumption DEF Proc

\* Nothing in it, nothing done.
LEMMA Empty ==
    /\ NoManifest.gen = 0 /\ NoManifest.epoch = 0 /\ NoManifest.count = 0
    /\ Unborn \in Generation /\ Unborn.at = "none" /\ Unborn.state = "building"
    /\ Unborn.epoch = 0 /\ Unborn.intact
    /\ Closed \in Store /\ ~Closed.open /\ Closed.recovery = NoManifest
    /\ Idle \in Work /\ Idle.at = "idle" /\ Idle.gen = 0 /\ ~Idle.creates
    /\ Idle.to = 0 /\ Idle.from = 0 /\ Idle.previous = NoManifest
    /\ Idle.seen = NoManifest
<1>1. 0 \in Epoch /\ 0 \in Count
  BY Bounds, ReadBoundsAssumption DEF Epoch, Count
<1>2. Unborn \in Generation
  BY <1>1 DEF Unborn, Generation
<1>3. Closed \in Store
  BY <1>1 DEF Closed, Store
<1>4. Idle \in Work
  BY <1>1 DEF Idle, Work, Place
<1> QED
  BY <1>2, <1>3, <1>4 DEF NoManifest, Unborn, Closed, Idle

\* A manifest is the empty one or names a generation.
LEMMA Manifests ==
    ASSUME NEW m \in Manifest \cup {NoManifest}
    PROVE  /\ m.gen \in 0 .. MaxGens /\ m.epoch \in Epoch /\ m.count \in Count
           /\ m = NoManifest <=> m.gen = 0
           /\ m # NoManifest => m.gen \in GenId /\ m \in Manifest
<1>1. CASE m = NoManifest
  BY <1>1, Bounds, ReadBoundsAssumption, Empty DEF Epoch, Count
<1>2. CASE m \in Manifest
  BY <1>2, Bounds, Empty DEF Manifest, GenId
<1> QED
  BY <1>1, <1>2

\* What the invariant says of each variable.
LEMMA Facts ==
    ASSUME StoreInv
    PROVE  /\ log \in Count /\ root \in {"absent", "bare", "whole"}
           /\ gens \in [GenId -> Generation] /\ minted \in Epoch
           /\ current \in Manifest \cup {NoManifest} /\ temps \subseteq Manifest
           /\ lock \in Proc \cup {Nobody} /\ owned \in Worker \cup {Nobody, Due}
           /\ store \in [Proc -> Store] /\ refs \in [GenId -> 0 .. MaxReaders]
           /\ work \in [Proc -> Work] /\ faults \in 0 .. MaxFaults
           /\ minted \in Nat
  BY Bounds DEF StoreInv, TypeOK, Store, Epoch

\* What a publication under way is made of.
LEMMA Works ==
    ASSUME NEW w \in Work
    PROVE  /\ w.at \in Place
           /\ w.to \in Count /\ w.from \in Count /\ w.creates \in BOOLEAN
           /\ w.gen \in 0 .. MaxGens /\ w.epoch \in Epoch
           /\ w.gen # 0 => w.gen \in GenId
           /\ w.previous \in Manifest \cup {NoManifest}
           /\ w.seen \in Manifest \cup {NoManifest}
  BY Bounds DEF Work, GenId

\* A fault is counted.
LEMMA FaultCounts ==
    ASSUME StoreInv, Fault \/ NoFault
    PROVE  faults' \in 0 .. MaxFaults
  BY Facts, ReadBoundsAssumption DEF Fault, NoFault

\* The pointer and its candidates: the resolved manifest is one of them, and the
\* pointer itself when there is one.
LEMMA ResolvedIs ==
    ASSUME StoreInv, NEW h \in Epoch
    PROVE  /\ Resolved(h) \in Candidates \cup {current}
           /\ current # NoManifest => Resolved(h) = current
           /\ Resolved(h) \in Manifest \cup {NoManifest}
           /\ Known(Resolved(h))
<1>1. Candidates \subseteq temps
  BY DEF Candidates
<1>2. Resolved(h) \in Candidates \cup {current}
  <2>1. CASE current = NoManifest /\ Cardinality(Candidates) = 1
    <3> DEFINE P(m) == \/ m \in Candidates /\ m.epoch >= h
                       \/ /\ m = current
                          /\ \A c \in Candidates : c.epoch < h
    <3>1. \E m \in Candidates \cup {current} : P(m)
      <4>1. \A c \in Candidates : c.epoch \in Int /\ h \in Int
        BY <1>1, Facts, Bounds DEF Manifest, Epoch
      <4> QED
        BY <4>1
    <3> QED
      BY <2>1, <3>1 DEF Resolved
  <2>2. CASE ~(current = NoManifest /\ Cardinality(Candidates) = 1)
    BY <2>2 DEF Resolved
  <2> QED
    BY <2>1, <2>2
<1>3. current # NoManifest => Resolved(h) = current
  BY DEF Resolved
<1> HIDE DEF Resolved
<1>4. Resolved(h) \in Manifest \cup {NoManifest}
  BY <1>1, <1>2, Facts
<1>5. Known(Resolved(h))
  BY <1>1, <1>2 DEF StoreInv, Named
<1> QED
  BY <1>2, <1>3, <1>4, <1>5


-----------------------------------------------------------------------------
(* Steps by what they do to the disk *)

\* A generation is moved away.
Withers(g) == gens[g].at = "live" /\ gens'[g] = [gens[g] EXCEPT !.at = "gone"]

\* Cleanup on the manifest now: it is or becomes the pointer.
Tidies(now) ==
    /\ now \in Manifest /\ Known(now) /\ Matches(now)
    /\ current' = now /\ temps' = {}
    /\ current # NoManifest => now = current
    /\ gens' \in [GenId -> Generation]
    /\ \A g \in GenId : \/ gens'[g] = gens[g]
                        \/ g # now.gen /\ Withers(g)

\* A generation that is moved away is otherwise what it was.
LEMMA Withered ==
    ASSUME NEW r \in Generation
    PROVE  LET s == [r EXCEPT !.at = "gone"]
           IN  /\ s \in Generation /\ s.at = "gone" /\ s.state = r.state
               /\ s.epoch = r.epoch /\ s.count = r.count /\ s.intact = r.intact
  BY DEF Generation

\* _cleanup_locked tidies, or finds a pointer that it does not accept.
LEMMA CleanupTidies ==
    ASSUME StoreInv, NEW p \in Proc, NEW h \in Epoch, CleanupLocked(p, h)
    PROVE  \/ UNCHANGED <<current, gens, temps>>
           \/ \E now : /\ Tidies(now) /\ now = Resolved(h)
                       /\ \E keep \in Retained(p, now) :
                            \A g \in GenId : gens'[g] # gens[g] =>
                               g \in Unneeded(p, now) \ keep
<1> DEFINE now == Resolved(h)
<1>1. CASE Accepts(h, now)
  <2>1. now \in Manifest \cup {NoManifest} /\ Known(now) /\ (current # NoManifest => now = current)
    BY ResolvedIs
  <2>2. Matches(now) /\ now # NoManifest
    BY <1>1 DEF Accepts, Matches
  <2>3. PICK keep \in Retained(p, now) :
           gens' = [ g \in GenId |-> IF g \in Unneeded(p, now) \ keep
                                     THEN [gens[g] EXCEPT !.at = "gone"] ELSE gens[g] ]
    BY <1>1 DEF CleanupLocked
  <2>4. current' = now /\ temps' = {}
    BY <1>1 DEF CleanupLocked
  <2> HIDE DEF now
  <2>5. \A g \in Unneeded(p, now) : gens[g].at = "live" /\ g # now.gen
    BY DEF Unneeded
  <2>6. gens' \in [GenId -> Generation]
    BY <2>3, Facts, Withered
  <2>7. \A g \in GenId : \/ gens'[g] = gens[g]
                         \/ g # now.gen /\ Withers(g)
    BY <2>3, <2>5 DEF Withers
  <2>8. Tidies(now)
    BY <2>1, <2>2, <2>4, <2>6, <2>7 DEF Tidies
  <2>9. \A g \in GenId : gens'[g] # gens[g] => g \in Unneeded(p, now) \ keep
    BY <2>3
  <2> QED
    BY <2>3, <2>8, <2>9 DEF now
<1>2. CASE ~Accepts(h, now)
  BY <1>2 DEF CleanupLocked
<1> QED
  BY <1>1, <1>2

\* What a step owes that tidies: nobody is making a generation.
LEMMA TidyKeeps ==
    ASSUME StoreInv, NEW now, Tidies(now),
           UNCHANGED <<log, root, minted>>, faults' \in 0 .. MaxFaults,
           work' \in [Proc -> Work], store' \in [Proc -> Store],
           refs' \in [GenId -> 0 .. MaxReaders], lock' \in Proc \cup {Nobody},
           owned' \in Worker \cup {Nobody, Due},
           \A q \in Proc : /\ work'[q].at \notin Making
                           /\ Known(store'[q].recovery) /\ Known(work'[q].previous),
           \A g \in GenId : g > minted => refs'[g] = 0,
           Alone', Locks'
    PROVE  StoreInv'
<1>1. /\ current' = now /\ temps' = {} /\ gens' \in [GenId -> Generation]
      /\ now \in Manifest /\ Known(now) /\ Matches(now)
  BY DEF Tidies
<1>2. \A g \in GenId : /\ gens'[g].state = gens[g].state /\ gens'[g].epoch = gens[g].epoch
                       /\ gens'[g].count = gens[g].count /\ gens'[g].intact = gens[g].intact
  BY Facts, Withered DEF Tidies, Withers
<1>3. TypeOK'
  BY <1>1, Facts DEF TypeOK, Store
<1>4. Named'
  <2>1. \A g \in GenId : gens'[g].epoch <= g
    BY <1>2 DEF StoreInv, Named
  <2>2. ASSUME NEW g \in GenId, g > minted
        PROVE  gens'[g] = Unborn
    BY <2>2, Empty DEF StoreInv, Named, Tidies, Withers
  <2> QED
    BY <1>1, <2>1, <2>2 DEF Named, Known
<1>5. Building'
  BY DEF Building
<1>6. CurrentServable'
  <2>1. now.gen \in GenId /\ now # NoManifest
    BY <1>1 DEF Manifest, Matches
  <2>2. gens'[now.gen] = gens[now.gen]
    BY <2>1 DEF Tidies
  <2> QED
    BY <1>1, <2>1, <2>2 DEF CurrentServable, Matches, Ready
<1> QED
  BY <1>3, <1>4, <1>5, <1>6 DEF StoreInv

\* What a step owes that leaves generations and pointer alone.
LEMMA StillKeeps ==
    ASSUME StoreInv, UNCHANGED <<gens, minted, current, temps>>,
           root' \in {"absent", "bare", "whole"}, log' \in Count, faults' \in 0 .. MaxFaults,
           work' \in [Proc -> Work], store' \in [Proc -> Store],
           refs' \in [GenId -> 0 .. MaxReaders], lock' \in Proc \cup {Nobody},
           owned' \in Worker \cup {Nobody, Due},
           \A q \in Proc : /\ work'[q] = work[q] \/ work'[q].at \notin Making
                           /\ Known(store'[q].recovery) /\ Known(work'[q].previous),
           \A g \in GenId : g > minted => refs'[g] = 0,
           \A g \in GenId : refs'[g] > refs[g] => g = current.gen,
           Alone', Locks'
    PROVE  StoreInv'
<1>1. TypeOK'
  BY Facts DEF TypeOK, Store
<1>2. Named'
  BY DEF StoreInv, Named, Known
<1>3. Building'
  <2> SUFFICES ASSUME NEW p \in Proc, work'[p].at \in Making
               PROVE  BuildingOf(p)'
    BY DEF Building
  <2>1. work'[p] = work[p] /\ BuildingOf(p)
    BY DEF StoreInv, Building
  <2>2. work[p].gen \in GenId /\ work[p].gen # current.gen /\ refs[work[p].gen] = 0
    BY <2>1 DEF BuildingOf
  <2>3. refs'[work[p].gen] = 0
    <3>1. refs'[work[p].gen] \in 0 .. MaxReaders /\ ~(refs'[work[p].gen] > 0)
      BY <2>2
    <3> QED
      BY <3>1, ReadBoundsAssumption
  <2> QED
    BY <2>1, <2>3 DEF BuildingOf, Mine
<1>4. CurrentServable'
  BY DEF StoreInv, CurrentServable, Matches, Ready
<1> QED
  BY <1>1, <1>2, <1>3, <1>4 DEF StoreInv

\* A publication that is done, a worker that is open and a reader have a
\* pointer; a root without one is not whole only while nobody uses it.
LEMMA Pointed ==
    ASSUME StoreInv
    PROVE  /\ \A p \in Proc : work[p].at = "published" => current # NoManifest
           /\ \A p \in Worker : work[p].at # "idle" => current # NoManifest
           /\ \A g \in GenId : refs[g] > 0 => current # NoManifest
           /\ root # "whole" => current = NoManifest
<1>1. \A p \in Proc : ~store[p].open => work[p].at = "idle"
  BY DEF StoreInv, Alone
<1>2. current = NoManifest =>
          /\ \A p \in Worker : ~store[p].open
          /\ \A g \in GenId : refs[g] = 0
          /\ store[front].open => work[front].at \in {"wait"} \cup Making
  BY DEF StoreInv, Alone
<1>3. root # "whole" => current = NoManifest
  BY DEF StoreInv, Alone
<1> QED
  BY <1>1, <1>2, <1>3, Processes DEF Making

\* Whoever makes a generation is the only one to have begun a publication.
LEMMA OneMaker ==
    ASSUME StoreInv
    PROVE  /\ \A p, q \in Proc :
                 work[p].at \in Making /\ work[q].at \in Making \cup {"published"} => p = q
           /\ lock = Nobody => \A p \in Proc : work[p].at \notin Making \cup {"published"}
  BY Processes DEF StoreInv, Locks

\* The log takes another event.
LEMMA CommitKeeps == StoreInv /\ Commit => StoreInv'
<1> SUFFICES ASSUME StoreInv, Commit PROVE StoreInv'
  OBVIOUS
<1>1. log' \in Count
  BY Facts, ReadBoundsAssumption DEF Commit, Count
<1>2. Alone' /\ Locks'
  BY DEF Commit, disk, mem, StoreInv, Alone, Locks
<1>3. \A q \in Proc : Known(store[q].recovery) /\ Known(work[q].previous)
  BY DEF StoreInv, Named
<1>4. \A g \in GenId : refs[g] \in Int
  BY Facts, ReadBoundsAssumption
<1>5. \A g \in GenId : g > minted => refs[g] = 0
  BY DEF StoreInv, Named
<1>6. UNCHANGED <<disk, lock, mem, faults>>
  BY DEF Commit
<1> QED
  BY <1>1, <1>2, <1>3, <1>4, <1>5, <1>6, Facts, StillKeeps DEF disk, mem

\* A process is gone: what it left on the disk stays.
LEMMA GoneKeeps ==
    ASSUME StoreInv, NEW P \in SUBSET Proc, Gone(P),
           owned' \in Worker \cup {Nobody, Due}, faults' \in 0 .. MaxFaults
    PROVE  StoreInv'
<1>1. \A q \in Proc : /\ store'[q] = IF q \in P THEN Closed ELSE store[q]
                      /\ work'[q] = IF q \in P THEN Idle ELSE work[q]
  BY DEF Gone
<1>2. work' \in [Proc -> Work] /\ store' \in [Proc -> Store]
  BY Facts, Empty DEF Gone
<1>3. /\ refs' \in [GenId -> 0 .. MaxReaders]
      /\ \A g \in GenId : refs'[g] = 0 \/ refs'[g] = refs[g]
      /\ \A g \in GenId : refs[g] \in Nat
      /\ front \in P => \A g \in GenId : refs'[g] = 0
  BY Facts, ReadBoundsAssumption DEF Gone
<1>4. lock' \in Proc \cup {Nobody}
  BY Facts DEF Gone
<1>5. UNCHANGED <<log, root, gens, minted, current, temps>>
  BY DEF Gone, disk
<1>6. \A q \in Proc : /\ work'[q] = work[q] \/ work'[q].at \notin Making
                      /\ Known(store'[q].recovery) /\ Known(work'[q].previous)
  <2>1. Known(NoManifest)
    BY Facts, Empty DEF Known
  <2> QED
    BY <1>1, <2>1, Empty DEF StoreInv, Named, Making
<1>7. Locks'
  BY <1>1, Empty, Processes DEF StoreInv, Locks, Gone, Making
<1>8. Alone'
  <2>1. /\ \A q \in Proc : q \in P => ~store'[q].open /\ work'[q].at = "idle" /\ ~work'[q].creates
        /\ \A q \in Proc : q \notin P => store'[q] = store[q] /\ work'[q] = work[q]
    BY <1>1, Empty
  <2>2. front \notin P => refs' = refs
    BY DEF Gone
  <2> HIDE DEF Gone
  <2> QED
    BY <1>3, <1>5, <2>1, <2>2, Processes DEF StoreInv, Alone
<1>9. \A g \in GenId : /\ g > minted => refs'[g] = 0
                       /\ ~(refs'[g] > refs[g])
  BY <1>3 DEF StoreInv, Named
<1> QED
  BY <1>2, <1>3, <1>4, <1>5, <1>6, <1>7, <1>8, <1>9, Facts, StillKeeps

\* Close, Exit and Die take processes away.
LEMMA DeathKeeps ==
    StoreInv /\ (Close \/ \E p \in Proc : Exit(p) \/ Die(p)) => StoreInv'
<1> SUFFICES ASSUME StoreInv, Close \/ \E p \in Proc : Exit(p) \/ Die(p) PROVE StoreInv'
  OBVIOUS
<1>1. CASE Close
  BY <1>1, FaultCounts, GoneKeeps DEF Close
<1>2. ASSUME NEW p \in Proc, Exit(p) PROVE StoreInv'
  BY <1>2, FaultCounts, GoneKeeps, Facts DEF Exit
<1>3. ASSUME NEW p \in Proc, Die(p) PROVE StoreInv'
  BY <1>3, FaultCounts, GoneKeeps, Facts DEF Die
<1> QED
  BY <1>1, <1>2, <1>3

\* What a step owes that takes the root away, from nobody or its creator.
LEMMA NoRootKeeps ==
    ASSUME StoreInv, NoRoot, current = NoManifest,
           UNCHANGED <<log, minted, refs>>, faults' \in 0 .. MaxFaults,
           work' \in [Proc -> Work], store' \in [Proc -> Store],
           lock' \in Proc \cup {Nobody}, owned' \in Worker \cup {Nobody, Due},
           \A q \in Proc : /\ ~store'[q].open /\ work'[q].at = "idle" /\ ~work'[q].creates
                           /\ Known(store'[q].recovery) /\ Known(work'[q].previous)
    PROVE  StoreInv'
<1>1. current' = NoManifest /\ temps' = {} /\ root' = "absent"
  BY DEF NoRoot
<1>2. gens' \in [GenId -> Generation]
  BY Facts, Withered DEF NoRoot
<1>3. \A g \in GenId : /\ gens'[g].epoch = gens[g].epoch
                       /\ gens[g].at = "none" => gens'[g] = gens[g]
  BY Facts, Withered DEF NoRoot
<1>4. TypeOK'
  BY <1>1, <1>2, Facts DEF TypeOK, Store
<1>5. Named'
  <2>1. \A g \in GenId : gens'[g].epoch <= g
    BY <1>3 DEF StoreInv, Named
  <2>2. \A g \in GenId : g > minted => gens'[g] = Unborn /\ refs'[g] = 0
    BY <1>3, Empty DEF StoreInv, Named
  <2>3. Known(current)
    BY DEF StoreInv, Named
  <2> QED
    BY <1>1, <2>1, <2>2, <2>3 DEF Named, Known, Making
<1>6. Alone'
  <2>1. \A g \in GenId : refs[g] = 0
    BY DEF StoreInv, Alone
  <2> QED
    BY <1>1, <2>1, Processes DEF Alone
<1>7. Locks' /\ Building'
  BY DEF Locks, Building, Making
<1>8. CurrentServable'
  BY <1>1 DEF CurrentServable
<1> QED
  BY <1>4, <1>5, <1>6, <1>7, <1>8 DEF StoreInv

\* A root that cannot be opened is nobody's.
LEMMA QuarantineKeeps == StoreInv /\ QuarantineRoot => StoreInv'
<1> SUFFICES ASSUME StoreInv, QuarantineRoot PROVE StoreInv'
  OBVIOUS
<1>1. current = NoManifest
  BY Pointed DEF QuarantineRoot, Unopenable
<1>2. \A q \in Proc : ~store[q].open
  BY <1>1, Processes DEF QuarantineRoot, StoreInv, Alone
<1>3. \A q \in Proc : work[q].at = "idle" /\ ~work[q].creates
  BY <1>2 DEF StoreInv, Alone
<1>4. \A q \in Proc : Known(store[q].recovery) /\ Known(work[q].previous)
  BY DEF StoreInv, Named
<1>5. NoRoot /\ lock' = Nobody /\ UNCHANGED <<log, minted, owned, store, refs, work, faults>>
  BY DEF QuarantineRoot, mem
<1> QED
  BY <1>1, <1>2, <1>3, <1>4, <1>5, Facts, NoRootKeeps

\* A root is made by a foreground that has none, and no worker has one then.
LEMMA CreateKeeps == StoreInv /\ (Create \/ CreateDies) => StoreInv'
<1> SUFFICES ASSUME StoreInv, Create \/ CreateDies PROVE StoreInv'
  OBVIOUS
<1>1. current = NoManifest /\ ~store[front].open
  BY Pointed DEF Create, CreateDies
<1>2. UNCHANGED <<log, gens, minted, current, temps, lock, refs>>
  BY DEF Create, CreateDies, mem
<1>3. \A q \in Proc : Known(store[q].recovery) /\ Known(work[q].previous)
  BY DEF StoreInv, Named
<1>4. \A g \in GenId : /\ g > minted => refs'[g] = 0
                       /\ ~(refs'[g] > refs[g])
  BY <1>2, Facts, ReadBoundsAssumption DEF StoreInv, Named
<1>5. /\ \A p \in Worker : ~store[p].open /\ work[p].at = "idle" /\ ~work[p].creates
      /\ \A g \in GenId : refs[g] = 0
      /\ work[front].at = "idle" /\ ~work[front].creates
  BY <1>1, Processes DEF StoreInv, Alone
<1>6. CASE Create
  <2> DEFINE s == [Closed EXCEPT !.open = TRUE]
             w == [Idle EXCEPT !.at = "wait", !.mode = "fresh", !.creates = TRUE]
  <2>1. s \in Store /\ s.open /\ s.recovery = NoManifest
    BY Empty DEF Closed, Store
  <2>2. /\ w \in Work /\ w.at = "wait" /\ w.creates /\ w.gen = 0
        /\ w.previous = NoManifest
    BY Empty DEF Idle, Work, Place
  <2>3. store' = [store EXCEPT ![front] = s] /\ work' = [work EXCEPT ![front] = w]
    BY <1>6 DEF Create
  <2> HIDE DEF s, w
  <2>4. store' \in [Proc -> Store] /\ work' \in [Proc -> Work]
    BY <2>1, <2>2, <2>3, Facts
  <2>5. /\ store'[front] = s /\ work'[front] = w
        /\ \A p \in Worker : store'[p] = store[p] /\ work'[p] = work[p]
    BY <2>3, Facts, Processes
  <2>6. Known(NoManifest)
    BY <1>1 DEF StoreInv, Named
  <2>7. \A q \in Proc : /\ work'[q] = work[q] \/ work'[q].at \notin Making
                        /\ Known(store'[q].recovery) /\ Known(work'[q].previous)
    BY <1>3, <2>1, <2>2, <2>5, <2>6, Processes DEF Making
  <2>8. root' = "whole" /\ owned' = Due /\ UNCHANGED faults
    BY <1>6 DEF Create
  <2>9. Alone'
    BY <1>1, <1>2, <1>5, <2>1, <2>2, <2>5, <2>8, Processes DEF Alone
  <2>10. Locks'
    BY <1>5, <2>2, <2>5, Processes DEF Locks, Making
  <2> QED
    BY <1>2, <1>4, <2>4, <2>7, <2>8, <2>9, <2>10, Facts, StillKeeps
<1>7. CASE CreateDies
  <2>1. root' = "bare" /\ UNCHANGED mem /\ faults' \in 0 .. MaxFaults
    BY <1>7, FaultCounts DEF CreateDies
  <2>2. Alone' /\ Locks'
    BY <1>1, <1>2, <1>5, <2>1, Processes DEF Alone, Locks, mem, Making
  <2> QED
    BY <1>2, <1>3, <1>4, <2>1, <2>2, Facts, StillKeeps DEF mem
<1> QED
  BY <1>6, <1>7

\* Damage touches the contents of the revision pointed at.
LEMMA DamageKeeps == StoreInv /\ Damage => StoreInv'
<1> SUFFICES ASSUME StoreInv, Damage PROVE StoreInv'
  OBVIOUS
<1>1. PICK g \in GenId : /\ Ready(g) /\ current.gen = g
                         /\ gens' = [gens EXCEPT ![g].intact = FALSE]
  BY DEF Damage
<1> DEFINE r == [gens[g] EXCEPT !.intact = FALSE]
<1>2. /\ r \in Generation /\ ~r.intact /\ r.epoch = gens[g].epoch
      /\ r.at = "live"
  BY <1>1, Facts DEF Generation, Ready
<1>3. gens' = [gens EXCEPT ![g] = r]
  BY <1>1
<1> HIDE DEF r
<1>4. gens' \in [GenId -> Generation] /\ gens'[g] = r /\ \A h \in GenId : h # g => gens'[h] = gens[h]
  BY <1>2, <1>3, Facts
<1>5. UNCHANGED <<log, root, minted, current, temps, lock, owned, store, refs, work>>
  BY DEF Damage, mem
<1>6. faults' \in 0 .. MaxFaults
  BY FaultCounts DEF Damage
<1>7. TypeOK'
  BY <1>4, <1>5, <1>6, Facts DEF TypeOK, Store
<1>8. Named'
  <2>1. ~(g > minted)
    BY <1>1, Empty DEF StoreInv, Named, Ready
  <2> QED
    BY <1>2, <1>4, <1>5, <2>1 DEF StoreInv, Named, Known
<1>9. Alone' /\ Locks'
  BY <1>5 DEF StoreInv, Alone, Locks
<1>10. Building'
  <2> SUFFICES ASSUME NEW p \in Proc, work[p].at \in Making
               PROVE  BuildingOf(p)'
    BY <1>5 DEF Building
  <2>1. BuildingOf(p)
    BY DEF StoreInv, Building
  <2> QED
    BY <1>1, <1>4, <1>5, <2>1 DEF BuildingOf, Mine
<1>11. CurrentServable'
  BY <1>1, <1>2, <1>4, <1>5 DEF CurrentServable
<1> QED
  BY <1>7, <1>8, <1>9, <1>10, <1>11 DEF StoreInv

-----------------------------------------------------------------------------
(* Opening and reading *)

\* What a store object is made of.
LEMMA Stores ==
    ASSUME NEW s \in Store
    PROVE  /\ s.open \in BOOLEAN /\ s.highest \in Epoch
           /\ s.recovery \in Manifest \cup {NoManifest}
  BY DEF Store

\* The highest epoch seen is an epoch.
LEMMA SeenIs ==
    ASSUME StoreInv, NEW p \in Proc
    PROVE  Seen(p) \in Epoch
<1>1. store[p].highest \in Epoch /\ current.epoch \in Epoch
  BY Facts, Stores, Manifests
<1> QED
  BY <1>1 DEF Seen, Larger

\* A store that has seen a later epoch is otherwise what it was.
LEMMA Sees ==
    ASSUME StoreInv, NEW p \in Proc, NEW x \in Epoch,
           store' = [store EXCEPT ![p].highest = x]
    PROVE  /\ store' \in [Proc -> Store]
           /\ \A q \in Proc : /\ store'[q].open = store[q].open
                              /\ store'[q].recovery = store[q].recovery
<1> DEFINE s == [store[p] EXCEPT !.highest = x]
<1>1. s \in Store /\ s.open = store[p].open /\ s.recovery = store[p].recovery
  BY Facts DEF Store
<1>2. store' = [store EXCEPT ![p] = s]
  OBVIOUS
<1> HIDE DEF s
<1> QED
  BY <1>1, <1>2, Facts

\* A reader is of the revision pointed at.
LEMMA OpenReaderKeeps == StoreInv /\ OpenReader => StoreInv'
<1> SUFFICES ASSUME StoreInv, OpenReader PROVE StoreInv'
  OBVIOUS
<1>1. current # NoManifest /\ current.gen \in GenId
  BY Facts, Manifests DEF OpenReader, Accepts, Matches
<1>2. /\ store' \in [Proc -> Store]
      /\ \A q \in Proc : /\ store'[q].open = store[q].open
                         /\ store'[q].recovery = store[q].recovery
  BY Sees, SeenIs, Processes DEF OpenReader
<1>3. /\ refs' \in [GenId -> 0 .. MaxReaders]
      /\ \A g \in GenId : g # current.gen => refs'[g] = refs[g]
      /\ \A g \in GenId : refs[g] \in Int
  BY <1>1, Facts, ReadBoundsAssumption DEF OpenReader
<1>4. UNCHANGED <<log, root, gens, minted, current, temps, lock, owned, work, faults>>
  BY DEF OpenReader, disk
<1>5. \A q \in Proc : Known(store'[q].recovery) /\ Known(work[q].previous)
  BY <1>2 DEF StoreInv, Named
<1>6. \A g \in GenId : g > minted => refs'[g] = 0
  <2>1. ~(current.gen > minted)
    BY Facts, <1>1 DEF StoreInv, Named, Known, GenId
  <2> QED
    BY <1>3, <2>1 DEF StoreInv, Named
<1>7. \A g \in GenId : refs'[g] > refs[g] => g = current.gen
  BY <1>3
<1>8. Locks'
  BY <1>4 DEF StoreInv, Locks
<1>9. Alone'
  <2>1. store[front].open
    BY DEF OpenReader
  <2> QED
    BY <1>1, <1>2, <1>4, <2>1, Processes DEF StoreInv, Alone
<1> QED
  BY <1>2, <1>3, <1>4, <1>5, <1>6, <1>7, <1>8, <1>9, Facts, StillKeeps

\* A cleanup that found the writer lock free, or was deferred.
LEMMA CleanupEnds ==
    ASSUME StoreInv, NEW p \in Proc, NEW h \in Epoch, Cleanup(p, h)
    PROVE  \/ UNCHANGED <<current, gens, temps>>
           \/ /\ \A q \in Proc : work[q].at \notin Making \cup {"published"}
              /\ \E now : Tidies(now)
<1>1. CASE lock = Nobody
  BY <1>1, CleanupTidies, OneMaker DEF Cleanup
<1>2. CASE lock # Nobody
  BY <1>2 DEF Cleanup
<1> QED
  BY <1>1, <1>2

\* The last reader to close cleans up.
LEMMA CloseReaderKeeps == StoreInv /\ CloseReader => StoreInv'
<1> SUFFICES ASSUME StoreInv, CloseReader PROVE StoreInv'
  OBVIOUS
<1>1. PICK g \in GenId :
       /\ refs[g] > 0
       /\ refs' = [refs EXCEPT ![g] = @ - 1]
       /\ Cleanup(front, store[front].highest)
       /\ store' = [store EXCEPT ![front].highest =
                       IF lock = Nobody THEN Seen(front) ELSE @]
       /\ UNCHANGED <<log, root, minted, lock, owned, work, faults>>
  BY DEF CloseReader
<1>2. store[front].highest \in Epoch
  BY Facts, Stores, Processes
<1>3. /\ store' \in [Proc -> Store]
      /\ \A q \in Proc : /\ store'[q].open = store[q].open
                         /\ store'[q].recovery = store[q].recovery
  <2> DEFINE x == IF lock = Nobody THEN Seen(front) ELSE store[front].highest
  <2>1. x \in Epoch
    BY <1>2, SeenIs, Processes
  <2>2. store' = [store EXCEPT ![front].highest = x]
    BY <1>1, Processes, Facts
  <2> HIDE DEF x
  <2> QED
    BY <2>1, <2>2, Sees, Processes
<1>4. /\ refs' \in [GenId -> 0 .. MaxReaders]
      /\ \A k \in GenId : refs[k] \in Nat /\ refs'[k] \in Nat /\ refs'[k] <= refs[k]
  BY <1>1, Facts, ReadBoundsAssumption
<1>5. current # NoManifest /\ store[front].open
  BY <1>1, Pointed DEF StoreInv, Alone
<1>6. \A q \in Proc : Known(store'[q].recovery) /\ Known(work[q].previous)
  BY <1>3 DEF StoreInv, Named
<1>7. \A k \in GenId : /\ k > minted => refs'[k] = 0
                       /\ ~(refs'[k] > refs[k])
  BY <1>4 DEF StoreInv, Named
<1>8. Locks'
  BY <1>1 DEF StoreInv, Locks
<1>9. ASSUME current' # NoManifest PROVE Alone'
  BY <1>1, <1>3, <1>5, <1>9, Processes DEF StoreInv, Alone
<1>10. CASE UNCHANGED <<current, gens, temps>>
  BY <1>1, <1>3, <1>4, <1>5, <1>6, <1>7, <1>8, <1>9, <1>10, Facts, StillKeeps
<1>11. ASSUME NEW now, Tidies(now), \A q \in Proc : work[q].at \notin Making \cup {"published"}
       PROVE  StoreInv'
  <2>1. current' # NoManifest
    BY <1>5, <1>11 DEF Tidies
  <2>2. Alone'
    BY <1>9, <2>1
  <2> QED
    BY <1>1, <1>3, <1>4, <1>6, <1>7, <1>8, <1>11, <2>2, Facts, TidyKeeps
<1> QED
  BY <1>1, <1>2, <1>10, <1>11, CleanupEnds, Processes

\* A store is opened on a manifest.
LEMMA OpensStore ==
    ASSUME StoreInv, NEW p \in Proc, NEW m \in Manifest, NEW b \in BOOLEAN,
           Opened(p, m, b), Known(m), StartsWorker(p)
    PROVE  /\ store' \in [Proc -> Store] /\ owned' \in Worker \cup {Nobody, Due}
           /\ store'[p].open /\ \A q \in Proc : q # p => store'[q] = store[q]
           /\ \A q \in Proc : Known(store'[q].recovery) /\ Known(work[q].previous)
<1> DEFINE s == [open |-> TRUE, highest |-> m.epoch,
                 recovery |-> IF b THEN m ELSE NoManifest]
<1>1. m.epoch \in Epoch
  BY Manifests
<1>2. s \in Store /\ s.open /\ s.recovery \in {m, NoManifest}
  BY <1>1 DEF Store
<1>3. store' = [store EXCEPT ![p] = s]
  BY DEF Opened
<1> HIDE DEF s
<1>4. /\ store' \in [Proc -> Store] /\ store'[p] = s
      /\ \A q \in Proc : q # p => store'[q] = store[q]
  BY <1>2, <1>3, Facts
<1>5. owned' \in Worker \cup {Nobody, Due}
  BY Processes DEF StartsWorker
<1>6. Known(NoManifest)
  BY Empty, Facts DEF Known
<1>7. \A q \in Proc : Known(store[q].recovery) /\ Known(work[q].previous)
  BY DEF StoreInv, Named
<1> QED
  BY <1>2, <1>4, <1>5, <1>6, <1>7

\* Whoever opens the store had it closed, and leaves it with a pointer.
LEMMA OpenAlone ==
    ASSUME StoreInv, NEW p \in Proc, MayOpen(p), root = "whole",
           store'[p].open, \A q \in Proc : q # p => store'[q] = store[q],
           current' # NoManifest, UNCHANGED <<root, lock, refs, work>>
    PROVE  /\ Alone' /\ Locks' /\ work[p].at = "idle"
           /\ current = NoManifest => \A q \in Proc : work[q].at \notin Making
<1>1. ~store[p].open /\ work[p].at = "idle"
  BY DEF MayOpen, StoreInv, Alone
<1>2. p # front => work[front].at = "idle"
  BY DEF MayOpen
<1>3. work[front].at \in {"idle", "published"}
  BY <1>1, <1>2 DEF StoreInv, Alone
<1>4. Alone'
  BY <1>1, <1>3, Processes DEF StoreInv, Alone
<1>5. Locks'
  BY DEF StoreInv, Locks
<1>6. current = NoManifest => \A q \in Proc : work[q].at \notin Making
  BY <1>3, Pointed, Processes DEF Making
<1> QED
  BY <1>1, <1>4, <1>5, <1>6

\* An opening recovers the pointer and cleans up where the lock is free.
LEMMA OpenCurrentKeeps ==
    ASSUME StoreInv, NEW p \in Proc, OpenCurrent(p) PROVE StoreInv'
<1> DEFINE m == Resolved(0)
<1>1. /\ MayOpen(p) /\ root = "whole" /\ Matches(m) /\ Opened(p, m, FALSE)
      /\ StartsWorker(p) /\ UNCHANGED <<log, root, minted, lock, work, faults, refs>>
      /\ IF lock = Nobody THEN CleanupLocked(p, 0)
         ELSE current' = m /\ temps' = temps \ {m} /\ UNCHANGED gens
  BY DEF OpenCurrent
<1>2. 0 \in Epoch
  BY Bounds DEF Epoch
<1>3. /\ m \in Manifest /\ m # NoManifest /\ Known(m) /\ m.gen \in GenId
      /\ current # NoManifest => m = current
  BY <1>1, <1>2, ResolvedIs, Manifests DEF Matches
<1>4. current' = m
  <2>1. m.epoch >= 0
    BY <1>3, Manifests, Bounds DEF Epoch
  <2>2. CASE lock = Nobody
    BY <1>1, <2>1, <2>2 DEF CleanupLocked, Accepts
  <2> QED
    BY <1>1, <2>2
<1>5. CASE lock = Nobody
  <2>1. CleanupLocked(p, 0)
    BY <1>1, <1>5
  <2> HIDE DEF m
  <2>2. /\ store' \in [Proc -> Store] /\ owned' \in Worker \cup {Nobody, Due}
        /\ store'[p].open /\ \A q \in Proc : q # p => store'[q] = store[q]
        /\ \A q \in Proc : Known(store'[q].recovery) /\ Known(work[q].previous)
    BY <1>1, <1>3, OpensStore
  <2>3. Alone' /\ Locks'
    BY <1>1, <1>3, <1>4, <2>2, OpenAlone
  <2>4. \A q \in Proc : work[q].at \notin Making
    BY <1>5, OneMaker
  <2>5. \A g \in GenId : /\ g > minted => refs[g] = 0
                         /\ ~(refs[g] > refs[g])
    BY Facts, ReadBoundsAssumption DEF StoreInv, Named
  <2>6. CASE UNCHANGED <<current, gens, temps>>
    BY <1>1, <2>2, <2>3, <2>5, <2>6, Facts, StillKeeps
  <2>7. ASSUME NEW now, Tidies(now) PROVE StoreInv'
    BY <1>1, <2>2, <2>3, <2>4, <2>5, <2>7, Facts, TidyKeeps
  <2> QED
    BY <1>2, <2>1, <2>6, <2>7, CleanupTidies
<1>6. CASE lock # Nobody
  <2>1. temps' = temps \ {m} /\ UNCHANGED gens
    BY <1>1, <1>6
  <2> HIDE DEF m
  <2>2. /\ store' \in [Proc -> Store] /\ owned' \in Worker \cup {Nobody, Due}
        /\ store'[p].open /\ \A q \in Proc : q # p => store'[q] = store[q]
        /\ \A q \in Proc : Known(store'[q].recovery) /\ Known(work[q].previous)
    BY <1>1, <1>3, OpensStore
  <2>3. /\ Alone' /\ Locks'
        /\ current = NoManifest => \A q \in Proc : work[q].at \notin Making
    BY <1>1, <1>3, <1>4, <2>2, OpenAlone
  <2>4. TypeOK'
    BY <1>1, <1>3, <1>4, <2>1, <2>2, Facts DEF TypeOK, Store
  <2>5. Named'
    BY <1>1, <1>3, <1>4, <2>1, <2>2 DEF StoreInv, Named, Known
  <2>6. Building'
    <3> SUFFICES ASSUME NEW q \in Proc, work[q].at \in Making
                 PROVE  BuildingOf(q)'
      BY <1>1 DEF Building
    <3>1. BuildingOf(q) /\ m = current
      BY <1>3, <2>3 DEF StoreInv, Building
    <3>2. Mine(q) # m
      BY <3>1 DEF BuildingOf, Mine
    <3> QED
      BY <1>1, <1>4, <2>1, <3>1, <3>2 DEF BuildingOf, Mine
  <2>7. CurrentServable'
    BY <1>1, <1>4, <2>1 DEF CurrentServable, Matches, Ready
  <2> QED
    BY <2>3, <2>4, <2>5, <2>6, <2>7 DEF StoreInv
<1> QED
  BY <1>5, <1>6

\* An opening for recovery leaves the disk as it is.
LEMMA OpenRecoversKeeps ==
    ASSUME StoreInv, NEW p \in Proc, OpenRecovers(p) PROVE StoreInv'
<1>1. /\ MayOpen(p) /\ root = "whole" /\ Opened(p, current, TRUE)
      /\ StartsWorker(p) /\ current # NoManifest
      /\ UNCHANGED <<log, root, gens, minted, current, temps, lock, work, faults, refs>>
  BY DEF OpenRecovers, disk
<1>2. current \in Manifest /\ Known(current)
  BY <1>1, Facts DEF StoreInv, Named
<1>3. /\ store' \in [Proc -> Store] /\ owned' \in Worker \cup {Nobody, Due}
      /\ store'[p].open /\ \A q \in Proc : q # p => store'[q] = store[q]
      /\ \A q \in Proc : Known(store'[q].recovery) /\ Known(work[q].previous)
  BY <1>1, <1>2, OpensStore
<1>4. Alone' /\ Locks'
  BY <1>1, <1>3, OpenAlone
<1>5. \A g \in GenId : /\ g > minted => refs[g] = 0
                       /\ ~(refs[g] > refs[g])
  BY Facts, ReadBoundsAssumption DEF StoreInv, Named
<1> QED
  BY <1>1, <1>3, <1>4, <1>5, Facts, StillKeeps

\* What synchronize may leave to be done.
LEMMA NextWork ==
    ASSUME StoreInv
    PROVE  /\ {Idle, StartsOver, Extends} \subseteq Work
           /\ \A w \in {Idle, StartsOver, Extends} :
                 w.gen = 0 /\ ~w.creates /\ w.previous = NoManifest
           /\ \A w \in {StartsOver, Extends} :
                 /\ w.at = "wait" /\ w.to = log /\ w.seen = current
                 /\ w.mode \in {"copy", "fresh"} /\ w.from \in {0, current.count}
<1>1. /\ current.count \in Count /\ log \in Count /\ current \in Manifest \cup {NoManifest}
      /\ 0 \in Count
  BY Facts, Manifests, ReadBoundsAssumption DEF Count
<1>2. StartsOver \in Work /\ Extends \in Work
  BY <1>1, Empty DEF StartsOver, Extends, Idle, Work, Place
<1> QED
  BY <1>1, <1>2, Empty DEF StartsOver, Extends, Idle

\* A worker looks whether there is something to publish.
LEMMA Synchronized ==
    ASSUME StoreInv, NEW p \in Proc, Synchronize(p) \/ SynchronizeOther(p)
    PROVE  /\ \E w \in {Idle, StartsOver, Extends} : Synchronizes(p, w)
           /\ faults' \in 0 .. MaxFaults
<1>1. CASE Synchronize(p)
  BY <1>1, FaultCounts DEF Synchronize
<1>2. CASE SynchronizeOther(p)
  BY <1>2, FaultCounts DEF SynchronizeOther
<1> QED
  BY <1>1, <1>2

\* Asking for a publication touches no generation but by cleanup.
LEMMA SynchronizeKeeps ==
    ASSUME StoreInv, NEW p \in Proc, Synchronize(p) \/ SynchronizeOther(p)
    PROVE  StoreInv'
<1>0. PICK w \in {Idle, StartsOver, Extends} : Synchronizes(p, w)
  BY Synchronized
<1>1. /\ store[p].open /\ work[p].at = "idle" /\ owned = p
      /\ store' = [store EXCEPT ![p].highest = Seen(p)]
      /\ UNCHANGED <<log, root, minted, lock, owned, refs>>
      /\ faults' \in 0 .. MaxFaults
      /\ \/ Cleanup(p, store[p].highest)
         \/ UNCHANGED <<current, gens, temps>>
  BY <1>0, Synchronized DEF Synchronizes
<1>2. p \in Worker /\ current # NoManifest
  BY <1>1, Facts, Processes DEF StoreInv, Alone
<1>3. /\ store' \in [Proc -> Store]
      /\ \A q \in Proc : /\ store'[q].open = store[q].open
                         /\ store'[q].recovery = store[q].recovery
  BY <1>1, Sees, SeenIs
<1>4. /\ work' = [work EXCEPT ![p] = w] /\ w \in Work
      /\ w.at \in {"idle", "wait"} /\ w.gen = 0 /\ ~w.creates
      /\ w.previous = NoManifest
  BY <1>0, NextWork, Empty DEF Synchronizes
<1>5. /\ work' \in [Proc -> Work] /\ work'[p] = w
      /\ \A q \in Proc : q # p => work'[q] = work[q]
  BY <1>4, Facts
<1>6. Known(NoManifest)
  BY Empty, Facts DEF Known
<1>7. \A q \in Proc : /\ work'[q] = work[q] \/ work'[q].at \notin Making
                      /\ Known(store'[q].recovery) /\ Known(work'[q].previous)
  BY <1>3, <1>4, <1>5, <1>6 DEF StoreInv, Named, Making
<1>8. \A g \in GenId : /\ g > minted => refs[g] = 0
                       /\ ~(refs[g] > refs[g])
  BY Facts, ReadBoundsAssumption DEF StoreInv, Named
<1>9. Locks'
  BY <1>1, <1>4, <1>5 DEF StoreInv, Locks, Making
<1>10. ASSUME current' # NoManifest PROVE Alone'
  BY <1>1, <1>2, <1>3, <1>4, <1>5, <1>10, Processes DEF StoreInv, Alone
<1>11. CASE UNCHANGED <<current, gens, temps>>
  BY <1>1, <1>2, <1>3, <1>5, <1>7, <1>8, <1>9, <1>10, <1>11, Facts, StillKeeps
<1>12. ASSUME NEW now, Tidies(now), \A q \in Proc : work[q].at \notin Making \cup {"published"}
       PROVE  StoreInv'
  <2>1. current' # NoManifest
    BY <1>2, <1>12 DEF Tidies
  <2>2. Alone'
    BY <1>10, <2>1
  <2>3. \A q \in Proc : work'[q].at \notin Making
    BY <1>4, <1>5, <1>12 DEF Making
  <2> QED
    BY <1>1, <1>3, <1>5, <1>7, <1>8, <1>9, <1>12, <2>2, <2>3, Facts, TidyKeeps
<1>13. store[p].highest \in Epoch
  BY Facts, Stores
<1> QED
  BY <1>1, <1>11, <1>12, <1>13, CleanupEnds

-----------------------------------------------------------------------------
(* Publishing *)

\* A new value for one process's publication.
LEMMA Sets ==
    ASSUME StoreInv, NEW p \in Proc, NEW w \in Work, work' = [work EXCEPT ![p] = w]
    PROVE  /\ work' \in [Proc -> Work] /\ work'[p] = w
           /\ \A q \in Proc : q # p => work'[q] = work[q]
  BY Facts

\* Whoever makes a generation has a root to make it in, and its own name for it.
LEMMA Makers ==
    ASSUME StoreInv, NEW p \in Proc, work[p].at \in Making
    PROVE  /\ BuildingOf(p) /\ lock = p /\ root = "whole" /\ store[p].open
           /\ work[p] \in Work /\ work[p].gen \in GenId /\ work[p].gen <= minted
           /\ work[p].epoch <= work[p].gen
           /\ Mine(p) \in Manifest /\ Known(Mine(p)) /\ Mine(p) # NoManifest
           /\ \A q \in Proc : q # p => work[q].at \notin Making \cup {"published"}
<1>1. BuildingOf(p) /\ lock = p
  BY DEF StoreInv, Building, Locks
<1>2. work[p] \in Work /\ work[p].gen \in GenId /\ work[p].gen <= minted
  BY <1>1, Facts DEF BuildingOf
<1>3. store[p].open /\ work[p].epoch <= work[p].gen
  BY DEF StoreInv, Alone, Named, Making
<1>4. root = "whole"
  <2>1. CASE p = front
    BY <1>3, <2>1 DEF StoreInv, Alone
  <2>2. CASE p \in Worker
    BY <2>2, Pointed DEF Making
  <2> QED
    BY <2>1, <2>2, Processes
<1>5. Mine(p) \in Manifest /\ Mine(p).gen = work[p].gen /\ Mine(p).epoch = work[p].epoch
  BY <1>2, Works DEF Mine, Manifest
<1>6. Mine(p) # NoManifest
  BY <1>2, <1>5, Bounds, Empty DEF GenId
<1>7. \A q \in Proc : q # p => work[q].at \notin Making \cup {"published"}
  BY OneMaker
<1> QED
  BY <1>1, <1>2, <1>3, <1>4, <1>5, <1>6, <1>7 DEF Known

\* publish takes the lock and a new name.
LEMMA BeginKeeps ==
    ASSUME StoreInv, NEW p \in Proc, Begin(p) PROVE StoreInv'
<1> DEFINE n == minted + 1
           u == [work[p] EXCEPT !.at = "build", !.gen = n, !.previous = Previous(p),
                                !.epoch = NextEpoch(p)]
           b == [Unborn EXCEPT !.at = "live"]
<1>1. /\ work[p].at = "wait" /\ lock = Nobody /\ root = "whole" /\ minted < MaxGens
      /\ lock' = p /\ minted' = n /\ gens' = [gens EXCEPT ![n] = b]
      /\ UNCHANGED <<log, root, current, temps, owned, refs, faults>>
  BY DEF Begin
<1>2. work' = [work EXCEPT ![p] = u]
  BY <1>1, Facts DEF Begin
<1>3. n \in GenId /\ n \in Epoch /\ n \in Nat
  BY <1>1, Facts, Bounds DEF GenId, Epoch
<1>4. Previous(p) \in Manifest \cup {NoManifest} /\ Known(Previous(p))
  BY Facts, Stores DEF Previous, StoreInv, Named
<1>5. NextEpoch(p) \in Epoch /\ NextEpoch(p) <= n
  <2>1. Previous(p).epoch \in Epoch /\ Previous(p).gen \in 0 .. MaxGens
    BY <1>4, Manifests
  <2> QED
    BY <1>1, <1>4, <2>1, Bounds, Facts DEF Known, NextEpoch, Epoch
<1>6. work[p] \in Work
  BY Facts
<1>7. /\ u \in Work /\ u.at = "build" /\ u.gen = n /\ u.previous = Previous(p)
      /\ u.epoch = NextEpoch(p) /\ u.creates = work[p].creates
  BY <1>3, <1>4, <1>5, <1>6 DEF Work, Place
<1>8. /\ b \in Generation /\ b.at = "live" /\ b.state = "building" /\ b.epoch = 0
      /\ b.intact
  BY Empty DEF Unborn, Generation
<1> HIDE DEF u, b
<1>9. /\ work' \in [Proc -> Work] /\ work'[p] = u
      /\ \A q \in Proc : q # p => work'[q] = work[q]
  BY <1>2, <1>7, Sets
<1>10. /\ gens' \in [GenId -> Generation] /\ gens'[n] = b
       /\ \A g \in GenId : g # n => gens'[g] = gens[g]
  BY <1>1, <1>3, <1>8, Facts
<1>11. /\ store' \in [Proc -> Store]
       /\ \A q \in Proc : /\ store'[q].open = store[q].open
                          /\ store'[q].recovery = store[q].recovery
  <2> DEFINE x == IF store[p].recovery = NoManifest
                  THEN Larger(store[p].highest, current.epoch) ELSE store[p].highest
  <2>1. store[p].highest \in Epoch /\ current.epoch \in Epoch
    BY Facts, Stores, Manifests
  <2>2. x \in Epoch
    BY <2>1 DEF Larger
  <2>3. store' = [store EXCEPT ![p].highest = x]
    BY Facts DEF Begin
  <2> HIDE DEF x
  <2> QED
    BY <2>2, <2>3, Sees
<1>12. current.gen \in 0 .. MaxGens /\ current.gen <= minted /\ minted \in Nat
  BY Facts, Manifests DEF StoreInv, Named, Known
<1>13. n # current.gen /\ refs[n] = 0 /\ Previous(p).gen < n
  <2>1. Previous(p).gen \in 0 .. MaxGens
    BY <1>4, Manifests
  <2> QED
    BY <1>3, <1>4, <1>12, <2>1, Bounds DEF StoreInv, Named, Known
<1>14. \A q \in Proc : q # p => work[q].at \notin Making \cup {"published"}
  BY <1>1, OneMaker
<1>15. TypeOK'
  BY <1>1, <1>3, <1>9, <1>10, <1>11, Facts DEF TypeOK, Store
<1>16. Named'
  <2> DEFINE Still(m) == m.epoch <= m.gen /\ m.gen <= n
  <2>1. ASSUME NEW m \in Manifest \cup {NoManifest}, Known(m) PROVE Still(m)
    <3>1. m.gen \in 0 .. MaxGens
      BY Manifests
    <3> QED
      BY <1>12, <2>1, <3>1, Bounds DEF Known
  <2>2. \A g \in GenId : gens'[g].epoch <= g
    BY <1>8, <1>10 DEF StoreInv, Named, GenId
  <2>3. \A g \in GenId : g > minted' => gens'[g] = Unborn /\ refs'[g] = 0
    BY <1>1, <1>3, <1>10, <1>12 DEF StoreInv, Named, GenId
  <2>4. Still(current) /\ \A m \in temps : Still(m)
    BY <2>1, Facts DEF StoreInv, Named
  <2>5. ASSUME NEW q \in Proc PROVE Still(store'[q].recovery) /\ Still(work'[q].previous)
    BY <1>4, <1>7, <1>9, <1>11, <2>1, Facts, Works, Stores DEF StoreInv, Named
  <2>6. \A q \in Proc : work'[q].at \in Making => work'[q].epoch <= work'[q].gen
    BY <1>5, <1>7, <1>9, <1>14
  <2> QED
    BY <1>1, <2>2, <2>3, <2>4, <2>5, <2>6 DEF Named, Known
<1>17. Alone'
  BY <1>1, <1>7, <1>9, <1>11, Processes DEF StoreInv, Alone, Making
<1>18. Locks'
  BY <1>1, <1>9, <1>14 DEF Locks
<1>19. Building'
  <2> SUFFICES ASSUME NEW q \in Proc, work'[q].at \in Making
               PROVE  BuildingOf(q)'
    BY DEF Building
  <2>1. q = p
    BY <1>9, <1>14
  <2> QED
    BY <1>1, <1>3, <1>7, <1>8, <1>9, <1>10, <1>13, <2>1 DEF BuildingOf, Making
<1>20. CurrentServable'
  <2>1. current # NoManifest => gens'[current.gen] = gens[current.gen]
    BY <1>10, <1>13, Facts, Manifests
  <2> QED
    BY <1>1, <2>1 DEF StoreInv, CurrentServable, Matches, Ready
<1> QED
  BY <1>15, <1>16, <1>17, <1>18, <1>19, <1>20 DEF StoreInv

\* The generation that is being made becomes a copy of its predecessor.
LEMMA CopyKeeps ==
    ASSUME StoreInv, NEW p \in Proc, Copy(p) PROVE StoreInv'
<1> DEFINE g == work[p].gen
           k == work[p].previous.gen
           u == [work[p] EXCEPT !.at = "copied"]
<1>1. /\ work[p].at = "build" /\ gens[g].at = "live" /\ gens[k].at = "live"
      /\ work[p].previous # NoManifest
      /\ UNCHANGED <<log, root, minted, current, temps, lock, owned, store, refs, faults>>
  BY DEF Copy, Copyable
<1>2. /\ BuildingOf(p) /\ work[p] \in Work /\ g \in GenId /\ g <= minted
      /\ work[p].epoch <= g
      /\ \A q \in Proc : q # p => work[q].at \notin Making \cup {"published"}
  BY <1>1, Makers DEF Making
<1>3. work' = [work EXCEPT ![p] = u] /\ gens' = [gens EXCEPT ![g] = gens[k]]
  BY <1>2, Facts DEF Copy
<1>4. /\ u \in Work /\ u.at = "copied" /\ u.gen = g /\ u.previous = work[p].previous
      /\ u.epoch = work[p].epoch /\ u.creates = work[p].creates /\ u.to = work[p].to
  BY <1>2 DEF Work, Place
<1>5. k \in GenId /\ gens[k] \in Generation
  BY <1>1, <1>2, Facts, Works, Manifests
<1>6. k < g
  BY <1>2 DEF BuildingOf
<1> HIDE DEF u
<1>7. /\ work' \in [Proc -> Work] /\ work'[p] = u
      /\ \A q \in Proc : q # p => work'[q] = work[q]
  BY <1>3, <1>4, Sets
<1>8. /\ gens' \in [GenId -> Generation] /\ gens'[g] = gens[k]
      /\ \A h \in GenId : h # g => gens'[h] = gens[h]
  BY <1>2, <1>3, <1>5, Facts
<1>9. /\ g # current.gen /\ refs[g] = 0 /\ ~(g > minted)
      /\ work[p].previous.gen < g
  BY <1>2, Facts DEF BuildingOf, GenId
<1>10. gens[k].epoch <= g
  <2>1. gens[k].epoch <= k /\ gens[k].epoch \in Epoch
    BY <1>5 DEF StoreInv, Named, Generation
  <2> QED
    BY <1>2, <1>5, <1>6, <2>1, Bounds DEF GenId, Epoch
<1> HIDE DEF g, k
<1>11. TypeOK'
  BY <1>1, <1>7, <1>8, Facts DEF TypeOK, Store
<1>12. Named'
  BY <1>1, <1>2, <1>4, <1>7, <1>8, <1>9, <1>10 DEF StoreInv, Named, Known, Making
<1>13. Alone'
  BY <1>1, <1>4, <1>7, Processes DEF StoreInv, Alone, Making
<1>14. Locks'
  BY <1>1, <1>2, <1>7 DEF StoreInv, Locks, Making
<1>15. Building'
  <2> SUFFICES ASSUME NEW q \in Proc, work'[q].at \in Making
               PROVE  BuildingOf(q)'
    BY DEF Building
  <2>1. q = p
    BY <1>2, <1>7
  <2> QED
    BY <1>1, <1>2, <1>4, <1>7, <1>8, <1>9, <2>1 DEF BuildingOf, Making
<1>16. CurrentServable'
  <2>1. current # NoManifest => gens'[current.gen] = gens[current.gen]
    BY <1>8, <1>9, Facts, Manifests
  <2> QED
    BY <1>1, <2>1 DEF StoreInv, CurrentServable, Matches, Ready
<1> QED
  BY <1>11, <1>12, <1>13, <1>14, <1>15, <1>16 DEF StoreInv

\* The generation that is being made becomes ready.
LEMMA BuildKeeps ==
    ASSUME StoreInv, NEW p \in Proc, Build(p) PROVE StoreInv'
<1> DEFINE g == work[p].gen
           u == [work[p] EXCEPT !.at = "ready"]
           r == [gens[g] EXCEPT !.state = "ready", !.epoch = work[p].epoch,
                                !.count = work[p].to]
<1>1. /\ work[p].at \in {"build", "copied"} /\ gens[g].at = "live"
      /\ work[p].at = "copied" => gens[g].intact
      /\ UNCHANGED <<log, root, minted, current, temps, lock, owned, store, refs, faults>>
  BY DEF Build, Prepared, Contiguous
<1>2. /\ BuildingOf(p) /\ work[p] \in Work /\ g \in GenId /\ g <= minted
      /\ work[p].epoch <= g
      /\ \A q \in Proc : q # p => work[q].at \notin Making \cup {"published"}
  BY <1>1, Makers DEF Making
<1>3. work' = [work EXCEPT ![p] = u] /\ gens' = [gens EXCEPT ![g] = r]
  BY <1>2, Facts DEF Build
<1>4. /\ u \in Work /\ u.at = "ready" /\ u.gen = g /\ u.previous = work[p].previous
      /\ u.epoch = work[p].epoch /\ u.creates = work[p].creates /\ u.to = work[p].to
  BY <1>2 DEF Work, Place
<1>5. /\ r \in Generation /\ r.at = "live" /\ r.state = "ready"
      /\ r.epoch = work[p].epoch /\ r.count = work[p].to /\ r.intact = gens[g].intact
  <2>1. gens[g] \in Generation /\ work[p].epoch \in Epoch /\ work[p].to \in Count
    BY <1>2, Facts, Works
  <2> QED
    BY <1>1, <2>1 DEF Generation
<1> HIDE DEF u, r
<1>6. /\ work' \in [Proc -> Work] /\ work'[p] = u
      /\ \A q \in Proc : q # p => work'[q] = work[q]
  BY <1>3, <1>4, Sets
<1>7. /\ gens' \in [GenId -> Generation] /\ gens'[g] = r
      /\ \A h \in GenId : h # g => gens'[h] = gens[h]
  BY <1>2, <1>3, <1>5, Facts
<1>8. /\ g # current.gen /\ refs[g] = 0 /\ gens[g].intact /\ ~(g > minted)
      /\ work[p].previous.gen < g
  BY <1>1, <1>2, Facts DEF BuildingOf, GenId
<1> HIDE DEF g
<1>9. TypeOK'
  BY <1>1, <1>6, <1>7, Facts DEF TypeOK, Store
<1>10. Named'
  BY <1>1, <1>2, <1>4, <1>5, <1>6, <1>7, <1>8 DEF StoreInv, Named, Known, Making
<1>11. Alone'
  BY <1>1, <1>4, <1>6, Processes DEF StoreInv, Alone, Making
<1>12. Locks'
  BY <1>1, <1>2, <1>6 DEF StoreInv, Locks, Making
<1>13. Building'
  <2> SUFFICES ASSUME NEW q \in Proc, work'[q].at \in Making
               PROVE  BuildingOf(q)'
    BY DEF Building
  <2>1. q = p
    BY <1>2, <1>6
  <2> QED
    BY <1>1, <1>2, <1>4, <1>5, <1>6, <1>7, <1>8, <2>1 DEF BuildingOf, Making
<1>14. CurrentServable'
  <2>1. current # NoManifest => gens'[current.gen] = gens[current.gen]
    BY <1>7, <1>8, Facts, Manifests
  <2> QED
    BY <1>1, <2>1 DEF StoreInv, CurrentServable, Matches, Ready
<1> QED
  BY <1>9, <1>10, <1>11, <1>12, <1>13, <1>14 DEF StoreInv

\* The generation is verified; the manifest is written aside.
LEMMA WriteKeeps ==
    ASSUME StoreInv, NEW p \in Proc, Verify(p) \/ WriteManifest(p) PROVE StoreInv'
<1> DEFINE next == IF Verify(p) THEN "verified" ELSE "written"
           u == [work[p] EXCEPT !.at = next]
<1>0. Verify(p) => ~WriteManifest(p)
  BY DEF Verify, WriteManifest
<1>1. /\ work[p].at \in {"ready", "verified"}
      /\ \/ next = "verified" /\ temps' = temps
         \/ next = "written" /\ temps' = temps \cup {Mine(p)}
      /\ UNCHANGED <<log, root, gens, minted, current, lock, owned, store, refs, faults>>
  BY <1>0 DEF Verify, WriteManifest, disk
<1>2. /\ BuildingOf(p) /\ work[p] \in Work /\ work[p].epoch <= work[p].gen
      /\ Mine(p) \in Manifest /\ Known(Mine(p))
      /\ \A q \in Proc : q # p => work[q].at \notin Making \cup {"published"}
  BY <1>1, Makers DEF Making
<1>3. work' = [work EXCEPT ![p] = u]
  BY <1>0 DEF Verify, WriteManifest
<1>4. /\ u \in Work /\ u.at = next /\ u.gen = work[p].gen
      /\ u.previous = work[p].previous /\ u.epoch = work[p].epoch
      /\ u.creates = work[p].creates /\ u.to = work[p].to
  BY <1>1, <1>2 DEF Work, Place
<1> HIDE DEF u, next
<1>5. /\ work' \in [Proc -> Work] /\ work'[p] = u
      /\ \A q \in Proc : q # p => work'[q] = work[q]
  BY <1>3, <1>4, Sets
<1>6. TypeOK'
  BY <1>1, <1>2, <1>5, Facts DEF TypeOK, Store
<1>7. Named'
  BY <1>1, <1>2, <1>4, <1>5 DEF StoreInv, Named, Known, Making
<1>8. Alone'
  BY <1>1, <1>4, <1>5, Processes DEF StoreInv, Alone, Making
<1>9. Locks'
  BY <1>1, <1>2, <1>5 DEF StoreInv, Locks, Making
<1>10. Building'
  <2> SUFFICES ASSUME NEW q \in Proc, work'[q].at \in Making
               PROVE  BuildingOf(q)'
    BY DEF Building
  <2>1. q = p
    BY <1>2, <1>5
  <2> QED
    BY <1>1, <1>2, <1>4, <1>5, <2>1 DEF BuildingOf, Mine, Making
<1>11. CurrentServable'
  BY <1>1 DEF StoreInv, CurrentServable, Matches, Ready
<1> QED
  BY <1>6, <1>7, <1>8, <1>9, <1>10, <1>11 DEF StoreInv

\* The replace: the generation that was made is the current one.
LEMMA ReplaceKeeps ==
    ASSUME StoreInv, NEW p \in Proc, Replace(p) PROVE StoreInv'
<1> DEFINE u == [work[p] EXCEPT !.at = "published"]
           s == [store[p] EXCEPT !.recovery = NoManifest, !.highest = work[p].epoch]
<1>1. /\ work[p].at = "written" /\ current' = Mine(p) /\ temps' = temps \ {Mine(p)}
      /\ UNCHANGED <<log, root, gens, minted, lock, owned, refs, faults>>
  BY DEF Replace
<1>2. /\ BuildingOf(p) /\ lock = p /\ root = "whole" /\ store[p].open
      /\ work[p] \in Work /\ work[p].gen \in GenId /\ work[p].epoch <= work[p].gen
      /\ Mine(p) \in Manifest /\ Known(Mine(p)) /\ Mine(p) # NoManifest
      /\ \A q \in Proc : q # p => work[q].at \notin Making \cup {"published"}
  BY <1>1, Makers DEF Making
<1>3. work' = [work EXCEPT ![p] = u] /\ store' = [store EXCEPT ![p] = s]
  BY Facts DEF Replace
<1>4. /\ u \in Work /\ u.at = "published" /\ u.previous = work[p].previous
      /\ u.creates = work[p].creates
  BY <1>2 DEF Work, Place
<1>5. s \in Store /\ s.open = store[p].open /\ s.recovery = NoManifest
  BY <1>2, Facts, Works DEF Store
<1> HIDE DEF u, s
<1>6. /\ work' \in [Proc -> Work] /\ work'[p] = u
      /\ \A q \in Proc : q # p => work'[q] = work[q]
  BY <1>3, <1>4, Sets
<1>7. /\ store' \in [Proc -> Store] /\ store'[p] = s
      /\ \A q \in Proc : q # p => store'[q] = store[q]
  BY <1>3, <1>5, Facts
<1>8. TypeOK'
  BY <1>1, <1>2, <1>6, <1>7, Facts DEF TypeOK, Store
<1>9. Known(NoManifest)
  BY Empty, Facts DEF Known
<1>10. Named'
  <2>1. \A q \in Proc : Known(store'[q].recovery) /\ Known(work'[q].previous)
    BY <1>4, <1>5, <1>6, <1>7, <1>9 DEF StoreInv, Named
  <2>2. \A q \in Proc : work'[q].at \notin Making
    BY <1>2, <1>4, <1>6 DEF Making
  <2> QED
    BY <1>1, <1>2, <2>1, <2>2 DEF StoreInv, Named, Known
<1>11. Alone'
  <2>1. work'[front].at \in {"idle", "published"}
    <3>1. CASE p = front
      BY <1>4, <1>6, <3>1
    <3>2. CASE p \in Worker
      BY <1>1, <1>6, <3>2, Pointed, Processes DEF StoreInv, Alone
    <3> QED
      BY <3>1, <3>2, Processes
  <2>2. \A q \in Proc : /\ store'[q].open = store[q].open
                        /\ work'[q].creates = work[q].creates
                        /\ \/ work'[q] = work[q]
                           \/ q = p /\ work'[q].at = "published"
    BY <1>4, <1>5, <1>6, <1>7
  <2>3. current' # NoManifest
    BY <1>1, <1>2
  <2> QED
    BY <1>1, <1>2, <2>1, <2>2, <2>3, Processes DEF StoreInv, Alone
<1>12. Locks' /\ Building'
  BY <1>1, <1>2, <1>4, <1>6 DEF Locks, Building, Making
<1>13. CurrentServable'
  BY <1>1, <1>2 DEF CurrentServable, Matches, Ready, BuildingOf, Mine
<1> QED
  BY <1>8, <1>10, <1>11, <1>12, <1>13 DEF StoreInv

\* publish cleans up and returns.
LEMMA FinishKeeps ==
    ASSUME StoreInv, NEW p \in Proc, Finish(p) PROVE StoreInv'
<1>1. /\ work[p].at = "published" /\ CleanupLocked(p, store[p].highest)
      /\ store' = [store EXCEPT ![p].highest = Seen(p)]
      /\ work' = [work EXCEPT ![p] = Idle]
      /\ lock' = IF lock = p THEN Nobody ELSE lock
      /\ UNCHANGED <<log, root, minted, owned, faults, refs>>
  BY DEF Finish
<1>2. current # NoManifest
  BY <1>1, Pointed
<1>3. /\ store' \in [Proc -> Store]
      /\ \A q \in Proc : /\ store'[q].open = store[q].open
                         /\ store'[q].recovery = store[q].recovery
  BY <1>1, Sees, SeenIs
<1>4. /\ work' \in [Proc -> Work] /\ work'[p] = Idle
      /\ \A q \in Proc : q # p => work'[q] = work[q]
  BY <1>1, Empty, Sets
<1>5. Known(NoManifest)
  BY Empty, Facts DEF Known
<1>6. \A q \in Proc : /\ work'[q].at \notin Making
                      /\ Known(store'[q].recovery) /\ Known(work'[q].previous)
  BY <1>1, <1>3, <1>4, <1>5, Empty, OneMaker DEF StoreInv, Named, Making
<1>7. \A g \in GenId : /\ g > minted => refs[g] = 0
                       /\ ~(refs[g] > refs[g])
  BY Facts, ReadBoundsAssumption DEF StoreInv, Named
<1>8. Locks'
  BY <1>1, <1>4, Empty DEF StoreInv, Locks, Making
<1>9. lock' \in Proc \cup {Nobody}
  BY <1>1, Facts
<1>10. ASSUME current' # NoManifest PROVE Alone'
  BY <1>1, <1>2, <1>3, <1>4, <1>10, Empty, Processes DEF StoreInv, Alone
<1>11. CASE UNCHANGED <<current, gens, temps>>
  BY <1>1, <1>2, <1>3, <1>4, <1>6, <1>7, <1>8, <1>9, <1>10, <1>11, Facts, StillKeeps
<1>12. ASSUME NEW now, Tidies(now) PROVE StoreInv'
  <2>1. current' # NoManifest
    BY <1>2, <1>12 DEF Tidies
  <2>2. Alone'
    BY <1>10, <2>1
  <2> QED
    BY <1>1, <1>3, <1>4, <1>6, <1>7, <1>8, <1>9, <1>12, <2>2, Facts, TidyKeeps
<1>13. store[p].highest \in Epoch
  BY Facts, Stores
<1> QED
  BY <1>1, <1>11, <1>12, <1>13, CleanupTidies

\* A publication that fails takes only its own generation, or its own root.
LEMMA GivesUpKeeps ==
    ASSUME StoreInv, NEW p \in Proc, work[p].at \in {"wait"} \cup Making, GivesUp(p),
           faults' \in 0 .. MaxFaults
    PROVE  StoreInv'
<1>1. /\ work' \in [Proc -> Work] /\ work'[p] = Idle
      /\ \A q \in Proc : q # p => work'[q] = work[q]
  BY Empty, Sets DEF GivesUp
<1>2. Known(NoManifest)
  BY Empty, Facts DEF Known
<1>3. UNCHANGED <<log, minted, refs>>
  BY DEF GivesUp
<1>4. \A g \in GenId : /\ g > minted => refs[g] = 0
                       /\ ~(refs[g] > refs[g])
  BY Facts, ReadBoundsAssumption DEF StoreInv, Named
<1>5. CASE work[p].creates
  <2>1. p = front
    BY <1>5, Processes DEF StoreInv, Alone
  <2>2. current = NoManifest
    BY <2>1 DEF StoreInv, Alone, Making
  <2>3. /\ NoRoot /\ store' = [store EXCEPT ![p] = Closed]
        /\ owned' = Nobody /\ lock' = Nobody
    BY <1>5 DEF GivesUp
  <2>4. /\ store' \in [Proc -> Store] /\ store'[p] = Closed
        /\ \A q \in Proc : q # p => store'[q] = store[q]
    BY <2>3, Empty, Facts
  <2>5. \A q \in Worker : ~store[q].open /\ work[q].at = "idle" /\ ~work[q].creates
    BY <2>2, Processes DEF StoreInv, Alone
  <2>6. \A q \in Proc : /\ ~store'[q].open /\ work'[q].at = "idle" /\ ~work'[q].creates
                        /\ Known(store'[q].recovery) /\ Known(work'[q].previous)
    BY <1>1, <1>2, <2>1, <2>4, <2>5, Empty, Processes DEF StoreInv, Named
  <2> QED
    BY <1>1, <1>3, <2>2, <2>3, <2>4, <2>6, Facts, NoRootKeeps
<1>6. CASE ~work[p].creates
  <2> DEFINE g == work[p].gen
  <2>1. p \in Worker /\ current # NoManifest
    BY <1>6, Pointed, Processes DEF StoreInv, Alone, Making
  <2>2. /\ temps' = { m \in temps : m.gen # g }
        /\ gens' = IF g = 0 THEN gens
                   ELSE [gens EXCEPT ![g].at = IF @ = "live" THEN "gone" ELSE @]
        /\ lock' = IF lock = p THEN Nobody ELSE lock
        /\ UNCHANGED <<root, current, store, owned>>
    BY <1>6 DEF GivesUp
  <2>3. Locks' /\ lock' \in Proc \cup {Nobody}
    BY <1>1, <2>2, Empty, Facts DEF StoreInv, Locks, Making
  <2>4. Alone'
    BY <1>1, <1>3, <2>1, <2>2, Empty, Processes DEF StoreInv, Alone
  <2>5. \A q \in Proc : /\ work'[q] = work[q] \/ work'[q].at \notin Making
                        /\ Known(store'[q].recovery) /\ Known(work'[q].previous)
    BY <1>1, <1>2, <2>2, Empty DEF StoreInv, Named, Making
  <2>6. CASE work[p].at = "wait"
    <3>1. g = 0
      BY <2>6 DEF StoreInv, Alone
    <3>2. \A m \in temps : m.gen # 0
      BY Facts, Bounds DEF Manifest, GenId
    <3>3. UNCHANGED <<gens, temps>>
      BY <2>2, <3>1, <3>2
    <3> QED
      BY <1>1, <1>3, <1>4, <2>2, <2>3, <2>4, <2>5, <3>3, Facts, StillKeeps
  <2>7. CASE work[p].at \in Making
    <3>1. /\ BuildingOf(p) /\ g \in GenId /\ g <= minted
          /\ \A q \in Proc : q # p => work[q].at \notin Making \cup {"published"}
      BY <2>7, Makers
    <3> DEFINE r == [gens[g] EXCEPT !.at = "gone"]
    <3>2. gens[g].at = "live" /\ g # current.gen /\ g # 0 /\ ~(g > minted)
      BY <3>1, Bounds, Facts DEF BuildingOf, GenId
    <3>3. r \in Generation /\ r.epoch = gens[g].epoch
      BY <3>1, Facts, Withered
    <3>4. gens' = [gens EXCEPT ![g] = r]
      BY <2>2, <3>1, <3>2, Facts
    <3> HIDE DEF r
    <3>5. /\ gens' \in [GenId -> Generation] /\ gens'[g] = r
          /\ \A h \in GenId : h # g => gens'[h] = gens[h]
      BY <3>1, <3>3, <3>4, Facts
    <3>6. \A q \in Proc : work'[q].at \notin Making
      BY <1>1, <3>1, Empty DEF Making
    <3>7. TypeOK'
      BY <1>1, <1>3, <2>2, <2>3, <3>5, Facts DEF TypeOK, Store
    <3>8. Named'
      <4>1. temps' \subseteq temps
        BY <2>2
      <4> HIDE DEF g
      <4> QED
        BY <1>3, <2>2, <2>5, <3>2, <3>3, <3>5, <3>6, <4>1 DEF StoreInv, Named, Known
    <3>9. Building'
      BY <3>6 DEF Building
    <3>10. CurrentServable'
      <4>1. gens'[current.gen] = gens[current.gen]
        BY <2>1, <3>2, <3>5, Facts, Manifests
      <4> QED
        BY <2>2, <4>1 DEF StoreInv, CurrentServable, Matches, Ready
    <3> QED
      BY <2>3, <2>4, <3>7, <3>8, <3>9, <3>10 DEF StoreInv
  <2> QED
    BY <2>6, <2>7
<1> QED
  BY <1>5, <1>6

\* A publication refused or failed.
LEMMA FailsKeeps ==
    ASSUME StoreInv, NEW p \in Proc, BeginRefused(p) \/ Fails(p) PROVE StoreInv'
<1>1. work[p].at \in {"wait"} \cup Making /\ GivesUp(p) /\ (Fault \/ NoFault)
  BY DEF BeginRefused, Fails, Unpublished, Making
<1> QED
  BY <1>1, FaultCounts, GivesUpKeeps

-----------------------------------------------------------------------------
(* What is there *)

\* A vault without a read store.
LEMMA InitHolds == Init => StoreInv
<1> SUFFICES ASSUME Init PROVE StoreInv
  OBVIOUS
<1> USE DEF Init
<1>1. /\ \A q \in Proc : store[q] = Closed /\ work[q] = Idle
      /\ \A g \in GenId : gens[g] = Unborn /\ refs[g] = 0
      /\ current = NoManifest /\ temps = {} /\ minted = 0
  OBVIOUS
<1>2. TypeOK
  <2>1. store \in [Proc -> Store] /\ work \in [Proc -> Work] /\ gens \in [GenId -> Generation]
    BY Empty
  <2>2. 0 \in Epoch /\ 0 \in 0 .. MaxReaders /\ 0 \in 0 .. MaxFaults
    BY Bounds, ReadBoundsAssumption DEF Epoch
  <2> QED
    BY <2>1, <2>2 DEF TypeOK, Store
<1>3. Named
  BY <1>1, Empty, Bounds DEF Named, Known, Making, GenId
<1>4. Alone
  BY <1>1, Empty, Processes DEF Alone
<1>5. Locks /\ Building /\ CurrentServable
  BY <1>1, Empty DEF Locks, Building, CurrentServable, Making
<1> QED
  BY <1>2, <1>3, <1>4, <1>5 DEF StoreInv

\* Every step keeps the invariant.
LEMMA NextKeeps == StoreInv /\ [Next]_vars => StoreInv'
<1> SUFFICES ASSUME StoreInv, [Next]_vars PROVE StoreInv'
  OBVIOUS
<1>1. CASE UNCHANGED vars
  <2>1. UNCHANGED <<log, root, gens, minted, current, temps, lock, owned, store, refs,
                    work, faults>>
    BY <1>1 DEF vars, disk, mem
  <2>2. Alone' /\ Locks'
    BY <2>1 DEF StoreInv, Alone, Locks
  <2>3. \A q \in Proc : Known(store[q].recovery) /\ Known(work[q].previous)
    BY DEF StoreInv, Named
  <2>4. \A g \in GenId : /\ g > minted => refs[g] = 0
                         /\ ~(refs[g] > refs[g])
    BY Facts, ReadBoundsAssumption DEF StoreInv, Named
  <2> QED
    BY <2>1, <2>2, <2>3, <2>4, Facts, StillKeeps
<1>2. CASE Commit \/ Damage \/ QuarantineRoot \/ Create \/ CreateDies
  BY <1>2, CommitKeeps, DamageKeeps, QuarantineKeeps, CreateKeeps
<1>3. CASE Close \/ OpenReader \/ CloseReader
  BY <1>3, DeathKeeps, OpenReaderKeeps, CloseReaderKeeps
<1>4. ASSUME NEW p \in Proc, \/ OpenCurrent(p) \/ OpenRecovers(p) \/ Synchronize(p)
                             \/ SynchronizeOther(p) \/ Publish(p) \/ Exit(p) \/ Die(p)
      PROVE  StoreInv'
  <2>1. CASE \/ OpenCurrent(p) \/ OpenRecovers(p) \/ Synchronize(p)
             \/ SynchronizeOther(p) \/ Exit(p) \/ Die(p)
    BY <2>1, OpenCurrentKeeps, OpenRecoversKeeps, SynchronizeKeeps, DeathKeeps
  <2>2. CASE Publish(p)
    BY <2>2, BeginKeeps, FailsKeeps, CopyKeeps, BuildKeeps, WriteKeeps, ReplaceKeeps,
       FinishKeeps
       DEF Publish
  <2> QED
    BY <1>4, <2>1, <2>2
<1> QED
  BY <1>1, <1>2, <1>3, <1>4 DEF Next

\* StoreInv holds in every state of every behaviour.
THEOREM StoreInvariant == Spec => []StoreInv
  BY InitHolds, NextKeeps, PTL DEF Spec

\* The variables have their types: no epoch, name or count outruns its bound.
THEOREM TypeCorrect == Spec => []TypeOK
<1>1. StoreInv => TypeOK
  BY DEF StoreInv
<1> QED
  BY <1>1, StoreInvariant, PTL

\* Whatever died, failed or was cleaned up, current.json names a complete
\* revision that is in its place and is the one it describes, unless its
\* database was damaged there.
THEOREM PointerServable == Spec => []CurrentServable
<1>1. StoreInv => CurrentServable
  BY DEF StoreInv
<1> QED
  BY <1>1, StoreInvariant, PTL

\* publish finds the generation that it makes, and the manifest that it wrote
\* aside, as it left them: no opening, reading or cleanup takes them.
THEOREM BuildsAreLeftAlone == Spec => []BuildUntouched
<1>1. StoreInv => BuildUntouched
  BY DEF StoreInv, Building, BuildingOf, BuildUntouched, Unpublished, Making
<1> QED
  BY <1>1, StoreInvariant, PTL

-----------------------------------------------------------------------------
(* Which way it moves *)

\* What the ordering compares are numbers.
LEMMA Numbers ==
    ASSUME StoreInv
    PROVE  /\ log \in Nat /\ current.count \in Nat /\ current.epoch \in Nat
           /\ \A m \in temps : m.count \in Nat
           /\ \A p \in Proc : /\ work[p].to \in Nat /\ work[p].epoch \in Nat
                              /\ work[p].from \in Nat /\ work[p].seen.count \in Nat
                              /\ work[p].previous.epoch \in Nat
           /\ \A g \in GenId : gens[g].epoch \in Nat /\ refs[g] \in Nat
<1>1. Count \subseteq Nat /\ Epoch \subseteq Nat
  BY Bounds, ReadBoundsAssumption DEF Count, Epoch
<1>2. log \in Count /\ current.count \in Count /\ current.epoch \in Epoch
  BY Facts, Manifests
<1>3. \A m \in temps : m.count \in Count
  BY Facts, Manifests
<1>4. \A p \in Proc : /\ work[p].to \in Count /\ work[p].epoch \in Epoch
                       /\ work[p].from \in Count /\ work[p].seen.count \in Count
                       /\ work[p].previous.epoch \in Epoch
  BY Facts, Works, Manifests
<1>5. \A g \in GenId : gens[g].epoch \in Epoch
  BY Facts DEF Generation
<1>6. \A g \in GenId : refs[g] \in Nat
  BY Facts, ReadBoundsAssumption
<1> QED
  BY <1>1, <1>2, <1>3, <1>4, <1>5, <1>6

\* What is counted is finite.
LEMMA LaterFinite ==
    ASSUME NEW g \in GenId
    PROVE  IsFiniteSet(Later(g)) /\ IsFiniteSet(GenId)
<1>1. IsFiniteSet(GenId)
  BY Bounds, FS_Interval DEF GenId
<1>2. Later(g) \subseteq GenId
  BY DEF Later
<1> QED
  BY <1>1, <1>2, FS_Subset

\* What is ready stays so, and of no earlier epoch.
Steady == \A h \in GenId : gens[h].state = "ready" =>
             gens'[h].state = "ready" /\ gens'[h].epoch >= gens[h].epoch

\* What is read is read of the pointer's revision or was read before, and is
\* gone only if it was, or if enough others are counted.
Holds ==
    /\ \A g \in GenId : refs'[g] > 0 => /\ gens'[g].epoch = gens[g].epoch
                                        /\ \/ refs[g] > 0
                                           \/ g = current.gen /\ Matches(current)
    /\ \A g \in GenId : refs'[g] > 0 /\ gens'[g].intact /\ gens'[g].at = "gone" =>
          /\ refs[g] > 0 /\ gens[g].intact
          /\ gens[g].at = "gone" \/ Cardinality(Later(g)) >= Retain

\* What a step owes to the readers.
LEMMA ReadersKeep ==
    ASSUME StoreInv, StoreInv', LineInv, Steady, Holds
    PROVE  Read' /\ HeldSurvives'
<1>1. Read'
  <2> SUFFICES ASSUME NEW g \in GenId, refs'[g] > 0
               PROVE  gens'[g].state = "ready"
    BY DEF Read
  <2>1. gens[g].state = "ready"
    BY DEF Holds, LineInv, Read, Matches, Ready
  <2> QED
    BY <2>1 DEF Steady
<1>2. HeldSurvives'
  <2> SUFFICES ASSUME NEW g \in GenId, refs'[g] > 0, gens'[g].intact, gens'[g].at = "gone"
               PROVE  Cardinality(Later(g)') >= Retain
    BY DEF HeldSurvives, Later
  <2>1. refs[g] > 0 /\ gens[g].intact /\ gens[g].state = "ready"
    BY DEF Holds, LineInv, Read
  <2>2. Cardinality(Later(g)) >= Retain
    BY <2>1 DEF Holds, LineInv, HeldSurvives, Later
  <2>3. gens'[g].epoch = gens[g].epoch
    BY DEF Holds
  <2>4. Later(g) \subseteq Later(g)'
    <3>1. \A h \in GenId : gens[h].epoch \in Nat /\ gens'[h].epoch \in Nat
      <4>1. gens' \in [GenId -> Generation]
        BY DEF StoreInv, TypeOK
      <4> QED
        BY <4>1, Numbers, Bounds DEF Generation, Epoch
    <3> QED
      BY <2>3, <3>1 DEF Later, Steady
  <2>5. IsFiniteSet(Later(g)')
    <3>1. Later(g)' \subseteq GenId
      BY DEF Later
    <3> QED
      BY <3>1, LaterFinite, FS_Subset
  <2>6. /\ Cardinality(Later(g)) <= Cardinality(Later(g)')
        /\ Cardinality(Later(g)) \in Nat /\ Cardinality(Later(g)') \in Nat
    BY <2>4, <2>5, LaterFinite, FS_Subset, FS_CardinalityType
  <2> QED
    BY <2>2, <2>6 DEF Retain
<1> QED
  BY <1>1, <1>2

\* A step that nobody reads across.
LEMMA UnreadKeep ==
    ASSUME \A g \in GenId : refs'[g] = 0
    PROVE  Read' /\ HeldSurvives'
  BY DEF Read, HeldSurvives

\* No database recovers.
Wears == \A g \in GenId : ~gens[g].intact => ~gens'[g].intact

\* What a step does to a publication while the pointer stays.
Proceeds(p) ==
    \/ /\ work'[p] = work[p]
       /\ work[p].at \in Making => gens'[work[p].gen] = gens[work[p].gen]
    \/ work'[p].at = "idle" /\ work'[p].to = 0
    \/ work'[p].at = "wait" /\ work'[p].to <= log /\ Chosen(p)'
    \/ /\ work'[p].at \in Making /\ work'[p].to <= log /\ Chosen(p)'
       /\ p \in Worker => OnPrevious(p)'

\* What a step that leaves the pointer owes to the order.
LEMMA OrderKeep ==
    ASSUME StoreInv, StoreInv', Ordered, current' = current, log <= log', Wears,
           \A m \in temps' : m \in temps \/ m.count <= log,
           \A p \in Proc : \/ store'[p].recovery \in {NoManifest, store[p].recovery}
                           \/ Recovering(p)',
           \A p \in Proc : Proceeds(p)
    PROVE  Ordered'
<1>1. log' \in Nat /\ (\A m \in temps' : m.count \in Nat) /\ \A p \in Proc : work'[p].to \in Nat
  <2>1. Count \subseteq Nat
    BY ReadBoundsAssumption DEF Count
  <2>2. log' \in Count /\ temps' \subseteq Manifest /\ work' \in [Proc -> Work]
    BY DEF StoreInv, TypeOK
  <2>3. (\A m \in temps' : m.count \in Count) /\ \A p \in Proc : work'[p].to \in Count
    BY <2>2, Manifests, Works
  <2> QED
    BY <2>1, <2>2, <2>3
<1>2. current'.count <= log' /\ \A m \in temps' : m.count <= log'
  BY <1>1, Numbers DEF Ordered
<1>3. ASSUME NEW p \in Proc PROVE Recovering(p)'
  <2>1. store[p].recovery # NoManifest => store[p].recovery.gen \in GenId
    BY Facts, Stores, Manifests
  <2> QED
    BY <2>1 DEF Ordered, Recovering, Wears
<1>4. \A p \in Proc : work'[p].to <= log'
  BY <1>1, Numbers DEF Ordered, Proceeds
<1>5. \A p \in Proc : work'[p].at \in {"wait"} \cup Making => Chosen(p)'
  BY DEF Ordered, Proceeds, Chosen, Making
<1>6. ASSUME NEW p \in Worker, work'[p].at \in Making PROVE OnPrevious(p)'
  <2>1. CASE work'[p] = work[p] /\ gens'[work[p].gen] = gens[work[p].gen]
    <3>1. OnPrevious(p)
      BY <1>6, <2>1 DEF Ordered
    <3>2. work[p].previous # NoManifest => work[p].previous.gen \in GenId
      BY Facts, Works, Manifests, Processes
    <3> QED
      BY <2>1, <3>1, <3>2 DEF OnPrevious, Wears
  <2> QED
    BY <1>6, <2>1, Processes DEF Proceeds, Making
<1> QED
  BY <1>2, <1>3, <1>4, <1>5, <1>6 DEF Ordered

\* A step that leaves the generations leaves what is built.
LEMMA StillProceeds ==
    ASSUME UNCHANGED gens
    PROVE  Wears /\ \A p \in Proc : work'[p] = work[p] => Proceeds(p)
  BY DEF Wears, Proceeds

\* A cleanup takes from a reader only what the two that are kept outlive.
LEMMA CleanupHolds ==
    ASSUME StoreInv, LineInv, NEW p \in Proc, NEW h \in Epoch, CleanupLocked(p, h),
           \A g \in GenId : refs'[g] > 0 => refs[g] > 0
    PROVE  Steady /\ Holds /\ Wears
<1>1. CASE UNCHANGED <<current, gens, temps>>
  BY <1>1, Numbers DEF Steady, Holds, Wears
<1>2. CASE \E now : /\ Tidies(now) /\ now = Resolved(h)
                    /\ \E keep \in Retained(p, now) :
                         \A g \in GenId : gens'[g] # gens[g] => g \in Unneeded(p, now) \ keep
  <2>1. PICK now : /\ Tidies(now)
                   /\ \E keep \in Retained(p, now) :
                        \A g \in GenId : gens'[g] # gens[g] => g \in Unneeded(p, now) \ keep
    BY <1>2
  <2>2. PICK keep \in Retained(p, now) :
           \A g \in GenId : gens'[g] # gens[g] => g \in Unneeded(p, now) \ keep
    BY <2>1
  <2>3. \A g \in GenId : /\ gens'[g].state = gens[g].state /\ gens'[g].epoch = gens[g].epoch
                         /\ gens'[g].intact = gens[g].intact
    BY <2>1, Facts, Withered DEF Tidies, Withers
  <2>4. Steady /\ Wears
    BY <2>3, Numbers DEF Steady, Wears
  <2> DEFINE ready == { g \in Unneeded(p, now) : Ready(g) }
  <2>5. /\ keep \subseteq ready /\ Cardinality(keep) = Smaller(Retain, Cardinality(ready))
        /\ \A g \in keep, k \in ready \ keep : gens[g].epoch >= gens[k].epoch
    BY DEF Retained
  <2>6. ready \subseteq GenId /\ IsFiniteSet(ready) /\ IsFiniteSet(keep)
    <3>1. ready \subseteq GenId
      BY DEF Unneeded
    <3>2. IsFiniteSet(GenId)
      BY Bounds, FS_Interval DEF GenId
    <3> QED
      BY <2>5, <3>1, <3>2, FS_Subset
  <2>7. ASSUME NEW g \in GenId, refs'[g] > 0, gens'[g].intact, gens'[g].at = "gone",
               gens[g].at # "gone"
        PROVE  Cardinality(Later(g)) >= Retain
    <3>1. refs[g] > 0 /\ gens[g].state = "ready"
      BY <2>7 DEF LineInv, Read
    <3>2. g \in Unneeded(p, now) \ keep /\ gens[g].at = "live" /\ gens[g].intact
      BY <2>2, <2>3, <2>7 DEF Unneeded
    <3>3. g \in ready \ keep
      BY <3>1, <3>2 DEF Ready
    <3>4. \A k \in keep : gens[k].epoch >= gens[g].epoch /\ gens[k].state = "ready" /\ k # g
      BY <2>5, <3>3 DEF Ready
    <3>5. keep \subseteq Later(g)
      BY <2>5, <2>6, <3>4 DEF Later
    <3> HIDE DEF ready
    <3>6. Cardinality(keep) < Cardinality(ready)
      BY <2>5, <2>6, <3>3, FS_Subset, FS_CardinalityType
    <3>7. Cardinality(keep) = Retain
      <4>1. Cardinality(keep) \in Nat /\ Cardinality(ready) \in Nat
        BY <2>6, FS_CardinalityType
      <4> QED
        BY <2>5, <3>6, <4>1 DEF Smaller, Retain
    <3>8. Cardinality(keep) <= Cardinality(Later(g)) /\ Cardinality(Later(g)) \in Nat
      BY <3>5, LaterFinite, FS_Subset, FS_CardinalityType
    <3> QED
      BY <3>7, <3>8 DEF Retain
  <2>8. Holds
    BY <2>3, <2>7 DEF Holds
  <2> QED
    BY <2>4, <2>8
<1> QED
  BY <1>1, <1>2, CleanupTidies

\* What a step owes that leaves the generations' state and the pointer, and
\* starts no reader.
LEMMA QuietLine ==
    ASSUME StoreInv, StoreInv', LineInv, Ordered',
           \A g \in GenId : refs'[g] > 0 => refs[g] > 0,
           \A g \in GenId : \/ gens'[g] = gens[g]
                            \/ /\ refs[g] = 0
                               /\ gens[g].state = "ready" =>
                                     /\ gens'[g].state = "ready"
                                     /\ gens'[g].epoch >= gens[g].epoch
    PROVE  LineInv'
<1>1. \A g \in GenId : refs[g] \in Nat /\ gens[g].epoch \in Nat
  BY Numbers
<1>2. Steady
  BY <1>1 DEF Steady
<1>3. Holds
  BY <1>1 DEF Holds
<1> QED
  BY <1>2, <1>3, ReadersKeep DEF LineInv

\* Cleanup, by whoever holds the lock or finds it free.
LEMMA CleanupLine ==
    ASSUME StoreInv, StoreInv', LineInv, NEW p \in Proc, NEW h \in Epoch,
           CleanupLocked(p, h) \/ UNCHANGED <<current, gens, temps>>,
           \A g \in GenId : refs'[g] > 0 => refs[g] > 0
    PROVE  /\ Wears
           /\ Ordered' => LineInv'
<1>1. CASE CleanupLocked(p, h)
  BY <1>1, CleanupHolds, ReadersKeep DEF LineInv
<1>2. CASE UNCHANGED <<current, gens, temps>>
  BY <1>2, QuietLine DEF Wears
<1> QED
  BY <1>1, <1>2

\* Cleanup leaves the temporaries or removes them, and keeps a pointer.
LEMMA CleanupOrder ==
    ASSUME StoreInv, NEW p \in Proc, NEW h \in Epoch, current # NoManifest,
           \/ CleanupLocked(p, h) \/ Cleanup(p, h) \/ UNCHANGED <<current, gens, temps>>
    PROVE  /\ current' = current /\ temps' \subseteq temps
           /\ CleanupLocked(p, h) \/ UNCHANGED <<current, gens, temps>>
           /\ Cleanup(p, h) => UNCHANGED gens \/ \A q \in Proc : work[q].at \notin Making
<1>1. CleanupLocked(p, h) \/ UNCHANGED <<current, gens, temps>>
  BY DEF Cleanup
<1>2. lock = Nobody => \A q \in Proc : work[q].at \notin Making
  BY OneMaker
<1> QED
  BY <1>1, <1>2, CleanupTidies DEF Tidies, Cleanup

\* A commit only lengthens the log.
LEMMA CommitLine ==
    ASSUME StoreInv, StoreInv', LineInv, Commit PROVE LineInv'
<1>1. UNCHANGED <<gens, current, temps, store, refs, work>> /\ log' = log + 1
  BY DEF Commit, disk, mem
<1>2. Ordered'
  BY <1>1, Numbers, StillProceeds, OrderKeep DEF LineInv
<1> QED
  BY <1>1, <1>2, QuietLine

\* Damage leaves a revision's epoch and its place, and is of the pointer's.
LEMMA DamageLine ==
    ASSUME StoreInv, StoreInv', LineInv, Damage PROVE LineInv'
<1>1. UNCHANGED <<log, current, temps, store, refs, work>>
  BY DEF Damage, mem
<1>2. PICK g \in GenId : current.gen = g /\ gens' = [gens EXCEPT ![g].intact = FALSE]
  BY DEF Damage
<1>3. \A h \in GenId : /\ gens'[h].state = gens[h].state /\ gens'[h].epoch = gens[h].epoch
                       /\ gens'[h].at = gens[h].at
                       /\ gens'[h].intact => gens[h].intact
                       /\ h # g => gens'[h] = gens[h]
  BY <1>2, Facts DEF Generation
<1>4. \A p \in Proc : Proceeds(p)
  <2>1. \A p \in Proc : work[p].at \in Making => work[p].gen \in GenId /\ work[p].gen # g
    BY <1>2, Makers DEF BuildingOf
  <2> QED
    BY <1>1, <1>3, <2>1 DEF Proceeds
<1>5. Wears
  BY <1>3 DEF Wears
<1>6. Ordered'
  BY <1>1, <1>4, <1>5, Numbers, OrderKeep DEF LineInv
<1>7. Steady /\ Holds
  BY <1>1, <1>3, Numbers DEF Steady, Holds
<1> QED
  BY <1>6, <1>7, ReadersKeep DEF LineInv

\* Taking the root away leaves what its databases were.
LEMMA NoRootWears == ASSUME StoreInv, NoRoot PROVE Wears
  BY Facts, Withered DEF NoRoot, Wears

\* Nothing is read where there is no pointer.
LEMMA QuarantineLine ==
    ASSUME StoreInv, StoreInv', LineInv, QuarantineRoot PROVE LineInv'
<1>1. UNCHANGED <<log, store, refs, work>> /\ current' = NoManifest /\ temps' = {} /\ NoRoot
  BY DEF QuarantineRoot, NoRoot, mem
<1>2. current = NoManifest /\ ~store[front].open
  BY Pointed DEF QuarantineRoot, Unopenable
<1>3. \A g \in GenId : refs'[g] = 0
  BY <1>1, <1>2 DEF StoreInv, Alone
<1>4. \A q \in Proc : work[q].at = "idle"
  BY <1>2, Processes DEF StoreInv, Alone
<1>5. \A q \in Proc : Proceeds(q)
  BY <1>1, <1>4 DEF Proceeds, Making
<1>6. Ordered'
  BY <1>1, <1>2, <1>5, Numbers, NoRootWears, OrderKeep DEF LineInv
<1> QED
  BY <1>3, <1>6, UnreadKeep DEF LineInv

\* A new root has nothing to be behind.
LEMMA CreateLine ==
    ASSUME StoreInv, StoreInv', LineInv, Create \/ CreateDies PROVE LineInv'
<1>1. UNCHANGED <<log, gens, current, temps, refs>> /\ current = NoManifest
  BY Pointed DEF Create, CreateDies, mem
<1>2. CASE Create
  <2>1. store' = [store EXCEPT ![front] = [Closed EXCEPT !.open = TRUE]]
    BY <1>2 DEF Create
  <2>2. work' = [work EXCEPT ![front] = [Idle EXCEPT !.at = "wait", !.mode = "fresh",
                                                     !.creates = TRUE]]
    BY <1>2 DEF Create
  <2>3. /\ store'[front].recovery = NoManifest /\ work'[front].at = "wait"
        /\ work'[front].to = 0 /\ work'[front].from = 0 /\ work'[front].mode = "fresh"
        /\ work'[front].seen = NoManifest
        /\ \A p \in Worker : store'[p] = store[p] /\ work'[p] = work[p]
    BY <2>1, <2>2, Facts, Processes DEF Closed, Idle
  <2>4. Proceeds(front)
    BY <2>3, Numbers, Empty DEF Proceeds, Chosen
  <2>5. Ordered'
    BY <1>1, <2>3, <2>4, Numbers, Processes, StillProceeds, OrderKeep DEF LineInv
  <2> QED
    BY <1>1, <2>5, QuietLine
<1>3. CASE CreateDies
  <2>1. UNCHANGED <<store, work>>
    BY <1>3 DEF CreateDies, mem
  <2>2. Ordered'
    BY <1>1, <2>1, Numbers, StillProceeds, OrderKeep DEF LineInv
  <2> QED
    BY <1>1, <2>2, QuietLine
<1> QED
  BY <1>2, <1>3

\* A process that is gone reads and builds nothing.
LEMMA GoneLine ==
    ASSUME StoreInv, StoreInv', LineInv, NEW P \in SUBSET Proc, Gone(P) PROVE LineInv'
<1>1. UNCHANGED <<log, gens, current, temps>>
  BY DEF Gone, disk
<1>2. \A q \in Proc : /\ store'[q] = IF q \in P THEN Closed ELSE store[q]
                      /\ work'[q] = IF q \in P THEN Idle ELSE work[q]
  BY DEF Gone
<1>3. \A g \in GenId : refs'[g] > 0 => refs[g] > 0
  BY DEF Gone
<1>4. \A q \in Proc : store'[q].recovery \in {NoManifest, store[q].recovery}
  BY <1>2, Empty
<1>5. \A q \in Proc : Proceeds(q)
  BY <1>1, <1>2, Empty DEF Proceeds
<1>6. Ordered'
  BY <1>1, <1>4, <1>5, Numbers, StillProceeds, OrderKeep DEF LineInv
<1> QED
  BY <1>1, <1>3, <1>6, QuietLine

\* Closings, exits and deaths.
LEMMA DeathLine ==
    ASSUME StoreInv, StoreInv', LineInv, Close \/ \E p \in Proc : Exit(p) \/ Die(p)
    PROVE  LineInv'
<1>1. CASE Close
  BY <1>1, GoneLine DEF Close
<1>2. ASSUME NEW p \in Proc, Exit(p) \/ Die(p) PROVE LineInv'
  BY <1>2, GoneLine DEF Exit, Die
<1> QED
  BY <1>1, <1>2

\* What begins to be read is the revision pointed at.
LEMMA OpenReaderLine ==
    ASSUME StoreInv, StoreInv', LineInv, OpenReader PROVE LineInv'
<1>1. /\ UNCHANGED <<log, gens, current, temps, work>> /\ Matches(current)
      /\ refs' = [refs EXCEPT ![current.gen] = @ + 1]
  BY DEF OpenReader, disk, Accepts
<1>2. \A q \in Proc : store'[q].recovery = store[q].recovery
  BY Sees, SeenIs, Processes DEF OpenReader
<1>3. Ordered'
  BY <1>1, <1>2, Numbers, StillProceeds, OrderKeep DEF LineInv
<1>4. Steady
  BY <1>1, Numbers DEF Steady
<1>5. gens[current.gen].at = "live"
  BY <1>1 DEF Matches, Ready
<1>6. \A g \in GenId : g # current.gen => refs'[g] = refs[g]
  BY <1>1, Facts
<1>7. Holds
  BY <1>1, <1>5, <1>6 DEF Holds
<1> QED
  BY <1>3, <1>4, <1>7, ReadersKeep DEF LineInv

\* The foreground's cleanup spares what it reads.
LEMMA CloseReaderLine ==
    ASSUME StoreInv, StoreInv', LineInv, CloseReader PROVE LineInv'
<1>1. PICK g \in GenId :
       /\ refs[g] > 0
       /\ refs' = [refs EXCEPT ![g] = @ - 1]
       /\ Cleanup(front, store[front].highest)
       /\ store' = [store EXCEPT ![front].highest =
                       IF lock = Nobody THEN Seen(front) ELSE @]
       /\ UNCHANGED <<log, root, minted, lock, owned, work, faults>>
  BY DEF CloseReader
<1>2. store[front].highest \in Epoch /\ current # NoManifest
  BY <1>1, Facts, Stores, Processes, Pointed
<1>3. /\ current' = current /\ temps' \subseteq temps
      /\ CleanupLocked(front, store[front].highest) \/ UNCHANGED <<current, gens, temps>>
      /\ UNCHANGED gens \/ \A q \in Proc : work[q].at \notin Making
  BY <1>1, <1>2, Processes, CleanupOrder
<1>4. \A q \in Proc : store'[q].recovery = store[q].recovery
  BY <1>1, Facts DEF Store
<1>5. \A k \in GenId : refs'[k] > 0 => refs[k] > 0
  BY <1>1, Facts
<1>6. Wears /\ (Ordered' => LineInv')
  BY <1>2, <1>3, <1>5, Processes, CleanupLine
<1>7. \A q \in Proc : Proceeds(q)
  BY <1>1, <1>3 DEF Proceeds
<1>8. Ordered'
  BY <1>1, <1>3, <1>4, <1>6, <1>7, Numbers, OrderKeep DEF LineInv
<1> QED
  BY <1>6, <1>8

\* The foreground has no reader when it opens; a worker's cleanup is bounded.
LEMMA OpenCurrentLine ==
    ASSUME StoreInv, StoreInv', LineInv, NEW p \in Proc, OpenCurrent(p) PROVE LineInv'
<1> DEFINE m == Resolved(0)
<1>1. /\ MayOpen(p) /\ Matches(m) /\ Opened(p, m, FALSE)
      /\ UNCHANGED <<log, work, refs>>
      /\ IF lock = Nobody THEN CleanupLocked(p, 0)
         ELSE current' = m /\ temps' = temps \ {m} /\ UNCHANGED gens
  BY DEF OpenCurrent
<1>2. 0 \in Epoch
  BY Bounds DEF Epoch
<1>3. /\ current # NoManifest => m = current
      /\ m \in Candidates \cup {current} /\ m \in Manifest /\ m # NoManifest
  BY <1>1, <1>2, ResolvedIs, Manifests DEF Matches
<1>4. current' = m /\ temps' \subseteq temps
  <2>1. m.epoch >= 0
    BY <1>3, Manifests, Bounds DEF Epoch
  <2>2. CASE lock = Nobody
    BY <1>1, <2>1, <2>2 DEF CleanupLocked, Accepts
  <2> QED
    BY <1>1, <2>2
<1>5. /\ store'[p].recovery = NoManifest
      /\ \A q \in Proc : q # p => store'[q] = store[q]
  BY <1>1, Facts DEF Opened
<1>6. \A q \in Proc : store'[q].recovery \in {NoManifest, store[q].recovery}
  BY <1>5
<1>7. Wears /\ (Ordered' => LineInv')
  <2>1. CASE lock = Nobody
    BY <1>1, <1>2, <2>1, CleanupLine
  <2>2. CASE lock # Nobody
    BY <1>1, <2>2, QuietLine DEF Wears
  <2> QED
    BY <2>1, <2>2
<1>8. \A q \in Proc : Proceeds(q)
  <2>1. UNCHANGED gens \/ \A q \in Proc : work[q].at \notin Making
    BY <1>1, OneMaker
  <2> QED
    BY <1>1, <2>1 DEF Proceeds
<1>9. CASE current # NoManifest
  <2>1. current' = current
    BY <1>3, <1>4, <1>9
  <2>2. Ordered'
    BY <1>1, <1>4, <1>6, <1>7, <1>8, <2>1, Numbers, OrderKeep DEF LineInv
  <2> QED
    BY <1>7, <2>2
<1>10. CASE current = NoManifest
  <2>1. work[p].at = "idle"
    BY <1>1 DEF MayOpen, StoreInv, Alone
  <2>2. \A q \in Proc : work[q].at = "idle"
    <3>1. \A q \in Worker : work[q].at = "idle"
      BY <1>10, Pointed
    <3>2. work[front].at = "idle"
      BY <1>1, <2>1 DEF MayOpen
    <3> QED
      BY <3>1, <3>2, Processes
  <2>3. m.count <= log
    BY <1>3, <1>10 DEF LineInv, Ordered, Candidates
  <2>4. \A q \in Proc : Recovering(q)'
    <3>1. \A q \in Proc : store[q].recovery # NoManifest => store[q].recovery.gen \in GenId
      BY Facts, Stores, Manifests
    <3> QED
      BY <1>6, <1>7, <3>1 DEF LineInv, Ordered, Recovering, Wears
  <2>5. Ordered'
    BY <1>1, <1>4, <2>2, <2>3, <2>4, Processes DEF LineInv, Ordered, Making
  <2> QED
    BY <1>7, <2>5
<1> QED
  BY <1>9, <1>10

\* The manifest kept for recovery is of a damaged database.
LEMMA OpenRecoversLine ==
    ASSUME StoreInv, StoreInv', LineInv, NEW p \in Proc, OpenRecovers(p) PROVE LineInv'
<1>1. /\ MayOpen(p) /\ Opened(p, current, TRUE) /\ ~Matches(current) /\ current # NoManifest
      /\ UNCHANGED <<log, gens, current, temps, work, refs>>
  BY DEF OpenRecovers, disk
<1>2. /\ store'[p].recovery = current
      /\ \A q \in Proc : q # p => store'[q] = store[q]
  BY <1>1, Facts DEF Opened
<1>3. ~gens[current.gen].intact
  BY <1>1 DEF StoreInv, CurrentServable
<1>4. \A q \in Proc : \/ store'[q].recovery = store[q].recovery
                      \/ Recovering(q)'
  BY <1>1, <1>2, <1>3 DEF Recovering
<1>5. Ordered'
  BY <1>1, <1>4, Numbers, StillProceeds, OrderKeep DEF LineInv
<1> QED
  BY <1>1, <1>5, QuietLine

\* What is asked for are the events committed by now.
LEMMA SynchronizeLine ==
    ASSUME StoreInv, StoreInv', LineInv, NEW p \in Proc, Synchronize(p) \/ SynchronizeOther(p)
    PROVE  LineInv'
<1>0. PICK w \in {Idle, StartsOver, Extends} : Synchronizes(p, w)
  BY Synchronized
<1>1. /\ store[p].open /\ work[p].at = "idle" /\ owned = p
      /\ store' = [store EXCEPT ![p].highest = Seen(p)]
      /\ UNCHANGED <<log, refs>> /\ work' = [work EXCEPT ![p] = w]
      /\ \/ Cleanup(p, store[p].highest)
         \/ UNCHANGED <<current, gens, temps>>
  BY <1>0 DEF Synchronizes
<1>2. p \in Worker /\ current # NoManifest /\ store[p].highest \in Epoch
  BY <1>1, Facts, Processes, Stores DEF StoreInv, Alone
<1>3. \A q \in Proc : store'[q].recovery = store[q].recovery
  BY <1>1, Sees, SeenIs
<1>4. /\ current' = current /\ temps' \subseteq temps
      /\ CleanupLocked(p, store[p].highest) \/ UNCHANGED <<current, gens, temps>>
      /\ UNCHANGED gens \/ \A q \in Proc : work[q].at \notin Making
  BY <1>1, <1>2, CleanupOrder
<1>5. work'[p] = w /\ \A q \in Proc : q # p => work'[q] = work[q]
  BY <1>1, Facts
<1>6. current.count <= log /\ current.count \in Nat /\ log \in Nat
  BY Numbers DEF LineInv, Ordered
<1>7. Proceeds(p)
  <2>1. CASE w = Idle
    BY <1>5, <2>1, Empty DEF Proceeds
  <2>2. CASE w \in {StartsOver, Extends}
    <3>1. /\ w.at = "wait" /\ w.to = log /\ w.seen = current
          /\ w.mode \in {"copy", "fresh"} /\ w.from \in {0, current.count}
      BY <2>2, NextWork
    <3> QED
      BY <1>5, <1>6, <3>1 DEF Proceeds, Chosen
  <2> QED
    BY <2>1, <2>2
<1>8. \A q \in Proc : Proceeds(q)
  BY <1>4, <1>5, <1>7 DEF Proceeds
<1>9. Wears /\ (Ordered' => LineInv')
  BY <1>1, <1>2, <1>4, CleanupLine
<1>10. Ordered'
  BY <1>1, <1>3, <1>4, <1>6, <1>8, <1>9, OrderKeep DEF LineInv
<1> QED
  BY <1>9, <1>10

\* publish builds on the current revision, or on the damaged one it was opened on.
LEMMA BeginLine ==
    ASSUME StoreInv, StoreInv', LineInv, NEW p \in Proc, Begin(p) PROVE LineInv'
<1> DEFINE n == minted + 1
<1>1. /\ work[p].at = "wait" /\ minted < MaxGens
      /\ gens' = [gens EXCEPT ![n] = [Unborn EXCEPT !.at = "live"]]
      /\ UNCHANGED <<log, current, temps, refs>>
  BY DEF Begin
<1>2. /\ work'[p].at = "build" /\ work'[p].to = work[p].to /\ work'[p].from = work[p].from
      /\ work'[p].seen = work[p].seen /\ work'[p].mode = work[p].mode
      /\ work'[p].epoch = NextEpoch(p) /\ work'[p].previous = Previous(p)
      /\ \A q \in Proc : q # p => work'[q] = work[q]
  BY Facts DEF Begin, Work
<1>3. \A q \in Proc : store'[q].recovery = store[q].recovery
  BY Facts DEF Begin, Store
<1>4. n \in GenId /\ gens[n] = Unborn /\ refs[n] = 0
  BY <1>1, Facts, Bounds DEF StoreInv, Named, GenId
<1>5. \A g \in GenId : g # n => gens'[g] = gens[g]
  BY <1>1, Facts
<1>6. Wears
  BY <1>4, <1>5, Empty DEF Wears
<1>7. Chosen(p) /\ work[p].to <= log
  BY <1>1 DEF LineInv, Ordered
<1>8. OnPrevious(p)'
  <2>1. \/ Previous(p) = current
        \/ Previous(p) # NoManifest /\ ~gens[Previous(p).gen].intact
    BY DEF Previous, LineInv, Ordered, Recovering
  <2>2. Previous(p) # NoManifest => Previous(p).gen \in GenId
    BY Facts, Stores, Manifests DEF Previous
  <2>3. ~gens[Previous(p).gen].intact /\ Previous(p) # NoManifest =>
           ~gens'[Previous(p).gen].intact
    BY <1>6, <2>2 DEF Wears
  <2> QED
    BY <1>1, <1>2, <2>1, <2>3 DEF OnPrevious, NextEpoch
<1>9. Proceeds(p)
  BY <1>2, <1>7, <1>8 DEF Proceeds, Chosen, Making
<1>10. \A q \in Proc : q # p => work[q].at \notin Making
  BY OneMaker DEF Begin
<1>11. \A q \in Proc : Proceeds(q)
  BY <1>2, <1>9, <1>10 DEF Proceeds
<1>12. Ordered'
  BY <1>1, <1>3, <1>6, <1>11, Numbers, OrderKeep DEF LineInv
<1> QED
  BY <1>1, <1>4, <1>5, <1>12, Empty, QuietLine

\* A copy is of the pointer's revision, or useless.
LEMMA CopyLine ==
    ASSUME StoreInv, StoreInv', LineInv, NEW p \in Proc, Copy(p) PROVE LineInv'
<1> DEFINE g == work[p].gen
           k == work[p].previous.gen
<1>1. /\ work[p].at = "build" /\ work[p].previous # NoManifest
      /\ gens' = [gens EXCEPT ![g] = gens[k]]
      /\ UNCHANGED <<log, current, temps, store, refs>>
  BY DEF Copy, Copyable
<1>2. /\ BuildingOf(p) /\ g \in GenId
      /\ \A q \in Proc : q # p => work[q].at \notin Making
  BY <1>1, Makers DEF Making
<1>3. gens[g].state = "building" /\ gens[g].intact /\ refs[g] = 0 /\ k < g
  BY <1>1, <1>2 DEF BuildingOf
<1>4. k \in GenId /\ k # g
  BY <1>1, <1>2, <1>3, Facts, Works, Manifests, Bounds DEF GenId
<1>5. gens'[g] = gens[k] /\ \A h \in GenId : h # g => gens'[h] = gens[h]
  BY <1>1, <1>2, Facts
<1>6. /\ work'[p].at = "copied" /\ work'[p].to = work[p].to /\ work'[p].from = work[p].from
      /\ work'[p].seen = work[p].seen /\ work'[p].mode = work[p].mode /\ work'[p].gen = g
      /\ work'[p].epoch = work[p].epoch /\ work'[p].previous = work[p].previous
      /\ \A q \in Proc : q # p => work'[q] = work[q]
  BY Facts DEF Copy, Work
<1>7. Wears
  BY <1>3, <1>5 DEF Wears
<1>8. Chosen(p) /\ work[p].to <= log
  BY <1>1 DEF LineInv, Ordered, Making
<1>9. ASSUME p \in Worker PROVE OnPrevious(p)'
  <2>1. /\ work[p].epoch = work[p].previous.epoch + 1
        /\ work[p].previous = current \/ ~gens[k].intact
    BY <1>1, <1>9 DEF LineInv, Ordered, OnPrevious, Making
  <2>2. gens[k].intact => /\ work[p].previous = current /\ gens[k].count = current.count
                          /\ gens[k].epoch = current.epoch
    BY <1>1, <2>1 DEF StoreInv, CurrentServable, Matches
  <2>3. gens'[k] = gens[k]
    BY <1>4, <1>5
  <2> HIDE DEF g, k
  <2>4. work'[p].previous.gen = k
    BY <1>6 DEF k
  <2> QED
    BY <1>1, <1>5, <1>6, <2>1, <2>2, <2>3, <2>4 DEF OnPrevious
<1>10. Proceeds(p)
  BY <1>6, <1>8, <1>9 DEF Proceeds, Chosen, Making
<1>11. \A q \in Proc : Proceeds(q)
  BY <1>2, <1>6, <1>10 DEF Proceeds
<1>12. Ordered'
  BY <1>1, <1>7, <1>11, Numbers, OrderKeep DEF LineInv
<1> QED
  BY <1>1, <1>3, <1>5, <1>12, QuietLine

\* What is built on a copy extends the pointer's revision.
LEMMA BuildLine ==
    ASSUME StoreInv, StoreInv', LineInv, NEW p \in Proc, Build(p) PROVE LineInv'
<1> DEFINE g == work[p].gen
<1>1. /\ work[p].at = Prepared(p) /\ work[p].at \in {"build", "copied"}
      /\ work[p].mode = "copy" => Contiguous(p)
      /\ UNCHANGED <<log, current, temps, store, refs>>
  BY DEF Build, Prepared
<1>2. /\ BuildingOf(p) /\ g \in GenId
      /\ \A q \in Proc : q # p => work[q].at \notin Making
  BY <1>1, Makers DEF Making
<1>3. /\ \A h \in GenId : h # g => gens'[h] = gens[h]
      /\ gens'[g].state = "ready" /\ gens'[g].epoch = work[p].epoch
      /\ gens'[g].intact = gens[g].intact
  BY <1>2, Facts DEF Build, Generation
<1>4. /\ work'[p].at = "ready" /\ work'[p].to = work[p].to /\ work'[p].from = work[p].from
      /\ work'[p].seen = work[p].seen /\ work'[p].mode = work[p].mode /\ work'[p].gen = g
      /\ work'[p].epoch = work[p].epoch /\ work'[p].previous = work[p].previous
      /\ \A q \in Proc : q # p => work'[q] = work[q]
  BY Facts DEF Build, Work
<1>5. Wears
  BY <1>3 DEF Wears
<1>6. Chosen(p) /\ work[p].to <= log
  BY <1>1 DEF LineInv, Ordered, Making
<1>7. ASSUME p \in Worker
      PROVE  /\ OnPrevious(p)'
             /\ gens[g].state = "ready" => gens'[g].epoch >= gens[g].epoch
  <2>1. OnPrevious(p)
    BY <1>1, <1>7 DEF LineInv, Ordered, Making
  <2>2. work[p].mode = "copy" =>
           /\ work[p].previous = current /\ gens[g].epoch = current.epoch
           /\ work[p].from = current.count
    BY <1>1, <2>1 DEF OnPrevious, Contiguous, Prepared
  <2>3. work[p].previous # NoManifest => work[p].previous.gen \in GenId
    BY <1>2, Facts, Works, Manifests
  <2>4. OnPrevious(p)'
    BY <1>1, <1>4, <1>5, <2>1, <2>2, <2>3 DEF OnPrevious, Wears
  <2>5. gens[g].state = "ready" => work[p].mode = "copy"
    BY <1>1, <1>2 DEF BuildingOf, Prepared
  <2>6. gens[g].state = "ready" => gens'[g].epoch >= gens[g].epoch
    BY <1>3, <2>1, <2>2, <2>5, Numbers DEF OnPrevious
  <2> QED
    BY <2>4, <2>6
<1>8. Proceeds(p)
  BY <1>4, <1>6, <1>7 DEF Proceeds, Chosen, Making
<1>9. \A q \in Proc : Proceeds(q)
  BY <1>2, <1>4, <1>8 DEF Proceeds
<1>10. Ordered'
  BY <1>1, <1>5, <1>9, Numbers, OrderKeep DEF LineInv
<1>11. CASE p \in Worker
  <2>1. refs[g] = 0
    BY <1>2 DEF BuildingOf
  <2> QED
    BY <1>1, <1>3, <1>7, <1>10, <1>11, <2>1, QuietLine
<1>12. CASE p = front
  <2>1. current = NoManifest
    BY <1>1, <1>12 DEF StoreInv, Alone
  <2>2. \A h \in GenId : refs'[h] = 0
    BY <1>1, <2>1 DEF StoreInv, Alone
  <2> QED
    BY <1>10, <2>2, UnreadKeep DEF LineInv
<1> QED
  BY <1>11, <1>12, Processes

\* Verifying and writing the manifest change nothing that it was decided on.
LEMMA WriteLine ==
    ASSUME StoreInv, StoreInv', LineInv, NEW p \in Proc, Verify(p) \/ WriteManifest(p)
    PROVE  LineInv'
<1>1. work[p].at \in {"ready", "verified"} /\ UNCHANGED <<log, gens, current, store, refs>>
  BY DEF Verify, WriteManifest, disk
<1>2. /\ work'[p].at \in {"verified", "written"} /\ work'[p].to = work[p].to
      /\ work'[p].from = work[p].from /\ work'[p].seen = work[p].seen
      /\ work'[p].mode = work[p].mode /\ work'[p].gen = work[p].gen
      /\ work'[p].epoch = work[p].epoch /\ work'[p].previous = work[p].previous
      /\ \A q \in Proc : q # p => work'[q] = work[q]
  BY Facts DEF Verify, WriteManifest, Work
<1>3. Chosen(p) /\ work[p].to <= log /\ (p \in Worker => OnPrevious(p))
  BY <1>1 DEF LineInv, Ordered, Making
<1>4. p \in Worker => OnPrevious(p)'
  BY <1>1, <1>2, <1>3 DEF OnPrevious
<1>5. Proceeds(p)
  BY <1>2, <1>3, <1>4 DEF Proceeds, Chosen, Making
<1>6. \A m \in temps' : m \in temps \/ m.count <= log
  BY <1>3 DEF Verify, WriteManifest, disk, Mine
<1>7. Ordered'
  BY <1>1, <1>2, <1>5, <1>6, Numbers, StillProceeds, OrderKeep DEF LineInv
<1> QED
  BY <1>1, <1>7, QuietLine

\* The cleanup that ends a publication.
LEMMA FinishLine ==
    ASSUME StoreInv, StoreInv', LineInv, NEW p \in Proc, Finish(p) PROVE LineInv'
<1>1. /\ work[p].at = "published" /\ CleanupLocked(p, store[p].highest)
      /\ store' = [store EXCEPT ![p].highest = Seen(p)]
      /\ work' = [work EXCEPT ![p] = Idle]
      /\ UNCHANGED <<log, refs>>
  BY DEF Finish
<1>2. current # NoManifest /\ store[p].highest \in Epoch
  BY <1>1, Pointed, Facts, Stores
<1>3. \A q \in Proc : store'[q].recovery = store[q].recovery
  BY <1>1, Sees, SeenIs
<1>4. /\ work'[p].at = "idle" /\ work'[p].to = 0
      /\ \A q \in Proc : q # p => work'[q] = work[q] /\ work[q].at \notin Making
  BY <1>1, Facts, Empty, OneMaker
<1>5. current' = current /\ temps' \subseteq temps
  BY <1>1, <1>2, CleanupOrder
<1>6. \A q \in Proc : Proceeds(q)
  BY <1>4 DEF Proceeds
<1>7. Wears /\ (Ordered' => LineInv')
  BY <1>1, <1>2, CleanupLine
<1>8. Ordered'
  BY <1>1, <1>3, <1>5, <1>6, <1>7, Numbers, OrderKeep DEF LineInv
<1> QED
  BY <1>7, <1>8

\* What a failed publication takes away was never read.
LEMMA GivesUpLine ==
    ASSUME StoreInv, StoreInv', LineInv, NEW p \in Proc, BeginRefused(p) \/ Fails(p)
    PROVE  LineInv'
<1>1. work[p].at \in {"wait"} \cup Making /\ GivesUp(p)
  BY DEF BeginRefused, Fails, Unpublished, Making
<1>2. /\ work'[p].at = "idle" /\ work'[p].to = 0
      /\ \A q \in Proc : q # p => work'[q] = work[q]
  BY <1>1, Facts, Empty DEF GivesUp
<1>3. UNCHANGED <<log, refs>>
  BY <1>1 DEF GivesUp
<1>4. \A q \in Proc : store'[q].recovery \in {NoManifest, store[q].recovery}
  BY <1>1, Facts, Empty DEF GivesUp
<1>5. CASE work[p].creates
  <2>1. current = NoManifest /\ current' = NoManifest /\ temps' = {} /\ NoRoot /\ p = front
    BY <1>1, <1>5, Processes DEF GivesUp, NoRoot, StoreInv, Alone, Making
  <2>2. \A q \in Proc : Proceeds(q)
    <3>1. \A q \in Worker : work[q].at = "idle"
      BY <2>1, Pointed
    <3> QED
      BY <1>2, <2>1, <3>1, Processes DEF Proceeds, Making
  <2>3. Ordered'
    BY <1>3, <1>4, <2>1, <2>2, Numbers, NoRootWears, OrderKeep DEF LineInv
  <2>4. \A g \in GenId : refs'[g] = 0
    BY <1>3, <2>1 DEF StoreInv, Alone
  <2> QED
    BY <2>3, <2>4, UnreadKeep DEF LineInv
<1>6. CASE ~work[p].creates
  <2>1. /\ current' = current /\ temps' \subseteq temps
        /\ gens' = IF work[p].gen = 0 THEN gens
                   ELSE [gens EXCEPT ![work[p].gen].at = IF @ = "live" THEN "gone" ELSE @]
    BY <1>1, <1>6 DEF GivesUp
  <2>2. CASE work[p].at = "wait"
    <3>1. UNCHANGED gens
      BY <2>1, <2>2 DEF StoreInv, Alone
    <3>2. \A q \in Proc : Proceeds(q)
      BY <1>2, <3>1 DEF Proceeds
    <3>3. Ordered'
      BY <1>3, <1>4, <2>1, <3>1, <3>2, Numbers, StillProceeds, OrderKeep DEF LineInv
    <3> QED
      BY <1>3, <3>1, <3>3, QuietLine
  <2>3. CASE work[p].at \in Making
    <3>1. /\ work[p].gen \in GenId /\ refs[work[p].gen] = 0
          /\ \A q \in Proc : q # p => work[q].at \notin Making
      BY <2>3, Makers DEF BuildingOf
    <3>2. \A g \in GenId : /\ gens'[g].state = gens[g].state /\ gens'[g].epoch = gens[g].epoch
                           /\ gens'[g].intact = gens[g].intact
                           /\ g # work[p].gen => gens'[g] = gens[g]
      BY <2>1, <3>1, Facts DEF Generation
    <3>3. Wears
      BY <3>2 DEF Wears
    <3>4. \A q \in Proc : Proceeds(q)
      BY <1>2, <3>1 DEF Proceeds
    <3>5. Ordered'
      BY <1>3, <1>4, <2>1, <3>3, <3>4, Numbers, OrderKeep DEF LineInv
    <3> QED
      BY <1>3, <3>1, <3>2, <3>5, Numbers, QuietLine
  <2> QED
    BY <1>1, <2>2, <2>3
<1> QED
  BY <1>5, <1>6

\* The replace moves the pointer ahead of the one that was built on and of the
\* one that was seen.
LEMMA ReplaceLine ==
    ASSUME StoreInv, StoreInv', LineInv, NEW p \in Proc, Replace(p)
    PROVE  LineInv' /\ AdvancesOnly
<1>1. /\ work[p].at = "written" /\ current' = Mine(p) /\ temps' = temps \ {Mine(p)}
      /\ UNCHANGED <<log, gens, refs>>
  BY DEF Replace
<1>2. /\ Mine(p).count = work[p].to /\ Mine(p).epoch = work[p].epoch
      /\ \A q \in Proc : q # p => work[q].at \notin Making \cup {"published"}
  BY <1>1, Makers DEF Making, Mine
<1>3. Chosen(p) /\ work[p].to <= log /\ (p \in Worker => OnPrevious(p))
  BY <1>1 DEF LineInv, Ordered, Making
<1>4. /\ work'[p].at = "published" /\ work'[p].to = work[p].to
      /\ store'[p].recovery = NoManifest
      /\ \A q \in Proc : q # p => work'[q] = work[q] /\ store'[q] = store[q]
  BY Facts DEF Replace, Work, Store
<1>5. \A q \in Proc : work'[q].at \notin Making
  BY <1>2, <1>4 DEF Making
<1>6. \A q \in Proc : /\ work'[q].to <= log /\ Recovering(q)'
                      /\ work'[q].at = "wait" => Chosen(q)'
  BY <1>1, <1>3, <1>4 DEF LineInv, Ordered, Recovering, Chosen
<1>7. Ordered'
  BY <1>1, <1>2, <1>3, <1>5, <1>6, Processes DEF LineInv, Ordered
<1>8. LineInv'
  BY <1>1, <1>7, Numbers, QuietLine
<1>9. AdvancesOnly
  <2> SUFFICES ASSUME Moves
               PROVE  /\ \/ current'.epoch > current.epoch
                         \/ \E q \in Worker : StartedOver(q) /\ work[q].previous # current
                      /\ \/ current'.count >= current.count
                         \/ \E q \in Worker : StartedOver(q) /\ work[q].seen # current
    BY DEF AdvancesOnly
  <2>1. p \in Worker
    BY <1>1, Processes DEF Moves, StoreInv, Alone
  <2>2. OnPrevious(p)
    BY <1>3, <2>1
  <2>3. CASE work[p].mode = "copy"
    <3>1. work[p].previous = current /\ work[p].from = current.count
      BY <1>1, <2>2, <2>3 DEF OnPrevious
    <3> QED
      BY <1>1, <1>2, <1>3, <2>2, <3>1, Numbers DEF OnPrevious, Chosen
  <2>4. CASE work[p].mode = "fresh"
    <3>1. StartedOver(p)
      BY <1>1, <2>4 DEF StartedOver
    <3>2. work[p].previous = current => current'.epoch > current.epoch
      BY <1>1, <1>2, <2>2, Numbers DEF OnPrevious
    <3>3. work[p].seen = current => current'.count >= current.count
      BY <1>1, <1>2, <1>3, Numbers DEF Chosen
    <3> QED
      BY <2>1, <3>1, <3>2, <3>3
  <2> QED
    BY <1>3, <2>3, <2>4 DEF Chosen
<1> QED
  BY <1>8, <1>9

\* Every step keeps what it was decided on.
LEMMA NextLine ==
    ASSUME StoreInv, StoreInv', LineInv, [Next]_vars
    PROVE  LineInv'
<1>1. CASE UNCHANGED vars
  <2>1. UNCHANGED <<log, gens, current, temps, store, refs, work>>
    BY <1>1 DEF vars, disk, mem
  <2>2. Ordered'
    BY <2>1, Numbers, StillProceeds, OrderKeep DEF LineInv
  <2> QED
    BY <2>1, <2>2, QuietLine
<1>2. CASE Commit \/ Damage \/ QuarantineRoot \/ Create \/ CreateDies
  BY <1>2, CommitLine, DamageLine, QuarantineLine, CreateLine
<1>3. CASE Close \/ OpenReader \/ CloseReader
  BY <1>3, DeathLine, OpenReaderLine, CloseReaderLine
<1>4. ASSUME NEW p \in Proc, \/ OpenCurrent(p) \/ OpenRecovers(p) \/ Synchronize(p)
                             \/ SynchronizeOther(p) \/ Publish(p) \/ Exit(p) \/ Die(p)
      PROVE  LineInv'
  <2>1. CASE \/ OpenCurrent(p) \/ OpenRecovers(p) \/ Synchronize(p)
             \/ SynchronizeOther(p) \/ Exit(p) \/ Die(p)
    BY <2>1, OpenCurrentLine, OpenRecoversLine, SynchronizeLine, DeathLine
  <2>2. CASE Publish(p)
    BY <2>2, BeginLine, GivesUpLine, CopyLine, BuildLine, WriteLine, ReplaceLine, FinishLine
       DEF Publish
  <2> QED
    BY <1>4, <2>1, <2>2
<1> QED
  BY <1>1, <1>2, <1>3, <1>4 DEF Next

\* Every step but the replace leaves the pointer, finds it missing or takes
\* it away with its root.
LEMMA NextAdvances ==
    ASSUME StoreInv, StoreInv', LineInv, Next
    PROVE  AdvancesOnly
<1>1. ASSUME current' \in {current, NoManifest} \/ current = NoManifest PROVE AdvancesOnly
  BY <1>1 DEF AdvancesOnly, Moves
<1>2. CASE Commit \/ Damage \/ QuarantineRoot \/ Create \/ CreateDies \/ Close \/ OpenReader
  BY <1>1, <1>2 DEF Commit, Damage, QuarantineRoot, NoRoot, Create, CreateDies, Close, Gone,
       OpenReader, disk
<1>3. CASE CloseReader
  <2>1. PICK g \in GenId : refs[g] > 0 /\ Cleanup(front, store[front].highest)
    BY <1>3 DEF CloseReader
  <2>2. current # NoManifest /\ store[front].highest \in Epoch
    BY <2>1, Pointed, Facts, Stores, Processes
  <2> QED
    BY <1>1, <2>1, <2>2, Processes, CleanupOrder
<1>4. ASSUME NEW p \in Proc, OpenRecovers(p) \/ Exit(p) \/ Die(p) PROVE AdvancesOnly
  BY <1>1, <1>4 DEF OpenRecovers, Exit, Die, Gone, disk
<1>5. ASSUME NEW p \in Proc, OpenCurrent(p) PROVE AdvancesOnly
  <2>1. 0 \in Epoch
    BY Bounds DEF Epoch
  <2>2. CASE current # NoManifest
    <3>1. Resolved(0) = current
      BY <2>1, <2>2, ResolvedIs
    <3>2. CleanupLocked(p, 0) \/ current' = current
      BY <1>5, <3>1 DEF OpenCurrent
    <3> QED
      BY <1>1, <2>1, <2>2, <3>2, CleanupOrder
  <2> QED
    BY <1>1, <2>2
<1>6. ASSUME NEW p \in Proc, Synchronize(p) \/ SynchronizeOther(p) PROVE AdvancesOnly
  <2>1. Cleanup(p, store[p].highest) \/ UNCHANGED <<current, gens, temps>>
    BY <1>6 DEF Synchronize, SynchronizeOther, Synchronizes
  <2>2. store[p].highest \in Epoch
    BY Facts, Stores
  <2> QED
    BY <1>1, <2>1, <2>2, CleanupOrder
<1>7. ASSUME NEW p \in Proc, Publish(p) PROVE AdvancesOnly
  <2>1. CASE Begin(p) \/ Copy(p) \/ Build(p) \/ Verify(p) \/ WriteManifest(p)
    BY <1>1, <2>1 DEF Begin, Copy, Build, Verify, WriteManifest, disk
  <2>2. CASE BeginRefused(p) \/ Fails(p)
    BY <1>1, <2>2 DEF BeginRefused, Fails, GivesUp, NoRoot
  <2>3. CASE Finish(p)
    <3>1. store[p].highest \in Epoch
      BY Facts, Stores
    <3> QED
      BY <1>1, <2>3, <3>1, CleanupOrder DEF Finish
  <2>4. CASE Replace(p)
    BY <2>4, ReplaceLine
  <2> QED
    BY <1>7, <2>1, <2>2, <2>3, <2>4 DEF Publish
<1> QED
  BY <1>2, <1>3, <1>4, <1>5, <1>6, <1>7 DEF Next

\* Both invariants hold throughout.
THEOREM LineInvariant == Spec => [](StoreInv /\ LineInv)
<1>1. Init => StoreInv /\ LineInv
  <2> SUFFICES ASSUME Init PROVE StoreInv /\ LineInv
    OBVIOUS
  <2>1. StoreInv
    BY InitHolds
  <2>2. /\ \A q \in Proc : store[q] = Closed /\ work[q] = Idle
        /\ \A g \in GenId : refs[g] = 0
        /\ current = NoManifest /\ temps = {}
    BY DEF Init
  <2>3. Ordered
    BY <2>1, <2>2, Empty, Numbers, Processes DEF Ordered, Recovering, Making
  <2>4. Read /\ HeldSurvives
    BY <2>2 DEF Read, HeldSurvives
  <2> QED
    BY <2>1, <2>3, <2>4 DEF LineInv
<1>2. StoreInv /\ LineInv /\ [Next]_vars => (StoreInv /\ LineInv)'
  BY NextKeeps, NextLine
<1> QED
  BY <1>1, <1>2, PTL DEF Spec

\* A revision that the foreground reads goes from under it only once two more
\* of its epoch or later are ready, although the workers that clean up do not
\* know of its readers.
THEOREM ReadersSurvive == Spec => []HeldSurvives
<1>1. LineInv => HeldSurvives
  BY DEF LineInv
<1> QED
  BY <1>1, LineInvariant, PTL

\* current.json moves only to a later epoch and never to fewer events, across
\* recoveries, failed publications, deaths and other publishers, unless a worker
\* that starts over was overtaken by another one.
THEOREM PointerOnlyAdvances == Spec => PointerAdvances
<1>1. (StoreInv /\ LineInv) /\ (StoreInv /\ LineInv)' /\ [Next]_vars => [AdvancesOnly]_vars
  BY NextAdvances
<1> QED
  BY <1>1, LineInvariant, PTL DEF Spec, PointerAdvances

=============================================================================
