-------------------------- MODULE LedgerCacheProofs --------------------------
(***************************************************************************)
(* What the ledger facade promises, for any length of log and any size of   *)
(* decision.  The private fold and the view on record are sound only        *)
(* because nobody else holds their cells, because an identity is read with   *)
(* the fold it names, and because a fold marked reusable is not touched      *)
(* until it is reused: LedgerInv says so, part by part.                      *)
(***************************************************************************)
EXTENDS LedgerCache, SequenceTheorems, TLAPS

Committed == {"own", "other"}
Kinds == {"none", "read", "resolved", "append", "decide", "stage"}
Steps == {"idle", "snapshot", "publish", "append", "deciding", "committed"}
Cell == Ref \cup {NoRef}

Operation ==
    [kind : Kinds, pc : Steps, reusable : BOOLEAN, floor : Nat, proj : Cell,
     arg : Cell, seen : Seq(Event), chosen : Seq({"own"}), prefix : Identity,
     failed : BOOLEAN]

Types ==
    /\ log \in Seq(Committed) /\ Len(log) <= MaxLog
    /\ legacy \in BOOLEAN /\ writeFailed \in BOOLEAN
    /\ cached \in Identity /\ identity \in Identity
    /\ heap \in [Ref -> Seq(Event)]
    /\ basis \in Cell /\ proj \in Cell
    /\ owned \in HeadCount
    /\ held = {} \/ \E r \in Ref : held = {r}
    /\ op \in Operation

\* An identity names a prefix of the log, by its head if there is one.
Names(i) == i.head \in {NoHead, i.size} /\ i.size <= Len(log)
Identities == Names(cached) /\ Names(identity)

\* Only a decision has projections of its own.
Locals ==
    /\ op.pc = "idle" => op = Idle
    /\ op.pc \notin {"deciding", "committed"} => op.proj = NoRef /\ op.arg = NoRef
    /\ op.pc \in {"deciding", "committed"} => op.proj \in Ref
    /\ op.pc \notin {"deciding", "committed"} => op.chosen = << >>
    /\ op.pc = "deciding" /\ op.kind # "stage" => op.chosen = << >>

\* Nobody else holds the fold, or the projection of the decision under way.
Separate ==
    /\ basis # NoRef => basis \notin held \cup {proj, op.arg}
    /\ op.proj # NoRef => op.proj \notin held \cup {proj, op.arg}
    /\ Staging => op.arg \in Ref \ held

\* The decision under way is made on the log, as its identity says.
Deciding ==
    op.pc = "deciding" =>
        /\ op.seen = log
        /\ heap[op.proj] = log
        /\ op.prefix = Now
        /\ cached = Now
        /\ Staging /\ StageActive => heap[op.arg] = log \o op.chosen

\* What was committed continues what the decision was made on.
Landed ==
    op.pc = "committed" =>
        /\ Len(heap[op.proj]) = op.prefix.size
        /\ op.prefix.size + Len(op.chosen) <= Len(log)
        /\ heap[op.proj] \o op.chosen = Prefix(log, op.prefix.size + Len(op.chosen))

\* The view on record is the prefix its record names.
OnRecord ==
    /\ owned # NoHead =>
          /\ proj \in Ref
          /\ owned <= Len(log)
          /\ heap[proj] = Prefix(log, owned)
    /\ op.pc \in {"snapshot", "append", "deciding", "committed"} => owned = NoHead

\* A fold found reusable stays so until it is advanced.
StillReusable ==
    op.reusable /\ op.pc \in {"snapshot", "append"} => BasisReusable

\* A read answers from at least what was committed when it asked.
Floor ==
    /\ op.pc = "snapshot" => op.floor <= Len(log)
    /\ op.pc = "publish" => op.floor <= identity.size

LedgerInv ==
    /\ Types
    /\ Identities
    /\ Locals
    /\ Separate
    /\ BasisExact
    /\ Deciding
    /\ Landed
    /\ OnRecord
    /\ StillReusable
    /\ Floor

-----------------------------------------------------------------------------
\* Sequences.

\* A batch of the ledger's own events is one.
LEMMA OwnBatch ==
    ASSUME NEW n \in Nat
    PROVE  Own(n) \in Seq({"own"}) /\ Len(Own(n)) = n
  BY DEF Own

\* What a ledger folds is made of events.
LEMMA EventSeqs ==
    /\ Seq(Committed) \subseteq Seq(Event)
    /\ Seq({"own"}) \subseteq Seq(Committed)
    /\ Seq({"own"}) \subseteq Seq(Event)
  BY SeqMonotonic DEF Committed, Event

\* The prefix of a log, and its length; the whole log is one.
LEMMA PrefixOf ==
    ASSUME NEW S, NEW s \in Seq(S), NEW n \in 0 .. Len(s)
    PROVE  /\ Prefix(s, n) \in Seq(S)
           /\ Len(Prefix(s, n)) = n
           /\ \A i \in 1 .. n : Prefix(s, n)[i] = s[i]
  BY DEF Prefix

\* The prefix as long as the log is the log.
LEMMA WholePrefix ==
    ASSUME NEW S, NEW s \in Seq(S)
    PROVE  Prefix(s, Len(s)) = s
  BY SubSeqFull DEF Prefix

\* A prefix stays one as the log grows.
LEMMA PrefixStays ==
    ASSUME NEW S, NEW s \in Seq(S), NEW t \in Seq(S), NEW n \in 0 .. Len(s)
    PROVE  Prefix(s \o t, n) = Prefix(s, n)
<1>1. /\ s \o t \in Seq(S)
      /\ Len(s \o t) = Len(s) + Len(t)
      /\ \A i \in 1 .. Len(s) : (s \o t)[i] = s[i]
  BY ConcatProperties
<1>2. /\ Len(s) \in Nat /\ Len(t) \in Nat
      /\ n \in 0 .. Len(s \o t)
  BY <1>1
<1>3. /\ Prefix(s, n) \in Seq(S) /\ Prefix(s \o t, n) \in Seq(S)
      /\ Len(Prefix(s, n)) = n /\ Len(Prefix(s \o t, n)) = n
      /\ \A i \in 1 .. n : Prefix(s, n)[i] = s[i]
      /\ \A i \in 1 .. n : Prefix(s \o t, n)[i] = (s \o t)[i]
  BY <1>1, <1>2, PrefixOf
<1>4. \A i \in 1 .. n : Prefix(s, n)[i] = Prefix(s \o t, n)[i]
  BY <1>1, <1>3
<1> QED
  BY <1>3, <1>4, SeqEqual

\* The prefix folded so far and the rest of the log are the log.
LEMMA FoldTheRest ==
    ASSUME NEW S, NEW s \in Seq(S), NEW n \in 0 .. Len(s)
    PROVE  Prefix(s, n) \o SubSeq(s, n + 1, Len(s)) = s
<1>1. SubSeq(s, 1, n) \o SubSeq(s, n + 1, Len(s)) = SubSeq(s, 1, Len(s))
  <2>1. /\ 1 \in 1 .. Len(s) + 1
        /\ n \in 1 - 1 .. Len(s)
        /\ Len(s) \in n .. Len(s)
    OBVIOUS
  <2> QED
    BY <2>1, ConcatAdjacentSubSeq
<1> QED
  BY <1>1, SubSeqFull DEF Prefix

\* A log, what was added to it and what is being added.
LEMMA ThreeParts ==
    ASSUME NEW s \in Seq(Event), NEW t \in Seq(Event), NEW u \in Seq(Event)
    PROVE  (s \o t) \o u = s \o (t \o u)
<1>1. s \o t \in Seq(Event) /\ t \o u \in Seq(Event)
  BY ConcatProperties
<1> QED
  BY <1>1, SMTT(30)

-----------------------------------------------------------------------------
\* Projections are taken from a heap of six cells.

\* There is always a cell nobody reaches.
LEMMA NewRefIsFree ==
    ASSUME Types
    PROVE  NewRef \in Ref /\ NewRef \notin {basis, proj, op.proj, op.arg} \cup held
<1>1. \E r \in Ref : r \notin Reachable
  BY DEF Types, Reachable, Ref, NoRef, Cell, Operation
<1> QED
  BY <1>1 DEF NewRef, Reachable, Ref, NoRef

\* Before a decision has projections there are two.
LEMMA NewerRefIsFree ==
    ASSUME Types, op.proj = NoRef, op.arg = NoRef
    PROVE  /\ NewerRef \in Ref
           /\ NewerRef \notin {basis, proj, NewRef} \cup held
<1>1. NewRef \in Ref
  BY NewRefIsFree
<1>2. \E r \in Ref : r \notin Reachable \cup {NewRef}
  BY <1>1 DEF Types, Reachable, Ref, NoRef, Cell
<1> QED
  BY <1>2 DEF NewerRef, Reachable, Ref, NoRef

\* What a step leaves on the heap is there for whoever reaches it.
LEMMA Kept ==
    ASSUME NEW h \in [Ref -> Seq(Event)], Keep(h)
    PROVE  /\ heap' \in [Ref -> Seq(Event)]
           /\ \A r \in Ref : r \in {basis', proj', op'.proj, op'.arg} \cup held' =>
                  heap'[r] = h[r]
<1>1. << >> \in Seq(Event)
  BY EmptySeq
<1> QED
  BY <1>1 DEF Keep, Reachable, Ref, NoRef

\* The identity of the log is an identity.
LEMMA NowNames ==
    ASSUME Types
    PROVE  /\ Now \in Identity
           /\ Names(Now)
           /\ Now.size = Len(log)
           /\ Now.head \in {NoHead, Len(log)}
  BY LedgerBoundsAssumption DEF Types, Now, Identity, HeadCount, Names, NoHead
\* Between operations there are no locals.
LEMMA IdleIsOperation ==
    /\ Idle \in Operation /\ Idle.pc = "idle" /\ ~Idle.reusable
    /\ Idle.proj = NoRef /\ Idle.arg = NoRef /\ Idle.chosen = << >>
<1>1. << >> \in Seq(Event) /\ << >> \in Seq({"own"})
  BY EmptySeq
<1> QED
  BY <1>1, LedgerBoundsAssumption
  DEF Idle, Operation, Kinds, Steps, Cell, NoRef, Identity, HeadCount, NoHead

-----------------------------------------------------------------------------
\* Every operation keeps the ledger's invariant.

\* A ledger without a fold satisfies the invariant.
LEMMA InitHolds == Init => LedgerInv
<1> SUFFICES ASSUME Init PROVE LedgerInv
  OBVIOUS
<1>1. log \in Seq(Committed) /\ Len(log) <= MaxLog
  <2>1. /\ << >> \in Seq(Committed) /\ Len(<< >>) = 0
        /\ <<"other">> \in Seq(Committed) /\ Len(<<"other">>) = 1
    BY EmptySeq DEF Committed
  <2>2. log = << >> \/ log = <<"other">>
    BY DEF Init
  <2>3. MaxLog \in Nat /\ 1 <= MaxLog
    BY LedgerBoundsAssumption
  <2>4. CASE log = << >>
    BY <2>1, <2>3, <2>4
  <2>5. CASE log = <<"other">>
    BY <2>1, <2>3, <2>5
  <2> QED
    BY <2>2, <2>4, <2>5
<1>2. << >> \in Seq(Event) /\ << >> \in Seq({"own"})
  BY EmptySeq
<1>3. Now \in Identity /\ Names(Now)
  BY <1>1 DEF Init, Now, Identity, HeadCount, Names, NoHead
<1>4. Idle \in Operation
  BY IdleIsOperation
<1>5. Types
  BY <1>1, <1>2, <1>3, <1>4 DEF Init, Types, Cell, HeadCount
<1>6. /\ op = Idle /\ op.pc = "idle" /\ op.proj = NoRef /\ op.arg = NoRef
      /\ op.chosen = << >> /\ ~op.reusable
  BY IdleIsOperation DEF Init
<1> QED
  BY <1>3, <1>5, <1>6
  DEF Init, LedgerInv, Identities, Locals, Separate, BasisExact, Deciding, Landed,
      OnRecord, StillReusable, Floor, Staging

\* A read begins.
LEMMA ReadKeeps ==
    ASSUME LedgerInv, NEW kind \in {"read", "resolved"}, Read(kind)
    PROVE  LedgerInv'
<1> USE DEF LedgerInv
<1>1. /\ Now \in Identity /\ Names(Now) /\ Now.size = Len(log)
  BY NowNames
<1>2. /\ op' \in Operation
      /\ op'.pc \in {"snapshot", "publish"}
      /\ op'.proj = NoRef /\ op'.arg = NoRef /\ op'.chosen = << >>
      /\ op'.floor = Len(log)
      /\ op'.reusable = BasisReusable
      /\ op'.pc = "publish" => Now = identity
  <2>1. << >> \in Seq(Event) /\ << >> \in Seq({"own"})
    BY EmptySeq
  <2>2. Len(log) \in Nat
    BY DEF Types
  <2>3. BasisReusable \in BOOLEAN
    BY DEF BasisReusable
  <2> DEFINE next == [Idle EXCEPT !.kind = kind, !.reusable = BasisReusable,
                                  !.floor = Len(log), !.pc = op'.pc]
  <2>4. op' = next /\ op'.pc \in {"snapshot", "publish"}
    BY DEF Read, Idle
  <2>5. op'.pc = "publish" => Now = identity
    BY DEF Read, Idle
  <2>6. next \in Operation
    BY <2>2, <2>3, <2>4, IdleIsOperation DEF Operation, Kinds, Steps
  <2> QED
    BY <2>4, <2>5, <2>6 DEF Idle
<1>3. /\ UNCHANGED <<log, legacy, writeFailed, heap, basis, identity, proj, held>>
      /\ cached' = Now
      /\ owned' \in {owned, NoHead}
      /\ op'.pc = "snapshot" => owned' = NoHead
      /\ op.pc = "idle"
  BY DEF Read, basisVars, Idle
<1>4. Types'
  BY <1>1, <1>2, <1>3 DEF Types, HeadCount
<1>5. Identities' /\ Locals' /\ Separate' /\ BasisExact'
  BY <1>1, <1>2, <1>3
  DEF Identities, Names, Locals, Separate, BasisExact, Staging
<1>6. Deciding' /\ Landed' /\ OnRecord' /\ StillReusable' /\ Floor'
  BY <1>1, <1>2, <1>3, <1>4
  DEF Deciding, Landed, OnRecord, StillReusable, BasisReusable, Floor, Types
<1> QED
  BY <1>4, <1>5, <1>6

\* Advancing gives a fold of the whole log, in the basis when it may be reused and in a new object otherwise.
LEMMA Advanced ==
    ASSUME LedgerInv, op.pc \in {"snapshot", "append"}
    PROVE  /\ Advance(log, op.reusable).ref \in Ref
           /\ Advance(log, op.reusable).events = log
           /\ Advance(log, op.reusable).ref \notin held \cup {proj}
           /\ Advance(log, op.reusable).ref \in {basis, NewRef}
           /\ Advance(log, op.reusable).ref # basis => Advance(log, op.reusable).ref = NewRef
<1> USE DEF LedgerInv
<1>1. NewRef \in Ref /\ NewRef \notin {basis, proj, op.proj, op.arg} \cup held
  BY NewRefIsFree
<1>2. CASE op.reusable
  <2>1. /\ basis \in Ref /\ basis \notin held \cup {proj}
        /\ identity.head = Len(heap[basis])
        /\ identity.head # NoHead
    BY <1>2 DEF StillReusable, BasisReusable, Separate, Types, Cell
  <2>2. /\ identity.size \in 0 .. Len(log)
        /\ identity.size = Len(heap[basis])
    BY <2>1 DEF Identities, Names, Types, Identity
  <2>3. heap[basis] = Prefix(log, identity.size)
    BY <2>1 DEF BasisExact, Ref, NoRef
  <2>4. heap[basis] \o SubSeq(log, Len(heap[basis]) + 1, Len(log)) = log
    BY <2>2, <2>3, FoldTheRest DEF Types
  <2> QED
    BY <1>2, <2>1, <2>4 DEF Advance
<1>3. CASE ~op.reusable
  BY <1>1, <1>3 DEF Advance
<1> QED
  BY <1>2, <1>3

\* The fold is brought up to the log.
LEMMA ReadSnapshotKeeps ==
    ASSUME LedgerInv, ReadSnapshot
    PROVE  LedgerInv'
<1> USE DEF LedgerInv
<1> DEFINE fold == Advance(log, op.reusable)
           left == [heap EXCEPT ![fold.ref] = fold.events]
<1>1. /\ fold.ref \in Ref /\ fold.events = log
      /\ fold.ref \notin held \cup {proj}
  BY Advanced DEF ReadSnapshot
<1>2. /\ Now \in Identity /\ Names(Now)
      /\ Now.size = Len(log) /\ Now.head \in {NoHead, Len(log)}
  BY NowNames
<1>3. /\ UNCHANGED <<log, legacy, writeFailed, owned, held>>
      /\ cached' = Now /\ identity' = Now
      /\ proj' = NoRef /\ basis' = fold.ref
      /\ op' = [op EXCEPT !.pc = "publish"]
      /\ op.pc = "snapshot"
      /\ Keep(left)
  BY <1>1, <1>2 DEF ReadSnapshot, SetBasis
<1>4. left \in [Ref -> Seq(Event)] /\ left[fold.ref] = log
  BY <1>1, EventSeqs DEF Types
<1>5. /\ heap' \in [Ref -> Seq(Event)]
      /\ heap'[basis'] = log
  BY <1>1, <1>3, <1>4, Kept
<1>6. /\ op' \in Operation
      /\ op'.pc = "publish" /\ op'.floor = op.floor
      /\ op'.proj = NoRef /\ op'.arg = NoRef /\ op'.chosen = << >>
  BY <1>3 DEF Types, Operation, Steps, Locals
<1>7. Types'
  BY <1>1, <1>2, <1>3, <1>5, <1>6 DEF Types, Cell
<1>8. Identities' /\ Locals' /\ Separate'
  BY <1>1, <1>2, <1>3, <1>6
  DEF Identities, Names, Locals, Separate, Staging, Ref, NoRef
<1>9. BasisExact'
  <2>1. Prefix(log, Len(log)) = log
    BY WholePrefix DEF Types
  <2> QED
    BY <1>2, <1>3, <1>5, <2>1 DEF BasisExact
<1>10. Deciding' /\ Landed' /\ OnRecord' /\ StillReusable' /\ Floor'
  BY <1>2, <1>3, <1>6
  DEF Deciding, Landed, OnRecord, StillReusable, Floor
<1> QED
  BY <1>7, <1>8, <1>9, <1>10

\* A read answers with the view it had, or with a copy of the fold.
LEMMA PublishKeeps ==
    ASSUME LedgerInv, Publish
    PROVE  LedgerInv'
<1> USE DEF LedgerInv
<1>1. NewRef \in Ref /\ NewRef \notin {basis, proj, op.proj, op.arg} \cup held
  BY NewRefIsFree
<1>2. /\ UNCHANGED <<log, legacy, cached, writeFailed, basis, identity>>
      /\ op' = Idle /\ op.pc = "publish" /\ basis \in Ref
  BY DEF Publish, storeVars, basisVars, Types, Cell
<1>3. /\ Idle \in Operation /\ Idle.pc = "idle"
      /\ Idle.proj = NoRef /\ Idle.arg = NoRef /\ Idle.chosen = << >>
  BY IdleIsOperation
<1>4. heap[basis] = Prefix(log, identity.size)
  BY <1>2 DEF BasisExact, Ref, NoRef
<1>5. CASE Witness # NoHead
  <2>1. /\ held' \in {held, {proj}} /\ UNCHANGED <<proj, owned>> /\ Keep(heap)
        /\ proj \in Ref
    BY <1>5 DEF Publish, GiveAway, Witness, Types, Cell
  <2>2. /\ heap' \in [Ref -> Seq(Event)]
        /\ heap'[basis] = heap[basis] /\ heap'[proj] = heap[proj]
    BY <1>2, <2>1, Kept DEF Types
  <2>3. Types'
    BY <1>2, <1>3, <2>1, <2>2 DEF Types
  <2> QED
    BY <1>2, <1>3, <1>4, <2>1, <2>2, <2>3
    DEF Identities, Names, Locals, Separate, Staging, BasisExact, Deciding, Landed,
        OnRecord, StillReusable, Floor
<1>6. CASE Witness = NoHead
  <2> DEFINE left == [heap EXCEPT ![NewRef] = heap[basis]]
  <2>1. /\ held' \in {held, {NewRef}} /\ proj' = NewRef /\ Keep(left)
        /\ owned' = IF identity.head = Len(heap[basis]) THEN identity.head ELSE NoHead
    BY <1>6 DEF Publish, GiveAway
  <2>2. /\ left \in [Ref -> Seq(Event)]
        /\ left[basis] = heap[basis] /\ left[NewRef] = heap[basis]
    BY <1>1, <1>2 DEF Types
  <2>3. /\ heap' \in [Ref -> Seq(Event)]
        /\ heap'[basis] = heap[basis] /\ heap'[proj'] = heap[basis]
    BY <1>1, <1>2, <2>1, <2>2, Kept
  <2>4. /\ owned' \in HeadCount
        /\ owned' # NoHead => owned' = identity.size /\ owned' <= Len(log)
    BY <2>1 DEF Types, Identities, Names, Identity, HeadCount
  <2>5. Types'
    BY <1>1, <1>2, <1>3, <2>1, <2>3, <2>4 DEF Types, Cell
  <2> QED
    BY <1>1, <1>2, <1>3, <1>4, <2>1, <2>3, <2>4, <2>5
    DEF Identities, Names, Locals, Separate, Staging, BasisExact, Deciding, Landed,
        OnRecord, StillReusable, Floor
<1> QED
  BY <1>5, <1>6

\* A question is answered from the private fold.
LEMMA ResolveKeeps ==
    ASSUME LedgerInv, Resolve
    PROVE  LedgerInv'
<1> USE DEF LedgerInv
<1>1. /\ UNCHANGED <<log, legacy, cached, writeFailed, heap, basis, identity, proj,
                     owned, held>>
      /\ op' = Idle /\ op.pc = "publish"
  BY DEF Resolve, storeVars, basisVars
<1>2. Types'
  BY <1>1, IdleIsOperation DEF Types
<1> QED
  BY <1>1, <1>2, IdleIsOperation
  DEF Identities, Names, Locals, Separate, Staging, BasisExact, Deciding, Landed,
      OnRecord, StillReusable, Floor

\* A caller is given a fold of its own.
LEMMA ReplayKeeps ==
    ASSUME LedgerInv, Replay
    PROVE  LedgerInv'
<1> USE DEF LedgerInv
<1> DEFINE left == [heap EXCEPT ![NewRef] = log]
<1>1. NewRef \in Ref /\ NewRef \notin {basis, proj, op.proj, op.arg} \cup held
  BY NewRefIsFree
<1>2. /\ UNCHANGED <<log, legacy, writeFailed, basis, identity, proj, owned, op>>
      /\ cached' = Now /\ held' = {NewRef} /\ Keep(left)
      /\ op = Idle
  BY DEF Replay, basisVars
<1>3. /\ op.pc = "idle" /\ ~op.reusable
      /\ op.proj = NoRef /\ op.arg = NoRef /\ op.chosen = << >>
  BY <1>2, IdleIsOperation
<1>4. left \in [Ref -> Seq(Event)] /\ \A r \in Ref \ {NewRef} : left[r] = heap[r]
  BY <1>1, EventSeqs DEF Types
<1>5. /\ heap' \in [Ref -> Seq(Event)]
      /\ basis \in Ref => heap'[basis] = heap[basis]
      /\ proj \in Ref => heap'[proj] = heap[proj]
  BY <1>1, <1>2, <1>4, Kept
<1>6. Now \in Identity /\ Names(Now)
  BY NowNames
<1>7. Types'
  BY <1>1, <1>2, <1>5, <1>6 DEF Types
<1> QED
  BY <1>1, <1>2, <1>3, <1>5, <1>6, <1>7
  DEF Types, Cell, Identities, Names, Locals, Separate, Staging, BasisExact, Deciding,
      Landed, OnRecord, StillReusable, Floor

\* Whether a view is still the ledger's own is looked up.
LEMMA CheckWitnessKeeps ==
    ASSUME LedgerInv, CheckWitness
    PROVE  LedgerInv'
<1> USE DEF LedgerInv
<1>1. /\ UNCHANGED <<log, legacy, cached, writeFailed, heap, basis, identity, proj,
                     held, op>>
      /\ owned' = NoHead
  BY DEF CheckWitness, storeVars, basisVars
<1>2. Types'
  BY <1>1 DEF Types, HeadCount
<1>3. Identities' /\ Locals' /\ Separate' /\ BasisExact' /\ Floor'
  BY <1>1 DEF Identities, Names, Locals, Separate, Staging, BasisExact, Floor
<1>4. Deciding' /\ Landed' /\ OnRecord' /\ StillReusable'
  BY <1>1
  DEF Deciding, Landed, OnRecord, StillReusable, BasisReusable, Now, Staging, StageActive
<1> QED
  BY <1>2, <1>3, <1>4

\* A caller folds an event into a view it was given.
LEMMA MutateKeeps ==
    ASSUME LedgerInv, NEW r \in held, Mutate(r)
    PROVE  LedgerInv'
<1> USE DEF LedgerInv
<1>1. /\ UNCHANGED <<log, legacy, cached, writeFailed, basis, identity, proj, held, op>>
      /\ heap' = [heap EXCEPT ![r] = Append(heap[r], "junk")]
      /\ owned' = IF r = proj THEN NoHead ELSE owned
  BY DEF Mutate, storeVars, basisVars
<1>2. r \in Ref
  BY DEF Types
<1>3. Append(heap[r], "junk") \in Seq(Event)
  <2>1. heap[r] \in Seq(Event) /\ "junk" \in Event
    BY <1>2 DEF Types, Event
  <2> QED
    BY <2>1, AppendProperties
<1>4. heap' \in [Ref -> Seq(Event)] /\ \A s \in Ref \ {r} : heap'[s] = heap[s]
  BY <1>1, <1>2, <1>3 DEF Types
<1>5. Types'
  BY <1>1, <1>4 DEF Types, HeadCount
<1>6. /\ basis \in Ref => heap'[basis] = heap[basis]
      /\ op.proj \in Ref => heap'[op.proj] = heap[op.proj]
      /\ Staging => heap'[op.arg] = heap[op.arg]
      /\ owned' # NoHead => owned' = owned /\ heap'[proj] = heap[proj]
  BY <1>1, <1>4 DEF Separate, OnRecord, Ref, NoRef
<1>7. Identities' /\ Locals' /\ Separate' /\ BasisExact' /\ Floor'
  BY <1>1, <1>6
  DEF Types, Cell, Identities, Names, Locals, Separate, Staging, BasisExact, Floor
<1>8. Deciding' /\ Landed' /\ OnRecord' /\ StillReusable'
  BY <1>1, <1>6
  DEF Types, Cell, Locals, Deciding, Landed, OnRecord, StillReusable, BasisReusable,
      Now, Staging, StageActive
<1> QED
  BY <1>5, <1>7, <1>8

\* An append begins with the fold it found.
LEMMA AppendBeginKeeps ==
    ASSUME LedgerInv, NEW kind \in {"append", "decide", "stage"}, AppendBegin(kind)
    PROVE  LedgerInv'
<1> USE DEF LedgerInv
<1>1. /\ UNCHANGED <<log, legacy, cached, writeFailed, heap, basis, identity, proj, held>>
      /\ owned' = NoHead
      /\ op.pc = "idle"
  BY IdleIsOperation DEF AppendBegin, storeVars, basisVars
<1>2. BasisReusable \in BOOLEAN
  BY DEF BasisReusable
<1>3. /\ op' \in Operation
      /\ op'.pc = "append" /\ op'.reusable = BasisReusable
      /\ op'.proj = NoRef /\ op'.arg = NoRef /\ op'.chosen = << >>
  BY <1>2, IdleIsOperation DEF AppendBegin, Operation, Kinds, Steps
<1>4. Types'
  BY <1>1, <1>3 DEF Types, HeadCount
<1> QED
  BY <1>1, <1>3, <1>4
  DEF Identities, Names, Locals, Separate, Staging, BasisExact, Deciding, Landed,
      OnRecord, StillReusable, BasisReusable, Floor

\* Under the writer lock the fold is brought up to the log.
LEMMA ChooseKeeps ==
    ASSUME LedgerInv, Choose
    PROVE  LedgerInv'
<1> USE DEF LedgerInv
<1> DEFINE fold == Advance(log, op.reusable)
           copy == IF op.kind = "append" THEN NoRef ELSE NewerRef
           given == [r \in Ref |-> IF r = copy THEN fold.events
                                   ELSE [heap EXCEPT ![fold.ref] = fold.events][r]]
<1>0. op.pc = "append" /\ op.proj = NoRef /\ op.arg = NoRef /\ op.chosen = << >>
  BY DEF Choose, Locals
<1>1. /\ fold.ref \in Ref /\ fold.events = log
      /\ fold.ref \notin held \cup {proj} /\ fold.ref \in {basis, NewRef}
  BY <1>0, Advanced
<1>2. /\ NewerRef \in Ref
      /\ NewerRef \notin {basis, proj, NewRef} \cup held
  BY <1>0, NewerRefIsFree
<1>3. /\ Now \in Identity /\ Names(Now) /\ Now.size = Len(log)
  BY NowNames
<1>4. /\ UNCHANGED <<log, legacy, writeFailed, basis, identity, proj, owned>>
      /\ cached' = Now
      /\ op' = [op EXCEPT !.pc = "deciding", !.proj = fold.ref, !.arg = copy,
                          !.seen = fold.events, !.prefix = Now]
      /\ held' # held => op.kind = "decide" /\ held' = {copy}
      /\ Keep(given)
  <2>1. Keep(given)
    BY DEF Choose
  <2>2. held' # held => op.kind = "decide" /\ held' = {copy}
    BY DEF Choose, GiveAway
  <2> QED
    BY <2>1, <2>2 DEF Choose, basisVars
<1>5. copy # NoRef => copy \in Ref /\ copy \notin {proj, fold.ref} \cup held
  BY <1>1, <1>2
<1>6. /\ op' \in Operation
      /\ op'.pc = "deciding" /\ op'.proj = fold.ref /\ op'.arg = copy
      /\ op'.seen = log /\ op'.prefix = Now /\ op'.kind = op.kind
      /\ op'.chosen = << >>
  <2>1. log \in Seq(Event) /\ copy \in Cell /\ fold.ref \in Cell
    BY <1>1, <1>2, EventSeqs DEF Types, Cell
  <2> QED
    BY <1>0, <1>1, <1>3, <1>4, <2>1 DEF Types, Operation, Steps
<1>7. /\ given \in [Ref -> Seq(Event)]
      /\ given[fold.ref] = log
      /\ copy \in Ref => given[copy] = log
  BY <1>1, EventSeqs DEF Types
<1>8. /\ heap' \in [Ref -> Seq(Event)]
      /\ heap'[op'.proj] = log
      /\ copy \in Ref => heap'[copy] = log
  BY <1>1, <1>4, <1>6, <1>7, Kept
<1>9. held' = {} \/ \E r \in Ref : held' = {r}
  BY <1>2, <1>4 DEF Types
<1>10. Types'
  BY <1>3, <1>4, <1>6, <1>8, <1>9 DEF Types
<1>11. Identities' /\ Locals' /\ BasisExact' /\ Landed' /\ OnRecord' /\ StillReusable'
       /\ Floor'
  BY <1>0, <1>1, <1>3, <1>4, <1>6
  DEF Identities, Names, Locals, BasisExact, Landed, OnRecord, StillReusable, Floor
<1>12. Separate'
  BY <1>1, <1>2, <1>4, <1>5, <1>6 DEF Separate, Staging, Types, Cell, Ref, NoRef
<1>13. Deciding'
  <2>1. log \o << >> = log
    BY ConcatEmptySeq DEF Types
  <2>2. Staging' => copy \in Ref
    BY <1>2, <1>6 DEF Staging
  <2> QED
    BY <1>4, <1>6, <1>8, <2>1, <2>2 DEF Deciding, Now, Staging
<1> QED
  BY <1>10, <1>11, <1>12, <1>13

\* The observer's call is refused and drops the cache; the decision goes on.
LEMMA ReenterKeeps ==
    ASSUME LedgerInv, Reenter
    PROVE  LedgerInv'
<1> USE DEF LedgerInv
<1>1. /\ UNCHANGED <<log, legacy, cached, writeFailed, identity, held, op>>
      /\ basis' = NoRef /\ proj' = NoRef /\ owned' = NoHead
      /\ op.pc = "deciding"
      /\ Keep(heap)
  BY DEF Reenter, storeVars
<1>2. /\ heap' \in [Ref -> Seq(Event)]
      /\ heap'[op.proj] = heap[op.proj]
      /\ Staging => heap'[op.arg] = heap[op.arg]
  BY <1>1, Kept DEF Types, Locals, Separate
<1>3. Types'
  BY <1>1, <1>2 DEF Types, Cell, HeadCount
<1>4. Identities' /\ Locals' /\ Separate' /\ BasisExact' /\ Floor'
  BY <1>1
  DEF Identities, Names, Locals, Separate, Staging, BasisExact, Floor, Ref, NoRef
<1>5. Deciding' /\ Landed' /\ OnRecord' /\ StillReusable'
  BY <1>1, <1>2
  DEF Deciding, Landed, OnRecord, StillReusable, Now, Staging, StageActive
<1> QED
  BY <1>3, <1>4, <1>5

\* What an operation may hand to the store is a batch of its own events.
LEMMA ChosenIsOwn ==
    ASSUME LedgerInv, NEW chosen \in Chosen
    PROVE  chosen \in Seq({"own"})
<1>1. op.chosen \in Seq({"own"})
  BY DEF LedgerInv, Types, Operation
<1>2. \A n \in 0 .. MaxBatch : Own(n) \in Seq({"own"})
  BY OwnBatch, LedgerBoundsAssumption
<1> QED
  BY <1>1, <1>2 DEF Chosen

\* A batch on top of the log.
LEMMA LogGrows ==
    ASSUME Types, NEW t \in Seq(Committed)
    PROVE  /\ log \o t \in Seq(Committed)
           /\ Len(log \o t) = Len(log) + Len(t)
           /\ Len(log) \in Nat /\ Len(t) \in Nat
           /\ \A n \in 0 .. Len(log) : Prefix(log \o t, n) = Prefix(log, n)
           /\ Prefix(log \o t, Len(log) + Len(t)) = log \o t
<1>1. log \in Seq(Committed)
  BY DEF Types
<1>2. /\ log \o t \in Seq(Committed)
      /\ Len(log \o t) = Len(log) + Len(t)
  BY <1>1, ConcatProperties
<1>3. Len(log) \in Nat /\ Len(t) \in Nat
  BY <1>1
<1>4. \A n \in 0 .. Len(log) : Prefix(log \o t, n) = Prefix(log, n)
  BY <1>1, PrefixStays
<1>5. Prefix(log \o t, Len(log \o t)) = log \o t
  BY <1>2, WholePrefix
<1> QED
  BY <1>2, <1>3, <1>4, <1>5

\* The store commits the events of the decision.
LEMMA CommitKeeps ==
    ASSUME LedgerInv, NEW chosen \in Chosen, Len(log \o chosen) <= MaxLog,
           Commit(chosen)
    PROVE  LedgerInv'
<1> USE DEF LedgerInv
<1>1. /\ log' = log \o chosen
      /\ cached' = IF chosen = << >> THEN cached
                   ELSE [head |-> Len(log'), size |-> Len(log')]
      /\ op' = [op EXCEPT !.pc = "committed", !.chosen = chosen]
      /\ UNCHANGED <<writeFailed, heap, basis, identity, proj, owned, held>>
      /\ op.pc = "deciding"
  BY DEF Commit, basisVars
<1>2. chosen \in Seq({"own"}) /\ chosen \in Seq(Committed)
  BY ChosenIsOwn, EventSeqs
<1>3. /\ log' \in Seq(Committed)
      /\ Len(log') = Len(log) + Len(chosen) /\ Len(log') <= MaxLog
      /\ Len(log) \in Nat /\ Len(chosen) \in Nat
      /\ Prefix(log', Len(log')) = log'
  BY <1>1, <1>2, LogGrows
<1>4. /\ op' \in Operation
      /\ op'.pc = "committed" /\ op'.chosen = chosen
      /\ op'.proj = op.proj /\ op'.arg = op.arg /\ op'.prefix = op.prefix
  BY <1>1, <1>2 DEF Types, Operation, Steps
<1>5. cached' \in Identity /\ Names(cached)' /\ Names(identity)'
  BY <1>1, <1>3, LedgerBoundsAssumption
  DEF Types, Identity, HeadCount, Identities, Names
<1>6. legacy' \in BOOLEAN
  BY DEF Commit, Types
<1>7. Types'
  BY <1>1, <1>3, <1>4, <1>5, <1>6 DEF Types
<1>8. Landed'
  <2>1. heap[op.proj] = log /\ op.prefix.size = Len(log)
    BY <1>1 DEF Deciding, Now
  <2>2. /\ heap'[op'.proj] = log /\ op'.prefix.size = Len(log) /\ op'.chosen = chosen
    BY <1>1, <1>4, <2>1
  <2>3. log \o chosen = Prefix(log', Len(log) + Len(chosen))
    BY <1>1, <1>3
  <2> QED
    BY <1>3, <2>2, <2>3 DEF Landed
<1>9. Identities' /\ Locals' /\ Separate' /\ BasisExact' /\ Deciding' /\ StillReusable'
      /\ Floor'
  BY <1>1, <1>4, <1>5
  DEF Identities, Locals, Separate, Staging, BasisExact, Deciding, StillReusable, Floor
<1>10. OnRecord'
  BY <1>1 DEF OnRecord
<1> QED
  BY <1>7, <1>8, <1>9, <1>10

\* An operation that raises leaves nothing to be wrong about.
LEMMA Dropped ==
    ASSUME LedgerInv, Drop, Keep(heap), UNCHANGED <<identity, held>>,
           log' \in Seq(Committed), Len(log') <= MaxLog, Len(log) <= Len(log'),
           legacy' \in BOOLEAN, writeFailed' \in BOOLEAN,
           cached' \in Identity, Names(cached)'
    PROVE  LedgerInv'
<1> USE DEF LedgerInv
<1>1. /\ basis' = NoRef /\ proj' = NoRef /\ owned' = NoHead /\ op' = Idle
  BY DEF Drop
<1>2. heap' \in [Ref -> Seq(Event)]
  BY Kept DEF Types
<1>3. Types'
  BY <1>1, <1>2, IdleIsOperation DEF Types, Cell, HeadCount
<1>4. Names(identity)'
  BY DEF Identities, Names, Types, Identity
<1> QED
  BY <1>1, <1>3, <1>4, IdleIsOperation
  DEF Identities, Locals, Separate, Staging, BasisExact, Deciding, Landed,
      OnRecord, StillReusable, Floor

\* The write failed: the batch is in the log or not, and the cache is dropped.
LEMMA CommitFailsKeeps ==
    ASSUME LedgerInv, NEW chosen \in Chosen, Len(log \o chosen) <= MaxLog,
           CommitFails(chosen)
    PROVE  LedgerInv'
<1>1. chosen \in Seq(Committed)
  BY ChosenIsOwn, EventSeqs
<1>2. /\ log' \in Seq(Committed) /\ Len(log') <= MaxLog /\ Len(log) <= Len(log')
      /\ legacy' \in BOOLEAN /\ writeFailed' \in BOOLEAN
  <2>1. Types
    BY DEF LedgerInv
  <2>2. log \in Seq(Committed) /\ Len(log) \in Nat /\ Len(log) <= MaxLog
    BY <2>1 DEF Types
  <2>3. /\ log \o chosen \in Seq(Committed)
        /\ Len(log) <= Len(log \o chosen)
    <3>1. /\ log \o chosen \in Seq(Committed)
          /\ Len(log \o chosen) = Len(log) + Len(chosen)
          /\ Len(log) \in Nat /\ Len(chosen) \in Nat
      BY <1>1, <2>1, LogGrows
    <3> QED
      BY <3>1
  <2>4. log' = log \/ log' = log \o chosen
    BY DEF CommitFails
  <2>5. legacy' \in BOOLEAN /\ writeFailed' \in BOOLEAN
    BY <2>1 DEF CommitFails, Types
  <2>6. CASE log' = log
    BY <2>2, <2>5, <2>6
  <2>7. CASE log' = log \o chosen
    BY <2>3, <2>5, <2>7, Zenon
  <2> QED
    BY <2>4, <2>6, <2>7
<1>3. cached' \in Identity /\ Names(cached)'
  <2>1. CASE writeFailed'
    BY <1>2, <2>1
    DEF CommitFails, LedgerInv, Types, Identities, Names, Identity
  <2>2. CASE ~writeFailed'
    <3>1. cached' = [head |-> IF legacy' THEN NoHead ELSE Len(log'), size |-> Len(log')]
      BY <2>2 DEF CommitFails, Now
    <3>2. Len(log') \in 0 .. MaxLog
      BY <1>2, LedgerBoundsAssumption
    <3> QED
      BY <3>1, <3>2 DEF Identity, HeadCount, Names
  <2> QED
    BY <2>1, <2>2
<1> QED
  BY <1>2, <1>3, Dropped DEF CommitFails

\* A decision, a fold or a copy raises: the cache is dropped.
LEMMA RaiseKeeps ==
    ASSUME LedgerInv, Raise \/ ReadRefused
    PROVE  LedgerInv'
<1>1. Drop /\ Keep(heap) /\ UNCHANGED <<log, legacy, cached, writeFailed, identity, held>>
  BY DEF Raise, ReadRefused, storeVars
<1>2. /\ log' \in Seq(Committed) /\ Len(log') <= MaxLog /\ Len(log) <= Len(log')
      /\ legacy' \in BOOLEAN /\ writeFailed' \in BOOLEAN
      /\ cached' \in Identity /\ Names(cached)'
  BY <1>1 DEF LedgerInv, Types, Identities, Names
<1> QED
  BY <1>1, <1>2, Dropped

\* The committed events are folded; the identity read again may be a later one.
LEMMA AppendEndsKeeps ==
    ASSUME LedgerInv, AppendEnds
    PROVE  LedgerInv'
<1> USE DEF LedgerInv
<1> DEFINE folded == heap[op.proj] \o op.chosen
           witnessed == IF op.chosen = << >> THEN op.prefix = cached
                        ELSE op.prefix.size + Len(op.chosen) = cached.head
           left == [heap EXCEPT ![op.proj] = folded]
<1>1. /\ SetBasis(op.proj, Len(folded), cached, witnessed)
      /\ op' = Idle
      /\ UNCHANGED <<log, legacy, cached, writeFailed, owned, held>>
      /\ Keep(left)
      /\ op.pc = "committed"
  BY DEF AppendEnds, storeVars
<1>2. /\ proj' = NoRef /\ identity' = cached /\ owned = NoHead
      /\ basis' # NoRef => basis' = op.proj /\ witnessed
      /\ basis' \in Cell
  BY <1>1 DEF SetBasis, OnRecord, Types, Operation, Cell
<1>3. op.proj \in Ref /\ op.proj \notin held
  BY <1>1 DEF Locals, Separate, Ref, NoRef
<1>4. op.chosen \in Seq(Event) /\ heap[op.proj] \in Seq(Event) /\ folded \in Seq(Event)
  <2>1. op.chosen \in Seq(Event) /\ heap[op.proj] \in Seq(Event)
    BY <1>3, EventSeqs DEF Types, Operation
  <2> QED
    BY <2>1, ConcatProperties
<1>5. left \in [Ref -> Seq(Event)] /\ left[op.proj] = folded
  BY <1>3, <1>4 DEF Types
<1>6. heap' \in [Ref -> Seq(Event)] /\ (basis' # NoRef => heap'[basis'] = folded)
  BY <1>1, <1>2, <1>3, <1>5, Kept
<1>7. Types'
  BY <1>1, <1>2, <1>6, IdleIsOperation DEF Types, Cell
<1>8. basis' # NoRef => folded = Prefix(log, cached.size)
  <2> SUFFICES ASSUME basis' # NoRef PROVE folded = Prefix(log, cached.size)
    OBVIOUS
  <2>1. folded = Prefix(log, op.prefix.size + Len(op.chosen))
    BY <1>1 DEF Landed
  <2>2. /\ op.prefix.size \in Nat /\ Len(op.chosen) \in Nat
    BY DEF Types, Operation, Identity
  <2>3. CASE op.chosen = << >>
    <3>1. op.prefix = cached /\ Len(op.chosen) = 0
      BY <1>2, <2>3
    <3> QED
      BY <2>1, <2>2, <3>1
  <2>4. CASE op.chosen # << >>
    <3>1. op.prefix.size + Len(op.chosen) = cached.head
      BY <1>2, <2>4
    <3>2. cached.head = cached.size
      BY <2>2, <3>1 DEF Identities, Names, NoHead
    <3> QED
      BY <2>1, <3>1, <3>2
  <2> QED
    BY <2>3, <2>4
<1> QED
  BY <1>1, <1>2, <1>3, <1>6, <1>7, <1>8, IdleIsOperation
  DEF Identities, Names, Locals, Separate, Staging, BasisExact, Deciding, Landed,
      OnRecord, StillReusable, Floor, Ref, NoRef

\* A staged operation is given a view of its own fold.
LEMMA StageViewKeeps ==
    ASSUME LedgerInv, StageView
    PROVE  LedgerInv'
<1> USE DEF LedgerInv
<1> DEFINE left == [heap EXCEPT ![NewRef] = heap[op.arg]]
<1>1. NewRef \in Ref /\ NewRef \notin {basis, proj, op.proj, op.arg} \cup held
  BY NewRefIsFree
<1>2. /\ UNCHANGED <<log, legacy, cached, writeFailed, basis, identity, proj, owned, op>>
      /\ held' = {NewRef} /\ Keep(left) /\ Staging /\ op.pc = "deciding"
  BY DEF StageView, Staging, storeVars, basisVars
<1>3. op.arg \in Ref /\ op.proj \in Ref
  BY <1>2 DEF Separate, Locals
<1>4. left \in [Ref -> Seq(Event)] /\ \A r \in Ref \ {NewRef} : left[r] = heap[r]
  BY <1>1, <1>3 DEF Types
<1>5. /\ heap' \in [Ref -> Seq(Event)]
      /\ heap'[op.proj] = heap[op.proj] /\ heap'[op.arg] = heap[op.arg]
  BY <1>1, <1>2, <1>3, <1>4, Kept
<1>6. Types'
  BY <1>1, <1>2, <1>5 DEF Types
<1>7. Identities' /\ Locals' /\ Separate' /\ BasisExact' /\ Floor'
  BY <1>1, <1>2, <1>3
  DEF Identities, Names, Locals, Separate, Staging, BasisExact, Floor
<1>8. Deciding' /\ Landed' /\ OnRecord' /\ StillReusable'
  BY <1>2, <1>5
  DEF Deciding, Landed, OnRecord, StillReusable, Now, Staging, StageActive
<1> QED
  BY <1>6, <1>7, <1>8

\* The staged ledger's own fold grows by what its operation appends.
LEMMA StageAppendKeeps ==
    ASSUME LedgerInv, NEW n \in 1 .. MaxBatch, StageAppend(n)
    PROVE  LedgerInv'
<1> USE DEF LedgerInv
<1>1. /\ UNCHANGED <<log, legacy, cached, writeFailed, basis, identity, proj, owned, held>>
      /\ op' = [op EXCEPT !.chosen = op.chosen \o Own(n)]
      /\ heap' = [heap EXCEPT ![op.arg] = heap[op.arg] \o Own(n)]
      /\ Staging /\ StageActive /\ op.pc = "deciding"
  BY DEF StageAppend, Staging, storeVars, basisVars
<1>2. op.arg \in Ref /\ op.proj \in Ref /\ op.proj # op.arg
  BY <1>1 DEF Separate, Locals, Ref, NoRef
<1>3. /\ Own(n) \in Seq({"own"}) /\ Own(n) \in Seq(Event)
      /\ op.chosen \in Seq({"own"}) /\ op.chosen \in Seq(Event)
      /\ log \in Seq(Event) /\ heap[op.arg] \in Seq(Event)
  BY <1>2, OwnBatch, EventSeqs, LedgerBoundsAssumption DEF Types, Operation
<1>4. /\ op.chosen \o Own(n) \in Seq({"own"})
      /\ heap[op.arg] \o Own(n) \in Seq(Event)
  BY <1>3, ConcatProperties
<1>5. /\ op' \in Operation
      /\ op'.pc = "deciding" /\ op'.kind = op.kind /\ op'.failed = op.failed
      /\ op'.proj = op.proj /\ op'.arg = op.arg /\ op'.prefix = op.prefix
      /\ op'.seen = op.seen /\ op'.chosen = op.chosen \o Own(n)
  BY <1>1, <1>4 DEF Types, Operation
<1>6. /\ heap' \in [Ref -> Seq(Event)]
      /\ heap'[op.proj] = heap[op.proj] /\ heap'[op.arg] = heap[op.arg] \o Own(n)
  BY <1>1, <1>2, <1>4 DEF Types
<1>7. Types'
  BY <1>1, <1>5, <1>6 DEF Types
<1>8. Identities' /\ Locals' /\ Separate' /\ BasisExact' /\ Floor'
  BY <1>1, <1>5
  DEF Identities, Names, Locals, Separate, Staging, BasisExact, Floor
<1>9. Deciding'
  <2>1. heap[op.arg] = log \o op.chosen
    BY <1>1 DEF Deciding
  <2>2. (log \o op.chosen) \o Own(n) = log \o (op.chosen \o Own(n))
    BY <1>3, ThreeParts
  <2>3. heap'[op'.arg] = log' \o op'.chosen
    BY <1>1, <1>5, <1>6, <2>1, <2>2
  <2> QED
    BY <1>1, <1>5, <1>6, <2>3 DEF Deciding, Now, Staging
<1>10. Landed' /\ OnRecord' /\ StillReusable'
  BY <1>1, <1>5 DEF Landed, OnRecord, StillReusable
<1> QED
  BY <1>7, <1>8, <1>9, <1>10

\* A failed append may leave events in the staged fold; it is remembered.
LEMMA StageFailsKeeps ==
    ASSUME LedgerInv, NEW folded \in {0, 1}, StageFails(folded)
    PROVE  LedgerInv'
<1> USE DEF LedgerInv
<1>1. /\ UNCHANGED <<log, legacy, cached, writeFailed, basis, identity, proj, owned, held>>
      /\ op' = [op EXCEPT !.failed = TRUE]
      /\ heap' = [heap EXCEPT ![op.arg] = heap[op.arg] \o Own(folded)]
      /\ Staging /\ op.pc = "deciding"
  BY DEF StageFails, Staging, storeVars, basisVars
<1>2. op.arg \in Ref /\ op.proj \in Ref /\ op.proj # op.arg
  BY <1>1 DEF Separate, Locals, Ref, NoRef
<1>3. Own(folded) \in Seq(Event) /\ heap[op.arg] \in Seq(Event)
  BY <1>2, OwnBatch, EventSeqs DEF Types
<1>4. heap[op.arg] \o Own(folded) \in Seq(Event)
  BY <1>3, ConcatProperties
<1>5. /\ op' \in Operation
      /\ op'.pc = "deciding" /\ op'.kind = op.kind /\ op'.failed
      /\ op'.proj = op.proj /\ op'.arg = op.arg /\ op'.prefix = op.prefix
      /\ op'.seen = op.seen /\ op'.chosen = op.chosen
  BY <1>1 DEF Types, Operation
<1>6. /\ heap' \in [Ref -> Seq(Event)]
      /\ heap'[op.proj] = heap[op.proj]
  BY <1>1, <1>2, <1>4 DEF Types
<1>7. Types'
  BY <1>1, <1>5, <1>6 DEF Types
<1>8. Identities' /\ Locals' /\ Separate' /\ BasisExact' /\ Floor'
  BY <1>1, <1>5
  DEF Identities, Names, Locals, Separate, Staging, BasisExact, Floor
<1>9. Deciding' /\ Landed' /\ OnRecord' /\ StillReusable'
  BY <1>1, <1>5, <1>6
  DEF Deciding, Landed, OnRecord, StillReusable, Now, StageActive
<1> QED
  BY <1>7, <1>8, <1>9

\* Another thread of the process authenticates the log.
LEMMA PeekKeeps ==
    ASSUME LedgerInv, Peek
    PROVE  LedgerInv'
<1> USE DEF LedgerInv
<1>1. /\ UNCHANGED <<log, legacy, writeFailed, heap, basis, identity, proj, owned, held,
                     op>>
      /\ cached' = Now /\ op.pc # "deciding"
  BY DEF Peek, StoreFree, basisVars
<1>2. Now \in Identity /\ Names(Now)
  BY NowNames
<1>3. Types'
  BY <1>1, <1>2 DEF Types
<1>4. Identities' /\ Locals' /\ Separate' /\ BasisExact' /\ Floor'
  BY <1>1, <1>2 DEF Identities, Names, Locals, Separate, Staging, BasisExact, Floor
<1>5. Deciding' /\ Landed' /\ OnRecord' /\ StillReusable'
  BY <1>1 DEF Deciding, Landed, OnRecord, StillReusable, BasisReusable
<1> QED
  BY <1>3, <1>4, <1>5

\* Another handle commits: every prefix named before is a prefix still.
LEMMA OtherAppendsKeeps ==
    ASSUME LedgerInv, OtherAppends
    PROVE  LedgerInv'
<1> USE DEF LedgerInv
<1> DEFINE one == <<"other">>
<1>1. /\ UNCHANGED <<cached, writeFailed, heap, basis, identity, proj, owned, held, op>>
      /\ log' = Append(log, "other") /\ legacy' = FALSE
      /\ op.pc # "deciding" /\ Len(log) < MaxLog
  BY DEF OtherAppends, StoreFree, basisVars
<1>2. one \in Seq(Committed) /\ Len(one) = 1
  BY DEF Committed
<1>3. log' = log \o one
  <2>1. log \in Seq(Committed) /\ "other" \in Committed
    BY DEF Types, Committed
  <2> QED
    BY <1>1, <2>1, AppendIsConcat
<1>4. /\ log' \in Seq(Committed) /\ Len(log') = Len(log) + 1 /\ Len(log) \in Nat
      /\ \A n \in 0 .. Len(log) : Prefix(log', n) = Prefix(log, n)
  <2>1. /\ log \o one \in Seq(Committed) /\ Len(log \o one) = Len(log) + Len(one)
        /\ Len(log) \in Nat
        /\ \A n \in 0 .. Len(log) : Prefix(log \o one, n) = Prefix(log, n)
    BY <1>2, LogGrows
  <2> HIDE DEF one
  <2> QED
    BY <1>2, <1>3, <2>1
<1>5. Len(log') <= MaxLog
  BY <1>1, <1>4, LedgerBoundsAssumption
<1>6. Types'
  BY <1>1, <1>4, <1>5 DEF Types
<1>7. Identities' /\ Locals' /\ Separate' /\ StillReusable' /\ Floor'
  BY <1>1, <1>4
  DEF Types, Operation, Identity, Identities, Names, Locals, Separate, Staging,
      StillReusable, BasisReusable, Floor
<1>8. BasisExact'
  <2>1. identity.size \in 0 .. Len(log)
    BY <1>4 DEF Types, Identity, Identities, Names
  <2> QED
    BY <1>1, <1>4, <2>1 DEF BasisExact
<1>9. Deciding' /\ Landed'
  <2>1. op.pc = "committed" => op.prefix.size + Len(op.chosen) \in 0 .. Len(log)
    BY <1>4 DEF Landed, Types, Operation, Identity
  <2>2. op.pc = "committed" =>
            /\ Prefix(log', op.prefix.size + Len(op.chosen))
                   = Prefix(log, op.prefix.size + Len(op.chosen))
            /\ op.prefix.size + Len(op.chosen) <= Len(log')
    BY <1>4, <2>1
  <2> QED
    BY <1>1, <2>2 DEF Deciding, Landed
<1>10. OnRecord'
  <2>1. owned # NoHead => owned \in 0 .. Len(log)
    BY <1>4 DEF OnRecord, Types, HeadCount
  <2> QED
    BY <1>1, <1>4, <2>1 DEF OnRecord
<1> QED
  BY <1>6, <1>7, <1>8, <1>9, <1>10

\* The handle fails, or nothing happens: the ledger is as it was.
LEMMA StoreFailsKeeps ==
    ASSUME LedgerInv, StoreFails \/ UNCHANGED vars
    PROVE  LedgerInv'
<1> USE DEF LedgerInv
<1>1. /\ UNCHANGED <<log, legacy, cached, heap, basis, identity, proj, owned, held, op>>
      /\ writeFailed' \in {writeFailed, TRUE}
  BY DEF StoreFails, basisVars, vars
<1>2. Types'
  BY <1>1 DEF Types
<1>3. Identities' /\ Locals' /\ Separate' /\ BasisExact' /\ Floor'
  BY <1>1 DEF Identities, Names, Locals, Separate, Staging, BasisExact, Floor
<1>4. Deciding' /\ Landed' /\ OnRecord' /\ StillReusable'
  BY <1>1
  DEF Deciding, Landed, OnRecord, StillReusable, BasisReusable, Now, Staging, StageActive
<1> QED
  BY <1>2, <1>3, <1>4

\* Every step keeps the invariant.
LEMMA NextKeeps ==
    ASSUME LedgerInv, [Next]_vars
    PROVE  LedgerInv'
<1>1. CASE \E kind \in {"read", "resolved"} : Read(kind)
  BY <1>1, ReadKeeps
<1>2. CASE ReadSnapshot \/ Publish \/ Resolve \/ Replay \/ CheckWitness
  BY <1>2, ReadSnapshotKeeps, PublishKeeps, ResolveKeeps, ReplayKeeps, CheckWitnessKeeps
<1>3. CASE \E r \in held : Mutate(r)
  BY <1>3, MutateKeeps
<1>4. CASE \E kind \in {"append", "decide", "stage"} : AppendBegin(kind)
  BY <1>4, AppendBeginKeeps
<1>5. CASE Choose \/ Reenter \/ AppendEnds
  BY <1>5, ChooseKeeps, ReenterKeeps, AppendEndsKeeps
<1>6. CASE Decided
  BY <1>6, CommitKeeps, CommitFailsKeeps DEF Decided
<1>7. CASE Raise \/ ReadRefused
  BY <1>7, RaiseKeeps
<1>8. CASE StageView
  BY <1>8, StageViewKeeps
<1>9. CASE \E n \in 1 .. MaxBatch : Len(op.chosen) + n <= MaxBatch /\ StageAppend(n)
  BY <1>9, StageAppendKeeps
<1>10. CASE \E folded \in {0, 1} : StageFails(folded)
  BY <1>10, StageFailsKeeps
<1>11. CASE Peek \/ OtherAppends
  BY <1>11, PeekKeeps, OtherAppendsKeeps
<1>12. CASE StoreFails \/ UNCHANGED vars
  BY <1>12, StoreFailsKeeps
<1> QED
  BY <1>1, <1>2, <1>3, <1>4, <1>5, <1>6, <1>7, <1>8, <1>9, <1>10, <1>11, <1>12 DEF Next

\* The invariant holds in every behaviour of the ledger.
LEMMA LedgerInvariant == Spec => []LedgerInv
  BY InitHolds, NextKeeps, PTL DEF Spec

-----------------------------------------------------------------------------
\* What the invariant is for.

\* Every variable of the ledger and of its operation has the type the code
\* gives it, and a view on record exists.
THEOREM TypeCorrect == Spec => []TypeOK
<1>1. LedgerInv => TypeOK
  BY DEF LedgerInv, Types, TypeOK, Operation, Cell, Kinds, Steps, Committed, OnRecord, Ref,
         NoRef
<1> QED
  BY <1>1, LedgerInvariant, PTL

\* _basis holds exactly the events of the prefix _projection_identity names,
\* for every log, every decision and whatever callers fold into what they hold.
THEOREM FoldIsExact == Spec => []BasisExact
<1>1. LedgerInv => BasisExact
  BY DEF LedgerInv
<1> QED
  BY <1>1, LedgerInvariant, PTL

\* A view _owned_projection_identity vouches for holds exactly the committed
\* prefix of the head it gives.
THEOREM WitnessedViewIsExact == Spec => []WitnessExact
<1>1. LedgerInv => WitnessExact
  BY DEF LedgerInv, WitnessExact, Witness, OnRecord
<1> QED
  BY <1>1, LedgerInvariant, PTL

\* append_atomically and stage_atomically decide on the whole committed log.
THEOREM DecisionsSeeTheLog == Spec => []DecisionSeesAll
<1>1. LedgerInv => DecisionSeesAll
  BY DEF LedgerInv, DecisionSeesAll, Deciding
<1> QED
  BY <1>1, LedgerInvariant, PTL

\* A read ends in a publication or in a look at the fold.
LEMMA ReadEnds ==
    ASSUME LedgerInv, Next, op.pc = "publish", op' = Idle, basis' # NoRef
    PROVE  Publish \/ Resolve
<1>1. op # Idle /\ op' # op
  BY IdleIsOperation
<1>2. ~\E kind \in {"read", "resolved"} : Read(kind)
  BY <1>1 DEF Read
<1>3. ~ReadSnapshot /\ ~Replay /\ ~CheckWitness
  BY <1>1 DEF ReadSnapshot, Replay, CheckWitness
<1>4. ~\E r \in held : Mutate(r)
  BY <1>1 DEF Mutate
<1>5. ~\E kind \in {"append", "decide", "stage"} : AppendBegin(kind)
  BY <1>1 DEF AppendBegin
<1>6. /\ ~Choose /\ ~Reenter /\ ~AppendEnds /\ ~Raise
      /\ ~Decided
  <2>1. ~Choose /\ ~Reenter /\ ~AppendEnds
    BY DEF Choose, Reenter, AppendEnds
  <2>2. ~Raise
    BY DEF Raise, Drop
  <2>3. ~Decided
    BY DEF Decided, Commit, CommitFails
  <2> QED
    BY <2>1, <2>2, <2>3
<1>7. /\ ~StageView /\ ~\E n \in 1 .. MaxBatch : StageAppend(n)
      /\ ~\E folded \in {0, 1} : StageFails(folded)
  BY DEF StageView, StageAppend, StageFails, Staging
<1>8. ~Peek /\ ~OtherAppends /\ ~StoreFails /\ ~ReadRefused
  BY <1>1 DEF Peek, OtherAppends, StoreFails, ReadRefused, Drop
<1> QED
  BY <1>2, <1>3, <1>4, <1>5, <1>6, <1>7, <1>8 DEF Next

\* projection() and is_resolved() answer from a committed prefix that holds at
\* least what was committed when the store was asked.
THEOREM ReadsAreFresh == Spec => ReadIsFresh
<1>1. ASSUME LedgerInv, LedgerInv', Next PROVE AnswerFresh
  <2> SUFFICES ASSUME op.pc = "publish", op' = Idle, basis' # NoRef
               PROVE  /\ Len(Answered) \in op.floor .. Len(log)
                      /\ Answered = Prefix(log, Len(Answered))
    BY DEF AnswerFresh
  <2>1. Publish \/ Resolve
    BY <1>1, ReadEnds
  <2>2. /\ UNCHANGED <<log, basis, identity>> /\ op'.pc = "idle"
        /\ log \in Seq(Committed) /\ Len(log) \in Nat
    BY <1>1, <2>1, IdleIsOperation
    DEF Publish, Resolve, storeVars, basisVars, LedgerInv, Types
  <2>3. /\ identity.size \in op.floor .. Len(log) /\ identity.size \in 0 .. Len(log)
    BY <1>1, <2>2 DEF LedgerInv, Floor, Identities, Names, Types, Identity, Operation
  <2>4. Len(Prefix(log, identity.size)) = identity.size
    BY <2>2, <2>3, PrefixOf
  <2>5. Answered = Prefix(log, identity.size)
    <3>1. heap'[basis'] = Prefix(log, identity.size)
      BY <1>1, <2>2 DEF LedgerInv, BasisExact
    <3>2. CASE Resolve
      BY <3>1, <3>2 DEF Answered, Resolve
    <3>3. CASE Publish /\ Witness # NoHead
      <4>1. /\ proj' = proj /\ owned' = owned /\ op.kind = "read" /\ Keep(heap)
            /\ owned # NoHead /\ owned = identity.head
        BY <3>3 DEF Publish, Witness
      <4>2. /\ proj \in Ref /\ heap'[proj'] = Prefix(log, owned)
        BY <1>1, <2>2, <4>1 DEF LedgerInv, OnRecord
      <4>3. owned = identity.size
        BY <1>1, <4>1 DEF LedgerInv, Identities, Names
      <4> QED
        BY <4>1, <4>2, <4>3 DEF Answered
    <3>4. CASE Publish /\ Witness = NoHead
      <4> DEFINE left == [heap EXCEPT ![NewRef] = heap[basis]]
      <4>1. proj' = NewRef /\ op.kind = "read" /\ Keep(left)
        BY <3>4 DEF Publish
      <4>2. NewRef \in Ref /\ basis \in Ref
        BY <1>1, <2>2, NewRefIsFree DEF LedgerInv, Types, Cell
      <4>3. left \in [Ref -> Seq(Event)] /\ left[NewRef] = heap[basis]
        BY <1>1, <4>2 DEF LedgerInv, Types
      <4>4. heap'[proj'] = heap[basis]
        BY <4>1, <4>2, <4>3, Kept
      <4>5. heap[basis] = Prefix(log, identity.size)
        BY <1>1, <2>2 DEF LedgerInv, BasisExact
      <4> QED
        BY <4>1, <4>4, <4>5 DEF Answered
    <3> QED
      BY <2>1, <3>2, <3>3, <3>4
  <2> QED
    BY <2>3, <2>4, <2>5
<1> QED
  BY <1>1, LedgerInvariant, PTL DEF Spec, ReadIsFresh

\* A staged settlement commits the log its own fold showed, or nothing.
THEOREM SettlementsAreWhole == Spec => StageWhole
<1>1. ASSUME LedgerInv, Next PROVE CommitsWhole
  <2> SUFFICES ASSUME Staging, log' # log PROVE log' = heap[op.arg]
    BY DEF CommitsWhole
  <2>1. op.pc = "deciding" /\ op.kind = "stage"
    BY DEF Staging
  <2>2. op # Idle
    BY <2>1, IdleIsOperation
  <2>3. Decided
    <3>1. ~\E kind \in {"read", "resolved"} : Read(kind)
      BY DEF Read
    <3>2. ~(ReadSnapshot \/ Publish \/ Resolve \/ Replay \/ CheckWitness)
      BY DEF ReadSnapshot, Publish, Resolve, Replay, CheckWitness, storeVars
    <3>3. ~\E r \in held : Mutate(r)
      BY DEF Mutate, storeVars
    <3>4. ~\E kind \in {"append", "decide", "stage"} : AppendBegin(kind)
      BY DEF AppendBegin, storeVars
    <3>5. ~(Choose \/ Reenter \/ AppendEnds \/ Raise)
      BY DEF Choose, Reenter, AppendEnds, Raise, storeVars
    <3>6. /\ ~StageView /\ ~\E n \in 1 .. MaxBatch : StageAppend(n)
          /\ ~\E folded \in {0, 1} : StageFails(folded)
      BY DEF StageView, StageAppend, StageFails, storeVars
    <3>7. ~(Peek \/ OtherAppends \/ StoreFails \/ ReadRefused)
      BY <2>1 DEF Peek, OtherAppends, StoreFree, StoreFails, ReadRefused, storeVars
    <3> QED
      BY <1>1, <3>1, <3>2, <3>3, <3>4, <3>5, <3>6, <3>7 DEF Next
  <2>4. log' = log \o op.chosen /\ StageActive
    BY <2>1, <2>3 DEF Decided, Chosen, Commit, CommitFails
  <2> QED
    BY <1>1, <2>1, <2>4 DEF LedgerInv, Deciding
<1> QED
  BY <1>1, LedgerInvariant, PTL DEF Spec, StageWhole
=============================================================================
