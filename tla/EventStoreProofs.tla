-------------------------- MODULE EventStoreProofs --------------------------
(***************************************************************************)
(* Proofs about EventStore, for every set of handles and every bound, over *)
(* a log that exists when the system starts.                               *)
(***************************************************************************)
EXTENDS EventStore, SequenceTheorems, TLAPS

-----------------------------------------------------------------------------
(* Facts about file images *)

\* Two images agree on their first n chunks.
Same(l, m, n) == /\ n <= Len(l) /\ n <= Len(m)
                 /\ \A i \in 1 .. n : l[i] = m[i]

\* The first c lines end with the last record of a decision.
EndsDecision(l, c) == c > 0 => l[2 * c].rec.last = l[2 * c].rec.id

\* The chunks of a batch that continues a given tail.
Continues(b, t) ==
    /\ Len(b) = 2 * Lines(b) /\ Lines(b) \in Nat \ {0}
    /\ \A j \in 1 .. Lines(b) :
          /\ b[2 * j - 1].part = "body" /\ b[2 * j].part = "end"
          /\ b[2 * j - 1].rec = b[2 * j].rec
          /\ b[2 * j].rec.seq = t.count + j - 1
          /\ b[2 * j].rec.prev = IF j = 1 THEN t.hash ELSE b[2 * (j - 1)].rec.id
          /\ b[2 * j].rec.last = b[2 * Lines(b)].rec.id

\* Agreement up to n is an equivalence, and agreement up to less.
LEMMA SameBasics ==
    ASSUME NEW l \in Seq(Chunk), NEW m \in Seq(Chunk), NEW n \in Nat,
           Same(l, m, n)
    PROVE  /\ Same(m, l, n)
           /\ \A k \in 0 .. n : Same(l, m, k)
           /\ \A j \in Seq(Chunk) : Same(m, j, n) => Same(l, j, n)
  <1> USE DEF Same
  <1>1. Same(m, l, n)
    OBVIOUS
  <1>2. \A k \in 0 .. n : Same(l, m, k)
    OBVIOUS
  <1>3. \A j \in Seq(Chunk) : Same(m, j, n) => Same(l, j, n)
    OBVIOUS
  <1> QED BY <1>1, <1>2, <1>3

\* Agreement of images is transitive.
LEMMA SameTrans ==
    ASSUME NEW l \in Seq(Chunk), NEW m \in Seq(Chunk), NEW j \in Seq(Chunk),
           NEW n \in Nat, Same(l, m, n), Same(m, j, n)
    PROVE  Same(l, j, n)
  BY DEF Same

\* An image agrees with itself as far as it goes.
LEMMA SameItself ==
    ASSUME NEW l \in Seq(Chunk), NEW n \in Nat, n <= Len(l)
    PROVE  Same(l, l, n)
  BY DEF Same

\* Images that agree on c lines hold the same records in them.
LEMMA SameLines ==
    ASSUME NEW l \in Seq(Chunk), NEW m \in Seq(Chunk), NEW c \in Nat,
           Same(l, m, 2 * c)
    PROVE  /\ Chained(l, c) => Chained(m, c)
           /\ \A k \in 0 .. c : HashAt(l, k) = HashAt(m, k)
           /\ \A k \in 0 .. c : EndsDecision(l, k) => EndsDecision(m, k)
           /\ \A k \in 1 .. c : WholeLine(l, k) => WholeLine(m, k)
  <1>1. \A k \in 1 .. c : /\ l[2 * k] = m[2 * k]
                          /\ l[2 * k - 1] = m[2 * k - 1]
                          /\ 2 * k <= Len(m)
    BY DEF Same
  <1>2. \A k \in 0 .. c : HashAt(l, k) = HashAt(m, k)
    BY <1>1 DEF HashAt
  <1>3. \A k \in 1 .. c : WholeLine(l, k) => WholeLine(m, k)
    BY <1>1 DEF WholeLine
  <1>4. \A k \in 0 .. c : EndsDecision(l, k) => EndsDecision(m, k)
    BY <1>1 DEF EndsDecision
  <1>5. Chained(l, c) => Chained(m, c)
    <2> SUFFICES ASSUME Chained(l, c), NEW k \in 1 .. c
                 PROVE  /\ WholeLine(m, k)
                        /\ m[2 * k].rec.seq = k - 1
                        /\ m[2 * k].rec.prev = HashAt(m, k - 1)
      BY DEF Chained
    <2>1. HashAt(l, k - 1) = HashAt(m, k - 1)
      BY <1>2
    <2> QED BY <1>1, <1>3, <2>1 DEF Chained
  <1> QED BY <1>2, <1>3, <1>4, <1>5

\* A file has a natural number of lines.
LEMMA LinesType == \A l \in Seq(Chunk) : Lines(l) \in Nat
  BY DEF Lines

\* A record and a part of it make a chunk.
LEMMA ChunkOf ==
    \A r \in Record, q \in {"body", "end"} : [rec |-> r, part |-> q] \in Chunk
  BY DEF Chunk

\* A prepared batch is a sequence of chunks that continues its tail.
LEMMA PrepareContinues ==
    ASSUME NEW n \in Nat, NEW t \in TailRecord, NEW first \in Nat \ {0}
    PROVE  LET b == Prepare(n, t.count, t.hash, first)
           IN  /\ b \in Seq(Chunk) /\ Len(b) = 2 * n
               /\ n > 0 => Continues(b, t)
               /\ Lines(b) = n
               /\ \A k \in 1 .. n : b[2 * k].rec.seq = t.count + k - 1
  <1> DEFINE count == t.count
             last == t.hash
             b == Prepare(n, count, last, first)
             J == [i \in 1 .. 2 * n |-> (i + 1) \div 2]
             P == [i \in 1 .. 2 * n |-> IF i % 2 = 0 THEN "end" ELSE "body"]
             R == [k \in 1 .. n |->
                     [ seq |-> count + k - 1,
                       prev |-> IF k = 1 THEN last ELSE first + k - 2,
                       id |-> first + k - 1,
                       last |-> first + n - 1 ]]
  <1>0. count \in Nat /\ last \in Nat
    BY DEF TailRecord
  <1> HIDE DEF count, last
  <1>1. \A i \in 1 .. 2 * n : J[i] \in 1 .. n /\ P[i] \in {"body", "end"}
    OBVIOUS
  <1>2. \A k \in 1 .. n : /\ 2 * k \in 1 .. 2 * n /\ 2 * k - 1 \in 1 .. 2 * n
                          /\ J[2 * k] = k /\ J[2 * k - 1] = k
                          /\ P[2 * k] = "end" /\ P[2 * k - 1] = "body"
    OBVIOUS
  <1>3. \A i \in 1 .. 2 * n : b[i] = [rec |-> R[J[i]], part |-> P[i]]
    BY <1>1 DEF Prepare
  <1>4. \A k \in 1 .. n : R[k] \in Record
    BY <1>0 DEF Record
  <1>5. b \in [1 .. 2 * n -> Chunk]
    <2>1. b = [i \in 1 .. 2 * n |-> b[i]]
      BY DEF Prepare
    <2> HIDE DEF J, R, P, b
    <2>2. \A i \in 1 .. 2 * n : b[i] \in Chunk
      BY <1>1, <1>3, <1>4, ChunkOf
    <2> QED BY <2>1, <2>2
  <1>6. b \in Seq(Chunk) /\ Len(b) = 2 * n
    BY <1>5 DEF Prepare
  <1>7. Lines(b) = n
    BY <1>6 DEF Lines
  <1>8. ASSUME NEW k \in 1 .. n
        PROVE  /\ b[2 * k].rec = R[k] /\ b[2 * k].part = "end"
               /\ b[2 * k - 1].rec = R[k] /\ b[2 * k - 1].part = "body"
    <2>1. \A i \in 1 .. 2 * n : b[i].rec = R[J[i]] /\ b[i].part = P[i]
      BY <1>1 DEF Prepare
    <2> HIDE DEF J, P, b, R
    <2>2. /\ 2 * k \in 1 .. 2 * n /\ J[2 * k] = k /\ P[2 * k] = "end"
          /\ 2 * k - 1 \in 1 .. 2 * n /\ J[2 * k - 1] = k /\ P[2 * k - 1] = "body"
      BY <1>2
    <2>3. b[2 * k].rec = R[k] /\ b[2 * k].part = "end"
      BY <2>1, <2>2
    <2>4. b[2 * k - 1].rec = R[k] /\ b[2 * k - 1].part = "body"
      BY <2>1, <2>2
    <2> QED BY <2>3, <2>4
  <1>9. n > 0 => Continues(b, t)
    <2> SUFFICES ASSUME n > 0, NEW j \in 1 .. n
                 PROVE  /\ b[2 * j - 1].part = "body" /\ b[2 * j].part = "end"
                        /\ b[2 * j - 1].rec = b[2 * j].rec
                        /\ b[2 * j].rec.seq = count + j - 1
                        /\ b[2 * j].rec.prev =
                              IF j = 1 THEN last ELSE b[2 * (j - 1)].rec.id
                        /\ b[2 * j].rec.last = b[2 * n].rec.id
      BY <1>6, <1>7 DEF Continues, count, last
    <2> HIDE DEF b, J, P, R
    <2>1. /\ b[2 * j].rec = R[j] /\ b[2 * j].part = "end"
          /\ b[2 * j - 1].rec = R[j] /\ b[2 * j - 1].part = "body"
          /\ b[2 * n].rec = R[n]
      BY <1>8
    <2>2. j # 1 => b[2 * (j - 1)].rec = R[j - 1]
      BY <1>8
    <2> QED BY <2>1, <2>2 DEF R
  <1>10. \A k \in 1 .. n : b[2 * k].rec.seq = count + k - 1
    <2> SUFFICES ASSUME NEW k \in 1 .. n
                 PROVE  b[2 * k].rec.seq = count + k - 1
      OBVIOUS
    <2> HIDE DEF b, J, P, R
    <2>1. b[2 * k].rec = R[k]
      BY <1>8
    <2> QED BY <2>1 DEF R
  <1> QED BY <1>6, <1>7, <1>9, <1>10 DEF count, last
-----------------------------------------------------------------------------
(* The inductive invariant *)

Migrating == {"seal", "sealDir", "upgrade", "upgradeSync"}
Writing == {"write", "fsync", "size"}
Committing == {"replace", "dirSync"}
BeforeCommit == {"decide", "read", "replace"} \cup Migrating \cup Writing

\* Both images hold the committed records, and the boundary that would survive
\* a power loss lies on the one processes see.
DiskInv ==
    /\ headDur = NoHead =>
          /\ log = logDur /\ Len(log) = 2 * Lines(log)
          /\ Chained(log, Lines(log)) /\ EndsDecision(log, Lines(log))
          /\ head # NoHead => head.count = Lines(log)
    /\ head # NoHead => /\ Same(log, logDur, 2 * head.count)
                        /\ Chained(log, head.count)
                        /\ HashAt(log, head.count) = head.hash
                        /\ EndsDecision(log, head.count)
    /\ headDur # NoHead => /\ head # NoHead
                           /\ headDur.count <= head.count
                           /\ HashAt(log, headDur.count) = headDur.hash
                           /\ EndsDecision(log, headDur.count)

\* The header is only rewritten, and only once a head is durable.
HeaderInv ==
    /\ {header.kind, headerDur.kind} \subseteq {"legacy", "bound", "torn"}
    /\ headDur = NoHead => header.kind = "legacy" /\ headerDur.kind = "legacy"
    /\ header.key = headerDur.key

\* Nothing is written to a log whose head is not durable yet.
ModeOf(p) ==
    /\ pc[p] \notin Creating
    /\ pc[p] = "openTail" => seen[p] # NoHead
    /\ pc[p] = "sealDir" => head # NoHead
    /\ pc[p] \in {"upgrade", "upgradeSync"} => headDur # NoHead
    /\ pc[p] \in Writing \cup Committing
                 \cup {"upgradeSync", "repair", "closing"} =>
          header.kind # "legacy"
    /\ pc[p] \in {"seal", "sealDir", "upgrade"} => header.kind = "legacy"
    /\ pc[p] = "decide" => (~headReq[p] <=> header.kind = "legacy")
    /\ pc[p] = "upgradeSync" => \A q \in Handle : pc[q] # "closing"
    /\ pc[p] \in Migrating \/ (pc[p] = "decide" /\ ~headReq[p]) =>
          Len(log) = tail[p].size

\* Until it replaces the head, the holder's tail is the commit boundary.
HolderOf(p) ==
    pc[p] \in BeforeCommit =>
        /\ tail[p].size = 2 * tail[p].count
        /\ tail[p].size <= Len(log)
        /\ tail[p].count = CommittedCount(log, head)
        /\ tail[p].hash = HashAt(log, tail[p].count)

\* How far the prepared batch has got into the file.  A late flush of another
\* stream may be mixed with it, and then the file is too long.
Written(p) == Len(content[p]) - Len(buf[p])

Progress(p) ==
    /\ Written(p) >= 0
    /\ pc[p] = "write" <=> Len(buf[p]) > 0
    /\ \A i \in 1 .. Len(buf[p]) : buf[p][i] = content[p][Written(p) + i]
    /\ Len(log) >= tail[p].size + Written(p)
    /\ Len(log) = tail[p].size + Written(p) =>
          \A i \in 1 .. Written(p) : log[tail[p].size + i] = content[p][i]

\* After its fsync the log reaches at least as far as the batch should.
Synced(p) == /\ Same(log, logDur, Len(logDur))
             /\ Len(logDur) >= tail[p].size + Len(content[p])

\* The batch is in both images, right behind the tail.
Landed(p) == /\ Same(log, logDur, tail[p].size + Len(content[p]))
             /\ \A i \in 1 .. Len(content[p]) :
                   log[tail[p].size + i] = content[p][i]

BatchOf(p) ==
    /\ pc[p] \in Migrating \cup Writing \cup Committing =>
          Continues(content[p], tail[p])
    /\ pc[p] \in Migrating => buf[p] = content[p]
    /\ pc[p] \in Writing => Progress(p)
    /\ pc[p] = "size" => Synced(p)
    /\ pc[p] \in Committing => Landed(p)
    /\ pc[p] = "dirSync" => /\ head = BatchHead(p)
                            /\ tail[p].size = 2 * tail[p].count

\* A handle's cached size never falls short of the records it counts.
HandleInv ==
    \A p \in Handle : /\ tail[p].size >= 2 * tail[p].count
                      /\ ModeOf(p) /\ HolderOf(p) /\ BatchOf(p)

IInv == /\ TypeOK /\ DiskInv /\ HeaderInv /\ HandleInv
        /\ ObservedStays /\ AckedDurable
-----------------------------------------------------------------------------
(* Steps that keep the committed chunks of both images *)

KeepsCommitted ==
    /\ log' \in Seq(Chunk) /\ logDur' \in Seq(Chunk)
    /\ headDur = NoHead => UNCHANGED <<log, logDur>>
    /\ head # NoHead => /\ Same(log, log', 2 * head.count)
                        /\ Same(logDur, logDur', 2 * head.count)
                        /\ Same(log', logDur', 2 * head.count)

\* What the type invariant says of the files, unfolded once.
LEMMA HeadTypes ==
    ASSUME IInv
    PROVE  /\ head # NoHead => head \in HeadRecord /\ head.count \in Nat
                               /\ head.hash \in Nat
           /\ headDur # NoHead => headDur \in HeadRecord /\ headDur.count \in Nat
                                  /\ headDur.hash \in Nat
           /\ log \in Seq(Chunk) /\ logDur \in Seq(Chunk)
           /\ Lines(log) \in Nat /\ Len(log) \in Nat
  BY LinesType DEF IInv, TypeOK, DiskTypes, HeadRecord

\* Such a step preserves what is said of the committed chunks.
LEMMA KeepsDisk ==
    ASSUME IInv, KeepsCommitted, UNCHANGED <<head, headDur>>
    PROVE  DiskInv'
  <1> USE HeadTypes DEF KeepsCommitted
  <1>1. CASE headDur = NoHead
    BY <1>1 DEF IInv, DiskInv
  <1>2. CASE headDur # NoHead
    <2>1. head # NoHead /\ headDur.count <= head.count
      BY <1>2 DEF IInv, DiskInv
    <2>2. headDur.count \in 0 .. head.count /\ head.count \in 0 .. head.count
      BY <1>2, <2>1
    <2>3. /\ Chained(log', head.count)
          /\ HashAt(log', head.count) = head.hash
          /\ EndsDecision(log', head.count)
          /\ HashAt(log', headDur.count) = headDur.hash
          /\ EndsDecision(log', headDur.count)
      BY <1>2, <2>1, <2>2, SameLines DEF IInv, DiskInv
    <2> QED BY <1>2, <2>1, <2>3 DEF DiskInv
  <1> QED BY <1>1, <1>2

\* A step that keeps the committed chunks and the heads keeps what append
\* acknowledged durable.
LEMMA KeepsAcked ==
    ASSUME IInv, KeepsCommitted, UNCHANGED <<headDur, acked>>
    PROVE  AckedDurable'
  <1> USE HeadTypes DEF KeepsCommitted
  <1>1. CASE headDur = NoHead
    BY <1>1 DEF IInv, AckedDurable
  <1>2. CASE headDur # NoHead
    <2>1. head # NoHead /\ headDur.count <= head.count
      BY <1>2 DEF IInv, DiskInv
    <2> SUFFICES ASSUME NEW r \in acked
                 PROVE  /\ r.seq < headDur.count
                        /\ WholeLine(logDur', r.seq + 1)
                        /\ logDur'[2 * (r.seq + 1)].rec = r
      BY <1>2 DEF AckedDurable, CommittedCount
    <2>2. /\ r.seq < headDur.count
          /\ WholeLine(logDur, r.seq + 1)
          /\ logDur[2 * (r.seq + 1)].rec = r
      BY <1>2 DEF IInv, AckedDurable, CommittedCount
    <2>3. r.seq \in Nat
      BY DEF IInv, TypeOK, DiskTypes, Record
    <2>a. head.count \in Nat /\ headDur.count \in Nat
      BY <1>2, <2>1
    <2>b. r.seq + 1 \in 1 .. head.count
      BY <2>1, <2>2, <2>3, <2>a
    <2>4. r.seq + 1 \in 1 .. head.count /\ 2 * (r.seq + 1) \in 1 .. 2 * head.count
      BY <2>a, <2>b
    <2>5. WholeLine(logDur', r.seq + 1)
      BY <2>1, <2>2, <2>4, SameLines
    <2>6. logDur'[2 * (r.seq + 1)] = logDur[2 * (r.seq + 1)]
      BY <2>1, <2>4 DEF Same
    <2> QED BY <2>2, <2>5, <2>6
  <1> QED BY <1>1, <1>2

\* A handle may keep the commit it observed, take over the head, or forget.
LEMMA KeepsObserved ==
    ASSUME IInv, KeepsCommitted, head' = head,
           \A q \in Handle : seen'[q] \in {seen[q], head, NoHead}
    PROVE  ObservedStays'
  <1> USE HeadTypes DEF KeepsCommitted
  <1> SUFFICES ASSUME NEW q \in Handle, seen'[q] # NoHead
               PROVE  /\ head # NoHead
                      /\ seen'[q].count <= head.count
                      /\ HashAt(log', seen'[q].count) = seen'[q].hash
    BY DEF ObservedStays
  <1>1. /\ head # NoHead
        /\ seen'[q].count <= head.count
        /\ HashAt(log, seen'[q].count) = seen'[q].hash
        /\ seen'[q].count \in Nat
    <2>1. CASE seen'[q] = seen[q]
      BY <2>1 DEF IInv, ObservedStays, TypeOK, HandleTypes, HeadRecord
    <2>2. CASE seen'[q] = head
      BY <2>2 DEF IInv, DiskInv
    <2> QED BY <2>1, <2>2
  <1>2. seen'[q].count \in 0 .. head.count
    BY <1>1
  <1> QED BY <1>1, <1>2, SameLines

\* Truncating to a boundary behind the head keeps what is before it.
LEMMA TruncateKeeps ==
    ASSUME IInv, NEW e \in Nat, TruncateTo(e),
           head = NoHead => e >= Len(log),
           headDur = NoHead => e >= Len(log),
           head # NoHead => e >= 2 * head.count
    PROVE  /\ KeepsCommitted
           /\ Len(log') = IF Len(log) > e THEN e ELSE Len(log)
           /\ headerDur' \in {header, headerDur}
  <1> USE HeadTypes
  <1>1. CASE Len(log) > e
    <2> DEFINE m == SubSeq(log, 1, e)
    <2>1. log' = m /\ logDur' = m /\ headerDur' = header
      BY <1>1 DEF TruncateTo
    <2>2. \A i \in 1 .. e : log[i] \in Chunk
      BY <1>1
    <2>3. m \in Seq(Chunk) /\ Len(m) = e /\ \A i \in 1 .. e : m[i] = log[i]
      BY <2>2, SubSeqProperties
    <2>4. head # NoHead /\ headDur # NoHead /\ 2 * head.count \in 0 .. e
      BY <1>1
    <2>5. Same(log, logDur, 2 * head.count)
      BY <2>4 DEF IInv, DiskInv
    <2> HIDE DEF m
    <2> DEFINE c == 2 * head.count
    <2> HIDE DEF c
    <2>6. c \in 0 .. e /\ c \in Nat /\ Same(log, logDur, c)
      BY <2>4, <2>5 DEF c
    <2>7. Same(log, m, c)
      BY <1>1, <2>3, <2>6 DEF Same
    <2>8. Same(logDur, log, c) /\ Same(logDur, m, c) /\ Same(m, m, c)
      BY <2>3, <2>6, <2>7, SameBasics, SameItself
    <2>9. KeepsCommitted
      BY <2>1, <2>3, <2>4, <2>7, <2>8 DEF KeepsCommitted, c
    <2> QED BY <1>1, <2>1, <2>3, <2>9
  <1>2. CASE Len(log) <= e
    <2>1. UNCHANGED <<log, logDur, headerDur>>
      BY <1>2 DEF TruncateTo
    <2>2. head # NoHead => Same(log, logDur, 2 * head.count)
      BY DEF IInv, DiskInv
    <2>3. head # NoHead => /\ Same(log, log, 2 * head.count)
                           /\ Same(logDur, logDur, 2 * head.count)
      BY <2>2 DEF Same
    <2>4. KeepsCommitted
      BY <2>1, <2>2, <2>3 DEF KeepsCommitted
    <2> QED BY <1>2, <2>1, <2>4
  <1> QED BY <1>1, <1>2

\* A step that leaves the files alone keeps the committed chunks.
LEMMA SteadyKeeps ==
    ASSUME IInv, UNCHANGED <<log, logDur>>
    PROVE  KeepsCommitted
  <1>1. head # NoHead => Same(log, logDur, 2 * head.count)
    BY DEF IInv, DiskInv
  <1>2. head # NoHead => /\ Same(log, log, 2 * head.count)
                         /\ Same(logDur, logDur, 2 * head.count)
    BY <1>1 DEF Same
  <1> QED BY <1>1, <1>2, HeadTypes DEF KeepsCommitted

-----------------------------------------------------------------------------
(* What a step says of the handles *)

\* Which program locations are inside the critical section.
LEMMA PCSets ==
    /\ BeforeCommit \subseteq Working /\ Migrating \subseteq Working
    /\ Writing \subseteq Working /\ Committing \subseteq Working
    /\ {"repair", "decide", "size", "dirSync", "sealDir", "upgrade",
        "upgradeSync", "seal"} \subseteq Working
    /\ Working \cap Creating = {} /\ Working \cap Opening = {}
    /\ {"idle", "closing", "closed"} \cap Working = {}
    /\ {"idle", "closing", "closed"} \cap Creating = {}
    /\ Refused \cap Working = {} /\ Refused \cap Creating = {}
    /\ Opening \cap Creating = {}
  BY DEF BeforeCommit, Migrating, Writing, Committing, Working, Creating,
         Opening, Refused

\* Outside the critical section little is asked of a handle.
LEMMA NotWorking ==
    ASSUME NEW q \in Handle, pc'[q] \notin Working, pc'[q] \notin Creating,
           pc'[q] = "openTail" => seen'[q] # NoHead,
           pc'[q] = "closing" => header'.kind # "legacy"
    PROVE  ModeOf(q)' /\ HolderOf(q)' /\ BatchOf(q)'
  <1>1. ModeOf(q)'
    BY PCSets DEF ModeOf
  <1>2. HolderOf(q)'
    BY PCSets DEF HolderOf
  <1>3. BatchOf(q)'
    BY PCSets DEF BatchOf
  <1> QED BY <1>1, <1>2, <1>3

\* A handle that a step does not touch, over files it does not touch.
LEMMA Untouched ==
    ASSUME IInv, NEW q \in Handle,
           UNCHANGED <<log, logDur, head, headDur, header>>,
           pc'[q] = pc[q], tail'[q] = tail[q], seen'[q] = seen[q],
           headReq'[q] = headReq[q], content'[q] = content[q],
           buf'[q] = buf[q], key'[q] = key[q],
           \A x \in Handle : pc'[x] = "closing" => pc[x] = "closing"
    PROVE  ModeOf(q)' /\ HolderOf(q)' /\ BatchOf(q)'
  <1>1. ModeOf(q) /\ HolderOf(q) /\ BatchOf(q)
    BY DEF IInv, HandleInv
  <1>2. ModeOf(q)'
    BY <1>1 DEF ModeOf
  <1>3. HolderOf(q)'
    BY <1>1 DEF HolderOf
  <1>4. BatchOf(q)'
    BY <1>1 DEF BatchOf, BatchHead, Progress, Written, Synced, Landed
  <1> QED BY <1>2, <1>3, <1>4

\* A step of one handle that leaves the files alone and leaves the handle
\* outside the critical section.
LEMMA PrivateStep ==
    ASSUME IInv, NEW p \in Handle,
           UNCHANGED <<diskVars, nextId, acked>>,
           faults' \in Nat, HandleTypes',
           lock' = IF lock = p THEN NoHandle ELSE lock,
           pc'[p] \notin Working, pc'[p] \notin Creating,
           pc'[p] = "openTail" => seen'[p] # NoHead,
           pc'[p] # "closing",
           seen'[p] \in {seen[p], head, NoHead},
           tail'[p].size >= 2 * tail'[p].count,
           \A q \in Handle \ {p} :
              /\ pc'[q] = pc[q] /\ tail'[q] = tail[q] /\ seen'[q] = seen[q]
              /\ headReq'[q] = headReq[q] /\ content'[q] = content[q]
              /\ buf'[q] = buf[q] /\ key'[q] = key[q]
    PROVE  IInv'
  <1>1. DiskTypes'
    BY DEF IInv, TypeOK, DiskTypes, diskVars
  <1>2. LockHeld'
    BY NoHandleAssumption DEF IInv, TypeOK, LockHeld
  <1>3. KeepsCommitted
    BY SteadyKeeps DEF diskVars
  <1>4. DiskInv' /\ AckedDurable'
    BY <1>3, KeepsDisk, KeepsAcked DEF diskVars
  <1>5. \A q \in Handle : seen'[q] \in {seen[q], head, NoHead}
    OBVIOUS
  <1>6. ObservedStays'
    BY <1>3, <1>5, KeepsObserved DEF diskVars
  <1>7. HeaderInv'
    BY DEF IInv, HeaderInv, diskVars
  <1>8. ASSUME NEW q \in Handle
        PROVE  /\ tail'[q].size >= 2 * tail'[q].count
               /\ ModeOf(q)' /\ HolderOf(q)' /\ BatchOf(q)'
    <2>1. CASE q = p
      BY <2>1, NotWorking
    <2>2. CASE q # p
      <3>1. \A x \in Handle : pc'[x] = "closing" => pc[x] = "closing"
        OBVIOUS
      <3>2. ModeOf(q)' /\ HolderOf(q)' /\ BatchOf(q)'
        BY <2>2, <3>1, Untouched DEF diskVars
      <3> QED BY <2>2, <3>2 DEF IInv, HandleInv
    <2> QED BY <2>1, <2>2
  <1>9. HandleInv'
    BY <1>8 DEF HandleInv
  <1> QED BY <1>1, <1>2, <1>4, <1>6, <1>7, <1>9 DEF IInv, TypeOK

\* A step under the lock, or taken while nobody holds it, that may change the
\* files behind the commit boundary.
LEMMA LockedStep ==
    ASSUME IInv, NEW p \in Handle, lock \in {p, NoHandle}, KeepsCommitted,
           UNCHANGED <<header, head, headDur, acked>>,
           headerDur' \in {header, headerDur},
           nextId' \in Nat \ {0}, faults' \in Nat, HandleTypes', LockHeld',
           \A q \in Handle : seen'[q] \in {seen[q], head, NoHead},
           \A q \in Handle : tail'[q].size >= 2 * tail'[q].count,
           \A q \in Handle \ {p} : /\ pc'[q] \in {pc[q], "idle"}
                                   /\ pc'[q] # "idle" => seen'[q] = seen[q],
           ModeOf(p)', HolderOf(p)', BatchOf(p)'
    PROVE  IInv'
  <1>1. DiskTypes'
    BY DEF IInv, TypeOK, DiskTypes, KeepsCommitted
  <1>2. DiskInv' /\ AckedDurable'
    BY KeepsDisk, KeepsAcked
  <1>3. ObservedStays'
    BY KeepsObserved
  <1>4. HeaderInv'
    BY DEF IInv, HeaderInv
  <1>5. ASSUME NEW q \in Handle, q # p
        PROVE  ModeOf(q)' /\ HolderOf(q)' /\ BatchOf(q)'
    <2>1. pc[q] \notin Working
      BY <1>5, NoHandleAssumption DEF IInv, TypeOK, LockHeld
    <2>2. ModeOf(q)
      BY DEF IInv, HandleInv
    <2>3. pc'[q] \notin Working /\ pc'[q] \notin Creating
      BY <1>5, <2>1, <2>2, PCSets DEF ModeOf
    <2>4. /\ pc'[q] = "openTail" => seen'[q] # NoHead
          /\ pc'[q] = "closing" => header'.kind # "legacy"
      BY <1>5, <2>2 DEF ModeOf
    <2> QED BY <2>3, <2>4, NotWorking
  <1>6. HandleInv'
    BY <1>5 DEF HandleInv
  <1> QED BY <1>1, <1>2, <1>3, <1>4, <1>6 DEF IInv, TypeOK

-----------------------------------------------------------------------------
(* The steps of one handle that leave the files alone *)

\* The invariant survives a decision that returns no event.
LEMMA DecideNothingStep ==
    ASSUME IInv, NEW p \in Handle, DecideNothing(p)
    PROVE  IInv'
  <1> USE DEF DecideNothing, Goto, cacheVars, streamVars, readVars
  <1>1. HandleTypes'
    BY DEF IInv, TypeOK, HandleTypes, PC
  <1>2. lock = p /\ pc'[p] = "idle"
    BY DEF IInv, TypeOK, HandleTypes, LockHeld, Working
  <1>3. tail'[p].size >= 2 * tail'[p].count
    BY DEF IInv, HandleInv
  <1>4. faults' \in Nat
    BY DEF IInv, TypeOK, DiskTypes
  <1>5. \A q \in Handle \ {p} : pc'[q] = pc[q]
    BY DEF IInv, TypeOK, HandleTypes
  <1> QED BY <1>1, <1>2, <1>3, <1>4, <1>5, PCSets, PrivateStep

\* The invariant survives closing a stream whose buffer is empty or lost.
LEMMA CloseStreamStep ==
    ASSUME IInv, NEW p \in Handle, CloseStream(p)
    PROVE  IInv'
  <1> USE DEF CloseStream, Goto, cacheVars, readVars
  <1>1. HandleTypes'
    BY DEF IInv, TypeOK, HandleTypes, PC
  <1>2. lock # p /\ pc'[p] = "idle"
    BY DEF IInv, TypeOK, HandleTypes, LockHeld, Working
  <1>3. tail'[p].size >= 2 * tail'[p].count
    BY DEF IInv, HandleInv
  <1>4. faults' \in Nat
    BY DEF IInv, TypeOK, DiskTypes
  <1>5. \A q \in Handle \ {p} : pc'[q] = pc[q] /\ buf'[q] = buf[q]
    BY DEF IInv, TypeOK, HandleTypes
  <1> QED BY <1>1, <1>2, <1>3, <1>4, <1>5, PCSets, PrivateStep

\* The hash at a committed line is a number.
LEMMA HashAtType ==
    ASSUME NEW l \in Seq(Chunk), NEW k \in Nat, 2 * k <= Len(l)
    PROVE  HashAt(l, k) \in Nat
  <1>1. k # 0 => l[2 * k] \in Chunk
    OBVIOUS
  <1> QED BY <1>1 DEF HashAt, Genesis, Chunk, Record

\* The invariant survives the end of a locked read.
LEMMA ReadEndStep ==
    ASSUME IInv, NEW p \in Handle, ReadEnd(p)
    PROVE  IInv'
  <1> USE DEF ReadEnd, Goto, cacheVars, streamVars
  <1>0. HolderOf(p) /\ tail[p].count \in Nat /\ tail[p].size \in Nat
    BY DEF IInv, HandleInv, TypeOK, HandleTypes, TailRecord
  <1>1. 2 * tail[p].count <= Len(log)
    BY <1>0 DEF HolderOf, BeforeCommit
  <1>2. \A k \in 1 .. tail[p].count : HashAt(log, k) \in Nat
    BY <1>0, <1>1, HashAtType, HeadTypes
  <1>3. [k \in 1 .. tail[p].count |-> HashAt(log, k)] \in Seq(Nat)
    BY <1>0, <1>2
  <1>4. view' \in [Handle -> Seq(Nat)]
    BY <1>3 DEF IInv, TypeOK, HandleTypes
  <1>5. viewEnd' \in [Handle -> Nat]
    BY HeadTypes DEF IInv, TypeOK, HandleTypes
  <1>6. HandleTypes'
    BY <1>4, <1>5 DEF IInv, TypeOK, HandleTypes, PC
  <1>7. lock = p /\ pc'[p] = "idle"
    BY DEF IInv, TypeOK, HandleTypes, LockHeld, Working
  <1>8. tail'[p].size >= 2 * tail'[p].count
    BY DEF IInv, HandleInv
  <1>9. faults' \in Nat
    BY DEF IInv, TypeOK, DiskTypes
  <1>10. \A q \in Handle \ {p} : pc'[q] = pc[q]
    BY DEF IInv, TypeOK, HandleTypes
  <1> QED BY <1>6, <1>7, <1>8, <1>9, <1>10, PCSets, PrivateStep

\* What an idle handle does without the lock leaves its pc alone.
LEMMA IdleKept ==
    ASSUME IInv, NEW p \in Handle, Usable(p), UNCHANGED <<pc, lock>>
    PROVE  /\ lock # p /\ pc'[p] = "idle"
           /\ lock' = IF lock = p THEN NoHandle ELSE lock
  BY NoHandleAssumption DEF Usable

\* The invariant survives reading on from a cursor.
LEMMA SuffixStep ==
    ASSUME IInv, NEW p \in Handle, Suffix(p)
    PROVE  IInv'
  <1> USE DEF Suffix, cacheVars, streamVars
  <1> DEFINE n == head.count - Cursor(p).count
             more == [k \in 1 .. n |-> log[viewEnd[p] + 2 * k].rec.id]
  <1>0. /\ view[p] \in Seq(Nat) /\ viewEnd[p] \in Nat /\ Len(view[p]) \in Nat
        /\ head # NoHead /\ head.count \in Nat
    BY HeadTypes DEF IInv, TypeOK, HandleTypes, SuffixPossible, HeadHolds
  <1>1. Cursor(p).count = Len(view[p]) /\ Cursor(p).count <= head.count
    BY DEF Cursor, CursorFits
  <1>2. n \in Nat
    BY <1>0, <1>1
  <1>3. viewEnd[p] + 2 * n <= Len(log)
    BY DEF SuffixReaches
  <1>4. \A k \in 1 .. n : viewEnd[p] + 2 * k \in 1 .. Len(log)
    BY <1>0, <1>2, <1>3, HeadTypes
  <1>5. \A k \in 1 .. n : log[viewEnd[p] + 2 * k].rec.id \in Nat
    <2> SUFFICES ASSUME NEW k \in 1 .. n
                 PROVE  log[viewEnd[p] + 2 * k].rec.id \in Nat
      OBVIOUS
    <2>1. log[viewEnd[p] + 2 * k] \in Chunk
      BY <1>4, HeadTypes
    <2> QED BY <2>1 DEF Chunk, Record
  <1>6. more \in Seq(Nat)
    BY <1>2, <1>5
  <1>7. /\ view' = [view EXCEPT ![p] = view[p] \o more]
        /\ viewEnd' = [viewEnd EXCEPT ![p] = viewEnd[p] + 2 * n]
    OBVIOUS
  <1> HIDE DEF more
  <1>8. view[p] \o more \in Seq(Nat)
    BY <1>0, <1>6, ConcatProperties
  <1>9. view' \in [Handle -> Seq(Nat)]
    BY <1>7, <1>8 DEF IInv, TypeOK, HandleTypes
  <1>10. viewEnd' \in [Handle -> Nat]
    BY <1>0, <1>2, <1>7 DEF IInv, TypeOK, HandleTypes
  <1>11. HandleTypes'
    BY <1>9, <1>10 DEF IInv, TypeOK, HandleTypes
  <1>12. tail'[p].size >= 2 * tail'[p].count /\ faults' \in Nat
    BY DEF IInv, HandleInv, TypeOK, DiskTypes
  <1> QED BY <1>11, <1>12, IdleKept, PCSets, PrivateStep DEF SuffixPossible

\* The invariant survives a cursor that is refused.
LEMMA SuffixRaisesStep ==
    ASSUME IInv, NEW p \in Handle, SuffixRaises(p)
    PROVE  IInv'
  <1> USE DEF SuffixRaises, streamVars
  <1>1. << >> \in Seq(Nat) /\ CursorFits(p) \in BOOLEAN
    BY EmptySeq DEF CursorFits
  <1>2. failed' \in [Handle -> BOOLEAN]
    BY <1>1 DEF IInv, TypeOK, HandleTypes
  <1>3. view' \in [Handle -> Seq(Nat)] /\ viewEnd' \in [Handle -> Nat]
    BY <1>1 DEF IInv, TypeOK, HandleTypes
  <1>4. HandleTypes'
    BY <1>2, <1>3 DEF IInv, TypeOK, HandleTypes
  <1>5. tail'[p].size >= 2 * tail'[p].count /\ faults' \in Nat
    BY DEF IInv, HandleInv, TypeOK, DiskTypes
  <1> QED BY <1>4, <1>5, IdleKept, PCSets, PrivateStep DEF SuffixPossible

\* The invariant survives a fork that is refused.
LEMMA ForkRaisesStep ==
    ASSUME IInv, NEW p \in Handle, ForkRaises(p)
    PROVE  IInv'
  <1> USE DEF ForkRaises, streamVars, readVars
  <1>1. HandleTypes'
    BY DEF IInv, TypeOK, HandleTypes
  <1>2. tail'[p].size >= 2 * tail'[p].count /\ faults' \in Nat
    BY DEF IInv, HandleInv, TypeOK, DiskTypes
  <1> QED BY <1>1, <1>2, IdleKept, PCSets, PrivateStep

\* An opening handle does not hold the lock.
LEMMA OpeningFree ==
    ASSUME IInv, NEW p \in Handle, pc[p] \in Opening \cup Refused \cup {"closed"}
    PROVE  lock # p
  BY PCSets DEF IInv, TypeOK, LockHeld

\* The invariant survives open's look at the header.
LEMMA OpenHeaderStep ==
    ASSUME IInv, NEW p \in Handle, OpenHeader(p)
    PROVE  IInv'
  <1> USE DEF OpenHeader, Goto, streamVars, readVars
  <1>1. pc'[p] \in {"openHead", "refused"} /\ lock # p
    BY OpeningFree DEF IInv, TypeOK, HandleTypes
  <1>2. pc' \in [Handle -> PC]
    BY DEF IInv, TypeOK, HandleTypes, PC, Opening, Refused
  <1>3. key' \in [Handle -> Key]
    BY DEF IInv, TypeOK, HandleTypes, DiskTypes, HeaderRecord
  <1>4. Bound \in BOOLEAN
    BY DEF Bound
  <1>5. headReq' \in [Handle -> BOOLEAN]
    BY <1>4 DEF IInv, TypeOK, HandleTypes
  <1>6. HandleTypes'
    BY <1>2, <1>3, <1>5 DEF IInv, TypeOK, HandleTypes
  <1>7. tail'[p].size >= 2 * tail'[p].count /\ faults' \in Nat
    BY DEF IInv, HandleInv, TypeOK, DiskTypes
  <1>8. \A q \in Handle \ {p} : pc'[q] = pc[q] /\ key'[q] = key[q]
    BY DEF IInv, TypeOK, HandleTypes
  <1>9. \A q \in Handle \ {p} : headReq'[q] = headReq[q]
    BY DEF IInv, TypeOK, HandleTypes
  <1>10. pc'[p] \notin Working /\ pc'[p] \notin Creating
    BY <1>1 DEF Working, Creating
  <1> QED BY <1>1, <1>6, <1>7, <1>8, <1>9, <1>10, PrivateStep

\* Where reading the head can lead.
LEMMA AfterHeadTarget ==
    ASSUME NEW p \in Handle, NEW found, NEW none
    PROVE  /\ AfterHead(p, found, none) \in {found, none, "headless", "refused"}
           /\ found # none /\ AfterHead(p, found, none) = found =>
                 HeadHolds(p) \/ found \in Refused
  <1>1. CASE HeadHolds(p)
    BY <1>1 DEF AfterHead
  <1>2. CASE ~HeadHolds(p) /\ head = NoHead /\ ~headReq[p]
    BY <1>2 DEF AfterHead, HeadHolds
  <1>3. CASE ~HeadHolds(p) /\ head = NoHead /\ headReq[p]
    BY <1>3 DEF AfterHead, HeadHolds, Refused
  <1>4. CASE ~HeadHolds(p) /\ head # NoHead
    BY <1>4 DEF AfterHead, HeadHolds, Refused
  <1> QED BY <1>1, <1>2, <1>3, <1>4

\* The invariant survives open's first look at the head.
LEMMA OpenHeadStep ==
    ASSUME IInv, NEW p \in Handle, OpenHead(p)
    PROVE  IInv'
  <1> USE DEF OpenHead, Goto, streamVars, readVars
  <1> DEFINE to == AfterHead(p, "openTail", "openLock")
  <1>1. /\ to \in {"openTail", "openLock", "headless", "refused"}
        /\ to = "openTail" => HeadHolds(p)
    BY AfterHeadTarget DEF Refused
  <1>2. pc'[p] = to /\ seen'[p] = head /\ lock # p
    BY OpeningFree DEF IInv, TypeOK, HandleTypes, Opening
  <1>3. pc' \in [Handle -> PC]
    <2>1. to \in PC
      BY <1>1 DEF PC, Opening, Refused
    <2>2. pc' = [pc EXCEPT ![p] = to]
      OBVIOUS
    <2> HIDE DEF to
    <2> QED BY <2>1, <2>2 DEF IInv, TypeOK, HandleTypes
  <1>4. seen' \in [Handle -> HeadRecord \cup {NoHead}]
    BY DEF IInv, TypeOK, HandleTypes, DiskTypes
  <1>5. HandleTypes'
    BY <1>3, <1>4 DEF IInv, TypeOK, HandleTypes
  <1>6. tail'[p].size >= 2 * tail'[p].count /\ faults' \in Nat
    BY DEF IInv, HandleInv, TypeOK, DiskTypes
  <1>7. \A q \in Handle \ {p} : pc'[q] = pc[q] /\ seen'[q] = seen[q]
    BY DEF IInv, TypeOK, HandleTypes
  <1>8. pc'[p] \notin Working /\ pc'[p] \notin Creating /\ pc'[p] # "closing"
    BY <1>1, <1>2 DEF Working, Creating
  <1>9. pc'[p] = "openTail" => seen'[p] # NoHead
    BY <1>1, <1>2 DEF HeadHolds
  <1> HIDE DEF to
  <1> QED BY <1>2, <1>5, <1>6, <1>7, <1>8, <1>9, PrivateStep

\* The invariant survives open's fast path over the last line.
LEMMA OpenTailStep ==
    ASSUME IInv, NEW p \in Handle, OpenTail(p)
    PROVE  IInv'
  <1> USE DEF OpenTail, Goto, streamVars, readVars
  <1>1. pc'[p] \in {"openCheck", "openLock"} /\ lock # p
    BY OpeningFree DEF IInv, TypeOK, HandleTypes, Opening
  <1>2. /\ seen[p] # NoHead /\ seen[p].count \in Nat /\ seen[p].hash \in Nat
        /\ Len(log) \in Nat
    BY HeadTypes DEF IInv, HandleInv, ModeOf, TypeOK, HandleTypes, HeadRecord
  <1>3. 2 * seen[p].count <= Len(log)
    <2>1. head # NoHead /\ seen[p].count <= head.count /\ head.count \in Nat
      BY <1>2, HeadTypes DEF IInv, ObservedStays
    <2>2. 2 * head.count <= Len(log)
      BY <2>1 DEF IInv, DiskInv, Same
    <2> QED BY <1>2, <2>1, <2>2
  <1>4. pc' \in [Handle -> PC]
    BY DEF IInv, TypeOK, HandleTypes, PC, Opening
  <1>5. tail' \in [Handle -> TailRecord]
    <2> DEFINE t == [count |-> seen[p].count, hash |-> seen[p].hash,
                     size |-> Len(log)]
    <2>1. t \in TailRecord
      BY <1>2 DEF TailRecord
    <2>2. tail' = [tail EXCEPT ![p] = t] \/ tail' = tail
      OBVIOUS
    <2> HIDE DEF t
    <2> QED BY <2>1, <2>2 DEF IInv, TypeOK, HandleTypes
  <1>6. HandleTypes'
    BY <1>4, <1>5 DEF IInv, TypeOK, HandleTypes
  <1>7. tail'[p].size >= 2 * tail'[p].count
    BY <1>3 DEF IInv, HandleInv, TypeOK, HandleTypes
  <1>8. faults' \in Nat
    BY DEF IInv, TypeOK, DiskTypes
  <1>9. \A q \in Handle \ {p} : pc'[q] = pc[q] /\ tail'[q] = tail[q]
    BY DEF IInv, TypeOK, HandleTypes
  <1>10. pc'[p] \notin Working /\ pc'[p] \notin Creating
    BY <1>1 DEF Working, Creating
  <1> QED BY <1>1, <1>6, <1>7, <1>8, <1>9, <1>10, PrivateStep

\* The invariant survives open's scan of a log without a head.
LEMMA OpenScanStep ==
    ASSUME IInv, NEW p \in Handle, OpenScan(p)
    PROVE  IInv'
  <1> USE DEF OpenScan, Goto, streamVars, readVars
  <1>1. pc'[p] \in {"openCheck", "refused"} /\ lock # p
    BY OpeningFree DEF IInv, TypeOK, HandleTypes, Opening
  <1>2. 2 * Lines(log) <= Len(log) /\ Lines(log) \in Nat /\ Len(log) \in Nat
    BY HeadTypes DEF Lines
  <1>3. HashAt(log, Lines(log)) \in Nat
    BY <1>2, HashAtType, HeadTypes
  <1>4. pc' \in [Handle -> PC]
    BY DEF IInv, TypeOK, HandleTypes, PC, Opening, Refused
  <1>5. tail' \in [Handle -> TailRecord]
    <2> DEFINE t == [count |-> Lines(log), hash |-> HashAt(log, Lines(log)),
                     size |-> Len(log)]
    <2>1. t \in TailRecord
      BY <1>2, <1>3 DEF TailRecord
    <2>2. tail' = [tail EXCEPT ![p] = t] \/ tail' = tail
      OBVIOUS
    <2> HIDE DEF t
    <2> QED BY <2>1, <2>2 DEF IInv, TypeOK, HandleTypes
  <1>6. HandleTypes'
    BY <1>4, <1>5 DEF IInv, TypeOK, HandleTypes
  <1>7. tail'[p].size >= 2 * tail'[p].count
    BY <1>2 DEF IInv, HandleInv, TypeOK, HandleTypes
  <1>8. faults' \in Nat
    BY DEF IInv, TypeOK, DiskTypes
  <1>9. \A q \in Handle \ {p} : pc'[q] = pc[q] /\ tail'[q] = tail[q]
    BY DEF IInv, TypeOK, HandleTypes
  <1>10. pc'[p] \notin Working /\ pc'[p] \notin Creating
    BY <1>1 DEF Working, Creating
  <1> QED BY <1>1, <1>6, <1>7, <1>8, <1>9, <1>10, PrivateStep

\* The invariant survives open's second look at the head.
LEMMA OpenCheckStep ==
    ASSUME IInv, NEW p \in Handle, OpenCheck(p)
    PROVE  IInv'
  <1> USE DEF OpenCheck, Goto, cacheVars, streamVars, readVars
  <1> DEFINE found == IF head = TailHead(p) THEN "idle" ELSE "accused"
             to == AfterHead(p, found, "idle")
  <1>1. to \in {"idle", "accused", "headless", "refused"}
    BY AfterHeadTarget
  <1>2. pc'[p] = to /\ lock # p
    BY OpeningFree DEF IInv, TypeOK, HandleTypes, Opening
  <1>3. pc' \in [Handle -> PC]
    <2>1. to \in PC
      BY <1>1 DEF PC, Refused
    <2>2. pc' = [pc EXCEPT ![p] = to]
      OBVIOUS
    <2> HIDE DEF to
    <2> QED BY <2>1, <2>2 DEF IInv, TypeOK, HandleTypes
  <1>4. HandleTypes'
    BY <1>3 DEF IInv, TypeOK, HandleTypes
  <1>5. tail'[p].size >= 2 * tail'[p].count /\ faults' \in Nat
    BY DEF IInv, HandleInv, TypeOK, DiskTypes
  <1>6. \A q \in Handle \ {p} : pc'[q] = pc[q]
    BY DEF IInv, TypeOK, HandleTypes
  <1>7. /\ pc'[p] \notin Working /\ pc'[p] \notin Creating
        /\ pc'[p] # "closing" /\ pc'[p] # "openTail"
    BY <1>1, <1>2 DEF Working, Creating
  <1> HIDE DEF to
  <1> QED BY <1>2, <1>4, <1>5, <1>6, <1>7, PrivateStep

\* Forgetting leaves a well-typed empty handle.
LEMMA ForgetFacts ==
    ASSUME IInv, NEW p \in Handle, Forget(p), Goto(p, "closed")
    PROVE  /\ HandleTypes' /\ pc'[p] = "closed" /\ seen'[p] = NoHead
           /\ tail'[p].size >= 2 * tail'[p].count
           /\ \A q \in Handle \ {p} :
                 /\ pc'[q] = pc[q] /\ tail'[q] = tail[q] /\ seen'[q] = seen[q]
                 /\ headReq'[q] = headReq[q] /\ content'[q] = content[q]
                 /\ buf'[q] = buf[q] /\ key'[q] = key[q]
  <1> USE DEF Forget, Goto
  <1>1. << >> \in Seq(Nat) /\ << >> \in Seq(Chunk)
    BY EmptySeq
  <1>2. NoTail \in TailRecord /\ NoTail.size = 0 /\ NoTail.count = 0
    BY DEF NoTail, TailRecord, Genesis
  <1>3. HandleTypes'
    <2>1. pc' \in [Handle -> PC] /\ key' \in [Handle -> Key]
      BY DEF IInv, TypeOK, HandleTypes, PC, Key
    <2>2. tail' \in [Handle -> TailRecord]
      BY <1>2 DEF IInv, TypeOK, HandleTypes
    <2>3. seen' \in [Handle -> HeadRecord \cup {NoHead}]
      BY DEF IInv, TypeOK, HandleTypes
    <2>4. headReq' \in [Handle -> BOOLEAN] /\ failed' \in [Handle -> BOOLEAN]
      BY DEF IInv, TypeOK, HandleTypes
    <2>5. content' \in [Handle -> Seq(Chunk)] /\ buf' \in [Handle -> Seq(Chunk)]
      BY <1>1 DEF IInv, TypeOK, HandleTypes
    <2>6. view' \in [Handle -> Seq(Nat)] /\ viewEnd' \in [Handle -> Nat]
      BY <1>1 DEF IInv, TypeOK, HandleTypes
    <2> QED BY <2>1, <2>2, <2>3, <2>4, <2>5, <2>6 DEF HandleTypes
  <1>4. pc'[p] = "closed" /\ seen'[p] = NoHead /\ tail'[p] = NoTail
    BY DEF IInv, TypeOK, HandleTypes
  <1>5. \A q \in Handle \ {p} :
           /\ pc'[q] = pc[q] /\ tail'[q] = tail[q] /\ seen'[q] = seen[q]
           /\ content'[q] = content[q] /\ buf'[q] = buf[q] /\ key'[q] = key[q]
    BY DEF IInv, TypeOK, HandleTypes
  <1>6. \A q \in Handle \ {p} : headReq'[q] = headReq[q]
    BY DEF IInv, TypeOK, HandleTypes
  <1>7. tail'[p].size >= 2 * tail'[p].count
    BY <1>2, <1>4
  <1> QED BY <1>3, <1>4, <1>5, <1>6, <1>7

\* The invariant survives closing a handle.
LEMMA CloseStep ==
    ASSUME IInv, NEW p \in Handle, Close(p)
    PROVE  IInv'
  <1>1. lock # p /\ faults' \in Nat
    BY PCSets DEF IInv, TypeOK, LockHeld, DiskTypes, Close
  <1>2. "closed" \notin Working /\ "closed" \notin Creating
    BY PCSets
  <1> QED BY <1>1, <1>2, ForgetFacts, PrivateStep DEF Close

\* The invariant survives a process's death.
LEMMA KillStep ==
    ASSUME IInv, NEW p \in Handle, Kill(p)
    PROVE  IInv'
  <1>1. faults' \in Nat
    BY DEF IInv, TypeOK, DiskTypes, Kill, Fault
  <1>2. "closed" \notin Working /\ "closed" \notin Creating
    BY PCSets
  <1> QED BY <1>1, <1>2, ForgetFacts, PrivateStep DEF Kill, Release

-----------------------------------------------------------------------------
(* The steps of a writer before it replaces the head *)

\* What the type invariant says of one handle.
LEMMA HandleTyped ==
    ASSUME IInv, NEW p \in Handle
    PROVE  /\ tail[p].count \in Nat /\ tail[p].hash \in Nat
           /\ tail[p].size \in Nat /\ tail[p] \in TailRecord
           /\ content[p] \in Seq(Chunk) /\ Len(content[p]) \in Nat
           /\ buf[p] \in Seq(Chunk) /\ Len(buf[p]) \in Nat
           /\ Lines(content[p]) \in Nat /\ key[p] \in Key
  BY LinesType DEF IInv, TypeOK, HandleTypes, TailRecord

\* What the inductive invariant says of one handle.
LEMMA HandleHolds ==
    ASSUME IInv, NEW p \in Handle
    PROVE  /\ ModeOf(p) /\ HolderOf(p) /\ BatchOf(p)
           /\ tail[p].size >= 2 * tail[p].count
           /\ pc[p] \in Working <=> lock = p
  BY DEF IInv, HandleInv, TypeOK, LockHeld

\* The writer goes on to another step of its critical section.
LEMMA StillLocked ==
    ASSUME IInv, NEW p \in Handle, pc[p] \in Working, NEW to \in Working,
           Goto(p, to), lock' = lock
    PROVE  /\ LockHeld' /\ pc' \in [Handle -> PC] /\ pc'[p] = to /\ lock = p
           /\ \A q \in Handle \ {p} : pc'[q] = pc[q]
  <1> USE DEF Goto
  <1>1. pc'[p] = to /\ \A q \in Handle \ {p} : pc'[q] = pc[q]
    BY DEF IInv, TypeOK, HandleTypes
  <1>2. lock = p
    BY HandleHolds
  <1>3. LockHeld'
    BY <1>1, <1>2 DEF IInv, TypeOK, LockHeld
  <1>4. pc' \in [Handle -> PC]
    BY DEF IInv, TypeOK, HandleTypes, PC
  <1> QED BY <1>1, <1>2, <1>3, <1>4

\* The invariant survives preparing a batch.
LEMMA DecideStep ==
    ASSUME IInv, NEW p \in Handle, NEW n \in 1 .. MaxBatch, Decide(p, n)
    PROVE  IInv'
  <1> USE DEF Decide, cacheVars, readVars
  <1> DEFINE b == Prepare(n, tail[p].count, tail[p].hash, nextId)
             to == IF headReq[p] THEN "write" ELSE "seal"
  <1>0. n \in Nat \ {0} /\ nextId \in Nat \ {0} /\ nextId' \in Nat \ {0}
    BY BoundsAssumption DEF IInv, TypeOK, DiskTypes
  <1>1. b \in Seq(Chunk) /\ Len(b) = 2 * n /\ Lines(b) = n
    BY <1>0, HandleTyped, PrepareContinues
  <1>2. Continues(b, tail[p])
    <2>1. n \in Nat /\ n > 0 /\ tail[p] \in TailRecord
      BY <1>0, HandleTyped
    <2> QED BY ONLY <1>0, <2>1, PrepareContinues
  <1>3. content' = [content EXCEPT ![p] = b] /\ Goto(p, to) /\ to \in Working
    BY DEF Working
  <1>4. content'[p] = b
    BY <1>3 DEF IInv, TypeOK, HandleTypes
  <1>5. buf' = [buf EXCEPT ![p] = b]
    BY <1>4
  <1>6. buf'[p] = b
    BY <1>5 DEF IInv, TypeOK, HandleTypes
  <1> HIDE DEF b
  <1>7. pc[p] \in Working
    BY DEF Working
  <1>8. (to = "write" /\ headReq[p]) \/ (to = "seal" /\ ~headReq[p])
    <2>1. CASE headReq[p]
      BY ONLY <2>1 DEF to
    <2>2. CASE ~headReq[p]
      BY ONLY <2>2 DEF to
    <2> QED BY ONLY <2>1, <2>2
  <1> HIDE DEF to
  <1>9. /\ LockHeld' /\ pc' \in [Handle -> PC] /\ pc'[p] = to /\ lock = p
        /\ \A q \in Handle \ {p} : pc'[q] = pc[q]
    BY <1>3, <1>7, StillLocked
  <1>10. content' \in [Handle -> Seq(Chunk)] /\ buf' \in [Handle -> Seq(Chunk)]
    BY <1>1, <1>3, <1>5 DEF IInv, TypeOK, HandleTypes
  <1>11. HandleTypes'
    BY <1>9, <1>10 DEF IInv, TypeOK, HandleTypes
  <1>12. ModeOf(p)'
    BY <1>8, <1>9, HandleHolds, HandleTyped
       DEF ModeOf, Creating, Writing, Committing, Migrating, diskVars
  <1>13. HolderOf(p)'
    BY HandleHolds DEF HolderOf, BeforeCommit, diskVars
  <1>14. BatchOf(p)'
    <2>1. n > 0 /\ Len(b) > 0
      BY <1>0, <1>1
    <2>2. Continues(content'[p], tail'[p])
      BY <1>2, <1>4
    <2>3. CASE to = "seal"
      BY <1>4, <1>6, <1>9, <2>2, <2>3
         DEF BatchOf, Migrating, Writing, Committing
    <2>4. CASE to = "write"
      <3>1. Len(log) >= tail[p].size
        BY HandleHolds DEF HolderOf, BeforeCommit
      <3>2. Written(p)' = 0
        BY <1>0, <1>1, <1>4, <1>6 DEF Written
      <3>3. Progress(p)'
        BY <1>1, <1>4, <1>6, <1>9, <2>1, <2>4, <3>1, <3>2, HandleTyped
           DEF Progress, diskVars
      <3> QED BY <1>9, <2>2, <2>4, <3>3
              DEF BatchOf, Migrating, Writing, Committing
    <2> QED BY <1>8, <2>3, <2>4
  <1>15. KeepsCommitted
    BY SteadyKeeps DEF diskVars
  <1>16. faults' \in Nat /\ \A q \in Handle : tail'[q].size >= 2 * tail'[q].count
    BY DEF IInv, HandleInv, TypeOK, DiskTypes
  <1> QED BY <1>0, <1>9, <1>11, <1>12, <1>13, <1>14, <1>15, <1>16, LockedStep
          DEF diskVars

\* The invariant survives a write that fails.
LEMMA WriteRaisesStep ==
    ASSUME IInv, NEW p \in Handle, WriteRaises(p)
    PROVE  IInv'
  <1> USE DEF WriteRaises, cacheVars, streamVars, readVars
  <1>1. pc[p] \in Working /\ "repair" \in Working
    BY DEF Working
  <1>2. /\ LockHeld' /\ pc' \in [Handle -> PC] /\ pc'[p] = "repair"
        /\ lock = p /\ \A q \in Handle \ {p} : pc'[q] = pc[q]
    BY <1>1, StillLocked
  <1>3. HandleTypes'
    BY <1>2 DEF IInv, TypeOK, HandleTypes
  <1>4. ModeOf(p)'
    BY <1>2, HandleHolds
       DEF ModeOf, Creating, Writing, Committing, Migrating, diskVars
  <1>5. HolderOf(p)'
    BY <1>2 DEF HolderOf, BeforeCommit, Migrating, Writing
  <1>6. BatchOf(p)'
    BY <1>2 DEF BatchOf, Writing, Committing, Migrating
  <1>7. KeepsCommitted
    BY SteadyKeeps DEF diskVars
  <1>8. \A q \in Handle : tail'[q].size >= 2 * tail'[q].count
    BY DEF IInv, HandleInv
  <1>9. faults' \in Nat /\ nextId' \in Nat \ {0}
    BY DEF IInv, TypeOK, DiskTypes, Fault
  <1> QED BY <1>2, <1>3, <1>4, <1>5, <1>6, <1>7, <1>8, <1>9, LockedStep
          DEF diskVars

\* The invariant survives the comparison of the size.
LEMMA CheckSizeStep ==
    ASSUME IInv, NEW p \in Handle, CheckSize(p)
    PROVE  IInv'
  <1> USE DEF CheckSize, cacheVars, streamVars, readVars
  <1> DEFINE to == IF ExactSize(p) THEN "replace" ELSE "repair"
  <1>1. pc[p] \in Working /\ to \in Working /\ Goto(p, to)
    BY DEF Working
  <1>2. (to = "replace" /\ ExactSize(p)) \/ to = "repair"
    OBVIOUS
  <1> HIDE DEF to
  <1>3. /\ LockHeld' /\ pc' \in [Handle -> PC] /\ pc'[p] = to
        /\ lock = p /\ \A q \in Handle \ {p} : pc'[q] = pc[q]
    BY <1>1, StillLocked
  <1>4. HandleTypes'
    BY <1>3 DEF IInv, TypeOK, HandleTypes
  <1>5. ModeOf(p)'
    BY <1>2, <1>3, HandleHolds
       DEF ModeOf, Creating, Writing, Committing, Migrating, diskVars
  <1>6. HolderOf(p)'
    BY <1>2, <1>3, HandleHolds
       DEF HolderOf, BeforeCommit, Writing, Migrating, diskVars
  <1>7. BatchOf(p)'
    <2>1. CASE to = "repair"
      BY <1>3, <2>1 DEF BatchOf, Writing, Committing, Migrating
    <2>2. CASE to = "replace" /\ ExactSize(p)
      <3>1. Continues(content[p], tail[p]) /\ Progress(p) /\ Synced(p)
        BY HandleHolds DEF BatchOf, Writing
      <3>a. ~(Len(buf[p]) > 0)
        BY <3>1 DEF Progress
      <3>b. Len(buf[p]) = 0
        BY <3>a, HandleTyped
      <3>2. Len(buf[p]) = 0 /\ Written(p) = Len(content[p])
        BY <3>b, HandleTyped DEF Written
      <3>3. Len(log) = tail[p].size + Len(content[p])
        BY <2>2 DEF ExactSize
      <3>4. Same(log, logDur, tail[p].size + Len(content[p]))
        BY <3>1, <3>3, HandleTyped, HeadTypes DEF Same, Synced
      <3>5. Landed(p)
        BY <3>1, <3>2, <3>3, <3>4 DEF Landed, Progress
      <3>6. Landed(p)'
        BY <3>5 DEF Landed, diskVars
      <3> QED BY <1>3, <2>2, <3>1, <3>6
              DEF BatchOf, Writing, Committing, Migrating
    <2> QED BY <1>2, <2>1, <2>2
  <1>8. KeepsCommitted
    BY SteadyKeeps DEF diskVars
  <1>9. \A q \in Handle : tail'[q].size >= 2 * tail'[q].count
    BY DEF IInv, HandleInv
  <1>10. faults' \in Nat /\ nextId' \in Nat \ {0}
    BY DEF IInv, TypeOK, DiskTypes
  <1> QED BY <1>3, <1>4, <1>5, <1>6, <1>7, <1>8, <1>9, <1>10, LockedStep
          DEF diskVars

\* The invariant survives the fsync of the log.
LEMMA FsyncLogStep ==
    ASSUME IInv, NEW p \in Handle, FsyncLog(p)
    PROVE  IInv'
  <1> USE DEF FsyncLog, cacheVars, streamVars, readVars
  <1>1. pc[p] \in Working /\ "size" \in Working
    BY DEF Working
  <1>2. /\ LockHeld' /\ pc' \in [Handle -> PC] /\ pc'[p] = "size"
        /\ lock = p /\ \A q \in Handle \ {p} : pc'[q] = pc[q]
    BY <1>1, StillLocked
  <1>3. HandleTypes'
    BY <1>2 DEF IInv, TypeOK, HandleTypes
  <1>4. ModeOf(p)'
    BY <1>2, HandleHolds DEF ModeOf, Creating, Writing, Committing, Migrating
  <1>5. HolderOf(p)'
    BY <1>2, HandleHolds DEF HolderOf, BeforeCommit, Writing, Migrating
  <1>6. BatchOf(p)'
    <2>1. Continues(content[p], tail[p]) /\ Progress(p)
      BY HandleHolds DEF BatchOf, Writing
    <2>a. ~(Len(buf[p]) > 0)
      BY <2>1 DEF Progress
    <2>b. Len(buf[p]) = 0
      BY <2>a, HandleTyped
    <2>2. Len(buf[p]) = 0 /\ Written(p) = Len(content[p])
      BY <2>b, HandleTyped DEF Written
    <2>3. Len(log) >= tail[p].size + Len(content[p])
      BY <2>1, <2>2 DEF Progress
    <2>4. Same(log, log, Len(log))
      BY HeadTypes DEF Same
    <2>5. Synced(p)'
      BY <2>3, <2>4 DEF Synced
    <2>6. Progress(p)'
      BY <1>2, <2>1, <2>2 DEF Progress, Written
    <2> QED BY <1>2, <2>1, <2>5, <2>6
            DEF BatchOf, Writing, Committing, Migrating
  <1>7. KeepsCommitted
    <2>1. headDur # NoHead
      BY HandleHolds DEF IInv, HeaderInv, ModeOf, Writing
    <2>2. head # NoHead => Same(log, logDur, 2 * head.count)
      BY DEF IInv, DiskInv
    <2>3. head # NoHead => Same(logDur, log, 2 * head.count)
      BY <2>2 DEF Same
    <2>4. head # NoHead => Same(log, log, 2 * head.count)
      BY <2>2 DEF Same
    <2> QED BY <2>1, <2>3, <2>4, HeadTypes DEF KeepsCommitted
  <1>8. \A q \in Handle : tail'[q].size >= 2 * tail'[q].count
    BY DEF IInv, HandleInv
  <1>9. faults' \in Nat /\ nextId' \in Nat \ {0}
    BY DEF IInv, TypeOK, DiskTypes
  <1> QED BY <1>2, <1>3, <1>4, <1>5, <1>6, <1>7, <1>8, <1>9, LockedStep

\* Bytes added at the end of the file keep what is before them.
LEMMA AppendKeeps ==
    ASSUME IInv, headDur # NoHead, NEW c \in Chunk,
           log' = Append(log, c), logDur' = logDur
    PROVE  /\ KeepsCommitted
           /\ Len(log') = Len(log) + 1
           /\ \A i \in 1 .. Len(log) : log'[i] = log[i]
           /\ log'[Len(log) + 1] = c
           /\ Same(log, log', Len(log))
  <1> USE HeadTypes
  <1>1. /\ log' \in Seq(Chunk) /\ Len(log') = Len(log) + 1
        /\ \A i \in 1 .. Len(log) : log'[i] = log[i]
        /\ log'[Len(log) + 1] = c
    BY AppendProperties
  <1>2. Same(log, log', Len(log))
    BY <1>1 DEF Same
  <1>3. head # NoHead /\ Same(log, logDur, 2 * head.count)
    BY DEF IInv, DiskInv
  <1>4. 2 * head.count \in 0 .. Len(log) /\ 2 * head.count \in Nat
    BY <1>3 DEF Same
  <1>5. Same(log, log', 2 * head.count)
    BY <1>1, <1>2, <1>4, SameBasics
  <1>6. Same(log', log, 2 * head.count)
    BY <1>1, <1>4, <1>5, SameBasics
  <1>7. Same(log', logDur, 2 * head.count)
    BY <1>1, <1>3, <1>4, <1>6, SameTrans
  <1>8. Same(logDur, logDur', 2 * head.count)
    BY <1>3, <1>4, SameItself DEF Same
  <1>9. KeepsCommitted
    BY <1>1, <1>5, <1>7, <1>8 DEF KeepsCommitted
  <1> QED BY <1>1, <1>2, <1>9

\* The first chunk of a buffer that is not empty, and the rest.
LEMMA BufferSplits ==
    ASSUME IInv, NEW p \in Handle, Len(buf[p]) > 0
    PROVE  /\ buf[p][1] \in Chunk /\ Tail(buf[p]) \in Seq(Chunk)
           /\ Len(Tail(buf[p])) = Len(buf[p]) - 1
           /\ \A i \in 1 .. Len(buf[p]) - 1 : Tail(buf[p])[i] = buf[p][i + 1]
  <1>1. buf[p] \in Seq(Chunk) /\ Len(buf[p]) \in Nat
    BY HandleTyped
  <1>2. buf[p] # << >>
    BY <1>1
  <1>3. 1 \in 1 .. Len(buf[p])
    BY <1>1
  <1>4. buf[p][1] \in Chunk
    BY <1>1, <1>3
  <1>5. /\ Tail(buf[p]) \in Seq(Chunk) /\ Len(Tail(buf[p])) = Len(buf[p]) - 1
        /\ \A i \in 1 .. Len(Tail(buf[p])) : Tail(buf[p])[i] = buf[p][i + 1]
    BY <1>1, <1>2, HeadTailProperties
  <1> QED BY <1>4, <1>5

\* The invariant survives a partial write.
LEMMA WriteChunkStep ==
    ASSUME IInv, NEW p \in Handle, WriteChunk(p)
    PROVE  IInv'
  <1> USE DEF WriteChunk, cacheVars, readVars
  <1> DEFINE to == IF Len(buf[p]) = 1 THEN "fsync" ELSE "write"
  <1>1. pc[p] \in Working /\ to \in Working /\ Goto(p, to)
    BY DEF Working
  <1>2. (to = "fsync" /\ Len(buf[p]) = 1) \/ (to = "write" /\ Len(buf[p]) # 1)
    OBVIOUS
  <1> HIDE DEF to
  <1>3. /\ LockHeld' /\ pc' \in [Handle -> PC] /\ pc'[p] = to
        /\ lock = p /\ \A q \in Handle \ {p} : pc'[q] = pc[q]
    BY <1>1, StillLocked
  <1>4. Continues(content[p], tail[p]) /\ Progress(p)
    BY HandleHolds DEF BatchOf, Writing
  <1>5. Len(buf[p]) > 0
    BY <1>4 DEF Progress
  <1>6. headDur # NoHead
    BY HandleHolds DEF IInv, HeaderInv, ModeOf, Writing
  <1>7. buf[p][1] \in Chunk
    BY <1>5, BufferSplits
  <1>8. /\ KeepsCommitted /\ Len(log') = Len(log) + 1
        /\ \A i \in 1 .. Len(log) : log'[i] = log[i]
        /\ log'[Len(log) + 1] = buf[p][1]
        /\ Same(log, log', Len(log))
    BY <1>6, <1>7, AppendKeeps
  <1>9. buf'[p] = Tail(buf[p])
    BY DEF IInv, TypeOK, HandleTypes
  <1>10. buf' \in [Handle -> Seq(Chunk)]
    BY <1>5, BufferSplits DEF IInv, TypeOK, HandleTypes
  <1>11. HandleTypes'
    BY <1>3, <1>10 DEF IInv, TypeOK, HandleTypes
  <1>12. ModeOf(p)'
    BY <1>2, <1>3, HandleHolds
       DEF ModeOf, Creating, Writing, Committing, Migrating
  <1>13. head # NoHead
    BY <1>6 DEF IInv, DiskInv
  <1>14. HolderOf(p)'
    <2>1. /\ tail[p].size = 2 * tail[p].count /\ tail[p].size <= Len(log)
          /\ tail[p].count = head.count
          /\ tail[p].hash = HashAt(log, tail[p].count)
      BY <1>13, HandleHolds DEF HolderOf, BeforeCommit, Writing, CommittedCount
    <2>2. HashAt(log', tail[p].count) = HashAt(log, tail[p].count)
      BY <1>8, <2>1, HandleTyped, HeadTypes DEF HashAt
    <2> QED BY <1>8, <1>13, <2>1, <2>2, HandleTyped, HeadTypes
            DEF HolderOf, CommittedCount
  <1>15. BatchOf(p)'
    <2>1. Written(p) \in Nat
      BY <1>4, HandleTyped DEF Progress, Written
    <2>2. /\ Tail(buf[p]) \in Seq(Chunk) /\ Len(Tail(buf[p])) = Len(buf[p]) - 1
          /\ \A i \in 1 .. Len(buf[p]) - 1 : Tail(buf[p])[i] = buf[p][i + 1]
      BY <1>5, BufferSplits
    <2>3. log' \in Seq(Chunk)
      BY <1>8 DEF KeepsCommitted
    <2>4. Len(content[p]) - Len(buf[p]) = Written(p)
      BY DEF Written
    <2>5. /\ \A i \in 1 .. Len(buf[p]) : buf[p][i] = content[p][Written(p) + i]
          /\ Len(log) >= tail[p].size + Written(p)
          /\ Len(log) = tail[p].size + Written(p) =>
                \A i \in 1 .. Written(p) : log[tail[p].size + i] = content[p][i]
      BY <1>4 DEF Progress
    <2>6. /\ Len(log) \in Nat /\ Len(content[p]) \in Nat
          /\ Len(buf[p]) \in Nat /\ tail[p].size \in Nat
      BY HandleTyped, HeadTypes
    <2> DEFINE r == Tail(buf[p])
               w == Written(p)
               lc == Len(content[p])
               lb == Len(buf[p])
               ll == Len(log)
               sz == tail[p].size
    <2> HIDE DEF r, w, lc, lb, ll, sz
    <2>a. /\ ll \in Nat /\ lc \in Nat /\ lb \in Nat /\ sz \in Nat /\ w \in Nat
          /\ lc - lb = w /\ lb > 0 /\ ll >= sz + w
      BY <1>5, <2>1, <2>4, <2>5, <2>6 DEF w, lc, lb, ll, sz
    <2>b. /\ \A i \in 1 .. lb : buf[p][i] = content[p][w + i]
          /\ ll = sz + w => \A i \in 1 .. w : log[sz + i] = content[p][i]
          /\ \A i \in 1 .. ll : log'[i] = log[i]
          /\ log'[ll + 1] = buf[p][1]
          /\ \A i \in 1 .. lb - 1 : r[i] = buf[p][i + 1]
      BY <1>8, <2>2, <2>5 DEF w, lb, ll, sz, r
    <2>c. /\ lc - (lb - 1) = w + 1
          /\ \A i \in 1 .. lb - 1 : r[i] = content[p][(w + 1) + i]
          /\ ll + 1 >= sz + (w + 1)
          /\ ll + 1 = sz + (w + 1) =>
                \A i \in 1 .. w + 1 : log'[sz + i] = content[p][i]
      <3>1. lc - (lb - 1) = w + 1 /\ ll + 1 >= sz + (w + 1)
        BY ONLY <2>a
      <3>2. ASSUME NEW i \in 1 .. lb - 1
            PROVE  r[i] = content[p][(w + 1) + i]
        <4>1. i + 1 \in 1 .. lb /\ w + (i + 1) = (w + 1) + i
          BY ONLY <2>a, i \in 1 .. lb - 1
        <4>2. r[i] = buf[p][i + 1] /\ buf[p][i + 1] = content[p][w + (i + 1)]
          BY ONLY <2>b, <4>1, i \in 1 .. lb - 1
        <4> QED BY ONLY <4>1, <4>2
      <3>3. ASSUME ll + 1 = sz + (w + 1), NEW i \in 1 .. w + 1
            PROVE  log'[sz + i] = content[p][i]
        <4>1. CASE i = w + 1
          <5>1. 1 \in 1 .. lb /\ sz + i = ll + 1
            BY ONLY <2>a, <3>3, <4>1
          <5> QED BY ONLY <2>b, <4>1, <5>1
        <4>2. CASE i \in 1 .. w
          <5>1. ll = sz + w /\ sz + i \in 1 .. ll
            BY ONLY <2>a, <3>3, <4>2
          <5> QED BY ONLY <2>b, <4>2, <5>1
        <4>3. i = w + 1 \/ i \in 1 .. w
          BY ONLY <2>a, i \in 1 .. w + 1
        <4> QED BY ONLY <4>1, <4>2, <4>3
      <3> QED BY ONLY <3>1, <3>2, <3>3
    <2>d. Len(log') = ll + 1 /\ Len(r) = lb - 1
      BY <1>8, <2>2 DEF ll, lb, r
    <2>7. /\ Len(content[p]) - Len(r) = w + 1
          /\ \A i \in 1 .. Len(r) : r[i] = content[p][(w + 1) + i]
          /\ Len(log') >= tail[p].size + (w + 1)
          /\ Len(log') = tail[p].size + (w + 1) =>
                \A i \in 1 .. w + 1 : log'[tail[p].size + i] = content[p][i]
      BY ONLY <2>c, <2>d DEF lc, sz
    <2>8. buf'[p] = r /\ content' = content /\ tail' = tail
      BY <1>9 DEF r
    <2>9. Written(p)' = w + 1
      BY <2>7, <2>8 DEF Written
    <2>10. pc'[p] = "write" <=> Len(r) > 0
      <3>1. (to = "fsync" /\ lb = 1) \/ (to = "write" /\ lb # 1)
        BY <1>2 DEF lb
      <3>2. to = "write" <=> lb - 1 > 0
        BY ONLY <2>a, <3>1
      <3> QED BY ONLY <1>3, <2>d, <3>2
    <2>11. w + 1 >= 0
      BY <2>1 DEF w
    <2>12. Progress(p)'
      BY ONLY <2>7, <2>8, <2>9, <2>10, <2>11 DEF Progress
    <2> QED BY <1>2, <1>3, <1>4, <2>12
            DEF BatchOf, Writing, Committing, Migrating
  <1>16. \A q \in Handle : tail'[q].size >= 2 * tail'[q].count
    BY DEF IInv, HandleInv
  <1>17. faults' \in Nat /\ nextId' \in Nat \ {0}
    BY DEF IInv, TypeOK, DiskTypes
  <1> QED BY <1>3, <1>8, <1>11, <1>12, <1>14, <1>15, <1>16, <1>17, LockedStep

\* Bytes another stream adds behind the batch leave a writer where it is.
LEMMA LateBytes ==
    ASSUME IInv, NEW q \in Handle, headDur # NoHead, header.kind # "legacy",
           Len(log') = Len(log) + 1, log' \in Seq(Chunk),
           \A i \in 1 .. Len(log) : log'[i] = log[i],
           UNCHANGED <<pc, logDur, head, headDur, header, content, tail, key,
                       headReq, seen>>,
           buf'[q] = buf[q],
           pc[q] # "upgradeSync"
    PROVE  ModeOf(q)' /\ HolderOf(q)' /\ BatchOf(q)'
  <1>1. ModeOf(q) /\ HolderOf(q) /\ BatchOf(q)
    BY HandleHolds
  <1>2. head # NoHead
    BY DEF IInv, DiskInv
  <1>3. ModeOf(q)'
    <2>1. pc[q] \notin Migrating
      BY <1>1 DEF ModeOf, Migrating
    <2>2. pc[q] = "decide" => headReq[q]
      BY <1>1 DEF ModeOf
    <2> QED BY <1>1, <2>1, <2>2 DEF ModeOf
  <1>4. HolderOf(q)'
    <2> SUFFICES ASSUME pc[q] \in BeforeCommit
                 PROVE  HolderOf(q)'
      BY DEF HolderOf
    <2>1. /\ tail[q].size = 2 * tail[q].count /\ tail[q].size <= Len(log)
          /\ tail[q].count = head.count
          /\ tail[q].hash = HashAt(log, tail[q].count)
      BY <1>1, <1>2 DEF HolderOf, CommittedCount
    <2>2. HashAt(log', tail[q].count) = HashAt(log, tail[q].count)
      BY <2>1, HandleTyped, HeadTypes DEF HashAt
    <2> QED BY <1>2, <2>1, <2>2, HandleTyped, HeadTypes
            DEF HolderOf, CommittedCount
  <1>5. ASSUME pc[q] \in Writing
        PROVE  Progress(q)'
    <2>1. Progress(q) /\ Written(q)' = Written(q)
      BY <1>1, <1>5 DEF BatchOf, Written
    <2>2. Written(q) \in Nat
      BY <2>1, HandleTyped DEF Progress, Written
    <2>3. Len(log) >= tail[q].size + Written(q)
      BY <2>1 DEF Progress
    <2>4. /\ Len(log') >= tail[q].size + Written(q)
          /\ Len(log') # tail[q].size + Written(q)
      <3> DEFINE a == Len(log)
                 z == tail[q].size
                 w == Written(q)
      <3>1. a \in Nat /\ z \in Nat /\ w \in Nat /\ a >= z + w
        BY <2>2, <2>3, HandleTyped, HeadTypes
      <3> HIDE DEF a, z, w
      <3>2. a + 1 >= z + w /\ a + 1 # z + w
        BY ONLY <3>1
      <3> QED BY <3>2 DEF a, z, w
    <2> QED BY <2>1, <2>4 DEF Progress
  <1>6. ASSUME pc[q] = "size"
        PROVE  Synced(q)'
    <2>1. Synced(q)
      BY <1>1, <1>6 DEF BatchOf
    <2> QED BY <2>1, HeadTypes DEF Synced, Same
  <1>7. ASSUME pc[q] \in Committing
        PROVE  Landed(q)'
    <2>1. Landed(q)
      BY <1>1, <1>7 DEF BatchOf
    <2> DEFINE n == tail[q].size + Len(content[q])
    <2>2. n \in Nat /\ n <= Len(log) /\ Same(log, logDur, n)
      BY <2>1, HandleTyped DEF Landed, Same
    <2>3. Same(log', logDur, n)
      BY <2>2, HeadTypes DEF Same
    <2>4. ASSUME NEW i \in 1 .. Len(content[q])
          PROVE  log'[tail[q].size + i] = content[q][i]
      <3>1. tail[q].size + i \in 1 .. Len(log)
        BY <2>2, HandleTyped, HeadTypes
      <3> QED BY <2>1, <3>1 DEF Landed
    <2> QED BY <2>3, <2>4 DEF Landed
  <1>8. BatchOf(q)'
    BY <1>1, <1>5, <1>6, <1>7 DEF BatchOf, BatchHead
  <1> QED BY <1>3, <1>4, <1>8

\* The invariant survives a flush after the lock is gone.
LEMMA LateFlushStep ==
    ASSUME IInv, NEW p \in Handle, LateFlush(p)
    PROVE  IInv'
  <1> USE DEF LateFlush, cacheVars, readVars
  <1>1. header.kind # "legacy" /\ pc[p] \notin Working
    BY HandleHolds, PCSets DEF ModeOf
  <1>2. headDur # NoHead
    BY <1>1 DEF IInv, HeaderInv
  <1>3. Len(buf[p]) > 0
    BY HandleTyped
  <1>4. buf[p][1] \in Chunk /\ Tail(buf[p]) \in Seq(Chunk)
    BY <1>3, BufferSplits
  <1>5. /\ KeepsCommitted /\ Len(log') = Len(log) + 1
        /\ \A i \in 1 .. Len(log) : log'[i] = log[i]
    BY <1>2, <1>4, AppendKeeps
  <1>6. log' \in Seq(Chunk)
    BY <1>5 DEF KeepsCommitted
  <1>7. DiskTypes'
    BY <1>6 DEF IInv, TypeOK, DiskTypes
  <1>8. HandleTypes'
    BY <1>4 DEF IInv, TypeOK, HandleTypes
  <1>9. LockHeld'
    BY DEF IInv, TypeOK, LockHeld
  <1>10. DiskInv' /\ AckedDurable'
    BY <1>5, KeepsDisk, KeepsAcked
  <1>11. ObservedStays'
    BY <1>5, KeepsObserved
  <1>12. HeaderInv'
    BY DEF IInv, HeaderInv
  <1>13. ASSUME NEW q \in Handle
         PROVE  ModeOf(q)' /\ HolderOf(q)' /\ BatchOf(q)'
    <2>1. CASE q = p
      BY <1>1, <2>1, PCSets, NotWorking
    <2>2. CASE q # p
      <3>1. buf'[q] = buf[q]
        BY <2>2 DEF IInv, TypeOK, HandleTypes
      <3>2. pc[q] # "upgradeSync"
        BY HandleHolds DEF ModeOf
      <3> QED BY <1>1, <1>2, <1>5, <1>6, <3>1, <3>2, LateBytes
    <2> QED BY <2>1, <2>2
  <1>14. HandleInv'
    BY <1>13 DEF IInv, HandleInv
  <1> QED BY <1>7, <1>8, <1>9, <1>10, <1>11, <1>12, <1>14 DEF IInv, TypeOK

-----------------------------------------------------------------------------
(* Rereading the tail *)

\* What a reread finds and leaves: the file ends at the commit boundary and
\* the handle's tail is that boundary.
LEMMA BoundaryOnDisk ==
    ASSUME IInv
    PROVE  /\ TailOnDisk \in TailRecord
           /\ TailOnDisk.size = 2 * TailOnDisk.count
           /\ TailOnDisk.count \in Nat /\ TailOnDisk.size \in Nat
           /\ TailOnDisk.count = CommittedCount(log, head)
           /\ TailOnDisk.hash = HashAt(log, TailOnDisk.count)
           /\ TailOnDisk.size <= Len(log)
           /\ headDur = NoHead => TailOnDisk.size = Len(log)
           /\ head = NoHead => TailOnDisk.size = Len(log)
           /\ head # NoHead => TailOnDisk.size = 2 * head.count
  <1> USE HeadTypes
  <1>1. CASE head = NoHead
    <2>1. headDur = NoHead /\ Len(log) = 2 * Lines(log)
      BY <1>1 DEF IInv, DiskInv
    <2>2. /\ TailOnDisk.count = Lines(log) /\ TailOnDisk.size = Len(log)
          /\ TailOnDisk.hash = HashAt(log, Lines(log))
      BY <1>1 DEF TailOnDisk
    <2>3. HashAt(log, Lines(log)) \in Nat
      BY <2>1, HashAtType
    <2>4. TailOnDisk \in TailRecord
      BY <1>1, <2>3 DEF TailOnDisk, TailRecord
    <2> QED BY <1>1, <2>1, <2>2, <2>4 DEF CommittedCount
  <1>2. CASE head # NoHead
    <2>1. /\ Same(log, logDur, 2 * head.count)
          /\ HashAt(log, head.count) = head.hash
          /\ headDur = NoHead => /\ Len(log) = 2 * Lines(log)
                                 /\ head.count = Lines(log)
      BY <1>2 DEF IInv, DiskInv
    <2>2. /\ TailOnDisk.count = head.count /\ TailOnDisk.size = 2 * head.count
          /\ TailOnDisk.hash = head.hash
      BY <1>2 DEF TailOnDisk
    <2>3. 2 * head.count <= Len(log)
      BY <2>1 DEF Same
    <2>4. TailOnDisk \in TailRecord
      BY <1>2 DEF TailOnDisk, TailRecord
    <2> QED BY <1>2, <2>1, <2>2, <2>3, <2>4 DEF CommittedCount
  <1> QED BY <1>1, <1>2

\* Cutting the file at its commit boundary keeps everything committed.
LEMMA TruncatedToBoundary ==
    ASSUME IInv, TruncateTo(TailOnDisk.size)
    PROVE  /\ KeepsCommitted
           /\ Len(log') = TailOnDisk.size
           /\ headerDur' \in {header, headerDur}
           /\ TailOnDisk.count = CommittedCount(log', head)
           /\ TailOnDisk.hash = HashAt(log', TailOnDisk.count)
  <1> DEFINE t == TailOnDisk
  <1>1. /\ t.size = 2 * t.count /\ t.count \in Nat /\ t.size \in Nat
        /\ t.count = CommittedCount(log, head)
        /\ t.hash = HashAt(log, t.count) /\ t.size <= Len(log)
        /\ headDur = NoHead => t.size = Len(log)
        /\ head = NoHead => t.size = Len(log)
        /\ head # NoHead => t.size = 2 * head.count
    BY BoundaryOnDisk
  <1>a. TruncateTo(t.size)
    OBVIOUS
  <1> HIDE DEF t
  <1>2. /\ KeepsCommitted
        /\ Len(log') = IF Len(log) > t.size THEN t.size ELSE Len(log)
        /\ headerDur' \in {header, headerDur}
    BY <1>1, <1>a, HeadTypes, TruncateKeeps
  <1>3. Len(log') = t.size
    BY <1>1, <1>2, HeadTypes
  <1>4. CASE head = NoHead
    <2>1. headDur = NoHead
      BY <1>4 DEF IInv, DiskInv
    <2>2. log' = log
      BY <1>2, <2>1 DEF KeepsCommitted
    <2> QED BY <1>1, <1>2, <1>3, <2>2 DEF t
  <1>5. CASE head # NoHead
    <2>1. t.count = head.count /\ CommittedCount(log', head) = head.count
      BY <1>1, <1>5 DEF CommittedCount
    <2>2. Same(log, log', 2 * head.count) /\ log' \in Seq(Chunk)
      BY <1>2, <1>5 DEF KeepsCommitted
    <2>3. HashAt(log, head.count) = HashAt(log', head.count)
      BY <1>5, <2>2, HeadTypes, SameLines
    <2> QED BY <1>1, <1>2, <1>3, <2>1, <2>3 DEF t
  <1> QED BY <1>4, <1>5

\* Whether the header declares a head is a truth value.
LEMMA BoundBoolean == Bound \in BOOLEAN
  BY DEF Bound

\* A successful reread, in the state it leaves behind.
LEMMA RereadFacts ==
    ASSUME IInv, NEW p \in Handle, Reread(p)
    PROVE  /\ KeepsCommitted /\ headerDur' \in {header, headerDur}
           /\ Len(log') = tail'[p].size /\ tail'[p].size = 2 * tail'[p].count
           /\ tail'[p].count = CommittedCount(log', head)
           /\ tail'[p].hash = HashAt(log', tail'[p].count)
           /\ \A q \in Handle : seen'[q] \in {seen[q], head}
           /\ \A q \in Handle : tail'[q].size >= 2 * tail'[q].count
           /\ \A q \in Handle \ {p} : seen'[q] = seen[q]
           /\ tail' \in [Handle -> TailRecord]
           /\ seen' \in [Handle -> HeadRecord \cup {NoHead}]
           /\ headReq' \in [Handle -> BOOLEAN]
           /\ header.kind # "torn"
           /\ headReq'[p] <=> header.kind = "bound"
  <1> USE DEF Reread
  <1>1. /\ KeepsCommitted /\ headerDur' \in {header, headerDur}
        /\ Len(log') = TailOnDisk.size
        /\ TailOnDisk.count = CommittedCount(log', head)
        /\ TailOnDisk.hash = HashAt(log', TailOnDisk.count)
    BY TruncatedToBoundary
  <1>2. /\ TailOnDisk \in TailRecord /\ TailOnDisk.size = 2 * TailOnDisk.count
        /\ TailOnDisk.count \in Nat
    BY BoundaryOnDisk
  <1>3. tail' = [tail EXCEPT ![p] = TailOnDisk]
    OBVIOUS
  <1>4. tail' \in [Handle -> TailRecord] /\ tail'[p] = TailOnDisk
    BY <1>2, <1>3 DEF IInv, TypeOK, HandleTypes
  <1>5. \A q \in Handle : tail'[q].size >= 2 * tail'[q].count
    BY <1>2, <1>3 DEF IInv, HandleInv, TypeOK, HandleTypes
  <1>6. /\ seen' \in [Handle -> HeadRecord \cup {NoHead}]
        /\ \A q \in Handle : seen'[q] \in {seen[q], head}
        /\ \A q \in Handle \ {p} : seen'[q] = seen[q]
    BY DEF IInv, TypeOK, HandleTypes, DiskTypes
  <1>7. headReq \in [Handle -> BOOLEAN]
    BY DEF IInv, TypeOK, HandleTypes
  <1>8. headReq' \in [Handle -> BOOLEAN] /\ (headReq'[p] <=> headReq[p] \/ Bound)
    BY <1>7, BoundBoolean
  <1>9. HeaderHolds(p)
    BY DEF CanReread
  <1>10. header.kind # "torn" /\ (headReq'[p] <=> header.kind = "bound")
    BY <1>8, <1>9 DEF HeaderHolds, HeaderAuthentic, Bound
  <1> QED BY <1>1, <1>2, <1>4, <1>5, <1>6, <1>8, <1>10

\* Taking the lock and entering the critical section, to decide or to read.
LEMMA EnterStep ==
    ASSUME IInv, NEW p \in Handle, NEW to \in {"decide", "read"},
           Usable(p), Reread(p), lock' = p, Goto(p, to),
           UNCHANGED <<nextId, failed, streamVars, readVars, acked, faults>>
    PROVE  IInv'
  <1> USE DEF streamVars, readVars, Goto
  <1>1. /\ KeepsCommitted /\ headerDur' \in {header, headerDur}
        /\ Len(log') = tail'[p].size /\ tail'[p].size = 2 * tail'[p].count
        /\ tail'[p].count = CommittedCount(log', head)
        /\ tail'[p].hash = HashAt(log', tail'[p].count)
        /\ \A q \in Handle : seen'[q] \in {seen[q], head}
        /\ \A q \in Handle : tail'[q].size >= 2 * tail'[q].count
        /\ \A q \in Handle \ {p} : seen'[q] = seen[q]
        /\ tail' \in [Handle -> TailRecord]
        /\ seen' \in [Handle -> HeadRecord \cup {NoHead}]
        /\ headReq' \in [Handle -> BOOLEAN]
        /\ header.kind # "torn"
        /\ headReq'[p] <=> header.kind = "bound"
    BY RereadFacts
  <1>2. UNCHANGED <<header, head, headDur, key>>
    BY DEF Reread
  <1>3. lock = NoHandle
    BY DEF Usable
  <1>4. pc' \in [Handle -> PC] /\ pc'[p] = to
    BY DEF IInv, TypeOK, HandleTypes, PC, Working
  <1>5. \A q \in Handle \ {p} : pc'[q] = pc[q]
    BY DEF IInv, TypeOK, HandleTypes
  <1>6. HandleTypes'
    BY <1>1, <1>2, <1>4 DEF IInv, TypeOK, HandleTypes
  <1>7. LockHeld'
    <2>1. to \in Working
      BY DEF Working
    <2>2. \A q \in Handle : pc[q] \notin Working
      BY <1>3, NoHandleAssumption DEF IInv, TypeOK, LockHeld
    <2> QED BY <1>4, <1>5, <2>1, <2>2 DEF LockHeld
  <1>8. header.kind \in {"legacy", "bound"}
    BY <1>1 DEF IInv, HeaderInv
  <1>9. ModeOf(p)'
    BY <1>1, <1>2, <1>4, <1>8
       DEF ModeOf, Creating, Writing, Committing, Migrating
  <1>10. HolderOf(p)'
    <2>1. tail'[p].size <= Len(log')
      BY <1>1, <1>6 DEF HandleTypes, TailRecord
    <2> QED BY <1>1, <1>2, <2>1 DEF HolderOf
  <1>11. BatchOf(p)'
    BY <1>4 DEF BatchOf, Writing, Committing, Migrating
  <1>12. faults' \in Nat /\ nextId' \in Nat \ {0}
    BY DEF IInv, TypeOK, DiskTypes
  <1> QED BY <1>1, <1>2, <1>3, <1>5, <1>6, <1>7, <1>9, <1>10, <1>11, <1>12,
             LockedStep

\* The invariant survives taking the lock and trusting or rereading the tail.
LEMMA AppendBeginStep ==
    ASSUME IInv, NEW p \in Handle, AppendBegin(p)
    PROVE  IInv'
  BY EnterStep DEF AppendBegin

\* The invariant survives taking the lock to read.
LEMMA ReadBeginStep ==
    ASSUME IInv, NEW p \in Handle, ReadBegin(p)
    PROVE  IInv'
  BY EnterStep DEF ReadBegin

\* A reread that raises may have cut the file at the boundary.
LEMMA RereadRaisesFacts ==
    ASSUME IInv, NEW p \in Handle, RereadRaises(p)
    PROVE  KeepsCommitted /\ faults' \in Nat
  <1> USE DEF RereadRaises
  <1>1. faults' \in Nat
    BY DEF IInv, TypeOK, DiskTypes, Fault
  <1>2. CASE log' = log
    BY <1>1, <1>2, SteadyKeeps
  <1>3. CASE log' # log
    <2> DEFINE e == TailOnDisk.size
    <2>1. Len(log) > e /\ log' = SubSeq(log, 1, e) /\ logDur' = logDur
      BY <1>3
    <2>2. /\ e \in Nat /\ headDur # NoHead /\ head # NoHead
          /\ e = 2 * head.count
      BY <2>1, BoundaryOnDisk, HeadTypes
    <2> HIDE DEF e
    <2>3. \A i \in 1 .. e : log[i] \in Chunk
      BY <2>1, <2>2, HeadTypes
    <2>4. log' \in Seq(Chunk) /\ Len(log') = e /\ \A i \in 1 .. e : log'[i] = log[i]
      BY <2>1, <2>2, <2>3, HeadTypes, SubSeqProperties
    <2>5. Same(log, logDur, e)
      BY <2>2 DEF IInv, DiskInv
    <2>6. Same(log, log', e) /\ Same(log', logDur, e) /\ Same(logDur, logDur, e)
      BY <2>2, <2>4, <2>5 DEF Same
    <2> QED BY <1>1, <2>1, <2>2, <2>4, <2>6, HeadTypes DEF KeepsCommitted
  <1> QED BY <1>2, <1>3

\* A handle leaves its critical section, or never entered one.
LEMMA LeaveStep ==
    ASSUME IInv, NEW p \in Handle, lock \in {p, NoHandle}, KeepsCommitted,
           UNCHANGED <<header, head, headDur, nextId, acked>>,
           headerDur' \in {header, headerDur}, faults' \in Nat,
           HandleTypes', lock' = NoHandle,
           pc'[p] \in {"idle", "closing"},
           pc'[p] = "closing" => pc[p] = "repair",
           \A q \in Handle \ {p} : pc'[q] = pc[q] /\ seen'[q] = seen[q],
           seen'[p] \in {seen[p], head},
           \A q \in Handle : tail'[q].size >= 2 * tail'[q].count
    PROVE  IInv'
  <1>1. \A q \in Handle \ {p} : pc[q] \notin Working
    BY NoHandleAssumption DEF IInv, TypeOK, LockHeld
  <1>2. LockHeld'
    BY <1>1, PCSets, NoHandleAssumption DEF LockHeld
  <1>3. pc'[p] = "closing" => header'.kind # "legacy"
    BY HandleHolds DEF ModeOf
  <1>4. pc'[p] \notin Working /\ pc'[p] \notin Creating /\ pc'[p] # "openTail"
    BY PCSets
  <1>5. ModeOf(p)' /\ HolderOf(p)' /\ BatchOf(p)'
    BY <1>3, <1>4, NotWorking
  <1>6. nextId' \in Nat \ {0}
    BY DEF IInv, TypeOK, DiskTypes
  <1>7. \A q \in Handle : seen'[q] \in {seen[q], head, NoHead}
    OBVIOUS
  <1>8. \A q \in Handle \ {p} :
           /\ pc'[q] \in {pc[q], "idle"}
           /\ pc'[q] # "idle" => seen'[q] = seen[q]
    OBVIOUS
  <1> QED BY <1>2, <1>5, <1>6, <1>7, <1>8, LockedStep

\* The invariant survives an append that is refused at once.
LEMMA BeginRaisesStep ==
    ASSUME IInv, NEW p \in Handle, BeginRaises(p)
    PROVE  IInv'
  <1> USE DEF BeginRaises, streamVars, readVars
  <1>1. KeepsCommitted /\ faults' \in Nat
    BY RereadRaisesFacts
  <1>2. UNCHANGED <<header, headerDur, head, headDur, key, tail, seen, headReq>>
    BY DEF RereadRaises
  <1>3. lock = NoHandle /\ pc'[p] = "idle"
    BY DEF Usable
  <1>4. HandleTypes'
    BY <1>2 DEF IInv, TypeOK, HandleTypes
  <1>5. \A q \in Handle : tail'[q].size >= 2 * tail'[q].count
    BY <1>2 DEF IInv, HandleInv
  <1> QED BY <1>1, <1>2, <1>3, <1>4, <1>5, LeaveStep

\* Where a writer that failed goes.
LEMMA LeaveWriteFacts ==
    ASSUME IInv, NEW p \in Handle, pc[p] = "repair", LeaveWrite(p)
    PROVE  /\ lock = p /\ lock' = NoHandle /\ UNCHANGED <<nextId, acked>>
           /\ pc' \in [Handle -> PC] /\ pc'[p] \in {"idle", "closing"}
           /\ \A q \in Handle \ {p} : pc'[q] = pc[q]
           /\ content' \in [Handle -> Seq(Chunk)]
           /\ buf' \in [Handle -> Seq(Chunk)]
           /\ view' \in [Handle -> Seq(Nat)] /\ viewEnd' \in [Handle -> Nat]
  <1> USE DEF LeaveWrite, Goto, readVars
  <1>1. lock = p
    BY HandleHolds DEF Working
  <1>2. pc' \in [Handle -> PC] /\ pc'[p] \in {"idle", "closing"}
    BY DEF IInv, TypeOK, HandleTypes, PC
  <1>3. \A q \in Handle \ {p} : pc'[q] = pc[q]
    BY DEF IInv, TypeOK, HandleTypes
  <1>4. content' \in [Handle -> Seq(Chunk)] /\ buf' \in [Handle -> Seq(Chunk)]
    BY EmptySeq DEF IInv, TypeOK, HandleTypes
  <1>5. view' \in [Handle -> Seq(Nat)] /\ viewEnd' \in [Handle -> Nat]
    BY DEF IInv, TypeOK, HandleTypes
  <1> QED BY <1>1, <1>2, <1>3, <1>4, <1>5

\* The invariant survives the repair of a failed write.
LEMMA RepairStep ==
    ASSUME IInv, NEW p \in Handle, Repair(p)
    PROVE  IInv'
  <1> USE DEF Repair
  <1>1. /\ lock = p /\ lock' = NoHandle /\ UNCHANGED <<nextId, acked>>
        /\ pc' \in [Handle -> PC] /\ pc'[p] \in {"idle", "closing"}
        /\ \A q \in Handle \ {p} : pc'[q] = pc[q]
        /\ content' \in [Handle -> Seq(Chunk)]
        /\ buf' \in [Handle -> Seq(Chunk)]
        /\ view' \in [Handle -> Seq(Nat)] /\ viewEnd' \in [Handle -> Nat]
    BY LeaveWriteFacts
  <1>2. /\ KeepsCommitted /\ headerDur' \in {header, headerDur}
        /\ \A q \in Handle : seen'[q] \in {seen[q], head}
        /\ \A q \in Handle : tail'[q].size >= 2 * tail'[q].count
        /\ \A q \in Handle \ {p} : seen'[q] = seen[q]
        /\ tail' \in [Handle -> TailRecord]
        /\ seen' \in [Handle -> HeadRecord \cup {NoHead}]
        /\ headReq' \in [Handle -> BOOLEAN]
    BY RereadFacts
  <1>3. UNCHANGED <<header, head, headDur, key>>
    BY DEF Reread
  <1>4. failed' \in [Handle -> BOOLEAN] /\ key' \in [Handle -> Key]
    BY <1>3 DEF IInv, TypeOK, HandleTypes
  <1>5. HandleTypes'
    BY <1>1, <1>2, <1>4 DEF HandleTypes
  <1>6. faults' \in Nat
    BY DEF IInv, TypeOK, DiskTypes
  <1> QED BY <1>1, <1>2, <1>3, <1>5, <1>6, LeaveStep

\* The invariant survives a repair that fails.
LEMMA RepairRaisesStep ==
    ASSUME IInv, NEW p \in Handle, RepairRaises(p)
    PROVE  IInv'
  <1> USE DEF RepairRaises
  <1>1. /\ lock = p /\ lock' = NoHandle /\ UNCHANGED <<nextId, acked>>
        /\ pc' \in [Handle -> PC] /\ pc'[p] \in {"idle", "closing"}
        /\ \A q \in Handle \ {p} : pc'[q] = pc[q]
        /\ content' \in [Handle -> Seq(Chunk)]
        /\ buf' \in [Handle -> Seq(Chunk)]
        /\ view' \in [Handle -> Seq(Nat)] /\ viewEnd' \in [Handle -> Nat]
    BY LeaveWriteFacts
  <1>2. KeepsCommitted /\ faults' \in Nat
    BY RereadRaisesFacts
  <1>3. UNCHANGED <<header, headerDur, head, headDur, key, tail, seen, headReq>>
    BY DEF RereadRaises
  <1>4. failed' \in [Handle -> BOOLEAN]
    BY DEF IInv, TypeOK, HandleTypes
  <1>5. HandleTypes'
    BY <1>1, <1>3, <1>4 DEF IInv, TypeOK, HandleTypes
  <1>6. \A q \in Handle : tail'[q].size >= 2 * tail'[q].count
    BY <1>3 DEF IInv, HandleInv
  <1> QED BY <1>1, <1>2, <1>3, <1>5, <1>6, LeaveStep

\* The invariant survives open's recovery to the head.
LEMMA OpenRecoverStep ==
    ASSUME IInv, NEW p \in Handle, OpenRecover(p)
    PROVE  IInv'
  <1> USE DEF OpenRecover, Goto, streamVars, readVars
  <1> DEFINE found == HeadHolds(p) /\ PrefixReaches(log, head, NoHead)
  <1>1. /\ KeepsCommitted /\ headerDur' \in {header, headerDur}
        /\ tail' \in [Handle -> TailRecord]
        /\ \A q \in Handle : tail'[q].size >= 2 * tail'[q].count
    <2>1. CASE found
      <3>1. head # NoHead
        BY <2>1 DEF HeadHolds
      <3>2. TruncateTo(TailOnDisk.size)
        BY <2>1, <3>1, BoundaryOnDisk
      <3>3. KeepsCommitted /\ headerDur' \in {header, headerDur}
        BY <3>2, TruncatedToBoundary
      <3>4. tail' = [tail EXCEPT ![p] = TailOnDisk]
        BY <2>1
      <3>5. /\ TailOnDisk \in TailRecord
            /\ TailOnDisk.size = 2 * TailOnDisk.count /\ TailOnDisk.count \in Nat
        BY BoundaryOnDisk
      <3>6. tail' \in [Handle -> TailRecord]
        BY <3>4, <3>5 DEF IInv, TypeOK, HandleTypes
      <3>7. \A q \in Handle : tail'[q].size >= 2 * tail'[q].count
        BY <3>4, <3>5 DEF IInv, HandleInv, TypeOK, HandleTypes
      <3> QED BY <3>3, <3>6, <3>7
    <2>2. CASE ~found
      <3>1. UNCHANGED <<log, logDur, headerDur, tail>>
        BY <2>2
      <3>2. KeepsCommitted
        BY <3>1, SteadyKeeps
      <3> QED BY <3>1, <3>2 DEF IInv, HandleInv, TypeOK, HandleTypes
    <2> QED BY <2>1, <2>2
  <1>2. /\ pc' \in [Handle -> PC]
        /\ pc'[p] \in {"openCheck", "refused", "openScan", "headless"}
        /\ \A q \in Handle \ {p} : pc'[q] = pc[q]
    <2> DEFINE to == IF found THEN "openCheck"
                     ELSE AfterHead(p, "refused", "openScan")
    <2>1. to \in {"openCheck", "refused", "openScan", "headless"}
      BY AfterHeadTarget
    <2>2. pc' = [pc EXCEPT ![p] = to]
      OBVIOUS
    <2>3. to \in PC
      BY <2>1 DEF PC, Opening, Refused
    <2> HIDE DEF to
    <2> QED BY ONLY <2>1, <2>2, <2>3, IInv, p \in Handle
            DEF IInv, TypeOK, HandleTypes
  <1> HIDE DEF found
  <1>3. /\ seen' \in [Handle -> HeadRecord \cup {NoHead}]
        /\ \A q \in Handle : seen'[q] \in {seen[q], head, NoHead}
        /\ \A q \in Handle \ {p} : seen'[q] = seen[q]
    BY DEF IInv, TypeOK, HandleTypes, DiskTypes
  <1>4. HandleTypes'
    BY <1>1, <1>2, <1>3 DEF IInv, TypeOK, HandleTypes
  <1>5. /\ pc'[p] \notin Working /\ pc'[p] \notin Creating
        /\ pc'[p] # "openTail" /\ pc'[p] # "closing"
    BY <1>2 DEF Working, Creating
  <1>6. LockHeld'
    BY <1>2, <1>5, NoHandleAssumption DEF IInv, TypeOK, LockHeld
  <1>7. ModeOf(p)' /\ HolderOf(p)' /\ BatchOf(p)'
    BY <1>5, NotWorking
  <1>8. faults' \in Nat /\ nextId' \in Nat \ {0}
    BY DEF IInv, TypeOK, DiskTypes
  <1>9. UNCHANGED <<header, head, headDur, acked>> /\ lock \in {p, NoHandle}
    OBVIOUS
  <1> QED BY <1>1, <1>2, <1>3, <1>4, <1>6, <1>7, <1>8, <1>9, LockedStep

\* The invariant survives a fork.
LEMMA ForkStep ==
    ASSUME IInv, NEW p \in Handle, NEW q \in Handle, Fork(p, q)
    PROVE  IInv'
  <1> USE DEF Fork, streamVars, readVars
  <1> DEFINE end == IF Bound THEN TrustedEnd(p) ELSE TailOnDisk.size
             now == IF Bound THEN [count |-> head.count, hash |-> head.hash,
                                   size |-> end]
                    ELSE TailOnDisk
  <1>1. tail' = [tail EXCEPT ![p] = now, ![q] = now] /\ TruncateTo(end)
    OBVIOUS
  <1>2. /\ now \in TailRecord /\ now.size >= 2 * now.count
        /\ KeepsCommitted /\ headerDur' \in {header, headerDur}
    <2>1. CASE Bound
      <3>1. CanRefresh(p)
        BY <2>1
      <3>2. head # NoHead /\ tail[p].count <= head.count
        BY <3>1 DEF CanRefresh, HeadHolds
      <3>3. headDur # NoHead
        BY <2>1 DEF IInv, HeaderInv, Bound
      <3>4. /\ tail[p].size \in Nat /\ tail[p].count \in Nat
            /\ tail[p].size >= 2 * tail[p].count
        BY HandleTyped, HandleHolds
      <3>5. head.count \in Nat /\ head.hash \in Nat
        BY <3>2, HeadTypes
      <3> DEFINE e == TrustedEnd(p)
      <3>6. e \in Nat /\ e >= 2 * head.count
        BY <3>2, <3>4, <3>5 DEF TrustedEnd
      <3>7. TruncateTo(e) /\ end = e
        BY <2>1
      <3>8. now = [count |-> head.count, hash |-> head.hash, size |-> e]
        BY <2>1
      <3> HIDE DEF e, now, end
      <3>9. KeepsCommitted /\ headerDur' \in {header, headerDur}
        BY <3>2, <3>3, <3>6, <3>7, TruncateKeeps
      <3>10. now \in TailRecord /\ now.size >= 2 * now.count
        BY <3>5, <3>6, <3>8 DEF TailRecord
      <3> QED BY <3>9, <3>10
    <2>2. CASE ~Bound
      <3>1. TruncateTo(TailOnDisk.size) /\ now = TailOnDisk
        BY <2>2
      <3>2. KeepsCommitted /\ headerDur' \in {header, headerDur}
        BY <3>1, TruncatedToBoundary
      <3>3. /\ TailOnDisk \in TailRecord /\ TailOnDisk.count \in Nat
            /\ TailOnDisk.size = 2 * TailOnDisk.count
        BY BoundaryOnDisk
      <3> QED BY <3>1, <3>2, <3>3
    <2> QED BY <2>1, <2>2
  <1> HIDE DEF now, end
  <1>3. tail' \in [Handle -> TailRecord]
    BY <1>1, <1>2 DEF IInv, TypeOK, HandleTypes
  <1>4. \A x \in Handle : tail'[x].size >= 2 * tail'[x].count
    BY <1>1, <1>2 DEF IInv, HandleInv, TypeOK, HandleTypes
  <1>5. /\ pc' \in [Handle -> PC] /\ pc'[q] = "idle" /\ pc'[p] = "idle"
        /\ \A x \in Handle \ {q} : pc'[x] = pc[x]
    BY DEF IInv, TypeOK, HandleTypes, PC, Usable
  <1>6. /\ seen' \in [Handle -> HeadRecord \cup {NoHead}]
        /\ \A x \in Handle : seen'[x] \in {seen[x], head, NoHead}
        /\ \A x \in Handle \ {p, q} : seen'[x] = seen[x]
    BY DEF IInv, TypeOK, HandleTypes, DiskTypes
  <1>7. headReq' \in [Handle -> BOOLEAN]
    <2>1. headReq \in [Handle -> BOOLEAN]
      BY DEF IInv, TypeOK, HandleTypes
    <2> QED BY <2>1, BoundBoolean
  <1>8. key' \in [Handle -> Key]
    BY HandleTyped DEF IInv, TypeOK, HandleTypes
  <1>9. HandleTypes'
    BY <1>3, <1>5, <1>6, <1>7, <1>8 DEF IInv, TypeOK, HandleTypes
  <1>10. lock = NoHandle /\ \A x \in Handle : pc[x] \notin Working
    BY NoHandleAssumption DEF Usable, IInv, TypeOK, LockHeld
  <1>11. LockHeld'
    BY <1>5, <1>10, PCSets, NoHandleAssumption DEF LockHeld
  <1>12. ModeOf(p)' /\ HolderOf(p)' /\ BatchOf(p)'
    BY <1>5, PCSets, NotWorking
  <1>13. faults' \in Nat /\ nextId' \in Nat \ {0}
    BY DEF IInv, TypeOK, DiskTypes
  <1>14. \A x \in Handle \ {p} :
            /\ pc'[x] \in {pc[x], "idle"}
            /\ pc'[x] # "idle" => seen'[x] = seen[x]
    BY <1>5, <1>6
  <1>15. UNCHANGED <<header, head, headDur, acked>> /\ lock \in {p, NoHandle}
    BY <1>10
  <1> QED BY <1>2, <1>4, <1>6, <1>9, <1>11, <1>12, <1>13, <1>14, <1>15,
             LockedStep

-----------------------------------------------------------------------------
(* Commit *)

\* The records of a batch that lies in the file right behind a tail are there
\* at their own positions.
LEMMA BatchRecords ==
    ASSUME NEW l \in Seq(Chunk), NEW t \in TailRecord, NEW c \in Seq(Chunk),
           Continues(c, t), \A i \in 1 .. Len(c) : l[2 * t.count + i] = c[i],
           NEW r \in RecordsOf(c)
    PROVE  /\ r \in Record /\ r.seq \in Nat /\ r.seq < t.count + Lines(c)
           /\ l[2 * (r.seq + 1)].rec = r
  <1> DEFINE d == t.count
             n == Lines(c)
  <1>0. d \in Nat /\ n \in Nat /\ n > 0 /\ Len(c) = 2 * n
    BY DEF TailRecord, Continues
  <1>1. \A j \in 1 .. n : /\ c[2 * j - 1].rec = c[2 * j].rec
                          /\ c[2 * j].rec.seq = d + j - 1
    BY DEF Continues
  <1>2. \A k \in 1 .. 2 * n : l[2 * d + k] = c[k]
    BY <1>0
  <1>3. PICK i \in DOMAIN c : r = c[i].rec
    BY DEF RecordsOf
  <1>4. i \in 1 .. 2 * n /\ c[i] \in Chunk
    BY <1>0
  <1>5. r \in Record
    BY <1>3, <1>4 DEF Chunk
  <1> HIDE DEF n, d
  <1>6. PICK j \in 1 .. n : i = 2 * j \/ i = 2 * j - 1
    <2> DEFINE h == (i + 1) \div 2
    <2>1. h \in 1 .. n /\ (i = 2 * h \/ i = 2 * h - 1)
      BY ONLY <1>0, <1>4
    <2> QED BY <2>1
  <1>7. r = c[2 * j].rec
    BY <1>1, <1>3, <1>6
  <1>8. r.seq = d + j - 1
    BY <1>1, <1>7
  <1>9. /\ r.seq + 1 = d + j /\ 2 * (d + j) = 2 * d + 2 * j
        /\ 2 * j \in 1 .. 2 * n /\ r.seq \in Nat /\ r.seq < d + n
    BY ONLY <1>0, <1>8, j \in 1 .. n
  <1>10. l[2 * (d + j)].rec = r
    BY ONLY <1>2, <1>7, <1>9
  <1> QED BY <1>5, <1>9, <1>10 DEF d, n

\* A batch that lies in the file right behind a chained tail extends the
\* chain by whole lines, to the end of its decision.
LEMMA ExtendChain ==
    ASSUME NEW l \in Seq(Chunk), NEW t \in TailRecord, NEW c \in Seq(Chunk),
           Continues(c, t), Chained(l, t.count), HashAt(l, t.count) = t.hash,
           2 * t.count + Len(c) <= Len(l),
           \A i \in 1 .. Len(c) : l[2 * t.count + i] = c[i]
    PROVE  /\ Chained(l, t.count + Lines(c))
           /\ HashAt(l, t.count + Lines(c)) = c[Len(c)].rec.id
           /\ EndsDecision(l, t.count + Lines(c))
  <1> DEFINE d == t.count
             n == Lines(c)
  <1>0. d \in Nat /\ t.hash \in Nat /\ n \in Nat /\ n > 0 /\ Len(c) = 2 * n
    BY DEF TailRecord, Continues
  <1>1. ASSUME NEW j \in 1 .. n
        PROVE  /\ c[2 * j - 1].part = "body" /\ c[2 * j].part = "end"
               /\ c[2 * j - 1].rec = c[2 * j].rec
               /\ c[2 * j].rec.seq = d + j - 1
               /\ c[2 * j].rec.prev = IF j = 1 THEN t.hash
                                      ELSE c[2 * (j - 1)].rec.id
               /\ c[2 * j].rec.last = c[2 * n].rec.id
    BY <1>1 DEF Continues
  <1> HIDE DEF n, d
  <1>2. ASSUME NEW j \in 1 .. n
        PROVE  l[2 * (d + j)] = c[2 * j] /\ l[2 * (d + j) - 1] = c[2 * j - 1]
    <2>1. /\ 2 * j \in 1 .. 2 * n /\ 2 * j - 1 \in 1 .. 2 * n
          /\ 2 * (d + j) = 2 * d + 2 * j
          /\ 2 * (d + j) - 1 = 2 * d + (2 * j - 1)
      BY <1>0
    <2> QED BY <1>0, <2>1 DEF d
  <1>3. 2 * (d + n) <= Len(l)
    BY <1>0 DEF d
  <1>4. ASSUME NEW k \in 1 .. d + n
        PROVE  /\ WholeLine(l, k) /\ l[2 * k].rec.seq = k - 1
               /\ l[2 * k].rec.prev = HashAt(l, k - 1)
    <2>1. CASE k <= d
      <3>1. k \in 1 .. d
        BY <1>0, <2>1
      <3> QED BY <3>1 DEF Chained, d
    <2>2. CASE k > d
      <3> DEFINE j == k - d
      <3>1. j \in 1 .. n /\ k = d + j
        BY <1>0, <2>2
      <3> HIDE DEF j
      <3>2. l[2 * k] = c[2 * j] /\ l[2 * k - 1] = c[2 * j - 1]
        BY <1>2, <3>1
      <3>3. 2 * k <= Len(l)
        BY <1>0, <1>3, <3>1
      <3>4. WholeLine(l, k)
        BY <1>1, <3>1, <3>2, <3>3 DEF WholeLine
      <3>5. l[2 * k].rec.seq = k - 1
        <4>1. c[2 * j].rec.seq = d + j - 1
          BY <1>1, <3>1
        <4>2. d + j - 1 = k - 1
          BY <1>0, <3>1
        <4> QED BY ONLY <3>2, <4>1, <4>2
      <3>6. l[2 * k].rec.prev = HashAt(l, k - 1)
        <4>1. CASE j = 1
          <5>1. k - 1 = d
            BY <1>0, <3>1, <4>1
          <5>2. HashAt(l, k - 1) = t.hash
            BY <5>1 DEF d
          <5> QED BY <1>1, <3>1, <3>2, <4>1, <5>2
        <4>2. CASE j # 1
          <5>1. j - 1 \in 1 .. n /\ k - 1 = d + (j - 1) /\ k - 1 # 0
            BY <1>0, <3>1, <4>2
          <5>2. l[2 * (k - 1)] = c[2 * (j - 1)]
            BY <1>2, <5>1
          <5>3. HashAt(l, k - 1) = c[2 * (j - 1)].rec.id
            BY <5>1, <5>2 DEF HashAt
          <5> QED BY <1>1, <3>1, <3>2, <4>2, <5>3
        <4> QED BY <4>1, <4>2
      <3> QED BY <3>4, <3>5, <3>6
    <2> QED BY <1>0, <2>1, <2>2
  <1>5. Chained(l, d + n)
    BY <1>4 DEF Chained
  <1>6. l[2 * (d + n)] = c[2 * n] /\ d + n # 0 /\ n \in 1 .. n
    BY <1>0, <1>2
  <1>7. HashAt(l, d + n) = c[2 * n].rec.id
    BY <1>6 DEF HashAt
  <1>8. EndsDecision(l, d + n)
    BY <1>1, <1>6 DEF EndsDecision
  <1> QED BY <1>0, <1>5, <1>7, <1>8 DEF d, n

\* Any step of the handle under the lock, from what it says of the files and
\* of that handle.
LEMMA HolderStep ==
    ASSUME IInv, NEW p \in Handle, lock = p,
           DiskTypes', HandleTypes', LockHeld', DiskInv', HeaderInv',
           ObservedStays', AckedDurable',
           header'.kind = "legacy" => header.kind = "legacy",
           \A q \in Handle \ {p} : /\ pc'[q] = pc[q] /\ seen'[q] = seen[q]
                                   /\ tail'[q] = tail[q],
           tail'[p].size >= 2 * tail'[p].count,
           ModeOf(p)', HolderOf(p)', BatchOf(p)'
    PROVE  IInv'
  <1>1. ASSUME NEW q \in Handle, q # p
        PROVE  ModeOf(q)' /\ HolderOf(q)' /\ BatchOf(q)'
    <2>1. pc[q] \notin Working
      BY <1>1 DEF IInv, TypeOK, LockHeld
    <2>2. ModeOf(q)
      BY HandleHolds
    <2>3. /\ pc'[q] \notin Working /\ pc'[q] \notin Creating
          /\ pc'[q] = "openTail" => seen'[q] # NoHead
          /\ pc'[q] = "closing" => header'.kind # "legacy"
      BY <1>1, <2>1, <2>2 DEF ModeOf
    <2> QED BY <2>3, NotWorking
  <1>2. \A q \in Handle : tail'[q].size >= 2 * tail'[q].count
    BY DEF IInv, HandleInv
  <1>3. HandleInv'
    BY <1>1, <1>2 DEF HandleInv
  <1> QED BY <1>3 DEF IInv, TypeOK

\* The head a tail gives.
LEMMA HeadFromTail ==
    ASSUME NEW c \in Nat, NEW h \in Nat, NEW k \in Key
    PROVE  LET hd == [count |-> c, hash |-> h, key |-> k]
           IN  hd \in HeadRecord /\ hd # NoHead
  <1>1. [count |-> c, hash |-> h, key |-> k] \in HeadRecord
    BY DEF HeadRecord
  <1> QED BY <1>1, NoHeadAssumption

\* The invariant survives the migration's first head.
LEMMA SealHeadStep ==
    ASSUME IInv, NEW p \in Handle, SealHead(p)
    PROVE  IInv'
  <1> USE DEF SealHead, cacheVars, streamVars, readVars
  <1>1. pc[p] \in Working /\ "sealDir" \in Working
    BY DEF Working
  <1>2. /\ LockHeld' /\ pc' \in [Handle -> PC] /\ pc'[p] = "sealDir"
        /\ lock = p /\ \A q \in Handle \ {p} : pc'[q] = pc[q]
    BY <1>1, StillLocked
  <1>3. head' \in HeadRecord /\ head' # NoHead
    BY HandleTyped, HeadFromTail DEF TailHead
  <1>4. head'.count = tail[p].count /\ head'.hash = tail[p].hash
    BY DEF TailHead
  <1>5. /\ tail[p].size = 2 * tail[p].count /\ tail[p].size <= Len(log)
        /\ tail[p].count = CommittedCount(log, head)
        /\ tail[p].hash = HashAt(log, tail[p].count)
    BY HandleHolds DEF HolderOf, BeforeCommit, Migrating
  <1>6. DiskTypes'
    BY <1>3 DEF IInv, TypeOK, DiskTypes
  <1>7. HandleTypes'
    BY <1>2 DEF IInv, TypeOK, HandleTypes
  <1>8. DiskInv'
    <2>1. CASE headDur = NoHead
      <3>1. /\ log = logDur /\ Len(log) = 2 * Lines(log)
            /\ Chained(log, Lines(log)) /\ EndsDecision(log, Lines(log))
            /\ head # NoHead => head.count = Lines(log)
        BY <2>1 DEF IInv, DiskInv
      <3>2. head'.count = Lines(log)
        BY <1>4, <1>5, <3>1 DEF CommittedCount
      <3>3. Same(log, logDur, 2 * Lines(log))
        BY <3>1, HeadTypes DEF Same
      <3>4. HashAt(log, head'.count) = head'.hash
        BY <1>4, <1>5
      <3> QED BY <2>1, <3>1, <3>2, <3>3, <3>4 DEF DiskInv
    <2>2. CASE headDur # NoHead
      <3>1. head # NoHead
        BY <2>2 DEF IInv, DiskInv
      <3>2. head'.count = head.count /\ HashAt(log, head.count) = head'.hash
        BY <1>4, <1>5, <3>1 DEF CommittedCount
      <3> QED BY <1>3, <2>2, <3>1, <3>2 DEF IInv, DiskInv
    <2> QED BY <2>1, <2>2
  <1>9. ObservedStays'
    <2> SUFFICES ASSUME NEW q \in Handle, seen[q] # NoHead
                 PROVE  seen[q].count <= head'.count
      BY <1>3 DEF IInv, ObservedStays
    <2>1. head # NoHead /\ seen[q].count <= head.count
      BY DEF IInv, ObservedStays
    <2> QED BY <1>4, <1>5, <2>1 DEF CommittedCount
  <1>10. AckedDurable'
    BY DEF IInv, AckedDurable
  <1>11. HeaderInv'
    BY DEF IInv, HeaderInv
  <1>12. ModeOf(p)'
    BY <1>2, <1>3, HandleHolds
       DEF ModeOf, Creating, Writing, Committing, Migrating
  <1>13. HolderOf(p)'
    BY <1>3, <1>4, <1>5 DEF HolderOf, CommittedCount
  <1>14. BatchOf(p)'
    BY <1>2, HandleHolds DEF BatchOf, Writing, Committing, Migrating
  <1>15. tail'[p].size >= 2 * tail'[p].count
    BY HandleHolds
  <1> QED BY <1>2, <1>6, <1>7, <1>8, <1>9, <1>10, <1>11, <1>12, <1>13, <1>14,
             <1>15, HolderStep

\* The invariant survives the sync of the migration's head.
LEMMA SealDirStep ==
    ASSUME IInv, NEW p \in Handle, SealDir(p)
    PROVE  IInv'
  <1> USE DEF SealDir, cacheVars, streamVars, readVars
  <1>1. pc[p] \in Working /\ "upgrade" \in Working
    BY DEF Working
  <1>2. /\ LockHeld' /\ pc' \in [Handle -> PC] /\ pc'[p] = "upgrade"
        /\ lock = p /\ \A q \in Handle \ {p} : pc'[q] = pc[q]
    BY <1>1, StillLocked
  <1>3. head # NoHead
    BY HandleHolds DEF ModeOf
  <1>4. DiskTypes'
    BY DEF IInv, TypeOK, DiskTypes
  <1>5. HandleTypes'
    BY <1>2 DEF IInv, TypeOK, HandleTypes
  <1>6. DiskInv'
    BY <1>3, HeadTypes DEF IInv, DiskInv
  <1>7. CommittedCount(logDur, headDur) <= head.count
    <2>1. CASE headDur = NoHead
      BY <1>3, <2>1, HeadTypes DEF IInv, DiskInv, CommittedCount
    <2>2. CASE headDur # NoHead
      BY <2>2, HeadTypes DEF IInv, DiskInv, CommittedCount
    <2> QED BY <2>1, <2>2
  <1>8. AckedDurable'
    <2> SUFFICES ASSUME NEW r \in acked
                 PROVE  r.seq < head.count
      BY <1>3 DEF IInv, AckedDurable, CommittedCount
    <2>1. r.seq < CommittedCount(logDur, headDur)
      BY DEF IInv, AckedDurable
    <2>2. r.seq \in Nat /\ CommittedCount(logDur, headDur) \in Nat
      BY HeadTypes, LinesType DEF IInv, TypeOK, DiskTypes, Record, CommittedCount
    <2>3. head.count \in Nat
      BY <1>3, HeadTypes
    <2> QED BY ONLY <1>7, <2>1, <2>2, <2>3
  <1>9. ObservedStays'
    BY DEF IInv, ObservedStays
  <1>10. HeaderInv'
    BY <1>3 DEF IInv, HeaderInv
  <1>11. ModeOf(p)'
    BY <1>2, <1>3, HandleHolds
       DEF ModeOf, Creating, Writing, Committing, Migrating
  <1>12. HolderOf(p)'
    BY HandleHolds DEF HolderOf, BeforeCommit, Migrating
  <1>13. BatchOf(p)'
    BY <1>2, HandleHolds DEF BatchOf, Writing, Committing, Migrating
  <1>14. tail'[p].size >= 2 * tail'[p].count
    BY HandleHolds
  <1> QED BY <1>2, <1>4, <1>5, <1>6, <1>8, <1>9, <1>10, <1>11, <1>12, <1>13,
             <1>14, HolderStep

\* The invariant survives the rewrite of the header.
LEMMA UpgradeHeaderStep ==
    ASSUME IInv, NEW p \in Handle, UpgradeHeader(p)
    PROVE  IInv'
  <1> USE DEF UpgradeHeader, cacheVars, streamVars, readVars
  <1>1. pc[p] \in Working /\ "upgradeSync" \in Working
    BY DEF Working
  <1>2. /\ LockHeld' /\ pc' \in [Handle -> PC] /\ pc'[p] = "upgradeSync"
        /\ lock = p /\ \A q \in Handle \ {p} : pc'[q] = pc[q]
    BY <1>1, StillLocked
  <1>3. headDur # NoHead /\ header.kind = "legacy"
    BY HandleHolds DEF ModeOf
  <1>4. header' \in HeaderRecord /\ header'.kind = "bound" /\ header'.key = header.key
    BY DEF IInv, TypeOK, DiskTypes, HeaderRecord
  <1>5. DiskTypes'
    BY <1>4 DEF IInv, TypeOK, DiskTypes
  <1>6. HandleTypes'
    BY <1>2 DEF IInv, TypeOK, HandleTypes
  <1>7. DiskInv' /\ AckedDurable' /\ ObservedStays'
    BY DEF IInv, DiskInv, AckedDurable, ObservedStays
  <1>8. HeaderInv'
    BY <1>3, <1>4 DEF IInv, HeaderInv
  <1>9. \A q \in Handle : pc'[q] # "closing"
    BY <1>2, <1>3, HandleHolds DEF ModeOf
  <1>10. ModeOf(p)'
    BY <1>2, <1>3, <1>4, <1>9, HandleHolds
       DEF ModeOf, Creating, Writing, Committing, Migrating
  <1>11. HolderOf(p)'
    BY HandleHolds DEF HolderOf, BeforeCommit, Migrating
  <1>12. BatchOf(p)'
    BY <1>2, HandleHolds DEF BatchOf, Writing, Committing, Migrating
  <1>13. tail'[p].size >= 2 * tail'[p].count
    BY HandleHolds
  <1> QED BY <1>2, <1>3, <1>5, <1>6, <1>7, <1>8, <1>10, <1>11, <1>12, <1>13,
             HolderStep

\* The invariant survives the sync of the header.
LEMMA UpgradeSyncStep ==
    ASSUME IInv, NEW p \in Handle, UpgradeSync(p)
    PROVE  IInv'
  <1> USE DEF UpgradeSync, streamVars, readVars
  <1>1. pc[p] \in Working /\ "write" \in Working
    BY DEF Working
  <1>2. /\ LockHeld' /\ pc' \in [Handle -> PC] /\ pc'[p] = "write"
        /\ lock = p /\ \A q \in Handle \ {p} : pc'[q] = pc[q]
    BY <1>1, StillLocked
  <1>3. /\ headDur # NoHead /\ header.kind # "legacy"
        /\ Len(log) = tail[p].size
    BY HandleHolds DEF ModeOf, Migrating
  <1>4. head # NoHead
    BY <1>3 DEF IInv, DiskInv
  <1>5. /\ tail[p].size = 2 * tail[p].count
        /\ tail[p].count = head.count
        /\ tail[p].hash = HashAt(log, tail[p].count)
    BY <1>4, HandleHolds DEF HolderOf, BeforeCommit, Migrating, CommittedCount
  <1>6. tail' = tail
    <2>1. [tail[p] EXCEPT !.size = Len(log)] = tail[p]
      BY <1>3, HandleTyped DEF TailRecord
    <2>2. tail' = [tail EXCEPT ![p] = [tail[p] EXCEPT !.size = Len(log)]]
      OBVIOUS
    <2> QED BY <2>1, <2>2 DEF IInv, TypeOK, HandleTypes
  <1>7. DiskTypes'
    BY DEF IInv, TypeOK, DiskTypes
  <1>8. TailHead(p) \in HeadRecord
    BY HandleTyped, HeadFromTail DEF TailHead
  <1>9. seen' \in [Handle -> HeadRecord \cup {NoHead}]
    BY <1>8 DEF IInv, TypeOK, HandleTypes
  <1>10. headReq' \in [Handle -> BOOLEAN]
    BY DEF IInv, TypeOK, HandleTypes
  <1>11. HandleTypes'
    BY <1>2, <1>6, <1>9, <1>10 DEF IInv, TypeOK, HandleTypes
  <1>12. KeepsCommitted
    <2>1. Same(log, logDur, 2 * head.count)
      BY <1>4 DEF IInv, DiskInv
    <2>2. Same(log, log, 2 * head.count) /\ Same(logDur, log, 2 * head.count)
      BY <2>1 DEF Same
    <2> QED BY <1>3, <2>2, HeadTypes DEF KeepsCommitted
  <1>13. DiskInv' /\ AckedDurable'
    BY <1>12, KeepsDisk, KeepsAcked
  <1>14. ObservedStays'
    <2> SUFFICES ASSUME NEW q \in Handle, seen'[q] # NoHead
                 PROVE  /\ head # NoHead /\ seen'[q].count <= head.count
                        /\ HashAt(log, seen'[q].count) = seen'[q].hash
      BY DEF ObservedStays
    <2>1. CASE q = p
      <3>1. seen'[p] = TailHead(p)
        BY DEF IInv, TypeOK, HandleTypes
      <3>2. seen'[p].count = tail[p].count /\ seen'[p].hash = tail[p].hash
        BY <3>1 DEF TailHead
      <3> QED BY <1>4, <1>5, <2>1, <3>2, HandleTyped
    <2>2. CASE q # p
      <3>1. seen'[q] = seen[q]
        BY <2>2 DEF IInv, TypeOK, HandleTypes
      <3> QED BY <3>1 DEF IInv, ObservedStays
    <2> QED BY <2>1, <2>2
  <1>15. HeaderInv'
    BY <1>3 DEF IInv, HeaderInv
  <1>16. ModeOf(p)'
    BY <1>2, <1>3 DEF ModeOf, Creating, Writing, Committing, Migrating
  <1>17. HolderOf(p)'
    BY <1>6, HandleHolds DEF HolderOf, BeforeCommit, Migrating
  <1>18. BatchOf(p)'
    <2>1. Continues(content[p], tail[p]) /\ buf[p] = content[p]
      BY HandleHolds DEF BatchOf, Migrating
    <2>2. Len(buf[p]) > 0
      BY <2>1, HandleTyped DEF Continues
    <2>3. Written(p) = 0
      BY <2>1, HandleTyped DEF Written
    <2>4. Progress(p)'
      BY <1>2, <1>3, <1>6, <2>1, <2>2, <2>3, HandleTyped, HeadTypes
         DEF Progress, Written
    <2> QED BY <1>2, <1>6, <2>1, <2>4
            DEF BatchOf, Writing, Committing, Migrating
  <1>19. tail'[p].size >= 2 * tail'[p].count
    BY <1>6, HandleHolds
  <1>20. \A q \in Handle \ {p} : seen'[q] = seen[q]
    BY DEF IInv, TypeOK, HandleTypes
  <1> QED BY <1>2, <1>6, <1>7, <1>11, <1>13, <1>14, <1>15, <1>16, <1>17, <1>18,
             <1>19, <1>20, HolderStep

\* The invariant survives a migration that fails.
LEMMA MigrateRaisesStep ==
    ASSUME IInv, NEW p \in Handle, MigrateRaises(p)
    PROVE  IInv'
  <1> USE DEF MigrateRaises, Goto, readVars
  <1>1. lock = p
    BY HandleHolds DEF Working
  <1>2. /\ pc' \in [Handle -> PC] /\ pc'[p] = "idle"
        /\ \A q \in Handle \ {p} : pc'[q] = pc[q]
    BY DEF IInv, TypeOK, HandleTypes, PC
  <1>3. LockHeld'
    BY <1>1, <1>2, PCSets, NoHandleAssumption DEF IInv, TypeOK, LockHeld
  <1>4. \/ header' = header
        \/ /\ headDur # NoHead /\ header'.kind = "torn"
           /\ header'.key = header.key /\ header' \in HeaderRecord
    <2>1. pc[p] = "upgrade" => headDur # NoHead
      BY HandleHolds DEF ModeOf
    <2> QED BY <2>1 DEF IInv, TypeOK, DiskTypes, HeaderRecord
  <1>5. DiskTypes'
    BY <1>4 DEF IInv, TypeOK, DiskTypes, Fault
  <1>6. content' \in [Handle -> Seq(Chunk)] /\ buf' \in [Handle -> Seq(Chunk)]
    BY EmptySeq DEF IInv, TypeOK, HandleTypes
  <1>7. failed' \in [Handle -> BOOLEAN]
    BY DEF IInv, TypeOK, HandleTypes
  <1>8. HandleTypes'
    BY <1>2, <1>6, <1>7 DEF IInv, TypeOK, HandleTypes
  <1>9. DiskInv' /\ AckedDurable' /\ ObservedStays'
    BY DEF IInv, DiskInv, AckedDurable, ObservedStays
  <1>10. HeaderInv'
    BY <1>4 DEF IInv, HeaderInv
  <1>11. ModeOf(p)' /\ HolderOf(p)' /\ BatchOf(p)'
    BY <1>2, PCSets, NotWorking
  <1>12. header'.kind = "legacy" => header.kind = "legacy"
    BY <1>4
  <1>13. tail'[p].size >= 2 * tail'[p].count
    BY HandleHolds
  <1> QED BY <1>1, <1>2, <1>3, <1>5, <1>8, <1>9, <1>10, <1>11, <1>12, <1>13,
             HolderStep

\* What is known before the head is replaced and before it is announced.
LEMMA BatchBehindHead ==
    ASSUME IInv, NEW p \in Handle, pc[p] \in Committing
    PROVE  /\ headDur # NoHead /\ head # NoHead
           /\ Continues(content[p], tail[p]) /\ Landed(p)
           /\ Len(content[p]) = 2 * Lines(content[p])
           /\ Lines(content[p]) \in Nat /\ Lines(content[p]) > 0
           /\ tail[p].size = 2 * tail[p].count
           /\ BatchHead(p) \in HeadRecord /\ BatchHead(p) # NoHead
           /\ BatchHead(p).count = tail[p].count + Lines(content[p])
           /\ BatchHead(p).hash = content[p][Len(content[p])].rec.id
           /\ 2 * BatchHead(p).count <= Len(log)
           /\ Same(log, logDur, 2 * BatchHead(p).count)
  <1>1. headDur # NoHead
    BY HandleHolds DEF IInv, HeaderInv, ModeOf
  <1>2. head # NoHead
    BY <1>1 DEF IInv, DiskInv
  <1>3. Continues(content[p], tail[p]) /\ Landed(p)
    BY HandleHolds DEF BatchOf
  <1>4. /\ Len(content[p]) = 2 * Lines(content[p])
        /\ Lines(content[p]) \in Nat /\ Lines(content[p]) > 0
    BY <1>3 DEF Continues
  <1>5. tail[p].size = 2 * tail[p].count
    BY HandleHolds DEF HolderOf, BatchOf, BeforeCommit, Committing
  <1>6. content[p][Len(content[p])] \in Chunk
    BY <1>4, HandleTyped
  <1>7. content[p][Len(content[p])].rec.id \in Nat
    BY <1>6 DEF Chunk, Record
  <1>8. /\ BatchHead(p).count = tail[p].count + Lines(content[p])
        /\ BatchHead(p).hash = content[p][Len(content[p])].rec.id
    BY DEF BatchHead
  <1>9. BatchHead(p) \in HeadRecord /\ BatchHead(p) # NoHead
    <2>1. tail[p].count + Lines(content[p]) \in Nat
      BY <1>4, HandleTyped
    <2> QED BY <1>7, <2>1, HandleTyped, HeadFromTail DEF BatchHead
  <1>10. 2 * BatchHead(p).count = tail[p].size + Len(content[p])
    BY <1>4, <1>5, <1>8, HandleTyped
  <1>11. Same(log, logDur, 2 * BatchHead(p).count)
    BY <1>3, <1>10 DEF Landed
  <1>12. 2 * BatchHead(p).count <= Len(log)
    BY <1>11 DEF Same
  <1> QED BY <1>1, <1>2, <1>3, <1>4, <1>5, <1>8, <1>9, <1>11, <1>12

\* The invariant survives the commit: the rename of the head.
LEMMA ReplaceHeadStep ==
    ASSUME IInv, NEW p \in Handle, ReplaceHead(p)
    PROVE  IInv'
  <1> USE DEF ReplaceHead, cacheVars, streamVars, readVars
  <1>1. pc[p] \in Working /\ "dirSync" \in Working /\ pc[p] \in Committing
    BY DEF Working, Committing
  <1>2. /\ LockHeld' /\ pc' \in [Handle -> PC] /\ pc'[p] = "dirSync"
        /\ lock = p /\ \A q \in Handle \ {p} : pc'[q] = pc[q]
    BY <1>1, StillLocked
  <1>3. /\ headDur # NoHead /\ head # NoHead
        /\ Continues(content[p], tail[p]) /\ Landed(p)
        /\ Len(content[p]) = 2 * Lines(content[p])
        /\ Lines(content[p]) \in Nat /\ Lines(content[p]) > 0
        /\ tail[p].size = 2 * tail[p].count
        /\ head' \in HeadRecord /\ head' # NoHead
        /\ head'.count = tail[p].count + Lines(content[p])
        /\ head'.hash = content[p][Len(content[p])].rec.id
        /\ 2 * head'.count <= Len(log)
        /\ Same(log, logDur, 2 * head'.count)
    BY <1>1, BatchBehindHead
  <1>4. tail[p].count = head.count /\ tail[p].hash = HashAt(log, tail[p].count)
    BY <1>3, HandleHolds DEF HolderOf, BeforeCommit, CommittedCount
  <1>5. head.count \in Nat /\ head'.count \in Nat /\ head.count <= head'.count
    BY <1>3, <1>4, HeadTypes, HandleTyped
  <1>6. /\ Chained(log, head'.count) /\ HashAt(log, head'.count) = head'.hash
        /\ EndsDecision(log, head'.count)
    <2>1. Chained(log, tail[p].count)
      BY <1>3, <1>4 DEF IInv, DiskInv
    <2>2. 2 * tail[p].count + Len(content[p]) <= Len(log)
      BY <1>3, HandleTyped
    <2>3. \A i \in 1 .. Len(content[p]) :
             log[2 * tail[p].count + i] = content[p][i]
      BY <1>3 DEF Landed
    <2>4. /\ log \in Seq(Chunk) /\ tail[p] \in TailRecord
          /\ content[p] \in Seq(Chunk) /\ HashAt(log, tail[p].count) = tail[p].hash
      BY <1>4, HandleTyped, HeadTypes
    <2>5. /\ Chained(log, tail[p].count + Lines(content[p]))
          /\ HashAt(log, tail[p].count + Lines(content[p])) =
                content[p][Len(content[p])].rec.id
          /\ EndsDecision(log, tail[p].count + Lines(content[p]))
      BY ONLY <1>3, <2>1, <2>2, <2>3, <2>4, ExtendChain
    <2> QED BY ONLY <1>3, <2>5
  <1>7. DiskInv'
    <2>1. headDur.count <= head'.count
      BY <1>3, <1>5, HeadTypes DEF IInv, DiskInv
    <2> QED BY <1>3, <1>6, <2>1 DEF IInv, DiskInv
  <1>8. ObservedStays'
    <2> SUFFICES ASSUME NEW q \in Handle, seen[q] # NoHead
                 PROVE  seen[q].count <= head'.count
      BY <1>3 DEF IInv, ObservedStays
    <2>1. seen[q].count <= head.count /\ seen[q].count \in Nat
      BY DEF IInv, ObservedStays, TypeOK, HandleTypes, HeadRecord
    <2> QED BY ONLY <1>5, <2>1
  <1>9. AckedDurable' /\ HeaderInv'
    BY DEF IInv, AckedDurable, HeaderInv
  <1>10. DiskTypes'
    BY <1>3 DEF IInv, TypeOK, DiskTypes
  <1>11. HandleTypes'
    BY <1>2 DEF IInv, TypeOK, HandleTypes
  <1>12. ModeOf(p)'
    BY <1>2, HandleHolds DEF ModeOf, Creating, Writing, Committing, Migrating
  <1>13. HolderOf(p)'
    BY <1>2 DEF HolderOf, BeforeCommit, Writing, Migrating
  <1>14. BatchOf(p)'
    <2>1. Landed(p)'
      BY <1>3 DEF Landed
    <2>2. head' = BatchHead(p)'
      BY DEF BatchHead
    <2> QED BY <1>2, <1>3, <2>1, <2>2
            DEF BatchOf, Writing, Committing, Migrating
  <1>15. tail'[p].size >= 2 * tail'[p].count
    BY HandleHolds
  <1> QED BY <1>2, <1>7, <1>8, <1>9, <1>10, <1>11, <1>12, <1>13, <1>14, <1>15,
             HolderStep

\* The invariant survives the sync of the directory and the return.
LEMMA CommitDoneStep ==
    ASSUME IInv, NEW p \in Handle, CommitDone(p)
    PROVE  IInv'
  <1> USE DEF CommitDone, readVars
  <1>1. pc[p] \in Working /\ pc[p] \in Committing
    BY DEF Working, Committing
  <1>2. lock = p /\ head = BatchHead(p)
    BY <1>1, HandleHolds DEF BatchOf
  <1>3. /\ headDur # NoHead /\ head # NoHead
        /\ Continues(content[p], tail[p]) /\ Landed(p)
        /\ Len(content[p]) = 2 * Lines(content[p])
        /\ Lines(content[p]) \in Nat /\ Lines(content[p]) > 0
        /\ tail[p].size = 2 * tail[p].count
        /\ head.count = tail[p].count + Lines(content[p])
        /\ 2 * head.count <= Len(log)
        /\ Same(log, logDur, 2 * head.count)
    BY <1>1, <1>2, BatchBehindHead
  <1>4. head.count \in Nat /\ head.hash \in Nat /\ Len(log) \in Nat
    BY <1>3, HeadTypes
  <1> DEFINE t == [count |-> head.count, hash |-> head.hash, size |-> Len(log)]
  <1>5. tail' = [tail EXCEPT ![p] = t] /\ seen' = [seen EXCEPT ![p] = head]
    BY <1>2
  <1>6. t \in TailRecord /\ t.size >= 2 * t.count
    BY <1>3, <1>4 DEF TailRecord
  <1> HIDE DEF t
  <1>7. /\ tail' \in [Handle -> TailRecord] /\ tail'[p].size >= 2 * tail'[p].count
        /\ \A q \in Handle \ {p} : tail'[q] = tail[q]
    BY <1>5, <1>6 DEF IInv, TypeOK, HandleTypes
  <1>8. /\ seen' \in [Handle -> HeadRecord \cup {NoHead}]
        /\ \A q \in Handle : seen'[q] \in {seen[q], head, NoHead}
        /\ \A q \in Handle \ {p} : seen'[q] = seen[q]
    BY <1>5 DEF IInv, TypeOK, HandleTypes, DiskTypes
  <1>9. /\ pc' \in [Handle -> PC] /\ pc'[p] = "idle"
        /\ \A q \in Handle \ {p} : pc'[q] = pc[q]
    BY DEF IInv, TypeOK, HandleTypes, PC, Goto
  <1>10. content' \in [Handle -> Seq(Chunk)]
    BY EmptySeq DEF IInv, TypeOK, HandleTypes
  <1>11. HandleTypes'
    BY <1>7, <1>8, <1>9, <1>10 DEF IInv, TypeOK, HandleTypes
  <1>12. LockHeld'
    BY <1>2, <1>9, PCSets, NoHandleAssumption DEF IInv, TypeOK, LockHeld
  <1>a. ASSUME NEW r \in RecordsOf(content[p])
        PROVE  /\ r \in Record /\ r.seq \in Nat
               /\ r.seq < tail[p].count + Lines(content[p])
               /\ log[2 * (r.seq + 1)].rec = r
    <2>1. \A i \in 1 .. Len(content[p]) :
             log[2 * tail[p].count + i] = content[p][i]
      BY <1>3 DEF Landed
    <2>2. /\ log \in Seq(Chunk) /\ tail[p] \in TailRecord
          /\ content[p] \in Seq(Chunk)
      BY HandleTyped, HeadTypes
    <2> QED BY ONLY <1>3, <2>1, <2>2, r \in RecordsOf(content[p]), BatchRecords
  <1>13. RecordsOf(content[p]) \subseteq Record
    BY <1>a
  <1>14. DiskTypes'
    BY <1>13 DEF IInv, TypeOK, DiskTypes
  <1>15. DiskInv'
    BY <1>3, <1>4 DEF IInv, DiskInv
  <1>16. HeaderInv'
    BY <1>3 DEF IInv, HeaderInv
  <1>17. KeepsCommitted
    BY SteadyKeeps
  <1>18. ObservedStays'
    BY <1>8, <1>17, KeepsObserved
  <1>19. AckedDurable'
    <2> SUFFICES ASSUME NEW r \in acked'
                 PROVE  /\ r.seq < head.count /\ WholeLine(logDur, r.seq + 1)
                        /\ logDur[2 * (r.seq + 1)].rec = r
      BY <1>3 DEF AckedDurable, CommittedCount
    <2>1. CASE r \in acked
      <3>1. /\ r.seq < headDur.count /\ WholeLine(logDur, r.seq + 1)
            /\ logDur[2 * (r.seq + 1)].rec = r
        BY <1>3, <2>1 DEF IInv, AckedDurable, CommittedCount
      <3>2. headDur.count <= head.count /\ headDur.count \in Nat /\ r.seq \in Nat
        BY <1>3, <2>1, HeadTypes DEF IInv, DiskInv, TypeOK, DiskTypes, Record
      <3> QED BY ONLY <1>4, <3>1, <3>2
    <2>2. CASE r \in RecordsOf(content[p])
      <3>1. /\ r.seq \in Nat /\ r.seq < head.count
            /\ log[2 * (r.seq + 1)].rec = r
        BY <1>3, <1>a, <2>2
      <3>2. r.seq + 1 \in 1 .. head.count
        BY ONLY <1>4, <3>1
      <3>3. WholeLine(log, r.seq + 1)
        BY <1>3, <3>2 DEF IInv, DiskInv, Chained
      <3>4. WholeLine(logDur, r.seq + 1)
        BY <1>3, <1>4, <3>2, <3>3, HeadTypes, SameLines
      <3>5. 2 * (r.seq + 1) \in 1 .. 2 * head.count
        BY ONLY <1>4, <3>1, <3>2
      <3>6. logDur[2 * (r.seq + 1)] = log[2 * (r.seq + 1)]
        BY ONLY <1>3, <3>5 DEF Same
      <3> QED BY ONLY <3>1, <3>4, <3>6
    <2> QED BY <2>1, <2>2
  <1>20. ModeOf(p)' /\ HolderOf(p)' /\ BatchOf(p)'
    BY <1>9, PCSets, NotWorking
  <1> QED BY <1>2, <1>7, <1>8, <1>9, <1>11, <1>12, <1>14, <1>15, <1>16, <1>18,
             <1>19, <1>20, HolderStep

-----------------------------------------------------------------------------
(* Power loss *)

\* What the machine comes back with holds the committed chunks.
LEMMA SurvivingImage ==
    ASSUME IInv, PowerLoss
    PROVE  /\ log' \in Seq(Chunk)
           /\ headDur = NoHead => log' = log
           /\ head # NoHead => Same(log, log', 2 * head.count)
  <1> USE DEF PowerLoss
  <1> USE HeadTypes
  <1>1. CASE log' = logDur
    BY <1>1 DEF IInv, DiskInv
  <1>2. CASE \E m \in 0 .. Len(log) : MayLose(m) /\ log' = SubSeq(log, 1, m)
    <2>1. PICK m \in 0 .. Len(log) : MayLose(m) /\ log' = SubSeq(log, 1, m)
      BY <1>2
    <2>2. \A i \in 1 .. m : log[i] \in Chunk
      OBVIOUS
    <2>3. log' \in Seq(Chunk) /\ Len(log') = m /\ \A i \in 1 .. m : log'[i] = log[i]
      BY <2>1, <2>2, SubSeqProperties
    <2>4. ASSUME NEW n \in Nat, Same(log, logDur, n)
          PROVE  n <= m
      <3>1. SUFFICES ASSUME n > m PROVE FALSE
        BY <2>4
      <3>2. m + 1 \in m + 1 .. Len(log) /\ m + 1 <= Len(logDur) /\ m + 1 \in 1 .. n
        BY <2>4, <3>1 DEF Same
      <3>3. log[m + 1] # logDur[m + 1]
        BY <2>1, <3>2 DEF MayLose
      <3> QED BY <2>4, <3>2, <3>3 DEF Same
    <2>5. CASE headDur = NoHead
      <3>1. log = logDur
        BY <2>5 DEF IInv, DiskInv
      <3>2. Same(log, logDur, Len(log))
        BY <3>1 DEF Same
      <3>3. m = Len(log)
        BY <2>4, <3>2
      <3>4. log' = log
        BY <2>3, <3>3, SeqEqual
      <3>5. head # NoHead => Same(log, logDur, 2 * head.count)
        BY DEF IInv, DiskInv
      <3> QED BY <2>3, <3>1, <3>4, <3>5
    <2>6. CASE headDur # NoHead
      <3>1. head # NoHead /\ Same(log, logDur, 2 * head.count)
        BY <2>6 DEF IInv, DiskInv
      <3>2. 2 * head.count \in Nat /\ 2 * head.count <= m
        BY <2>4, <3>1
      <3>3. Same(log, log', 2 * head.count)
        BY <2>3, <3>2 DEF Same
      <3> QED BY <2>3, <2>6, <3>3
    <2> QED BY <2>5, <2>6
  <1> QED BY <1>1, <1>2

\* The invariant survives a power loss.
LEMMA PowerLossStep ==
    ASSUME IInv, PowerLoss
    PROVE  IInv'
  <1> USE DEF PowerLoss
  <1>1. /\ log' \in Seq(Chunk) /\ logDur' = log'
        /\ headDur = NoHead => log' = log
        /\ head # NoHead => Same(log, log', 2 * head.count)
    BY SurvivingImage
  <1>2. head' \in {head, headDur} /\ headDur' = head' /\ headerDur' = header'
    OBVIOUS
  <1>3. /\ header' \in HeaderRecord
        /\ header'.kind \in {"legacy", "bound", "torn"}
        /\ headDur = NoHead => header'.kind = "legacy"
    <2>1. headDur = NoHead => header = headerDur
      BY DEF IInv, HeaderInv, TypeOK, DiskTypes, HeaderRecord
    <2>2. CASE header' \in {header, headerDur}
      BY <2>2 DEF IInv, HeaderInv, TypeOK, DiskTypes
    <2>3. CASE header' = [header EXCEPT !.kind = "torn"] /\ header # headerDur
      BY <2>1, <2>3 DEF IInv, HeaderInv, TypeOK, DiskTypes, HeaderRecord
    <2> QED BY <2>2, <2>3
  <1>4. DiskTypes'
    BY <1>1, <1>2, <1>3 DEF IInv, TypeOK, DiskTypes, Fault
  <1>5. \A p \in Handle : /\ pc'[p] = "closed" /\ seen'[p] = NoHead
                          /\ tail'[p] = NoTail
    OBVIOUS
  <1>6. HandleTypes'
    <2>1. << >> \in Seq(Nat) /\ << >> \in Seq(Chunk)
      BY EmptySeq
    <2>2. NoTail \in TailRecord /\ OriginalKey \in Key /\ "closed" \in PC
      BY DEF NoTail, TailRecord, Genesis, Key, PC
    <2>3. pc' \in [Handle -> PC] /\ key' \in [Handle -> Key]
      BY <2>2
    <2>4. tail' \in [Handle -> TailRecord]
      BY <2>2
    <2>5. seen' \in [Handle -> HeadRecord \cup {NoHead}]
      OBVIOUS
    <2>6. headReq' \in [Handle -> BOOLEAN] /\ failed' \in [Handle -> BOOLEAN]
      OBVIOUS
    <2>7. content' \in [Handle -> Seq(Chunk)] /\ buf' \in [Handle -> Seq(Chunk)]
      BY <2>1
    <2>8. view' \in [Handle -> Seq(Nat)] /\ viewEnd' \in [Handle -> Nat]
      BY <2>1
    <2> QED BY <2>3, <2>4, <2>5, <2>6, <2>7, <2>8 DEF HandleTypes
  <1>7. LockHeld'
    BY <1>5, PCSets, NoHandleAssumption DEF LockHeld
  <1>8. DiskInv'
    <2>1. CASE headDur = NoHead
      <3>1. log' = log /\ logDur' = log
        BY <1>1, <2>1
      <3>2. /\ Len(log) = 2 * Lines(log)
            /\ Chained(log, Lines(log)) /\ EndsDecision(log, Lines(log))
        BY <2>1 DEF IInv, DiskInv
      <3>3. CASE head' = NoHead
        BY <1>2, <3>1, <3>2, <3>3 DEF DiskInv
      <3>4. CASE head' # NoHead
        <4>1. head' = head /\ head # NoHead
          BY <1>2, <2>1, <3>4
        <4>2. Same(log, log, 2 * head.count)
          BY <4>1 DEF IInv, DiskInv, Same
        <4>3. head.count \in Nat
          BY <4>1, HeadTypes
        <4> QED BY <1>2, <3>1, <4>1, <4>2, <4>3 DEF IInv, DiskInv
      <3> QED BY <3>3, <3>4
    <2>2. CASE headDur # NoHead
      <3>1. /\ head # NoHead /\ headDur.count <= head.count
            /\ head.count \in Nat /\ headDur.count \in Nat
        BY <2>2, HeadTypes DEF IInv, DiskInv
      <3>2. Same(log, log', 2 * head.count)
        BY <1>1, <3>1
      <3>3. head'.count \in 0 .. head.count /\ head' # NoHead
        BY <1>2, <2>2, <3>1
      <3>4. /\ HashAt(log, head'.count) = head'.hash
            /\ EndsDecision(log, head'.count)
        BY <1>2, <2>2, <3>1 DEF IInv, DiskInv
      <3>5. Chained(log', head.count)
        BY <1>1, <3>1, <3>2, HeadTypes, SameLines DEF IInv, DiskInv
      <3>6. /\ HashAt(log', head'.count) = head'.hash
            /\ EndsDecision(log', head'.count)
        BY <1>1, <3>1, <3>2, <3>3, <3>4, HeadTypes, SameLines
      <3>7. Chained(log', head'.count)
        <4>1. \A k \in 1 .. head'.count : k \in 1 .. head.count
          BY <3>1, <3>3
        <4> QED BY ONLY <3>5, <4>1 DEF Chained
      <3>8. 2 * head'.count <= Len(log') /\ 2 * head'.count \in Nat
        <4>1. 2 * head.count <= Len(log') /\ Len(log') \in Nat
          BY <1>1, <3>2 DEF Same
        <4> QED BY ONLY <3>1, <3>3, <4>1
      <3>9. Same(log', log', 2 * head'.count)
        BY <1>1, <3>8, SameItself
      <3>10. head'.count <= head'.count
        BY <3>3
      <3> QED BY <1>1, <1>2, <3>3, <3>6, <3>7, <3>9, <3>10 DEF DiskInv
    <2> QED BY <2>1, <2>2
  <1>9. HeaderInv'
    BY <1>2, <1>3 DEF IInv, DiskInv, HeaderInv
  <1>10. AckedDurable'
    <2> SUFFICES ASSUME NEW r \in acked
                 PROVE  /\ r.seq < CommittedCount(log', head')
                        /\ WholeLine(log', r.seq + 1)
                        /\ log'[2 * (r.seq + 1)].rec = r
      BY <1>1, <1>2 DEF AckedDurable
    <2>1. /\ r.seq < CommittedCount(logDur, headDur) /\ r.seq \in Nat
          /\ WholeLine(logDur, r.seq + 1)
          /\ logDur[2 * (r.seq + 1)].rec = r
      BY DEF IInv, AckedDurable, TypeOK, DiskTypes, Record
    <2>2. CASE headDur = NoHead
      <3>1. log' = logDur /\ logDur = log
        BY <1>1, <2>2 DEF IInv, DiskInv
      <3>2. CommittedCount(log', head') = CommittedCount(logDur, headDur)
        <4>1. CASE head' = NoHead
          BY <2>2, <3>1, <4>1
        <4>2. CASE head' # NoHead
          <5>1. head' = head /\ head.count = Lines(log)
            BY <1>2, <2>2, <4>2 DEF IInv, DiskInv
          <5> QED BY <2>2, <3>1, <4>2, <5>1 DEF CommittedCount
        <4> QED BY <4>1, <4>2
      <3> QED BY <2>1, <3>1, <3>2
    <2>3. CASE headDur # NoHead
      <3>1. /\ head # NoHead /\ headDur.count <= head.count
            /\ head.count \in Nat /\ headDur.count \in Nat
            /\ Same(log, logDur, 2 * head.count)
        BY <2>3, HeadTypes DEF IInv, DiskInv
      <3>2. r.seq < headDur.count
        BY <2>1, <2>3 DEF CommittedCount
      <3>3. CommittedCount(log', head') \in {head.count, headDur.count}
        BY <1>2, <2>3, <3>1 DEF CommittedCount
      <3>4. r.seq < CommittedCount(log', head')
        BY ONLY <2>1, <3>1, <3>2, <3>3
      <3>5. r.seq + 1 \in 1 .. head.count /\ 2 * (r.seq + 1) \in 1 .. 2 * head.count
        BY ONLY <2>1, <3>1, <3>2
      <3>6. Same(logDur, log', 2 * head.count)
        <4>1. 2 * head.count \in Nat /\ Same(log, log', 2 * head.count)
          BY <1>1, <3>1
        <4>2. Same(logDur, log, 2 * head.count)
          BY <3>1, <4>1, HeadTypes, SameBasics
        <4> QED BY <1>1, <4>1, <4>2, HeadTypes, SameTrans
      <3>7. WholeLine(log', r.seq + 1)
        BY <1>1, <2>1, <3>1, <3>5, <3>6, HeadTypes, SameLines
      <3>8. log'[2 * (r.seq + 1)] = logDur[2 * (r.seq + 1)]
        BY <3>5, <3>6 DEF Same
      <3> QED BY <2>1, <3>4, <3>7, <3>8
    <2> QED BY <2>2, <2>3
  <1>11. ObservedStays'
    BY <1>5 DEF ObservedStays
  <1>12. ASSUME NEW q \in Handle
         PROVE  /\ tail'[q].size >= 2 * tail'[q].count
                /\ ModeOf(q)' /\ HolderOf(q)' /\ BatchOf(q)'
    <2>1. ModeOf(q)' /\ HolderOf(q)' /\ BatchOf(q)'
      BY <1>5, PCSets, NotWorking
    <2> QED BY <1>5, <2>1 DEF NoTail
  <1>13. HandleInv'
    BY <1>12 DEF HandleInv
  <1> QED BY <1>4, <1>6, <1>7, <1>8, <1>9, <1>10, <1>11, <1>13 DEF IInv, TypeOK

-----------------------------------------------------------------------------
(* The log found at the start *)

\* A legacy log is one chained batch; what it holds counts as acknowledged.
LEMMA LegacyLogFacts ==
    /\ LegacyLog \in Seq(Chunk) /\ Len(LegacyLog) = 2 * LegacyCount
    /\ Lines(LegacyLog) = LegacyCount
    /\ Chained(LegacyLog, LegacyCount)
    /\ EndsDecision(LegacyLog, LegacyCount)
    /\ \A r \in RecordsOf(LegacyLog) :
          /\ r \in Record /\ r.seq \in Nat /\ r.seq < LegacyCount
          /\ LegacyLog[2 * (r.seq + 1)].rec = r
  <1> DEFINE l == LegacyLog
             t == NoTail
             n == LegacyCount
  <1>1. t \in TailRecord /\ t.count = 0 /\ t.hash = Genesis /\ n \in Nat
    BY BoundsAssumption DEF NoTail, TailRecord, Genesis
  <1>2. l = Prepare(n, t.count, t.hash, 1)
    BY <1>1 DEF LegacyLog
  <1> HIDE DEF t, n, l
  <1>3. /\ l \in Seq(Chunk) /\ Len(l) = 2 * n /\ Lines(l) = n
        /\ n > 0 => Continues(l, t)
    <2>1. 1 \in Nat \ {0}
      OBVIOUS
    <2> QED BY ONLY <1>1, <1>2, <2>1, PrepareContinues
  <1>4. CASE n = 0
    <2>1. Chained(l, n) /\ EndsDecision(l, n)
      BY <1>4 DEF Chained, EndsDecision
    <2>2. RecordsOf(l) = {}
      BY <1>3, <1>4 DEF RecordsOf
    <2> QED BY <1>3, <2>1, <2>2 DEF l, n
  <1>5. CASE n > 0
    <2>1. Continues(l, t)
      BY <1>3, <1>5
    <2>2. Chained(l, t.count) /\ HashAt(l, t.count) = t.hash
      BY <1>1 DEF Chained, HashAt
    <2>3. /\ 2 * t.count + Len(l) <= Len(l) /\ t.count + n = n
          /\ \A i \in 1 .. Len(l) : l[2 * t.count + i] = l[i]
      BY <1>1, <1>3
    <2>4. Chained(l, n) /\ EndsDecision(l, n)
      BY <1>1, <1>3, <2>1, <2>2, <2>3, ExtendChain
    <2>5. \A r \in RecordsOf(l) : /\ r \in Record /\ r.seq \in Nat /\ r.seq < n
                                  /\ l[2 * (r.seq + 1)].rec = r
      BY <1>1, <1>3, <2>1, <2>3, BatchRecords
    <2> QED BY <1>3, <2>4, <2>5 DEF l, n
  <1> QED BY <1>1, <1>4, <1>5

\* A log that is there at the start satisfies the inductive invariant.
LEMMA InitHolds ==
    ASSUME NEW start \in {"legacy", "bound"}, Found(start)
    PROVE  IInv
  <1> USE DEF Found
  <1>1. start \in {"legacy", "bound"}
    OBVIOUS
  <1>2. /\ log \in Seq(Chunk) /\ Lines(log) \in Nat /\ Len(log) = 2 * Lines(log)
        /\ Chained(log, Lines(log)) /\ EndsDecision(log, Lines(log))
        /\ \A r \in RecordsOf(log) :
              /\ r \in Record /\ r.seq \in Nat /\ r.seq < Lines(log)
              /\ log[2 * (r.seq + 1)].rec = r
        /\ start = "bound" => log = << >>
    <2>1. CASE start = "legacy"
      BY <2>1, LegacyLogFacts, BoundsAssumption
    <2>2. CASE start = "bound"
      <3>1. log = << >> /\ << >> \in Seq(Chunk) /\ Len(log) = 0
        BY <2>2, EmptySeq
      <3>2. 0 \div 2 = 0
        OBVIOUS
      <3>3. Lines(log) = 0
        BY ONLY <3>1, <3>2 DEF Lines
      <3>4. RecordsOf(log) = {}
        BY <3>1 DEF RecordsOf
      <3>5. Chained(log, 0)
        BY ONLY <3>1 DEF Chained
      <3>6. EndsDecision(log, 0)
        BY ONLY <3>1 DEF EndsDecision
      <3> QED BY ONLY <2>2, <3>1, <3>3, <3>4, <3>5, <3>6
    <2> QED BY <1>1, <2>1, <2>2
  <1>3. /\ head \in HeadRecord \cup {NoHead}
        /\ head # NoHead => /\ head.count = 0 /\ head.hash = Genesis
                            /\ start = "bound"
        /\ head = NoHead => start = "legacy"
    <2>1. OriginalKey \in Key /\ 0 \in Nat /\ Genesis \in Nat
      BY DEF Key, Genesis
    <2>2. [count |-> 0, hash |-> Genesis, key |-> OriginalKey] \in HeadRecord
      BY <2>1 DEF HeadRecord
    <2> QED BY <1>1, <2>2, NoHeadAssumption
  <1>4. DiskTypes
    <2>1. header \in HeaderRecord
      BY <1>1 DEF HeaderRecord, Key
    <2>2. nextId \in Nat \ {0}
      BY BoundsAssumption
    <2>3. acked \subseteq Record
      BY <1>2
    <2> QED BY <1>2, <1>3, <2>1, <2>2, <2>3 DEF DiskTypes
  <1>5. HandleTypes
    <2>1. << >> \in Seq(Nat) /\ << >> \in Seq(Chunk)
      BY EmptySeq
    <2>2. NoTail \in TailRecord /\ OriginalKey \in Key /\ "closed" \in PC
      BY DEF NoTail, TailRecord, Genesis, Key, PC
    <2>3. pc \in [Handle -> PC] /\ key \in [Handle -> Key]
      BY <2>2
    <2>4. tail \in [Handle -> TailRecord]
      BY <2>2
    <2>5. seen \in [Handle -> HeadRecord \cup {NoHead}]
      OBVIOUS
    <2>6. headReq \in [Handle -> BOOLEAN] /\ failed \in [Handle -> BOOLEAN]
      OBVIOUS
    <2>7. content \in [Handle -> Seq(Chunk)] /\ buf \in [Handle -> Seq(Chunk)]
      BY <2>1
    <2>8. view \in [Handle -> Seq(Nat)] /\ viewEnd \in [Handle -> Nat]
      BY <2>1
    <2> QED BY <2>3, <2>4, <2>5, <2>6, <2>7, <2>8 DEF HandleTypes
  <1>6. \A p \in Handle : pc[p] = "closed" /\ seen[p] = NoHead /\ tail[p] = NoTail
    OBVIOUS
  <1>7. LockHeld
    BY <1>6, PCSets, NoHandleAssumption DEF LockHeld
  <1>8. DiskInv
    <2>1. CASE head = NoHead
      BY <1>2, <2>1 DEF DiskInv
    <2>2. CASE head # NoHead
      <3>1. /\ head.count = 0 /\ HashAt(log, 0) = head.hash
            /\ EndsDecision(log, 0) /\ Chained(log, 0) /\ Same(log, log, 0)
        BY <1>2, <1>3, <2>2 DEF HashAt, EndsDecision, Chained, Same
      <3> QED BY <2>2, <3>1 DEF DiskInv
    <2> QED BY <2>1, <2>2
  <1>9. HeaderInv
    BY <1>1, <1>3 DEF HeaderInv
  <1>10. AckedDurable
    <2> SUFFICES ASSUME NEW r \in acked
                 PROVE  /\ r.seq < CommittedCount(log, head)
                        /\ WholeLine(log, r.seq + 1)
                        /\ log[2 * (r.seq + 1)].rec = r
      BY DEF AckedDurable
    <2>1. /\ r.seq \in Nat /\ r.seq < Lines(log)
          /\ log[2 * (r.seq + 1)].rec = r
      BY <1>2
    <2>2. Lines(log) # 0
      BY <2>1
    <2>3. start # "bound"
      <3>1. start = "bound" => Lines(log) = 0
        BY <1>2 DEF Lines
      <3> QED BY <2>2, <3>1
    <2>4. CommittedCount(log, head) = Lines(log)
      BY <1>3, <2>3 DEF CommittedCount
    <2>5. r.seq + 1 \in 1 .. Lines(log)
      BY <1>2, <2>1
    <2>6. WholeLine(log, r.seq + 1)
      BY <1>2, <2>5 DEF Chained
    <2> QED BY <2>1, <2>4, <2>6
  <1>11. ObservedStays
    BY <1>6 DEF ObservedStays
  <1>12. ASSUME NEW q \in Handle
         PROVE  /\ tail[q].size >= 2 * tail[q].count
                /\ ModeOf(q) /\ HolderOf(q) /\ BatchOf(q)
    <2>1. pc[q] = "closed" /\ tail[q] = NoTail
      BY <1>6
    <2>2. ModeOf(q)
      BY <2>1 DEF ModeOf, Creating, Writing, Committing, Migrating
    <2>3. HolderOf(q)
      BY <2>1 DEF HolderOf, BeforeCommit, Writing, Migrating
    <2>4. BatchOf(q)
      BY <2>1 DEF BatchOf, Writing, Committing, Migrating
    <2> QED BY <2>1, <2>2, <2>3, <2>4 DEF NoTail
  <1>13. HandleInv
    BY <1>12 DEF HandleInv
  <1> QED BY <1>4, <1>5, <1>7, <1>8, <1>9, <1>10, <1>11, <1>13 DEF IInv, TypeOK

-----------------------------------------------------------------------------
(* The theorems *)

\* A log that exists is never created again.
LEMMA NoCreation ==
    ASSUME IInv, NEW p \in Handle
    PROVE  ~(\/ OpenMissing(p) \/ CreateFile(p) \/ CreateHeader(p)
             \/ CreateSeal(p) \/ CreateDone(p))
  <1>1. header.kind # "absent" /\ pc[p] \notin Creating
    BY HandleHolds DEF IInv, HeaderInv, ModeOf
  <1> QED BY <1>1 DEF OpenMissing, CreateFile, CreateHeader, CreateSeal,
                      CreateDone, Creating

\* So does a step that changes nothing.
LEMMA StutterHolds ==
    ASSUME IInv, UNCHANGED vars
    PROVE  IInv'
  <1> USE DEF vars, diskVars, cacheVars, streamVars, readVars
  <1>1. TypeOK'
    BY DEF IInv, TypeOK, DiskTypes, HandleTypes, LockHeld
  <1>2. DiskInv' /\ HeaderInv' /\ ObservedStays' /\ AckedDurable'
    BY DEF IInv, DiskInv, HeaderInv, ObservedStays, AckedDurable
  <1>3. HandleInv'
    <2> SUFFICES ASSUME NEW q \in Handle
                 PROVE  /\ tail[q].size >= 2 * tail[q].count
                        /\ ModeOf(q)' /\ HolderOf(q)' /\ BatchOf(q)'
      BY DEF HandleInv
    <2> QED BY HandleHolds, Untouched
  <1> QED BY <1>1, <1>2, <1>3 DEF IInv

\* Every step preserves the inductive invariant: one lemma per action.
LEMMA NextHolds ==
    ASSUME IInv, [Next]_vars
    PROVE  IInv'
  <1>1. CASE UNCHANGED vars
    BY <1>1, StutterHolds
  <1>2. CASE PowerLoss
    BY <1>2, PowerLossStep
  <1>3. ASSUME NEW p \in Handle, AppendStep(p)
        PROVE  IInv'
    <2>1. CASE AppendBegin(p) \/ BeginRaises(p) \/ DecideNothing(p)
      BY <2>1, AppendBeginStep, BeginRaisesStep, DecideNothingStep
    <2>2. CASE \E n \in 1 .. MaxBatch : Decide(p, n)
      BY <2>2, DecideStep
    <2>3. CASE SealHead(p) \/ SealDir(p) \/ UpgradeHeader(p) \/ UpgradeSync(p)
      BY <2>3, SealHeadStep, SealDirStep, UpgradeHeaderStep, UpgradeSyncStep
    <2>4. CASE MigrateRaises(p) \/ WriteChunk(p) \/ FsyncLog(p) \/ CheckSize(p)
      BY <2>4, MigrateRaisesStep, WriteChunkStep, FsyncLogStep, CheckSizeStep
    <2>5. CASE ReplaceHead(p) \/ CommitDone(p) \/ WriteRaises(p)
      BY <2>5, ReplaceHeadStep, CommitDoneStep, WriteRaisesStep
    <2>6. CASE Repair(p) \/ RepairRaises(p) \/ LateFlush(p) \/ CloseStream(p)
      BY <2>6, RepairStep, RepairRaisesStep, LateFlushStep, CloseStreamStep
    <2> QED BY <1>3, <2>1, <2>2, <2>3, <2>4, <2>5, <2>6 DEF AppendStep
  <1>4. ASSUME NEW p \in Handle, ReadStep(p)
        PROVE  IInv'
    <2>1. CASE ReadBegin(p) \/ ReadEnd(p) \/ Suffix(p) \/ SuffixRaises(p)
      BY <2>1, ReadBeginStep, ReadEndStep, SuffixStep, SuffixRaisesStep
    <2>2. CASE ForkRaises(p) \/ \E q \in Handle : Fork(p, q)
      BY <2>2, ForkRaisesStep, ForkStep
    <2> QED BY <1>4, <2>1, <2>2 DEF ReadStep
  <1>5. ASSUME NEW p \in Handle, OpenStep(p)
        PROVE  IInv'
    <2>1. CASE OpenHeader(p) \/ OpenHead(p) \/ OpenTail(p) \/ OpenRecover(p)
      BY <2>1, OpenHeaderStep, OpenHeadStep, OpenTailStep, OpenRecoverStep
    <2>2. CASE OpenScan(p) \/ OpenCheck(p)
      BY <2>2, OpenScanStep, OpenCheckStep
    <2> QED BY <1>5, <2>1, <2>2, NoCreation DEF OpenStep
  <1>6. ASSUME NEW p \in Handle, Close(p) \/ Kill(p)
        PROVE  IInv'
    BY <1>6, CloseStep, KillStep
  <1> QED BY <1>1, <1>2, <1>3, <1>4, <1>5, <1>6 DEF Next

\* The inductive invariant holds of every log that exists at the start: what
\* append_atomically, open, fork and the reads keep true between their steps.
THEOREM Invariance ==
    ASSUME "absent" \notin Starts
    PROVE  Spec => []IInv
  <1>1. Init => IInv
    BY InitHolds, StartAssumption DEF Init
  <1>2. IInv /\ [Next]_vars => IInv'
    BY NextHolds
  <1> QED BY <1>1, <1>2, PTL DEF Spec

\* Every variable keeps its type and the writer lock is held exactly by the
\* handle inside a critical section of append_atomically or of a locked read.
THEOREM TypeCorrect ==
    ASSUME "absent" \notin Starts
    PROVE  Spec => []TypeOK
  <1>1. IInv => TypeOK
    BY DEF IInv
  <1> QED BY <1>1, Invariance, PTL

\* append is durable before it returns: the records of every append that
\* returned survive any power loss, at their own positions.
THEOREM AckedAreDurable ==
    ASSUME "absent" \notin Starts
    PROVE  Spec => []AckedDurable
  <1>1. IInv => AckedDurable
    BY DEF IInv
  <1> QED BY <1>1, Invariance, PTL

\* The commit a handle observed (_committed_head) is never taken back.
THEOREM ObservedIsKept ==
    ASSUME "absent" \notin Starts
    PROVE  Spec => []ObservedStays
  <1>1. IInv => ObservedStays
    BY DEF IInv
  <1> QED BY <1>1, Invariance, PTL

\* The scan of _committed_prefix_end reaches both heads in both images, and a
\* log without a head has only whole lines: recovery never refuses a log that
\* was left by a crash, a failed batch or a late flush.
LEMMA ReachesHead ==
    ASSUME IInv
    PROVE  CommittedReadable
  <1> USE HeadTypes
  <1>1. ASSUME head = NoHead
        PROVE  AllWhole(log)
    <2>1. Len(log) = 2 * Lines(log) /\ Chained(log, Lines(log))
      BY <1>1 DEF IInv, DiskInv
    <2> QED BY <2>1 DEF AllWhole, Chained, Lines
  <1>2. ASSUME NEW hd \in {head, headDur} \ {NoHead}
        PROVE  PrefixReaches(log, hd, NoHead) /\ PrefixReaches(logDur, hd, NoHead)
    <2>1. /\ head # NoHead /\ hd.count \in 0 .. head.count /\ head.count \in Nat
          /\ HashAt(log, hd.count) = hd.hash
          /\ Chained(log, head.count) /\ Same(log, logDur, 2 * head.count)
      BY DEF IInv, DiskInv
    <2>2. Chained(log, hd.count)
      <3>1. \A k \in 1 .. hd.count : k \in 1 .. head.count
        BY <2>1
      <3> QED BY ONLY <2>1, <3>1 DEF Chained
    <2>3. 2 * hd.count \in 0 .. 2 * head.count /\ 2 * head.count \in Nat
      BY <2>1
    <2>4. Same(log, logDur, 2 * hd.count)
      BY <2>1, <2>3, SameBasics
    <2>5. Chained(logDur, hd.count) /\ HashAt(logDur, hd.count) = hd.hash
      BY <2>1, <2>2, <2>4, SameLines
    <2>6. 2 * hd.count <= Len(log) /\ 2 * hd.count <= Len(logDur)
      BY <2>4 DEF Same
    <2> QED BY <2>1, <2>2, <2>5, <2>6 DEF PrefixReaches
  <1> QED BY <1>1, <1>2 DEF CommittedReadable

\* _recover_to_authenticated_head always succeeds on a log nobody tampered
\* with, whatever the crash or the failed write it recovers from.
THEOREM AlwaysRecovers ==
    ASSUME "absent" \notin Starts
    PROVE  Spec => []CommittedReadable
  <1>1. IInv => CommittedReadable
    BY ReachesHead
  <1> QED BY <1>1, Invariance, PTL

\* append_atomically commits a decision's events all or none, in the file
\* processes see and in the one that survives a power loss.
THEOREM DecisionsAreAtomic ==
    ASSUME "absent" \notin Starts
    PROVE  Spec => []BatchAtomic
  <1>1. IInv => BatchAtomic
    BY HeadTypes DEF IInv, DiskInv, BatchAtomic, EndsDecision
  <1> QED BY <1>1, Invariance, PTL
=============================================================================
