------------------------ MODULE EventStoreRefinement ------------------------
(***************************************************************************)
(* That a log which exists at the start keeps the promise of CommittedLog,  *)
(* and that what its readers assemble is a prefix of what is committed, for *)
(* every set of handles and every bound.                                    *)
(***************************************************************************)
EXTENDS EventStoreProofs

-----------------------------------------------------------------------------
(* The committed records *)

\* The records of the first n lines.
RecordsTo(l, n) == [k \in 1 .. n |-> l[2 * k].rec]
Boundary == CommittedCount(log, head)

\* The boundary lies in the file, at the end of a decision; the lines before it
\* are all that a reader may be given.
BoundaryHolds ==
    /\ log \in Seq(Chunk) /\ Boundary \in Nat /\ 2 * Boundary <= Len(log)
    /\ Chained(log, Boundary) /\ EndsDecision(log, Boundary)
    /\ Committed = RecordsTo(log, Boundary)

\* What the invariant says of the commit boundary.  Only a log whose header
\* declares a head that was never written hides its lines, and there is none.
LEMMA Counted == IInv => BoundaryHolds
  <1> SUFFICES ASSUME IInv PROVE BoundaryHolds
    OBVIOUS
  <1>1. CASE head = NoHead
    <2>1. /\ Len(log) = 2 * Lines(log) /\ Chained(log, Lines(log))
          /\ EndsDecision(log, Lines(log)) /\ Boundary = Lines(log)
      BY <1>1 DEF IInv, DiskInv, Boundary, CommittedCount
    <2>2. ~Bound
      BY <1>1 DEF IInv, DiskInv, HeaderInv, Bound
    <2>3. Committed = RecordsTo(log, Boundary)
      BY <2>2 DEF Committed, RecordsTo, Boundary
    <2> QED BY <2>1, <2>3, HeadTypes DEF BoundaryHolds
  <1>2. CASE head # NoHead
    <2>1. /\ Same(log, logDur, 2 * head.count) /\ Chained(log, head.count)
          /\ EndsDecision(log, head.count) /\ Boundary = head.count
      BY <1>2 DEF IInv, DiskInv, Boundary, CommittedCount
    <2>2. Committed = RecordsTo(log, Boundary)
      BY <1>2 DEF Committed, RecordsTo, Boundary
    <2> QED BY <1>2, <2>1, <2>2, HeadTypes DEF Same, BoundaryHolds
  <1> QED BY <1>1, <1>2

\* The same of the state a step leads to.
LEMMA CountedNext == IInv' => BoundaryHolds'
  BY Counted, PTL

\* The committed records are a sequence.
LEMMA CommittedSeq ==
    ASSUME NEW l \in Seq(Chunk), NEW n \in Nat, 2 * n <= Len(l)
    PROVE  /\ RecordsTo(l, n) \in Seq(Record) /\ Len(RecordsTo(l, n)) = n
           /\ \A k \in 1 .. n : RecordsTo(l, n)[k] = l[2 * k].rec
  <1>1. \A k \in 1 .. n : l[2 * k] \in Chunk
    OBVIOUS
  <1>2. \A k \in 1 .. n : l[2 * k].rec \in Record
    BY <1>1 DEF Chunk
  <1> QED BY <1>2 DEF RecordsTo

\* What append acknowledged is committed, at its own position.
AckedCommitted == \A r \in acked : Promise!Holds(Committed, r)

\* The invariant says so of every record append returned.
LEMMA AckedHeld == IInv => AckedCommitted
  <1> SUFFICES ASSUME IInv, NEW r \in acked
               PROVE  Promise!Holds(Committed, r)
    BY DEF AckedCommitted
  <1> USE HeadTypes
  <1>1. BoundaryHolds
    BY Counted
  <1>2. /\ r.seq < CommittedCount(logDur, headDur)
        /\ logDur[2 * (r.seq + 1)].rec = r /\ r.seq \in Nat
    BY DEF IInv, AckedDurable, TypeOK, DiskTypes, Record
  <1>3. r.seq + 1 \in 1 .. Boundary /\ log[2 * (r.seq + 1)].rec = r
    <2>1. CASE headDur = NoHead
      <3>1. log = logDur /\ Boundary = Lines(log)
        BY <2>1 DEF IInv, DiskInv, Boundary, CommittedCount
      <3> QED BY <1>2, <2>1, <3>1 DEF CommittedCount
    <2>2. CASE headDur # NoHead
      <3>1. /\ head # NoHead /\ headDur.count <= head.count /\ Boundary = head.count
            /\ Same(log, logDur, 2 * head.count)
        BY <2>2 DEF IInv, DiskInv, Boundary, CommittedCount
      <3>2. r.seq + 1 \in 1 .. head.count
        BY <1>2, <2>2, <3>1 DEF CommittedCount
      <3>3. 2 * (r.seq + 1) \in 1 .. 2 * head.count
        BY <3>1, <3>2
      <3> QED BY <1>2, <3>1, <3>2, <3>3 DEF Same
    <2> QED BY <2>1, <2>2
  <1>4. /\ Len(Committed) = Boundary
        /\ \A k \in 1 .. Boundary : Committed[k] = log[2 * k].rec
    BY <1>1, CommittedSeq DEF BoundaryHolds
  <1> QED BY <1>3, <1>4 DEF Promise!Holds

\* The same of the state a step leads to.
LEMMA AckedHeldNext == IInv' => AckedCommitted'
  BY AckedHeld, PTL

\* A step that keeps the boundary and the lines before it keeps what is
\* committed.
LEMMA SameCommitted ==
    ASSUME IInv, IInv', Boundary' = Boundary, Same(log, log', 2 * Boundary)
    PROVE  Committed' = Committed
  <1>1. BoundaryHolds /\ BoundaryHolds'
    BY Counted, CountedNext
  <1>2. \A k \in 1 .. Boundary : log'[2 * k].rec = log[2 * k].rec
    BY <1>1 DEF BoundaryHolds, Same
  <1>3. RecordsTo(log', Boundary) = RecordsTo(log, Boundary)
    BY <1>2 DEF RecordsTo
  <1> QED BY <1>1, <1>3 DEF BoundaryHolds

\* A step under the same head that keeps the committed chunks.
LEMMA SteadyCommitted ==
    ASSUME IInv, IInv', KeepsCommitted, head' = head
    PROVE  Committed' = Committed
  <1>1. BoundaryHolds
    BY Counted
  <1>2. CASE head = NoHead
    <2>1. log' = log
      BY <1>2 DEF IInv, DiskInv, KeepsCommitted
    <2>2. Boundary' = Boundary /\ Same(log, log', 2 * Boundary)
      BY <1>1, <2>1 DEF Boundary, BoundaryHolds, Same
    <2> QED BY <2>2, SameCommitted
  <1>3. CASE head # NoHead
    BY <1>3, SameCommitted DEF Boundary, CommittedCount, KeepsCommitted
  <1> QED BY <1>2, <1>3

-----------------------------------------------------------------------------
(* Steps that the abstract log does not see *)

\* A step that leaves the file and its head alone.
LEMMA LogKept ==
    ASSUME IInv, IInv', UNCHANGED <<log, head>>
    PROVE  Committed' = Committed
  <1>1. BoundaryHolds
    BY Counted
  <1>2. Boundary' = Boundary /\ Same(log, log', 2 * Boundary)
    BY <1>1 DEF Boundary, BoundaryHolds, Same
  <1> QED BY <1>2, SameCommitted

\* Cutting off what the head does not commit keeps the committed chunks.
LEMMA RecoverKeeps ==
    ASSUME IInv, NEW p \in Handle, OpenRecover(p)
    PROVE  KeepsCommitted
  <1> DEFINE found == HeadHolds(p) /\ PrefixReaches(log, head, NoHead)
  <1>1. CASE found
    <2>1. head # NoHead /\ TruncateTo(2 * head.count)
      BY <1>1 DEF OpenRecover, HeadHolds
    <2>2. TruncateTo(TailOnDisk.size)
      BY <2>1, BoundaryOnDisk
    <2> QED BY <2>2, TruncatedToBoundary
  <1>2. CASE ~found
    <2>1. UNCHANGED <<log, logDur>>
      BY <1>2 DEF OpenRecover
    <2> QED BY <2>1, SteadyKeeps
  <1> QED BY <1>1, <1>2

\* A fork cuts the file where its trusted tail ends, or not at all.
LEMMA ForkKeeps ==
    ASSUME IInv, NEW p \in Handle, NEW q \in Handle, Fork(p, q)
    PROVE  KeepsCommitted
  <1>1. CASE Bound
    <2>1. CanRefresh(p) /\ TruncateTo(TrustedEnd(p))
      BY <1>1 DEF Fork
    <2>2. head # NoHead /\ tail[p].count <= head.count
      BY <2>1 DEF CanRefresh, HeadHolds
    <2>3. headDur # NoHead
      BY <1>1 DEF IInv, HeaderInv, Bound
    <2>4. /\ tail[p].size \in Nat /\ tail[p].count \in Nat
          /\ tail[p].size >= 2 * tail[p].count
      BY HandleTyped, HandleHolds
    <2>5. TrustedEnd(p) \in Nat /\ TrustedEnd(p) >= 2 * head.count
      BY <2>2, <2>4, HeadTypes DEF TrustedEnd
    <2> QED BY <2>1, <2>2, <2>3, <2>5, TruncateKeeps
  <1>2. CASE ~Bound
    <2>1. TruncateTo(TailOnDisk.size)
      BY <1>2 DEF Fork
    <2> QED BY <2>1, TruncatedToBoundary
  <1> QED BY <1>1, <1>2

\* A stream that hands a chunk to the file has one.
LEMMA FlushHasMore ==
    ASSUME IInv, NEW p \in Handle, WriteChunk(p) \/ LateFlush(p)
    PROVE  Len(buf[p]) > 0
  <1>1. CASE WriteChunk(p)
    <2>1. pc[p] = "write"
      BY <1>1 DEF WriteChunk
    <2>2. Progress(p)
      BY <2>1, HandleHolds DEF BatchOf, Writing
    <2> QED BY <2>1, <2>2 DEF Progress
  <1>2. CASE LateFlush(p)
    <2>1. buf[p] # << >> /\ buf[p] \in Seq(Chunk)
      BY <1>2, HandleTyped DEF LateFlush
    <2> QED BY <2>1
  <1> QED BY <1>1, <1>2

\* A chunk at the end of the file is behind everything committed.
LEMMA FlushKeeps ==
    ASSUME IInv, NEW p \in Handle, WriteChunk(p) \/ LateFlush(p)
    PROVE  KeepsCommitted
  <1>1. log' = Append(log, buf[p][1]) /\ logDur' = logDur /\ pc[p] \in {"write", "closing"}
    BY DEF WriteChunk, LateFlush
  <1>2. headDur # NoHead
    BY <1>1, HandleHolds DEF IInv, HeaderInv, ModeOf, Writing
  <1>3. Len(buf[p]) > 0
    BY FlushHasMore
  <1>4. buf[p][1] \in Chunk
    BY <1>3, BufferSplits
  <1> QED BY <1>1, <1>2, <1>4, AppendKeeps

\* Which steps of one handle leave both the committed records and the
\* acknowledged ones as they are.
Unseen(p) ==
    \/ AppendStep(p) /\ ~SealHead(p) /\ ~ReplaceHead(p) /\ ~CommitDone(p)
    \/ ReadStep(p) \/ OpenStep(p) \/ Close(p) \/ Kill(p)

\* Locked rereads, flushes, recovery and forks keep the committed chunks.
LEMMA CutsAndFlushes ==
    ASSUME IInv, NEW p \in Handle,
           \/ AppendBegin(p) \/ BeginRaises(p) \/ ReadBegin(p) \/ Repair(p) \/ RepairRaises(p)
           \/ WriteChunk(p) \/ LateFlush(p) \/ OpenRecover(p) \/ \E q \in Handle : Fork(p, q)
    PROVE  KeepsCommitted /\ head' = head /\ acked' = acked
  <1>1. CASE AppendBegin(p) \/ ReadBegin(p) \/ Repair(p)
    <2>1. Reread(p)
      BY <1>1 DEF AppendBegin, ReadBegin, Repair
    <2> QED BY <1>1, <2>1, RereadFacts DEF Reread, AppendBegin, ReadBegin, Repair, LeaveWrite
  <1>2. CASE BeginRaises(p) \/ RepairRaises(p)
    <2>1. RereadRaises(p)
      BY <1>2 DEF BeginRaises, RepairRaises
    <2> QED BY <1>2, <2>1, RereadRaisesFacts DEF RereadRaises, BeginRaises, RepairRaises, LeaveWrite
  <1>3. CASE WriteChunk(p) \/ LateFlush(p)
    BY <1>3, FlushKeeps DEF WriteChunk, LateFlush
  <1>4. CASE OpenRecover(p)
    BY <1>4, RecoverKeeps DEF OpenRecover
  <1>5. CASE \E q \in Handle : Fork(p, q)
    BY <1>5, ForkKeeps DEF Fork
  <1> QED BY <1>1, <1>2, <1>3, <1>4, <1>5

\* The other steps leave the file and its head alone.
LEMMA FileKept ==
    ASSUME IInv, NEW p \in Handle,
           \/ DecideNothing(p) \/ (\E n \in 1 .. MaxBatch : Decide(p, n)) \/ SealDir(p)
           \/ UpgradeHeader(p) \/ UpgradeSync(p) \/ MigrateRaises(p) \/ FsyncLog(p)
           \/ CheckSize(p) \/ WriteRaises(p) \/ CloseStream(p) \/ ReadEnd(p) \/ Suffix(p)
           \/ SuffixRaises(p) \/ ForkRaises(p) \/ OpenHeader(p) \/ OpenHead(p) \/ OpenTail(p)
           \/ OpenScan(p) \/ OpenCheck(p) \/ Close(p) \/ Kill(p)
    PROVE  UNCHANGED <<log, head, acked>>
  BY DEF DecideNothing, Decide, SealDir, UpgradeHeader, UpgradeSync, MigrateRaises, FsyncLog,
         CheckSize, WriteRaises, CloseStream, ReadEnd, Suffix, SuffixRaises, ForkRaises,
         OpenHeader, OpenHead, OpenTail, OpenScan, OpenCheck, Close, Kill, diskVars

\* So the abstract log does not see them.
LEMMA UnseenSteps ==
    ASSUME IInv, IInv', NEW p \in Handle, Unseen(p)
    PROVE  Committed' = Committed /\ acked' = acked
  <1>1. CASE \/ AppendBegin(p) \/ BeginRaises(p) \/ ReadBegin(p) \/ Repair(p) \/ RepairRaises(p)
             \/ WriteChunk(p) \/ LateFlush(p) \/ OpenRecover(p) \/ \E q \in Handle : Fork(p, q)
    BY <1>1, CutsAndFlushes, SteadyCommitted
  <1>2. CASE \/ DecideNothing(p) \/ (\E n \in 1 .. MaxBatch : Decide(p, n)) \/ SealDir(p)
             \/ UpgradeHeader(p) \/ UpgradeSync(p) \/ MigrateRaises(p) \/ FsyncLog(p)
             \/ CheckSize(p) \/ WriteRaises(p) \/ CloseStream(p) \/ ReadEnd(p) \/ Suffix(p)
             \/ SuffixRaises(p) \/ ForkRaises(p) \/ OpenHeader(p) \/ OpenHead(p) \/ OpenTail(p)
             \/ OpenScan(p) \/ OpenCheck(p) \/ Close(p) \/ Kill(p)
    BY <1>2, FileKept, LogKept
  <1> QED BY <1>1, <1>2, NoCreation DEF Unseen, AppendStep, ReadStep, OpenStep

-----------------------------------------------------------------------------
(* Steps that the abstract log sees *)

\* What is committed, line by line.
LEMMA CommittedLines ==
    ASSUME BoundaryHolds
    PROVE  /\ Len(Committed) = Boundary /\ Boundary \in Nat
           /\ \A k \in 1 .. Boundary : Committed[k] = log[2 * k].rec
           /\ Promise!EndsDecision(Committed)
  <1>1. /\ Committed \in Seq(Record) /\ Len(Committed) = Boundary /\ Boundary \in Nat
        /\ \A k \in 1 .. Boundary : Committed[k] = log[2 * k].rec
    BY CommittedSeq DEF BoundaryHolds
  <1>2. ASSUME Committed # << >>
        PROVE  Committed[Len(Committed)].last = Committed[Len(Committed)].id
    <2>1. Boundary \in 1 .. Boundary
      BY <1>1, <1>2
    <2> QED BY <1>1, <2>1 DEF BoundaryHolds, EndsDecision
  <1> QED BY <1>1, <1>2 DEF Promise!EndsDecision

\* The same of the state a step leads to.
LEMMA CommittedLinesNext ==
    ASSUME BoundaryHolds'
    PROVE  /\ Len(Committed') = Boundary' /\ Boundary' \in Nat
           /\ \A k \in 1 .. Boundary' : Committed'[k] = log'[2 * k].rec
           /\ Promise!EndsDecision(Committed')
  <1>1. /\ Committed' \in Seq(Record) /\ Len(Committed') = Boundary' /\ Boundary' \in Nat
        /\ \A k \in 1 .. Boundary' : Committed'[k] = log'[2 * k].rec
    BY CommittedSeq DEF BoundaryHolds
  <1>2. ASSUME Committed' # << >>
        PROVE  Committed'[Len(Committed')].last = Committed'[Len(Committed')].id
    <2>1. Boundary' \in 1 .. Boundary'
      BY <1>1, <1>2
    <2> QED BY <1>1, <2>1 DEF BoundaryHolds, EndsDecision
  <1> QED BY <1>1, <1>2 DEF Promise!EndsDecision

\* Giving a legacy log its head commits nothing new.
LEMMA SealHeadSeen ==
    ASSUME IInv, IInv', NEW p \in Handle, SealHead(p)
    PROVE  Committed' = Committed /\ acked' = acked
  <1>1. head' = TailHead(p) /\ UNCHANGED <<log, acked>> /\ pc[p] = "seal"
    BY DEF SealHead
  <1>2. head' # NoHead /\ head'.count = tail[p].count
    BY <1>1, HandleTyped, HeadFromTail DEF TailHead
  <1>3. tail[p].count = Boundary
    BY <1>1, HandleHolds DEF HolderOf, BeforeCommit, Migrating, Boundary
  <1>4. Boundary' = Boundary
    BY <1>2, <1>3 DEF Boundary, CommittedCount
  <1>5. Same(log, log', 2 * Boundary)
    BY <1>1, Counted DEF BoundaryHolds, Same
  <1> QED BY <1>1, <1>4, <1>5, SameCommitted

\* The rename of the head commits one whole decision.
LEMMA ReplaceHeadSeen ==
    ASSUME IInv, IInv', NEW p \in Handle, ReplaceHead(p)
    PROVE  Promise!Commit
  <1>1. head' = BatchHead(p) /\ UNCHANGED <<log, acked>> /\ pc[p] = "replace"
    BY DEF ReplaceHead
  <1> DEFINE d == tail[p].count
             n == Lines(content[p])
             c == content[p]
  <1>2. /\ Continues(c, tail[p]) /\ Landed(p) /\ head # NoHead
        /\ Len(c) = 2 * n /\ n \in Nat /\ n > 0 /\ tail[p].size = 2 * d
        /\ head' # NoHead /\ head'.count = d + n /\ d \in Nat
    BY <1>1, BatchBehindHead, HandleTyped DEF Committing
  <1>3. d = Boundary /\ Boundary' = d + n
    BY <1>1, <1>2, HandleHolds DEF HolderOf, BeforeCommit, Boundary, CommittedCount
  <1>4. BoundaryHolds /\ BoundaryHolds'
    BY Counted, CountedNext
  <1>5. /\ Len(Committed) = d /\ \A k \in 1 .. d : Committed[k] = log[2 * k].rec
    BY <1>3, <1>4, CommittedLines
  <1>6. /\ Len(Committed') = d + n /\ \A k \in 1 .. d + n : Committed'[k] = log[2 * k].rec
        /\ Promise!EndsDecision(Committed')
    BY <1>1, <1>3, <1>4, CommittedLinesNext
  <1>7. ASSUME NEW j \in 1 .. n
        PROVE  /\ log[2 * (d + j)] = c[2 * j] /\ log[2 * (d + n)] = c[2 * n]
               /\ c[2 * j].rec.seq = d + j - 1 /\ c[2 * j].rec.last = c[2 * n].rec.id
    <2>1. \A i \in 1 .. 2 * n : log[2 * d + i] = c[i]
      BY <1>2 DEF Landed
    <2>2. /\ 2 * j \in 1 .. 2 * n /\ 2 * n \in 1 .. 2 * n
          /\ 2 * (d + j) = 2 * d + 2 * j /\ 2 * (d + n) = 2 * d + 2 * n
      BY <1>2
    <2>3. c[2 * j].rec.seq = d + j - 1 /\ c[2 * j].rec.last = c[2 * n].rec.id
      BY <1>2 DEF Continues
    <2> HIDE DEF c, n, d
    <2> QED BY <2>1, <2>2, <2>3
  <1> HIDE DEF c, n, d
  <1>8. ASSUME NEW k \in d + 1 .. d + n
        PROVE  /\ Committed'[k].seq = k - 1
               /\ Committed'[k].last = Committed'[d + n].id
    <2>1. PICK j \in 1 .. n : k = d + j
      <3>1. k - d \in 1 .. n /\ k = d + (k - d)
        BY <1>2
      <3> QED BY <3>1
    <2>2. k \in 1 .. d + n /\ d + n \in 1 .. d + n /\ k - 1 = d + j - 1
      BY <1>2, <2>1
    <2>3. /\ log[2 * k] = c[2 * j] /\ log[2 * (d + n)] = c[2 * n]
          /\ c[2 * j].rec.seq = k - 1 /\ c[2 * j].rec.last = c[2 * n].rec.id
      BY <1>7, <2>1, <2>2
    <2> QED BY <1>6, <2>2, <2>3
  <1>9. \A k \in 1 .. d : Committed'[k] = Committed[k]
    BY <1>2, <1>5, <1>6
  <1>10. d + n > d
    BY <1>2
  <1> QED BY <1>1, <1>5, <1>6, <1>8, <1>9, <1>10 DEF Promise!Commit

\* When append returns, its records are committed already.
LEMMA CommitDoneSeen ==
    ASSUME IInv, IInv', NEW p \in Handle, CommitDone(p)
    PROVE  Promise!Acknowledge
  <1>1. UNCHANGED <<log, head>> /\ acked \subseteq acked'
    BY DEF CommitDone
  <1>2. Committed' = Committed
    BY <1>1, LogKept
  <1>3. AckedCommitted'
    BY AckedHeldNext
  <1>4. \A r \in acked' : Promise!Holds(Committed, r)
    BY <1>2, <1>3 DEF AckedCommitted, Promise!Holds
  <1> QED BY <1>1, <1>2, <1>4 DEF Promise!Acknowledge

\* A power loss takes back whole decisions that nobody was told of, or none.
LEMMA PowerLossSeen ==
    ASSUME IInv, IInv', PowerLoss
    PROVE  Promise!Rollback \/ (Committed' = Committed /\ acked' = acked)
  <1> USE HeadTypes
  <1>1. /\ log' \in Seq(Chunk) /\ acked' = acked /\ head' \in {head, headDur}
        /\ headDur = NoHead => log' = log
        /\ head # NoHead => Same(log, log', 2 * head.count)
    BY SurvivingImage DEF PowerLoss
  <1>2. BoundaryHolds /\ BoundaryHolds'
    BY Counted, CountedNext
  <1>3. Boundary' <= Boundary /\ Same(log, log', 2 * Boundary')
    <2>1. CASE head = NoHead
      <3>1. headDur = NoHead /\ log' = log /\ head' = NoHead
        BY <1>1, <2>1 DEF IInv, DiskInv
      <3> QED BY <1>2, <2>1, <3>1 DEF Boundary, BoundaryHolds, Same
    <2>2. CASE head # NoHead /\ head' = head
      BY <1>1, <1>2, <2>2 DEF Boundary, CommittedCount, BoundaryHolds
    <2>3. CASE head # NoHead /\ head' # head /\ headDur = NoHead
      <3>1. head' = NoHead /\ log' = log /\ head.count = Lines(log)
        BY <1>1, <2>3 DEF IInv, DiskInv
      <3>2. Boundary' = Boundary
        BY <2>3, <3>1 DEF Boundary, CommittedCount
      <3> QED BY <1>2, <3>1, <3>2 DEF BoundaryHolds, Same
    <2>4. CASE head # NoHead /\ head' # head /\ headDur # NoHead
      <3>1. head' = headDur /\ headDur.count <= head.count
        BY <1>1, <2>4 DEF IInv, DiskInv
      <3>2. Boundary' = headDur.count /\ Boundary = head.count
        BY <2>4, <3>1 DEF Boundary, CommittedCount
      <3>3. 2 * headDur.count \in 0 .. 2 * head.count /\ 2 * head.count \in Nat
        BY <2>4, <3>1
      <3>4. Same(log, log', 2 * headDur.count)
        BY <1>1, <2>4, <3>3, SameBasics
      <3> QED BY <3>1, <3>2, <3>4
    <2> QED BY <2>1, <2>2, <2>3, <2>4
  <1>4. /\ Len(Committed) = Boundary /\ Boundary \in Nat
        /\ \A k \in 1 .. Boundary : Committed[k] = log[2 * k].rec
    BY <1>2, CommittedLines
  <1>5. /\ Len(Committed') = Boundary' /\ Boundary' \in Nat
        /\ \A k \in 1 .. Boundary' : Committed'[k] = log'[2 * k].rec
        /\ Promise!EndsDecision(Committed')
    BY <1>2, CommittedLinesNext
  <1>6. CASE Boundary' = Boundary
    <2>1. Same(log, log', 2 * Boundary)
      BY <1>3, <1>6
    <2> QED BY <1>1, <1>6, <2>1, SameCommitted
  <1>7. CASE Boundary' # Boundary
    <2>1. Len(Committed') < Len(Committed)
      BY <1>3, <1>4, <1>5, <1>7
    <2>2. \A k \in 1 .. Len(Committed') : Committed'[k] = Committed[k]
      <3>1. \A k \in 1 .. Boundary' : 2 * k \in 1 .. 2 * Boundary' /\ k \in 1 .. Boundary
        BY <1>3, <1>4, <1>5
      <3> QED BY <1>3, <1>4, <1>5, <3>1 DEF Same
    <2>3. AckedCommitted'
      BY AckedHeldNext
    <2>4. \A r \in acked : Promise!Holds(Committed', r)
      BY <1>1, <2>3 DEF AckedCommitted, Promise!Holds
    <2> QED BY <1>1, <1>5, <2>1, <2>2, <2>4 DEF Promise!Rollback
  <1> QED BY <1>6, <1>7

\* At the start everything in the log counts as acknowledged.
LEMMA StartsPromised ==
    ASSUME Init, IInv PROVE Promise!Init
  <1>1. PICK start \in Starts : Found(start)
    BY DEF Init
  <1>2. BoundaryHolds
    BY Counted
  <1>3. acked = RecordsOf(log)
    BY <1>1 DEF Found
  <1>4. AckedCommitted
    BY AckedHeld
  <1>5. /\ Len(Committed) = Boundary /\ Boundary \in Nat
        /\ \A k \in 1 .. Boundary : Committed[k] = log[2 * k].rec
    BY <1>2, CommittedLines
  <1>6. \A k \in 1 .. Boundary : 2 * k \in DOMAIN log
    BY <1>2 DEF BoundaryHolds
  <1>7. \A k \in 1 .. Boundary : Committed[k] \in acked
    BY <1>3, <1>5, <1>6 DEF RecordsOf
  <1> QED BY <1>4, <1>5, <1>7 DEF AckedCommitted, Promise!Holds, Promise!Init

\* Every step is one of the abstract log's, or none.
LEMMA StepsPromised ==
    ASSUME IInv, IInv', [Next]_vars
    PROVE  [Promise!Next]_<<Committed, acked>>
  <1>1. CASE UNCHANGED vars
    <2>1. UNCHANGED <<log, head, acked>>
      BY <1>1 DEF vars, diskVars
    <2> QED BY <2>1, LogKept
  <1>2. CASE PowerLoss
    BY <1>2, PowerLossSeen DEF Promise!Next
  <1>3. ASSUME NEW p \in Handle, SealHead(p)
        PROVE  [Promise!Next]_<<Committed, acked>>
    BY <1>3, SealHeadSeen
  <1>4. ASSUME NEW p \in Handle, ReplaceHead(p) \/ CommitDone(p)
        PROVE  [Promise!Next]_<<Committed, acked>>
    BY <1>4, ReplaceHeadSeen, CommitDoneSeen DEF Promise!Next
  <1>5. ASSUME NEW p \in Handle, Unseen(p)
        PROVE  [Promise!Next]_<<Committed, acked>>
    BY <1>5, UnseenSteps
  <1> QED BY <1>1, <1>2, <1>3, <1>4, <1>5 DEF Next, Unseen

\* The log implements CommittedLog: what readers may be given grows by whole
\* decisions as append_atomically replaces its head, append returns only what is
\* committed, and only a power loss takes decisions back, none of them returned.
THEOREM PromiseKept ==
    ASSUME "absent" \notin Starts
    PROVE  Spec => KeepsPromise
  <1>1. Init => Promise!Init
    <2>1. Init => IInv
      BY InitHolds, StartAssumption DEF Init
    <2> QED BY <2>1, StartsPromised
  <1>2. IInv /\ IInv' /\ [Next]_vars => [Promise!Next]_<<Committed, acked>>
    BY StepsPromised
  <1> QED BY <1>1, <1>2, Invariance, PTL DEF Spec, KeepsPromise, Promise!Spec

-----------------------------------------------------------------------------
(* No chunk is written twice *)

Differ(c, d) == c.rec.id # d.rec.id \/ c.part # d.part
Old(l) == \A i \in 1 .. Len(l) : l[i].rec.id < nextId
Distinct(l) == \A i, j \in 1 .. Len(l) : i # j => Differ(l[i], l[j])
Apart(l, m) == \A i \in 1 .. Len(l), j \in 1 .. Len(m) : Differ(l[i], m[j])

\* The ids of sealed records are used up, no chunk is twice in the file, and
\* what a stream still buffers is neither in the file nor in another stream.
Fresh ==
    /\ Old(log) /\ Distinct(log) /\ Old(logDur) /\ Distinct(logDur)
    /\ \A p \in Handle : Old(buf[p]) /\ Distinct(buf[p]) /\ Apart(log, buf[p])
    /\ \A p, q \in Handle : p # q => Apart(buf[p], buf[q])

\* One image is a beginning of another.
Begins(l, m) == l \in Seq(Chunk) /\ Same(l, m, Len(l))

\* A beginning of an image holds no other chunks than the image.
LEMMA BeginsKeeps ==
    ASSUME NEW l \in Seq(Chunk), NEW m \in Seq(Chunk), Begins(l, m)
    PROVE  /\ Distinct(m) => Distinct(l)
           /\ Old(m) => Old(l)
           /\ \A b \in Seq(Chunk) : Apart(m, b) => Apart(l, b)
  <1>1. /\ Len(l) \in Nat /\ Len(m) \in Nat /\ Len(l) <= Len(m)
        /\ \A i \in 1 .. Len(l) : i \in 1 .. Len(m) /\ l[i] = m[i]
    BY DEF Begins, Same
  <1> QED BY <1>1 DEF Distinct, Old, Apart

\* Steps that seal nothing, append nothing, and keep or drop each buffer.
LEMMA FreshKept ==
    ASSUME IInv, IInv', Fresh, nextId' = nextId,
           Begins(log', log) \/ (Begins(log', logDur) /\ \A p \in Handle : buf'[p] = << >>),
           Begins(logDur', log) \/ Begins(logDur', logDur),
           \A p \in Handle : buf'[p] \in {buf[p], << >>}
    PROVE  Fresh'
  <1>1. /\ log \in Seq(Chunk) /\ logDur \in Seq(Chunk)
        /\ log' \in Seq(Chunk) /\ logDur' \in Seq(Chunk)
        /\ \A p \in Handle : buf[p] \in Seq(Chunk)
    BY HandleTyped, HeadTypes DEF Begins
  <1>2. /\ \A i \in 1 .. Len(log') : log'[i].rec.id < nextId
        /\ Distinct(log')
    BY <1>1, BeginsKeeps DEF Fresh, Old
  <1>3. /\ \A i \in 1 .. Len(logDur') : logDur'[i].rec.id < nextId
        /\ Distinct(logDur')
    BY <1>1, BeginsKeeps DEF Fresh, Old
  <1>4. ASSUME NEW p \in Handle
        PROVE  /\ \A i \in 1 .. Len(buf'[p]) : buf'[p][i].rec.id < nextId
               /\ Distinct(buf'[p]) /\ Apart(log', buf'[p])
    <2>1. CASE buf'[p] = << >>
      BY <2>1 DEF Distinct, Apart
    <2>2. CASE buf'[p] = buf[p] /\ buf[p] # << >>
      <3>1. Begins(log', log)
        BY <2>2
      <3> QED BY <1>1, <2>2, <3>1, BeginsKeeps DEF Fresh, Old
    <2> QED BY <2>1, <2>2
  <1>5. ASSUME NEW p \in Handle, NEW q \in Handle, p # q
        PROVE  Apart(buf'[p], buf'[q])
    <2>1. CASE buf'[p] = << >> \/ buf'[q] = << >>
      BY <2>1 DEF Apart
    <2>2. CASE buf'[p] = buf[p] /\ buf'[q] = buf[q]
      BY <1>5, <2>2 DEF Fresh
    <2> QED BY <2>1, <2>2
  <1> QED BY <1>2, <1>3, <1>4, <1>5 DEF Fresh, Old, Distinct, Apart

\* What is cut off at a given place begins the file.
LEMMA CutBegins ==
    ASSUME IInv, NEW e \in Nat, Len(log) > e
    PROVE  Begins(SubSeq(log, 1, e), log)
  <1>1. \A i \in 1 .. e : log[i] \in Chunk
    BY HeadTypes
  <1>2. /\ SubSeq(log, 1, e) \in Seq(Chunk) /\ Len(SubSeq(log, 1, e)) = e
        /\ \A i \in 1 .. e : SubSeq(log, 1, e)[i] = log[i]
    BY <1>1, HeadTypes, SubSeqProperties
  <1> QED BY <1>2, HeadTypes DEF Begins, Same

\* Every image begins itself.
LEMMA BeginsItself ==
    ASSUME IInv PROVE Begins(log, log) /\ Begins(logDur, logDur)
  BY HeadTypes DEF Begins, Same

\* A truncation leaves beginnings of what there was.
LEMMA TruncateBegins ==
    ASSUME IInv, NEW e \in Nat, TruncateTo(e)
    PROVE  Begins(log', log) /\ (Begins(logDur', log) \/ Begins(logDur', logDur))
  <1>1. CASE Len(log) > e
    BY <1>1, CutBegins DEF TruncateTo
  <1>2. CASE ~(Len(log) > e)
    BY <1>2, BeginsItself DEF TruncateTo
  <1> QED BY <1>1, <1>2

\* Rereads, successful or not, recovery and forks write no chunk.
LEMMA CutsFresh ==
    ASSUME IInv, IInv', Fresh, NEW p \in Handle,
           \/ AppendBegin(p) \/ BeginRaises(p) \/ ReadBegin(p) \/ Repair(p) \/ RepairRaises(p)
           \/ OpenRecover(p) \/ \E q \in Handle : Fork(p, q)
    PROVE  Fresh'
  <1>1. UNCHANGED <<nextId, buf>>
    BY DEF AppendBegin, BeginRaises, ReadBegin, Repair, RepairRaises, OpenRecover, Fork,
           LeaveWrite, streamVars
  <1>2. TailOnDisk.size \in Nat
    BY BoundaryOnDisk
  <1>3. Begins(log', log) /\ (Begins(logDur', log) \/ Begins(logDur', logDur))
    <2>1. CASE AppendBegin(p) \/ ReadBegin(p) \/ Repair(p)
      <3>1. TruncateTo(TailOnDisk.size)
        BY <2>1 DEF AppendBegin, ReadBegin, Repair, Reread
      <3> QED BY <1>2, <3>1, TruncateBegins
    <2>2. CASE BeginRaises(p) \/ RepairRaises(p)
      <3>1. RereadRaises(p)
        BY <2>2 DEF BeginRaises, RepairRaises
      <3> QED BY <1>2, <3>1, CutBegins, BeginsItself DEF RereadRaises
    <2>3. CASE OpenRecover(p)
      <3>1. CASE HeadHolds(p) /\ PrefixReaches(log, head, NoHead)
        <4>1. TruncateTo(2 * head.count) /\ 2 * head.count \in Nat
          BY <2>3, <3>1, HeadTypes DEF OpenRecover, HeadHolds
        <4> QED BY <4>1, TruncateBegins
      <3>2. CASE ~(HeadHolds(p) /\ PrefixReaches(log, head, NoHead))
        BY <2>3, <3>2, BeginsItself DEF OpenRecover
      <3> QED BY <3>1, <3>2
    <2>4. ASSUME NEW q \in Handle, Fork(p, q)
          PROVE  Begins(log', log) /\ (Begins(logDur', log) \/ Begins(logDur', logDur))
      <3>1. CASE Bound
        <4>1. CanRefresh(p) /\ TruncateTo(TrustedEnd(p))
          BY <2>4, <3>1 DEF Fork
        <4>2. head # NoHead /\ tail[p].count <= head.count
          BY <4>1 DEF CanRefresh, HeadHolds
        <4>3. TrustedEnd(p) \in Nat
          BY <4>2, HandleTyped, HeadTypes DEF TrustedEnd
        <4> QED BY <4>1, <4>3, TruncateBegins
      <3>2. CASE ~Bound
        <4>1. TruncateTo(TailOnDisk.size)
          BY <2>4, <3>2 DEF Fork
        <4> QED BY <1>2, <4>1, TruncateBegins
      <3> QED BY <3>1, <3>2
    <2> QED BY <2>1, <2>2, <2>3, <2>4
  <1> QED BY <1>1, <1>3, FreshKept

\* The steps that touch neither the file nor a buffer but to drop it.
LEMMA QuietFresh ==
    ASSUME IInv, IInv', Fresh, NEW p \in Handle,
           \/ DecideNothing(p) \/ SealHead(p) \/ SealDir(p)
           \/ UpgradeHeader(p) \/ UpgradeSync(p) \/ MigrateRaises(p) \/ FsyncLog(p)
           \/ CheckSize(p) \/ ReplaceHead(p) \/ CommitDone(p)
           \/ WriteRaises(p) \/ CloseStream(p) \/ ReadEnd(p) \/ Suffix(p)
           \/ SuffixRaises(p) \/ ForkRaises(p) \/ OpenHeader(p) \/ OpenHead(p) \/ OpenTail(p)
           \/ OpenScan(p) \/ OpenCheck(p) \/ Close(p) \/ Kill(p)
    PROVE  Fresh'
  <1>1. log' = log /\ nextId' = nextId /\ logDur' \in {log, logDur}
    BY DEF DecideNothing, SealHead, SealDir, UpgradeHeader, UpgradeSync, MigrateRaises, FsyncLog,
         CheckSize, ReplaceHead, CommitDone, WriteRaises, CloseStream, ReadEnd, Suffix,
         SuffixRaises, ForkRaises, OpenHeader, OpenHead, OpenTail, OpenScan, OpenCheck, Close,
         Kill, diskVars
  <1>2. buf' = buf \/ buf' = [buf EXCEPT ![p] = << >>]
    BY DEF DecideNothing, SealHead, SealDir, UpgradeHeader, UpgradeSync, MigrateRaises, FsyncLog,
         CheckSize, ReplaceHead, CommitDone, WriteRaises, CloseStream, ReadEnd, Suffix,
         SuffixRaises, ForkRaises, OpenHeader, OpenHead, OpenTail, OpenScan, OpenCheck, Close,
         Kill, Forget, streamVars
  <1>3. \A q \in Handle : buf'[q] \in {buf[q], << >>}
    BY <1>2 DEF IInv, TypeOK, HandleTypes
  <1> QED BY <1>1, <1>3, BeginsItself, FreshKept

\* A batch is sealed under ids of its own, each on a body and on an end.
LEMMA PrepareFresh ==
    ASSUME NEW n \in Nat, NEW count \in Nat, NEW last \in Nat, NEW first \in Nat \ {0}
    PROVE  LET b == Prepare(n, count, last, first)
           IN  /\ Len(b) = 2 * n /\ Distinct(b)
               /\ \A i \in 1 .. 2 * n : b[i].rec.id >= first /\ b[i].rec.id < first + n
  <1> DEFINE b == Prepare(n, count, last, first)
             J == [i \in 1 .. 2 * n |-> (i + 1) \div 2]
             P == [i \in 1 .. 2 * n |-> IF i % 2 = 0 THEN "end" ELSE "body"]
  <1>1. \A i \in 1 .. 2 * n : J[i] \in 1 .. n /\ P[i] \in {"body", "end"}
    OBVIOUS
  <1>2. \A i, j \in 1 .. 2 * n : i # j => J[i] # J[j] \/ P[i] # P[j]
    <2> SUFFICES ASSUME NEW i \in 1 .. 2 * n, NEW j \in 1 .. 2 * n, J[i] = J[j], P[i] = P[j]
                 PROVE  i = j
      OBVIOUS
    <2>1. (i + 1) \div 2 = (j + 1) \div 2
      OBVIOUS
    <2>2. i % 2 = 0 <=> j % 2 = 0
      OBVIOUS
    <2> QED BY <2>1, <2>2
  <1>3. \A i \in 1 .. 2 * n : b[i].rec.id = first + J[i] - 1 /\ b[i].part = P[i]
    BY <1>1 DEF Prepare
  <1>4. Len(b) = 2 * n
    BY DEF Prepare
  <1> HIDE DEF b, J, P
  <1>5. \A i \in 1 .. 2 * n : b[i].rec.id >= first /\ b[i].rec.id < first + n
    BY <1>1, <1>3
  <1>6. Distinct(b)
    <2> SUFFICES ASSUME NEW i \in 1 .. 2 * n, NEW j \in 1 .. 2 * n, i # j
                 PROVE  Differ(b[i], b[j])
      BY <1>4 DEF Distinct
    <2>1. J[i] \in Nat /\ J[j] \in Nat
      BY <1>1
    <2>2. J[i] # J[j] => b[i].rec.id # b[j].rec.id
      BY <1>3, <2>1
    <2> QED BY <1>2, <1>3, <2>2 DEF Differ
  <1> QED BY <1>4, <1>5, <1>6 DEF b

\* Chunks sealed earlier and chunks sealed now are apart.
LEMMA OldApart ==
    ASSUME NEW l \in Seq(Chunk), NEW b \in Seq(Chunk), nextId \in Nat, Old(l),
           \A i \in 1 .. Len(b) : b[i].rec.id >= nextId
    PROVE  Apart(l, b) /\ Apart(b, l)
  <1> SUFFICES ASSUME NEW i \in 1 .. Len(l), NEW j \in 1 .. Len(b)
               PROVE  l[i].rec.id # b[j].rec.id
    BY DEF Apart, Differ
  <1>1. l[i] \in Chunk /\ b[j] \in Chunk
    OBVIOUS
  <1>2. l[i].rec.id \in Nat /\ b[j].rec.id \in Nat
    BY <1>1 DEF Chunk, Record
  <1>3. l[i].rec.id < nextId /\ b[j].rec.id >= nextId
    BY DEF Old
  <1> QED BY <1>2, <1>3

\* Sealing a batch uses up new ids.
LEMMA DecideFresh ==
    ASSUME IInv, Fresh, NEW p \in Handle, NEW n \in 1 .. MaxBatch, Decide(p, n)
    PROVE  Fresh'
  <1> DEFINE b == Prepare(n, tail[p].count, tail[p].hash, nextId)
  <1>1. n \in Nat /\ nextId \in Nat \ {0} /\ UNCHANGED <<log, logDur>> /\ nextId' = nextId + n
    BY BoundsAssumption DEF IInv, TypeOK, DiskTypes, Decide, diskVars
  <1>2. buf'[p] = b /\ \A q \in Handle : q # p => buf'[q] = buf[q]
    BY DEF Decide, IInv, TypeOK, HandleTypes
  <1>3. b \in Seq(Chunk)
    BY <1>1, HandleTyped, PrepareContinues
  <1>4. /\ Len(b) = 2 * n /\ Distinct(b)
        /\ \A i \in 1 .. 2 * n : b[i].rec.id >= nextId /\ b[i].rec.id < nextId + n
    BY <1>1, HandleTyped, PrepareFresh
  <1> HIDE DEF b
  <1>5. ASSUME NEW l \in Seq(Chunk), Old(l)
        PROVE  /\ Apart(l, b) /\ Apart(b, l)
               /\ \A i \in 1 .. Len(l) : l[i].rec.id < nextId + n
    <2>1. Apart(l, b) /\ Apart(b, l)
      BY <1>1, <1>3, <1>4, <1>5, OldApart
    <2>2. ASSUME NEW i \in 1 .. Len(l)
          PROVE  l[i].rec.id < nextId + n
      <3>1. l[i] \in Chunk
        OBVIOUS
      <3>2. l[i].rec.id \in Nat
        BY <3>1 DEF Chunk, Record
      <3>3. l[i].rec.id < nextId
        BY <1>5 DEF Old
      <3> QED BY <1>1, <3>2, <3>3
    <2> QED BY <2>1, <2>2
  <1>6. /\ log \in Seq(Chunk) /\ logDur \in Seq(Chunk)
        /\ \A q \in Handle : buf[q] \in Seq(Chunk)
    BY HandleTyped, HeadTypes
  <1>7. /\ \A i \in 1 .. Len(log) : log[i].rec.id < nextId + n
        /\ \A i \in 1 .. Len(logDur) : logDur[i].rec.id < nextId + n
    BY <1>5, <1>6 DEF Fresh
  <1>8. ASSUME NEW q \in Handle
        PROVE  /\ \A i \in 1 .. Len(buf'[q]) : buf'[q][i].rec.id < nextId + n
               /\ Distinct(buf'[q]) /\ Apart(log, buf'[q])
    <2>1. CASE q = p
      BY <1>2, <1>4, <1>5, <1>6, <2>1 DEF Fresh
    <2>2. CASE q # p
      BY <1>2, <1>5, <1>6, <2>2 DEF Fresh
    <2> QED BY <2>1, <2>2
  <1>9. ASSUME NEW q \in Handle, NEW r \in Handle, q # r
        PROVE  Apart(buf'[q], buf'[r])
    <2>1. CASE q = p
      BY <1>2, <1>5, <1>6, <1>9, <2>1 DEF Fresh
    <2>2. CASE r = p
      BY <1>2, <1>5, <1>6, <1>9, <2>2 DEF Fresh
    <2>3. CASE q # p /\ r # p
      BY <1>2, <1>9, <2>3 DEF Fresh
    <2> QED BY <2>1, <2>2, <2>3
  <1> QED BY <1>1, <1>7, <1>8, <1>9 DEF Fresh, Old, Distinct, Apart

\* A chunk that goes from a buffer to the file leaves the buffer.
LEMMA FlushFresh ==
    ASSUME IInv, Fresh, NEW p \in Handle, WriteChunk(p) \/ LateFlush(p)
    PROVE  Fresh'
  <1> DEFINE c == buf[p][1]
  <1>1. /\ log' = Append(log, c) /\ logDur' = logDur /\ nextId' = nextId
        /\ buf' = [buf EXCEPT ![p] = Tail(buf[p])] /\ pc[p] \in {"write", "closing"}
    BY DEF WriteChunk, LateFlush
  <1>2. Len(buf[p]) > 0 /\ Len(buf[p]) \in Nat
    BY FlushHasMore, HandleTyped
  <1>3. /\ c \in Chunk /\ Tail(buf[p]) \in Seq(Chunk) /\ Len(Tail(buf[p])) = Len(buf[p]) - 1
        /\ \A i \in 1 .. Len(buf[p]) - 1 : Tail(buf[p])[i] = buf[p][i + 1]
    BY <1>2, BufferSplits
  <1>4. /\ Len(log') = Len(log) + 1 /\ \A i \in 1 .. Len(log) : log'[i] = log[i]
        /\ log'[Len(log) + 1] = c /\ Len(log) \in Nat
    BY <1>1, <1>3, HeadTypes, AppendProperties
  <1>5. buf'[p] = Tail(buf[p]) /\ \A q \in Handle : q # p => buf'[q] = buf[q]
    BY <1>1 DEF IInv, TypeOK, HandleTypes
  <1>6. /\ \A i \in 1 .. Len(log) : Differ(log[i], c) /\ Differ(c, log[i])
        /\ c.rec.id < nextId
        /\ \A q \in Handle : q # p =>
              \A i \in 1 .. Len(buf[q]) : Differ(c, buf[q][i])
        /\ \A i \in 1 .. Len(buf[p]) - 1 : Differ(c, buf[p][i + 1])
    <2>1. 1 \in 1 .. Len(buf[p])
      BY <1>2
    <2>2. \A i \in 1 .. Len(log) : Differ(log[i], c) /\ Differ(c, log[i])
      BY <2>1 DEF Fresh, Apart, Differ
    <2>3. c.rec.id < nextId
      BY <2>1 DEF Fresh, Old
    <2>4. \A q \in Handle : q # p => \A i \in 1 .. Len(buf[q]) : Differ(c, buf[q][i])
      BY <2>1 DEF Fresh, Apart
    <2>5. \A i \in 1 .. Len(buf[p]) - 1 : i + 1 \in 1 .. Len(buf[p]) /\ i + 1 # 1
      BY <1>2
    <2>6. \A i \in 1 .. Len(buf[p]) - 1 : Differ(c, buf[p][i + 1])
      BY <2>1, <2>5 DEF Fresh, Distinct
    <2> QED BY <2>2, <2>3, <2>4, <2>6
  <1> HIDE DEF c
  <1>7. \A i \in 1 .. Len(log') : i \in 1 .. Len(log) \/ i = Len(log) + 1
    BY <1>4
  <1>8. Old(log)' /\ Distinct(log')
    <2>1. \A i \in 1 .. Len(log') : log'[i].rec.id < nextId
      BY <1>4, <1>6, <1>7 DEF Fresh, Old
    <2>2. \A i, j \in 1 .. Len(log') : i # j => Differ(log'[i], log'[j])
      BY <1>4, <1>6, <1>7 DEF Fresh, Distinct
    <2> QED BY <1>1, <2>1, <2>2 DEF Old, Distinct
  <1>9. ASSUME NEW q \in Handle
        PROVE  /\ \A i \in 1 .. Len(buf'[q]) : buf'[q][i].rec.id < nextId
               /\ Distinct(buf'[q]) /\ Apart(log', buf'[q])
               /\ \A i \in 1 .. Len(buf'[q]) : \E j \in 1 .. Len(buf[q]) : buf'[q][i] = buf[q][j]
    <2>1. CASE q = p
      <3>1. \A i \in 1 .. Len(buf'[p]) : i + 1 \in 1 .. Len(buf[p]) /\ buf'[p][i] = buf[p][i + 1]
        BY <1>2, <1>3, <1>5
      <3>2. Distinct(buf'[p])
        <4>1. \A i, j \in 1 .. Len(buf'[p]) : i # j => i + 1 # j + 1
          OBVIOUS
        <4> QED BY <3>1, <4>1 DEF Fresh, Distinct
      <3>3. \A i \in 1 .. Len(buf'[p]) : buf'[p][i].rec.id < nextId /\ Differ(c, buf'[p][i])
        BY <1>2, <1>3, <1>5, <1>6, <3>1 DEF Fresh, Old
      <3>4. \A i \in 1 .. Len(log), j \in 1 .. Len(buf'[p]) : Differ(log[i], buf'[p][j])
        BY <3>1 DEF Fresh, Apart
      <3>5. Apart(log', buf'[p])
        BY <1>4, <1>7, <3>3, <3>4 DEF Apart
      <3> QED BY <2>1, <3>1, <3>2, <3>3, <3>5
    <2>2. CASE q # p
      <3>1. buf'[q] = buf[q]
        BY <1>5, <2>2
      <3>2. Apart(log', buf'[q])
        BY <1>4, <1>6, <1>7, <2>2, <3>1 DEF Fresh, Apart
      <3> QED BY <3>1, <3>2 DEF Fresh, Old
    <2> QED BY <2>1, <2>2
  <1>10. ASSUME NEW q \in Handle, NEW r \in Handle, q # r
         PROVE  Apart(buf'[q], buf'[r])
    <2>1. Apart(buf[q], buf[r])
      BY <1>10 DEF Fresh
    <2> QED BY <1>9, <2>1 DEF Apart
  <1> QED BY <1>1, <1>8, <1>9, <1>10 DEF Fresh, Old, Distinct, Apart

\* A power loss leaves a beginning of one of the two images, and no stream.
LEMMA PowerLossFresh ==
    ASSUME IInv, IInv', Fresh, PowerLoss
    PROVE  Fresh'
  <1>1. nextId' = nextId /\ logDur' = log' /\ \A p \in Handle : buf'[p] = << >>
    BY DEF PowerLoss
  <1>2. CASE log' = logDur
    BY <1>1, <1>2, BeginsItself, FreshKept
  <1>3. CASE \E m \in 0 .. Len(log) : MayLose(m) /\ log' = SubSeq(log, 1, m)
    <2>1. PICK m \in 0 .. Len(log) : log' = SubSeq(log, 1, m)
      BY <1>3
    <2>2. \A i \in 1 .. m : log[i] \in Chunk
      BY HeadTypes
    <2>3. log' \in Seq(Chunk) /\ Len(log') = m /\ \A i \in 1 .. m : log'[i] = log[i]
      BY <2>1, <2>2, HeadTypes, SubSeqProperties
    <2>4. Begins(log', log)
      BY <2>3, HeadTypes DEF Begins, Same
    <2> QED BY <1>1, <2>4, FreshKept
  <1> QED BY <1>2, <1>3 DEF PowerLoss

\* The log found at the start was sealed once, and nothing is buffered.
LEMMA StartsFresh ==
    ASSUME "absent" \notin Starts, Init
    PROVE  Fresh
  <1>1. PICK start \in {"legacy", "bound"} : Found(start)
    BY StartAssumption DEF Init
  <1>2. \A p \in Handle : buf[p] = << >>
    BY <1>1 DEF Found
  <1>3. Old(log) /\ Distinct(log)
    <2>1. CASE start = "legacy"
      <3>1. log = Prepare(LegacyCount, 0, Genesis, 1) /\ nextId = 1 + LegacyCount
        BY <1>1, <2>1 DEF Found, LegacyLog
      <3>2. /\ Len(log) = 2 * LegacyCount /\ Distinct(log)
            /\ \A i \in 1 .. 2 * LegacyCount : log[i].rec.id < 1 + LegacyCount
        <4>1. LegacyCount \in Nat /\ 0 \in Nat /\ Genesis \in Nat /\ 1 \in Nat \ {0}
          BY BoundsAssumption DEF Genesis
        <4> QED BY ONLY <3>1, <4>1, PrepareFresh
      <3> QED BY <3>1, <3>2 DEF Old
    <2>2. CASE start = "bound"
      <3>1. log = << >>
        BY <1>1, <2>2 DEF Found
      <3> QED BY <3>1 DEF Old, Distinct
    <2> QED BY <2>1, <2>2
  <1>4. logDur = log
    BY <1>1 DEF Found
  <1> QED BY <1>2, <1>3, <1>4 DEF Fresh, Old, Distinct, Apart

\* Every step keeps the chunks apart.
LEMMA NextFresh ==
    ASSUME IInv, IInv', Fresh, [Next]_vars
    PROVE  Fresh'
  <1>1. CASE UNCHANGED vars
    <2>1. UNCHANGED <<log, logDur, buf, nextId>>
      BY <1>1 DEF vars, diskVars, streamVars
    <2> QED BY <2>1 DEF Fresh, Old, Distinct, Apart
  <1>2. CASE PowerLoss
    BY <1>2, PowerLossFresh
  <1>3. ASSUME NEW p \in Handle, AppendStep(p)
        PROVE  Fresh'
    BY <1>3, CutsFresh, QuietFresh, DecideFresh, FlushFresh DEF AppendStep
  <1>4. ASSUME NEW p \in Handle, ReadStep(p)
        PROVE  Fresh'
    BY <1>4, CutsFresh, QuietFresh DEF ReadStep
  <1>5. ASSUME NEW p \in Handle, OpenStep(p)
        PROVE  Fresh'
    BY <1>5, CutsFresh, QuietFresh, NoCreation DEF OpenStep
  <1>6. ASSUME NEW p \in Handle, Close(p) \/ Kill(p)
        PROVE  Fresh'
    BY <1>6, QuietFresh
  <1> QED BY <1>1, <1>2, <1>3, <1>4, <1>5, <1>6 DEF Next

-----------------------------------------------------------------------------
(* What readers assemble *)

\* The entries of one reader are the records of the first lines.
ViewHolds(v, l, c) == Len(v) <= c /\ \A k \in 1 .. Len(v) : v[k] = HashAt(l, k)

\* A longer committed log with the same beginning holds the same entries.
LEMMA ViewKept ==
    ASSUME NEW v \in Seq(Nat), NEW l \in Seq(Chunk), NEW m \in Seq(Chunk),
           NEW c \in Nat, NEW d \in Nat, ViewHolds(v, l, c), Same(l, m, 2 * c), c <= d
    PROVE  ViewHolds(v, m, d)
  <1>1. \A k \in 0 .. c : HashAt(l, k) = HashAt(m, k)
    BY SameLines
  <1> QED BY <1>1 DEF ViewHolds

\* A step that keeps the committed lines and no reader's view but to drop it.
LEMMA ViewsKept ==
    ASSUME IInv, IInv', ViewCommitted, Boundary <= Boundary', Same(log, log', 2 * Boundary),
           \A p \in Handle : view'[p] \in {view[p], << >>}
    PROVE  ViewCommitted'
  <1>1. BoundaryHolds /\ BoundaryHolds'
    BY Counted, CountedNext
  <1>2. ASSUME NEW p \in Handle
        PROVE  ViewHolds(view'[p], log', Boundary')
    <2>1. CASE view'[p] = << >>
      BY <1>1, <2>1 DEF ViewHolds, BoundaryHolds
    <2>2. CASE view'[p] = view[p]
      <3>1. ViewHolds(view[p], log, Boundary) /\ view[p] \in Seq(Nat)
        BY DEF ViewCommitted, ViewHolds, Boundary, IInv, TypeOK, HandleTypes
      <3> QED BY <1>1, <2>2, <3>1, ViewKept DEF BoundaryHolds
    <2> QED BY <2>1, <2>2
  <1> QED BY <1>2 DEF ViewCommitted, ViewHolds, Boundary

\* A locked read replays the lines of the tail it reread.
LEMMA ReadEndView ==
    ASSUME IInv, ViewCommitted, NEW p \in Handle, ReadEnd(p)
    PROVE  ViewCommitted'
  <1>1. /\ UNCHANGED <<log, head>> /\ pc[p] = "read"
        /\ view'[p] = [k \in 1 .. tail[p].count |-> HashAt(log, k)]
        /\ \A q \in Handle : q # p => view'[q] = view[q]
    BY DEF ReadEnd, diskVars, IInv, TypeOK, HandleTypes
  <1>2. tail[p].count = CommittedCount(log, head) /\ tail[p].count \in Nat
    BY <1>1, HandleHolds, HandleTyped DEF HolderOf, BeforeCommit
  <1>3. /\ Len(view'[p]) = tail[p].count
        /\ \A k \in 1 .. tail[p].count : view'[p][k] = HashAt(log, k)
    BY <1>1, <1>2
  <1>4. ASSUME NEW q \in Handle
        PROVE  /\ Len(view'[q]) <= CommittedCount(log, head)
               /\ \A k \in 1 .. Len(view'[q]) : view'[q][k] = HashAt(log, k)
    <2>1. CASE q = p
      BY <1>2, <1>3, <2>1
    <2>2. CASE q # p
      BY <1>1, <2>2 DEF ViewCommitted
    <2> QED BY <2>1, <2>2
  <1> QED BY <1>1, <1>4 DEF ViewCommitted, CommittedCount, Lines, HashAt

\* A suffix that ends in the head's record starts where the reader's entries
\* end, because no chunk is twice in the file: a cursor minted over late bytes
\* is refused or reads nothing.
LEMMA SuffixAligned ==
    ASSUME IInv, Fresh, NEW p \in Handle, Suffix(p), Len(view[p]) < head.count
    PROVE  viewEnd[p] = 2 * Len(view[p])
  <1> DEFINE n == head.count - Len(view[p])
  <1>1. /\ head # NoHead /\ head.count \in Nat /\ Len(view[p]) \in Nat /\ viewEnd[p] \in Nat
        /\ log \in Seq(Chunk) /\ Len(log) \in Nat
    BY HeadTypes DEF Suffix, SuffixPossible, HeadHolds, IInv, TypeOK, HandleTypes
  <1>2. n \in 1 .. n /\ n # 0
    BY <1>1
  <1>3. /\ viewEnd[p] + 2 * n <= Len(log)
        /\ log[viewEnd[p] + 2 * n].part = "end"
        /\ log[viewEnd[p] + 2 * n].rec.id = head.hash
    <2>1. SuffixReaches(log, Cursor(p), viewEnd[p], head) /\ Cursor(p).count = Len(view[p])
      BY DEF Suffix, Cursor
    <2> HIDE DEF Cursor
    <2> QED BY <1>2, <2>1 DEF SuffixReaches
  <1>4. /\ Chained(log, head.count) /\ HashAt(log, head.count) = head.hash
        /\ head.count \in 1 .. head.count /\ head.count # 0
    BY <1>1 DEF IInv, DiskInv
  <1>5. /\ 2 * head.count <= Len(log) /\ log[2 * head.count].part = "end"
        /\ log[2 * head.count].rec.id = head.hash
    BY <1>4 DEF Chained, WholeLine, HashAt
  <1>6. viewEnd[p] + 2 * n \in 1 .. Len(log) /\ 2 * head.count \in 1 .. Len(log)
    BY <1>1, <1>2, <1>3, <1>4, <1>5
  <1>7. viewEnd[p] + 2 * n = 2 * head.count
    BY <1>3, <1>5, <1>6 DEF Fresh, Distinct, Differ
  <1> QED BY <1>1, <1>7

\* So what it appends to the reader's entries is what follows them.
LEMMA SuffixView ==
    ASSUME IInv, Fresh, ViewCommitted, NEW p \in Handle, Suffix(p)
    PROVE  ViewCommitted'
  <1> DEFINE n == head.count - Len(view[p])
             more == [k \in 1 .. n |-> log[viewEnd[p] + 2 * k].rec.id]
             v == view[p]
  <1>1. /\ head # NoHead /\ head.count \in Nat /\ Len(v) \in Nat /\ viewEnd[p] \in Nat
        /\ log \in Seq(Chunk) /\ v \in Seq(Nat)
    BY HeadTypes DEF Suffix, SuffixPossible, HeadHolds, IInv, TypeOK, HandleTypes
  <1>2. /\ UNCHANGED <<log, head>> /\ view'[p] = v \o more
        /\ \A q \in Handle : q # p => view'[q] = view[q]
    BY DEF Suffix, Cursor, diskVars, IInv, TypeOK, HandleTypes
  <1>3. Len(v) <= head.count /\ \A k \in 1 .. Len(v) : v[k] = HashAt(log, k)
    BY <1>1 DEF ViewCommitted, CommittedCount
  <1>4. /\ n \in Nat /\ Len(v) + n = head.count
        /\ n > 0 => viewEnd[p] = 2 * Len(v)
    <2>1. n \in Nat /\ Len(v) + n = head.count
      BY <1>1, <1>3
    <2> HIDE DEF n, v, more
    <2>2. n > 0 => Len(v) < head.count
      BY <1>1, <2>1
    <2>3. Len(v) < head.count => viewEnd[p] = 2 * Len(v)
      BY SuffixAligned DEF v
    <2> QED BY <2>1, <2>2, <2>3
  <1> HIDE DEF n, v
  <1>5. ASSUME NEW j \in 1 .. n
        PROVE  more[j] = HashAt(log, Len(v) + j) /\ more[j] \in Nat
    <2>1. /\ viewEnd[p] + 2 * j = 2 * (Len(v) + j) /\ Len(v) + j # 0 /\ Len(v) + j \in Nat
          /\ Len(v) + j <= head.count
      BY <1>1, <1>4
    <2>2. more[j] = log[viewEnd[p] + 2 * j].rec.id
      OBVIOUS
    <2> HIDE DEF more
    <2>3. more[j] = HashAt(log, Len(v) + j)
      BY <2>1, <2>2 DEF HashAt
    <2>4. 2 * head.count <= Len(log)
      BY <1>1 DEF IInv, DiskInv, Same
    <2>5. 2 * (Len(v) + j) <= Len(log)
      BY <1>1, <2>1, <2>4
    <2> QED BY <1>1, <2>1, <2>3, <2>5, HashAtType
  <1>6. more \in Seq(Nat) /\ Len(more) = n
    BY <1>4, <1>5
  <1> HIDE DEF more
  <1>7. /\ Len(v \o more) = head.count
        /\ \A k \in 1 .. head.count :
              (v \o more)[k] = IF k <= Len(v) THEN v[k] ELSE more[k - Len(v)]
    BY <1>1, <1>4, <1>6, ConcatProperties
  <1>8. ASSUME NEW k \in 1 .. head.count
        PROVE  (v \o more)[k] = HashAt(log, k)
    <2>1. CASE k <= Len(v)
      BY <1>1, <1>3, <1>7, <2>1
    <2>2. CASE ~(k <= Len(v))
      <3>1. k - Len(v) \in 1 .. n /\ Len(v) + (k - Len(v)) = k
        BY <1>1, <1>4, <2>2
      <3>2. (v \o more)[k] = more[k - Len(v)]
        BY <1>7, <2>2
      <3> QED BY <1>5, <3>1, <3>2
    <2> QED BY <2>1, <2>2
  <1>9. ASSUME NEW q \in Handle
        PROVE  /\ Len(view'[q]) <= CommittedCount(log, head)
               /\ \A k \in 1 .. Len(view'[q]) : view'[q][k] = HashAt(log, k)
    <2>1. CASE q = p
      <3>1. Len(view'[q]) = head.count /\ CommittedCount(log, head) = head.count
        BY <1>1, <1>2, <1>7, <2>1 DEF CommittedCount
      <3>2. \A k \in 1 .. head.count : view'[q][k] = HashAt(log, k)
        BY <1>2, <1>8, <2>1
      <3> QED BY <1>1, <3>1, <3>2
    <2>2. CASE q # p
      BY <1>2, <2>2 DEF ViewCommitted
    <2> QED BY <2>1, <2>2
  <1> QED BY <1>2, <1>9 DEF ViewCommitted, CommittedCount, Lines, HashAt

\* Until the power goes, the commit boundary never moves back over a line.
LEMMA BoundaryGrows ==
    ASSUME IInv, IInv', NEW p \in Handle,
           AppendStep(p) \/ ReadStep(p) \/ OpenStep(p) \/ Close(p) \/ Kill(p)
    PROVE  Boundary <= Boundary' /\ Same(log, log', 2 * Boundary)
  <1>1. BoundaryHolds /\ BoundaryHolds'
    BY Counted, CountedNext
  <1>2. ASSUME UNCHANGED log
        PROVE  Same(log, log', 2 * Boundary)
    BY <1>1, <1>2 DEF BoundaryHolds, Same
  <1>3. ASSUME UNCHANGED <<log, head>>
        PROVE  Boundary' = Boundary
    BY <1>3 DEF Boundary
  <1>4. Boundary \in Nat /\ Boundary' \in Nat
    BY <1>1 DEF BoundaryHolds
  <1>5. CASE \/ AppendBegin(p) \/ BeginRaises(p) \/ ReadBegin(p) \/ Repair(p) \/ RepairRaises(p)
             \/ WriteChunk(p) \/ LateFlush(p) \/ OpenRecover(p) \/ \E q \in Handle : Fork(p, q)
    <2>1. KeepsCommitted /\ head' = head
      BY <1>5, CutsAndFlushes
    <2>2. CASE head = NoHead
      <3>1. log' = log
        BY <2>1, <2>2 DEF IInv, DiskInv, KeepsCommitted
      <3> QED BY <1>2, <1>3, <1>4, <2>1, <3>1
    <2>3. CASE head # NoHead
      BY <1>4, <2>1, <2>3 DEF Boundary, CommittedCount, KeepsCommitted
    <2> QED BY <2>2, <2>3
  <1>6. CASE SealHead(p)
    <2>1. head' = TailHead(p) /\ UNCHANGED log /\ pc[p] = "seal"
      BY <1>6 DEF SealHead
    <2>2. head' # NoHead /\ head'.count = tail[p].count
      BY <2>1, HandleTyped, HeadFromTail DEF TailHead
    <2>3. tail[p].count = Boundary
      BY <2>1, HandleHolds DEF HolderOf, BeforeCommit, Migrating, Boundary
    <2> QED BY <1>2, <1>4, <2>1, <2>2, <2>3 DEF Boundary, CommittedCount
  <1>7. CASE ReplaceHead(p)
    <2>1. head' = BatchHead(p) /\ UNCHANGED log /\ pc[p] = "replace"
      BY <1>7 DEF ReplaceHead
    <2>2. /\ head' # NoHead /\ head'.count = tail[p].count + Lines(content[p])
          /\ tail[p].count \in Nat /\ Lines(content[p]) \in Nat
      BY <2>1, BatchBehindHead, HandleTyped DEF Committing
    <2>3. tail[p].count = Boundary
      BY <2>1, HandleHolds DEF HolderOf, BeforeCommit, Boundary
    <2>4. Boundary' = tail[p].count + Lines(content[p])
      BY <2>2 DEF Boundary, CommittedCount
    <2> QED BY <1>2, <2>1, <2>2, <2>3, <2>4
  <1>8. CASE CommitDone(p)
    BY <1>2, <1>3, <1>4, <1>8 DEF CommitDone
  <1>9. CASE \/ DecideNothing(p) \/ (\E n \in 1 .. MaxBatch : Decide(p, n)) \/ SealDir(p)
             \/ UpgradeHeader(p) \/ UpgradeSync(p) \/ MigrateRaises(p) \/ FsyncLog(p)
             \/ CheckSize(p) \/ WriteRaises(p) \/ CloseStream(p) \/ ReadEnd(p) \/ Suffix(p)
             \/ SuffixRaises(p) \/ ForkRaises(p) \/ OpenHeader(p) \/ OpenHead(p) \/ OpenTail(p)
             \/ OpenScan(p) \/ OpenCheck(p) \/ Close(p) \/ Kill(p)
    <2>1. UNCHANGED <<log, head>>
      BY <1>9, FileKept
    <2> QED BY <1>2, <1>3, <1>4, <2>1
  <1> QED BY <1>5, <1>6, <1>7, <1>8, <1>9, NoCreation DEF AppendStep, ReadStep, OpenStep

\* All but the two reading steps keep or drop each view.
LEMMA ViewsLeft ==
    ASSUME IInv, NEW p \in Handle,
           AppendStep(p) \/ ReadStep(p) \/ OpenStep(p) \/ Close(p) \/ Kill(p),
           ~ReadEnd(p), ~Suffix(p)
    PROVE  \A q \in Handle : view'[q] \in {view[q], << >>}
  <1>1. view' = view \/ view' = [view EXCEPT ![p] = << >>]
    <2>1. CASE AppendStep(p)
      BY <2>1 DEF AppendStep, AppendBegin, BeginRaises, DecideNothing, Decide, SealHead, SealDir,
                  UpgradeHeader, UpgradeSync, MigrateRaises, WriteChunk, FsyncLog, CheckSize,
                  ReplaceHead, CommitDone, WriteRaises, Repair, RepairRaises, LateFlush,
                  CloseStream, LeaveWrite, readVars
    <2>2. CASE ReadStep(p)
      BY <2>2 DEF ReadStep, ReadBegin, SuffixRaises, ForkRaises, Fork, readVars
    <2>3. CASE OpenStep(p)
      BY <2>3, NoCreation DEF OpenStep, OpenHeader, OpenHead, OpenTail, OpenRecover, OpenScan,
                              OpenCheck, readVars
    <2>4. CASE Close(p) \/ Kill(p)
      BY <2>4 DEF Close, Kill, Forget
    <2> QED BY <2>1, <2>2, <2>3, <2>4
  <1> QED BY <1>1 DEF IInv, TypeOK, HandleTypes

\* Every step keeps what readers hold inside the committed log.
LEMMA NextViews ==
    ASSUME IInv, IInv', Fresh, ViewCommitted, [Next]_vars
    PROVE  ViewCommitted'
  <1>1. CASE UNCHANGED vars
    <2>1. UNCHANGED <<log, head, view>>
      BY <1>1 DEF vars, diskVars, readVars
    <2> QED BY <2>1 DEF ViewCommitted, CommittedCount, Lines, HashAt
  <1>2. CASE PowerLoss
    <2>1. \A p \in Handle : view'[p] = << >>
      BY <1>2 DEF PowerLoss
    <2>2. CommittedCount(log', head') \in Nat
      BY CountedNext DEF BoundaryHolds, Boundary
    <2> QED BY <2>1, <2>2 DEF ViewCommitted
  <1>3. ASSUME NEW p \in Handle,
               AppendStep(p) \/ ReadStep(p) \/ OpenStep(p) \/ Close(p) \/ Kill(p)
        PROVE  ViewCommitted'
    <2>1. CASE ReadEnd(p) \/ Suffix(p)
      BY <2>1, ReadEndView, SuffixView
    <2>2. CASE ~ReadEnd(p) /\ ~Suffix(p)
      BY <1>3, <2>2, BoundaryGrows, ViewsLeft, ViewsKept
    <2> QED BY <2>1, <2>2
  <1> QED BY <1>1, <1>2, <1>3 DEF Next

\* What a reader assembled from snapshot_events_with_identity and
\* committed_suffix_after is a prefix of the committed log, also when a stream
\* flushed late bytes behind the boundary its cursor was minted at.
THEOREM ViewsAreCommitted ==
    ASSUME "absent" \notin Starts
    PROVE  Spec => []ViewCommitted
  <1>1. Init => IInv /\ Fresh /\ ViewCommitted
    <2>1. Init => IInv
      BY InitHolds, StartAssumption DEF Init
    <2>2. Init => Fresh
      BY StartsFresh
    <2>3. Init => ViewCommitted
      <3>1. SUFFICES ASSUME Init PROVE ViewCommitted
        OBVIOUS
      <3>2. \A p \in Handle : view[p] = << >>
        BY <3>1 DEF Init, Found
      <3>3. CommittedCount(log, head) \in Nat
        BY <2>1, <3>1, Counted DEF BoundaryHolds, Boundary
      <3> QED BY <3>2, <3>3 DEF ViewCommitted
    <2> QED BY <2>1, <2>2, <2>3
  <1>2. IInv /\ Fresh /\ ViewCommitted /\ [Next]_vars => (IInv /\ Fresh /\ ViewCommitted)'
    BY NextHolds, NextFresh, NextViews
  <1> QED BY <1>1, <1>2, PTL DEF Spec
=============================================================================
