----------------------------- MODULE EventStore -----------------------------
(***************************************************************************)
(* The encrypted, hash-chained event log of a vault                        *)
(* (product/viva/ledger/store.py) with its sibling commit head.            *)
(*                                                                         *)
(* Several handles, in one process or in several, share one log file.  A   *)
(* record is one line of the file; here it is two chunks, its body and the *)
(* rest that ends in the newline, so that a write can stop inside a line   *)
(* and a size is a number of chunks.  A record's hash is the fresh id its  *)
(* random nonce gives it.  Every file has two images: the one processes    *)
(* see and the one that survives a power loss, which fsync brings up to    *)
(* date.  The header line is kept apart, so offsets start after it.        *)
(***************************************************************************)
EXTENDS Integers, Sequences, FiniteSets

CONSTANTS
    Handle,        \* the EventStore objects that may be opened on the log
    Creators,      \* those whose caller lets open() make a missing log
    NoHead,        \* there is no .head file
    NoHandle,      \* nobody holds the writer lock
    Starts,        \* the logs found on disk: "absent", "legacy" or "bound"
    LegacyCount,   \* records a legacy log starts with
    MaxBatch,      \* bound: events one decision returns
    MaxId,         \* bound: records ever sealed
    MaxFaults      \* bound: I/O errors, kills and power losses

ASSUME BoundsAssumption ==
    /\ LegacyCount \in Nat /\ MaxBatch \in Nat \ {0}
    /\ MaxId \in Nat /\ MaxFaults \in Nat
ASSUME StartAssumption == Starts \subseteq {"absent", "legacy", "bound"}
ASSUME CreatorsAssumption == Creators \subseteq Handle
ASSUME NoHandleAssumption == NoHandle \notin Handle

Genesis == 0
OriginalKey == NoHandle      \* the key of a log that was there at the start
Key == Handle \cup {OriginalKey}

\* A sealed record: its position, the hash it follows, its own hash, and the
\* hash of the last record of the decision it belongs to.
Record == [seq : Nat, prev : Nat, id : Nat, last : Nat]
Chunk == [rec : Record, part : {"body", "end"}]
HeadRecord == [count : Nat, hash : Nat, key : Key]
ASSUME NoHeadAssumption == NoHead \notin HeadRecord

VARIABLES
    header, headerDur,   \* line 0: what it is and the key it authenticates
    log, logDur,         \* the record chunks after the header
    head, headDur,       \* the .head file
    lock,                \* the holder of the flock
    nextId,              \* ids not yet used are >= nextId
    pc,                  \* where each handle is in its operation
    key,                 \* _key
    tail,                \* _count, _last_hash, _size
    seen,                \* _committed_head
    headReq,             \* _head_required
    failed,              \* _write_failed
    content,             \* the prepared batch, as chunks
    buf,                 \* the part of it still in the stream's buffer
    view,                \* the hashes a reader holds: snapshot and suffixes
    viewEnd,             \* end_offset of the reader's cursor
    acked,               \* records whose append returned (history)
    faults               \* faults so far

diskVars == <<header, headerDur, log, logDur, head, headDur>>
cacheVars == <<key, tail, seen, headReq, failed>>
streamVars == <<content, buf>>
readVars == <<view, viewEnd>>
vars == <<diskVars, lock, nextId, pc, cacheVars, streamVars, readVars, acked,
          faults>>

-----------------------------------------------------------------------------
(* The file as a chain of records. *)

\* Line k (from 1) is a complete line holding one record.
WholeLine(l, k) == /\ 2 * k <= Len(l)
                   /\ l[2 * k - 1].part = "body" /\ l[2 * k].part = "end"
                   /\ l[2 * k - 1].rec = l[2 * k].rec

HashAt(l, k) == IF k = 0 THEN Genesis ELSE l[2 * k].rec.id

\* The first c lines are records 0 .. c-1, each naming the one before it.
Chained(l, c) == \A k \in 1 .. c : /\ WholeLine(l, k)
                                   /\ l[2 * k].rec.seq = k - 1
                                   /\ l[2 * k].rec.prev = HashAt(l, k - 1)

\* _committed_prefix_end: the scan reaches the authenticated head, through
\* the commit this handle observed before.
PrefixReaches(l, hd, expected) ==
    /\ 2 * hd.count <= Len(l)
    /\ Chained(l, hd.count)
    /\ HashAt(l, hd.count) = hd.hash
    /\ expected # NoHead => /\ expected.count <= hd.count
                            /\ HashAt(l, expected.count) = expected.hash

\* _iter_raw over a file with no head: every line is complete.
AllWhole(l) == /\ Len(l) % 2 = 0
               /\ \A k \in 1 .. Len(l) \div 2 : WholeLine(l, k)

\* _fast_committed_boundary: the line that ends the file is the head's record.
FastBoundary(l, hd) ==
    IF hd.count = 0
    THEN l = << >>
    ELSE /\ Len(l) >= 2
         /\ Len(l) > 2 => l[Len(l) - 2].part = "end"
         /\ l[Len(l) - 1].part = "body" /\ l[Len(l)].part = "end"
         /\ l[Len(l) - 1].rec = l[Len(l)].rec
         /\ l[Len(l)].rec.seq = hd.count - 1
         /\ l[Len(l)].rec.id = hd.hash

\* _committed_suffix_from_cursor: the lines from offset `end` on are records
\* from.count .. to.count-1 and lead from the one hash to the other.
SuffixReaches(l, from, end, to) ==
    LET n == to.count - from.count
        at(k) == l[end + 2 * k]
        hashBefore(k) == IF k = 1 THEN from.hash ELSE at(k - 1).rec.id
    IN  /\ end + 2 * n <= Len(l)
        /\ end > 0 => l[end].part = "end"
        /\ \A k \in 1 .. n : /\ l[end + 2 * k - 1].part = "body"
                             /\ at(k).part = "end"
                             /\ l[end + 2 * k - 1].rec = at(k).rec
                             /\ at(k).rec.seq = from.count + k - 1
                             /\ at(k).rec.prev = hashBefore(k)
        /\ to.hash = IF n = 0 THEN from.hash ELSE at(n).rec.id

\* The chunks of a batch of n records chained after <<count, last>>, the ids
\* starting at `first`.
Prepare(n, count, last, first) ==
    [ i \in 1 .. 2 * n |->
        LET j == (i + 1) \div 2
        IN  [ rec |-> [ seq |-> count + j - 1,
                        prev |-> IF j = 1 THEN last ELSE first + j - 2,
                        id |-> first + j - 1,
                        last |-> first + n - 1 ],
              part |-> IF i % 2 = 0 THEN "end" ELSE "body" ] ]

RecordsOf(chunks) == { c.rec : c \in { chunks[i] : i \in DOMAIN chunks } }

-----------------------------------------------------------------------------
NoTail == [count |-> 0, hash |-> Genesis, size |-> 0]

LegacyLog == Prepare(LegacyCount, 0, Genesis, 1)

\* What a process that is about to open the vault may find
Found(start) ==
    /\ log = IF start = "legacy" THEN LegacyLog ELSE << >>
    /\ logDur = log
    /\ header = [kind |-> start, key |-> OriginalKey]
    /\ headerDur = header
    /\ head = IF start = "bound"
              THEN [count |-> 0, hash |-> Genesis, key |-> OriginalKey]
              ELSE NoHead
    /\ headDur = head
    /\ lock = NoHandle
    /\ nextId = 1 + (IF start = "legacy" THEN LegacyCount ELSE 0)
    /\ pc = [p \in Handle |-> "closed"]
    /\ key = [p \in Handle |-> OriginalKey]
    /\ tail = [p \in Handle |-> NoTail]
    /\ seen = [p \in Handle |-> NoHead]
    /\ headReq = [p \in Handle |-> FALSE]
    /\ failed = [p \in Handle |-> FALSE]
    /\ content = [p \in Handle |-> << >>]
    /\ buf = [p \in Handle |-> << >>]
    /\ view = [p \in Handle |-> << >>]
    /\ viewEnd = [p \in Handle |-> 0]
    /\ acked = RecordsOf(log)
    /\ faults = 0

Init == \E start \in Starts : Found(start)

Goto(p, to) == pc' = [pc EXCEPT ![p] = to]
Fault == faults < MaxFaults /\ faults' = faults + 1

\* The object is gone: its caches and its stream with it.
Forget(p) ==
    /\ key' = [key EXCEPT ![p] = OriginalKey]
    /\ tail' = [tail EXCEPT ![p] = NoTail]
    /\ seen' = [seen EXCEPT ![p] = NoHead]
    /\ headReq' = [headReq EXCEPT ![p] = FALSE]
    /\ failed' = [failed EXCEPT ![p] = FALSE]
    /\ content' = [content EXCEPT ![p] = << >>]
    /\ buf' = [buf EXCEPT ![p] = << >>]
    /\ view' = [view EXCEPT ![p] = << >>]
    /\ viewEnd' = [viewEnd EXCEPT ![p] = 0]

-----------------------------------------------------------------------------
(* _reread_tail: authenticate header and head, drop what the head does not *)
(* commit, and take the tail over.  The caller holds the writer lock.      *)

Bound == header.kind = "bound"
HeaderAuthentic(p) == header.kind \in {"legacy", "bound"} /\ header.key = key[p]
HeaderHolds(p) == HeaderAuthentic(p) /\ (headReq[p] => Bound)
HeadHolds(p) == head # NoHead /\ head.key = key[p]

CanReread(p) ==
    /\ HeaderHolds(p)
    /\ \/ HeadHolds(p) /\ PrefixReaches(log, head, seen[p])
       \/ /\ head = NoHead
          /\ ~Bound /\ ~headReq[p] /\ seen[p] = NoHead
          /\ AllWhole(log)

Lines(l) == Len(l) \div 2
TailOnDisk == IF head = NoHead
              THEN [count |-> Lines(log), hash |-> HashAt(log, Lines(log)),
                    size |-> Len(log)]
              ELSE [count |-> head.count, hash |-> head.hash,
                    size |-> 2 * head.count]

\* ftruncate and its fsync, which reaches every page of the file.
TruncateTo(end) ==
    IF Len(log) > end
    THEN /\ log' = SubSeq(log, 1, end)
         /\ logDur' = log'
         /\ headerDur' = header
    ELSE UNCHANGED <<log, logDur, headerDur>>

Reread(p) ==
    /\ CanReread(p)
    /\ TruncateTo(TailOnDisk.size)
    /\ tail' = [tail EXCEPT ![p] = TailOnDisk]
    /\ seen' = [seen EXCEPT ![p] = head]
    /\ headReq' = [headReq EXCEPT ![p] = @ \/ Bound]
    /\ UNCHANGED <<header, head, headDur, key>>

\* The reread raises: what it read does not authenticate, or the disk failed,
\* possibly after the truncation and before its fsync.
RereadRaises(p) ==
    /\ UNCHANGED <<header, headerDur, logDur, head, headDur>>
    /\ UNCHANGED <<key, tail, seen, headReq>>
    /\ \/ ~CanReread(p) /\ UNCHANGED <<log, faults>>
       \/ Fault /\ UNCHANGED log
       \/ /\ CanReread(p) /\ Len(log) > TailOnDisk.size
          /\ Fault /\ log' = SubSeq(log, 1, TailOnDisk.size)

Usable(p) == pc[p] = "idle" /\ ~failed[p] /\ lock = NoHandle

-----------------------------------------------------------------------------
(* append_atomically *)

AppendBegin(p) ==
    /\ Usable(p)
    /\ Reread(p)
    /\ lock' = p
    /\ Goto(p, "decide")
    /\ UNCHANGED <<nextId, failed, streamVars, readVars, acked, faults>>

\* Any locked operation whose reread raises marks the handle and leaves.
BeginRaises(p) ==
    /\ Usable(p)
    /\ RereadRaises(p)
    /\ failed' = [failed EXCEPT ![p] = TRUE]
    /\ UNCHANGED <<lock, nextId, pc, streamVars, readVars, acked>>

\* The decision is empty, or the callback raised.
DecideNothing(p) ==
    /\ pc[p] = "decide"
    /\ lock' = NoHandle
    /\ Goto(p, "idle")
    /\ UNCHANGED <<diskVars, nextId, cacheVars, streamVars, readVars, acked,
                   faults>>

\* Mutant: a legacy log is written to before it has a head.
DecideUnsealed(p, n) ==
    /\ pc[p] = "decide"
    /\ nextId + n <= MaxId + 1
    /\ content' = [content EXCEPT ![p] =
                     Prepare(n, tail[p].count, tail[p].hash, nextId)]
    /\ buf' = [buf EXCEPT ![p] = content'[p]]
    /\ nextId' = nextId + n
    /\ Goto(p, "write")
    /\ UNCHANGED <<diskVars, lock, cacheVars, readVars, acked, faults>>

\* The records are sealed here; a legacy log is first given its head.
Decide(p, n) ==
    /\ pc[p] = "decide"
    /\ nextId + n <= MaxId + 1
    /\ content' = [content EXCEPT ![p] =
                     Prepare(n, tail[p].count, tail[p].hash, nextId)]
    /\ buf' = [buf EXCEPT ![p] = content'[p]]
    /\ nextId' = nextId + n
    /\ Goto(p, IF headReq[p] THEN "write" ELSE "seal")
    /\ UNCHANGED <<diskVars, lock, cacheVars, readVars, acked, faults>>

TailHead(p) == [count |-> tail[p].count, hash |-> tail[p].hash, key |-> key[p]]

\* _seal_head: the rename, then the directory sync.
SealHead(p) ==
    /\ pc[p] = "seal"
    /\ head' = TailHead(p)
    /\ Goto(p, "sealDir")
    /\ UNCHANGED <<header, headerDur, log, logDur, headDur>>
    /\ UNCHANGED <<lock, nextId, cacheVars, streamVars, readVars, acked, faults>>

SealDir(p) ==
    /\ pc[p] = "sealDir"
    /\ headDur' = head
    /\ Goto(p, "upgrade")
    /\ UNCHANGED <<header, headerDur, log, logDur, head>>
    /\ UNCHANGED <<lock, nextId, cacheVars, streamVars, readVars, acked, faults>>

\* _upgrade_header_in_place: the line is rewritten, then synced.
UpgradeHeader(p) ==
    /\ pc[p] = "upgrade"
    /\ header' = [header EXCEPT !.kind = "bound"]
    /\ Goto(p, "upgradeSync")
    /\ UNCHANGED <<headerDur, log, logDur, head, headDur>>
    /\ UNCHANGED <<lock, nextId, cacheVars, streamVars, readVars, acked, faults>>

UpgradeSync(p) ==
    /\ pc[p] = "upgradeSync"
    /\ headerDur' = header
    /\ logDur' = log
    /\ headReq' = [headReq EXCEPT ![p] = TRUE]
    /\ seen' = [seen EXCEPT ![p] = TailHead(p)]
    /\ tail' = [tail EXCEPT ![p].size = Len(log)]
    /\ Goto(p, "write")
    /\ UNCHANGED <<header, log, head, headDur, lock, nextId, key, failed>>
    /\ UNCHANGED <<streamVars, readVars, acked, faults>>

\* An exception while migrating leaves through the outer finally.  Only the
\* header rewrite marks the handle, and it may have torn the line.
MigrateRaises(p) ==
    /\ pc[p] \in {"seal", "sealDir", "upgrade", "upgradeSync"}
    /\ Fault
    /\ lock' = NoHandle
    /\ Goto(p, "idle")
    /\ content' = [content EXCEPT ![p] = << >>]
    /\ buf' = [buf EXCEPT ![p] = << >>]
    /\ failed' = [failed EXCEPT ![p] =
                    pc[p] \in {"upgrade", "upgradeSync"}]
    /\ \/ UNCHANGED header
       \/ pc[p] = "upgrade" /\ header' = [header EXCEPT !.kind = "torn"]
    /\ UNCHANGED <<headerDur, log, logDur, head, headDur>>
    /\ UNCHANGED <<nextId, key, tail, seen, headReq, readVars, acked>>

\* Mutant: the candidate tail is published while it is being written.
WriteChunkPublished(p) ==
    /\ pc[p] = "write"
    /\ log' = Append(log, buf[p][1])
    /\ buf' = [buf EXCEPT ![p] = Tail(@)]
    /\ seen' = [seen EXCEPT ![p].count = @ + 1]
    /\ Goto(p, IF Len(buf[p]) = 1 THEN "fsync" ELSE "write")
    /\ UNCHANGED <<header, headerDur, logDur, head, headDur>>
    /\ UNCHANGED <<lock, nextId, key, tail, headReq, failed, content, readVars>>
    /\ UNCHANGED <<acked, faults>>

\* The stream hands some of its buffer to the file, at the end of it.
WriteChunk(p) ==
    /\ pc[p] = "write"
    /\ log' = Append(log, buf[p][1])
    /\ buf' = [buf EXCEPT ![p] = Tail(@)]
    /\ Goto(p, IF Len(buf[p]) = 1 THEN "fsync" ELSE "write")
    /\ UNCHANGED <<header, headerDur, logDur, head, headDur>>
    /\ UNCHANGED <<lock, nextId, cacheVars, content, readVars, acked, faults>>

FsyncLog(p) ==
    /\ pc[p] = "fsync"
    /\ logDur' = log
    /\ headerDur' = header
    /\ Goto(p, "size")
    /\ UNCHANGED <<header, log, head, headDur, lock, nextId, cacheVars>>
    /\ UNCHANGED <<streamVars, readVars, acked, faults>>

\* The file must end exactly where the batch does.
ExactSize(p) == Len(log) = tail[p].size + Len(content[p])

\* Mutant: wait for the file to have the right size.
AwaitSize(p) ==
    /\ pc[p] = "size"
    /\ Goto(p, IF ExactSize(p) THEN "replace" ELSE "size")
    /\ UNCHANGED <<diskVars, lock, nextId, cacheVars, streamVars, readVars>>
    /\ UNCHANGED <<acked, faults>>

CheckSize(p) ==
    /\ pc[p] = "size"
    /\ Goto(p, IF ExactSize(p) THEN "replace" ELSE "repair")
    /\ UNCHANGED <<diskVars, lock, nextId, cacheVars, streamVars, readVars>>
    /\ UNCHANGED <<acked, faults>>

\* Mutant: the head is written record by record.
FirstRecordHead(p) ==
    [ count |-> tail[p].count + 1,
      hash |-> content[p][2].rec.id,
      key |-> key[p] ]

BatchHead(p) ==
    [ count |-> tail[p].count + Lines(content[p]),
      hash |-> content[p][Len(content[p])].rec.id,
      key |-> key[p] ]

\* write_head: the rename makes the batch committed.
ReplaceHead(p) ==
    /\ pc[p] = "replace"
    /\ head' = BatchHead(p)
    /\ Goto(p, "dirSync")
    /\ UNCHANGED <<header, headerDur, log, logDur, headDur>>
    /\ UNCHANGED <<lock, nextId, cacheVars, streamVars, readVars, acked, faults>>

\* Mutant: append returns without the directory sync.
CommitUnsynced(p) ==
    /\ pc[p] = "dirSync"
    /\ tail' = [tail EXCEPT ![p] = [count |-> BatchHead(p).count,
                                    hash |-> BatchHead(p).hash,
                                    size |-> Len(log)]]
    /\ seen' = [seen EXCEPT ![p] = BatchHead(p)]
    /\ acked' = acked \cup RecordsOf(content[p])
    /\ content' = [content EXCEPT ![p] = << >>]
    /\ lock' = NoHandle
    /\ Goto(p, "idle")
    /\ UNCHANGED <<diskVars, nextId, key, headReq, failed, buf, readVars, faults>>

\* The directory sync, then the new tail is published and append returns.
CommitDone(p) ==
    /\ pc[p] = "dirSync"
    /\ headDur' = head
    /\ tail' = [tail EXCEPT ![p] = [count |-> BatchHead(p).count,
                                    hash |-> BatchHead(p).hash,
                                    size |-> Len(log)]]
    /\ seen' = [seen EXCEPT ![p] = BatchHead(p)]
    /\ acked' = acked \cup RecordsOf(content[p])
    /\ content' = [content EXCEPT ![p] = << >>]
    /\ lock' = NoHandle
    /\ Goto(p, "idle")
    /\ UNCHANGED <<header, headerDur, log, logDur, head, nextId, key, headReq>>
    /\ UNCHANGED <<failed, buf, readVars, faults>>

\* A write, a sync or the rename raised.
WriteRaises(p) ==
    /\ pc[p] \in {"write", "fsync", "replace", "dirSync"}
    /\ Fault
    /\ Goto(p, "repair")
    /\ UNCHANGED <<diskVars, lock, nextId, cacheVars, streamVars, readVars,
                   acked>>

\* Leave the critical section; what the stream still buffers waits for close.
LeaveWrite(p) ==
    /\ lock' = NoHandle
    /\ Goto(p, IF buf[p] = << >> THEN "idle" ELSE "closing")
    /\ content' = [content EXCEPT ![p] = << >>]
    /\ UNCHANGED <<nextId, buf, readVars, acked>>

Repair(p) ==
    /\ pc[p] = "repair"
    /\ Reread(p)
    /\ failed' = [failed EXCEPT ![p] = FALSE]
    /\ LeaveWrite(p)
    /\ UNCHANGED faults

RepairRaises(p) ==
    /\ pc[p] = "repair"
    /\ RereadRaises(p)
    /\ failed' = [failed EXCEPT ![p] = TRUE]
    /\ LeaveWrite(p)

\* Closing the stream flushes what is left of its buffer, outside the lock.
LateFlush(p) ==
    /\ pc[p] = "closing" /\ buf[p] # << >>
    /\ log' = Append(log, buf[p][1])
    /\ buf' = [buf EXCEPT ![p] = Tail(@)]
    /\ UNCHANGED <<header, headerDur, logDur, head, headDur>>
    /\ UNCHANGED <<lock, nextId, pc, cacheVars, content, readVars, acked, faults>>

CloseStream(p) ==
    /\ pc[p] = "closing"
    /\ buf' = [buf EXCEPT ![p] = << >>]
    /\ Goto(p, "idle")
    /\ UNCHANGED <<diskVars, lock, nextId, cacheVars, content, readVars, acked,
                   faults>>

-----------------------------------------------------------------------------
(* Reads.  snapshot_events_with_identity, committed_snapshot,              *)
(* authenticated_identity and verify_committed_log all reread the tail     *)
(* under the lock; committed_suffix_after trusts a cursor instead.         *)

ReadBegin(p) ==
    /\ Usable(p)
    /\ Reread(p)
    /\ lock' = p
    /\ Goto(p, "read")
    /\ UNCHANGED <<nextId, failed, streamVars, readVars, acked, faults>>

\* Mutant: the replay is not limited to the committed count.
ReadToTheEnd(p) ==
    /\ pc[p] = "read"
    /\ view' = [view EXCEPT ![p] =
                  [k \in 1 .. Lines(log) |-> HashAt(log, k)]]
    /\ viewEnd' = [viewEnd EXCEPT ![p] = Len(log)]
    /\ lock' = NoHandle
    /\ Goto(p, "idle")
    /\ UNCHANGED <<diskVars, nextId, cacheVars, streamVars, acked, faults>>

\* The entries are the tail's lines; the cursor ends where the file does.
ReadEnd(p) ==
    /\ pc[p] = "read"
    /\ view' = [view EXCEPT ![p] =
                  [k \in 1 .. tail[p].count |-> HashAt(log, k)]]
    /\ viewEnd' = [viewEnd EXCEPT ![p] = Len(log)]
    /\ lock' = NoHandle
    /\ Goto(p, "idle")
    /\ UNCHANGED <<diskVars, nextId, cacheVars, streamVars, acked, faults>>

Cursor(p) == [count |-> Len(view[p]),
              hash |-> IF view[p] = << >> THEN Genesis
                       ELSE view[p][Len(view[p])]]

\* The cursor's own checks, which raise CommittedPrefixMismatch.
CursorFits(p) ==
    /\ Cursor(p).count <= head.count
    /\ Cursor(p).count = head.count => Cursor(p).hash = head.hash
    /\ viewEnd[p] <= Len(log)
    /\ viewEnd[p] > 0 => log[viewEnd[p]].part = "end"

SuffixPossible(p) == Usable(p) /\ HeaderAuthentic(p) /\ HeadHolds(p)

Suffix(p) ==
    /\ SuffixPossible(p) /\ CursorFits(p)
    /\ SuffixReaches(log, Cursor(p), viewEnd[p], head)
    /\ LET n == head.count - Cursor(p).count
       IN  /\ view' = [view EXCEPT ![p] =
                        @ \o [k \in 1 .. n |-> log[viewEnd[p] + 2 * k].rec.id]]
           /\ viewEnd' = [viewEnd EXCEPT ![p] = @ + 2 * n]
    /\ UNCHANGED <<diskVars, lock, nextId, pc, cacheVars, streamVars, acked,
                   faults>>

\* The caller drops a cursor that is refused; any other error ends the handle.
SuffixRaises(p) ==
    /\ SuffixPossible(p)
    /\ ~(CursorFits(p) /\ SuffixReaches(log, Cursor(p), viewEnd[p], head))
    /\ view' = [view EXCEPT ![p] = << >>]
    /\ viewEnd' = [viewEnd EXCEPT ![p] = 0]
    /\ failed' = [failed EXCEPT ![p] = CursorFits(p)]
    /\ UNCHANGED <<diskVars, lock, nextId, pc, key, tail, seen, headReq>>
    /\ UNCHANGED <<streamVars, acked, faults>>

-----------------------------------------------------------------------------
(* fork: _refresh_trusted_tail advances from the cached boundary without   *)
(* scanning before it, and a second handle starts from the same tail.      *)

TrustedEnd(p) == tail[p].size + 2 * (head.count - tail[p].count)

CanRefresh(p) ==
    /\ HeaderHolds(p)
    /\ HeadHolds(p)
    /\ tail[p].count <= head.count
    /\ tail[p].count = head.count => tail[p].hash = head.hash
    /\ SuffixReaches(log, tail[p], tail[p].size, head)

Fork(p, q) ==
    /\ Usable(p) /\ pc[q] = "closed"
    /\ pc' = [pc EXCEPT ![q] = "idle"]
    /\ LET end == IF Bound THEN TrustedEnd(p) ELSE TailOnDisk.size
           now == IF Bound THEN [count |-> head.count, hash |-> head.hash,
                                 size |-> end]
                  ELSE TailOnDisk
       IN  /\ IF Bound THEN CanRefresh(p) ELSE CanReread(p)
           /\ TruncateTo(end)
           /\ tail' = [tail EXCEPT ![p] = now, ![q] = now]
    /\ seen' = [seen EXCEPT ![p] = head, ![q] = head]
    /\ headReq' = [headReq EXCEPT ![p] = Bound, ![q] = Bound]
    /\ key' = [key EXCEPT ![q] = key[p]]
    /\ UNCHANGED <<header, head, headDur, lock, nextId, failed, streamVars>>
    /\ UNCHANGED <<readVars, acked, faults>>

ForkRaises(p) ==
    /\ Usable(p) /\ Bound /\ ~CanRefresh(p)
    /\ failed' = [failed EXCEPT ![p] = TRUE]
    /\ UNCHANGED <<diskVars, lock, nextId, pc, key, tail, seen, headReq>>
    /\ UNCHANGED <<streamVars, readVars, acked, faults>>

-----------------------------------------------------------------------------
(* open on an existing file *)

OpenHeader(p) ==
    /\ pc[p] = "closed" /\ header.kind # "absent"
    /\ IF header.kind \in {"legacy", "bound"}
       THEN /\ key' = [key EXCEPT ![p] = header.key]
            /\ headReq' = [headReq EXCEPT ![p] = Bound]
            /\ Goto(p, "openHead")
       ELSE Goto(p, "refused") /\ UNCHANGED <<key, headReq>>
    /\ UNCHANGED <<diskVars, lock, nextId, tail, seen, failed, streamVars>>
    /\ UNCHANGED <<readVars, acked, faults>>

\* Where _authenticated_head leads: to `found`, to `none`, or out of open().
AfterHead(p, found, none) ==
    CASE HeadHolds(p) -> found
      [] head = NoHead /\ ~headReq[p] -> none
      [] head = NoHead /\ headReq[p] -> "headless"
      [] OTHER -> "refused"

\* The head is read without the lock.
OpenHead(p) ==
    /\ pc[p] = "openHead"
    /\ seen' = [seen EXCEPT ![p] = head]
    /\ Goto(p, AfterHead(p, "openTail", "openLock"))
    /\ UNCHANGED <<diskVars, lock, nextId, key, tail, headReq, failed>>
    /\ UNCHANGED <<streamVars, readVars, acked, faults>>

OpenTail(p) ==
    /\ pc[p] = "openTail"
    /\ IF FastBoundary(log, seen[p])
       THEN /\ tail' = [tail EXCEPT ![p] = [count |-> seen[p].count,
                                            hash |-> seen[p].hash,
                                            size |-> Len(log)]]
            /\ Goto(p, "openCheck")
       ELSE /\ Goto(p, "openLock")
            /\ UNCHANGED tail
    /\ UNCHANGED <<diskVars, lock, nextId, key, seen, headReq, failed>>
    /\ UNCHANGED <<streamVars, readVars, acked, faults>>

\* _recover_to_authenticated_head under the lock, then the lock is dropped.
OpenRecover(p) ==
    /\ pc[p] = "openLock"
    /\ lock = NoHandle
    /\ IF HeadHolds(p) /\ PrefixReaches(log, head, NoHead)
       THEN /\ TruncateTo(2 * head.count)
            /\ tail' = [tail EXCEPT ![p] = TailOnDisk]
            /\ Goto(p, "openCheck")
       ELSE /\ Goto(p, AfterHead(p, "refused", "openScan"))
            /\ UNCHANGED <<log, logDur, headerDur, tail>>
    /\ seen' = [seen EXCEPT ![p] = head]
    /\ UNCHANGED <<header, head, headDur, lock, nextId, key, headReq, failed>>
    /\ UNCHANGED <<streamVars, readVars, acked, faults>>

\* A log without a head is counted line by line; a partial line raises.
OpenScan(p) ==
    /\ pc[p] = "openScan"
    /\ IF AllWhole(log)
       THEN /\ tail' = [tail EXCEPT ![p] = [count |-> Lines(log),
                                            hash |-> HashAt(log, Lines(log)),
                                            size |-> Len(log)]]
            /\ Goto(p, "openCheck")
       ELSE Goto(p, "refused") /\ UNCHANGED tail
    /\ UNCHANGED <<diskVars, lock, nextId, key, seen, headReq, failed>>
    /\ UNCHANGED <<streamVars, readVars, acked, faults>>

\* _check_head: read the head again and compare, without the lock.
OpenCheck(p) ==
    /\ pc[p] = "openCheck"
    /\ Goto(p, AfterHead(p, IF head = TailHead(p) THEN "idle" ELSE "accused",
                         "idle"))
    /\ UNCHANGED <<diskVars, lock, nextId, cacheVars, streamVars, readVars>>
    /\ UNCHANGED <<acked, faults>>

(* open on a missing file: mint a header, then seal an empty head *)

\* Mutant: creation does not look whether the log exists.
OpenAsMissing(p) ==
    /\ pc[p] = "closed" /\ p \in Creators
    /\ Goto(p, "create")
    /\ UNCHANGED <<diskVars, lock, nextId, cacheVars, streamVars, readVars>>
    /\ UNCHANGED <<acked, faults>>

OpenMissing(p) ==
    /\ pc[p] = "closed" /\ header.kind = "absent" /\ p \in Creators
    /\ Goto(p, "create")
    /\ UNCHANGED <<diskVars, lock, nextId, cacheVars, streamVars, readVars>>
    /\ UNCHANGED <<acked, faults>>

\* open(path, "w") empties whatever is there by now.
CreateFile(p) ==
    /\ pc[p] = "create"
    /\ header' = [kind |-> "empty", key |-> p]
    /\ log' = << >>
    /\ Goto(p, "createHeader")
    /\ UNCHANGED <<headerDur, logDur, head, headDur, lock, nextId, cacheVars>>
    /\ UNCHANGED <<streamVars, readVars, acked, faults>>

CreateHeader(p) ==
    /\ pc[p] = "createHeader"
    /\ header' = [kind |-> "bound", key |-> p]
    /\ headerDur' = header'
    /\ logDur' = log
    /\ key' = [key EXCEPT ![p] = p]
    /\ Goto(p, "createSeal")
    /\ UNCHANGED <<log, head, headDur, lock, nextId, tail, seen, headReq>>
    /\ UNCHANGED <<failed, streamVars, readVars, acked, faults>>

CreateSeal(p) ==
    /\ pc[p] = "createSeal"
    /\ head' = TailHead(p)
    /\ Goto(p, "createDir")
    /\ UNCHANGED <<header, headerDur, log, logDur, headDur, lock, nextId>>
    /\ UNCHANGED <<cacheVars, streamVars, readVars, acked, faults>>

CreateDone(p) ==
    /\ pc[p] = "createDir"
    /\ headDur' = head
    /\ headReq' = [headReq EXCEPT ![p] = TRUE]
    /\ seen' = [seen EXCEPT ![p] = TailHead(p)]
    /\ Goto(p, "idle")
    /\ UNCHANGED <<header, headerDur, log, logDur, head, lock, nextId, key>>
    /\ UNCHANGED <<tail, failed, streamVars, readVars, acked, faults>>

Opening == {"openHead", "openTail", "openLock", "openScan", "openCheck"}
Creating == {"create", "createHeader", "createSeal", "createDir"}
Refused == {"headless", "accused", "refused"}

-----------------------------------------------------------------------------
(* The end of a handle, asked for or not *)

Release(p) == lock' = IF lock = p THEN NoHandle ELSE lock

\* The owner lets an idle handle go, or gives up on a refused open.
Close(p) ==
    /\ pc[p] \in {"idle"} \cup Refused
    /\ Goto(p, "closed")
    /\ Forget(p)
    /\ UNCHANGED <<diskVars, lock, nextId, acked, faults>>

\* The process is killed, or open raises an I/O error: the lock goes with the
\* descriptor, the buffered bytes are lost, the files stay as they are.
Kill(p) ==
    /\ pc[p] # "closed"
    /\ Fault
    /\ Goto(p, "closed")
    /\ Forget(p)
    /\ Release(p)
    /\ UNCHANGED <<diskVars, nextId, acked>>

\* A position of the log an fsync has covered cannot be lost.
MayLose(m) == \A i \in m + 1 .. Len(log) :
                  i <= Len(logDur) => log[i] # logDur[i]

PowerLoss ==
    /\ Fault
    /\ \/ log' = logDur
       \/ \E m \in 0 .. Len(log) : MayLose(m) /\ log' = SubSeq(log, 1, m)
    /\ logDur' = log'
    /\ head' \in {head, headDur} /\ headDur' = head'
    /\ header' \in {header, headerDur}
                   \cup (IF header = headerDur THEN {}
                         ELSE {[header EXCEPT !.kind = "torn"]})
    /\ headerDur' = header'
    /\ lock' = NoHandle
    /\ pc' = [p \in Handle |-> "closed"]
    /\ key' = [p \in Handle |-> OriginalKey]
    /\ tail' = [p \in Handle |-> NoTail]
    /\ seen' = [p \in Handle |-> NoHead]
    /\ headReq' = [p \in Handle |-> FALSE]
    /\ failed' = [p \in Handle |-> FALSE]
    /\ content' = [p \in Handle |-> << >>]
    /\ buf' = [p \in Handle |-> << >>]
    /\ view' = [p \in Handle |-> << >>]
    /\ viewEnd' = [p \in Handle |-> 0]
    /\ UNCHANGED <<nextId, acked>>

-----------------------------------------------------------------------------
AppendStep(p) ==
    \/ AppendBegin(p) \/ BeginRaises(p)
    \/ DecideNothing(p) \/ \E n \in 1 .. MaxBatch : Decide(p, n)
    \/ SealHead(p) \/ SealDir(p) \/ UpgradeHeader(p) \/ UpgradeSync(p)
    \/ MigrateRaises(p)
    \/ WriteChunk(p) \/ FsyncLog(p) \/ CheckSize(p) \/ ReplaceHead(p)
    \/ CommitDone(p) \/ WriteRaises(p) \/ Repair(p) \/ RepairRaises(p)
    \/ LateFlush(p) \/ CloseStream(p)

ReadStep(p) ==
    \/ ReadBegin(p) \/ ReadEnd(p) \/ Suffix(p) \/ SuffixRaises(p)
    \/ ForkRaises(p) \/ \E q \in Handle : Fork(p, q)

OpenStep(p) ==
    \/ OpenHeader(p) \/ OpenHead(p) \/ OpenTail(p) \/ OpenRecover(p)
    \/ OpenScan(p) \/ OpenCheck(p)
    \/ OpenMissing(p) \/ CreateFile(p) \/ CreateHeader(p) \/ CreateSeal(p)
    \/ CreateDone(p)

Next ==
    \/ \E p \in Handle : \/ AppendStep(p) \/ ReadStep(p) \/ OpenStep(p)
                         \/ Close(p) \/ Kill(p)
    \/ PowerLoss

Spec == Init /\ [][Next]_vars

-----------------------------------------------------------------------------
Working == {"decide", "seal", "sealDir", "upgrade", "upgradeSync", "write",
            "fsync", "size", "replace", "dirSync", "repair", "read"}
PC == {"closed", "idle", "closing"} \cup Working \cup Opening \cup Creating
      \cup Refused

HeaderRecord == [kind : {"absent", "empty", "legacy", "bound", "torn"},
                 key : Key]
TailRecord == [count : Nat, hash : Nat, size : Nat]

DiskTypes ==
    /\ header \in HeaderRecord /\ headerDur \in HeaderRecord
    /\ log \in Seq(Chunk) /\ logDur \in Seq(Chunk)
    /\ head \in HeadRecord \cup {NoHead}
    /\ headDur \in HeadRecord \cup {NoHead}
    /\ nextId \in Nat \ {0} /\ faults \in Nat /\ acked \subseteq Record

HandleTypes ==
    /\ pc \in [Handle -> PC]
    /\ key \in [Handle -> Key]
    /\ tail \in [Handle -> TailRecord]
    /\ seen \in [Handle -> HeadRecord \cup {NoHead}]
    /\ headReq \in [Handle -> BOOLEAN] /\ failed \in [Handle -> BOOLEAN]
    /\ content \in [Handle -> Seq(Chunk)] /\ buf \in [Handle -> Seq(Chunk)]
    /\ view \in [Handle -> Seq(Nat)] /\ viewEnd \in [Handle -> Nat]

LockHeld ==
    /\ lock \in Handle \cup {NoHandle}
    /\ \A p \in Handle : pc[p] \in Working <=> lock = p

\* Every variable keeps its type, and exactly the handle inside a critical
\* section (append_atomically, the locked reads) holds the writer lock.
TypeOK == DiskTypes /\ HandleTypes /\ LockHeld

\* The commit boundary of a file image: what the head says, or every line of
\* a log that has none.
CommittedCount(l, hd) == IF hd = NoHead THEN Lines(l) ELSE hd.count

\* The log always recovers to its authenticated head, whatever was written
\* after it by batches that failed, were interrupted or were flushed late:
\* _recover_to_authenticated_head never refuses a log nobody tampered with.
CommittedReadable ==
    /\ head = NoHead /\ header.kind = "legacy" => AllWhole(log)
    /\ \A hd \in {head, headDur} \ {NoHead} :
           PrefixReaches(log, hd, NoHead) /\ PrefixReaches(logDur, hd, NoHead)

\* append is durable before it returns: a record whose append returned is, at
\* its own position, inside the boundary that survives a power loss.
AckedDurable ==
    \A r \in acked :
        /\ r.seq < CommittedCount(logDur, headDur)
        /\ WholeLine(logDur, r.seq + 1)
        /\ logDur[2 * (r.seq + 1)].rec = r

\* The events of one decision are committed all or none: both commit
\* boundaries fall at the end of a decision's batch.
BatchAtomic ==
    \A hd \in {head, headDur} \ {NoHead} :
        hd.count > 0 => LET r == log[2 * hd.count].rec IN r.last = r.id

\* The commit a live handle observed is never taken back under it: its
\* _committed_head stays a prefix of the authenticated chain.
ObservedStays ==
    \A p \in Handle :
        seen[p] # NoHead => /\ head # NoHead
                            /\ seen[p].count <= head.count
                            /\ HashAt(log, seen[p].count) = seen[p].hash

\* What a reader assembled from a snapshot and later suffixes is a prefix of
\* the committed log, also when its cursor was minted over late bytes.
ViewCommitted ==
    \A p \in Handle :
        /\ Len(view[p]) <= CommittedCount(log, head)
        /\ \A k \in 1 .. Len(view[p]) : view[p][k] = HashAt(log, k)

\* An open that nobody disturbed the log of never reports that records were
\* removed from the end or that the log was rolled back (_check_head).
NoFalseAccusation == \A p \in Handle : pc[p] # "accused"

\* The records a reader may be given: none, when the header declares a head
\* that the creation never wrote.
Committed ==
    [ k \in 1 .. (IF Bound /\ head = NoHead THEN 0
                  ELSE CommittedCount(log, head)) |-> log[2 * k].rec ]

Promise == INSTANCE CommittedLog WITH committed <- Committed

\* The log implements the abstract one: it grows by whole decisions, and only
\* a power loss takes some back, none of which append had returned.
KeepsPromise == Promise!Spec

-----------------------------------------------------------------------------
\* A process that is not killed carries on with the operation it is in.
Proceed(p) ==
    \/ DecideNothing(p) \/ SealHead(p) \/ SealDir(p) \/ UpgradeHeader(p)
    \/ UpgradeSync(p) \/ WriteChunk(p) \/ FsyncLog(p) \/ CheckSize(p)
    \/ ReplaceHead(p) \/ CommitDone(p) \/ Repair(p) \/ RepairRaises(p)
    \/ CloseStream(p) \/ ReadEnd(p)

LiveSpec == Spec /\ \A p \in Handle : WF_vars(Proceed(p))

\* Whoever takes the writer lock gives it back, whichever step of the append
\* raises, so no other handle waits for it forever.
LockReleased == \A p \in Handle : lock = p ~> lock # p
=============================================================================
