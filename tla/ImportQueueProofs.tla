-------------------------- MODULE ImportQueueProofs --------------------------
(***************************************************************************)
(* What holds of the import queue for every selection, chunk, number of     *)
(* faults and number of other ingestions.  QueueInv is inductive: Books     *)
(* says what a capture precedes, Requests in which order a document's       *)
(* requests are sent, Plan what the coordinator has in hand at each place,  *)
(* and Kept, Covered and Leads carry the properties of the saved selection  *)
(* over to the coordinator's copy of it, which is saved later.              *)
(***************************************************************************)
EXTENDS ImportQueue, WellFoundedInduction, TLAPS

Place == {"idle", "capture", "saveRow", "select", "check", "dispatch", "read",
          "drain", "settle", "ingest", "post", "mark"}
Busy == {"check", "dispatch", "read", "drain", "settle", "ingest", "post", "mark"}
Holding == {"dispatch", "read", "settle", "ingest", "post", "mark"}
Open == Undone \cup {"cancelled", "unknown"}

\* Nothing of a document is on the books, or sealed as captured, before its
\* capture, and it is posted once.
Books ==
    \A d \in Doc :
       /\ ledger[d].posted <= 1
       /\ \/ ledger[d].captures > 0
          \/ /\ ledger[d].posted = 0 /\ ledger[d].responses = {}
             /\ work[d].state # "settled" /\ ~work[d].capture
             /\ d \notin captured

\* A document's requests are sent in order, for its first reading only.
RequestsOf(d) ==
    /\ \A p \in Phase : asked[d][p] <= 1
    /\ work[d].state = "none" =>
          /\ \A p \in Phase : asked[d][p] = 0
          /\ reading[d].at = "none"
    /\ reading[d].at = "ask" => asked[d][reading[d].phase] = 0
    /\ reading[d].at \in {"ask", "out", "response", "phase"} /\ reading[d].phase = "classify" =>
          asked[d]["extract"] = 0
Requests == \A d \in Doc : RequestsOf(d)

\* Where the coordinator is, and what it has in hand there.
Plan ==
    /\ at \notin Busy => entries = {} /\ \A r \in Row : rows[r] # "unknown"
    /\ at \notin {"idle", "capture", "saveRow"} => \A r \in Row : rows[r] # "capturing"
    /\ at \in Busy => \A r \in todo \cup entries : DocOf[r] \in raw
    /\ at = "check" => /\ todo \cap entries = {}
                       /\ \A r \in todo \cup entries : rows[r] = "running"
    /\ at = "dispatch" => \A r \in todo : rows[r] = "running"
    /\ at \in Holding => todo \subseteq entries /\ \A r \in entries : DocOf[r] \in held
    /\ at \in {"ingest", "post", "mark"} => todo # {}
    /\ at = "post" => ledger[d1].posted = 0
    /\ at \in {"post", "mark"} => ledger[d1].captures > 0

\* What is saved, or about to be, keeps its originals.
KeptIn(s) == \A r \in Row : s[r] \notin {"none", "capturing", "refused"} => DocOf[r] \in raw
Kept == KeptIn(session) /\ KeptIn(rows)

\* What is put away as posted or as a duplicate is covered; duplicates are
\* found only once every row was captured.
CoveredIn(s) ==
    \A r \in Row :
       /\ s[r] = "posted" => ledger[DocOf[r]].posted > 0
       /\ s[r] = "duplicate" =>
             /\ \A q \in Row : s[q] # "capturing"
             /\ \/ ledger[DocOf[r]].captures > 0
                \/ \E q \in Row \ {r} : DocOf[q] = DocOf[r] /\ s[q] \in Open
Covered == CoveredIn(session) /\ CoveredIn(rows)

\* A document dispatched in this chunk is in the ledger, or one of its rows is
\* not put away as a duplicate.
Leads ==
    at = "dispatch" => \A r \in entries \ todo :
       \/ ledger[DocOf[r]].captures > 0
       \/ \E q \in entries \ todo : /\ DocOf[q] = DocOf[r]
                                    /\ rows[q] \in {"running", "cancelled", "unknown"}

QueueInv == TypeOK /\ Books /\ Requests /\ Plan /\ Kept /\ Covered /\ Leads

-----------------------------------------------------------------------------
(* Values *)

\* A set of rows that is not empty has a least one.
LEMMA LeastRow ==
    ASSUME NEW S \in SUBSET Row, S # {}
    PROVE  Min(S) \in S
<1>1. S \subseteq Nat
  BY QueueAssumption DEF Row
<1>2. PICK x \in S : \A y \in S : ~ (<<y, x>> \in OpToRel(<, Nat))
  BY <1>1, NatLessThanWellFounded, WFMin, Zenon
<1>3. \A y \in S : ~(y < x)
  BY <1>1, <1>2, Zenon DEF OpToRel
<1>4. \A y \in S : x <= y
  BY <1>1, <1>3
<1> QED
  BY <1>4 DEF Min

\* Every row has its document.
LEMMA DocOfRow == \A r \in Row : DocOf[r] \in Doc
  BY QueueAssumption DEF Row, Doc

\* The variables and their types.
LEMMA Facts ==
    ASSUME QueueInv
    PROVE  /\ session \in [Row -> Status \cup {"none"}]
           /\ rows \in [Row -> Status \cup {"none", "unknown"}]
           /\ raw \subseteq Doc /\ work \in [Doc -> Work]
           /\ ledger \in [Doc -> Entry] /\ asked \in [Doc -> [Phase -> Nat]]
           /\ at \in Place
           /\ resuming \in BOOLEAN /\ todo \subseteq Row /\ entries \subseteq Row
           /\ held \subseteq Doc /\ captured \subseteq Doc
           /\ reading \in [Doc -> Reading]
           /\ stopped \in BOOLEAN /\ fatal \in BOOLEAN /\ stopAsked \in BOOLEAN
           /\ faults \in 0 .. MaxFaults /\ others \in 0 .. MaxOthers
  BY DEF QueueInv, TypeOK, Place

\* The row that is taken next.
LEMMA NextRow ==
    ASSUME QueueInv, todo # {}
    PROVE  /\ Next1 \in todo /\ Next1 \in Row /\ d1 = DocOf[Next1] /\ d1 \in Doc
           /\ todo \ {Next1} \subseteq Row
  BY Facts, LeastRow, DocOfRow DEF Next1, d1

\* What the parts are made of.
LEMMA Entries ==
    ASSUME NEW e \in Entry
    PROVE  /\ e.captures \in Nat /\ e.posted \in Nat
           /\ e.responses \in SUBSET Phase /\ e.reads \in SUBSET Phase
           /\ e.parsed \in BOOLEAN /\ e.foreign \in BOOLEAN
  BY DEF Entry

\* Readings that a coordinator starts with or finds.
LEMMA Starts ==
    /\ NoReading \in Reading /\ NoReading.at = "none"
    /\ Asking \in Reading /\ Asking.at = "ask" /\ Asking.phase = "classify"
    /\ \A x \in {"facts", "nothing"} : Over(x) \in Reading /\ Over(x).at = "done"
  BY DEF NoReading, Asking, Over, Reading, Phase

\* A fault is counted.
LEMMA FaultCounts ==
    ASSUME QueueInv, Fault \/ NoFault
    PROVE  faults' \in 0 .. MaxFaults
  BY Facts, QueueAssumption DEF Fault, NoFault

\* An entry with its capture.
LEMMA Captures ==
    ASSUME QueueInv, NEW d \in Doc
    PROVE  LET e == WithCapture(d)
           IN  /\ e \in Entry /\ e.captures > 0 /\ e.posted = ledger[d].posted
               /\ e.responses = ledger[d].responses /\ e.reads = ledger[d].reads
               /\ e.parsed = ledger[d].parsed /\ e.foreign = ledger[d].foreign
<1>1. ledger[d] \in Entry /\ ledger[d].captures \in Nat
  BY Facts, Entries
<1>2. CASE d \in captured
  BY <1>1, <1>2 DEF WithCapture, QueueInv, Books
<1>3. CASE d \notin captured
  BY <1>1, <1>3 DEF WithCapture, Entry
<1> QED
  BY <1>2, <1>3

-----------------------------------------------------------------------------
(* What a step owes *)

\* The disk only grows.
Grows ==
    /\ raw \subseteq raw'
    /\ \A d \in Doc : /\ ledger[d].captures > 0 => ledger'[d].captures > 0
                      /\ ledger[d].posted > 0 => ledger'[d].posted > 0

\* A copy of the selection stays kept and covered as the disk grows.
LEMMA SessionGrows ==
    ASSUME QueueInv, Grows, session' = session
    PROVE  KeptIn(session)' /\ CoveredIn(session)'
  BY DocOfRow DEF QueueInv, Kept, Covered, KeptIn, CoveredIn, Grows

\* The same of the coordinator's copy.
LEMMA RowsGrow ==
    ASSUME QueueInv, Grows, rows' = rows
    PROVE  KeptIn(rows)' /\ CoveredIn(rows)'
  BY DocOfRow DEF QueueInv, Kept, Covered, KeptIn, CoveredIn, Grows

\* A row's outcome is one that keeps it open, or its document is in the ledger
\* or has another row that is open.
LEMMA RowSays ==
    ASSUME QueueInv, Grows, NEW r \in Row, NEW st \in Status \cup {"unknown"},
           rows' = [rows EXCEPT ![r] = st], DocOf[r] \in raw, st # "capturing",
           \A q \in Row : rows[q] # "capturing",
           st = "posted" => ledger'[DocOf[r]].posted > 0,
           \/ st \in Open \/ ledger'[DocOf[r]].captures > 0
           \/ \E q \in Row \ {r} : DocOf[q] = DocOf[r] /\ rows[q] \in Open
    PROVE  /\ rows' \in [Row -> Status \cup {"none", "unknown"}]
           /\ KeptIn(rows)' /\ CoveredIn(rows)'
           /\ \A q \in Row : rows'[q] # "capturing"
<1>1. /\ rows' \in [Row -> Status \cup {"none", "unknown"}] /\ rows'[r] = st
      /\ \A q \in Row : q # r => rows'[q] = rows[q]
  BY Facts
<1>2. \A q \in Row : rows'[q] # "capturing"
  BY <1>1
<1>3. KeptIn(rows)'
  BY <1>1 DEF QueueInv, Kept, KeptIn, Grows
<1>4. ASSUME NEW x \in Row, rows'[x] = "posted" PROVE ledger'[DocOf[x]].posted > 0
  BY <1>1, <1>4, DocOfRow DEF QueueInv, Covered, CoveredIn, Grows
<1>5. ASSUME NEW x \in Row, rows'[x] = "duplicate"
      PROVE  \/ ledger'[DocOf[x]].captures > 0
             \/ \E q \in Row \ {x} : DocOf[q] = DocOf[x] /\ rows'[q] \in Open
  <2>1. "duplicate" \notin Open
    BY DEF Open, Undone
  <2>2. CASE x = r
    BY <1>1, <1>5, <2>1, <2>2
  <2>3. CASE x # r
    <3>1. rows[x] = "duplicate"
      BY <1>1, <1>5, <2>3
    <3>2. CASE ledger[DocOf[x]].captures > 0
      BY <3>2, DocOfRow DEF Grows
    <3>3. ASSUME NEW q \in Row \ {x}, DocOf[q] = DocOf[x], rows[q] \in Open
          PROVE  \/ ledger'[DocOf[x]].captures > 0
                 \/ \E k \in Row \ {x} : DocOf[k] = DocOf[x] /\ rows'[k] \in Open
      <4>1. CASE q # r
        BY <1>1, <3>3, <4>1
      <4>2. CASE q = r
        BY <1>1, <2>1, <3>1, <3>3, <4>2
      <4> QED
        BY <4>1, <4>2
    <3> QED
      BY <3>1, <3>2, <3>3 DEF QueueInv, Covered, CoveredIn
  <2> QED
    BY <2>2, <2>3
<1>6. CoveredIn(rows)'
  BY <1>2, <1>4, <1>5 DEF CoveredIn
<1> QED
  BY <1>1, <1>2, <1>3, <1>6

\* The coordinator returns: what it had in hand is gone.
LEMMA ReturnsKeeps ==
    ASSUME QueueInv, Returns, UNCHANGED <<raw, work, ledger, asked, others, stopAsked>>,
           faults' \in 0 .. MaxFaults,
           session' \in [Row -> Status \cup {"none"}],
           KeptIn(session)', CoveredIn(session)'
    PROVE  QueueInv'
<1>1. /\ at' = "idle" /\ todo' = {} /\ entries' = {} /\ held' = {} /\ captured' = {}
      /\ \A r \in Row : rows'[r] = "none"
      /\ \A d \in Doc : reading'[d] = NoReading
  BY DEF Returns
<1>2. TypeOK'
  <2>1. rows' \in [Row -> Status \cup {"none", "unknown"}]
    BY DEF Returns
  <2>2. reading' \in [Doc -> Reading]
    BY Starts DEF Returns
  <2> QED
    BY <1>1, <2>1, <2>2, Facts DEF TypeOK, Returns
<1>3. Books'
  BY <1>1 DEF QueueInv, Books
<1>4. Requests'
  <2> SUFFICES ASSUME NEW d \in Doc PROVE RequestsOf(d)'
    BY DEF Requests
  <2>1. RequestsOf(d)
    BY DEF QueueInv, Requests
  <2> QED
    BY <1>1, <2>1, Starts DEF RequestsOf
<1>5. Plan' /\ Leads'
  BY <1>1 DEF Plan, Leads, Busy, Holding
<1>6. KeptIn(rows)' /\ CoveredIn(rows)'
  BY <1>1 DEF KeptIn, CoveredIn
<1> QED
  BY <1>2, <1>3, <1>4, <1>5, <1>6 DEF QueueInv, Kept, Covered

\* A step that touches neither disk nor readings.
LEMMA PlanKeeps ==
    ASSUME QueueInv, UNCHANGED <<work, ledger, asked, captured, reading>>,
           raw \subseteq raw',
           TypeOK', Plan', Leads',
           KeptIn(session)', CoveredIn(session)', KeptIn(rows)', CoveredIn(rows)'
    PROVE  QueueInv'
<1>1. Books'
  BY DEF QueueInv, Books
<1>2. Requests'
  BY DEF QueueInv, Requests, RequestsOf
<1> QED
  BY <1>1, <1>2 DEF QueueInv, Kept, Covered

-----------------------------------------------------------------------------
(* Selecting and capturing *)

\* Nothing grows where nothing changes.
LEMMA Same == UNCHANGED <<raw, ledger>> => Grows
  BY DEF Grows

\* A selection is saved before anything of it is captured.
LEMMA EnqueueKeeps == ASSUME QueueInv, Enqueue PROVE QueueInv'
<1>1. /\ at' = "capture" /\ session' = [r \in Row |-> "capturing"] /\ rows' = session'
      /\ UNCHANGED <<raw, work, ledger, asked, resuming, todo, entries, held,
                     captured, reading, stopped, fatal, stopAsked, faults, others>>
  BY DEF Enqueue
<1>2. \A r \in Row : session'[r] = "capturing" /\ rows'[r] = "capturing"
  BY <1>1
<1>3. TypeOK'
  BY <1>1, Facts DEF TypeOK, Status, Undone
<1>4. Plan' /\ Leads'
  BY <1>1, <1>2 DEF Enqueue, QueueInv, Plan, Leads, Busy, Holding
<1>5. KeptIn(session)' /\ CoveredIn(session)' /\ KeptIn(rows)' /\ CoveredIn(rows)'
  BY <1>2 DEF KeptIn, CoveredIn
<1> QED
  BY <1>1, <1>3, <1>4, <1>5, PlanKeeps

\* Continue works on a copy of what was saved.
LEMMA ContinueKeeps == ASSUME QueueInv, Continue PROVE QueueInv'
<1>1. /\ at' = "capture" /\ rows' = session /\ resuming' = TRUE
      /\ UNCHANGED <<session, raw, work, ledger, asked, todo, entries, held,
                     captured, reading, stopped, fatal, stopAsked, faults, others>>
  BY DEF Continue, disk
<1>2. resuming' \in BOOLEAN
  BY <1>1, Zenon
<1>3. TypeOK'
  BY <1>1, <1>2, Facts DEF TypeOK
<1>4. \A r \in Row : rows'[r] # "unknown"
  BY <1>1, Facts DEF Status, Undone, Final
<1>5. Plan' /\ Leads'
  BY <1>1, <1>4 DEF Continue, QueueInv, Plan, Leads, Busy, Holding
<1>6. KeptIn(session)' /\ CoveredIn(session)'
  BY <1>1, Same, SessionGrows
<1>7. KeptIn(rows)' /\ CoveredIn(rows)'
  BY <1>1, <1>6 DEF KeptIn, CoveredIn
<1> QED
  BY <1>1, <1>3, <1>5, <1>6, <1>7, PlanKeeps

\* While rows are captured none is a duplicate.
LEMMA CaptureKeeps == ASSUME QueueInv, Capture PROVE QueueInv'
<1> DEFINE r == Min(Capturing)
<1>1. /\ at = "capture" /\ Capturing # {} /\ at' = "saveRow"
      /\ \/ raw' = raw \cup {DocOf[r]} /\ rows' = [rows EXCEPT ![r] = "pending"]
         \/ rows' = [rows EXCEPT ![r] = "refused"] /\ UNCHANGED raw
      /\ UNCHANGED <<session, work, ledger, asked, resuming, todo, entries, held,
                     captured, reading, stopped, fatal, stopAsked, faults, others>>
  BY DEF Capture
<1>2. r \in Row /\ rows[r] = "capturing"
  BY <1>1, LeastRow DEF Capturing
<1> HIDE DEF r
<1>3. DocOf[r] \in Doc
  BY <1>2, DocOfRow
<1>4. Grows /\ raw' \subseteq Doc
  BY <1>1, <1>3, Facts DEF Grows
<1>5. /\ rows' \in [Row -> Status \cup {"none", "unknown"}]
      /\ rows'[r] \in {"pending", "refused"} /\ (rows'[r] = "pending" => DocOf[r] \in raw')
      /\ \A q \in Row : q # r => rows'[q] = rows[q]
  BY <1>1, <1>2, Facts DEF Status, Undone, Final
<1>6. TypeOK'
  BY <1>1, <1>4, <1>5, Facts DEF TypeOK
<1>7. Plan' /\ Leads'
  BY <1>1, <1>5 DEF Plan, Leads, Busy, Holding, QueueInv
<1>8. KeptIn(session)' /\ CoveredIn(session)'
  BY <1>1, <1>4, SessionGrows
<1>9. KeptIn(rows)'
  BY <1>4, <1>5 DEF QueueInv, Kept, KeptIn, Grows
<1>10. CoveredIn(rows)'
  BY <1>1, <1>2, <1>5 DEF QueueInv, Covered, CoveredIn
<1> QED
  BY <1>1, <1>4, <1>6, <1>7, <1>8, <1>9, <1>10, PlanKeeps DEF Grows

\* The copy is saved.
LEMMA SaveRowKeeps == ASSUME QueueInv, SaveRow PROVE QueueInv'
<1>1. /\ at = "saveRow" /\ session' = rows /\ at' = "capture"
      /\ UNCHANGED <<raw, work, ledger, asked, resuming, rows, todo, entries, held, captured,
                     reading, stopped, fatal, stopAsked, faults, others>>
  BY DEF SaveRow, plan
<1>2. \A r \in Row : rows[r] # "unknown"
  BY <1>1 DEF QueueInv, Plan, Busy
<1>3. session' \in [Row -> Status \cup {"none"}]
  BY <1>1, <1>2, Facts
<1>4. TypeOK'
  BY <1>1, <1>3, Facts DEF TypeOK
<1>5. Plan' /\ Leads'
  BY <1>1, <1>2 DEF QueueInv, Plan, Leads, Busy, Holding
<1>6. KeptIn(rows)' /\ CoveredIn(rows)'
  BY <1>1, Same, RowsGrow
<1>7. KeptIn(session)' /\ CoveredIn(session)'
  BY <1>1, <1>6 DEF KeptIn, CoveredIn
<1> QED
  BY <1>1, <1>4, <1>5, <1>6, <1>7, PlanKeeps

\* Steps that end a run of the coordinator, and leave what is saved.
LEMMA LeavesKeeps ==
    ASSUME QueueInv, Returns, UNCHANGED <<disk, stopAsked, others>>, Fault \/ NoFault
    PROVE  QueueInv'
<1>1. UNCHANGED <<session, raw, work, ledger, asked>>
  BY DEF disk
<1>2. KeptIn(session)' /\ CoveredIn(session)'
  BY <1>1, Same, SessionGrows
<1> QED
  BY <1>1, <1>2, Facts, FaultCounts, ReturnsKeeps

\* A stop, a failed save, a drained run and a death.
LEMMA EndsKeep ==
    ASSUME QueueInv, CaptureStops \/ Drained \/ SaveFails \/ Die
    PROVE  QueueInv'
  BY LeavesKeeps DEF CaptureStops, Drained, SaveFails, Die, NoFault

\* What was captured goes on to be selected, or waits for Continue.
LEMMA CaptureEndsKeeps == ASSUME QueueInv, CaptureEnds PROVE QueueInv'
<1>1. CASE resuming
  <2>1. /\ at = "capture" /\ at' = "select" /\ Capturing = {}
        /\ UNCHANGED <<session, raw, work, ledger, asked, resuming, rows, todo, entries, held,
                       captured, reading, stopped, fatal, stopAsked, faults, others>>
    BY <1>1 DEF CaptureEnds, disk, plan
  <2>2. TypeOK'
    BY <2>1, Facts DEF TypeOK
  <2>3. Plan' /\ Leads'
    BY <2>1 DEF QueueInv, Plan, Leads, Busy, Holding, Capturing
  <2>4. KeptIn(session)' /\ CoveredIn(session)' /\ KeptIn(rows)' /\ CoveredIn(rows)'
    BY <2>1, Same, SessionGrows, RowsGrow
  <2> QED
    BY <2>1, <2>2, <2>3, <2>4, PlanKeeps
<1>2. CASE ~resuming
  BY <1>2, LeavesKeeps DEF CaptureEnds, NoFault
<1> QED
  BY <1>1, <1>2

\* The chunk is marked running; what was covered by a row of it still is.
LEMMA SelectKeeps == ASSUME QueueInv, Select PROVE QueueInv'
<1>1. CASE Selected(rows) = {}
  BY <1>1, LeavesKeeps DEF Select, disk, NoFault
<1>2. CASE Selected(rows) # {}
  <2> DEFINE S == Selected(rows)
  <2>1. /\ at = "select" /\ at' = "check" /\ todo' = S /\ session' = rows'
        /\ rows' = [ r \in Row |-> IF r \in S THEN "running" ELSE rows[r] ]
        /\ UNCHANGED <<raw, work, ledger, asked, resuming, entries, held, captured, reading,
                       stopped, fatal, stopAsked, faults, others>>
    BY <1>2 DEF Select
  <2>2. S \subseteq Row /\ \A r \in S : rows[r] \in {"pending", "running"}
    BY DEF Selected, First
  <2> HIDE DEF S
  <2>3. \A r \in Row : rows[r] # "unknown" /\ rows[r] # "capturing"
    BY <2>1 DEF QueueInv, Plan, Busy
  <2>4. /\ \A r \in S : rows'[r] = "running"
        /\ \A r \in Row : \/ rows'[r] = rows[r]
                          \/ rows'[r] = "running" /\ rows[r] \in {"pending", "running"}
        /\ rows' \in [Row -> Status \cup {"none"}]
    BY <2>1, <2>2, <2>3, Facts DEF Status, Undone
  <2>5. TypeOK'
    BY <2>1, <2>2, <2>4, Facts DEF TypeOK
  <2>6. KeptIn(rows)'
    BY <2>1, <2>4 DEF QueueInv, Kept, KeptIn
  <2>7. CoveredIn(rows)'
    BY <2>1, <2>4 DEF QueueInv, Covered, CoveredIn, Open, Undone
  <2>8. KeptIn(session)' /\ CoveredIn(session)'
    BY <2>1, <2>6, <2>7 DEF KeptIn, CoveredIn
  <2>9. Plan' /\ Leads'
    <3>1. entries = {}
      BY <2>1 DEF QueueInv, Plan, Busy
    <3>2. \A r \in S : DocOf[r] \in raw
      BY <2>2 DEF QueueInv, Kept, KeptIn
    <3>3. \A r \in Row : rows'[r] # "capturing"
      BY <2>3, <2>4
    <3> QED
      BY <2>1, <2>4, <3>1, <3>2, <3>3 DEF Plan, Leads, Holding, Busy
  <2> QED
    BY <2>1, <2>5, <2>6, <2>7, <2>8, <2>9, PlanKeeps
<1> QED
  BY <1>1, <1>2

-----------------------------------------------------------------------------
(* Checking, locking, dispatching *)

\* A row is checked, or cancelled by a stop.
LEMMA CheckKeeps == ASSUME QueueInv, Check PROVE QueueInv'
<1>1. /\ at = "check" /\ todo # {} /\ todo' = todo \ {Next1}
      /\ \/ Says("cancelled") /\ UNCHANGED entries
         \/ entries' = entries \cup {Next1} /\ UNCHANGED rows
      /\ UNCHANGED <<session, raw, work, ledger, asked, at, resuming, held, captured, reading,
                     stopped, fatal, stopAsked, faults, others>>
  BY DEF Check, Took, disk
<1>2. Next1 \in todo /\ Next1 \in Row
  BY <1>1, NextRow
<1>3. /\ \A q \in Row : rows[q] # "capturing"
      /\ \A r \in todo \cup entries : DocOf[r] \in raw /\ rows[r] = "running"
  BY <1>1 DEF QueueInv, Plan, Busy
<1>4. Grows
  BY <1>1, Same
<1>5. /\ rows' \in [Row -> Status \cup {"none", "unknown"}]
      /\ KeptIn(rows)' /\ CoveredIn(rows)'
      /\ \A q \in Row : rows'[q] # "capturing"
  <2>1. CASE Says("cancelled")
    <3>1. "cancelled" \in Status /\ "cancelled" \in Open
      BY DEF Status, Final, Open
    <3> QED
      BY <1>2, <1>3, <1>4, <2>1, <3>1, RowSays DEF Says
  <2>2. CASE UNCHANGED rows
    BY <1>3, <1>4, <2>2, RowsGrow, Facts
  <2> QED
    BY <1>1, <2>1, <2>2
<1>6. \A q \in Row : q # Next1 => rows'[q] = rows[q]
  BY <1>1, Facts DEF Says
<1>7. TypeOK'
  BY <1>1, <1>2, <1>5, Facts DEF TypeOK
<1>8. Plan' /\ Leads'
  <2>1. todo' \cup entries' \subseteq todo \cup entries
    BY <1>1, <1>2
  <2>2. \A r \in todo' \cup entries' : rows'[r] = "running"
    <3>1. CASE Says("cancelled") /\ UNCHANGED entries
      <4>1. Next1 \notin entries
        BY <1>1, <1>2 DEF QueueInv, Plan
      <4> QED
        BY <1>1, <1>3, <1>6, <3>1, <4>1, Facts
    <3>2. CASE UNCHANGED rows
      BY <1>3, <2>1, <3>2
    <3> QED
      BY <1>1, <3>1, <3>2
  <2>3. todo' \cap entries' = {}
    BY <1>1 DEF QueueInv, Plan
  <2> QED
    BY <1>1, <1>3, <1>5, <2>1, <2>2, <2>3 DEF Plan, Leads, Busy, Holding
<1>9. KeptIn(session)' /\ CoveredIn(session)'
  BY <1>1, <1>4, SessionGrows
<1> QED
  BY <1>1, <1>5, <1>7, <1>8, <1>9, PlanKeeps

\* Every document of the chunk is locked.
LEMMA LockKeeps == ASSUME QueueInv, Lock PROVE QueueInv'
<1>1. /\ at = "check" /\ at' = "dispatch" /\ todo' = entries
      /\ held' = { DocOf[r] : r \in entries } /\ raw' = raw \cup held'
      /\ UNCHANGED <<session, work, ledger, asked, resuming, rows, entries, captured, reading,
                     stopped, fatal, stopAsked, faults, others>>
  BY DEF Lock
<1>2. held' \subseteq Doc
  BY <1>1, Facts, DocOfRow
<1>3. Grows /\ raw' \subseteq Doc
  BY <1>1, <1>2, Facts DEF Grows
<1>4. TypeOK'
  BY <1>1, <1>2, <1>3, Facts DEF TypeOK
<1>5. Plan' /\ Leads'
  BY <1>1, <1>3 DEF QueueInv, Plan, Leads, Busy, Holding, Grows
<1>6. KeptIn(session)' /\ CoveredIn(session)' /\ KeptIn(rows)' /\ CoveredIn(rows)'
  BY <1>1, <1>3, SessionGrows, RowsGrow
<1> QED
  BY <1>1, <1>3, <1>4, <1>5, <1>6, PlanKeeps DEF Grows

\* What the dispatch of a row owes: a row put away as a duplicate has its
\* document in the ledger, or was preceded in this chunk by another row of it.
LEMMA DispatchOwes ==
    ASSUME QueueInv, at = "dispatch", todo # {}, todo' = todo \ {Next1},
           UNCHANGED <<session, raw, asked, at, resuming, entries, held, fatal, stopAsked,
                       faults, others>>,
           ledger' \in [Doc -> Entry], work' \in [Doc -> Work], captured' \subseteq Doc,
           reading' \in [Doc -> Reading], stopped' \in BOOLEAN,
           Grows, Books', Requests',
           \/ rows' = rows
           \/ Says("cancelled") \/ Says("unknown")
           \/ Says("duplicate") /\ (Dispatched(d1) \/ ledger'[d1].captures > 0)
    PROVE  QueueInv'
<1>1. Next1 \in todo /\ Next1 \in Row /\ d1 = DocOf[Next1] /\ d1 \in Doc
  BY NextRow
<1>2. /\ \A q \in Row : rows[q] # "capturing"
      /\ \A r \in todo : rows[r] = "running"
      /\ \A r \in todo \cup entries : DocOf[r] \in raw
      /\ todo \subseteq entries /\ \A r \in entries : DocOf[r] \in held
  BY DEF QueueInv, Plan, Busy, Holding
<1>3. Dispatched(d1) => \/ ledger'[d1].captures > 0
                        \/ \E q \in entries \ todo :
                              /\ DocOf[q] = d1
                              /\ rows[q] \in {"running", "cancelled", "unknown"}
  BY <1>1 DEF Dispatched, QueueInv, Leads, Grows
<1>4. entries \subseteq Row
  BY Facts
<1>5. {"running", "cancelled", "unknown"} \subseteq Open
  BY DEF Open, Undone
<1>6. /\ rows' \in [Row -> Status \cup {"none", "unknown"}]
      /\ KeptIn(rows)' /\ CoveredIn(rows)'
      /\ \A q \in Row : rows'[q] # "capturing"
  <2>1. CASE rows' = rows
    BY <1>2, <2>1, Facts, RowsGrow
  <2>2. CASE Says("cancelled") \/ Says("unknown")
    <3>1. "cancelled" \in Status
      BY DEF Status, Final
    <3> QED
      BY <1>1, <1>2, <1>5, <2>2, <3>1, RowSays DEF Says
  <2>3. CASE Says("duplicate") /\ (Dispatched(d1) \/ ledger'[d1].captures > 0)
    <3>1. "duplicate" \in Status
      BY DEF Status, Final
    <3>2. \/ ledger'[d1].captures > 0
          \/ \E q \in Row \ {Next1} : DocOf[q] = d1 /\ rows[q] \in Open
      BY <1>1, <1>3, <1>4, <1>5, <2>3
    <3> QED
      BY <1>1, <1>2, <2>3, <3>1, <3>2, RowSays DEF Says
  <2> QED
    BY <2>1, <2>2, <2>3
<1>7. \A q \in Row : q # Next1 => rows'[q] = rows[q]
  BY Facts DEF Says
<1>8. TypeOK'
  BY <1>6, Facts DEF TypeOK
<1>9. Plan'
  BY <1>1, <1>2, <1>6, <1>7, Facts DEF Plan, Busy, Holding
<1>10. Leads'
  <2> SUFFICES ASSUME NEW x \in entries \ todo'
               PROVE  \/ ledger'[DocOf[x]].captures > 0
                      \/ \E q \in entries \ todo' :
                            /\ DocOf[q] = DocOf[x]
                            /\ rows'[q] \in {"running", "cancelled", "unknown"}
    BY DEF Leads
  <2>1. \A q \in entries \ todo : q \in entries \ todo' /\ q # Next1 /\ q \in Row
    BY <1>1, <1>4
  <2>2. CASE x = Next1
    <3>1. Next1 \in entries \ todo'
      BY <2>2
    <3>2. CASE rows' = rows
      BY <1>1, <1>2, <2>2, <3>1, <3>2
    <3>3. CASE Says("cancelled") \/ Says("unknown")
      <4>1. rows'[Next1] \in {"cancelled", "unknown"}
        BY <1>1, <3>3, Facts DEF Says
      <4> QED
        BY <2>2, <3>1, <4>1
    <3>4. CASE Says("duplicate") /\ (Dispatched(d1) \/ ledger'[d1].captures > 0)
      BY <1>1, <1>3, <1>7, <2>1, <2>2, <3>4
    <3> QED
      BY <3>2, <3>3, <3>4
  <2>3. CASE x # Next1
    <3>1. x \in entries \ todo /\ DocOf[x] \in Doc
      BY <1>4, <2>3, DocOfRow
    <3>2. \/ ledger[DocOf[x]].captures > 0
          \/ \E q \in entries \ todo : /\ DocOf[q] = DocOf[x]
                                       /\ rows[q] \in {"running", "cancelled", "unknown"}
      BY <3>1 DEF QueueInv, Leads
    <3> QED
      BY <1>7, <2>1, <3>1, <3>2 DEF Grows
  <2> QED
    BY <2>2, <2>3
<1>11. KeptIn(session)' /\ CoveredIn(session)'
  BY SessionGrows
<1> QED
  BY <1>6, <1>8, <1>9, <1>10, <1>11 DEF QueueInv, Kept, Covered

\* What was captured for a document that was cancelled.
LEMMA DispatchCancels ==
    ASSUME QueueInv, NEW d \in Doc,
           ledger' = [ledger EXCEPT ![d] = WithCapture(d)],
           captured' = captured \cup {d}, UNCHANGED <<work, raw>>
    PROVE  /\ ledger' \in [Doc -> Entry] /\ captured' \subseteq Doc /\ Grows /\ Books'
           /\ ledger'[d].captures > 0 /\ \A x \in Doc : ledger'[x].posted = ledger[x].posted
<1>1. /\ WithCapture(d) \in Entry /\ WithCapture(d).captures > 0
      /\ WithCapture(d).posted = ledger[d].posted
  BY Captures
<1>2. /\ ledger' \in [Doc -> Entry] /\ ledger'[d] = WithCapture(d)
      /\ \A x \in Doc : x # d => ledger'[x] = ledger[x]
  BY <1>1, Facts
<1>3. Grows
  BY <1>1, <1>2 DEF Grows
<1>4. Books'
  BY <1>1, <1>2 DEF QueueInv, Books
<1> QED
  BY <1>1, <1>2, <1>3, <1>4, Facts

\* A row is dispatched.
LEMMA DispatchKeeps == ASSUME QueueInv, Dispatch PROVE QueueInv'
<1> DEFINE d == DocOf[Next1]
<1>1. /\ at = "dispatch" /\ todo # {} /\ todo' = todo \ {Next1}
      /\ UNCHANGED <<session, raw, asked, at, resuming, entries, held, fatal, stopAsked,
                     faults, others>>
  BY DEF Dispatch, Took
<1>2. Next1 \in todo /\ Next1 \in Row /\ d1 = d /\ d \in Doc
  BY <1>1, NextRow
<1>3. \/ Says("duplicate") /\ Dispatched(d) /\ UNCHANGED <<ledger, work, captured, reading, stopped>>
      \/ /\ Says("cancelled") /\ ledger' = [ledger EXCEPT ![d] = WithCapture(d)]
         /\ captured' = captured \cup {d} /\ UNCHANGED <<work, reading, stopped>>
      \/ /\ Resolved(d) \/ work[d].state = "settled" \/ Known(d)
         /\ Says("duplicate") /\ UNCHANGED <<ledger, work, captured, reading, stopped>>
      \/ /\ Interrupted(d) /\ Restorable(d)
         /\ work' = [work EXCEPT ![d] =
                       IF @.state = "reading"
                       THEN [state |-> "completed", result |-> "facts", capture |-> TRUE]
                       ELSE @]
         /\ reading' = [reading EXCEPT ![d] = Over(work'[d].result)]
         /\ captured' = IF work'[d].capture THEN captured \cup {d} ELSE captured
         /\ UNCHANGED <<rows, ledger, stopped>>
      \/ /\ Says("unknown") /\ stopped' = TRUE
         /\ UNCHANGED <<ledger, work, captured, reading>>
      \/ /\ work[d].state # "settled" /\ ~Interrupted(d)
         /\ work' = [work EXCEPT ![d] = [state |-> "reading", result |-> "nothing",
                                         capture |-> FALSE]]
         /\ \E start \in {Asking, Over("nothing")} : reading' = [reading EXCEPT ![d] = start]
         /\ UNCHANGED <<rows, ledger, captured, stopped>>
  BY DEF Dispatch
<1> HIDE DEF d
<1>4. ASSUME UNCHANGED <<ledger, work, captured, reading>>
      PROVE  Grows /\ Books' /\ Requests'
  BY <1>1, <1>4, Same DEF QueueInv, Books, Requests, RequestsOf
<1>5. CASE Says("duplicate") /\ Dispatched(d) /\ UNCHANGED <<ledger, work, captured, reading, stopped>>
  BY <1>1, <1>2, <1>4, <1>5, Facts, DispatchOwes
<1>6. CASE /\ Says("cancelled") /\ ledger' = [ledger EXCEPT ![d] = WithCapture(d)]
           /\ captured' = captured \cup {d} /\ UNCHANGED <<work, reading, stopped>>
  <2>1. ledger' \in [Doc -> Entry] /\ captured' \subseteq Doc /\ Grows /\ Books'
    BY <1>1, <1>2, <1>6, DispatchCancels
  <2>2. Requests'
    BY <1>1, <1>6 DEF QueueInv, Requests, RequestsOf
  <2> QED
    BY <1>1, <1>2, <1>6, <2>1, <2>2, Facts, DispatchOwes
<1>7. CASE /\ Resolved(d) \/ work[d].state = "settled" \/ Known(d)
           /\ Says("duplicate") /\ UNCHANGED <<ledger, work, captured, reading, stopped>>
  <2>1. ledger'[d].captures > 0
    BY <1>2, <1>7 DEF QueueInv, Books, Resolved, Known
  <2> QED
    BY <1>1, <1>2, <1>4, <1>7, <2>1, Facts, DispatchOwes
<1>8. CASE /\ Interrupted(d) /\ Restorable(d)
           /\ work' = [work EXCEPT ![d] =
                         IF @.state = "reading"
                         THEN [state |-> "completed", result |-> "facts", capture |-> TRUE]
                         ELSE @]
           /\ reading' = [reading EXCEPT ![d] = Over(work'[d].result)]
           /\ captured' = IF work'[d].capture THEN captured \cup {d} ELSE captured
           /\ UNCHANGED <<rows, ledger, stopped>>
  <2>1. PICK w \in Work : /\ work' = [work EXCEPT ![d] = w]
                          /\ w.state \notin {"none", "settled"}
                          /\ w.capture => ledger[d].captures > 0
    <3> DEFINE c == [state |-> "completed", result |-> "facts", capture |-> TRUE]
    <3>1. c \in Work /\ c.state = "completed"
      BY DEF Work
    <3>2. CASE work[d].state = "reading"
      <4>1. ledger[d].captures > 0
        BY <1>8, <3>2 DEF Restorable, AuditComplete
      <4>2. work' = [work EXCEPT ![d] = c]
        BY <1>2, <1>8, <3>2, Facts
      <4> QED
        BY <3>1, <4>1, <4>2
    <3>3. CASE work[d].state # "reading"
      <4>1. work' = [work EXCEPT ![d] = work[d]]
        BY <1>2, <1>8, <3>3, Facts
      <4>2. work[d].capture => ledger[d].captures > 0
        BY <1>2 DEF QueueInv, Books
      <4>3. work[d].state \notin {"none", "settled"} /\ work[d] \in Work
        BY <1>2, <1>8, Facts DEF Interrupted
      <4> QED
        BY <4>1, <4>2, <4>3
    <3> QED
      BY <3>2, <3>3
  <2>2. /\ work' \in [Doc -> Work] /\ work'[d] = w
        /\ \A x \in Doc : x # d => work'[x] = work[x]
    BY <1>2, <2>1, Facts
  <2>3. w.result \in {"facts", "nothing"}
    BY DEF Work
  <2>4. /\ reading' \in [Doc -> Reading] /\ reading'[d] = Over(w.result)
        /\ \A x \in Doc : x # d => reading'[x] = reading[x]
    BY <1>2, <1>8, <2>2, <2>3, Facts, Starts
  <2>5. /\ captured' \subseteq Doc /\ (d \in captured' => d \in captured \/ w.capture)
        /\ \A x \in Doc : x # d /\ x \in captured' => x \in captured
    BY <1>2, <1>8, <2>2, Facts
  <2>6. Grows
    BY <1>1, <1>8, Same
  <2>7. Books'
    BY <1>8, <2>1, <2>2, <2>5 DEF QueueInv, Books
  <2>8. Requests'
    <3> SUFFICES ASSUME NEW x \in Doc PROVE RequestsOf(x)'
      BY DEF Requests
    <3>1. RequestsOf(x)
      BY DEF QueueInv, Requests
    <3>2. CASE x = d
      BY <1>1, <2>1, <2>2, <2>3, <2>4, <3>1, <3>2, Starts DEF RequestsOf
    <3>3. CASE x # d
      BY <1>1, <2>2, <2>4, <3>1, <3>3 DEF RequestsOf
    <3> QED
      BY <3>2, <3>3
  <2> QED
    BY <1>1, <1>8, <2>2, <2>4, <2>5, <2>6, <2>7, <2>8, Facts, DispatchOwes
<1>9. CASE /\ Says("unknown") /\ stopped' = TRUE
           /\ UNCHANGED <<ledger, work, captured, reading>>
  <2>1. stopped' \in BOOLEAN
    BY <1>9, Zenon
  <2> QED
    BY <1>1, <1>4, <1>9, <2>1, Facts, DispatchOwes
<1>10. CASE /\ work[d].state # "settled" /\ ~Interrupted(d)
            /\ work' = [work EXCEPT ![d] = [state |-> "reading", result |-> "nothing",
                                            capture |-> FALSE]]
            /\ \E start \in {Asking, Over("nothing")} : reading' = [reading EXCEPT ![d] = start]
            /\ UNCHANGED <<rows, ledger, captured, stopped>>
  <2> DEFINE w == [state |-> "reading", result |-> "nothing", capture |-> FALSE]
  <2>1. w \in Work /\ w.state = "reading" /\ ~w.capture
    BY DEF Work
  <2>2. work' = [work EXCEPT ![d] = w]
    BY <1>10
  <2> HIDE DEF w
  <2>3. /\ work' \in [Doc -> Work] /\ work'[d] = w
        /\ \A x \in Doc : x # d => work'[x] = work[x]
    BY <1>2, <2>1, <2>2, Facts
  <2>4. PICK start \in {Asking, Over("nothing")} : reading' = [reading EXCEPT ![d] = start]
    BY <1>10
  <2>5. start \in Reading /\ (start.at = "done" \/ (start.at = "ask" /\ start.phase = "classify"))
    BY Starts, Zenon
  <2>6. /\ reading' \in [Doc -> Reading] /\ reading'[d] = start
        /\ \A x \in Doc : x # d => reading'[x] = reading[x]
    BY <1>2, <2>4, <2>5, Facts
  <2>7. work[d].state = "none"
    <3>1. work[d] \in Work
      BY <1>2, Facts
    <3> QED
      BY <1>10, <3>1 DEF Interrupted, Work
  <2>8. Grows
    BY <1>1, <1>10, Same
  <2>9. Books'
    BY <1>10, <2>1, <2>3 DEF QueueInv, Books
  <2>10. Requests'
    <3> SUFFICES ASSUME NEW x \in Doc PROVE RequestsOf(x)'
      BY DEF Requests
    <3>1. RequestsOf(x)
      BY DEF QueueInv, Requests
    <3>2. CASE x = d
      BY <1>1, <2>1, <2>3, <2>5, <2>6, <2>7, <3>1, <3>2 DEF RequestsOf, Phase
    <3>3. CASE x # d
      BY <1>1, <2>3, <2>6, <3>1, <3>3 DEF RequestsOf
    <3> QED
      BY <3>2, <3>3
  <2> QED
    BY <1>1, <1>10, <2>3, <2>6, <2>8, <2>9, <2>10, Facts, DispatchOwes
<1> QED
  BY <1>3, <1>5, <1>6, <1>7, <1>8, <1>9, <1>10

\* The dispatch is over, or a step outside the settlements raised.
LEMMA MovesKeep ==
    ASSUME QueueInv, DispatchEnds \/ ReadEnds \/ AskStop \/ RunRaises
    PROVE  QueueInv'
<1>1. UNCHANGED <<session, raw, work, ledger, asked, resuming, rows, entries, held, captured,
                  reading, fatal, others>>
  BY DEF DispatchEnds, ReadEnds, AskStop, RunRaises, disk, plan
<1>2. KeptIn(session)' /\ CoveredIn(session)' /\ KeptIn(rows)' /\ CoveredIn(rows)'
  BY <1>1, Same, SessionGrows, RowsGrow
<1>3. CASE DispatchEnds
  <2>1. at = "dispatch" /\ at' = "read" /\ UNCHANGED <<todo, stopped, stopAsked, faults>>
    BY <1>3 DEF DispatchEnds, plan
  <2>2. TypeOK'
    BY <1>1, <2>1, Facts DEF TypeOK
  <2>3. Plan' /\ Leads'
    BY <1>1, <2>1 DEF QueueInv, Plan, Leads, Busy, Holding
  <2> QED
    BY <1>1, <1>2, <2>2, <2>3, PlanKeeps
<1>4. CASE ReadEnds
  <2>1. /\ at = "read" /\ at' = "settle" /\ todo' \subseteq entries
        /\ UNCHANGED <<stopped, stopAsked, faults>>
    BY <1>4 DEF ReadEnds
  <2>2. TypeOK'
    BY <1>1, <2>1, Facts DEF TypeOK
  <2>3. Plan' /\ Leads'
    BY <1>1, <2>1 DEF QueueInv, Plan, Leads, Busy, Holding
  <2> QED
    BY <1>1, <1>2, <2>2, <2>3, PlanKeeps
<1>5. CASE AskStop
  <2>1. UNCHANGED <<at, todo, faults>>
    BY <1>5 DEF AskStop, plan
  <2>2. stopped' \in BOOLEAN /\ stopAsked' \in BOOLEAN
    BY <1>5, Zenon DEF AskStop
  <2>3. TypeOK'
    BY <1>1, <2>1, <2>2, Facts DEF TypeOK, Place
  <2>4. Plan' /\ Leads'
    BY <1>1, <2>1 DEF QueueInv, Plan, Leads, d1, Next1
  <2> QED
    BY <1>1, <1>2, <2>3, <2>4, PlanKeeps
<1>6. CASE RunRaises
  <2>1. /\ at \in {"check", "dispatch", "read"} /\ at' = "drain" /\ stopped' = TRUE
        /\ UNCHANGED <<todo, stopAsked>>
    BY <1>6 DEF RunRaises, plan
  <2>2. stopped' \in BOOLEAN /\ faults' \in 0 .. MaxFaults
    <3>1. stopped' \in BOOLEAN
      BY <2>1, Zenon
    <3> QED
      BY <1>6, <3>1, FaultCounts DEF RunRaises
  <2>3. TypeOK'
    BY <1>1, <2>1, <2>2, Facts DEF TypeOK
  <2>4. Plan' /\ Leads'
    BY <1>1, <2>1 DEF QueueInv, Plan, Leads, Busy, Holding
  <2> QED
    BY <1>1, <1>2, <2>3, <2>4, PlanKeeps
<1> QED
  BY <1>3, <1>4, <1>5, <1>6

-----------------------------------------------------------------------------
(* Reading *)

\* What a step of one document's reading owes: the coordinator is where it was.
LEMMA ReadingOwes ==
    ASSUME QueueInv, NEW d \in Doc, NEW u \in Reading,
           reading' = [reading EXCEPT ![d] = u],
           UNCHANGED <<session, raw, at, resuming, rows, todo, entries, held, stopAsked, others>>,
           ledger' \in [Doc -> Entry], work' \in [Doc -> Work],
           asked' \in [Doc -> [Phase -> Nat]], captured' \subseteq Doc,
           stopped' \in BOOLEAN, fatal' \in BOOLEAN, faults' \in 0 .. MaxFaults,
           \A x \in Doc : x # d => asked'[x] = asked[x] /\ work'[x] = work[x],
           \A x \in Doc : ledger'[x].posted = ledger[x].posted,
           Grows, Books', RequestsOf(d)'
    PROVE  QueueInv'
<1>1. /\ reading' \in [Doc -> Reading] /\ reading'[d] = u
      /\ \A x \in Doc : x # d => reading'[x] = reading[x]
  BY Facts
<1>2. TypeOK'
  BY <1>1, Facts DEF TypeOK, Place
<1>3. Requests'
  <2> SUFFICES ASSUME NEW x \in Doc, x # d PROVE RequestsOf(x)'
    BY DEF Requests
  <2>1. RequestsOf(x)
    BY DEF QueueInv, Requests
  <2> QED
    BY <1>1, <2>1 DEF RequestsOf
<1>4. d1' = d1 /\ (todo # {} => d1 \in Doc)
  BY NextRow DEF d1, Next1
<1>5. Plan'
  BY <1>4 DEF QueueInv, Plan, Grows
<1>6. Leads'
  <2>1. \A x \in entries : DocOf[x] \in Doc
    BY Facts, DocOfRow
  <2> QED
    BY <2>1 DEF QueueInv, Leads, Grows
<1>7. KeptIn(session)' /\ CoveredIn(session)' /\ KeptIn(rows)' /\ CoveredIn(rows)'
  BY SessionGrows, RowsGrow
<1> QED
  BY <1>2, <1>3, <1>5, <1>6, <1>7 DEF QueueInv, Kept, Covered

\* Where a reading goes.
LEMMA ReadingGoes ==
    ASSUME QueueInv, NEW d \in Doc,
           NEW place \in {"out", "response", "phase", "done", "raised"}, Goes(d, place)
    PROVE  \E u \in Reading : /\ reading' = [reading EXCEPT ![d] = u]
                              /\ u.at = place /\ u.phase = reading[d].phase
<1> DEFINE u == [reading[d] EXCEPT !.at = place]
<1>1. u \in Reading /\ u.at = place /\ u.phase = reading[d].phase
  BY Facts DEF Reading
<1>2. reading' = [reading EXCEPT ![d] = u]
  BY DEF Goes
<1> QED
  BY <1>1, <1>2

\* A reading has a result.
LEMMA ReadingEnds ==
    ASSUME QueueInv, NEW d \in Doc, NEW x \in {"facts", "nothing"}, Ends(d, x)
    PROVE  \E u \in Reading : reading' = [reading EXCEPT ![d] = u] /\ u.at = "result"
<1> DEFINE u == [reading[d] EXCEPT !.at = "result", !.result = x]
<1>1. u \in Reading /\ u.at = "result"
  BY Facts DEF Reading
<1>2. reading' = [reading EXCEPT ![d] = u]
  BY Facts DEF Ends
<1> QED
  BY <1>1, <1>2

\* A request is sent that was not sent before.
LEMMA PermitKeeps ==
    ASSUME QueueInv, NEW d \in Doc, Permit(d) PROVE QueueInv'
<1>1. /\ reading[d].at = "ask"
      /\ UNCHANGED <<session, raw, work, ledger, at, resuming, rows, todo, entries, held,
                     captured, stopped, fatal, stopAsked, faults, others>>
  BY DEF Permit, plan
<1>2. Grows /\ Books'
  BY <1>1, Same DEF QueueInv, Books
<1>3. RequestsOf(d) /\ reading[d] \in Reading /\ reading[d].phase \in Phase
  BY Facts DEF QueueInv, Requests, Reading
<1>4. CASE ~stopped /\ ~fatal
  <2> DEFINE a == [asked[d] EXCEPT ![reading[d].phase] = @ + 1]
  <2>1. Goes(d, "out") /\ asked' = [asked EXCEPT ![d] = a]
    BY <1>4 DEF Permit
  <2>2. asked[d] \in [Phase -> Nat]
    BY Facts
  <2>3. /\ a \in [Phase -> Nat] /\ a[reading[d].phase] = asked[d][reading[d].phase] + 1
        /\ \A p \in Phase : p # reading[d].phase => a[p] = asked[d][p]
    BY <1>3, <2>2
  <2> HIDE DEF a
  <2>4. /\ asked' \in [Doc -> [Phase -> Nat]] /\ asked'[d] = a
        /\ \A x \in Doc : x # d => asked'[x] = asked[x]
    BY <2>1, <2>3, Facts
  <2>5. PICK u \in Reading : /\ reading' = [reading EXCEPT ![d] = u]
                             /\ u.at = "out" /\ u.phase = reading[d].phase
    BY <2>1, ReadingGoes
  <2>6. reading'[d] = u
    BY <2>5, Facts
  <2>7. work[d].state # "none" /\ asked[d][reading[d].phase] = 0
    BY <1>1, <1>3 DEF RequestsOf
  <2>8. reading[d].phase = "classify" => asked[d]["extract"] = 0 /\ "extract" # reading[d].phase
    BY <1>1, <1>3 DEF RequestsOf
  <2>9. RequestsOf(d)'
    BY <1>1, <1>3, <2>3, <2>4, <2>5, <2>6, <2>7, <2>8 DEF RequestsOf, Phase
  <2> QED
    BY <1>1, <1>2, <2>4, <2>5, <2>9, Facts, ReadingOwes
<1>5. CASE ~(~stopped /\ ~fatal)
  <2>1. Ends(d, "nothing") /\ UNCHANGED asked
    BY <1>5 DEF Permit
  <2>2. PICK u \in Reading : reading' = [reading EXCEPT ![d] = u] /\ u.at = "result"
    BY <2>1, ReadingEnds
  <2>3. reading'[d] = u
    BY <2>2, Facts
  <2>4. RequestsOf(d)'
    BY <1>1, <1>3, <2>1, <2>2, <2>3 DEF RequestsOf
  <2> QED
    BY <1>1, <1>2, <2>1, <2>2, <2>4, Facts, ReadingOwes
<1> QED
  BY <1>4, <1>5

\* What a reading that has begun owes when nothing is asked for.
LEMMA ReadsOn ==
    ASSUME QueueInv, NEW d \in Doc, NEW u \in Reading,
           reading' = [reading EXCEPT ![d] = u], asked' = asked,
           reading[d].at \in {"out", "response", "phase", "result"},
           \/ u.at \in {"result", "done", "raised"}
           \/ /\ u.at \in {"response", "phase"} /\ u.phase = reading[d].phase
              /\ reading[d].at \in {"out", "response"}
           \/ /\ u.at = "ask" /\ u.phase = "extract" /\ reading[d].at = "phase"
              /\ reading[d].phase = "classify",
           work'[d].state # "none"
    PROVE  RequestsOf(d)'
<1>1. RequestsOf(d) /\ reading'[d] = u
  BY Facts DEF QueueInv, Requests
<1> QED
  BY <1>1 DEF RequestsOf

\* The provider answers.
LEMMA AnswerKeeps ==
    ASSUME QueueInv, NEW d \in Doc, Answer(d) PROVE QueueInv'
<1>1. /\ reading[d].at = "out" /\ (Goes(d, "response") \/ Ends(d, "nothing"))
      /\ UNCHANGED <<session, raw, work, ledger, asked, at, resuming, rows, todo, entries, held,
                     captured, stopped, fatal, stopAsked, faults, others>>
  BY DEF Answer, plan, disk
<1>2. Grows /\ Books'
  BY <1>1, Same DEF QueueInv, Books
<1>3. PICK u \in Reading : /\ reading' = [reading EXCEPT ![d] = u]
                           /\ \/ u.at = "response" /\ u.phase = reading[d].phase
                              \/ u.at = "result"
  BY <1>1, ReadingGoes, ReadingEnds
<1>4. work[d].state # "none"
  BY <1>1 DEF QueueInv, Requests, RequestsOf
<1>5. RequestsOf(d)'
  BY <1>1, <1>3, <1>4, ReadsOn
<1> QED
  BY <1>1, <1>2, <1>3, <1>5, Facts, ReadingOwes

\* An answer is recorded, with the capture it needs.
LEMMA ResponseKeeps ==
    ASSUME QueueInv, NEW d \in Doc, RetainResponse(d) PROVE QueueInv'
<1> DEFINE e == [WithCapture(d) EXCEPT !.responses = @ \cup {reading[d].phase}]
<1>1. /\ reading[d].at = "response" /\ (Goes(d, "phase") \/ Ends(d, "nothing"))
      /\ ledger' = [ledger EXCEPT ![d] = e] /\ captured' = captured \cup {d}
      /\ UNCHANGED <<session, raw, work, asked, at, resuming, rows, todo, entries, held,
                     stopped, fatal, stopAsked, faults, others>>
  BY DEF RetainResponse
<1>2. reading[d].phase \in Phase
  BY Facts DEF Reading
<1>3. e \in Entry /\ e.captures > 0 /\ e.posted = ledger[d].posted
  BY <1>2, Captures DEF Entry
<1> HIDE DEF e
<1>4. /\ ledger' \in [Doc -> Entry] /\ ledger'[d] = e
      /\ \A x \in Doc : x # d => ledger'[x] = ledger[x]
  BY <1>1, <1>3, Facts
<1>5. Grows
  BY <1>1, <1>3, <1>4 DEF Grows
<1>6. Books'
  BY <1>1, <1>3, <1>4 DEF QueueInv, Books
<1>7. PICK u \in Reading : /\ reading' = [reading EXCEPT ![d] = u]
                           /\ \/ u.at = "phase" /\ u.phase = reading[d].phase
                              \/ u.at = "result"
  BY <1>1, ReadingGoes, ReadingEnds
<1>8. work[d].state # "none"
  BY <1>1 DEF QueueInv, Requests, RequestsOf
<1>9. RequestsOf(d)'
  BY <1>1, <1>7, <1>8, ReadsOn
<1>10. captured' \subseteq Doc
  BY <1>1, Facts
<1> QED
  BY <1>1, <1>3, <1>4, <1>5, <1>6, <1>7, <1>9, <1>10, Facts, ReadingOwes

\* A phase is recorded; the classification is followed by the extraction.
LEMMA PhaseKeeps ==
    ASSUME QueueInv, NEW d \in Doc, RetainPhase(d) PROVE QueueInv'
<1>1. PICK ok \in BOOLEAN :
          /\ ledger' = [ledger EXCEPT
                ![d].reads = @ \cup {reading[d].phase},
                ![d].parsed = @ \/ (ok /\ reading[d].phase = "extract")]
          /\ IF reading[d].phase = "classify" /\ ok
             THEN reading' = [reading EXCEPT ![d].at = "ask",
                                             ![d].phase = "extract"]
             ELSE Ends(d, IF ok THEN "facts" ELSE "nothing")
  BY DEF RetainPhase
<1>2. /\ reading[d].at = "phase"
      /\ UNCHANGED <<session, raw, work, asked, at, resuming, rows, todo, entries, held,
                     captured, stopped, fatal, stopAsked, faults, others>>
  BY DEF RetainPhase, plan
<1>3. reading[d] \in Reading /\ reading[d].phase \in Phase /\ ledger[d] \in Entry
  BY Facts DEF Reading
<1> DEFINE b == ledger[d].parsed \/ (ok /\ reading[d].phase = "extract")
           e == [ledger[d] EXCEPT !.reads = @ \cup {reading[d].phase}, !.parsed = b]
<1>4. b \in BOOLEAN
  OBVIOUS
<1>5. ledger' = [ledger EXCEPT ![d] = e]
  BY <1>1, Facts
<1> HIDE DEF b
<1>6. /\ e \in Entry /\ e.captures = ledger[d].captures /\ e.posted = ledger[d].posted
      /\ e.responses = ledger[d].responses
  BY <1>3, <1>4 DEF Entry
<1> HIDE DEF e
<1>7. /\ ledger' \in [Doc -> Entry] /\ ledger'[d] = e
      /\ \A x \in Doc : x # d => ledger'[x] = ledger[x]
  BY <1>5, <1>6, Facts
<1>8. Grows
  BY <1>2, <1>6, <1>7 DEF Grows
<1>9. Books'
  BY <1>2, <1>6, <1>7 DEF QueueInv, Books
<1>10. PICK u \in Reading : /\ reading' = [reading EXCEPT ![d] = u]
                            /\ \/ /\ u.at = "ask" /\ u.phase = "extract"
                                  /\ reading[d].phase = "classify"
                               \/ u.at = "result"
  <2>1. CASE reading[d].phase = "classify" /\ ok
    <3> DEFINE v == [reading[d] EXCEPT !.at = "ask", !.phase = "extract"]
    <3>1. v \in Reading /\ v.at = "ask" /\ v.phase = "extract"
      BY <1>3 DEF Reading, Phase
    <3>2. reading' = [reading EXCEPT ![d] = v]
      BY <1>1, <2>1, Facts
    <3> QED
      BY <2>1, <3>1, <3>2
  <2>2. CASE ~(reading[d].phase = "classify" /\ ok)
    BY <1>1, <2>2, ReadingEnds
  <2> QED
    BY <2>1, <2>2
<1>11. work[d].state # "none"
  BY <1>2 DEF QueueInv, Requests, RequestsOf
<1>12. RequestsOf(d)'
  BY <1>2, <1>10, <1>11, ReadsOn
<1> QED
  BY <1>2, <1>6, <1>7, <1>8, <1>9, <1>10, <1>12, Facts, ReadingOwes

\* A result is sealed.
LEMMA SealKeeps ==
    ASSUME QueueInv, NEW d \in Doc, SealResult(d) PROVE QueueInv'
<1> DEFINE w == [state |-> "completed", result |-> reading[d].result,
                 capture |-> d \in captured]
<1>1. /\ reading[d].at = "result" /\ Goes(d, "done")
      /\ work' = [work EXCEPT ![d] = w]
      /\ UNCHANGED <<session, raw, ledger, asked, at, resuming, rows, todo, entries, held,
                     captured, stopped, fatal, stopAsked, faults, others>>
  BY DEF SealResult, plan
<1>2. reading[d].result \in {"facts", "nothing"} /\ (d \in captured) \in BOOLEAN
  BY Facts DEF Reading
<1>3. w \in Work /\ w.state = "completed" /\ (w.capture => d \in captured)
  BY <1>2 DEF Work
<1> HIDE DEF w
<1>4. /\ work' \in [Doc -> Work] /\ work'[d] = w
      /\ \A x \in Doc : x # d => work'[x] = work[x]
  BY <1>1, <1>3, Facts
<1>5. Grows
  BY <1>1, Same
<1>6. Books'
  BY <1>1, <1>3, <1>4 DEF QueueInv, Books
<1>7. PICK u \in Reading : reading' = [reading EXCEPT ![d] = u] /\ u.at = "done"
  BY <1>1, ReadingGoes
<1>8. RequestsOf(d)'
  BY <1>1, <1>3, <1>4, <1>7, ReadsOn
<1> QED
  BY <1>1, <1>4, <1>5, <1>6, <1>7, <1>8, Facts, ReadingOwes

\* An acknowledgement fails.
LEMMA ServiceKeeps ==
    ASSUME QueueInv, NEW d \in Doc, ServiceFails(d) PROVE QueueInv'
<1>1. /\ reading[d].at \in {"response", "phase", "result"}
      /\ Goes(d, "raised") \/ Ends(d, "nothing")
      /\ fatal' = TRUE /\ stopped' = TRUE
      /\ UNCHANGED <<session, raw, work, ledger, asked, at, resuming, rows, todo, entries, held,
                     captured, stopAsked, others>>
  BY DEF ServiceFails, plan, disk
<1>2. fatal' \in BOOLEAN /\ stopped' \in BOOLEAN
  BY <1>1, Zenon
<1>3. faults' \in 0 .. MaxFaults
  BY FaultCounts DEF ServiceFails
<1>4. Grows /\ Books'
  BY <1>1, Same DEF QueueInv, Books
<1>5. PICK u \in Reading : reading' = [reading EXCEPT ![d] = u] /\ u.at \in {"raised", "result"}
  BY <1>1, ReadingGoes, ReadingEnds
<1>6. work[d].state # "none"
  BY <1>1 DEF QueueInv, Requests, RequestsOf
<1>7. RequestsOf(d)'
  BY <1>1, <1>5, <1>6, ReadsOn
<1> QED
  BY <1>1, <1>2, <1>3, <1>4, <1>5, <1>7, Facts, ReadingOwes

-----------------------------------------------------------------------------
(* Settling *)

\* What a step of a settlement owes: an outcome other than an unknown one has
\* its document in the ledger, and a posted one its effects.
LEMMA SettleOwes ==
    ASSUME QueueInv, at \in {"settle", "ingest", "post", "mark"}, todo # {},
           UNCHANGED <<session, raw, asked, resuming, entries, held, reading, stopAsked, others>>,
           ledger' \in [Doc -> Entry], work' \in [Doc -> Work], captured' \subseteq Doc,
           stopped' \in BOOLEAN, fatal' \in BOOLEAN, faults' \in 0 .. MaxFaults,
           \A x \in Doc : work'[x].state = "none" => work[x].state = "none",
           Grows, Books',
           \/ rows' = rows
           \/ \E st \in {"posted", "parked", "duplicate", "failed", "unknown"} :
                 /\ Says(st) /\ (st # "unknown" => ledger'[d1].captures > 0)
                 /\ (st = "posted" => ledger'[d1].posted > 0),
           \/ at' = "settle" /\ todo' = todo \ {Next1}
           \/ /\ at' \in {"ingest", "post", "mark"} /\ todo' = todo
              /\ (at' = "post" => ledger'[d1].posted = 0)
              /\ (at' \in {"post", "mark"} => ledger'[d1].captures > 0)
    PROVE  QueueInv'
<1>1. Next1 \in todo /\ Next1 \in Row /\ d1 = DocOf[Next1] /\ d1 \in Doc
  BY NextRow
<1>2. /\ \A q \in Row : rows[q] # "capturing"
      /\ \A r \in todo \cup entries : DocOf[r] \in raw
      /\ todo \subseteq entries /\ \A r \in entries : DocOf[r] \in held
  BY DEF QueueInv, Plan, Busy, Holding
<1>3. /\ rows' \in [Row -> Status \cup {"none", "unknown"}]
      /\ KeptIn(rows)' /\ CoveredIn(rows)'
      /\ \A q \in Row : rows'[q] # "capturing"
  <2>1. CASE rows' = rows
    BY <1>2, <2>1, Facts, RowsGrow
  <2>2. ASSUME NEW st \in {"posted", "parked", "duplicate", "failed", "unknown"},
               Says(st), st # "unknown" => ledger'[d1].captures > 0,
               st = "posted" => ledger'[d1].posted > 0
        PROVE  /\ rows' \in [Row -> Status \cup {"none", "unknown"}]
               /\ KeptIn(rows)' /\ CoveredIn(rows)'
               /\ \A q \in Row : rows'[q] # "capturing"
    <3>1. /\ st \in Status \cup {"unknown"} /\ st # "capturing"
          /\ (st = "unknown" => st \in Open)
      BY <2>2 DEF Status, Final, Open
    <3> QED
      BY <1>1, <1>2, <2>2, <3>1, RowSays DEF Says
  <2> QED
    BY <2>1, <2>2
<1>4. /\ todo' \subseteq todo
      /\ (at' # "settle" => todo' = todo)
      /\ at' \in {"settle", "ingest", "post", "mark"}
  BY <1>1
<1>5. TypeOK'
  BY <1>3, <1>4, Facts DEF TypeOK
<1>6. Requests'
  <2> SUFFICES ASSUME NEW x \in Doc PROVE RequestsOf(x)'
    BY DEF Requests
  <2>1. RequestsOf(x)
    BY DEF QueueInv, Requests
  <2> QED
    BY <2>1 DEF RequestsOf
<1>7. Plan' /\ Leads'
  <2>1. at' # "settle" => d1' = d1
    BY <1>4 DEF d1, Next1
  <2> QED
    BY <1>2, <1>3, <1>4, <2>1 DEF Plan, Leads, Busy, Holding
<1>8. KeptIn(session)' /\ CoveredIn(session)'
  BY SessionGrows
<1> QED
  BY <1>3, <1>5, <1>6, <1>7, <1>8 DEF QueueInv, Kept, Covered

\* The result is sealed again.
LEMMA SettlingKeeps == ASSUME QueueInv, Settling PROVE QueueInv'
<1> DEFINE w == [state |-> "settling", result |-> reading[d1].result,
                 capture |-> d1 \in captured]
<1>1. /\ at = "settle" /\ todo # {} /\ at' = "ingest"
      /\ work' = [work EXCEPT ![d1] = w]
      /\ UNCHANGED <<session, raw, ledger, asked, resuming, rows, todo, entries, held, captured,
                     reading, stopped, fatal, stopAsked, faults, others>>
  BY DEF Settling, plan
<1>2. d1 \in Doc
  BY <1>1, NextRow
<1>3. reading[d1].result \in {"facts", "nothing"} /\ (d1 \in captured) \in BOOLEAN
  BY <1>2, Facts DEF Reading
<1>4. w \in Work /\ w.state = "settling" /\ (w.capture => d1 \in captured)
  BY <1>3 DEF Work
<1> HIDE DEF w
<1>5. /\ work' \in [Doc -> Work] /\ work'[d1] = w
      /\ \A x \in Doc : x # d1 => work'[x] = work[x]
  BY <1>1, <1>2, <1>4, Facts
<1>6. Books'
  BY <1>1, <1>4, <1>5 DEF QueueInv, Books
<1>7. \A x \in Doc : work'[x].state = "none" => work[x].state = "none"
  BY <1>4, <1>5
<1> QED
  BY <1>1, <1>5, <1>6, <1>7, Same, Facts, SettleOwes

\* A settlement that nothing was done for, or whose phases were lost.
LEMMA SettleUnknownKeeps == ASSUME QueueInv, SettleUnknown PROVE QueueInv'
<1>1. /\ at = "settle" /\ todo # {} /\ Says("unknown") /\ todo' = todo \ {Next1}
      /\ UNCHANGED <<session, raw, work, ledger, asked, at, resuming, entries, held, captured,
                     reading, stopAsked, faults, others>>
  BY DEF SettleUnknown, Took, disk
<1>2. stopped' \in BOOLEAN /\ fatal' \in BOOLEAN
  BY Zenon DEF SettleUnknown
<1>3. Books'
  BY <1>1 DEF QueueInv, Books
<1> QED
  BY <1>1, <1>2, <1>3, Same, Facts, SettleOwes

\* The same, when the answers were recorded and the phases were not.
LEMMA SettleLostKeeps == ASSUME QueueInv, SettleLost PROVE QueueInv'
<1>1. /\ at = "settle" /\ todo # {} /\ Says("failed") /\ todo' = todo \ {Next1}
      /\ ledger[d1].responses # {}
      /\ UNCHANGED <<session, raw, work, ledger, asked, at, resuming, entries, held, captured,
                     reading, stopped, fatal, stopAsked, faults, others>>
  BY DEF SettleLost, Took, disk, Lost
<1>2. Books' /\ ledger'[d1].captures > 0
  BY <1>1, NextRow DEF QueueInv, Books
<1> QED
  BY <1>1, <1>2, Same, Facts, SettleOwes

\* What is not posted yet is captured, and posted or parked.
LEMMA IngestKeeps == ASSUME QueueInv, Ingest PROVE QueueInv'
<1>1. /\ at = "ingest" /\ todo # {}
      /\ UNCHANGED <<session, raw, work, asked, resuming, todo, entries, held, reading, stopped,
                     fatal, stopAsked, faults, others>>
  BY DEF Ingest, QueueInv, Plan
<1>2. d1 \in Doc
  BY <1>1, NextRow
<1>3. CASE Resolved(d1)
  <2>1. Says("duplicate") /\ at' = "mark" /\ UNCHANGED <<ledger, captured>>
    BY <1>3 DEF Ingest
  <2>2. Books' /\ ledger'[d1].captures > 0
    BY <1>1, <1>2, <1>3, <2>1 DEF QueueInv, Books, Resolved
  <2> QED
    BY <1>1, <2>1, <2>2, Same, Facts, SettleOwes
<1>4. CASE ~Resolved(d1)
  <2>1. /\ ledger' = [ledger EXCEPT ![d1] = WithCapture(d1)]
        /\ captured' = captured \cup {d1}
        /\ \/ at' = "post" /\ UNCHANGED rows
           \/ at' = "mark" /\ Says("parked")
    BY <1>4 DEF Ingest
  <2>2. /\ ledger' \in [Doc -> Entry] /\ captured' \subseteq Doc /\ Grows /\ Books'
        /\ ledger'[d1].captures > 0 /\ ledger'[d1].posted = ledger[d1].posted
    BY <1>1, <1>2, <2>1, DispatchCancels
  <2>3. ledger[d1].posted = 0
    <3>1. ledger[d1].posted \in Nat
      BY <1>2, Facts, Entries
    <3> QED
      BY <1>4, <3>1 DEF Resolved
  <2> QED
    BY <1>1, <2>1, <2>2, <2>3, Facts, SettleOwes
<1> QED
  BY <1>3, <1>4

\* The effects of a document that has none are posted.
LEMMA PostKeeps == ASSUME QueueInv, Post PROVE QueueInv'
<1> DEFINE e == [ledger[d1] EXCEPT !.posted = @ + 1]
<1>1. /\ at = "post" /\ todo # {} /\ at' = "mark" /\ Says("posted")
      /\ ledger[d1].posted = 0
      /\ ledger' = [ledger EXCEPT ![d1].posted = @ + 1]
      /\ UNCHANGED <<session, raw, work, asked, resuming, todo, entries, held, captured, reading,
                     stopped, fatal, stopAsked, faults, others>>
  BY DEF Post, QueueInv, Plan
<1>2. d1 \in Doc
  BY <1>1, NextRow
<1>3. ledger[d1] \in Entry
  BY <1>2, Facts
<1>4. ledger' = [ledger EXCEPT ![d1] = e]
  BY <1>1
<1>5. e \in Entry /\ e.posted = 1 /\ e.captures = ledger[d1].captures
  BY <1>1, <1>3 DEF Entry
<1> HIDE DEF e
<1>6. /\ ledger' \in [Doc -> Entry] /\ ledger'[d1] = e
      /\ \A x \in Doc : x # d1 => ledger'[x] = ledger[x]
  BY <1>2, <1>4, <1>5, Facts
<1>7. ledger[d1].captures > 0
  BY <1>1 DEF QueueInv, Plan
<1>8. Grows
  BY <1>1, <1>5, <1>6 DEF Grows
<1>9. Books'
  BY <1>1, <1>5, <1>6, <1>7 DEF QueueInv, Books
<1> QED
  BY <1>1, <1>5, <1>6, <1>7, <1>8, <1>9, Facts, SettleOwes

\* The continuation is marked as settled; its document is in the ledger.
LEMMA MarkKeeps == ASSUME QueueInv, MarkSettled PROVE QueueInv'
<1> DEFINE w == [work[d1] EXCEPT !.state = "settled"]
<1>1. /\ at = "mark" /\ todo # {} /\ at' = "settle" /\ todo' = todo \ {Next1}
      /\ ledger[d1].captures > 0
      /\ work' = [work EXCEPT ![d1].state = "settled"]
      /\ UNCHANGED <<session, raw, ledger, asked, resuming, rows, entries, held, captured,
                     reading, stopped, fatal, stopAsked, faults, others>>
  BY DEF MarkSettled, Took, QueueInv, Plan
<1>2. d1 \in Doc
  BY <1>1, NextRow
<1>3. work[d1] \in Work
  BY <1>2, Facts
<1>4. work' = [work EXCEPT ![d1] = w]
  BY <1>1
<1>5. w \in Work /\ w.state = "settled"
  BY <1>3 DEF Work
<1> HIDE DEF w
<1>6. /\ work' \in [Doc -> Work] /\ work'[d1] = w
      /\ \A x \in Doc : x # d1 => work'[x] = work[x]
  BY <1>2, <1>4, <1>5, Facts
<1>7. Books'
  BY <1>1, <1>6 DEF QueueInv, Books
<1>8. \A x \in Doc : work'[x].state = "none" => work[x].state = "none"
  BY <1>5, <1>6
<1> QED
  BY <1>1, <1>6, <1>7, <1>8, Same, Facts, SettleOwes

\* A step of a settlement raises, before or after what it did.
LEMMA SettleRaisesKeeps == ASSUME QueueInv, SettleRaises PROVE QueueInv'
<1>1. /\ at \in {"settle", "ingest", "post", "mark"} /\ todo # {} /\ Says("unknown")
      /\ todo' = todo \ {Next1} /\ at' = "settle"
      /\ UNCHANGED <<session, raw, work, ledger, asked, resuming, entries, held, captured,
                     reading, stopAsked, others>>
  BY DEF SettleRaises, Took, disk, QueueInv, Plan
<1>2. stopped' \in BOOLEAN /\ fatal' \in BOOLEAN
  BY Zenon DEF SettleRaises
<1>3. faults' \in 0 .. MaxFaults
  BY FaultCounts DEF SettleRaises
<1>4. Books'
  BY <1>1 DEF QueueInv, Books
<1> QED
  BY <1>1, <1>2, <1>3, <1>4, Same, Facts, SettleOwes

\* What is saved at the end is the copy, with the unknown rows still running.
LEMMA FinishKeeps == ASSUME QueueInv, Finish PROVE QueueInv'
<1>1. /\ at = "settle" /\ session' = [r \in Row |-> Saved(rows[r])] /\ Returns
      /\ UNCHANGED <<raw, work, ledger, asked, stopAsked, faults, others>>
  BY DEF Finish
<1>2. \A r \in Row : session'[r] = rows[r] \/ (rows[r] = "unknown" /\ session'[r] = "running")
  BY <1>1 DEF Saved
<1>3. session' \in [Row -> Status \cup {"none"}]
  BY <1>1, Facts DEF Saved, Status, Undone
<1>4. \A r \in Row : rows[r] # "capturing"
  BY <1>1 DEF QueueInv, Plan
<1>5. KeptIn(session)'
  BY <1>1, <1>2 DEF QueueInv, Kept, KeptIn
<1>6. CoveredIn(session)'
  BY <1>1, <1>2, <1>4 DEF QueueInv, Covered, CoveredIn, Open, Undone
<1> QED
  BY <1>1, <1>3, <1>5, <1>6, Facts, ReturnsKeeps

-----------------------------------------------------------------------------
(* Other processes, and the specification *)

\* Another process ingests a document that the coordinator has not locked.
LEMMA OtherKeeps ==
    ASSUME QueueInv, NEW d \in Doc, Other(d) PROVE QueueInv'
<1>1. /\ d \notin held /\ others < MaxOthers /\ others' = others + 1
      /\ raw' = raw \cup {d} /\ ~Resolved(d)
      /\ UNCHANGED <<session, work, asked, at, resuming, rows, todo, entries, held, captured,
                     reading, stopped, fatal, stopAsked, faults>>
  BY DEF Other, Free, plan
<1>2. PICK read \in BOOLEAN : \E facts \in {FALSE, read} :
          ledger' = [ledger EXCEPT ![d].captures = @ + 1,
                                   ![d].foreign = @ \/ read,
                                   ![d].posted = IF facts THEN @ + 1 ELSE @]
  BY DEF Other
<1>3. PICK facts \in {FALSE, read} :
          ledger' = [ledger EXCEPT ![d].captures = @ + 1,
                                   ![d].foreign = @ \/ read,
                                   ![d].posted = IF facts THEN @ + 1 ELSE @]
  BY <1>2
<1>4. ledger[d] \in Entry /\ ledger[d].posted = 0
  <2>1. ledger[d] \in Entry /\ ledger[d].posted \in Nat
    BY Facts, Entries
  <2> QED
    BY <1>1, <2>1 DEF Resolved
<1> DEFINE b == ledger[d].foreign \/ read
           n == IF facts THEN ledger[d].posted + 1 ELSE ledger[d].posted
           e == [ledger[d] EXCEPT !.captures = @ + 1, !.foreign = b, !.posted = n]
<1>5. b \in BOOLEAN
  OBVIOUS
<1>6. n \in {0, 1}
  BY <1>4
<1>7. ledger' = [ledger EXCEPT ![d] = e]
  BY <1>3, Facts
<1> HIDE DEF b, n
<1>8. e \in Entry /\ e.captures > 0 /\ e.posted \in {0, 1}
  <2>1. ledger[d].captures + 1 \in Nat /\ ledger[d].captures + 1 > 0
    BY <1>4, Entries
  <2>2. n \in Nat
    BY <1>6
  <2> QED
    BY <1>4, <1>5, <1>6, <2>1, <2>2 DEF Entry
<1> HIDE DEF e
<1>9. /\ ledger' \in [Doc -> Entry] /\ ledger'[d] = e
      /\ \A x \in Doc : x # d => ledger'[x] = ledger[x]
  BY <1>7, <1>8, Facts
<1>10. Grows /\ raw' \subseteq Doc
  BY <1>1, <1>4, <1>8, <1>9, Facts DEF Grows
<1>11. others' \in 0 .. MaxOthers
  BY <1>1, Facts, QueueAssumption
<1>12. TypeOK'
  BY <1>1, <1>9, <1>10, <1>11, Facts DEF TypeOK, Place
<1>13. Books'
  BY <1>1, <1>8, <1>9 DEF QueueInv, Books
<1>14. Requests'
  BY <1>1 DEF QueueInv, Requests, RequestsOf
<1>15. d1' = d1 /\ (todo # {} => d1 \in Doc)
  BY <1>1, NextRow DEF d1, Next1
<1>16. at \in {"post", "mark"} => d1 # d /\ d1 \in Doc
  <2> SUFFICES ASSUME at \in {"post", "mark"} PROVE d1 # d /\ d1 \in Doc
    OBVIOUS
  <2>1. todo # {} /\ \A r \in todo : DocOf[r] \in held
    BY DEF QueueInv, Plan, Holding
  <2>2. Next1 \in todo /\ d1 = DocOf[Next1] /\ d1 \in Doc
    BY <2>1, NextRow
  <2> QED
    BY <1>1, <2>1, <2>2
<1>17. Plan'
  BY <1>1, <1>9, <1>10, <1>15, <1>16 DEF QueueInv, Plan, Grows
<1>18. Leads'
  <2>1. \A x \in entries : DocOf[x] \in Doc
    BY Facts, DocOfRow
  <2> QED
    BY <1>1, <1>10, <2>1 DEF QueueInv, Leads, Grows
<1>19. KeptIn(session)' /\ CoveredIn(session)' /\ KeptIn(rows)' /\ CoveredIn(rows)'
  BY <1>1, <1>10, SessionGrows, RowsGrow
<1> QED
  BY <1>12, <1>13, <1>14, <1>17, <1>18, <1>19 DEF QueueInv, Kept, Covered

\* Nothing has been selected.
LEMMA InitHolds == Init => QueueInv
<1> SUFFICES ASSUME Init PROVE QueueInv
  OBVIOUS
<1>1. /\ at = "idle" /\ entries = {} /\ captured = {}
      /\ \A r \in Row : session[r] = "none" /\ rows[r] = "none"
      /\ \A d \in Doc : /\ reading[d] = NoReading /\ work[d].state = "none" /\ ~work[d].capture
                        /\ ledger[d].posted = 0 /\ ledger[d].captures = 0
                        /\ ledger[d].responses = {}
                        /\ \A p \in Phase : asked[d][p] = 0
  BY DEF Init
<1>2. TypeOK
  <2>1. reading \in [Doc -> Reading]
    BY Starts DEF Init
  <2>2. work \in [Doc -> Work]
    BY DEF Init, Work
  <2>3. ledger \in [Doc -> Entry]
    BY DEF Init, Entry
  <2>4. resuming \in BOOLEAN /\ stopped \in BOOLEAN /\ fatal \in BOOLEAN /\ stopAsked \in BOOLEAN
    BY Zenon DEF Init
  <2>5. asked \in [Doc -> [Phase -> Nat]]
    BY DEF Init
  <2>6. faults \in 0 .. MaxFaults /\ others \in 0 .. MaxOthers
    BY QueueAssumption DEF Init
  <2> QED
    BY <2>1, <2>2, <2>3, <2>4, <2>5, <2>6 DEF Init, TypeOK
<1>3. Books
  BY <1>1 DEF Books
<1>4. Requests
  BY <1>1, Starts DEF Requests, RequestsOf, Phase
<1>5. Plan /\ Leads
  BY <1>1 DEF Plan, Leads, Busy, Holding
<1>6. Kept /\ Covered
  BY <1>1 DEF Kept, KeptIn, Covered, CoveredIn
<1> QED
  BY <1>2, <1>3, <1>4, <1>5, <1>6 DEF QueueInv

\* Every step preserves the invariant.
LEMMA NextKeeps == QueueInv /\ [Next]_vars => QueueInv'
<1> SUFFICES ASSUME QueueInv, [Next]_vars PROVE QueueInv'
  OBVIOUS
<1>1. CASE Enqueue
  BY <1>1, EnqueueKeeps
<1>2. CASE Continue
  BY <1>2, ContinueKeeps
<1>3. CASE CoordinatorStep
  BY <1>3, CaptureKeeps, SaveRowKeeps, EndsKeep, CaptureEndsKeeps, SelectKeeps, CheckKeeps,
     LockKeeps, DispatchKeeps, MovesKeep, SettlingKeeps, SettleUnknownKeeps, SettleLostKeeps,
     IngestKeeps, PostKeeps, MarkKeeps, FinishKeeps DEF CoordinatorStep
<1>4. ASSUME NEW d \in Doc, ReadStep(d) \/ ServiceFails(d) \/ Other(d) PROVE QueueInv'
  BY <1>4, PermitKeeps, AnswerKeeps, ResponseKeeps, PhaseKeeps, SealKeeps, ServiceKeeps,
     OtherKeeps DEF ReadStep
<1>5. CASE SettleRaises
  BY <1>5, SettleRaisesKeeps
<1>6. CASE AskStop \/ RunRaises
  BY <1>6, MovesKeep
<1>7. CASE SaveFails \/ Die
  BY <1>7, EndsKeep
<1>8. CASE UNCHANGED vars
  <2>1. UNCHANGED <<session, raw, work, ledger, asked, at, resuming, rows, todo, entries, held,
                    captured, reading, stopped, fatal, stopAsked, faults, others>>
    BY <1>8 DEF vars, disk, plan
  <2>2. TypeOK'
    BY <2>1, Facts DEF TypeOK, Place
  <2>3. KeptIn(session)' /\ CoveredIn(session)' /\ KeptIn(rows)' /\ CoveredIn(rows)'
    BY <2>1, Same, SessionGrows, RowsGrow
  <2>4. d1' = d1
    BY <2>1 DEF d1, Next1
  <2>5. Plan' /\ Leads'
    BY <2>1, <2>4 DEF QueueInv, Plan, Leads
  <2> QED
    BY <2>1, <2>2, <2>3, <2>5, PlanKeeps
<1> QED
  BY <1>1, <1>2, <1>3, <1>4, <1>5, <1>6, <1>7, <1>8 DEF Next

\* The queue's invariant holds at every step.
THEOREM Invariance == Spec => []QueueInv
  BY InitHolds, NextKeeps, PTL DEF Spec

\* The saved selection, the continuations, the ledger and the coordinator's
\* state have their types.
THEOREM TypeCorrect == Spec => []TypeOK
<1>1. QueueInv => TypeOK
  BY DEF QueueInv
<1> QED
  BY <1>1, Invariance, PTL

\* Neither a provider request nor a posting is repeated, for every selection,
\* every number of rows that name a document, and every number of deaths,
\* failures and ingestions by other processes.
THEOREM NothingRepeated == Spec => []NothingTwice
<1>1. QueueInv => NothingTwice
  BY DEF QueueInv, Books, Requests, RequestsOf, NothingTwice
<1> QED
  BY <1>1, Invariance, PTL

\* A row that no longer needs its source file has its original sealed,
\* whatever was interrupted between the sealing and the saving.
THEOREM OriginalsAreKept == Spec => []OriginalKept
<1>1. QueueInv => OriginalKept
  BY DEF QueueInv, Kept, KeptIn, OriginalKept
<1> QED
  BY <1>1, Invariance, PTL

\* What the saved selection puts away as posted is on the books, and what it
\* puts away as a duplicate is in the ledger or carried by another row.
THEOREM DuplicatesAreCovered == Spec => []DuplicateIsCovered
<1>1. ASSUME QueueInv PROVE DuplicateIsCovered
  <2>1. \A r \in Row : session[r] \in Open => session[r] \in Undone \cup {"cancelled"}
    BY <1>1, Facts DEF Status, Undone, Final, Open
  <2> QED
    BY <1>1, <2>1 DEF QueueInv, Covered, CoveredIn, DuplicateIsCovered
<1> QED
  BY <1>1, Invariance, PTL

=============================================================================
