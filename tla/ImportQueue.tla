---------------------------- MODULE ImportQueue ----------------------------
(***************************************************************************)
(* One saved selection of documents on its way through the import queue:    *)
(* desktop_bridge/import_sessions.py keeps the selection, one coordinator   *)
(* (bulk_documents.py) reads at most Chunk documents of it at a time through *)
(* reading threads, and import_checkpoints.py seals what each reading       *)
(* reached, so that a sidecar that dies can go on without asking a provider  *)
(* again.  Other processes ingest documents of the same vault meanwhile.     *)
(*                                                                         *)
(* A row names a document by its content, so two rows may name the same.    *)
(* A reading is two requests to a provider; the retries within one are not  *)
(* told apart.  What is read is "facts" or "nothing".  Reading kept          *)
(* documents again on a person's confirmation, and importing paths without  *)
(* a queue, are left out.                                                   *)
(***************************************************************************)
EXTENDS Integers, FiniteSets, FiniteSetsExt

CONSTANTS
    Rows,          \* rows of the selection
    Docs,          \* documents
    DocOf,         \* the document of each row
    Chunk,         \* rows taken by one Continue (3)
    MaxFaults,     \* bound: deaths, and steps that raise
    MaxOthers      \* bound: ingestions by other processes

ASSUME QueueAssumption ==
    /\ Rows \in Nat \ {0} /\ Docs \in Nat \ {0} /\ Chunk \in Nat \ {0}
    /\ DocOf \in [1 .. Rows -> 1 .. Docs]
    /\ MaxFaults \in Nat /\ MaxOthers \in Nat

Row == 1 .. Rows
Doc == 1 .. Docs
Phase == {"classify", "extract"}

Undone == {"capturing", "pending", "running"}
Final == {"posted", "parked", "duplicate", "refused", "failed", "cancelled"}
Status == Undone \cup Final

\* A document's continuation, and the result and capture sealed in it
Work == [state : {"none", "reading", "completed", "settling", "settled"},
         result : {"facts", "nothing"}, capture : BOOLEAN]

\* What the ledger says of a document: captures, responses and recorded
\* phases of the queue's reading, whether its extraction parsed, readings
\* by others, and how often its effects were posted
Entry == [captures : Nat, responses : SUBSET Phase, reads : SUBSET Phase,
          parsed : BOOLEAN, foreign : BOOLEAN, posted : Nat]

\* A reading: not started, before a request, waiting for the provider, with
\* an answer to record, with a phase to record, with a result, or over.
Reading == [at : {"none", "ask", "out", "response", "phase", "result", "done",
                  "raised"},
            phase : Phase, result : {"facts", "nothing"}]
NoReading == [at |-> "none", phase |-> "classify", result |-> "nothing"]
Asking == [NoReading EXCEPT !.at = "ask"]
Over(result) == [at |-> "done", phase |-> "classify", result |-> result]

VARIABLES
    session,    \* import-sessions: the saved status of each row
    raw,        \* sealed originals
    work,       \* import-work: continuations
    ledger,
    asked,      \* requests the queue has sent, of each document and phase
    at,         \* where the coordinator is
    resuming,   \* whether this is a Continue
    rows,       \* its copy of the session, or outcome of a row
    todo,       \* rows it has still to take
    entries,    \* rows that go on to be dispatched
    held,       \* documents it has locked
    captured,   \* documents whose owner knows its capture
    reading,    \* each document's future
    stopped, fatal, stopAsked,
    faults, others

disk == <<session, raw, work, ledger, asked>>
plan == <<resuming, rows, todo, entries, held, captured>>
vars == <<disk, at, plan, reading, stopped, fatal, stopAsked, faults, others>>

Init ==
    /\ session = [r \in Row |-> "none"]
    /\ raw = {}
    /\ work = [d \in Doc |-> [state |-> "none", result |-> "nothing",
                              capture |-> FALSE]]
    /\ ledger = [d \in Doc |-> [captures |-> 0, responses |-> {}, reads |-> {},
                                parsed |-> FALSE, foreign |-> FALSE,
                                posted |-> 0]]
    /\ asked = [d \in Doc |-> [p \in Phase |-> 0]]
    /\ at = "idle" /\ resuming = FALSE
    /\ rows = [r \in Row |-> "none"] /\ todo = {} /\ entries = {} /\ held = {}
    /\ captured = {} /\ reading = [d \in Doc |-> NoReading]
    /\ stopped = FALSE /\ fatal = FALSE /\ stopAsked = FALSE
    /\ faults = 0 /\ others = 0

Fault == faults < MaxFaults /\ faults' = faults + 1
NoFault == UNCHANGED faults

\* The coordinator returns, or is gone: nothing is left but the disk.
Returns ==
    /\ at' = "idle" /\ resuming' = FALSE /\ rows' = [r \in Row |-> "none"]
    /\ todo' = {} /\ entries' = {} /\ held' = {} /\ captured' = {}
    /\ reading' = [d \in Doc |-> NoReading]
    /\ stopped' = FALSE /\ fatal' = FALSE

-----------------------------------------------------------------------------
(* Selecting and capturing *)

\* ImportSessions.enqueue, up to its first save
Enqueue ==
    /\ at = "idle" /\ session[1] = "none"
    /\ session' = [r \in Row |-> "capturing"] /\ rows' = session'
    /\ at' = "capture"
    /\ UNCHANGED <<raw, work, ledger, asked, resuming, todo, entries, held,
                   captured, reading, stopped, fatal, stopAsked, faults,
                   others>>

\* ImportSessions.resume
Continue ==
    /\ at = "idle" /\ \E r \in Row : session[r] \in Undone
    /\ rows' = session /\ resuming' = TRUE
    /\ at' = "capture"
    /\ UNCHANGED <<disk, todo, entries, held, captured, reading, stopped,
                   fatal, stopAsked, faults, others>>

Capturing == { r \in Row : rows[r] = "capturing" }

\* Mutant: the row moves on without its original.
CaptureUnsealed ==
    /\ at = "capture" /\ Capturing # {} /\ ~stopped
    /\ rows' = [rows EXCEPT ![Min(Capturing)] = "pending"]
    /\ at' = "saveRow"
    /\ UNCHANGED <<disk, resuming, todo, entries, held, captured, reading,
                   stopped, fatal, stopAsked, faults, others>>

\* _capture: the original is sealed first ...
Capture ==
    /\ at = "capture" /\ Capturing # {} /\ ~stopped
    /\ LET r == Min(Capturing)
       IN  \/ /\ raw' = raw \cup {DocOf[r]}
              /\ rows' = [rows EXCEPT ![r] = "pending"]
           \/ /\ rows' = [rows EXCEPT ![r] = "refused"]
              /\ UNCHANGED raw
    /\ at' = "saveRow"
    /\ UNCHANGED <<session, work, ledger, asked, resuming, todo, entries, held,
                   captured, reading, stopped, fatal, stopAsked, faults,
                   others>>

\* ... and the row saved then.
SaveRow ==
    /\ at = "saveRow"
    /\ session' = rows
    /\ at' = "capture"
    /\ UNCHANGED <<raw, work, ledger, asked, plan, reading, stopped, fatal,
                   stopAsked, faults, others>>

\* A stop is seen at the capturing job's checkpoint.
CaptureStops ==
    /\ at = "capture" /\ Capturing # {} /\ stopped
    /\ Returns
    /\ UNCHANGED <<disk, stopAsked, faults, others>>

CaptureEnds ==
    /\ at = "capture" /\ Capturing = {}
    /\ IF resuming THEN at' = "select" /\ UNCHANGED <<plan, reading, stopped,
                                                      fatal>>
       ELSE Returns
    /\ UNCHANGED <<disk, stopAsked, faults, others>>

First(n, S) == { r \in S : Cardinality({ q \in S : q < r }) < n }

\* Mutant: a row that was running when the sidecar died is passed over.
SelectedPending(s) == First(Chunk, { r \in Row : s[r] = "pending" })

Selected(s) == First(Chunk, { r \in Row : s[r] \in {"pending", "running"} })

\* The chunk is marked running, and saved, before anything is done with it.
Select ==
    /\ at = "select"
    /\ IF Selected(rows) = {} THEN Returns /\ UNCHANGED session
       ELSE /\ rows' = [ r \in Row |-> IF r \in Selected(rows) THEN "running"
                                       ELSE rows[r] ]
            /\ session' = rows'
            /\ todo' = Selected(rows) /\ at' = "check"
            /\ UNCHANGED <<resuming, entries, held, captured, reading, stopped,
                           fatal>>
    /\ UNCHANGED <<raw, work, ledger, asked, stopAsked, faults, others>>

-----------------------------------------------------------------------------
(* BulkDocuments.run: checking, locking, dispatching *)

Next1 == Min(todo)
Took == todo' = todo \ {Next1}
Says(status) == rows' = [rows EXCEPT ![Next1] = status]

Check ==
    /\ at = "check" /\ todo # {}
    /\ Took
    /\ IF stopped THEN Says("cancelled") /\ UNCHANGED entries
       ELSE entries' = entries \cup {Next1} /\ UNCHANGED rows
    /\ UNCHANGED <<disk, at, resuming, held, captured, reading, stopped, fatal,
                   stopAsked, faults, others>>

\* _begin_bulk_read of every document, in one order; Other waits for the lock.
Lock ==
    /\ at = "check" /\ todo = {}
    /\ held' = { DocOf[r] : r \in entries } /\ raw' = raw \cup held'
    /\ todo' = entries /\ at' = "dispatch"
    /\ UNCHANGED <<session, work, ledger, asked, resuming, rows, entries,
                   captured, reading, stopped, fatal, stopAsked, faults,
                   others>>

\* is_resolved: the document's effects are on the books.
Resolved(d) == ledger[d].posted > 0

\* _completed_audit_result: every request of an interrupted reading was
\* answered and recorded, and the last one parsed.
AuditComplete(d) == /\ ledger[d].reads = Phase
                    /\ ledger[d].responses = Phase
                    /\ ledger[d].parsed /\ ledger[d].captures = 1

\* Mutant: an interrupted reading counts as none.
InterruptedForgotten(d) == work[d].state \in {"completed", "settling"}

\* A continuation that stands in the way of a new reading
Interrupted(d) == work[d].state \in {"reading", "completed", "settling"}

\* ImportCheckpoints.resume
Restorable(d) == /\ ~ledger[d].foreign /\ ledger[d].posted = 0
                 /\ work[d].state = "reading" => AuditComplete(d)

\* Mutant: an original is enough.
KnownOriginal(d) == d \in raw

Known(d) == ledger[d].captures > 0

\* _retain_bulk_original: the capture, unless this owner has recorded one
WithCapture(d) == IF d \in captured THEN ledger[d]
                  ELSE [ledger[d] EXCEPT !.captures = @ + 1]

Dispatched(d) == \E r \in entries \ todo : DocOf[r] = d

Dispatch ==
    /\ at = "dispatch" /\ todo # {}
    /\ Took
    /\ LET d == DocOf[Next1]
       IN  \/ /\ Dispatched(d)                      \* twice in this chunk
              /\ Says("duplicate")
              /\ UNCHANGED <<ledger, work, captured, reading, stopped>>
           \/ /\ ~Dispatched(d) /\ stopped
              /\ Says("cancelled")
              /\ ledger' = [ledger EXCEPT ![d] = WithCapture(d)]
              /\ captured' = captured \cup {d}
              /\ UNCHANGED <<work, reading, stopped>>
           \/ /\ ~Dispatched(d) /\ ~stopped
              /\ \/ Resolved(d) \/ work[d].state = "settled"
                 \/ ~Interrupted(d) /\ Known(d)
              /\ Says("duplicate")
              /\ UNCHANGED <<ledger, work, captured, reading, stopped>>
           \/ /\ ~Dispatched(d) /\ ~stopped         \* continued
              /\ ~Resolved(d) /\ Interrupted(d) /\ Restorable(d)
              /\ work' = [work EXCEPT ![d] =
                            IF @.state = "reading"
                            THEN [state |-> "completed", result |-> "facts",
                                  capture |-> TRUE]
                            ELSE @]
              /\ reading' = [reading EXCEPT ![d] = Over(work'[d].result)]
              /\ captured' = IF work'[d].capture THEN captured \cup {d}
                             ELSE captured
              /\ UNCHANGED <<rows, ledger, stopped>>
           \/ /\ ~Dispatched(d) /\ ~stopped         \* held for review
              /\ ~Resolved(d) /\ Interrupted(d) /\ ~Restorable(d)
              /\ Says("unknown")
              /\ stopped' = TRUE
              /\ UNCHANGED <<ledger, work, captured, reading>>
           \/ /\ ~Dispatched(d) /\ ~stopped         \* read for the first time
              /\ ~Resolved(d) /\ work[d].state # "settled"
              /\ ~Interrupted(d) /\ ~Known(d)
              /\ work' = [work EXCEPT ![d] = [state |-> "reading",
                                              result |-> "nothing",
                                              capture |-> FALSE]]
              /\ \E start \in {Asking, Over("nothing")} :
                    reading' = [reading EXCEPT ![d] = start]
              /\ UNCHANGED <<rows, ledger, captured, stopped>>
    /\ UNCHANGED <<session, raw, asked, at, resuming, entries, held, fatal,
                   stopAsked, faults, others>>

DispatchEnds ==
    /\ at = "dispatch" /\ todo = {}
    /\ at' = "read"
    /\ UNCHANGED <<disk, plan, reading, stopped, fatal, stopAsked, faults,
                   others>>

-----------------------------------------------------------------------------
(* Reading: a thread for each document, served by the coordinator *)

Serving == at \in {"dispatch", "read", "drain"}
Goes(d, place) == reading' = [reading EXCEPT ![d].at = place]
Ends(d, result) == reading' = [reading EXCEPT ![d].at = "result",
                                              ![d].result = result]

\* permit: the coordinator allows the next request unless it is stopping.
Permit(d) ==
    /\ reading[d].at = "ask" /\ Serving
    /\ IF ~stopped /\ ~fatal
       THEN /\ Goes(d, "out")
            /\ asked' = [asked EXCEPT ![d][reading[d].phase] = @ + 1]
       ELSE Ends(d, "nothing") /\ UNCHANGED asked
    /\ UNCHANGED <<session, raw, work, ledger, at, plan, stopped, fatal,
                   stopAsked, faults, others>>

\* The provider answers, or the transport fails.
Answer(d) ==
    /\ reading[d].at = "out"
    /\ Goes(d, "response") \/ Ends(d, "nothing")
    /\ UNCHANGED <<disk, at, plan, stopped, fatal, stopAsked, faults, others>>

\* _retain_bulk_response; an answer the reader cannot use has no phase.
RetainResponse(d) ==
    /\ reading[d].at = "response" /\ Serving
    /\ ledger' = [ledger EXCEPT ![d] = [WithCapture(d) EXCEPT
                     !.responses = @ \cup {reading[d].phase}]]
    /\ captured' = captured \cup {d}
    /\ Goes(d, "phase") \/ Ends(d, "nothing")
    /\ UNCHANGED <<session, raw, work, asked, at, resuming, rows, todo, entries,
                   held, stopped, fatal, stopAsked, faults, others>>

\* _retain_bulk_phase; what follows is the next request or the end.
RetainPhase(d) ==
    /\ reading[d].at = "phase" /\ Serving
    /\ \E ok \in BOOLEAN :
          /\ ledger' = [ledger EXCEPT
                ![d].reads = @ \cup {reading[d].phase},
                ![d].parsed = @ \/ (ok /\ reading[d].phase = "extract")]
          /\ IF reading[d].phase = "classify" /\ ok
             THEN reading' = [reading EXCEPT ![d].at = "ask",
                                             ![d].phase = "extract"]
             ELSE Ends(d, IF ok THEN "facts" ELSE "nothing")
    /\ UNCHANGED <<session, raw, work, asked, at, plan, stopped, fatal,
                   stopAsked, faults, others>>

\* ImportCheckpoints.complete, before the reader hears of it
SealResult(d) ==
    /\ reading[d].at = "result" /\ Serving
    /\ work' = [work EXCEPT ![d] = [state |-> "completed",
                                    result |-> reading[d].result,
                                    capture |-> d \in captured]]
    /\ Goes(d, "done")
    /\ UNCHANGED <<session, raw, ledger, asked, at, plan, stopped, fatal,
                   stopAsked, faults, others>>

\* An acknowledgement cannot be made durable.  The reading that waits for it
\* ends with nothing, which its thread still posts, to be sealed; where it is
\* the result that could not be sealed, the thread raises.
ServiceFails(d) ==
    /\ reading[d].at \in {"response", "phase", "result"} /\ Serving
    /\ IF reading[d].at = "result" THEN Goes(d, "raised")
       ELSE Ends(d, "nothing")
    /\ fatal' = TRUE /\ stopped' = TRUE
    /\ Fault
    /\ UNCHANGED <<disk, at, plan, stopAsked, others>>

Quiet == \A d \in Doc : reading[d].at \in {"none", "done", "raised"}

\* Nothing settles while another reading can need an acknowledgement.
ReadEnds ==
    /\ at = "read" /\ Quiet
    /\ at' = "settle"
    /\ todo' = { r \in entries : /\ reading[DocOf[r]].at # "none"
                                 /\ rows[r] = "running" }
    /\ UNCHANGED <<disk, resuming, rows, entries, held, captured, reading,
                   stopped, fatal, stopAsked, faults, others>>

-----------------------------------------------------------------------------
(* Settling *)

d1 == DocOf[Next1]

\* Responses are there and the result has no phases.
Lost(d) == /\ reading[d].result = "nothing"
           /\ ledger[d].reads = {} /\ ledger[d].responses # {}

\* The result is sealed again and marked as settling.
Settling ==
    /\ at = "settle" /\ todo # {}
    /\ ~fatal /\ reading[d1].at = "done" /\ ~Lost(d1)
    /\ work' = [work EXCEPT ![d1] = [state |-> "settling",
                                     result |-> reading[d1].result,
                                     capture |-> d1 \in captured]]
    /\ at' = "ingest"
    /\ UNCHANGED <<session, raw, ledger, asked, plan, reading, stopped, fatal,
                   stopAsked, faults, others>>

SettleUnknown ==
    /\ at = "settle" /\ todo # {}
    /\ fatal \/ reading[d1].at = "raised"
    /\ Says("unknown") /\ Took
    /\ fatal' = TRUE /\ stopped' = TRUE
    /\ UNCHANGED <<disk, at, resuming, entries, held, captured, reading,
                   stopAsked, faults, others>>

SettleLost ==
    /\ at = "settle" /\ todo # {}
    /\ ~fatal /\ reading[d1].at = "done" /\ Lost(d1)
    /\ Says("failed") /\ Took
    /\ UNCHANGED <<disk, at, resuming, entries, held, captured, reading,
                   stopped, fatal, stopAsked, faults, others>>

\* upload: nothing is posted twice; what was not captured is.
Ingest ==
    /\ at = "ingest"
    /\ IF Resolved(d1)
       THEN /\ Says("duplicate") /\ at' = "mark"
            /\ UNCHANGED <<ledger, captured>>
       ELSE /\ ledger' = [ledger EXCEPT ![d1] = WithCapture(d1)]
            /\ captured' = captured \cup {d1}
            /\ IF reading[d1].result = "facts"
               THEN at' = "post" /\ UNCHANGED rows
               ELSE at' = "mark" /\ Says("parked")
    /\ UNCHANGED <<session, raw, work, asked, resuming, todo, entries, held,
                   reading, stopped, fatal, stopAsked, faults, others>>

\* stage_atomically: its effects, as one batch
Post ==
    /\ at = "post"
    /\ ledger' = [ledger EXCEPT ![d1].posted = @ + 1]
    /\ Says("posted") /\ at' = "mark"
    /\ UNCHANGED <<session, raw, work, asked, resuming, todo, entries, held,
                   captured, reading, stopped, fatal, stopAsked, faults,
                   others>>

MarkSettled ==
    /\ at = "mark"
    /\ work' = [work EXCEPT ![d1].state = "settled"]
    /\ Took /\ at' = "settle"
    /\ UNCHANGED <<session, raw, ledger, asked, resuming, rows, entries, held,
                   captured, reading, stopped, fatal, stopAsked, faults,
                   others>>

\* One of the steps of a settlement raises.
SettleRaises ==
    /\ \/ at \in {"ingest", "post", "mark"}
       \/ at = "settle" /\ todo # {} /\ ~fatal /\ reading[d1].at = "done"
    /\ Says("unknown") /\ Took /\ at' = "settle"
    /\ fatal' = TRUE /\ stopped' = TRUE
    /\ Fault
    /\ UNCHANGED <<disk, resuming, entries, held, captured, reading, stopAsked,
                   others>>

\* An unknown outcome leaves its row running.
Saved(status) == IF status = "unknown" THEN "running" ELSE status

\* The locks are given back, and the selection is saved.
Finish ==
    /\ at = "settle" /\ todo = {}
    /\ session' = [r \in Row |-> Saved(rows[r])]
    /\ Returns
    /\ UNCHANGED <<raw, work, ledger, asked, stopAsked, faults, others>>

-----------------------------------------------------------------------------
(* Stops, failures, deaths, other processes *)

\* A person stops the import; the coordinator sees it at its next pump.
AskStop ==
    /\ at # "idle" /\ ~stopAsked
    /\ stopped' = TRUE /\ stopAsked' = TRUE
    /\ UNCHANGED <<disk, at, plan, reading, fatal, faults, others>>

\* A step outside the settlements raises: started requests come back and are
\* recorded before the locks are given back.
RunRaises ==
    /\ at \in {"check", "dispatch", "read"}
    /\ at' = "drain" /\ stopped' = TRUE
    /\ Fault
    /\ UNCHANGED <<disk, plan, reading, fatal, stopAsked, others>>

Drained ==
    /\ at = "drain" /\ Quiet
    /\ Returns
    /\ UNCHANGED <<disk, stopAsked, faults, others>>

\* A save of the selection fails, and the request with it.
SaveFails ==
    /\ \/ at \in {"saveRow", "select"}
       \/ at = "settle" /\ todo = {}
    /\ Returns
    /\ Fault
    /\ UNCHANGED <<disk, stopAsked, others>>

\* The sidecar dies.
Die ==
    /\ at # "idle"
    /\ Returns
    /\ Fault
    /\ UNCHANGED <<disk, stopAsked, others>>

Free(d) == d \notin held

\* capture_and_ingest of the same content, by another process, under the
\* document's lock: a capture, and a reading of its own where it can read.
Other(d) ==
    /\ Free(d) /\ others < MaxOthers
    /\ others' = others + 1
    /\ raw' = raw \cup {d}
    /\ ~Resolved(d)
    /\ \E read \in BOOLEAN : \E facts \in {FALSE, read} :
          ledger' = [ledger EXCEPT ![d].captures = @ + 1,
                                   ![d].foreign = @ \/ read,
                                   ![d].posted = IF facts THEN @ + 1 ELSE @]
    /\ UNCHANGED <<session, work, asked, at, plan, reading, stopped, fatal,
                   stopAsked, faults>>

-----------------------------------------------------------------------------
ReadStep(d) == \/ Permit(d) \/ Answer(d) \/ RetainResponse(d) \/ RetainPhase(d)
               \/ SealResult(d)
CoordinatorStep == \/ Capture \/ SaveRow \/ CaptureStops \/ CaptureEnds
                   \/ Select \/ Check \/ Lock \/ Dispatch \/ DispatchEnds
                   \/ ReadEnds \/ Settling \/ SettleUnknown \/ SettleLost
                   \/ Ingest \/ Post \/ MarkSettled \/ Finish \/ Drained

Next ==
    \/ Enqueue \/ Continue \/ CoordinatorStep
    \/ \E d \in Doc : \/ ReadStep(d) \/ ServiceFails(d)
                      \/ Other(d)
    \/ SettleRaises \/ AskStop \/ RunRaises \/ SaveFails \/ Die

Spec == Init /\ [][Next]_vars

\* The coordinator goes on, requests return, and the person goes on pressing
\* Continue.
LiveSpec == /\ Spec
            /\ WF_vars(CoordinatorStep) /\ WF_vars(Continue)
            /\ \A d \in Doc : WF_vars(ReadStep(d))

-----------------------------------------------------------------------------
(* Properties *)

TypeOK ==
    /\ session \in [Row -> Status \cup {"none"}]
    /\ rows \in [Row -> Status \cup {"none", "unknown"}]
    /\ raw \subseteq Doc /\ work \in [Doc -> Work]
    /\ ledger \in [Doc -> Entry] /\ asked \in [Doc -> [Phase -> Nat]]
    /\ at \in {"idle", "capture", "saveRow", "select", "check", "dispatch",
               "read", "drain", "settle", "ingest", "post", "mark"}
    /\ resuming \in BOOLEAN /\ todo \subseteq Row /\ entries \subseteq Row
    /\ held \subseteq Doc /\ captured \subseteq Doc
    /\ reading \in [Doc -> Reading]
    /\ stopped \in BOOLEAN /\ fatal \in BOOLEAN /\ stopAsked \in BOOLEAN
    /\ faults \in 0 .. MaxFaults /\ others \in 0 .. MaxOthers

\* Neither a provider request nor a document's posting is repeated, however
\* often the import is interrupted and continued, whatever died between an
\* answer, a posting, their marks and the saved selection, however many rows
\* name the document and whoever else ingests it.
NothingTwice ==
    \A d \in Doc : /\ ledger[d].posted <= 1
                  /\ \A p \in Phase : asked[d][p] <= 1

\* A row that no longer needs its source file has its original sealed.
OriginalKept ==
    \A r \in Row : session[r] \notin {"none", "capturing", "refused"} =>
                      DocOf[r] \in raw

\* A row is put away as posted only if its document's effects are on the
\* books, and as a duplicate only if the ledger has its document, or another
\* row of the selection carries it: one still to be dealt with, or one that a
\* stop cancelled.
DuplicateIsCovered ==
    \A r \in Row :
       /\ session[r] = "posted" => ledger[DocOf[r]].posted > 0
       /\ session[r] = "duplicate" =>
             \/ ledger[DocOf[r]].captures > 0
             \/ \E q \in Row \ {r} : /\ DocOf[q] = DocOf[r]
                                     /\ session[q] \in Undone \cup {"cancelled"}

\* What Continue would take next is only what waits for review.
Waits(d) == Interrupted(d) /\ ~Restorable(d)
NothingLeft == /\ \A r \in Row : session[r] # "capturing"
               /\ \A r \in Row : session[r] \in {"pending", "running"} =>
                     \A q \in First(Chunk, { s \in Row : session[s] \in
                                                {"pending", "running"} }) :
                        Waits(DocOf[q])

\* Pressing Continue often enough finishes the selection, or leaves a chunk
\* of readings that are held for review.
QueueAdvances == (session[1] # "none") ~> NothingLeft

\* "Stop drains already-started requests and leaves pending originals available
\* for a later explicit continuation": a row is cancelled when a person stopped
\* the import.
CancelledWasAsked ==
    (\E r \in Row : session[r] = "cancelled") => stopAsked
=============================================================================
