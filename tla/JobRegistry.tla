----------------------------- MODULE JobRegistry -----------------------------
(***************************************************************************)
(* The sidecar's job registry (product/viva/desktop_bridge/jobs.py), its    *)
(* state file, and the handlers that run jobs through it.                   *)
(*                                                                         *)
(* One foreground thread serves requests in order; a job it runs lets stop  *)
(* requests in only where it pumps the transport.  Paid maintenance runs on *)
(* a background thread.  Every registry operation holds the registry's lock *)
(* and saves the whole file, so it is one step here.  Ids are minted in     *)
(* order, so the registry's list is its ids in numeric order.  Opening the  *)
(* vault again builds a new registry over the same file; background threads *)
(* keep the one they were started with.                                     *)
(***************************************************************************)
EXTENDS Integers, Sequences, FiniteSets

CONSTANTS
    Background,    \* threads that may run paid maintenance
    Doc,           \* documents, by content address
    NoDoc,
    Ops,           \* the operations requested: a subset of DOMAIN Program
    Limit,         \* receipts a registry keeps
    MaxJobs,       \* bound: jobs ever minted by one numbering
    MaxOpens,      \* bound: times the vault is opened again in one process
    MaxCrashes,    \* bound: deaths of the sidecar
    MaxErrors      \* bound: saves of the state file that fail

Fg == "foreground"
Thread == Background \cup {Fg}
JobId == 1 .. MaxJobs
Gen == 0 .. MaxOpens

\* What a handler does with its job, call by call.  "check" is a checkpoint
\* that pumps, "look" one that does not; "work" stands for the effects of a
\* step.  "lock" .. "post" is capture_and_ingest under the document's lock.
\* "plain" is the export; the other single-step handlers have its shape.
Program ==
    [ plain   |-> <<"begin", "check", "reach", "check", "work", "reach",
                    "finish">>,
      upload  |-> <<"begin", "check", "reach", "check", "reach", "check",
                    "lock", "bind", "confirm", "read", "settling", "post",
                    "reach", "reach", "finish">>,
      recover |-> <<"begin", "check", "reach", "reach",
                    "lock", "bind", "confirm", "read", "settling", "post",
                    "reach", "reach", "finish">>,
      bulk    |-> <<"begin", "pump", "reach", "pump", "work", "reach", "pump",
                    "reach", "pump", "work", "settle", "drain", "pulse",
                    "finish">>,
      spend   |-> <<"begin", "look", "work", "reach", "look", "work", "look",
                    "look", "reach", "finish">> ]
Pulsing == Len(Program.bulk) - 1     \* its finally block

ASSUME BackgroundAssumption == Fg \notin Background
ASSUME DocAssumption == NoDoc \notin Doc
ASSUME OpsAssumption == Ops \subseteq DOMAIN Program
ASSUME JobBoundsAssumption ==
    /\ Limit \in Nat \ {0} /\ MaxJobs \in Nat /\ MaxOpens \in Nat
    /\ MaxCrashes \in Nat /\ MaxErrors \in Nat

Terminal == {"completed", "failed", "cancelled"}
Open == {"queued", "running"}
JobRecord == [op : DOMAIN Program \cup {"none"},
              state : Open \cup Terminal \cup {"absent"},
              cancel : BOOLEAN,                        \* cancel_requested
              doc : Doc \cup {NoDoc},                  \* document_id
              stage : {"none", "reading", "settling"}] \* recovery_stage
Absent == [op |-> "none", state |-> "absent", cancel |-> FALSE,
           doc |-> NoDoc, stage |-> "none"]
NoJobs == [j \in JobId |-> Absent]

VARIABLES
    reg,        \* each registry's records
    gen,        \* the registry the handlers use
    next,       \* its next number
    file,       \* .jobs.json
    late,       \* a registry that was replaced has saved over it (history)
    run,        \* what each thread is doing
    ask,        \* a stop request between its look and its cancel; 0 for none
    said,       \* jobs whose stop request was answered "Stopped" (history)
    minted,     \* ids a caller was handed (history)
    captured,   \* originals in the raw store
    posted,     \* documents with an event in the ledger
    resolved,   \* those posted or held, so never read again
    crashes, errors

fileVars == <<file, late>>
regVars == <<reg, gen, next, fileVars>>
askVars == <<ask, said>>
docVars == <<captured, posted, resolved>>
vars == <<regVars, run, askVars, minted, docVars, crashes, errors>>

Idle == [op |-> "none", job |-> 0, gen |-> 0, at |-> 0, doc |-> NoDoc,
         stopped |-> FALSE, raised |-> FALSE, unread |-> FALSE]

Init ==
    /\ reg = [g \in Gen |-> NoJobs] /\ gen = 0 /\ next = 1
    /\ file = NoJobs /\ late = FALSE
    /\ run = [t \in Thread |-> Idle]
    /\ ask = 0 /\ said = {}
    /\ minted = {}
    /\ captured = {} /\ posted = {} /\ resolved = {}
    /\ crashes = 0 /\ errors = 0

-----------------------------------------------------------------------------
(* The registry *)

Held(jobs) == { j \in JobId : jobs[j].state # "absent" }
Settled(jobs) == { j \in JobId : jobs[j].state \in Terminal }

\* Mutant: the oldest goes, settled or not.
ForgetOldest(jobs) ==
    LET excess == Cardinality(Held(jobs)) - Limit
    IN  [ j \in JobId |->
            IF /\ j \in Held(jobs)
               /\ Cardinality({ k \in Held(jobs) : k < j }) < excess
            THEN Absent ELSE jobs[j] ]

\* _forget_the_oldest_settled
Forget(jobs) ==
    LET excess == Cardinality(Held(jobs)) - Limit
    IN  [ j \in JobId |->
            IF /\ j \in Settled(jobs)
               /\ Cardinality({ k \in Settled(jobs) : k < j }) < excess
            THEN Absent ELSE jobs[j] ]

\* _restore: the newest receipts; what was under way is over.
Restore(saved) ==
    [ j \in JobId |->
        IF \/ j \notin Held(saved)
           \/ Cardinality({ k \in Held(saved) : k > j }) >= Limit
        THEN Absent
        ELSE [ saved[j] EXCEPT
                 !.state = IF @ \in Terminal THEN @
                           ELSE IF saved[j].cancel THEN "cancelled"
                           ELSE "failed",
                 !.cancel = FALSE ] ]

\* Mutant: the numbering goes on from the number of receipts.
CountOfHeld(jobs) == 1 + Cardinality(Held(jobs))

\* The numbering goes on from the largest number held.
FirstFree(jobs) == CHOOSE n \in 1 .. MaxJobs + 1 :
                      /\ \A j \in Held(jobs) : j < n
                      /\ n = 1 \/ n - 1 \in Held(jobs)

Error == errors < MaxErrors /\ errors' = errors + 1
NoError == UNCHANGED errors

\* _persist, which may fail after the record has changed in memory.
Write(g, jobs) == file' = jobs /\ late' = (late \/ g # gen)
Save(g) == Write(g, reg'[g]) /\ NoError
SaveRaises == UNCHANGED fileVars /\ Error

Of(t) == reg[run[t].gen][run[t].job]
Instr(t) == IF run[t].at = 0 THEN "none" ELSE Program[run[t].op][run[t].at]
Advance(t) == run' = [run EXCEPT ![t].at = @ + 1]
Leave(t) == run' = [run EXCEPT ![t] = Idle]

\* _move, up to the save.  The event that reports it is left out.
Record(t, r) == reg' = [reg EXCEPT ![run[t].gen][run[t].job] = r]

\* _finish_if_open and _fail_if_open, on the record r as it stands in memory.
\* The saves that close a job may fail.
Close(t, r, how) ==
    \/ /\ Of(t).state \notin Terminal
       /\ Record(t, [r EXCEPT !.state = how])
       /\ Save(run[t].gen) \/ SaveRaises
    \/ /\ Of(t).state \in Terminal
       /\ UNCHANGED <<reg, fileVars, errors>>

-----------------------------------------------------------------------------
(* Requests that open a job.  The foreground thread takes them when it has *)
(* no other request.                                                       *)

FgFree == run[Fg] = Idle /\ ask = 0
Active(op) == { j \in JobId : /\ reg[gen][j].op = op
                              /\ reg[gen][j].state \in Open }

\* JobRegistry.open, for thread t to run.  A save that fails reaches the
\* caller, and the record stays.
Opens(op, t, doc) ==
    /\ FgFree /\ op \in Ops /\ next \in JobId
    /\ reg' = [reg EXCEPT ![gen] =
                 Forget([@ EXCEPT ![next] = [Absent EXCEPT !.op = op,
                                                        !.state = "queued"]])]
    /\ next' = next + 1
    /\ \/ /\ Save(gen)
          /\ minted' = minted \cup {next}
          /\ run' = [run EXCEPT ![t] = [Idle EXCEPT !.op = op, !.job = next,
                                                   !.gen = gen, !.at = 1,
                                                   !.doc = doc]]
       \/ SaveRaises /\ UNCHANGED <<minted, run>>
    /\ UNCHANGED <<gen, askVars, docVars, crashes>>

RequestPlain == \E op \in {"plain", "bulk"} : Opens(op, Fg, NoDoc)
RequestUpload(d) == Opens("upload", Fg, d)

\* document_recovery: a failed read of a saved original with no event yet.
Recoverable(r) ==
    /\ r.op \in {"upload", "recover"} /\ r.state = "failed" /\ r.doc # NoDoc
    /\ r.doc \notin posted /\ r.stage = "reading" /\ r.doc \in captured

RequestRecover(o) == /\ Recoverable(reg[gen][o])
                     /\ Opens("recover", Fg, reg[gen][o].doc)

\* Mutant: a paid run starts whether or not one is under way.
SpendRegardless(b) == run[b] = Idle /\ Opens("spend", b, NoDoc)

RequestSpend(b) == /\ Active("spend") = {}
                   /\ run[b] = Idle
                   /\ Opens("spend", b, NoDoc)

-----------------------------------------------------------------------------
(* The calls of a running job *)

\* The foreground does nothing else while it answers a stop request.
At(t, instr) == Instr(t) = instr /\ (t = Fg => ask = 0)

\* Mutant: a job that is over begins.
BeginAnyway(t) ==
    /\ At(t, "begin")
    /\ Record(t, [Of(t) EXCEPT !.state = "running"])
    /\ \/ Save(run[t].gen) /\ Advance(t)
       \/ SaveRaises /\ Leave(t)
    /\ UNCHANGED <<gen, next, askVars, minted, docVars, crashes>>

\* __enter__: refused for a job that is over.  When it raises there is no
\* __exit__, so a save that fails here leaves the job as it stands.
Begin(t) ==
    /\ At(t, "begin")
    /\ \/ /\ Of(t).state \in Open
          /\ Record(t, [Of(t) EXCEPT !.state = "running"])
          /\ \/ Save(run[t].gen) /\ Advance(t)
             \/ SaveRaises /\ Leave(t)
       \/ /\ Of(t).state \notin Open
          /\ Leave(t)
          /\ UNCHANGED <<reg, fileVars, errors>>
    /\ UNCHANGED <<gen, next, askVars, minted, docVars, crashes>>

\* _checkpoint, after its pump.
Check(t) ==
    /\ \E i \in {"check", "confirm", "look"} : At(t, i)
    /\ \/ /\ Of(t).cancel
          /\ Record(t, [Of(t) EXCEPT !.state = "cancelled"])
          /\ Save(run[t].gen) \/ SaveRaises
          /\ Leave(t)
       \/ /\ ~Of(t).cancel
          /\ Advance(t)
          /\ UNCHANGED <<reg, fileVars, errors>>
    /\ UNCHANGED <<gen, next, askVars, minted, docVars, crashes>>

Reach(t) ==
    /\ At(t, "reach") \/ At(t, "settle")
    /\ Record(t, [Of(t) EXCEPT !.state = "running"])
    /\ Save(run[t].gen)
    /\ Advance(t)
    /\ UNCHANGED <<gen, next, askVars, minted, docVars, crashes>>

Work(t) ==
    /\ At(t, "work")
    /\ Advance(t)
    /\ UNCHANGED <<regVars, askVars, minted, docVars, crashes, errors>>

\* Where a step may raise, its own save included, or find it must refuse.
Fallible == {"check", "confirm", "look", "work", "reach", "lock", "bind",
             "post"}

\* Mutant: the exception leaves the job as it is.
RaisesOpen(t) ==
    /\ \E i \in Fallible : At(t, i)
    /\ run[t].op # "bulk"
    /\ Leave(t)
    /\ UNCHANGED <<regVars, askVars, minted, docVars, crashes, errors>>

\* What a call has put in memory when its save raises.
InMemory(t) ==
    IF Instr(t) = "bind"
    THEN [Of(t) EXCEPT !.doc = run[t].doc, !.stage = "reading"]
    ELSE Of(t)

\* __exit__ with the exception.  One out of the posting may have come after
\* the first event of the document.
Raises(t) ==
    /\ \E i \in Fallible : At(t, i)
    /\ run[t].op # "bulk"
    /\ Close(t, InMemory(t), "failed")
    /\ Leave(t)
    /\ posted' \in IF Instr(t) = "post"
                   THEN {posted, posted \cup {run[t].doc}} ELSE {posted}
    /\ UNCHANGED <<gen, next, askVars, minted, captured, resolved, crashes>>

\* __exit__ after the last step, or out of the bulk import's finally block.
Finish(t) ==
    /\ At(t, "finish")
    /\ Close(t, Of(t), IF run[t].raised THEN "failed" ELSE "completed")
    /\ Leave(t)
    /\ UNCHANGED <<gen, next, askVars, minted, docVars, crashes>>

(* capture_and_ingest, under the lock of the document *)

Capture(t) ==
    /\ At(t, "lock")
    /\ captured' = captured \cup {run[t].doc}
    /\ Advance(t)
    /\ UNCHANGED <<regVars, askVars, minted, posted, resolved, crashes,
                   errors>>

Bind(t) ==
    /\ At(t, "bind")
    /\ Record(t, [Of(t) EXCEPT !.doc = run[t].doc, !.stage = "reading"])
    /\ Save(run[t].gen)
    /\ Advance(t)
    /\ UNCHANGED <<gen, next, askVars, minted, docVars, crashes>>

\* Mutant: recovery was permitted when it was requested.
PermittedBefore(t) == TRUE

\* before_read: recovery asks again, now under the lock.
Permitted(t) == run[t].op = "recover" => run[t].doc \notin posted

Read(t) ==
    /\ At(t, "read")
    /\ run[t].doc \notin resolved
    /\ Permitted(t)
    /\ Advance(t)
    /\ UNCHANGED <<regVars, askVars, minted, docVars, crashes, errors>>

\* A document already posted or held is not read.
ReadSkipped(t) ==
    /\ At(t, "read")
    /\ run[t].doc \in resolved
    /\ run' = [run EXCEPT ![t].at = @ + 3]
    /\ UNCHANGED <<regVars, askVars, minted, docVars, crashes, errors>>

\* RecoveryUnavailable leaves the handler's with block.
ReadRefused(t) ==
    /\ At(t, "read")
    /\ run[t].doc \notin resolved
    /\ ~Permitted(t)
    /\ Close(t, Of(t), "failed")
    /\ Leave(t)
    /\ UNCHANGED <<gen, next, askVars, minted, docVars, crashes>>

\* Mutant: the receipt is held in memory until the next save.
SettlingLater(t) ==
    /\ At(t, "settling")
    /\ Record(t, [Of(t) EXCEPT !.stage = "settling"])
    /\ Advance(t)
    /\ UNCHANGED <<gen, next, fileVars, askVars, minted, docVars, crashes,
                   errors>>

\* The reader's finally clause.  A save that fails here is taken by the
\* pipeline for a read that failed, which is recorded and parked.
Settling(t) ==
    /\ At(t, "settling")
    /\ Record(t, [Of(t) EXCEPT !.stage = "settling"])
    /\ \/ Save(run[t].gen) /\ Advance(t)
       \/ SaveRaises /\ run' = [run EXCEPT ![t].at = @ + 1, ![t].unread = TRUE]
    /\ UNCHANGED <<gen, next, askVars, minted, docVars, crashes>>

\* The read is recorded; its effects are posted or held, or it is parked, as a
\* read that failed always is.
Post(t) ==
    /\ At(t, "post")
    /\ posted' = posted \cup {run[t].doc}
    /\ resolved' \in {resolved, resolved \cup {run[t].doc}}
    /\ run[t].unread => resolved' = resolved
    /\ Advance(t)
    /\ UNCHANGED <<regVars, askVars, minted, captured, crashes, errors>>

\* Another process ingests the document when its lock is free, or fails before
\* its first event.
OtherIngest(d) ==
    /\ ~(run[Fg].doc = d /\ Instr(Fg) \in {"bind", "confirm", "read",
                                           "settling", "post"})
    /\ captured' = captured \cup {d}
    /\ \/ UNCHANGED <<posted, resolved>>
       \/ /\ posted' = posted \cup {d}
          /\ resolved' \in {resolved, resolved \cup {d}}
    /\ UNCHANGED <<regVars, run, askVars, minted, crashes, errors>>

(* The import of several documents: BulkDocuments.run *)

\* The pulse that keeps the host waiting, when one is due.
MayPulse(t) ==
    /\ UNCHANGED reg
    /\ Save(run[t].gen) \/ SaveRaises \/ UNCHANGED <<fileVars, errors>>

\* Mutant: a stop is recorded as soon as the pump sees it.
PumpCancels(t) ==
    /\ At(t, "pump")
    /\ IF Of(t).cancel
       THEN Record(t, [Of(t) EXCEPT !.state = "cancelled"])
            /\ Save(run[t].gen)
       ELSE UNCHANGED <<reg, fileVars, errors>>
    /\ run' = [run EXCEPT ![t].at = @ + 1, ![t].stopped = @ \/ Of(t).cancel]
    /\ UNCHANGED <<gen, next, askVars, minted, docVars, crashes>>

\* _pump, after the frames that had arrived.
Pump(t) ==
    /\ At(t, "pump")
    /\ MayPulse(t)
    /\ run' = [run EXCEPT ![t].at = @ + 1,
                          ![t].stopped = \/ @ \/ Of(t).cancel
                                         \/ errors' # errors]
    /\ UNCHANGED <<gen, next, askVars, minted, docVars, crashes>>

\* The pump finds the transport closed: BulkDocuments.stop.
HostGone(t) ==
    /\ At(t, "pump") \/ At(t, "pulse")
    /\ ~run[t].stopped
    /\ reg' = [reg EXCEPT ![run[t].gen][run[t].job].cancel =
                            @ \/ Of(t).state \notin Terminal]
    /\ Save(run[t].gen) \/ SaveRaises
    /\ run' = [run EXCEPT ![t].stopped = TRUE]
    /\ UNCHANGED <<gen, next, askVars, minted, docVars, crashes>>

\* A fatal document: the job fails and the drain is passed over.
SettleFails(t) ==
    /\ At(t, "settle")
    /\ Record(t, [Of(t) EXCEPT !.state = "failed"])
    /\ \/ Save(run[t].gen) /\ run' = [run EXCEPT ![t].at = Pulsing]
       \/ SaveRaises /\ run' = [run EXCEPT ![t].at = Pulsing, ![t].raised = TRUE]
    /\ UNCHANGED <<gen, next, askVars, minted, docVars, crashes>>

Asked(r) == [r EXCEPT !.cancel = TRUE]

\* A cancel that takes effect at once saves the request, then the state; the
\* second save fails.
StateSaveRaises(g, j) == Write(g, [reg[g] EXCEPT ![j] = Asked(@)]) /\ Error

\* A stop is recorded only now, after what had started was settled.
Drain(t) ==
    /\ At(t, "drain")
    /\ \/ /\ run[t].stopped
          /\ Record(t, [Asked(Of(t)) EXCEPT !.state = "cancelled"])
          /\ Save(run[t].gen) \/ StateSaveRaises(run[t].gen, run[t].job)
       \/ /\ ~run[t].stopped
          /\ UNCHANGED <<reg, fileVars, errors>>
    /\ Advance(t)
    /\ UNCHANGED <<gen, next, askVars, minted, docVars, crashes>>

\* The last _service, in the finally block.
Pulse(t) ==
    /\ At(t, "pulse")
    /\ MayPulse(t)
    /\ Advance(t)
    /\ UNCHANGED <<gen, next, askVars, minted, docVars, crashes>>

\* An owner's failure goes through the finally block, a cancel that could not
\* be saved too.
BulkRaises(t) ==
    /\ run[t].op = "bulk"
    /\ \E i \in {"pump", "work", "reach", "settle", "drain"} : At(t, i)
    /\ run' = [run EXCEPT ![t].at = Pulsing, ![t].raised = TRUE]
    /\ reg' = [reg EXCEPT ![run[t].gen][run[t].job].cancel =
                            @ \/ (Instr(t) = "drain" /\ run[t].stopped)]
    /\ UNCHANGED <<gen, next, fileVars, askVars, minted, docVars, crashes,
                   errors>>

-----------------------------------------------------------------------------
(* Stop requests, answered by an idle foreground or by the pump of its job *)

Pumping == Instr(Fg) \in {"check", "confirm", "pump", "pulse"}

\* Mutant: the pump answers, but the running job has already looked.
AskStopLate(j) ==
    /\ ask = 0
    /\ run[Fg] = Idle \/ Pumping \/ Instr(Fg) = "reach"
    /\ reg[gen][j].state \in Open
    /\ ask' = j
    /\ UNCHANGED <<regVars, run, said, minted, docVars, crashes, errors>>

\* DocumentActions.cancel looks at the record first.
AskStop(j) ==
    /\ ask = 0
    /\ run[Fg] = Idle \/ Pumping
    /\ reg[gen][j].state \in Open
    /\ ask' = j
    /\ UNCHANGED <<regVars, run, said, minted, docVars, crashes, errors>>

\* JobRegistry.cancel: a queued job is over, a running one is asked.
Cancelled(r) == IF r.state = "queued"
                THEN [Asked(r) EXCEPT !.state = "cancelled"] ELSE Asked(r)

\* Every stop that does not raise is answered "Stopped", whatever the state
\* was by then; the bulk import is told that it is stopping.
Stop ==
    LET r == reg[gen][ask]
        answered == said' = IF r.op = "bulk" THEN said ELSE said \cup {ask}
    IN  /\ ask # 0
        /\ \/ /\ r.state \in Terminal
              /\ answered
              /\ UNCHANGED <<reg, fileVars, errors>>
           \/ /\ r.state \in Open
              /\ reg' = [reg EXCEPT ![gen][ask] = Asked(r)]
              /\ SaveRaises
              /\ UNCHANGED said
           \/ /\ r.state \in Open
              /\ reg' = [reg EXCEPT ![gen][ask] = Cancelled(r)]
              /\ \/ Save(gen) /\ answered
                 \/ /\ r.state = "queued"
                    /\ StateSaveRaises(gen, ask)
                    /\ UNCHANGED said
        /\ ask' = 0
        /\ UNCHANGED <<gen, next, run, minted, docVars, crashes>>

-----------------------------------------------------------------------------
(* The life of the sidecar *)

\* bridge.open_vault on the open vault: a second registry over the file.
Reopen ==
    /\ FgFree /\ gen < MaxOpens
    /\ gen' = gen + 1
    /\ reg' = [reg EXCEPT ![gen'] = Restore(file)]
    /\ file' = reg'[gen']
    /\ next' = FirstFree(file')
    /\ UNCHANGED <<late, run, askVars, minted, docVars, crashes, errors>>

\* The sidecar dies and is started again.
Crash ==
    /\ crashes < MaxCrashes
    /\ crashes' = crashes + 1
    /\ gen' = 0
    /\ reg' = [g \in Gen |-> IF g = 0 THEN Restore(file) ELSE NoJobs]
    /\ file' = reg'[0]
    /\ next' = FirstFree(file')
    /\ run' = [t \in Thread |-> Idle]
    /\ ask' = 0
    /\ UNCHANGED <<late, said, minted, docVars, errors>>

JobStep(t) ==
    \/ Begin(t) \/ Check(t) \/ Reach(t) \/ Work(t) \/ Finish(t)
    \/ Capture(t) \/ Bind(t) \/ Read(t) \/ ReadSkipped(t) \/ ReadRefused(t)
    \/ Settling(t) \/ Post(t)
    \/ Pump(t) \/ SettleFails(t) \/ Drain(t) \/ Pulse(t)
    \/ Raises(t) \/ BulkRaises(t)

Request ==
    \/ RequestPlain
    \/ \E d \in Doc : RequestUpload(d)
    \/ \E o \in JobId : RequestRecover(o)
    \/ \E b \in Background : RequestSpend(b)
    \/ \E j \in JobId : AskStop(j)

Next ==
    \/ Request \/ Stop \/ Reopen \/ Crash
    \/ \E t \in Thread : JobStep(t) \/ HostGone(t)
    \/ \E d \in Doc : OtherIngest(d)

Spec == Init /\ [][Next]_vars

-----------------------------------------------------------------------------
RunRecord == [op : DOMAIN Program \cup {"none"}, job : 0 .. MaxJobs,
              gen : Gen, at : Nat, doc : Doc \cup {NoDoc}, stopped : BOOLEAN,
              raised : BOOLEAN, unread : BOOLEAN]

\* Every variable keeps its type, and a thread is idle or at a call of the
\* handler it runs, for a job it was handed.
TypeOK ==
    /\ reg \in [Gen -> [JobId -> JobRecord]] /\ file \in [JobId -> JobRecord]
    /\ late \in BOOLEAN
    /\ gen \in Gen /\ next \in 1 .. MaxJobs + 1
    /\ run \in [Thread -> RunRecord]
    /\ \A t \in Thread :
          \/ run[t] = Idle
          \/ run[t].op # "none" /\ run[t].job # 0
             /\ run[t].at \in DOMAIN Program[run[t].op]
    /\ ask \in 0 .. MaxJobs /\ said \subseteq JobId /\ minted \subseteq JobId
    /\ captured \subseteq Doc /\ posted \subseteq Doc /\ resolved \subseteq Doc
    /\ crashes \in Nat /\ errors \in Nat

\* The terminal states never move (JobState): while its registry lives, a
\* settled job keeps its state until it is forgotten, also when its thread
\* has yet to begin it.
TerminalKept ==
    crashes' = crashes =>
        \A g \in Gen : \A j \in Settled(reg[g]) :
            reg'[g][j].state \in {reg[g][j].state, "absent"}
TerminalStays == [][TerminalKept]_vars

\* Making room never takes a job away from the thread that is doing it: every
\* call of a begun handler finds its record (_job raises no KeyError).
HandleFindsJob ==
    \A t \in Thread : run[t].at > 1 => Of(t).state # "absent"

\* Until a replaced registry saves over the file, no id that a caller was
\* handed is minted again, across restarts, reopenings and forgotten receipts:
\* the file always holds the largest one.
IdsFresh == ~late => \A j \in minted : j < next

\* Of the paid runs asked of one registry, one at most is past its begin
\* (TrustActions.run), the registries that were replaced included.
OnePaidRun ==
    \A g \in Gen :
        Cardinality({ t \in Background : run[t].at > 1 /\ run[t].gen = g }) <= 1

\* A paid run's progress remains available through the job registry
\* (TrustActions.run): the registry the handlers use shows it open.
PaidRunReported ==
    \A t \in Background :
        run[t].at > 1 => reg[gen][run[t].job].state \in Open

\* A cancelled job leaves the vault where some step finished: no thread is
\* inside a step of it.
CancelledIsStill ==
    \A t \in Thread :
        Instr(t) \in {"work", "read", "settling", "post"} =>
            Of(t).state # "cancelled"

\* A stop answered by the pump of a foreground job is honoured by the very
\* checkpoint that pumped: the job never completes, nor is it restored as
\* completed, until a replaced registry saves over the file.
ForegroundStopHolds ==
    ~late => \A j \in said :
                 reg[gen][j].state = "completed" => reg[gen][j].op = "spend"

\* Only a job the ask actually moved is answered "Stopped" (cancel).
StopMoves == [][ \A j \in said' \ said : reg[gen][j].state \in Open ]_vars

\* Recovery reads again, and pays again, only while the ledger holds no event
\* of the document, whoever else ingests it meanwhile.
RecoverBeforePosting ==
    \A t \in Thread :
        run[t].op = "recover" /\ Instr(t) \in {"settling", "post"} =>
            run[t].doc \notin posted

\* The settling receipt precedes every event the pipeline may append: what a
\* crash would restore no longer reads as interrupted before posting.
ReceiptPrecedes ==
    \A t \in Thread :
        Instr(t) = "post" => file[run[t].job].stage # "reading"

\* The receipt precedes the posting of a read that succeeded, whichever other
\* saves failed before: a save of the receipt that fails makes the read a
\* failed one, and then only the failure is recorded.
SettlingPrecedes ==
    ~late => \A t \in Thread :
                 Instr(t) = "post" /\ ~run[t].unread =>
                     file[run[t].job].stage # "reading"

-----------------------------------------------------------------------------
\* The threads of a sidecar that stays up keep running.  One pump answers
\* the frames that had arrived and returns, so stop requests cannot hold the
\* foreground's job back for ever.
LiveSpec ==
    /\ Spec
    /\ \A b \in Background : WF_vars(JobStep(b))
    /\ SF_vars(JobStep(Fg))
    /\ WF_vars(Stop)

\* Every job that was opened settles, whichever of its steps raises or is
\* cancelled, and whenever the sidecar dies.
EveryJobSettles ==
    \A j \in JobId : reg[gen][j].state \in Open ~> reg[gen][j].state \notin Open
==============================================================================
