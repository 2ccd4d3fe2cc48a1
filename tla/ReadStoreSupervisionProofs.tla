--------------------- MODULE ReadStoreSupervisionProofs ---------------------
(***************************************************************************)
(* What holds of the supervised read store for every value of the           *)
(* constants.  Its inductive invariant has four parts: the types; what is   *)
(* under way between the vault and its worker, at most one request and one  *)
(* answer; the deadlines that have fired; and the events that the worker    *)
(* has captured.  A fifth part is about the fence, and what the waits that   *)
(* earlier runs left behind may do to the run that has it.                  *)
(***************************************************************************)
EXTENDS ReadStoreSupervision, TLAPS

\* The types, and that no revision is ahead of the log.
Types ==
    /\ TypeOK
    /\ bgLast <= log /\ pub <= log

\* The worker has one request at a time.  While the vault counts on an answer,
\* the request is at the worker, or its answer is in the pipe, or neither is
\* any more; while it counts on none, there is none.
OneRequest ==
    /\ child.token = 0 => child.took = None
    /\ child.took = None => ~child.shown
    /\ worker /\ ~busy => child.token = 0 /\ pipe = <<>>
    /\ worker /\ busy =>
          \/ child.token \in {0, serial} /\ pipe = <<>>
          \/ child.token = 0 /\ \E r \in Reply : r.token = serial /\ pipe = <<r>>

\* A deadline that fired was set for the attempt under way, which can no longer
\* be answered.
Deadlines ==
    \A n \in Attempt :
       watch[n] = "fired" => n \in finished /\ serial = n /\ (busy \/ ~worker)

\* A revision that will be published is not older than the published one, and
\* a store that is served as current can be read.
Revisions ==
    /\ child.took # None => pub <= child.took /\ child.took <= log
    /\ life = "current" => pub # None
    /\ \A t \in Thread : thread[t].at \in {"assign", "lift"} => pub # None

\* Every event of maintenance can be read.
Seen == bgLast = 0 \/ bgLast <= pub

\* A wait that an earlier run left behind.
Left(b) == thread[b].recovery /\ thread[b].fence # fences

\* The foreground is in the middle of its poll.
Looks == thread[Fg].at \in {"poll", "assign", "cover"}

\* Without a fence every event of maintenance can be read, and so it can when
\* the wait that owns the fence has found the published revision to be the whole
\* log.  A lifecycle that an answer made current meanwhile is corrected at the
\* end of the poll that recorded it, and before the foreground looks at it.
\* While a run writes, the fence is its own, and whoever else is there was left
\* behind.
Fence ==
    /\ ~held => Seen
    /\ life = "current" => Seen \/ Looks \/ Lingers
    /\ \A b \in Background :
          /\ thread[b].fence <= fences
          /\ thread[b].at \in {"assign", "lift"} => Seen \/ Left(b)
          /\ thread[b].at = "write" =>
                /\ held /\ ~thread[b].recovery /\ thread[b].fence = fences
                /\ life = "current" => Looks \/ Lingers
                /\ \A c \in Background \ {b} : thread[c].at = "idle" \/ Left(c)

SupervisionInv == Types /\ OneRequest /\ Deadlines /\ Revisions

-----------------------------------------------------------------------------
(* Threads *)

\* The thread t is at place after the step, and no other has moved.
Steps(t, place) ==
    /\ thread' \in [Thread -> Control] /\ thread'[t].at = place
    /\ \A u \in Thread \ {t} : thread'[u] = thread[u]

\* A thread that rests is one.
LEMMA IdleIsControl == Idle \in Control /\ Idle.at = "idle"
  BY SupervisionBoundsAssumption DEF Idle, Control, Place, Count

\* A record that replaces the thread's own.
LEMMA Replaces ==
    ASSUME Types, NEW t \in Thread, NEW u \in Control,
           thread' = [thread EXCEPT ![t] = u]
    PROVE  Steps(t, u.at)
<1>1. thread \in [Thread -> Control]
  BY DEF Types, TypeOK
<1> QED
  BY <1>1 DEF Steps

\* A thread that goes somewhere is there.
LEMMA Goes ==
    ASSUME Types, NEW t \in Thread, NEW place \in Place, Go(t, place)
    PROVE  Steps(t, place)
<1>1. thread \in [Thread -> Control] /\ thread[t] \in Control
  BY DEF Types, TypeOK
<1>2. CASE place = "idle"
  BY <1>2, IdleIsControl, Replaces DEF Go
<1>3. CASE place # "idle"
  <2> DEFINE u == [thread[t] EXCEPT !.at = place]
  <2>1. u \in Control /\ u.at = place
    BY <1>1 DEF Control
  <2>2. thread' = [thread EXCEPT ![t] = u]
    BY <1>3 DEF Go
  <2> HIDE DEF u
  <2> QED
    BY <2>1, <2>2, Replaces
<1> QED
  BY <1>2, <1>3

\* A thread that begins to poll.
LEMMA Polls ==
    ASSUME Types, NEW t \in Thread,
           NEW why \in {"serve", "refresh", "retry", "commit", "wait"},
           thread' = [thread EXCEPT ![t].at = "poll", ![t].why = why]
    PROVE  Steps(t, "poll")
<1>1. thread \in [Thread -> Control] /\ thread[t] \in Control
  BY DEF Types, TypeOK
<1> DEFINE u == [thread[t] EXCEPT !.at = "poll", !.why = why]
<1>2. u \in Control /\ u.at = "poll"
  BY <1>1 DEF Control, Place
<1>3. thread' = [thread EXCEPT ![t] = u]
  BY <1>1 DEF Control
<1> HIDE DEF u
<1> QED
  BY <1>2, <1>3, Replaces

\* A poll that turns into a retry.
LEMMA Nests ==
    ASSUME Types, NEW t \in Thread,
           thread' = [thread EXCEPT ![t].at = "poll", ![t].nested = TRUE]
    PROVE  Steps(t, "poll")
<1>1. thread \in [Thread -> Control] /\ thread[t] \in Control
  BY DEF Types, TypeOK
<1> DEFINE u == [thread[t] EXCEPT !.at = "poll", !.nested = TRUE]
<1>2. u \in Control /\ u.at = "poll"
  BY <1>1 DEF Control, Place
<1>3. thread' = [thread EXCEPT ![t] = u]
  BY <1>1 DEF Control
<1> HIDE DEF u
<1> QED
  BY <1>2, <1>3, Replaces

\* Where polls and synchronizations end.
LEMMA PlacesAfter ==
    ASSUME NEW t \in Thread
    PROVE  /\ AfterPoll(t) \in {"check", "idle", "dispatch"}
           /\ AfterPoll(t) \in Place
  BY DEF AfterPoll, Place

\* A synchronization that is done returns to whoever asked for it.
LEMMA SynchronizeEnds ==
    ASSUME Types, NEW t \in Thread, AfterSynchronize(t)
    PROVE  Steps(t, "verify") \/ Steps(t, "idle")
<1>1. CASE thread[t].why = "wait"
  BY <1>1, Goes DEF AfterSynchronize, Place
<1>2. CASE thread[t].why # "wait"
  BY <1>2, Goes DEF AfterSynchronize, Place
<1> QED
  BY <1>1, <1>2

\* Maintenance is over, or leaves its second wait.
LEMMA LeavesWait ==
    ASSUME Types, NEW b \in Background, LeaveWait(b)
    PROVE  Steps(b, "again") \/ Steps(b, "idle")
<1>1. b \in Thread /\ thread \in [Thread -> Control]
  BY DEF Types, TypeOK, Thread
<1>2. fences \in 0 .. MaxRuns
  BY DEF Types, TypeOK
<1> DEFINE u == [Idle EXCEPT !.at = "again", !.fence = fences, !.recovery = TRUE]
<1>3. u \in Control /\ u.at = "again"
  BY <1>2, IdleIsControl DEF Control, Place
<1>4. thread' = [thread EXCEPT ![b] = u] \/ thread' = [thread EXCEPT ![b] = Idle]
  BY <1>1 DEF LeaveWait
<1> HIDE DEF u
<1>5. CASE thread' = [thread EXCEPT ![b] = u]
  BY <1>1, <1>3, <1>5, Replaces
<1>6. CASE thread' = [thread EXCEPT ![b] = Idle]
  BY <1>1, <1>6, IdleIsControl, Replaces
<1> QED
  BY <1>4, <1>5, <1>6

\* Maintenance takes the fence and begins to write.
LEMMA HoldSteps ==
    ASSUME Types, NEW b \in Background, Hold(b)
    PROVE  Steps(b, "write")
<1>1. b \in Thread
  BY DEF Thread
<1>2. fences' \in 0 .. MaxRuns
  BY SupervisionBoundsAssumption DEF Types, TypeOK, Hold
<1> DEFINE u == [Idle EXCEPT !.at = "write", !.fence = fences']
<1>3. u \in Control /\ u.at = "write"
  BY <1>2, IdleIsControl DEF Control, Place
<1>4. thread' = [thread EXCEPT ![b] = u]
  BY DEF Hold
<1> HIDE DEF u
<1> QED
  BY <1>1, <1>3, <1>4, Replaces

\* Maintenance begins a round of its wait.
LEMMA RoundSteps ==
    ASSUME Types, NEW b \in Background, Round(b)
    PROVE  Steps(b, "poll")
<1>1. b \in Thread /\ thread \in [Thread -> Control] /\ thread[b] \in Control
  BY DEF Types, TypeOK, Thread
<1>2. log \in Count
  BY DEF Types, TypeOK
<1> DEFINE u == [thread[b] EXCEPT !.at = "poll", !.why = "wait", !.expected = log]
<1>3. u \in Control /\ u.at = "poll"
  BY <1>1, <1>2 DEF Control, Place
<1>4. thread' = [thread EXCEPT ![b] = u]
  BY <1>1 DEF Round
<1> HIDE DEF u
<1> QED
  BY <1>1, <1>3, <1>4, Replaces


-----------------------------------------------------------------------------
(* The invariant that needs nothing of maintenance *)

\* A store that is not current is said not to be.
LEMMA FallenIsNot ==
    /\ Fallen \in Lifecycle \ {"current"} /\ Awaiting \in Lifecycle \ {"current"}
  BY DEF Fallen, Awaiting, Lifecycle

\* The vault has been opened, and its worker asked.
LEMMA InitHolds == Init => SupervisionInv
<1> SUFFICES ASSUME Init PROVE SupervisionInv
  OBVIOUS
<1>1. /\ log = 0 /\ bgLast = 0 /\ pub \in None .. 0
      /\ life \in {"stale", "rebuilding"} /\ held = FALSE /\ fences = 0
      /\ worker = TRUE /\ busy = TRUE /\ serial = 1 /\ expected = 0
      /\ finished = {} /\ messages = <<>> /\ pipe = <<>>
      /\ child = [alive |-> TRUE, token |-> 1, took |-> None, shown |-> FALSE]
      /\ watch = [n \in Attempt |-> IF n = 1 THEN "armed" ELSE "off"]
      /\ depth = 0 /\ pending = FALSE /\ due = FALSE /\ faults = 0
      /\ thread = [t \in Thread |-> Idle]
  BY DEF Init
<1>2. 1 \in Attempt /\ 0 \in Count /\ 0 \in 0 .. MaxRuns /\ 0 \in 0 .. MaxFaults
  BY SupervisionBoundsAssumption DEF Attempt, Count
<1>3. pub \in Count \cup {None} /\ pub <= 0
  BY <1>1, <1>2 DEF None, Count
<1>4. child \in Process
  BY <1>1, <1>2 DEF Process, None
<1>5. thread \in [Thread -> Control]
  BY <1>1, IdleIsControl
<1>6. watch \in [Attempt -> {"off", "armed", "expired", "fired"}]
  BY <1>1
<1>7. Types
  <2>1. life \in Lifecycle /\ messages \in Seq(Reply) /\ pipe \in Seq(Reply)
    BY <1>1 DEF Lifecycle
  <2>2. serial \in Attempt /\ finished \subseteq Attempt
    BY <1>1, <1>2
  <2>3. log \in Count /\ bgLast \in Count /\ expected \in Count /\ bgLast <= log /\ pub <= log
    BY <1>1, <1>2, <1>3
  <2>4. held \in BOOLEAN /\ worker \in BOOLEAN /\ busy \in BOOLEAN /\ pending \in BOOLEAN
        /\ due \in BOOLEAN
    BY <1>1, Zenon
  <2>5. fences \in 0 .. MaxRuns /\ faults \in 0 .. MaxFaults /\ depth \in 0 .. 1
    BY <1>1, <1>2
  <2> QED
    BY <1>3, <1>4, <1>5, <1>6, <2>1, <2>2, <2>3, <2>4, <2>5 DEF Types, TypeOK
<1>8. OneRequest
  BY <1>1 DEF OneRequest
<1>9. Deadlines
  BY <1>1 DEF Deadlines
<1>10. Revisions
  BY <1>1, IdleIsControl DEF Revisions
<1> QED
  BY <1>7, <1>8, <1>9, <1>10 DEF SupervisionInv

\* What a step owes that leaves the worker and its attempts alone.
LEMMA ThreadStepKeeps ==
    ASSUME SupervisionInv, NEW t \in Thread, NEW place, Steps(t, place),
           UNCHANGED <<log, bgLast, pub, worker, busy, serial, expected, finished, processVars>>,
           messages' \in Seq(Reply),
           life' \in Lifecycle, held' \in BOOLEAN, fences' \in 0 .. MaxRuns,
           depth' \in 0 .. 1, pending' \in BOOLEAN, due' \in BOOLEAN,
           faults' \in 0 .. MaxFaults,
           place \in {"assign", "lift"} => pub # None,
           life' = "current" => pub # None
    PROVE  SupervisionInv'
<1>1. Types'
  BY DEF SupervisionInv, Types, TypeOK, Steps, processVars
<1>2. OneRequest'
  BY DEF SupervisionInv, OneRequest, processVars
<1>3. Deadlines'
  BY DEF SupervisionInv, Deadlines, processVars
<1>4. Revisions'
  BY DEF SupervisionInv, Revisions, Steps, processVars
<1> QED
  BY <1>1, <1>2, <1>3, <1>4 DEF SupervisionInv

\* What a step owes that leaves the threads and the fence alone.
LEMMA WorkerStepKeeps ==
    ASSUME SupervisionInv,
           UNCHANGED <<log, bgLast, fenceVars, deferVars, thread, expected, serial>>,
           pub' \in Count \cup {None}, pub <= pub', pub' <= log,
           life' \in Lifecycle, life' = "current" => pub # None,
           worker' \in BOOLEAN, busy' \in BOOLEAN, finished' \subseteq Attempt,
           messages' \in Seq(Reply), child' \in Process, pipe' \in Seq(Reply),
           watch' \in [Attempt -> {"off", "armed", "expired", "fired"}],
           faults' \in 0 .. MaxFaults,
           OneRequest', Deadlines',
           child'.took # None => pub' <= child'.took /\ child'.took <= log
    PROVE  SupervisionInv'
<1>1. pub \in Count \cup {None}
  BY DEF SupervisionInv, Types, TypeOK
<1>2. pub # None => pub' # None
  BY <1>1, SupervisionBoundsAssumption DEF Count, None
<1>3. Types'
  BY DEF SupervisionInv, Types, TypeOK, fenceVars, deferVars
<1>4. Revisions'
  BY <1>2 DEF SupervisionInv, Revisions
<1> QED
  BY <1>3, <1>4 DEF SupervisionInv

\* The worker captures the committed events.
LEMMA CaptureKeeps ==
    ASSUME SupervisionInv, Capture
    PROVE  SupervisionInv'
<1> DEFINE c == [child EXCEPT !.took = log]
<1>1. child \in Process /\ log \in Count /\ pub \in Count \cup {None} /\ pub <= log
  BY DEF SupervisionInv, Types, TypeOK
<1>2. /\ c \in Process /\ c.took = log /\ c.token = child.token
      /\ c.shown = child.shown
  BY <1>1 DEF Process
<1>3. /\ child' = c /\ child.token # 0 /\ child.took = None
      /\ UNCHANGED <<logVars, pub, life, fenceVars, attempt, pipe, watch, deferVars, thread, faults>>
  BY DEF Capture
<1> HIDE DEF c
<1>4. OneRequest'
  BY <1>1, <1>2, <1>3 DEF SupervisionInv, OneRequest, attempt
<1>5. Deadlines'
  BY <1>3 DEF SupervisionInv, Deadlines, attempt
<1>6. pub <= pub
  BY <1>1, SupervisionBoundsAssumption DEF Count, None
<1>7. /\ life \in Lifecycle /\ worker \in BOOLEAN /\ busy \in BOOLEAN
      /\ finished \subseteq Attempt /\ messages \in Seq(Reply) /\ pipe \in Seq(Reply)
      /\ watch \in [Attempt -> {"off", "armed", "expired", "fired"}]
      /\ faults \in 0 .. MaxFaults /\ log <= log
  BY SupervisionBoundsAssumption DEF SupervisionInv, Types, TypeOK, Count
<1>8. life = "current" => pub # None
  BY DEF SupervisionInv, Revisions
<1> QED
  BY <1>1, <1>2, <1>3, <1>4, <1>5, <1>6, <1>7, <1>8, WorkerStepKeeps DEF attempt, logVars

\* It publishes them.
LEMMA PublishKeeps ==
    ASSUME SupervisionInv, Publish
    PROVE  SupervisionInv'
<1> DEFINE c == [child EXCEPT !.shown = TRUE]
<1>1. child \in Process
  BY DEF SupervisionInv, Types, TypeOK
<1>2. /\ c \in Process /\ c.took = child.took /\ c.token = child.token
  BY <1>1 DEF Process
<1>3. /\ child' = c /\ child.took # None /\ pub' = child.took
      /\ UNCHANGED <<logVars, life, fenceVars, attempt, pipe, watch, deferVars, thread, faults>>
  BY DEF Publish
<1> HIDE DEF c
<1>4. OneRequest'
  BY <1>1, <1>2, <1>3 DEF SupervisionInv, OneRequest, attempt
<1>5. Deadlines'
  BY <1>3 DEF SupervisionInv, Deadlines, attempt
<1>6. child.took \in Count \cup {None} /\ pub <= child.took /\ child.took <= log
  BY <1>1, <1>3 DEF SupervisionInv, Revisions, Process
<1>7. /\ life \in Lifecycle /\ worker \in BOOLEAN /\ busy \in BOOLEAN
      /\ finished \subseteq Attempt /\ messages \in Seq(Reply) /\ pipe \in Seq(Reply)
      /\ watch \in [Attempt -> {"off", "armed", "expired", "fired"}]
      /\ faults \in 0 .. MaxFaults
  BY DEF SupervisionInv, Types, TypeOK
<1>8. life = "current" => pub # None
  BY DEF SupervisionInv, Revisions
<1>9. child.took <= child.took
  BY <1>6, SupervisionBoundsAssumption DEF Count, None
<1> QED
  BY <1>2, <1>3, <1>4, <1>5, <1>6, <1>7, <1>8, <1>9, WorkerStepKeeps DEF attempt, logVars

\* It answers: the request leaves the worker as its answer enters the pipe.
LEMMA SaysKeeps ==
    ASSUME SupervisionInv, NEW state \in {"current", "degraded"}, Says(state),
           child.alive, child.token # 0, faults' \in 0 .. MaxFaults
    PROVE  SupervisionInv'
<1> DEFINE c == [child EXCEPT !.token = 0, !.took = None, !.shown = FALSE]
           r == [token |-> child.token, state |-> state]
<1>1. child \in Process
  BY DEF SupervisionInv, Types, TypeOK
<1>2. c \in Process /\ c.took = None /\ c.token = 0 /\ c.shown = FALSE
  BY <1>1 DEF Process
<1>3. r \in Reply /\ r.token = child.token
  BY <1>1 DEF Process, Reply
<1>4. /\ child' = c /\ pipe' = Append(pipe, r)
      /\ UNCHANGED <<logVars, pub, life, fenceVars, attempt, watch, deferVars, thread>>
  BY DEF Says
<1> HIDE DEF c, r
<1>5. pipe \in Seq(Reply) /\ pipe' \in Seq(Reply)
  BY <1>3, <1>4 DEF SupervisionInv, Types, TypeOK
<1>6. worker => busy /\ child.token = serial /\ pipe = <<>>
  BY DEF SupervisionInv, OneRequest
<1>7. OneRequest'
  <2>1. CASE worker
    <3>1. pipe' = <<r>> /\ r.token = serial /\ busy
      BY <1>3, <1>4, <1>6, <2>1
    <3> QED
      BY <1>2, <1>3, <1>4, <2>1, <3>1 DEF OneRequest, attempt
  <2>2. CASE ~worker
    BY <1>2, <1>4, <2>2 DEF OneRequest, attempt
  <2> QED
    BY <2>1, <2>2 DEF SupervisionInv, Types, TypeOK
<1>8. Deadlines'
  BY <1>4 DEF SupervisionInv, Deadlines, attempt
<1>9. /\ life \in Lifecycle /\ worker \in BOOLEAN /\ busy \in BOOLEAN
      /\ finished \subseteq Attempt /\ messages \in Seq(Reply)
      /\ watch \in [Attempt -> {"off", "armed", "expired", "fired"}]
      /\ pub \in Count \cup {None} /\ pub <= log
  BY DEF SupervisionInv, Types, TypeOK
<1>10. pub <= pub
  BY <1>9, SupervisionBoundsAssumption DEF Count, None
<1>11. life = "current" => pub # None
  BY DEF SupervisionInv, Revisions
<1> QED
  BY <1>2, <1>4, <1>5, <1>7, <1>8, <1>9, <1>10, <1>11, WorkerStepKeeps DEF attempt, logVars


\* What the invariant says of each variable, for the steps that leave it alone.
LEMMA Facts ==
    ASSUME SupervisionInv
    PROVE  /\ log \in Count /\ bgLast \in Count /\ pub \in Count \cup {None}
           /\ bgLast <= log /\ pub <= log /\ pub <= pub
           /\ life \in Lifecycle /\ held \in BOOLEAN /\ fences \in 0 .. MaxRuns
           /\ worker \in BOOLEAN /\ busy \in BOOLEAN /\ serial \in Attempt
           /\ expected \in Count /\ finished \subseteq Attempt
           /\ messages \in Seq(Reply) /\ child \in Process /\ pipe \in Seq(Reply)
           /\ watch \in [Attempt -> {"off", "armed", "expired", "fired"}]
           /\ depth \in 0 .. 1 /\ pending \in BOOLEAN /\ due \in BOOLEAN
           /\ faults \in 0 .. MaxFaults
           /\ thread \in [Thread -> Control]
           /\ life = "current" => pub # None
           /\ child.took # None => pub <= child.took /\ child.took <= log
<1>1. pub \in Count \cup {None}
  BY DEF SupervisionInv, Types, TypeOK
<1>2. pub <= pub
  BY <1>1, SupervisionBoundsAssumption DEF Count, None
<1> QED
  BY <1>2 DEF SupervisionInv, Types, TypeOK, Revisions

\* A fault is counted.
LEMMA FaultCounts ==
    ASSUME SupervisionInv, Fault
    PROVE  faults' \in 0 .. MaxFaults
  BY Facts, SupervisionBoundsAssumption DEF Fault

\* The worker dies with whatever it was doing.
LEMMA WorkerDiesKeeps ==
    ASSUME SupervisionInv, WorkerDies
    PROVE  SupervisionInv'
<1> DEFINE c == [child EXCEPT !.alive = FALSE]
<1>1. /\ c \in Process /\ c.took = child.took /\ c.token = child.token
      /\ c.shown = child.shown
  BY Facts DEF Process
<1>2. /\ child' = c
      /\ UNCHANGED <<logVars, pub, life, fenceVars, attempt, pipe, watch, deferVars, thread>>
  BY DEF WorkerDies
<1> HIDE DEF c
<1>3. faults' \in 0 .. MaxFaults
  BY FaultCounts DEF WorkerDies
<1>4. OneRequest'
  BY <1>1, <1>2 DEF SupervisionInv, OneRequest, attempt
<1>5. Deadlines'
  BY <1>2 DEF SupervisionInv, Deadlines, attempt
<1> QED
  BY <1>1, <1>2, <1>3, <1>4, <1>5, Facts, WorkerStepKeeps DEF attempt, logVars

\* An answer is received.  The one that counts is the only one there is, so the
\* worker it leaves idle has nothing more to say; a deadline that fired first
\* has made it late.
LEMMA ReceiveKeeps ==
    ASSUME SupervisionInv, Receive
    PROVE  SupervisionInv'
<1>1. /\ pipe # <<>> /\ pipe' = Tail(pipe)
      /\ UNCHANGED <<logVars, pub, life, fenceVars, worker, serial, expected,
                     child, deferVars, thread, faults>>
  BY DEF Receive
<1>2. pipe' \in Seq(Reply) /\ Head(pipe) \in Reply
  BY <1>1, Facts
<1>3. CASE worker /\ busy /\ serial \notin finished /\ Valid(Head(pipe))
  <2>1. /\ finished' = finished \cup {serial} /\ busy' = FALSE
        /\ watch' = [watch EXCEPT ![serial] = IF @ = "armed" THEN "off" ELSE @]
        /\ messages' = Append(messages, Head(pipe))
    BY <1>3 DEF Receive
  <2>2. /\ finished' \subseteq Attempt /\ messages' \in Seq(Reply)
        /\ watch' \in [Attempt -> {"off", "armed", "expired", "fired"}]
        /\ \A n \in Attempt : watch'[n] = "fired" => watch[n] = "fired"
    BY <1>2, <2>1, Facts
  <2>3. \A n \in Attempt : watch[n] # "fired"
    BY <1>3 DEF SupervisionInv, Deadlines
  <2>4. child.token = 0 /\ \E r \in Reply : pipe = <<r>>
    BY <1>1, <1>3 DEF SupervisionInv, OneRequest
  <2>5. pipe' = <<>>
    BY <1>1, <2>4
  <2>6. OneRequest'
    BY <1>1, <2>1, <2>4, <2>5 DEF SupervisionInv, OneRequest
  <2>7. Deadlines'
    BY <2>2, <2>3 DEF Deadlines
  <2>8. busy' \in BOOLEAN
    BY <2>1, Zenon
  <2> QED
    BY <1>1, <1>2, <2>2, <2>6, <2>7, <2>8, Facts, WorkerStepKeeps DEF logVars
<1>4. CASE ~(worker /\ busy /\ serial \notin finished /\ Valid(Head(pipe)))
  <2>1. UNCHANGED <<finished, watch, busy, messages>>
    BY <1>4 DEF Receive
  <2>2. OneRequest'
    <3>1. CASE worker
      <4>1. PICK r \in Reply : child.token = 0 /\ r.token = serial /\ pipe = <<r>> /\ busy
        BY <1>1, <3>1 DEF SupervisionInv, OneRequest
      <4>2. pipe' = <<>>
        BY <1>1, <4>1
      <4> QED
        BY <1>1, <2>1, <4>1, <4>2 DEF SupervisionInv, OneRequest
    <3>2. CASE ~worker
      BY <1>1, <2>1, <3>2 DEF SupervisionInv, OneRequest
    <3> QED
      BY <3>1, <3>2
  <2>3. Deadlines'
    BY <1>1, <2>1 DEF SupervisionInv, Deadlines
  <2> QED
    BY <1>1, <1>2, <2>1, <2>2, <2>3, Facts, WorkerStepKeeps DEF logVars
<1> QED
  BY <1>3, <1>4

\* A deadline passes.
LEMMA ExpireKeeps ==
    ASSUME SupervisionInv, NEW n \in Attempt, Expire(n)
    PROVE  SupervisionInv'
<1>1. /\ watch' = [watch EXCEPT ![n] = "expired"]
      /\ UNCHANGED <<logVars, pub, life, fenceVars, attempt, child, pipe, deferVars, thread>>
  BY DEF Expire
<1>2. faults' \in 0 .. MaxFaults
  BY FaultCounts DEF Expire
<1>3. /\ watch' \in [Attempt -> {"off", "armed", "expired", "fired"}]
      /\ \A m \in Attempt : watch'[m] = "fired" => watch[m] = "fired"
  BY <1>1, Facts
<1>4. OneRequest'
  BY <1>1 DEF SupervisionInv, OneRequest, attempt
<1>5. Deadlines'
  BY <1>1, <1>3 DEF SupervisionInv, Deadlines, attempt
<1> QED
  BY <1>1, <1>2, <1>3, <1>4, <1>5, Facts, WorkerStepKeeps DEF attempt, logVars

\* Its watchdog finds the attempt still under way, and ends it with the worker;
\* or it does not, and goes away.
LEMMA FireKeeps ==
    ASSUME SupervisionInv, NEW n \in Attempt, Fire(n)
    PROVE  SupervisionInv'
<1>1. UNCHANGED <<logVars, pub, life, fenceVars, worker, busy, serial, expected,
                  messages, pipe, deferVars, thread, faults>>
  BY DEF Fire
<1>2. CASE StillMine(n)
  <2> DEFINE c == [child EXCEPT !.alive = FALSE]
  <2>1. /\ c \in Process /\ c.took = child.took /\ c.token = child.token
        /\ c.shown = child.shown
    BY Facts DEF Process
  <2>2. /\ child' = c /\ watch' = [watch EXCEPT ![n] = "fired"]
        /\ finished' = finished \cup {n}
    BY <1>2 DEF Fire
  <2> HIDE DEF c
  <2>3. /\ watch' \in [Attempt -> {"off", "armed", "expired", "fired"}]
        /\ finished' \subseteq Attempt
        /\ \A m \in Attempt : watch'[m] = "fired" => m = n \/ watch[m] = "fired"
    BY <2>2, Facts
  <2>4. OneRequest'
    BY <1>1, <2>1, <2>2 DEF SupervisionInv, OneRequest
  <2>5. Deadlines'
    BY <1>1, <1>2, <2>2, <2>3 DEF SupervisionInv, Deadlines, StillMine
  <2> QED
    BY <1>1, <2>1, <2>2, <2>3, <2>4, <2>5, Facts, WorkerStepKeeps DEF logVars
<1>3. CASE ~StillMine(n)
  <2>1. /\ watch' = [watch EXCEPT ![n] = "off"] /\ UNCHANGED <<finished, child>>
    BY <1>3 DEF Fire
  <2>2. /\ watch' \in [Attempt -> {"off", "armed", "expired", "fired"}]
        /\ \A m \in Attempt : watch'[m] = "fired" => watch[m] = "fired"
    BY <2>1, Facts
  <2>3. OneRequest'
    BY <1>1, <2>1 DEF SupervisionInv, OneRequest
  <2>4. Deadlines'
    BY <1>1, <2>1, <2>2 DEF SupervisionInv, Deadlines
  <2> QED
    BY <1>1, <2>1, <2>2, <2>3, <2>4, Facts, WorkerStepKeeps DEF logVars
<1> QED
  BY <1>2, <1>3

\* A worker that is forgotten owes nothing.
LEMMA ClearedKeeps ==
    ASSUME SupervisionInv, Cleared, NEW t \in Thread, NEW place, Steps(t, place),
           place \notin {"assign", "lift"},
           UNCHANGED <<logVars, pub, fenceVars, finished, child, deferVars, faults>>,
           life' \in Lifecycle, life' = "current" => pub # None,
           watch' \in [Attempt -> {"off", "armed", "expired", "fired"}],
           \A n \in Attempt : watch'[n] = "fired" => watch[n] = "fired"
    PROVE  SupervisionInv'
<1>1. /\ worker' = FALSE /\ busy' = FALSE /\ messages' = <<>> /\ pipe' = <<>>
      /\ UNCHANGED <<serial, expected>>
  BY DEF Cleared
<1>2. worker' \in BOOLEAN /\ busy' \in BOOLEAN
  BY <1>1, Zenon
<1>3. messages' \in Seq(Reply) /\ pipe' \in Seq(Reply)
  BY <1>1
<1>4. Types'
  BY <1>1, <1>2, <1>3 DEF SupervisionInv, Types, TypeOK, Steps, logVars, fenceVars, deferVars
<1>5. OneRequest'
  BY <1>1 DEF SupervisionInv, OneRequest
<1>6. Deadlines'
  BY <1>1 DEF SupervisionInv, Deadlines
<1>7. Revisions'
  BY DEF SupervisionInv, Revisions, Steps, logVars
<1> QED
  BY <1>4, <1>5, <1>6, <1>7 DEF SupervisionInv


\* The fired deadline takes the worker from the vault, unless it is gone.
LEMMA StopAfterDeadlineKeeps ==
    ASSUME SupervisionInv, NEW n \in Attempt, StopAfterDeadline(n)
    PROVE  SupervisionInv'
<1>1. /\ watch' = [watch EXCEPT ![n] = "off"]
      /\ UNCHANGED <<logVars, pub, fenceVars, finished, child, deferVars, thread, faults>>
  BY DEF StopAfterDeadline
<1>2. /\ watch' \in [Attempt -> {"off", "armed", "expired", "fired"}]
      /\ \A m \in Attempt : watch'[m] = "fired" => watch[m] = "fired"
  BY <1>1, Facts
<1>3. CASE worker /\ serial = n
  <2>1. Cleared /\ life' = Fallen
    BY <1>3 DEF StopAfterDeadline
  <2>2. CASE thread[Fg].at \notin {"assign", "lift"}
    <3>1. Steps(Fg, thread[Fg].at) /\ Fg \in Thread
      BY <1>1, Facts DEF Steps, Thread
    <3> QED
      BY <1>1, <1>2, <2>1, <2>2, <3>1, FallenIsNot, ClearedKeeps
  <2>3. CASE thread[Fg].at \in {"assign", "lift"}
    <3>1. /\ worker' = FALSE /\ busy' = FALSE /\ messages' = <<>> /\ pipe' = <<>>
          /\ UNCHANGED <<serial, expected>>
      BY <2>1 DEF Cleared
    <3>2. worker' \in BOOLEAN /\ busy' \in BOOLEAN
      BY <3>1, Zenon
    <3>3. messages' \in Seq(Reply) /\ pipe' \in Seq(Reply)
      BY <3>1
    <3>4. OneRequest'
      BY <1>1, <3>1 DEF SupervisionInv, OneRequest
    <3>5. Deadlines'
      BY <1>1, <1>2, <3>1 DEF SupervisionInv, Deadlines
    <3> QED
      BY <1>1, <1>2, <2>1, <3>1, <3>2, <3>3, <3>4, <3>5, Facts, FallenIsNot,
         WorkerStepKeeps DEF logVars
  <2> QED
    BY <2>2, <2>3
<1>4. CASE ~(worker /\ serial = n)
  <2>1. UNCHANGED <<worker, busy, serial, expected, messages, pipe, life>>
    BY <1>4 DEF StopAfterDeadline
  <2>2. OneRequest'
    BY <1>1, <2>1 DEF SupervisionInv, OneRequest
  <2>3. Deadlines'
    BY <1>1, <1>2, <2>1 DEF SupervisionInv, Deadlines
  <2> QED
    BY <1>1, <1>2, <2>1, <2>2, <2>3, Facts, WorkerStepKeeps DEF logVars
<1> QED
  BY <1>3, <1>4

\* A poll takes an answer: the store falls, or what was answered is verified.
LEMMA AcceptKeeps ==
    ASSUME SupervisionInv, NEW t \in Thread, Accept(t)
    PROVE  SupervisionInv'
<1>1. /\ messages # <<>> /\ messages' = Tail(messages)
      /\ UNCHANGED <<logVars, pub, fenceVars, worker, busy, serial, expected,
                     finished, processVars, deferVars, faults>>
  BY DEF Accept
<1>2. messages' \in Seq(Reply)
  BY <1>1, Facts
<1>3. CASE UNCHANGED thread /\ life' \in {life, Fallen}
  <2>1. Steps(t, thread[t].at)
    BY <1>3, Facts DEF Steps
  <2>2. /\ thread[t].at \in {"assign", "lift"} => pub # None
        /\ life' \in Lifecycle
        /\ life' = "current" => pub # None
    BY <1>3, Facts, FallenIsNot DEF SupervisionInv, Revisions
  <2> QED
    BY <1>1, <1>2, <2>1, <2>2, Facts, ThreadStepKeeps DEF logVars, fenceVars, deferVars
<1>4. CASE Verified /\ Go(t, "assign") /\ UNCHANGED life
  <2>1. Steps(t, "assign")
    BY <1>4, Goes DEF SupervisionInv, Place
  <2>2. pub # None
    BY <1>4, Facts, SupervisionBoundsAssumption DEF Verified, Count, None
  <2> QED
    BY <1>1, <1>2, <1>4, <2>1, <2>2, Facts, ThreadStepKeeps DEF logVars, fenceVars, deferVars
<1> QED
  BY <1>3, <1>4 DEF Accept

\* A poll has taken every answer; a dead worker is forgotten.
LEMMA PollEndsKeeps ==
    ASSUME SupervisionInv, NEW t \in Thread, PollEnds(t)
    PROVE  SupervisionInv'
<1>1. UNCHANGED <<logVars, pub, fenceVars, finished, child, watch, deferVars, faults>>
  BY DEF PollEnds
<1>2. Steps(t, "cover")
  BY Goes DEF PollEnds, Place, SupervisionInv
<1>3. CASE ~(worker /\ ~child.alive)
  <2>1. UNCHANGED <<worker, busy, serial, expected, messages, pipe, life>>
    BY <1>3 DEF PollEnds
  <2> QED
    BY <1>1, <1>2, <2>1, Facts, ThreadStepKeeps
    DEF logVars, fenceVars, deferVars, processVars
<1>4. CASE worker /\ ~child.alive
  <2>1. Cleared /\ life' = Fallen
    BY <1>4 DEF PollEnds
  <2> QED
    BY <1>1, <1>2, <2>1, Facts, FallenIsNot, ClearedKeeps
<1> QED
  BY <1>3, <1>4

\* An idle worker is asked: nothing of an earlier attempt is under way.
LEMMA DispatchKeeps ==
    ASSUME SupervisionInv, NEW t \in Thread, Dispatch(t)
    PROVE  SupervisionInv'
<1> DEFINE c == [child EXCEPT !.token = serial']
<1>1. serial' \in Unused
  BY DEF Dispatch
<1>2. serial' \in Attempt
  BY <1>1 DEF Unused
<1>3. /\ worker /\ ~busy /\ worker' = worker /\ busy' = TRUE /\ expected' = log
      /\ finished' \subseteq finished /\ watch' = [watch EXCEPT ![serial'] = "armed"]
      /\ child' = c /\ life' = Awaiting /\ AfterSynchronize(t)
      /\ UNCHANGED <<logVars, pub, fenceVars, worker, messages, pipe, deferVars, faults>>
  BY DEF Dispatch
<1>4. c \in Process /\ c.token = serial' /\ c.took = child.took /\ c.shown = child.shown
  BY <1>2, Facts DEF Process
<1> HIDE DEF c
<1>5. PICK place : Steps(t, place) /\ place \in {"verify", "idle"}
  BY <1>3, SynchronizeEnds DEF SupervisionInv
<1>6. /\ watch' \in [Attempt -> {"off", "armed", "expired", "fired"}]
      /\ \A n \in Attempt : watch'[n] = "fired" => watch[n] = "fired"
  BY <1>2, <1>3, Facts
<1>7. child.token = 0 /\ pipe = <<>>
  BY <1>3 DEF SupervisionInv, OneRequest
<1>8. busy' \in BOOLEAN
  BY <1>3, Zenon
<1>9. Types'
  <2>1. thread' \in [Thread -> Control] /\ life' \in Lifecycle
    BY <1>3, <1>5, FallenIsNot DEF Steps
  <2>2. finished' \subseteq Attempt
    BY <1>3, Facts
  <2> QED
    BY <1>2, <1>3, <1>4, <1>6, <1>8, <2>1, <2>2 DEF SupervisionInv, Types, TypeOK,
       logVars, fenceVars, deferVars
<1>10. OneRequest'
  <2>1. serial' # 0
    BY <1>2 DEF Attempt
  <2> QED
    BY <1>3, <1>4, <1>7, <2>1 DEF SupervisionInv, OneRequest
<1>11. Deadlines'
  BY <1>3, <1>6 DEF SupervisionInv, Deadlines
<1>12. Revisions'
  <2>1. child'.took = None
    BY <1>3, <1>4, <1>7 DEF SupervisionInv, OneRequest
  <2>2. life' # "current"
    BY <1>3, FallenIsNot
  <2> QED
    BY <1>3, <1>5, <2>1, <2>2 DEF SupervisionInv, Revisions, Steps
<1> QED
  BY <1>9, <1>10, <1>11, <1>12 DEF SupervisionInv

\* A dead worker refuses the request and is forgotten.
LEMMA DispatchRefusedKeeps ==
    ASSUME SupervisionInv, NEW t \in Thread, DispatchRefused(t)
    PROVE  SupervisionInv'
<1>1. /\ Cleared /\ AfterSynchronize(t)
      /\ UNCHANGED <<logVars, pub, life, fenceVars, finished, child, watch, deferVars, faults>>
  BY DEF DispatchRefused
<1>2. PICK place : Steps(t, place) /\ place \in {"verify", "idle"}
  BY <1>1, SynchronizeEnds DEF SupervisionInv
<1> QED
  BY <1>1, <1>2, Facts, ClearedKeeps

\* An event is committed.
LEMMA CommitKeeps ==
    ASSUME SupervisionInv, log < MaxEvents, log' = log + 1, bgLast' \in {bgLast, log + 1},
           UNCHANGED <<pub, life, fenceVars, attempt, processVars, deferVars, faults>>,
           NEW t \in Thread, NEW place, Steps(t, place), place \notin {"assign", "lift"}
    PROVE  SupervisionInv'
<1>1. /\ log' \in Count /\ bgLast' \in Count /\ bgLast' <= log' /\ pub <= log'
      /\ child.took # None => child.took <= log'
  BY Facts, SupervisionBoundsAssumption DEF Count, None, Process
<1>2. Types'
  BY <1>1 DEF SupervisionInv, Types, TypeOK, Steps, fenceVars, attempt, processVars, deferVars
<1>3. OneRequest'
  BY DEF SupervisionInv, OneRequest, attempt, processVars
<1>4. Deadlines'
  BY DEF SupervisionInv, Deadlines, attempt, processVars
<1>5. Revisions'
  BY <1>1 DEF SupervisionInv, Revisions, Steps, processVars
<1> QED
  BY <1>2, <1>3, <1>4, <1>5 DEF SupervisionInv


\* Steps that only move a thread.
LEMMA QuietKeeps ==
    ASSUME SupervisionInv, NEW t \in Thread, NEW place, Steps(t, place),
           place \notin {"assign", "lift"},
           UNCHANGED <<logVars, pub, attempt, processVars>>,
           life' \in Lifecycle, life' = "current" => pub # None,
           held' \in BOOLEAN, fences' \in 0 .. MaxRuns,
           depth' \in 0 .. 1, pending' \in BOOLEAN, due' \in BOOLEAN,
           faults' \in 0 .. MaxFaults
    PROVE  SupervisionInv'
  BY Facts, ThreadStepKeeps DEF logVars, attempt

\* The steps of polling and synchronizing.
LEMMA ThreadKeeps ==
    ASSUME SupervisionInv, NEW t \in Thread, PollStep(t) \/ SynchronizeStep(t)
    PROVE  SupervisionInv'
<1>1. CASE Cover(t)
  <2>1. PICK place : Steps(t, place) /\ place \notin {"assign", "lift"}
    <3>1. Go(t, AfterPoll(t)) \/ thread' = [thread EXCEPT ![t].at = "poll", ![t].nested = TRUE]
      BY <1>1 DEF Cover
    <3> QED
      BY <3>1, Goes, Nests, PlacesAfter DEF SupervisionInv
  <2>2. /\ life' \in {life, "stale"}
        /\ UNCHANGED <<logVars, pub, fenceVars, attempt, processVars, deferVars, faults>>
    BY <1>1 DEF Cover, Fenced
  <2> QED
    BY <2>1, <2>2, Facts, QuietKeeps DEF Lifecycle, fenceVars, deferVars
<1>2. CASE Record(t)
  <2>1. Steps(t, "poll")
    BY <1>2, Goes DEF Record, SupervisionInv, Place
  <2>2. /\ life' = "current" /\ thread[t].at = "assign"
        /\ UNCHANGED <<logVars, pub, fenceVars, attempt, processVars, deferVars, faults>>
    BY <1>2 DEF Record
  <2>3. pub # None /\ life' \in Lifecycle
    BY <2>2 DEF SupervisionInv, Revisions, Lifecycle
  <2> QED
    BY <2>1, <2>2, <2>3, Facts, QuietKeeps DEF fenceVars, deferVars
<1>3. CASE NothingToAsk(t)
  <2>1. PICK place : Steps(t, place) /\ place \in {"verify", "idle"}
    BY <1>3, SynchronizeEnds DEF NothingToAsk, SupervisionInv
  <2>2. /\ life' \in {life, Fallen}
        /\ UNCHANGED <<logVars, pub, fenceVars, attempt, processVars, deferVars, faults>>
    BY <1>3 DEF NothingToAsk
  <2> QED
    BY <2>1, <2>2, Facts, FallenIsNot, QuietKeeps DEF fenceVars, deferVars
<1> QED
  BY <1>1, <1>2, <1>3, AcceptKeeps, PollEndsKeeps, DispatchKeeps, DispatchRefusedKeeps
  DEF PollStep, SynchronizeStep

\* The steps of the foreground.
LEMMA ForegroundKeeps ==
    ASSUME SupervisionInv,
           \/ \E why \in {"serve", "refresh", "retry"} : StartPoll(why)
           \/ ForegroundStep \/ CommitForeground \/ Defer \/ DeferEnds
    PROVE  SupervisionInv'
<1>1. Fg \in Thread /\ Types
  BY DEF Thread, SupervisionInv
<1>2. ASSUME NEW why \in {"serve", "refresh", "retry"}, StartPoll(why)
      PROVE  SupervisionInv'
  <2>1. Steps(Fg, "poll")
    BY <1>1, <1>2, Polls DEF StartPoll
  <2>2. faults' \in 0 .. MaxFaults
    BY <1>2, FaultCounts, Facts DEF StartPoll, NoFault
  <2>3. UNCHANGED <<logVars, pub, life, fenceVars, attempt, processVars, depth, pending>>
    BY <1>2 DEF StartPoll
  <2>4. due' \in BOOLEAN
    <3>1. due' = (due /\ why # "retry")
      BY <1>2 DEF StartPoll
    <3> QED
      BY <3>1, Zenon
  <2> QED
    BY <1>1, <2>1, <2>2, <2>3, <2>4, Facts, QuietKeeps DEF fenceVars
<1>3. CASE Serve
  <2>1. Steps(Fg, "idle")
    BY <1>1, <1>3, Goes DEF Serve, Place
  <2>2. UNCHANGED <<logVars, pub, life, fenceVars, attempt, processVars, deferVars, faults>>
    BY <1>3 DEF Serve
  <2> QED
    BY <1>1, <2>1, <2>2, Facts, QuietKeeps DEF fenceVars, deferVars
<1>4. CASE Observe
  <2>1. /\ life' \in {life, Awaiting} /\ pending' \in BOOLEAN
        /\ UNCHANGED <<logVars, pub, fenceVars, attempt, processVars, depth, faults>>
    BY <1>4, Facts DEF Observe
  <2>2. PICK place : Steps(Fg, place) /\ place \in {"idle", "poll"}
    <3>1. \/ Go(Fg, "idle")
          \/ thread' = [thread EXCEPT ![Fg].at = "poll", ![Fg].why = "commit"]
      BY <1>4 DEF Observe
    <3>2. CASE Go(Fg, "idle")
      BY <1>1, <3>2, Goes DEF Place
    <3>3. CASE thread' = [thread EXCEPT ![Fg].at = "poll", ![Fg].why = "commit"]
      BY <1>1, <3>3, Polls
    <3> QED
      BY <3>1, <3>2, <3>3
  <2>3. due' \in BOOLEAN
    <3>1. due' = (due \/ depth = 0)
      BY <1>4 DEF Observe
    <3> QED
      BY <3>1, Zenon
  <2> QED
    BY <1>1, <2>1, <2>2, <2>3, Facts, FallenIsNot, QuietKeeps DEF fenceVars
<1>5. CASE CommitForeground
  <2>1. Steps(Fg, "observe")
    BY <1>1, <1>5, Goes DEF CommitForeground, Place
  <2> QED
    BY <1>1, <1>5, <2>1, CommitKeeps DEF CommitForeground
<1>6. CASE Defer
  <2>1. /\ depth' = 1 /\ thread[Fg].at = "idle"
        /\ UNCHANGED <<logVars, pub, life, fenceVars, attempt, processVars, pending, due,
                       thread, faults>>
    BY <1>6 DEF Defer
  <2>2. Steps(Fg, "idle")
    BY <2>1, Facts DEF Steps
  <2>3. depth' \in 0 .. 1
    BY <2>1
  <2> QED
    BY <1>1, <2>1, <2>2, <2>3, Facts, QuietKeeps DEF fenceVars
<1>7. CASE DeferEnds
  <2>1. /\ depth' = 0 /\ pending' = FALSE /\ thread[Fg].at = "idle"
        /\ UNCHANGED <<logVars, pub, life, fenceVars, attempt, processVars, faults>>
    BY <1>7 DEF DeferEnds
  <2>2. PICK place : Steps(Fg, place) /\ place \in {"idle", "poll"}
    <3>1. \/ thread' = thread
          \/ thread' = [thread EXCEPT ![Fg].at = "poll", ![Fg].why = "commit"]
      BY <1>7 DEF DeferEnds
    <3>2. CASE thread' = thread
      BY <2>1, <3>2, Facts DEF Steps
    <3>3. CASE thread' = [thread EXCEPT ![Fg].at = "poll", ![Fg].why = "commit"]
      BY <1>1, <3>3, Polls
    <3> QED
      BY <3>1, <3>2, <3>3
  <2>3. depth' \in 0 .. 1
    BY <2>1
  <2>4. pending' \in BOOLEAN /\ due' \in BOOLEAN
    <3>1. due' = (due \/ pending)
      BY <1>7 DEF DeferEnds
    <3> QED
      BY <2>1, <3>1, Zenon
  <2> QED
    BY <1>1, <2>1, <2>2, <2>3, <2>4, Facts, QuietKeeps DEF fenceVars
<1> QED
  BY <1>2, <1>3, <1>4, <1>5, <1>6, <1>7 DEF ForegroundStep

\* A job that ends leaves a request due, or does not.
LEMMA JobEndTyped ==
    ASSUME NEW b, JobEnds(b)
    PROVE  due' \in BOOLEAN
<1>1. due' = (due \/ ~thread[b].recovery)
  BY DEF JobEnds
<1> QED
  BY <1>1, Zenon

\* The steps of maintenance.
LEMMA BackgroundKeeps ==
    ASSUME SupervisionInv, NEW b \in Background,
           Hold(b) \/ CommitBackground(b) \/ GiveUp(b) \/ BackgroundStep(b)
    PROVE  SupervisionInv'
<1>1. b \in Thread /\ Types
  BY DEF Thread, SupervisionInv
<1>2. CASE Hold(b)
  <2>1. Steps(b, "write")
    BY <1>1, <1>2, HoldSteps
  <2>2. /\ held' = TRUE /\ life' = "stale" /\ fences < MaxRuns /\ fences' = fences + 1
        /\ UNCHANGED <<logVars, pub, attempt, processVars, deferVars, faults>>
    BY <1>2 DEF Hold
  <2>3. held' \in BOOLEAN
    BY <2>2, Zenon
  <2>4. fences' \in 0 .. MaxRuns /\ life' \in Lifecycle /\ life' # "current"
    BY <2>2, Facts, SupervisionBoundsAssumption DEF Lifecycle
  <2> QED
    BY <1>1, <2>1, <2>2, <2>3, <2>4, Facts, QuietKeeps DEF deferVars
<1>3. CASE CommitBackground(b)
  <2>1. Steps(b, "write")
    BY <1>1, <1>3, Facts DEF CommitBackground, Steps
  <2> QED
    BY <1>1, <1>3, <2>1, CommitKeeps DEF CommitBackground
<1>4. CASE GiveUp(b)
  <2>1. PICK place : Steps(b, place) /\ place \in {"again", "idle"}
    BY <1>1, <1>4, LeavesWait DEF GiveUp
  <2>2. UNCHANGED <<logVars, pub, life, fenceVars, attempt, processVars, depth, pending>>
    BY <1>4 DEF GiveUp
  <2>3. faults' \in 0 .. MaxFaults /\ due' \in BOOLEAN
    BY <1>4, FaultCounts, JobEndTyped DEF GiveUp
  <2> QED
    BY <1>1, <2>1, <2>2, <2>3, Facts, QuietKeeps DEF fenceVars
<1>5. CASE Written(b)
  <2>1. Steps(b, "again")
    BY <1>1, <1>5, Goes DEF Written, Place
  <2>2. UNCHANGED <<logVars, pub, life, fenceVars, attempt, processVars, deferVars, faults>>
    BY <1>5 DEF Written
  <2> QED
    BY <1>1, <2>1, <2>2, Facts, QuietKeeps DEF fenceVars, deferVars
<1>6. CASE Round(b)
  <2>1. Steps(b, "poll")
    BY <1>1, <1>6, RoundSteps
  <2>2. UNCHANGED <<logVars, pub, life, fenceVars, attempt, processVars, deferVars, faults>>
    BY <1>6 DEF Round
  <2> QED
    BY <1>1, <2>1, <2>2, Facts, QuietKeeps DEF fenceVars, deferVars
<1>7. CASE Verify(b)
  <2>1. UNCHANGED <<logVars, pub, life, fenceVars, attempt, processVars, depth, pending, faults>>
    BY <1>7 DEF Verify
  <2>4. due' \in BOOLEAN
    BY <1>7, JobEndTyped, Facts DEF Verify
  <2>2. CASE Visible(b) /\ Go(b, "lift")
    <3>1. Steps(b, "lift") /\ pub # None
      BY <1>1, <2>2, Goes, Facts, SupervisionBoundsAssumption DEF Place, Visible, Count, None
    <3> QED
      BY <1>1, <2>1, <2>4, <3>1, Facts, ThreadStepKeeps DEF logVars, attempt, fenceVars
  <2>3. CASE LeaveWait(b) \/ Go(b, "again")
    <3>1. PICK place : Steps(b, place) /\ place \in {"again", "idle"}
      BY <1>1, <2>3, LeavesWait, Goes DEF Place
    <3> QED
      BY <1>1, <2>1, <2>4, <3>1, Facts, QuietKeeps DEF fenceVars
  <2> QED
    BY <1>7, <2>2, <2>3 DEF Verify
<1>8. CASE Lift(b)
  <2>1. /\ thread[b].at = "lift" /\ thread' = [thread EXCEPT ![b] = Idle]
        /\ life' \in {life, "current"}
        /\ UNCHANGED <<logVars, pub, fences, attempt, processVars, depth, pending, faults>>
    BY <1>8 DEF Lift
  <2>6. due' \in BOOLEAN
    BY <1>8, JobEndTyped DEF Lift
  <2>2. Steps(b, "idle")
    BY <1>1, <2>1, IdleIsControl, Replaces
  <2>3. pub # None
    BY <1>1, <2>1 DEF SupervisionInv, Revisions
  <2>4. held' \in BOOLEAN
    <3>1. held' = FALSE \/ held' = held
      BY <1>8 DEF Lift
    <3>2. held \in BOOLEAN
      BY Facts
    <3> QED
      BY <3>1, <3>2, Zenon
  <2>5. life' \in Lifecycle
    BY <2>1, Facts DEF Lifecycle
  <2> QED
    BY <1>1, <2>1, <2>2, <2>3, <2>4, <2>5, <2>6, Facts, QuietKeeps
<1> QED
  BY <1>2, <1>3, <1>4, <1>5, <1>6, <1>7, <1>8 DEF BackgroundStep

\* Every step keeps the invariant.
LEMMA NextKeeps == SupervisionInv /\ [Next]_vars => SupervisionInv'
<1> SUFFICES ASSUME SupervisionInv, [Next]_vars PROVE SupervisionInv'
  OBVIOUS
<1>1. CASE UNCHANGED vars
  <2>1. Steps(Fg, thread[Fg].at) /\ Fg \in Thread
    BY <1>1, Facts DEF Steps, Thread, vars
  <2>2. thread[Fg].at \in {"assign", "lift"} => pub # None
    BY <2>1 DEF SupervisionInv, Revisions
  <2> QED
    BY <1>1, <2>1, <2>2, Facts, ThreadStepKeeps
    DEF vars, logVars, fenceVars, attempt, deferVars
<1>2. CASE ChildStep \/ SynchronizeFails \/ WorkerDies \/ Receive
  <2>1. CASE Answer
    <3>1. child.token # 0 /\ faults' \in 0 .. MaxFaults
      BY <2>1, Facts DEF Answer, NoFault, SupervisionInv, OneRequest
    <3> QED
      BY <2>1, <3>1, SaysKeeps DEF Answer
  <2>2. CASE SynchronizeFails
    BY <2>2, FaultCounts, SaysKeeps DEF SynchronizeFails
  <2> QED
    BY <1>2, <2>1, <2>2, CaptureKeeps, PublishKeeps, WorkerDiesKeeps, ReceiveKeeps DEF ChildStep
<1>3. CASE \E n \in Attempt : Expire(n) \/ WatchStep(n)
  BY <1>3, ExpireKeeps, FireKeeps, StopAfterDeadlineKeeps DEF WatchStep
<1>4. CASE \E t \in Thread : PollStep(t) \/ SynchronizeStep(t)
  BY <1>4, ThreadKeeps
<1>5. CASE \/ \E why \in {"serve", "refresh", "retry"} : StartPoll(why)
           \/ ForegroundStep \/ CommitForeground \/ Defer \/ DeferEnds
  BY <1>5, ForegroundKeeps
<1>6. CASE \E b \in Background : \/ Hold(b) \/ CommitBackground(b) \/ GiveUp(b)
                                 \/ BackgroundStep(b)
  BY <1>6, BackgroundKeeps
<1> QED
  BY <1>1, <1>2, <1>3, <1>4, <1>5, <1>6 DEF Next

\* The invariant holds in every behaviour.
LEMMA SupervisionInvariant == Spec => []SupervisionInv
<1>1. Init => SupervisionInv
  BY InitHolds
<1>2. SupervisionInv /\ [Next]_vars => SupervisionInv'
  BY NextKeeps
<1> QED
  BY <1>1, <1>2, PTL DEF Spec

\* The variables of vault.py, its worker, its threads and their locks keep
\* their types.
THEOREM TypeCorrect == Spec => []TypeOK
<1>1. SupervisionInv => TypeOK
  BY DEF SupervisionInv, Types
<1> QED
  BY <1>1, SupervisionInvariant, PTL

\* The watchdog of an attempt (_arm_read_store_watchdog) ends that attempt and
\* no other, and only while it is unanswered.
THEOREM DeadlinesAreTheirOwn == Spec => []DeadlineIsItsOwn
<1>1. SupervisionInv => DeadlineIsItsOwn
  BY DEF SupervisionInv, Deadlines, DeadlineIsItsOwn
<1> QED
  BY <1>1, SupervisionInvariant, PTL

\* A worker that synchronize_read_store finds idle has answered everything it
\* was asked, and every answer has been received.
THEOREM IdleWorkersHaveAnswered == Spec => []IdleMeansAnswered
<1>1. SupervisionInv => IdleMeansAnswered
  BY DEF SupervisionInv, OneRequest, IdleMeansAnswered
<1> QED
  BY <1>1, SupervisionInvariant, PTL


-----------------------------------------------------------------------------
(* The fence *)

\* A thread that moves keeps its fence, and what it is there for; or it is
\* over; or a run turns into the wait it leaves behind.
Stays(t) == /\ thread'[t].fence = thread[t].fence
            /\ thread'[t].recovery = thread[t].recovery
Keeps(t, place) ==
    \/ place = "idle" /\ thread'[t] = Idle
    \/ Stays(t)
    \/ ~thread[t].recovery /\ thread'[t].fence = fences

\* A revision of the whole log shows every event of maintenance.
LEMMA WholeIsSeen ==
    ASSUME SupervisionInv, pub = log
    PROVE  Seen
  BY Facts DEF Seen

\* What has been seen stays seen.
LEMMA SeenStays ==
    ASSUME SupervisionInv, Seen, UNCHANGED bgLast, pub <= pub', pub' \in Count \cup {None}
    PROVE  Seen'
  BY Facts, SupervisionBoundsAssumption DEF Seen, Count, None

\* A thread that goes somewhere keeps its fence.
LEMMA GoKeeps ==
    ASSUME Types, NEW t \in Thread, NEW place \in Place, Go(t, place)
    PROVE  Keeps(t, place)
<1>1. thread \in [Thread -> Control] /\ thread[t] \in Control
  BY DEF Types, TypeOK
<1>2. CASE place = "idle"
  BY <1>1, <1>2 DEF Go, Keeps
<1>3. CASE place # "idle"
  <2>1. thread'[t] = [thread[t] EXCEPT !.at = place]
    BY <1>1, <1>3 DEF Go
  <2> QED
    BY <1>1, <2>1 DEF Control, Keeps, Stays
<1> QED
  BY <1>2, <1>3

\* A synchronization that is done keeps it too.
LEMMA SynchronizeKeeps ==
    ASSUME Types, NEW t \in Thread, AfterSynchronize(t)
    PROVE  \E place \in {"verify", "idle"} : Steps(t, place) /\ Keeps(t, place)
<1>1. CASE thread[t].why = "wait"
  BY <1>1, Goes, GoKeeps DEF AfterSynchronize, Place
<1>2. CASE thread[t].why # "wait"
  BY <1>2, Goes, GoKeeps DEF AfterSynchronize, Place
<1> QED
  BY <1>1, <1>2

\* And so does the wait that a run leaves behind.
LEMMA LeavingKeeps ==
    ASSUME Types, NEW b \in Background, LeaveWait(b)
    PROVE  \E place \in {"again", "idle"} : Steps(b, place) /\ Keeps(b, place)
<1>1. b \in Thread /\ thread \in [Thread -> Control] /\ fences \in 0 .. MaxRuns
  BY DEF Types, TypeOK, Thread
<1> DEFINE u == [Idle EXCEPT !.at = "again", !.fence = fences, !.recovery = TRUE]
<1>2. u \in Control /\ u.at = "again" /\ u.fence = fences
  BY <1>1, IdleIsControl DEF Control, Place
<1>3. CASE ~thread[b].recovery /\ held /\ thread[b].fence = fences
  <2>1. thread' = [thread EXCEPT ![b] = u]
    BY <1>1, <1>3 DEF LeaveWait
  <2> HIDE DEF u
  <2>2. Steps(b, "again") /\ thread'[b] = u
    BY <1>1, <1>2, <2>1, Replaces
  <2> QED
    BY <1>2, <1>3, <2>2 DEF Keeps
<1>4. CASE ~(~thread[b].recovery /\ held /\ thread[b].fence = fences)
  <2>1. thread' = [thread EXCEPT ![b] = Idle]
    BY <1>1, <1>4 DEF LeaveWait
  <2>2. Steps(b, "idle") /\ thread'[b] = Idle
    BY <1>1, <2>1, IdleIsControl, Replaces
  <2> QED
    BY <2>2 DEF Keeps
<1> QED
  BY <1>3, <1>4

\* What a step of the foreground owes to a fence it leaves in place.
LEMMA FenceForeground ==
    ASSUME SupervisionInv, Fence, NEW place, Steps(Fg, place),
           UNCHANGED <<held, fences, bgLast, pub>>,
           life' = "current" => \/ place \in {"poll", "assign", "cover"}
                                \/ life = "current" /\ (~held \/ ~Looks)
    PROVE  Fence'
<1>1. Seen' = Seen
  BY DEF Seen
<1>2. \A b \in Background : thread'[b] = thread[b] /\ Left(b)' = Left(b)
  BY ThreadAssumption DEF Steps, Thread, Left
<1>3. Lingers' = Lingers /\ thread'[Fg].at = place
  BY <1>2 DEF Lingers, Steps
<1>4. life' = "current" => Seen \/ Looks' \/ Lingers'
  BY <1>3 DEF Fence, Looks
<1>5. ASSUME NEW b \in Background, thread[b].at = "write", life' = "current"
      PROVE  Looks' \/ Lingers'
  BY <1>3, <1>5 DEF Fence, Looks
<1> QED
  BY <1>1, <1>2, <1>4, <1>5 DEF Fence

\* What a step of maintenance owes to it.
LEMMA FenceMaintenance ==
    ASSUME SupervisionInv, Fence, NEW b \in Background, NEW place, Steps(b, place),
           Keeps(b, place), place # "write", thread[b].at # "idle",
           UNCHANGED <<held, fences, bgLast, pub>>,
           place \in {"assign", "lift"} => Seen,
           life' = "current" =>
              \/ /\ life = "current"
                 /\ thread[b].at \in {"poll", "assign", "cover"} =>
                       place \in {"poll", "assign", "cover"} \/ ~held
              \/ thread[b].at = "assign" /\ place = "poll"
    PROVE  Fence'
<1>1. Seen' = Seen
  BY DEF Seen
<1>2. b \in Thread /\ Fg \in Thread /\ b # Fg
  BY ThreadAssumption DEF Thread
<1>3. Looks' = Looks
  BY <1>2 DEF Steps, Looks
<1>4. \A c \in Background \ {b} : thread'[c] = thread[c] /\ Left(c)' = Left(c)
  BY DEF Steps, Thread, Left
<1>5. thread'[b].at = place
  BY DEF Steps
<1>6. Left(b) => place = "idle" \/ Left(b)'
  BY DEF Keeps, Left, Stays
<1>7. Lingers => \/ Lingers'
                 \/ Left(b) /\ thread[b].at \in {"poll", "assign", "cover"}
  <2> SUFFICES ASSUME Lingers
               PROVE  Lingers' \/ (Left(b) /\ thread[b].at \in {"poll", "assign", "cover"})
    OBVIOUS
  <2>1. PICK c \in Background : Left(c) /\ thread[c].at \in {"poll", "assign", "cover"}
    BY DEF Lingers, Left
  <2>2. CASE c = b
    BY <2>1, <2>2
  <2>3. CASE c # b
    <3>1. thread'[c] = thread[c] /\ Left(c)'
      BY <1>4, <2>1, <2>3
    <3> QED
      BY <2>1, <3>1 DEF Lingers, Left
  <2> QED
    BY <2>2, <2>3
<1>8. Left(b) /\ place \in {"poll", "assign", "cover"} => Lingers'
  BY <1>5, <1>6 DEF Lingers, Left
<1>9. life' = "current" => Seen \/ Looks \/ Lingers'
  BY <1>7, <1>8 DEF Fence
<1>10. thread'[b].fence <= fences
  <2>1. thread[b].fence <= fences /\ fences \in Nat /\ Idle.fence = 0
    BY Facts, SupervisionBoundsAssumption DEF Fence, Idle
  <2> QED
    BY <2>1 DEF Keeps, Stays
<1>11. ASSUME NEW c \in Background \ {b}, thread[c].at = "write"
       PROVE  /\ life' = "current" => Looks \/ Lingers'
              /\ thread'[b].at = "idle" \/ Left(b)'
  <2>1. Left(b) /\ held
    BY <1>11 DEF Fence
  <2>2. life = "current" => Looks \/ Lingers
    BY <1>11 DEF Fence
  <2> QED
    BY <1>5, <1>6, <1>7, <1>8, <2>1, <2>2
<1>12. ASSUME NEW c \in Background
       PROVE  /\ thread'[c].fence <= fences'
              /\ thread'[c].at \in {"assign", "lift"} => Seen' \/ Left(c)'
              /\ thread'[c].at = "write" =>
                    /\ held' /\ ~thread'[c].recovery /\ thread'[c].fence = fences'
                    /\ life' = "current" => Looks' \/ Lingers'
                    /\ \A d \in Background \ {c} : thread'[d].at = "idle" \/ Left(d)'
  <2>1. CASE c = b
    BY <1>1, <1>5, <1>10, <2>1
  <2>2. CASE c # b
    <3>1. thread'[c] = thread[c] /\ Left(c)' = Left(c) /\ c \in Background \ {b}
      BY <1>4, <2>2
    <3>2. /\ thread[c].fence <= fences
          /\ thread[c].at \in {"assign", "lift"} => Seen \/ Left(c)
          /\ thread[c].at = "write" =>
                /\ held /\ ~thread[c].recovery /\ thread[c].fence = fences
                /\ \A d \in Background \ {c} : thread[d].at = "idle" \/ Left(d)
      BY DEF Fence
    <3>3. thread[c].at = "write" =>
             \A d \in Background \ {c} : thread'[d].at = "idle" \/ Left(d)'
      BY <1>4, <1>11, <3>1, <3>2
    <3> QED
      BY <1>1, <1>3, <1>11, <3>1, <3>2, <3>3
  <2> QED
    BY <2>1, <2>2
<1>13. ~held' => Seen'
  BY <1>1 DEF Fence
<1> QED
  BY <1>1, <1>3, <1>9, <1>12, <1>13 DEF Fence

\* What a step of the worker or of a watchdog owes.
LEMMA FenceApart ==
    ASSUME SupervisionInv, Fence, UNCHANGED <<thread, held, fences, bgLast>>,
           pub <= pub', pub' \in Count \cup {None},
           life' = "current" => life = "current"
    PROVE  Fence'
<1>1. Seen => Seen'
  BY SeenStays
<1>2. Lingers' = Lingers /\ Looks' = Looks /\ \A b : Left(b)' = Left(b)
  BY DEF Lingers, Looks, Left
<1> QED
  BY <1>1, <1>2 DEF Fence

\* The fence that is not there hides nothing.
LEMMA FenceInit == Init => Fence
<1> SUFFICES ASSUME Init PROVE Fence
  OBVIOUS
<1>1. /\ bgLast = 0 /\ life # "current" /\ fences = 0
      /\ \A b \in Background : thread[b] = Idle
  BY DEF Init, Thread
<1>2. Idle.fence = 0 /\ Idle.at = "idle"
  BY DEF Idle
<1> QED
  BY <1>1, <1>2 DEF Fence, Seen

\* The steps of the worker, its receiver and its watchdogs.
LEMMA FenceApartKept ==
    ASSUME SupervisionInv, Fence, SupervisionInv',
           \/ ChildStep \/ SynchronizeFails \/ WorkerDies \/ Receive
           \/ \E n \in Attempt : Expire(n) \/ WatchStep(n)
    PROVE  Fence'
<1>1. pub' \in Count \cup {None}
  BY DEF SupervisionInv, Types, TypeOK
<1>2. UNCHANGED <<thread, held, fences, bgLast>>
  BY DEF ChildStep, Capture, Publish, Answer, Says, SynchronizeFails, WorkerDies, Receive,
         Expire, WatchStep, Fire, StopAfterDeadline, logVars, fenceVars
<1>3. \/ pub' = pub
      \/ child.took # None /\ pub' = child.took
  BY DEF ChildStep, Capture, Publish, Answer, Says, SynchronizeFails, WorkerDies, Receive,
         Expire, WatchStep, Fire, StopAfterDeadline
<1>4. pub <= pub'
  BY <1>3, Facts
<1>5. life' \in {life, Fallen}
  BY DEF ChildStep, Capture, Publish, Answer, Says, SynchronizeFails, WorkerDies, Receive,
         Expire, WatchStep, Fire, StopAfterDeadline
<1> QED
  BY <1>1, <1>2, <1>4, <1>5, FallenIsNot, FenceApart

\* The foreground polls and synchronizes.
LEMMA FenceForegroundPolls ==
    ASSUME SupervisionInv, Fence, PollStep(Fg) \/ SynchronizeStep(Fg)
    PROVE  Fence'
<1>1. UNCHANGED <<held, fences, bgLast, pub>>
  BY DEF PollStep, Cover, Accept, Record, PollEnds, SynchronizeStep, Dispatch,
         DispatchRefused, NothingToAsk, logVars, fenceVars
<1>2. Fg \in Thread /\ Types
  BY DEF Thread, SupervisionInv
<1>3. CASE Accept(Fg)
  <2>1. CASE UNCHANGED thread
    <3>1. Steps(Fg, "poll")
      BY <1>2, <1>3, <2>1, Facts DEF Steps, Accept
    <3> QED
      BY <1>1, <3>1, FenceForeground
  <2>2. CASE Go(Fg, "assign")
    <3>1. Steps(Fg, "assign")
      BY <1>2, <2>2, Goes DEF Place
    <3> QED
      BY <1>1, <3>1, FenceForeground
  <2> QED
    BY <1>3, <2>1, <2>2 DEF Accept
<1>4. CASE Record(Fg)
  <2>1. Steps(Fg, "poll")
    BY <1>2, <1>4, Goes DEF Record, Place
  <2> QED
    BY <1>1, <2>1, FenceForeground
<1>5. CASE PollEnds(Fg)
  <2>1. Steps(Fg, "cover")
    BY <1>2, <1>5, Goes DEF PollEnds, Place
  <2> QED
    BY <1>1, <2>1, FenceForeground
<1>6. CASE Cover(Fg)
  <2>1. life' = "current" => life = "current" /\ ~held
    BY <1>6 DEF Cover, Fenced
  <2>2. \/ Go(Fg, AfterPoll(Fg))
        \/ thread' = [thread EXCEPT ![Fg].at = "poll", ![Fg].nested = TRUE]
    BY <1>6 DEF Cover
  <2>3. PICK place : Steps(Fg, place)
    BY <1>2, <2>2, PlacesAfter, Goes, Nests
  <2> QED
    BY <1>1, <2>1, <2>3, FenceForeground
<1>7. CASE SynchronizeStep(Fg)
  <2>1. AfterSynchronize(Fg) /\ life' \in {life, Awaiting, Fallen} /\ thread[Fg].at = "dispatch"
    BY <1>7 DEF SynchronizeStep, Dispatch, DispatchRefused, NothingToAsk
  <2>2. PICK place : Steps(Fg, place)
    BY <1>2, <2>1, SynchronizeEnds
  <2>3. life' = "current" => life = "current" /\ ~Looks
    BY <2>1, FallenIsNot DEF Looks
  <2> QED
    BY <1>1, <2>2, <2>3, FenceForeground
<1> QED
  BY <1>3, <1>4, <1>5, <1>6, <1>7 DEF PollStep

\* Maintenance polls and synchronizes.
LEMMA FenceBackgroundPolls ==
    ASSUME SupervisionInv, Fence, NEW b \in Background, PollStep(b) \/ SynchronizeStep(b)
    PROVE  Fence'
<1>1. UNCHANGED <<held, fences, bgLast, pub>>
  BY DEF PollStep, Cover, Accept, Record, PollEnds, SynchronizeStep, Dispatch,
         DispatchRefused, NothingToAsk, logVars, fenceVars
<1>2. b \in Thread /\ Types
  BY DEF Thread, SupervisionInv
<1>3. CASE Accept(b)
  <2>1. CASE UNCHANGED thread /\ life' \in {life, Fallen}
    <3>1. Steps(b, "poll") /\ thread[b].at = "poll" /\ Keeps(b, "poll")
      BY <1>2, <1>3, <2>1, Facts DEF Steps, Accept, Keeps, Stays
    <3> QED
      BY <1>1, <2>1, <3>1, FallenIsNot, FenceMaintenance
  <2>2. CASE Verified /\ Go(b, "assign") /\ UNCHANGED life
    <3>1. Steps(b, "assign") /\ Keeps(b, "assign") /\ Seen
      BY <1>2, <2>2, Goes, GoKeeps, WholeIsSeen DEF Place, Verified
    <3>2. thread[b].at = "poll"
      BY <1>3 DEF Accept
    <3> QED
      BY <1>1, <2>2, <3>1, <3>2, FenceMaintenance
  <2> QED
    BY <1>3, <2>1, <2>2 DEF Accept
<1>4. CASE Record(b)
  <2>1. Steps(b, "poll") /\ Keeps(b, "poll") /\ thread[b].at = "assign"
    BY <1>2, <1>4, Goes, GoKeeps DEF Record, Place
  <2> QED
    BY <1>1, <2>1, FenceMaintenance
<1>5. CASE PollEnds(b)
  <2>1. Steps(b, "cover") /\ Keeps(b, "cover") /\ thread[b].at = "poll"
    BY <1>2, <1>5, Goes, GoKeeps DEF PollEnds, Place
  <2>2. life' \in {life, Fallen}
    BY <1>5 DEF PollEnds
  <2> QED
    BY <1>1, <2>1, <2>2, FallenIsNot, FenceMaintenance
<1>6. CASE Cover(b)
  <2>1. life' = "current" => life = "current" /\ ~held
    BY <1>6 DEF Cover, Fenced
  <2>2. thread[b].at = "cover"
    BY <1>6 DEF Cover
  <2>3. CASE Go(b, AfterPoll(b))
    <3>1. Steps(b, AfterPoll(b)) /\ Keeps(b, AfterPoll(b))
      BY <1>2, <2>3, PlacesAfter, Goes, GoKeeps
    <3> QED
      BY <1>1, <2>1, <2>2, <3>1, PlacesAfter, <1>2, FenceMaintenance
  <2>4. CASE thread' = [thread EXCEPT ![b].at = "poll", ![b].nested = TRUE]
    <3>1. Steps(b, "poll")
      BY <1>2, <2>4, Nests
    <3>2. Keeps(b, "poll")
      <4>1. thread \in [Thread -> Control] /\ thread[b] \in Control
        BY <1>2, Facts
      <4> QED
        BY <1>2, <2>4, <4>1 DEF Keeps, Stays, Control
    <3> QED
      BY <1>1, <2>1, <2>2, <3>1, <3>2, FenceMaintenance
  <2> QED
    BY <1>6, <2>3, <2>4 DEF Cover
<1>7. CASE SynchronizeStep(b)
  <2>1. AfterSynchronize(b) /\ life' \in {life, Awaiting, Fallen} /\ thread[b].at = "dispatch"
    BY <1>7 DEF SynchronizeStep, Dispatch, DispatchRefused, NothingToAsk
  <2>2. PICK place \in {"verify", "idle"} : Steps(b, place) /\ Keeps(b, place)
    BY <1>2, <2>1, SynchronizeKeeps
  <2>3. life' = "current" => life = "current"
    BY <2>1, FallenIsNot
  <2> QED
    BY <1>1, <2>1, <2>2, <2>3, FenceMaintenance
<1> QED
  BY <1>3, <1>4, <1>5, <1>6, <1>7 DEF PollStep

\* The steps of the foreground.
LEMMA FenceForegroundKept ==
    ASSUME SupervisionInv, Fence,
           \/ \E why \in {"serve", "refresh", "retry"} : StartPoll(why)
           \/ ForegroundStep \/ CommitForeground \/ Defer \/ DeferEnds
    PROVE  Fence'
<1>1. Fg \in Thread /\ Types
  BY DEF Thread, SupervisionInv
<1>2. UNCHANGED <<held, fences, bgLast, pub>>
  BY DEF StartPoll, ForegroundStep, Serve, Observe, CommitForeground, Defer, DeferEnds,
         logVars, fenceVars
<1>3. life' \in {life, Awaiting} /\ thread[Fg].at \in {"idle", "check", "observe"}
  BY DEF StartPoll, ForegroundStep, Serve, Observe, CommitForeground, Defer, DeferEnds
<1>4. life' = "current" => life = "current" /\ ~Looks
  BY <1>3, FallenIsNot DEF Looks
<1>5. \/ Go(Fg, "idle") \/ Go(Fg, "observe")
      \/ thread' = thread
      \/ \E why \in {"serve", "refresh", "retry", "commit"} :
            thread' = [thread EXCEPT ![Fg].at = "poll", ![Fg].why = why]
  BY DEF StartPoll, ForegroundStep, Serve, Observe, CommitForeground, Defer, DeferEnds
<1>6. PICK place : Steps(Fg, place)
  <2>1. CASE Go(Fg, "idle") \/ Go(Fg, "observe")
    BY <1>1, <2>1, Goes DEF Place
  <2>2. CASE thread' = thread
    BY <2>2, Facts DEF Steps
  <2>3. CASE \E why \in {"serve", "refresh", "retry", "commit"} :
                thread' = [thread EXCEPT ![Fg].at = "poll", ![Fg].why = why]
    BY <1>1, <2>3, Polls
  <2> QED
    BY <1>5, <2>1, <2>2, <2>3
<1> QED
  BY <1>2, <1>4, <1>6, FenceForeground

\* A run takes the fence: the waits of earlier runs are left behind by it.
LEMMA FenceHeld ==
    ASSUME SupervisionInv, Fence, NEW b \in Background, Hold(b)
    PROVE  Fence'
<1>1. b \in Thread /\ thread \in [Thread -> Control]
  BY Facts DEF Thread
<1>2. /\ held' = TRUE /\ life' = "stale" /\ fences' = fences + 1
      /\ thread' = [thread EXCEPT ![b] = [Idle EXCEPT !.at = "write", !.fence = fences']]
      /\ \A c \in Background : thread[c].at # "idle" => thread[c].recovery
  BY DEF Hold
<1>3. thread'[b].at = "write" /\ thread'[b].fence = fences' /\ ~thread'[b].recovery
  BY <1>1, <1>2 DEF Idle
<1>4. ASSUME NEW c \in Background \ {b}
      PROVE  /\ thread'[c] = thread[c] /\ thread[c].fence < fences'
             /\ thread[c].at = "idle" \/ Left(c)'
  <2>1. c \in Thread /\ thread[c] \in Control /\ thread[c].fence <= fences
    BY <1>1 DEF Fence, Thread
  <2>2. thread[c].fence \in Int /\ fences \in Int
    BY <2>1, Facts DEF Control
  <2>3. thread[c].fence < fences' /\ thread'[c] = thread[c]
    BY <1>1, <1>2, <2>1, <2>2
  <2>4. fences' \in Int
    BY <1>2, <2>2
  <2> QED
    BY <1>2, <2>2, <2>3, <2>4 DEF Left
<1>5. ASSUME NEW c \in Background \ {b}
      PROVE  /\ thread'[c].at # "write" /\ thread'[c].fence <= fences'
             /\ thread'[c].at \in {"assign", "lift"} => Left(c)'
  <2>1. thread[c].at # "write"
    BY <1>2 DEF Fence
  <2>2. thread[c].fence \in Int /\ fences' \in Int
    BY <1>1, <1>2, Facts DEF Control, Thread
  <2> QED
    BY <1>4, <2>1, <2>2
<1>6. fences' <= fences'
  BY <1>2, Facts
<1> QED
  BY <1>2, <1>3, <1>4, <1>5, <1>6 DEF Fence

\* The run writes behind its fence.
LEMMA FenceWritten ==
    ASSUME SupervisionInv, Fence, NEW b \in Background, CommitBackground(b)
    PROVE  Fence'
<1>1. thread[b].at = "write" /\ UNCHANGED <<thread, held, fences, life>>
  BY DEF CommitBackground, fenceVars
<1>2. Lingers' = Lingers /\ Looks' = Looks /\ \A c : Left(c)' = Left(c)
  BY <1>1 DEF Lingers, Looks, Left
<1>3. /\ held
      /\ life = "current" => Looks \/ Lingers
      /\ \A c \in Background : thread[c].at \in {"assign", "lift"} => Left(c)
  BY <1>1 DEF Fence
<1> QED
  BY <1>1, <1>2, <1>3 DEF Fence

\* A wait lifts its own fence, over a revision that shows what its run wrote; a
\* wait that was left behind lifts nothing.
LEMMA FenceLifted ==
    ASSUME SupervisionInv, Fence, NEW b \in Background, Lift(b)
    PROVE  Fence'
<1>1. b \in Thread /\ Types
  BY DEF Thread, SupervisionInv
<1>2. /\ thread[b].at = "lift" /\ thread' = [thread EXCEPT ![b] = Idle]
      /\ UNCHANGED <<bgLast, pub, fences>>
  BY DEF Lift, logVars
<1>3. Steps(b, "idle") /\ thread'[b] = Idle
  BY <1>1, <1>2, IdleIsControl, Replaces DEF Types, TypeOK
<1>4. CASE thread[b].fence # fences
  <2>1. UNCHANGED <<held, life>>
    BY <1>4 DEF Lift
  <2> QED
    BY <1>2, <1>3, <2>1, FenceMaintenance DEF Keeps
<1>5. CASE thread[b].fence = fences
  <2>1. Seen /\ Seen'
    BY <1>2, <1>5 DEF Fence, Left, Seen
  <2>2. \A c \in Background : thread'[c] = Idle \/ thread'[c] = thread[c]
    BY <1>3 DEF Steps, Thread
  <2>3. \A c \in Background : thread[c].at # "write"
    BY <1>2, <1>5 DEF Fence, Left
  <2>4. Idle.at = "idle" /\ Idle.fence = 0 /\ 0 <= fences
    BY Facts DEF Idle
  <2> QED
    BY <1>2, <2>1, <2>2, <2>3, <2>4 DEF Fence
<1> QED
  BY <1>4, <1>5

\* The steps of maintenance.
LEMMA FenceBackgroundKept ==
    ASSUME SupervisionInv, Fence, NEW b \in Background,
           Hold(b) \/ CommitBackground(b) \/ GiveUp(b) \/ BackgroundStep(b)
    PROVE  Fence'
<1>1. b \in Thread /\ Types
  BY DEF Thread, SupervisionInv
<1>2. CASE GiveUp(b) \/ Written(b) \/ Round(b)
  <2>1. /\ thread[b].at \in {"write", "again", "lift"}
        /\ UNCHANGED <<held, fences, bgLast, pub, life>>
    BY <1>2 DEF GiveUp, Written, Round, logVars, fenceVars
  <2>2. PICK place \in {"again", "idle", "poll"} : Steps(b, place) /\ Keeps(b, place)
    <3>1. CASE Round(b)
      <4>1. Steps(b, "poll")
        BY <3>1, <1>1, RoundSteps
      <4>2. Keeps(b, "poll")
        <5>1. thread \in [Thread -> Control] /\ thread[b] \in Control
          BY <1>1, Facts
        <5> QED
          BY <1>1, <3>1, <5>1 DEF Round, Keeps, Stays, Control
      <4> QED
        BY <4>1, <4>2
    <3>2. CASE GiveUp(b)
      BY <1>1, <3>2, LeavingKeeps DEF GiveUp
    <3>3. CASE Written(b)
      BY <1>1, <3>3, Goes, GoKeeps DEF Written, Place
    <3> QED
      BY <1>2, <3>1, <3>2, <3>3
  <2> QED
    BY <2>1, <2>2, FenceMaintenance
<1>3. CASE Verify(b)
  <2>1. thread[b].at = "verify" /\ UNCHANGED <<held, fences, bgLast, pub, life>>
    BY <1>3 DEF Verify, logVars, fenceVars
  <2>2. CASE Visible(b) /\ Go(b, "lift")
    <3>1. Steps(b, "lift") /\ Keeps(b, "lift") /\ Seen
      BY <1>1, <2>2, Goes, GoKeeps, WholeIsSeen DEF Place, Visible
    <3> QED
      BY <2>1, <3>1, FenceMaintenance
  <2>3. CASE LeaveWait(b) \/ Go(b, "again")
    <3>1. PICK place \in {"again", "idle"} : Steps(b, place) /\ Keeps(b, place)
      BY <1>1, <2>3, LeavingKeeps, Goes, GoKeeps DEF Place
    <3> QED
      BY <2>1, <3>1, FenceMaintenance
  <2> QED
    BY <1>3, <2>2, <2>3 DEF Verify
<1> QED
  BY <1>2, <1>3, FenceHeld, FenceWritten, FenceLifted DEF BackgroundStep

\* What the surfaces read as current shows everything maintenance committed,
\* however many runs there have been and whatever their waits are doing, except
\* while a wait of an earlier run is in the middle of its poll.
THEOREM FenceCoversMaintenance == Spec => []FenceCovers
<1>1. Init => SupervisionInv /\ Fence
  BY InitHolds, FenceInit
<1>2. SupervisionInv /\ Fence /\ [Next]_vars => (SupervisionInv /\ Fence)'
  <2> SUFFICES ASSUME SupervisionInv, Fence, [Next]_vars PROVE (SupervisionInv /\ Fence)'
    OBVIOUS
  <2>1. SupervisionInv'
    BY NextKeeps
  <2>2. CASE UNCHANGED vars
    BY <2>1, <2>2, Facts, FenceApart DEF vars, logVars, fenceVars
  <2>3. CASE Next
    BY <2>1, <2>3, FenceApartKept, FenceForegroundPolls, FenceBackgroundPolls,
       FenceForegroundKept, FenceBackgroundKept
    DEF Next, Thread
  <2> QED
    BY <2>1, <2>2, <2>3
<1>3. SupervisionInv /\ Fence => FenceCovers
  <2> SUFFICES ASSUME SupervisionInv, Fence, thread[Fg].at = "check", life = "current",
                      ~Lingers
               PROVE  bgLast <= pub
    BY Facts, SupervisionBoundsAssumption DEF FenceCovers, Count, None
  <2>1. Seen /\ pub # None
    BY Facts DEF Fence, Looks
  <2> QED
    BY <2>1, Facts, SupervisionBoundsAssumption DEF Seen, Count, None
<1> QED
  BY <1>1, <1>2, <1>3, PTL DEF Spec

=============================================================================
