------------------------ MODULE ReadStoreSupervision ------------------------
(***************************************************************************)
(* How an open vault keeps its read store current (product/viva/vault.py)   *)
(* and what it may show meanwhile: the worker process that synchronizes it, *)
(* the thread that receives its answers, the watchdog of each attempt, the  *)
(* foreground that commits and reads, and background maintenance, which     *)
(* commits through a fork that nobody observes and so fences the reads off. *)
(*                                                                         *)
(* What the worker does to the store is ReadPublication; here a revision is *)
(* the number of committed events it shows.  One step is what a thread does *)
(* under one lock.  The lifecycles "equal", "caught_up" and "rebuilt" are   *)
(* all "current".  An attempt is one name for its token, its serial and its *)
(* cancel event, which are new together: a name comes back only when nothing*)
(* refers to it any more.  A vault opened without a worker is not modelled. *)
(***************************************************************************)
EXTENDS Integers, Sequences

CONSTANTS
    Background,    \* background maintenance threads
    MaxEvents,     \* bound: events committed
    MaxRuns,       \* bound: times maintenance takes the fence
    MaxFaults,     \* bound: failed, late or dead workers, waits given up,
                   \* synchronizations a person asks for unprompted
    Attempts       \* bound: attempts something still refers to

Fg == "foreground"
Thread == Background \cup {Fg}

ASSUME ThreadAssumption == Fg \notin Background
ASSUME SupervisionBoundsAssumption ==
    /\ MaxEvents \in Nat /\ MaxRuns \in Nat /\ MaxFaults \in Nat
    /\ Attempts \in Nat \ {0}

Count == 0 .. MaxEvents
None == -1                          \* no revision that can be opened
Attempt == 1 .. Attempts
Lifecycle == {"current", "stale", "rebuilding", "degraded"}
Reply == [token : Attempt, state : {"current", "degraded"}]

\* The child process: what it works on, and the events it captured for it.
Process == [alive : BOOLEAN, token : Attempt \cup {0},
            took : Count \cup {None}, shown : BOOLEAN]

\* A thread: where it is, for which purpose, whether it holds the visibility
\* lock (a retry made by a poll), the identity it waits for, its fence, and
\* whether it is only there to lift it.
Place == {"idle", "observe", "poll", "assign", "cover", "dispatch", "check",
          "write", "again", "verify", "lift"}
Control == [at : Place, why : {"none", "serve", "refresh", "retry", "commit",
                              "wait"},
            nested : BOOLEAN, expected : Count, fence : 0 .. MaxRuns,
            recovery : BOOLEAN]
Idle == [at |-> "idle", why |-> "none", nested |-> FALSE, expected |-> 0,
         fence |-> 0, recovery |-> FALSE]

VARIABLES
    log,          \* events committed
    bgLast,       \* the last of them that maintenance committed
    pub,          \* events shown by the published revision
    life,         \* read_store_lifecycle
    held,         \* the visibility fence, and
    fences,       \* its serial
    worker,       \* whether the vault has its worker
    busy, serial, expected,      \* its attempt
    finished,     \* attempts whose cancel event is set, while one may look
    messages,     \* acknowledged replies
    child,        \* the worker process
    pipe,         \* its output
    watch,        \* the watchdog of each attempt
    depth, pending,              \* deferred publication
    due,          \* whether the desktop is about to ask for a synchronization
    thread,
    faults

logVars == <<log, bgLast>>
fenceVars == <<held, fences>>
attempt == <<worker, busy, serial, expected, finished, messages>>
processVars == <<child, pipe, watch>>
deferVars == <<depth, pending, due>>
vars == <<logVars, pub, life, fenceVars, attempt, processVars, deferVars,
          thread, faults>>

\* The vault has been opened on a store that could be read, was just made,
\* or could not be read, and its worker has its first request.
Init ==
    /\ log = 0 /\ bgLast = 0
    /\ pub \in None .. log
    /\ life \in {"stale", "rebuilding"} /\ (life = "stale" => pub # None)
    /\ held = FALSE /\ fences = 0
    /\ worker = TRUE /\ busy = TRUE /\ serial = 1 /\ expected = log
    /\ finished = {} /\ messages = <<>>
    /\ child = [alive |-> TRUE, token |-> 1, took |-> None,
                shown |-> FALSE] /\ pipe = <<>>
    /\ watch = [n \in Attempt |-> IF n = 1 THEN "armed" ELSE "off"]
    /\ depth = 0 /\ pending = FALSE /\ due = FALSE
    /\ thread = [t \in Thread |-> Idle]
    /\ faults = 0

Fault == faults < MaxFaults /\ faults' = faults + 1
NoFault == UNCHANGED faults

-----------------------------------------------------------------------------
(* Locks and small steps *)

Go(t, place) ==
    thread' = [thread EXCEPT ![t] = IF place = "idle" THEN Idle
                                    ELSE [@ EXCEPT !.at = place]]

\* _read_store_worker_lock is kept from one step to the next only between
\* verifying a reply and recording it, the visibility lock only by a retry.
WorkerLock(t) == \A u \in Thread \ {t} : thread[u].at # "assign"
VisibilityLock(t) == \A u \in Thread \ {t} : ~thread[u].nested

\* What is left to say without a current revision
Fallen == IF pub # None THEN "stale" ELSE "degraded"
Awaiting == IF pub # None THEN "stale" ELSE "rebuilding"

\* _clear_read_store_worker_locked; closing its streams ends the receiver.
Cleared ==
    /\ worker' = FALSE /\ busy' = FALSE /\ messages' = <<>> /\ pipe' = <<>>
    /\ UNCHANGED <<serial, expected>>

-----------------------------------------------------------------------------
(* The worker process *)

\* synchronize captures the committed events it will show ...
Capture ==
    /\ child.alive /\ child.token # 0 /\ child.took = None
    /\ child' = [child EXCEPT !.took = log]
    /\ UNCHANGED <<logVars, pub, life, fenceVars, attempt, pipe, watch,
                   deferVars, thread, faults>>

\* ... publishes them ...
Publish ==
    /\ child.alive /\ child.took # None /\ ~child.shown
    /\ pub' = child.took
    /\ child' = [child EXCEPT !.shown = TRUE]
    /\ UNCHANGED <<logVars, life, fenceVars, attempt, pipe, watch, deferVars,
                   thread, faults>>

Says(state) ==
    /\ pipe' = Append(pipe, [token |-> child.token, state |-> state])
    /\ child' = [child EXCEPT !.token = 0, !.took = None, !.shown = FALSE]
    /\ UNCHANGED <<logVars, pub, life, fenceVars, attempt, watch, deferVars,
                   thread>>

\* ... and answers.
Answer == child.alive /\ child.shown /\ Says("current") /\ NoFault

\* A synchronization that raises is answered too.
SynchronizeFails == child.alive /\ child.token # 0 /\ Says("degraded") /\ Fault

WorkerDies ==
    /\ child.alive
    /\ child' = [child EXCEPT !.alive = FALSE]
    /\ Fault
    /\ UNCHANGED <<logVars, pub, life, fenceVars, attempt, pipe, watch,
                   deferVars, thread>>

-----------------------------------------------------------------------------
(* Answers and deadlines *)

\* _valid_read_store_reply
Valid(reply) == reply.token = serial

\* The receiving thread: _acknowledge_read_store_reply
Receive ==
    /\ pipe # <<>> /\ \A t \in Thread : thread[t].at # "assign"
    /\ pipe' = Tail(pipe)
    /\ IF worker /\ busy /\ serial \notin finished /\ Valid(Head(pipe))
       THEN /\ finished' = finished \cup {serial}
            /\ watch' = [watch EXCEPT ![serial] = IF @ = "armed" THEN "off"
                                                  ELSE @]
            /\ busy' = FALSE
            /\ messages' = Append(messages, Head(pipe))
       ELSE UNCHANGED <<finished, watch, busy, messages>>
    /\ UNCHANGED <<logVars, pub, life, fenceVars, worker, serial, expected,
                   child, deferVars, thread, faults>>

\* The wait for an attempt's cancel event times out ...
Expire(n) ==
    /\ watch[n] = "armed" /\ n \notin finished
    /\ watch' = [watch EXCEPT ![n] = "expired"]
    /\ Fault
    /\ UNCHANGED <<logVars, pub, life, fenceVars, attempt, child, pipe,
                   deferVars, thread>>

\* Mutant: the watchdog kills whatever the worker is doing by then.
StillMineAlways(n) == worker

StillMine(n) == n \notin finished /\ worker /\ busy /\ serial = n

\* Mutant: the attempt is given up and the worker kept.
FireSoftly(n) ==
    /\ watch[n] = "expired"
    /\ watch' = [watch EXCEPT ![n] = "off"]
    /\ IF StillMine(n)
       THEN busy' = FALSE /\ finished' = finished \cup {n}
       ELSE UNCHANGED <<busy, finished>>
    /\ UNCHANGED <<logVars, pub, life, fenceVars, worker, serial, expected,
                   messages, child, pipe, deferVars, thread, faults>>

\* ... its watchdog kills the worker, if that attempt is still under way ...
Fire(n) ==
    /\ watch[n] = "expired"
    /\ IF StillMine(n)
       THEN /\ watch' = [watch EXCEPT ![n] = "fired"]
            /\ finished' = finished \cup {n}
            /\ child' = [child EXCEPT !.alive = FALSE]
       ELSE /\ watch' = [watch EXCEPT ![n] = "off"]
            /\ UNCHANGED <<finished, child>>
    /\ UNCHANGED <<logVars, pub, life, fenceVars, worker, busy, serial,
                   expected, messages, pipe, deferVars, thread, faults>>

\* ... and takes it from the vault.
StopAfterDeadline(n) ==
    /\ watch[n] = "fired" /\ \A t \in Thread : thread[t].at # "assign"
    /\ watch' = [watch EXCEPT ![n] = "off"]
    /\ IF worker /\ serial = n
       THEN Cleared /\ life' = Fallen
       ELSE UNCHANGED <<worker, busy, serial, expected, messages, pipe, life>>
    /\ UNCHANGED <<logVars, pub, fenceVars, finished, child, deferVars, thread,
                   faults>>

-----------------------------------------------------------------------------
(* poll_read_store_worker *)

\* Where a poll goes on.  A serve or a refresh wanted the poll only; the
\* others, and a refresh's retry, are on their way through synchronize.
AfterPoll(t) == CASE thread[t].why = "serve" -> "check"
                  [] thread[t].why = "refresh" /\ ~thread[t].nested -> "idle"
                  [] OTHER -> "dispatch"

\* The published revision is of the events that were committed at dispatch,
\* and they are all.  (Read twice around opening the revision: since the log
\* only grows, and no revision is ahead of it, once is the same.)
Verified == log = expected /\ pub = expected

\* _accept_read_store_reply, as far as its verdict
Accept(t) ==
    /\ thread[t].at = "poll" /\ worker /\ messages # <<>> /\ WorkerLock(t)
    /\ messages' = Tail(messages)
    /\ \/ /\ ~Valid(Head(messages))
          /\ UNCHANGED <<life, thread>>
       \/ /\ Valid(Head(messages))
          /\ Head(messages).state = "degraded" \/ ~Verified
          /\ life' = Fallen
          /\ UNCHANGED thread
       \/ /\ Valid(Head(messages))
          /\ Head(messages).state # "degraded" /\ Verified
          /\ Go(t, "assign")
          /\ UNCHANGED life
    /\ UNCHANGED <<logVars, pub, fenceVars, worker, busy, serial, expected,
                   finished, processVars, deferVars, faults>>

Record(t) ==
    /\ thread[t].at = "assign"
    /\ life' = "current"
    /\ Go(t, "poll")
    /\ UNCHANGED <<logVars, pub, fenceVars, attempt, processVars, deferVars,
                   faults>>

\* The fence overrules what the worker's answer said.
Fenced(mode) == IF held THEN "stale" ELSE mode

\* No answer is left.  A worker that has died is forgotten ...
PollEnds(t) ==
    /\ thread[t].at = "poll" /\ (worker => messages = <<>>)
    /\ IF worker /\ ~child.alive
       THEN WorkerLock(t) /\ Cleared /\ life' = Fallen
       ELSE UNCHANGED <<worker, busy, serial, expected, messages, pipe, life>>
    /\ Go(t, "cover")
    /\ UNCHANGED <<logVars, pub, fenceVars, finished, child, watch, deferVars,
                   faults>>

\* ... and then, under the visibility lock, the fence holds, and a refresh
\* asks an idle worker again while there is something to do.
Cover(t) ==
    /\ thread[t].at = "cover" /\ VisibilityLock(t)
    /\ life' = Fenced(life)
    /\ IF /\ thread[t].why = "refresh" /\ ~thread[t].nested
          /\ ~held /\ worker /\ ~busy /\ life \in {"stale", "rebuilding"}
       THEN thread' = [thread EXCEPT ![t].at = "poll", ![t].nested = TRUE]
       ELSE Go(t, AfterPoll(t))
    /\ UNCHANGED <<logVars, pub, fenceVars, attempt, processVars, deferVars,
                   faults>>

-----------------------------------------------------------------------------
(* synchronize_read_store, after its poll *)

AfterSynchronize(t) == Go(t, IF thread[t].why = "wait" THEN "verify"
                             ELSE "idle")

\* The names nothing refers to
Unused == {n \in Attempt \ {serial, child.token} :
              /\ watch[n] = "off"
              /\ \A i \in DOMAIN pipe : pipe[i].token # n
              /\ \A i \in DOMAIN messages : messages[i].token # n}

Dispatch(t) ==
    /\ thread[t].at = "dispatch" /\ WorkerLock(t)
    /\ worker /\ ~busy /\ child.alive
    /\ Unused # {} /\ serial' = CHOOSE n \in Unused : TRUE
    /\ busy' = TRUE /\ expected' = log
    /\ finished' = {n \in finished : watch[n] # "off"}
    /\ watch' = [watch EXCEPT ![serial'] = "armed"]
    /\ child' = [child EXCEPT !.token = serial']
    /\ life' = Awaiting
    /\ AfterSynchronize(t)
    /\ UNCHANGED <<logVars, pub, fenceVars, worker, messages, pipe, deferVars,
                   faults>>

\* The pipe of a dead worker refuses the request.
DispatchRefused(t) ==
    /\ thread[t].at = "dispatch" /\ WorkerLock(t)
    /\ worker /\ ~busy /\ ~child.alive
    /\ Cleared
    /\ AfterSynchronize(t)
    /\ UNCHANGED <<logVars, pub, life, fenceVars, finished, child, watch,
                   deferVars, faults>>

\* An attempt is under way already, or there is no worker any more.
NothingToAsk(t) ==
    /\ thread[t].at = "dispatch"
    /\ ~worker \/ busy
    /\ worker => WorkerLock(t)
    /\ life' = IF worker THEN life ELSE Fallen
    /\ AfterSynchronize(t)
    /\ UNCHANGED <<logVars, pub, fenceVars, attempt, processVars, deferVars,
                   faults>>

-----------------------------------------------------------------------------
(* The foreground *)

\* A surface polls, looks at the lifecycle and reads; the page is refreshed;
\* or the desktop asks for a synchronization whatever the lifecycle, as it does
\* after every action and every job that ended (of the actions, those that have
\* committed), and where the store is degraded; a person's own is bounded.
StartPoll(why) ==
    /\ thread[Fg].at = "idle"
    /\ IF why = "retry" /\ ~due /\ life # "degraded" THEN Fault ELSE NoFault
    /\ due' = (due /\ why # "retry")
    /\ thread' = [thread EXCEPT ![Fg].at = "poll", ![Fg].why = why]
    /\ UNCHANGED <<logVars, pub, life, fenceVars, attempt, processVars,
                   depth, pending>>

AskAgain == due /\ StartPoll("retry")

Serve ==
    /\ thread[Fg].at = "check"
    /\ Go(Fg, "idle")
    /\ UNCHANGED <<logVars, pub, life, fenceVars, attempt, processVars,
                   deferVars, faults>>

CommitForeground ==
    /\ thread[Fg].at = "idle" /\ log < MaxEvents
    /\ log' = log + 1
    /\ Go(Fg, "observe")
    /\ UNCHANGED <<bgLast, pub, life, fenceVars, attempt, processVars,
                   deferVars, faults>>

\* _after_canonical_commit; outside a scope, the action is over with it.
Observe ==
    /\ thread[Fg].at = "observe"
    /\ due' = (due \/ depth = 0)
    /\ \/ /\ depth > 0
          /\ pending' = TRUE
          /\ life' = Awaiting
          /\ Go(Fg, "idle")
       \/ /\ depth = 0 /\ life = "rebuilding"
          /\ Go(Fg, "idle")
          /\ UNCHANGED <<life, pending>>
       \/ /\ depth = 0 /\ life # "rebuilding"
          /\ life' = Awaiting
          /\ thread' = [thread EXCEPT ![Fg].at = "poll", ![Fg].why = "commit"]
          /\ UNCHANGED pending
    /\ UNCHANGED <<logVars, pub, fenceVars, attempt, processVars, depth,
                   faults>>

\* defer_read_store_updates: a document's scope opens ...
Defer ==
    /\ thread[Fg].at = "idle" /\ depth = 0 /\ log < MaxEvents
    /\ depth' = 1
    /\ UNCHANGED <<logVars, pub, life, fenceVars, attempt, processVars,
                   pending, due, thread, faults>>

\* ... and publishes once at its end.
DeferEnds ==
    /\ thread[Fg].at = "idle" /\ depth = 1
    /\ depth' = 0 /\ pending' = FALSE /\ due' = (due \/ pending)
    /\ thread' = IF pending
                 THEN [thread EXCEPT ![Fg].at = "poll", ![Fg].why = "commit"]
                 ELSE thread
    /\ UNCHANGED <<logVars, pub, life, fenceVars, attempt, processVars, faults>>

-----------------------------------------------------------------------------
(* Maintenance in the background: trust_actions._spend_in_background *)

\* hold_read_store_visibility, in the one paid run at a time that the registry
\* admits (JobRegistry's OnePaidRun); an earlier run may have left its wait.
Hold(b) ==
    /\ thread[b].at = "idle" /\ fences < MaxRuns /\ VisibilityLock(b)
    /\ \A u \in Background : thread[u].at # "idle" => thread[u].recovery
    /\ fences' = fences + 1 /\ held' = TRUE /\ life' = "stale"
    /\ thread' = [thread EXCEPT ![b] = [Idle EXCEPT !.at = "write",
                                                    !.fence = fences']]
    /\ UNCHANGED <<logVars, pub, attempt, processVars, deferVars, faults>>

\* The fork commits; no observer hears of it.
CommitBackground(b) ==
    /\ thread[b].at = "write" /\ log < MaxEvents
    /\ log' = log + 1 /\ bgLast' = log + 1
    /\ UNCHANGED <<pub, life, fenceVars, attempt, processVars, deferVars, thread,
                   faults>>

\* The wake is over; wait_for_read_store follows.
Written(b) ==
    /\ thread[b].at = "write"
    /\ Go(b, "again")
    /\ UNCHANGED <<logVars, pub, life, fenceVars, attempt, processVars,
                   deferVars, faults>>

\* Mutant: the events to wait for are looked up once.
RoundOnce(b) ==
    /\ thread[b].at = "again"
    /\ thread' = [thread EXCEPT ![b].at = "poll", ![b].why = "wait",
                     ![b].expected = IF thread[b].why = "wait" THEN @ ELSE log]
    /\ UNCHANGED <<logVars, pub, life, fenceVars, attempt, processVars,
                   deferVars, faults>>

\* One round of it: what is committed now must become visible.
Round(b) ==
    /\ thread[b].at = "again"
    /\ thread' = [thread EXCEPT ![b].at = "poll", ![b].why = "wait",
                                ![b].expected = log]
    /\ UNCHANGED <<logVars, pub, life, fenceVars, attempt, processVars,
                   deferVars, faults>>

\* The owner of the fence that has not lifted it leaves a second wait behind,
\* once.
LeaveWait(b) ==
    thread' = [thread EXCEPT ![b] =
                  IF ~@.recovery /\ held /\ @.fence = fences
                  THEN [Idle EXCEPT !.at = "again", !.fence = fences,
                                    !.recovery = TRUE]
                  ELSE Idle]

\* The job of the run ends; a wait left behind has none.
JobEnds(b) == due' = (due \/ ~thread[b].recovery)

\* The deadline passes, or the job is cancelled at one of the checkpoints.
GiveUp(b) ==
    /\ thread[b].at \in {"write", "again", "lift"}
    /\ LeaveWait(b) /\ JobEnds(b)
    /\ Fault
    /\ UNCHANGED <<logVars, pub, life, fenceVars, attempt, processVars,
                   depth, pending>>

Visible(b) == log = thread[b].expected /\ pub = log

\* More was committed meanwhile, or the worker is at it: another round.
Unsettled(b) == log # thread[b].expected \/ (life # "degraded" /\ worker)

Verify(b) ==
    /\ thread[b].at = "verify"
    /\ \/ Visible(b) /\ Go(b, "lift") /\ UNCHANGED due
       \/ ~Visible(b) /\ Unsettled(b) /\ Go(b, "again") /\ UNCHANGED due
       \/ /\ ~Visible(b) /\ (life = "degraded" \/ ~worker)
          /\ LeaveWait(b) /\ JobEnds(b)
    /\ UNCHANGED <<logVars, pub, life, fenceVars, attempt, processVars,
                   depth, pending, faults>>

\* Mutant: whoever has waited lifts the fence, though a later run took it.
LiftAnyones(b) ==
    /\ thread[b].at = "lift" /\ VisibilityLock(b)
    /\ held' = FALSE /\ life' = "current"
    /\ thread' = [thread EXCEPT ![b] = Idle]
    /\ JobEnds(b)
    /\ UNCHANGED <<logVars, pub, fences, attempt, processVars, depth, pending,
                   faults>>


\* Only the latest fence's owner lifts it.
Lift(b) ==
    /\ thread[b].at = "lift" /\ VisibilityLock(b)
    /\ IF thread[b].fence = fences
       THEN held' = FALSE /\ life' = "current"
       ELSE UNCHANGED <<held, life>>
    /\ thread' = [thread EXCEPT ![b] = Idle]
    /\ JobEnds(b)
    /\ UNCHANGED <<logVars, pub, fences, attempt, processVars, depth, pending,
                   faults>>

-----------------------------------------------------------------------------
(* Everything *)

PollStep(t) == Accept(t) \/ Record(t) \/ PollEnds(t) \/ Cover(t)
SynchronizeStep(t) == Dispatch(t) \/ DispatchRefused(t) \/ NothingToAsk(t)
ForegroundStep == Serve \/ Observe
BackgroundStep(b) == Written(b) \/ Round(b) \/ Verify(b) \/ Lift(b)
ChildStep == Capture \/ Publish \/ Answer
WatchStep(n) == Fire(n) \/ StopAfterDeadline(n)

Next ==
    \/ ChildStep \/ SynchronizeFails \/ WorkerDies \/ Receive
    \/ \E n \in Attempt : Expire(n) \/ WatchStep(n)
    \/ \E t \in Thread : PollStep(t) \/ SynchronizeStep(t)
    \/ \E why \in {"serve", "refresh", "retry"} : StartPoll(why)
    \/ ForegroundStep \/ CommitForeground \/ Defer \/ DeferEnds
    \/ \E b \in Background : \/ Hold(b) \/ CommitBackground(b) \/ GiveUp(b)
                             \/ BackgroundStep(b)

Spec == Init /\ [][Next]_vars

\* Threads run on; a worker that lives works on its request; a document's scope
\* ends; an interface that is told the store is not current keeps refreshing,
\* and asks again when an action or a job has ended.
LiveSpec ==
    /\ Spec
    /\ WF_vars(ChildStep) /\ WF_vars(Receive) /\ WF_vars(ForegroundStep)
    /\ \A n \in Attempt : WF_vars(WatchStep(n))
    /\ \A t \in Thread : WF_vars(PollStep(t)) /\ WF_vars(SynchronizeStep(t))
    /\ \A b \in Background : WF_vars(BackgroundStep(b))
    /\ SF_vars(StartPoll("refresh")) /\ SF_vars(AskAgain) /\ SF_vars(DeferEnds)

-----------------------------------------------------------------------------
(* Properties *)

TypeOK ==
    /\ log \in Count /\ bgLast \in Count
    /\ pub \in Count \cup {None} /\ life \in Lifecycle
    /\ held \in BOOLEAN /\ fences \in 0 .. MaxRuns
    /\ worker \in BOOLEAN /\ busy \in BOOLEAN
    /\ serial \in Attempt /\ expected \in Count
    /\ finished \subseteq Attempt /\ messages \in Seq(Reply)
    /\ child \in Process /\ pipe \in Seq(Reply)
    /\ watch \in [Attempt -> {"off", "armed", "expired", "fired"}]
    /\ depth \in 0 .. 1 /\ pending \in BOOLEAN /\ due \in BOOLEAN
    /\ thread \in [Thread -> Control] /\ faults \in 0 .. MaxFaults

\* A wait that an earlier run left behind is in the middle of its poll, where
\* it may record an answer that it verified before the run under way wrote.
Lingers ==
    \E b \in Background :
       /\ thread[b].recovery /\ thread[b].fence # fences
       /\ thread[b].at \in {"poll", "assign", "cover"}

\* A surface that reads the store as current shows everything maintenance has
\* committed: its writes are fenced off until they are visible, however many
\* waits of earlier runs are about.  Only one of them that is recording an
\* answer of its own can lay the store open for the moment until its poll ends.
FenceCovers ==
    thread[Fg].at = "check" /\ life = "current" => pub >= bgLast \/ Lingers

\* What the fence is taken for: "Reads must refuse until its possible writes
\* have reached authenticated SQL."
ReadsRefuse == thread[Fg].at = "check" /\ life = "current" => pub >= bgLast

\* What a surface reads as current, with no fence up and no document under way,
\* is everything committed: synchronization "authenticates the published
\* generation against canonical identity before claiming it current; a source
\* advance during publication is exposed as stale".
CurrentIsWhole ==
    thread[Fg].at = "check" /\ life = "current" /\ ~held /\ depth = 0 =>
       pub = log

\* A deadline kills the attempt it was set for, and only while that attempt is
\* unanswered: never an idle worker, never a later attempt.
DeadlineIsItsOwn ==
    \A n \in Attempt :
       watch[n] = "fired" => serial = n /\ (busy \/ ~worker)

\* A worker that the vault counts as idle has answered: no answer to an earlier
\* attempt makes room for a request that would cross it.
IdleMeansAnswered == worker /\ ~busy => child.token = 0 /\ pipe = <<>>

\* The fence's owner is gone: its job and its one recovery wait have given up.
Abandoned == held /\ \A b \in Background : thread[b].fence # fences

\* The reads are not fenced off for ever: in a vault that keeps its worker,
\* whose store is not left degraded and whose fence somebody still waits for,
\* wait_for_read_store finds its revision and lifts it.
FenceComesDown ==
    <>[](worker /\ ~Abandoned /\ life # "degraded") => <>[]~held

=============================================================================
