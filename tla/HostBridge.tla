----------------------------- MODULE HostBridge -----------------------------
(***************************************************************************)
(* The native host's side of the bridge (desktop/src-tauri/src/main.rs).    *)
(* Threads of the host send requests to one sidecar process, route its      *)
(* replies, give up on it, replace it by another generation, and reopen the  *)
(* vault to retry a read.  A bulk upload owns its generation: it is drained, *)
(* never killed.  A generation's closed flag stands for its input as well:   *)
(* both change under the bulk lock.                                         *)
(*                                                                         *)
(* Left out: deadlines as times (a request may time out at any moment),      *)
(* progress frames, reuse of a request identity by two calls, and children   *)
(* that cannot be killed.                                                   *)
(***************************************************************************)
EXTENDS Integers, Sequences, FiniteSets

CONSTANTS
    Caller,        \* threads of the host
    Calls,         \* bound: what each of them may ask for, call by call
    Vault,         \* vaults
    NoVault, NoOne,
    MaxGen,        \* bound: sidecars that can be started
    MaxFaults      \* bound: crashes and unreadable output

Kind == {"read", "write", "open", "jobs", "cancel", "bulk",
         "restart", "stop", "close"}

ASSUME HostAssumption ==
    /\ Calls \in [Caller -> Seq(SUBSET Kind)]
    /\ MaxGen \in Nat /\ MaxFaults \in Nat
    /\ NoVault \notin Vault /\ NoOne \notin Caller
    /\ Caller \cap (0 .. MaxGen) = {}

Gen == 1 .. MaxGen
Actor == Caller \cup Gen          \* a generation's router is an actor too

\* A request has its own identity, and so has the reopening before a replay.
Frame == Caller \X {"main", "reopen"}

\* A call: where its thread is, in which generation, and what it knows
Call == [at : {"idle", "ensure", "replace", "enter", "admit", "waiting",
               "drain", "exited", "release", "accept", "fail", "failShut",
               "clear", "abandon", "abandonShut", "control", "controlShut",
               "closed"},
         kind : Kind, phase : {"main", "reopen"}, gen : 0 .. MaxGen,
         attempt : 0 .. 1, vault : Vault \cup {NoVault},
         recovery : Vault \cup {NoVault}, ok : BOOLEAN,
         permit : BOOLEAN,    \* it holds a RecoveryPermit
         sent : 0 .. 2,       \* how often its request was written
         stopped : BOOLEAN]   \* BulkStopTicket.stopped
NoCall == [at |-> "idle", kind |-> "read", phase |-> "main", gen |-> 0,
           attempt |-> 0, vault |-> NoVault, recovery |-> NoVault,
           ok |-> FALSE, permit |-> FALSE, sent |-> 0, stopped |-> FALSE]

\* BridgeProcess and BulkOwnership of a generation
Bridge == [closed : BOOLEAN, terminal : BOOLEAN, reaper : Actor \cup {NoOne},
           owner : Frame \cup {<<NoOne, "main">>}, draining : BOOLEAN]
NoOwner == <<NoOne, "main">>
NewBridge == [closed |-> FALSE, terminal |-> FALSE, reaper |-> NoOne,
              owner |-> NoOwner, draining |-> FALSE]

\* The process: what it was sent, the upload it runs, the vault it has open
NoSide == [state |-> "none", inbox |-> << >>, bulk |-> NoOwner,
           vault |-> NoVault]
GoneSide == [NoSide EXCEPT !.state = "gone"]

VARIABLES
    proc,       \* BridgeState.process: the current generation, or 0
    holder,     \* who holds its mutex across a wait
    started,    \* next_generation
    active,     \* active_vault
    claimed,    \* read_recovery_claimed
    gate,       \* RecoveryGate.busy
    call,
    calls,      \* calls made by each thread
    mail,       \* what the router has sent a waiting thread
    shut,       \* an actor inside shutdown or wait_bulk_exit
    bridge, pending, side, out,
    router, faults

host == <<proc, holder, started, active, claimed, gate>>
threads == <<call, calls, mail>>
procs == <<bridge, pending, side, out>>
vars == <<host, threads, shut, procs, router, faults>>

NoShut == [at |-> "none", gen |-> 0]
Doing(what, g) == [at |-> what, gen |-> g]

Init ==
    /\ proc = 0 /\ holder = NoOne /\ started = 0
    /\ active = [vault |-> NoVault, gen |-> 0]
    /\ claimed = FALSE /\ gate = FALSE
    /\ call = [c \in Caller |-> NoCall] /\ calls = [c \in Caller |-> 0]
    /\ mail = [c \in Caller |-> "none"]
    /\ shut = [x \in Actor |-> NoShut]
    /\ bridge = [g \in Gen |-> NewBridge] /\ pending = [g \in Gen |-> {}]
    /\ side = [g \in Gen |-> NoSide] /\ out = [g \in Gen |-> {}]
    /\ router = [g \in Gen |-> "none"] /\ faults = 0

FrameOf(c) == <<c, call[c].phase>>
KindOf(f) == IF f[2] = "reopen" THEN "open" ELSE call[f[1]].kind
Companion == {"cancel", "jobs"}

\* Mutant: everything may be replayed.
AnyKind(kind) == TRUE

\* operation_can_reopen_vault_and_replay
Replayable(kind) == kind \in {"read", "jobs"}
Alive(g) == side[g].state = "up"

Goes(c, place) == call' = [call EXCEPT ![c].at = place]

\* The call is over; a recovery permit is dropped with it, and opens the gate
\* whoever closed it last.
Back(c) ==
    /\ call' = [call EXCEPT ![c] = NoCall]
    /\ gate' = (gate /\ ~call[c].permit)

-----------------------------------------------------------------------------
(* shutdown, wait_bulk_exit *)

\* interrupt_pending: each waiting thread hears of it, and is forgotten.
Interrupt(g) ==
    /\ mail' = [c \in Caller |-> IF \E p \in {"main", "reopen"} :
                                       <<c, p>> \in pending[g]
                                 THEN "interrupted" ELSE mail[c]]
    /\ pending' = [pending EXCEPT ![g] = {}]

\* Mutant: the input stays open.
DrainingOpen(g) == bridge' = [bridge EXCEPT ![g].draining = TRUE]

\* Input is closed under the bulk lock; an owned generation drains.
Draining(g) == bridge' = [bridge EXCEPT ![g].draining = TRUE,
                                        ![g].closed = TRUE]

\* Mutant: a closed process is taken for one that has been reaped.
ShutBeginClosed(x) ==
    /\ shut[x].at = "begin"
    /\ LET g == shut[x].gen
       IN  \/ /\ bridge[g].owner # NoOwner
              /\ Draining(g)
              /\ shut' = [shut EXCEPT ![x].at = "exit"]
              /\ UNCHANGED <<mail, pending>>
           \/ /\ bridge[g].owner = NoOwner
              /\ IF bridge[g].closed
                 THEN /\ shut' = [shut EXCEPT ![x].at = "done"]
                      /\ UNCHANGED <<bridge, mail, pending>>
                 ELSE /\ bridge' = [bridge EXCEPT ![g].closed = TRUE,
                                                  ![g].reaper = x]
                      /\ Interrupt(g)
                      /\ shut' = [shut EXCEPT ![x].at = "reap"]
    /\ UNCHANGED <<host, call, calls, side, out, router, faults>>

\* Mutant: nobody asks whether an upload owns the process.
ShutBeginAnyway(x) ==
    /\ shut[x].at = "begin"
    /\ LET g == shut[x].gen
       IN  /\ bridge[g].reaper = NoOne /\ ~bridge[g].terminal
           /\ bridge' = [bridge EXCEPT ![g].closed = TRUE, ![g].reaper = x]
           /\ Interrupt(g)
           /\ shut' = [shut EXCEPT ![x].at = "reap"]
    /\ UNCHANGED <<host, call, calls, side, out, router, faults>>

ShutBegin(x) ==
    /\ shut[x].at = "begin"
    /\ LET g == shut[x].gen
       IN  \/ /\ bridge[g].owner # NoOwner
              /\ Draining(g)
              /\ shut' = [shut EXCEPT ![x].at = "exit"]
              /\ UNCHANGED <<mail, pending>>
           \/ /\ bridge[g].owner = NoOwner /\ bridge[g].reaper = NoOne
              /\ IF bridge[g].terminal
                 THEN /\ shut' = [shut EXCEPT ![x].at = "done"]
                      /\ UNCHANGED <<bridge, mail, pending>>
                 ELSE /\ bridge' = [bridge EXCEPT ![g].closed = TRUE,
                                                  ![g].reaper = x]
                      /\ Interrupt(g)
                      /\ shut' = [shut EXCEPT ![x].at = "reap"]
    /\ UNCHANGED <<host, call, calls, side, out, router, faults>>

\* The child has left, or is killed when its time is up.
Reap(x) ==
    /\ shut[x].at = "reap"
    /\ LET g == shut[x].gen
       IN  /\ side' = [side EXCEPT ![g] = GoneSide]
           /\ bridge' = [bridge EXCEPT ![g].terminal = TRUE,
                                       ![g].reaper = NoOne]
    /\ shut' = [shut EXCEPT ![x].at = "done"]
    /\ UNCHANGED <<host, threads, pending, out, router, faults>>

\* wait_bulk_exit: until the child has left by itself
BulkExit(x) ==
    /\ shut[x].at = "exit"
    /\ LET g == shut[x].gen
       IN  /\ ~Alive(g) /\ bridge[g].reaper = NoOne
           /\ bridge' = [bridge EXCEPT ![g].terminal = TRUE,
                                       ![g].owner = NoOwner]
           /\ Interrupt(g)
    /\ shut' = [shut EXCEPT ![x].at = "done"]
    /\ UNCHANGED <<host, call, calls, side, out, router, faults>>

ShutStep(x) == ShutBegin(x) \/ Reap(x) \/ BulkExit(x)

-----------------------------------------------------------------------------
(* request_bridge_with_owner *)

Busy(c) == call[c].at # "idle"
Closing == \E c \in Caller : Busy(c) /\ call[c].kind = "close"

\* BrowserState.enter and enter_close: closing the vault is alone.
MayEnter(c, kind) == /\ ~Closing
                     /\ kind = "close" => \A d \in Caller : ~Busy(d)

Arrive(c) ==
    /\ ~Busy(c) /\ calls[c] < Len(Calls[c])
    /\ \E kind \in Calls[c][calls[c] + 1], v \in Vault :
          /\ MayEnter(c, kind)
          /\ kind \in {"restart", "stop", "close"} \/ ~gate
          /\ call' = [call EXCEPT ![c] = [NoCall EXCEPT
                !.at = IF kind \in {"restart", "stop", "close"}
                       THEN "control" ELSE "ensure",
                !.kind = kind,
                !.vault = IF kind = "open" THEN v ELSE NoVault,
                !.recovery = IF Replayable(kind) THEN active.vault
                             ELSE NoVault]]
    /\ calls' = [calls EXCEPT ![c] = @ + 1]
    /\ UNCHANGED <<host, mail, shut, procs, router, faults>>

\* spawn_bridge: the next generation and its router; or no process starts.
Spawns == started < MaxGen
Spawn ==
    /\ Spawns
    /\ started' = started + 1 /\ proc' = started'
    /\ side' = [side EXCEPT ![started'].state = "up"]
    /\ router' = [router EXCEPT ![started'] = "run"]

\* ensure_bridge
Ensure(c) ==
    /\ call[c].at = "ensure" /\ holder = NoOne
    /\ \/ /\ proc # 0 /\ bridge[proc].owner # NoOwner /\ bridge[proc].draining
          /\ Back(c)
          /\ UNCHANGED <<proc, holder, started, shut, side, router>>
       \/ /\ proc # 0 /\ ~(bridge[proc].owner # NoOwner /\ bridge[proc].draining)
          /\ IF bridge[proc].closed \/ ~Alive(proc)
             THEN /\ Goes(c, "replace") /\ holder' = c
                  /\ shut' = [shut EXCEPT ![c] = Doing("begin", proc)]
             ELSE /\ call' = [call EXCEPT ![c].at = "enter", ![c].gen = proc]
                  /\ UNCHANGED <<holder, shut>>
          /\ UNCHANGED <<proc, started, gate, side, router>>
       \/ /\ proc = 0 /\ Spawn
          /\ call' = [call EXCEPT ![c].at = "enter", ![c].gen = proc']
          /\ UNCHANGED <<holder, shut, gate>>
       \/ /\ proc = 0 /\ ~Spawns
          /\ Back(c)
          /\ UNCHANGED <<proc, holder, started, shut, side, router>>
    /\ UNCHANGED <<active, claimed, calls, mail, bridge, pending,
                   out, faults>>

Replaced(c) ==
    /\ call[c].at = "replace" /\ shut[c].at = "done"
    /\ holder' = NoOne /\ shut' = [shut EXCEPT ![c] = NoShut]
    /\ \/ /\ Spawn
          /\ call' = [call EXCEPT ![c].at = "enter", ![c].gen = proc']
          /\ UNCHANGED gate
       \/ /\ ~Spawns /\ proc' = 0
          /\ Back(c)
          /\ UNCHANGED <<started, side, router>>
    /\ UNCHANGED <<active, claimed, calls, mail, bridge, pending,
                   out, faults>>

\* The gate is waited for again once the process is known; a replay does not.
Enter(c) ==
    /\ call[c].at = "enter" /\ (call[c].attempt = 1 \/ ~gate)
    /\ call' = [call EXCEPT ![c].at = "admit",
                   ![c].phase = IF @ = "main" /\ call[c].attempt = 1
                                THEN "reopen" ELSE "main"]
    /\ UNCHANGED <<host, calls, mail, shut, procs, router,
                   faults>>

GateTimesOut(c) ==
    /\ call[c].at = "enter" /\ call[c].attempt = 0 /\ gate
    /\ Back(c)
    /\ UNCHANGED <<proc, holder, started, active, claimed, calls, mail,
                   shut, procs, router, faults>>

-----------------------------------------------------------------------------
(* request_process_owned *)

\* "Bulk admission refused"
Refused(c) ==
    LET b == bridge[call[c].gen]
    IN  \/ KindOf(FrameOf(c)) = "bulk" /\ call[c].stopped
        \/ b.draining
        \/ b.owner # NoOwner /\ KindOf(FrameOf(c)) \notin Companion
        \/ /\ KindOf(FrameOf(c)) = "bulk" /\ ~b.closed
           /\ pending[call[c].gen] # {}

Admit(c) ==
    /\ call[c].at = "admit"
    /\ LET g == call[c].gen
           f == FrameOf(c)
       IN  \/ /\ Refused(c)
              /\ IF call[c].phase = "main" THEN Back(c)
                 ELSE Goes(c, "abandon") /\ UNCHANGED gate
              /\ UNCHANGED <<bridge, pending, side>>
           \/ /\ ~Refused(c) /\ bridge[g].closed
              /\ Goes(c, IF call[c].phase = "main" THEN "fail" ELSE "abandon")
              /\ UNCHANGED <<gate, bridge, pending, side>>
           \/ /\ ~Refused(c) /\ ~bridge[g].closed
              /\ pending' = [pending EXCEPT ![g] = @ \cup {f}]
              /\ bridge' = IF KindOf(f) = "bulk"
                           THEN [bridge EXCEPT ![g].owner = f] ELSE bridge
              /\ IF Alive(g)
                 THEN /\ side' = [side EXCEPT ![g].inbox = Append(@, f)]
                      /\ call' = [call EXCEPT ![c].at = "waiting",
                            ![c].sent = @ + IF f[2] = "main" THEN 1 ELSE 0]
                 ELSE Goes(c, "drain") /\ UNCHANGED side
              /\ UNCHANGED gate
    /\ UNCHANGED <<proc, holder, started, active, claimed, calls, mail, shut,
                   out, router, faults>>

Receive(c) ==
    /\ call[c].at = "waiting" /\ mail[c] # "none"
    /\ mail' = [mail EXCEPT ![c] = "none"]
    /\ call' = [call EXCEPT ![c].ok = mail[c] = "ok",
         ![c].phase = IF mail[c] = "ok" THEN "main" ELSE @,
         ![c].at = CASE mail[c] = "interrupted" -> "drain"
                     [] mail[c] = "ok" /\ call[c].phase = "reopen" -> "admit"
                     [] mail[c] = "no" /\ call[c].phase = "reopen" -> "abandon"
                     [] OTHER -> IF call[c].kind = "bulk" THEN "release"
                                 ELSE "accept"]
    /\ UNCHANGED <<host, calls, shut, procs, router, faults>>

TimesOut(c) ==
    /\ call[c].at = "waiting" /\ mail[c] = "none"
    /\ Goes(c, "drain")
    /\ UNCHANGED <<host, calls, mail, shut, procs, router,
                   faults>>

\* The request is no longer pending, and has failed.
Forgotten(c) ==
    /\ pending' = [pending EXCEPT ![call[c].gen] = @ \ {FrameOf(c)}]
    /\ mail' = [mail EXCEPT ![c] = "none"]
    /\ Goes(c, IF call[c].phase = "main" THEN "fail" ELSE "abandon")

\* begin_bulk_drain: any failed request drains the upload of its generation.
Drain(c) ==
    /\ call[c].at = "drain"
    /\ LET g == call[c].gen
       IN  IF bridge[g].owner # NoOwner
           THEN /\ Draining(g)
                /\ shut' = [shut EXCEPT ![c] = Doing("exit", g)]
                /\ Goes(c, "exited") /\ UNCHANGED <<mail, pending>>
           ELSE Forgotten(c) /\ UNCHANGED <<bridge, shut>>
    /\ UNCHANGED <<host, calls, side, out, router, faults>>

Exited(c) ==
    /\ call[c].at = "exited" /\ shut[c].at = "done"
    /\ shut' = [shut EXCEPT ![c] = NoShut]
    /\ Forgotten(c)
    /\ UNCHANGED <<host, calls, bridge, side, out, router, faults>>

\* An answered upload gives its generation back, unless it is draining.
Release(c) ==
    /\ call[c].at = "release"
    /\ LET g == call[c].gen
       IN  IF bridge[g].draining
           THEN /\ shut' = [shut EXCEPT ![c] = Doing("exit", g)]
                /\ Goes(c, "exited") /\ UNCHANGED bridge
           ELSE /\ bridge' = IF bridge[g].owner = FrameOf(c) /\ ~bridge[g].closed
                             THEN [bridge EXCEPT ![g].owner = NoOwner]
                             ELSE bridge
                /\ Goes(c, "accept") /\ UNCHANGED shut
    /\ UNCHANGED <<host, calls, mail, pending, side, out, router,
                   faults>>

-----------------------------------------------------------------------------
(* What becomes of a result *)

\* The reply belongs to the process that is still there.
Current(g) == proc = g /\ ~bridge[g].terminal /\ ~bridge[g].closed

Accept(c) ==
    /\ call[c].at = "accept" /\ holder = NoOne
    /\ LET g == call[c].gen
       IN  /\ bridge[g].reaper = NoOne
           /\ IF Current(g) /\ call[c].ok /\ call[c].kind = "open"
              THEN /\ active' = [vault |-> call[c].vault, gen |-> g]
                   /\ claimed' = FALSE
              ELSE /\ active' = IF Current(g) /\ call[c].ok
                                   /\ call[c].attempt = 1
                                THEN [vault |-> call[c].recovery, gen |-> g]
                                ELSE active
                   /\ UNCHANGED claimed
    /\ Back(c)
    /\ UNCHANGED <<proc, holder, started, calls, mail, shut,
                   procs, router, faults>>

CanReplay(c) == Replayable(call[c].kind) /\ call[c].recovery # NoVault

\* Still under the lock: one read may recover.
Decides(c) ==
    LET recovers == call[c].attempt = 0 /\ CanReplay(c) /\ ~claimed
    IN  /\ claimed' = (claimed \/ recovers)
        /\ gate' = (gate \/ recovers)
        /\ call' = [call EXCEPT ![c].at = "clear",
                                ![c].permit = @ \/ recovers]

Fail(c) ==
    /\ call[c].at = "fail" /\ holder = NoOne
    /\ IF proc = call[c].gen
       THEN /\ holder' = c
            /\ shut' = [shut EXCEPT ![c] = Doing("begin", proc)]
            /\ Goes(c, "failShut") /\ UNCHANGED <<claimed, gate>>
       ELSE Decides(c) /\ UNCHANGED <<holder, shut>>
    /\ UNCHANGED <<proc, started, active, calls, mail, procs,
                   router, faults>>

FailShut(c) ==
    /\ call[c].at = "failShut" /\ shut[c].at = "done"
    /\ shut' = [shut EXCEPT ![c] = NoShut] /\ holder' = NoOne /\ proc' = 0
    /\ Decides(c)
    /\ UNCHANGED <<started, active, calls, mail, procs, router,
                   faults>>

\* Mutant: whoever is active is cleared.
ClearedAnyway(g) == [active EXCEPT !.vault = NoVault]

Cleared(g) == IF active.gen = g THEN [active EXCEPT !.vault = NoVault]
              ELSE active

\* clear_active_vault_after_failure, outside the lock; then the replay
Clear(c) ==
    /\ call[c].at = "clear"
    /\ active' = Cleared(call[c].gen)
    /\ IF call[c].permit /\ call[c].attempt = 0
       THEN /\ call' = [call EXCEPT ![c].at = "ensure", ![c].attempt = 1]
            /\ UNCHANGED gate
       ELSE Back(c)
    /\ UNCHANGED <<proc, holder, started, claimed, calls, mail,
                   shut, procs, router, faults>>

\* The vault could not be reopened: whatever runs now is shut down.
Abandon(c) ==
    /\ call[c].at = "abandon" /\ holder = NoOne
    /\ IF proc = 0 THEN Back(c) /\ UNCHANGED <<holder, shut>>
       ELSE /\ holder' = c /\ shut' = [shut EXCEPT ![c] = Doing("begin", proc)]
            /\ Goes(c, "abandonShut") /\ UNCHANGED gate
    /\ UNCHANGED <<proc, started, active, claimed, calls, mail,
                   procs, router, faults>>

AbandonShut(c) ==
    /\ call[c].at = "abandonShut" /\ shut[c].at = "done"
    /\ shut' = [shut EXCEPT ![c] = NoShut] /\ holder' = NoOne /\ proc' = 0
    /\ Back(c)
    /\ UNCHANGED <<started, active, claimed, calls, mail, procs,
                   router, faults>>

-----------------------------------------------------------------------------
(* bridge_restart, bridge_shutdown, close_vault; the browser's stop *)

Control(c) ==
    /\ call[c].at = "control" /\ holder = NoOne
    /\ holder' = c
    /\ shut' = [shut EXCEPT ![c] = IF proc = 0 THEN Doing("done", 0)
                                   ELSE Doing("begin", proc)]
    /\ Goes(c, "controlShut")
    /\ UNCHANGED <<proc, started, active, claimed, gate, calls, mail,
                   procs, router, faults>>

ControlShut(c) ==
    /\ call[c].at = "controlShut" /\ shut[c].at = "done"
    /\ shut' = [shut EXCEPT ![c] = NoShut] /\ holder' = NoOne
    /\ \/ /\ call[c].kind = "restart" /\ Spawn
          /\ active' = [vault |-> NoVault, gen |-> 0] /\ claimed' = FALSE
          /\ Back(c)
       \/ /\ call[c].kind = "restart" /\ ~Spawns
          /\ proc' = 0 /\ Back(c)
          /\ UNCHANGED <<active, claimed, started, side, router>>
       \/ /\ call[c].kind = "stop"
          /\ proc' = 0 /\ Back(c)
          /\ UNCHANGED <<active, claimed, started, side, router>>
       \/ /\ call[c].kind = "close"
          /\ proc' = 0 /\ Goes(c, "closed")
          /\ UNCHANGED <<active, claimed, gate, started, side, router>>
    /\ UNCHANGED <<calls, mail, bridge, pending, out, faults>>

CloseEnds(c) ==
    /\ call[c].at = "closed"
    /\ active' = [vault |-> NoVault, gen |-> 0] /\ claimed' = FALSE
    /\ Back(c)
    /\ UNCHANGED <<proc, holder, started, calls, mail, shut,
                   procs, router, faults>>

\* BulkStopTicket.stop
StopTicket(c) ==
    /\ Busy(c) /\ call[c].kind = "bulk" /\ ~call[c].stopped
    /\ call' = [call EXCEPT ![c].stopped = TRUE]
    /\ LET g == call[c].gen
       IN  IF g # 0 /\ bridge[g].owner = FrameOf(c) THEN Draining(g)
           ELSE UNCHANGED bridge
    /\ UNCHANGED <<host, calls, mail, shut, pending, side, out,
                   router, faults>>

-----------------------------------------------------------------------------
(* route_stdout *)

Route(g) ==
    /\ router[g] = "run"
    /\ \E reply \in out[g] :
          LET f == reply[1]
          IN  /\ out' = [out EXCEPT ![g] = @ \ {reply}]
              /\ pending' = [pending EXCEPT ![g] = @ \ {f}]
              /\ mail' = IF f \in pending[g]
                         THEN [mail EXCEPT ![f[1]] = reply[2]] ELSE mail
    /\ UNCHANGED <<host, call, calls, shut, bridge, side, router,
                   faults>>

\* finish_router_failure: the output ended, or cannot be understood.
RouterFails(g) ==
    /\ router[g] = "run"
    /\ \/ ~Alive(g) /\ out[g] = {} /\ UNCHANGED faults
       \/ Alive(g) /\ faults < MaxFaults /\ faults' = faults + 1
    /\ out' = [out EXCEPT ![g] = {}]
    /\ IF bridge[g].owner # NoOwner
       THEN /\ Draining(g)
            /\ router' = [router EXCEPT ![g] = "copy"]
            /\ UNCHANGED <<shut, mail, pending>>
       ELSE /\ Interrupt(g)
            /\ router' = [router EXCEPT ![g] = "done"]
            /\ shut' = [shut EXCEPT ![g] = Doing("begin", g)]
            /\ UNCHANGED bridge
    /\ UNCHANGED <<host, call, calls, side>>

CopyEnds(g) ==
    /\ router[g] = "copy" /\ ~Alive(g)
    /\ router' = [router EXCEPT ![g] = "done"]
    /\ shut' = [shut EXCEPT ![g] = Doing("begin", g)]
    /\ UNCHANGED <<host, threads, procs, faults>>

-----------------------------------------------------------------------------
(* The sidecar *)

Answers(g, f, result) == out' = IF router[g] = "run"
                                THEN [out EXCEPT ![g] = @ \cup {<<f, result>>}]
                                ELSE out

\* One frame at a time
Serve(g) ==
    /\ Alive(g) /\ side[g].bulk = NoOwner /\ side[g].inbox # << >>
    /\ LET f == Head(side[g].inbox)
           rest == [side[g] EXCEPT !.inbox = Tail(@)]
           v == IF f[2] = "reopen" THEN call[f[1]].recovery ELSE call[f[1]].vault
       IN  \/ /\ KindOf(f) = "open"
              /\ side' = [side EXCEPT ![g] = [rest EXCEPT !.vault = v]]
              /\ Answers(g, f, "ok")
           \/ /\ KindOf(f) = "open"
              /\ side' = [side EXCEPT ![g] = rest]
              /\ Answers(g, f, "no")
           \/ /\ KindOf(f) = "bulk" /\ side[g].vault # NoVault
              /\ side' = [side EXCEPT ![g] = [rest EXCEPT !.bulk = f]]
              /\ UNCHANGED out
           \/ /\ KindOf(f) # "open"
              /\ KindOf(f) # "bulk" \/ side[g].vault = NoVault
              /\ side' = [side EXCEPT ![g] = rest]
              /\ Answers(g, f, IF side[g].vault = NoVault THEN "no" ELSE "ok")
    /\ UNCHANGED <<host, threads, shut, bridge, pending, router, faults>>

Without(s, k) == SubSeq(s, 1, k - 1) \o SubSeq(s, k + 1, Len(s))

\* Sidecar.pump: during an upload only a cancel is answered; the rest is held.
Pump(g) ==
    /\ Alive(g) /\ side[g].bulk # NoOwner
    /\ \E k \in 1 .. Len(side[g].inbox) :
          LET f == side[g].inbox[k]
          IN  /\ KindOf(f) = "cancel"
              /\ side' = [side EXCEPT ![g].inbox = Without(@, k)]
              /\ Answers(g, f, "ok")
    /\ UNCHANGED <<host, threads, shut, bridge, pending, router, faults>>

BulkEnds(g) ==
    /\ Alive(g) /\ side[g].bulk # NoOwner
    /\ Answers(g, side[g].bulk, "ok")
    /\ side' = [side EXCEPT ![g].bulk = NoOwner]
    /\ UNCHANGED <<host, threads, shut, bridge, pending, router, faults>>

\* End of its input
Leaves(g) ==
    /\ Alive(g) /\ bridge[g].closed
    /\ side[g].bulk = NoOwner /\ side[g].inbox = << >>
    /\ side' = [side EXCEPT ![g] = GoneSide]
    /\ UNCHANGED <<host, threads, shut, bridge, pending, out, router, faults>>

Crash(g) ==
    /\ Alive(g) /\ faults < MaxFaults /\ faults' = faults + 1
    /\ side' = [side EXCEPT ![g] = GoneSide]
    /\ UNCHANGED <<host, threads, shut, bridge, pending, out, router>>

-----------------------------------------------------------------------------
CallStep(c) ==
    \/ Ensure(c) \/ Replaced(c) \/ Enter(c) \/ Admit(c) \/ Receive(c)
    \/ TimesOut(c) \/ Drain(c) \/ Exited(c) \/ Release(c) \/ Accept(c)
    \/ Fail(c) \/ FailShut(c) \/ Clear(c) \/ Abandon(c) \/ AbandonShut(c)
    \/ Control(c) \/ ControlShut(c) \/ CloseEnds(c) \/ GateTimesOut(c)
RouterStep(g) == Route(g) \/ RouterFails(g) \/ CopyEnds(g)
SideStep(g) == Serve(g) \/ BulkEnds(g) \/ Leaves(g)

Next ==
    \/ \E c \in Caller : Arrive(c) \/ CallStep(c) \/ StopTicket(c)
    \/ \E x \in Actor : ShutStep(x)
    \/ \E g \in Gen : RouterStep(g) \/ SideStep(g) \/ Pump(g) \/ Crash(g)

Spec == Init /\ [][Next]_vars

\* Threads run and deadlines pass.  A sidecar may hang, unless it has been
\* given an upload: nothing but its own end ends that wait.
Progress ==
    \/ \E c \in Caller : CallStep(c)
    \/ \E x \in Actor : ShutStep(x)
    \/ \E g \in Gen : bridge[g].owner # NoOwner /\ SideStep(g)

\* As nothing here is repeated for ever, it is enough that some thread moves.
LiveSpec == Spec /\ WF_vars(Progress)

-----------------------------------------------------------------------------
(* Properties *)

TypeOK ==
    /\ proc \in 0 .. MaxGen /\ started \in 0 .. MaxGen
    /\ holder \in Caller \cup {NoOne} /\ gate \in BOOLEAN
    /\ active \in [vault : Vault \cup {NoVault}, gen : 0 .. MaxGen]
    /\ claimed \in BOOLEAN /\ call \in [Caller -> Call]
    /\ calls \in [Caller -> Nat]
    /\ mail \in [Caller -> {"none", "ok", "no", "interrupted"}]
    /\ shut \in [Actor -> [at : {"none", "begin", "reap", "exit", "done"},
                           gen : 0 .. MaxGen]]
    /\ bridge \in [Gen -> Bridge] /\ pending \in [Gen -> SUBSET Frame]
    /\ side \in [Gen -> [state : {"none", "up", "gone"}, inbox : Seq(Frame),
                         bulk : Frame \cup {NoOwner},
                         vault : Vault \cup {NoVault}]]
    /\ out \in [Gen -> SUBSET (Frame \X {"ok", "no"})]
    /\ router \in [Gen -> {"none", "run", "copy", "done"}]
    /\ faults \in 0 .. MaxFaults
    /\ holder # NoOne <=> \E c \in Caller : call[c].at \in
          {"replace", "failShut", "abandonShut", "controlShut"}

\* A vault has one sidecar: a generation is started only when every earlier
\* process has been reaped, whoever gave up on it.
OneSidecar == Cardinality({ g \in Gen : Alive(g) }) <= 1

\* Whoever may kill a process is not waiting on one that runs, or has been
\* sent, an upload: uploads are drained.
BulkNotKilled ==
    \A x \in Actor : shut[x].at = "reap" =>
       LET s == side[shut[x].gen]
       IN  /\ s.bulk = NoOwner
           /\ \A k \in 1 .. Len(s.inbox) : KindOf(s.inbox[k]) # "bulk"

\* A request that may have written is never written to a second process; a
\* read is replayed once.
NoReplay == \A c \in Caller :
               call[c].sent <= IF call[c].kind \in {"read", "jobs"}
                               THEN 2 ELSE 1

\* While its process is the current one and open, the identity of the vault
\* it has open is not erased by the failure or the late reply of an earlier
\* generation.
KeepsIdentity ==
    (/\ proc # 0 /\ proc' = proc /\ ~bridge'[proc].closed
     /\ active.gen = proc /\ active.vault # NoVault)
    => active'.gen = proc /\ active'.vault # NoVault
IdentityKept == [][KeepsIdentity]_vars

\* Every call returns, whichever process dies, hangs or drains under it: the
\* host comes back to a state where no thread waits for the bridge.
EveryCallReturns == []<>(\A c \in Caller : ~Busy(c))
=============================================================================
