--------------------------- MODULE HostBridgeProofs ---------------------------
(***************************************************************************)
(* What the native host promises of its sidecars, for any number of threads, *)
(* vaults, generations, calls and faults.                                   *)
(***************************************************************************)
EXTENDS HostBridge, FiniteSetTheorems, TLAPS

Holding == {"replace", "failShut", "abandonShut", "controlShut"}

Types ==
    /\ proc \in 0 .. MaxGen /\ started \in 0 .. MaxGen
    /\ holder \in Caller \cup {NoOne} /\ gate \in BOOLEAN
    /\ active \in [vault : Vault \cup {NoVault}, gen : 0 .. MaxGen]
    /\ claimed \in BOOLEAN /\ call \in [Caller -> Call]
    /\ calls \in [Caller -> Nat]
    /\ mail \in [Caller -> {"none", "ok", "no", "interrupted"}]
    /\ shut \in [Actor -> [at : {"none", "begin", "reap", "exit", "done"},
                           gen : 0 .. MaxGen]]
    /\ bridge \in [Gen -> Bridge] /\ pending \in [Gen -> SUBSET Frame]
    /\ side \in [Gen -> [state : {"none", "up", "gone"}, inbox : Seq(Frame),
                         bulk : Frame \cup {NoOwner},
                         vault : Vault \cup {NoVault}]]
    /\ out \in [Gen -> SUBSET (Frame \X {"ok", "no"})]
    /\ router \in [Gen -> {"none", "run", "copy", "done"}]
    /\ faults \in 0 .. MaxFaults

\* Who holds the mutex waits for the shutdown of the current process.
Locked ==
    \A c \in Caller :
        /\ call[c].at \in Holding <=> holder = c
        /\ call[c].at \in Holding => shut[c].gen = proc

\* A generation that was not started is untouched, and nobody knows it.
Generations ==
    /\ proc <= started
    /\ \A x \in Actor :
          /\ shut[x].gen <= started
          /\ shut[x].at \in {"begin", "reap", "exit"} => shut[x].gen # 0
    /\ \A c \in Caller :
          /\ call[c].gen <= started
          /\ call[c].at \notin {"idle", "ensure", "replace", "control", "controlShut", "closed"}
                => call[c].gen # 0
    /\ \A g \in Gen : g > started => /\ side[g].state = "none" /\ out[g] = {}
                                       /\ ~bridge[g].terminal /\ router[g] = "none"

\* Only the current process runs; what was shut down, or left, does not.
Reaped ==
    /\ \A g \in Gen : Alive(g) => g = proc /\ ~bridge[g].terminal
    /\ \A x \in Actor : shut[x].at = "done" /\ shut[x].gen # 0 => ~Alive(shut[x].gen)
    /\ \A g \in Gen : ~Alive(g) => side[g].inbox = << >> /\ side[g].bulk = NoOwner

\* A pending request has a thread that waits for it, or is about to forget it.
Awaiting == {"waiting", "drain", "exited"}
Mailed ==
    /\ \A c \in Caller : mail[c] # "none" => call[c].at \in Awaiting
    /\ \A g \in Gen : \A f \in pending[g] :
          /\ call[f[1]].gen = g /\ call[f[1]].phase = f[2]
          /\ call[f[1]].at \in Awaiting /\ mail[f[1]] = "none"

\* A request that a running process has not answered, or whose answer was not
\* routed, is that of a call that has yet to give up on the process.
Unsettled == Awaiting \cup {"fail", "failShut", "abandon", "abandonShut"}
Expects(g, f) ==
    /\ call[f[1]].gen = g /\ call[f[1]].phase = f[2]
    /\ call[f[1]].at \in Unsettled
    /\ mail[f[1]] \notin {"ok", "no"}
FlowOf(g) ==
    /\ \A k \in 1 .. Len(side[g].inbox) :
          /\ Expects(g, side[g].inbox[k])
          /\ side[g].inbox[k] # side[g].bulk
          /\ KindOf(side[g].inbox[k]) = "bulk" => bridge[g].owner = side[g].inbox[k]
          /\ \A l \in 1 .. Len(side[g].inbox) :
                side[g].inbox[k] = side[g].inbox[l] => k = l
    /\ side[g].bulk # NoOwner =>
          Expects(g, side[g].bulk) /\ bridge[g].owner = side[g].bulk
    /\ \A reply \in out[g] :
          /\ Expects(g, reply[1]) /\ reply[1] # side[g].bulk
          /\ \A k \in 1 .. Len(side[g].inbox) : side[g].inbox[k] # reply[1]
          /\ \A other \in out[g] : other[1] = reply[1] => other = reply
Flow == \A g \in Gen : Alive(g) => FlowOf(g)

\* Who may kill a process has closed it, and no upload owns it.
Owned ==
    \A x \in Actor : shut[x].at = "reap" =>
        bridge[shut[x].gen].closed /\ bridge[shut[x].gen].owner = NoOwner

\* How often a call was written, and what it may still write.
Sound(u) ==
    /\ u.sent <= u.attempt + 1
    /\ u.at \in {"ensure", "replace", "enter", "admit"} \/ u.phase = "reopen" =>
          u.sent <= u.attempt
    /\ u.attempt = 1 \/ u.permit => Replayable(u.kind) /\ u.recovery # NoVault
    /\ u.at # "idle" /\ u.kind = "open" => u.vault \in Vault
    /\ u.at = "closed" => u.kind = "close"
    /\ u.at # "idle" /\ u.kind = "close" => u.at \in {"control", "controlShut", "closed"}
Attempts == \A c \in Caller : Sound(call[c])

\* Closing is alone, and leaves no process.
Alone ==
    \A c \in Caller :
        /\ Busy(c) /\ call[c].kind = "close" => \A d \in Caller \ {c} : ~Busy(d)
        /\ call[c].at = "closed" => proc = 0

\* The process of a call that failed is not the current one any more.
Passed == \A c \in Caller : call[c].at = "clear" => call[c].gen # proc

HostInv ==
    /\ Types
    /\ Locked
    /\ Generations
    /\ Reaped
    /\ Mailed
    /\ Flow
    /\ Owned
    /\ Attempts
    /\ Alone
    /\ Passed
-----------------------------------------------------------------------------
\* Generations are numbers, and no caller or frame is one of the odd values.
LEMMA Names ==
    /\ MaxGen \in Nat /\ MaxFaults \in Nat /\ Gen = 1 .. MaxGen /\ 0 \in 0 .. MaxGen
    /\ Gen \subseteq 0 .. MaxGen /\ Caller \subseteq Actor /\ Gen \subseteq Actor
    /\ \A c \in Caller : c # NoOne /\ c \notin Gen
    /\ \A f \in Frame : f # NoOwner /\ f[1] \in Caller /\ f[2] \in {"main", "reopen"}
    /\ NoCall \in Call
<1>1. /\ MaxGen \in Nat /\ MaxFaults \in Nat /\ NoVault \notin Vault /\ NoOne \notin Caller
      /\ Caller \cap (0 .. MaxGen) = {}
  BY HostAssumption
<1>2. /\ Gen = 1 .. MaxGen /\ 0 \in 0 .. MaxGen
      /\ Gen \subseteq 0 .. MaxGen /\ Caller \subseteq Actor /\ Gen \subseteq Actor
  BY <1>1 DEF Gen, Actor
<1>3. \A c \in Caller : c # NoOne /\ c \notin Gen
  BY <1>1, <1>2
<1>4. \A f \in Frame : f # NoOwner /\ f[1] \in Caller /\ f[2] \in {"main", "reopen"}
  BY <1>1 DEF Frame, NoOwner
<1>5. NoCall \in Call
  BY <1>2 DEF NoCall, Call, Kind
<1> QED
  BY <1>1, <1>2, <1>3, <1>4, <1>5

\* Everything that waits anywhere is a frame.
LEMMA Frames ==
    ASSUME Types, NEW g \in Gen
    PROVE  /\ \A f \in pending[g] : f \in Frame
           /\ \A k \in 1 .. Len(side[g].inbox) : side[g].inbox[k] \in Frame
           /\ side[g].bulk # NoOwner => side[g].bulk \in Frame
           /\ \A reply \in out[g] : reply[1] \in Frame /\ reply[2] \in {"ok", "no"}
           /\ side[g].inbox \in Seq(Frame)
  BY DEF Types

\* Requests stay where they are, or are answered to nobody.
LEMMA FlowKept ==
    ASSUME Types, Flow,
           \A g \in Gen : Alive(g)' =>
               /\ Alive(g) /\ side'[g].inbox = side[g].inbox /\ side'[g].bulk = side[g].bulk
               /\ out'[g] \subseteq out[g] /\ bridge'[g].owner = bridge[g].owner,
           \A g \in Gen : \A f \in Frame :
               Alive(g) /\ Alive(g)' /\ Expects(g, f) => Expects(g, f)' /\ KindOf(f)' = KindOf(f)
    PROVE  Flow'
<1> SUFFICES ASSUME NEW g \in Gen, Alive(g)'
             PROVE  FlowOf(g)'
  BY DEF Flow
<1>1. /\ Alive(g) /\ side'[g].inbox = side[g].inbox /\ side'[g].bulk = side[g].bulk
      /\ out'[g] \subseteq out[g] /\ bridge'[g].owner = bridge[g].owner
  OBVIOUS
<1>2. FlowOf(g)
  BY <1>1 DEF Flow
<1>3. \A f \in Frame : Expects(g, f) => Expects(g, f)' /\ KindOf(f)' = KindOf(f)
  BY <1>1
<1>4. /\ \A k \in 1 .. Len(side[g].inbox) : side[g].inbox[k] \in Frame
      /\ side[g].bulk # NoOwner => side[g].bulk \in Frame
      /\ \A reply \in out[g] : reply[1] \in Frame
  BY Frames
<1>5. ASSUME NEW k \in 1 .. Len(side[g].inbox)
      PROVE  Expects(g, side[g].inbox[k])' /\ KindOf(side[g].inbox[k])' = KindOf(side[g].inbox[k])
  <2>1. PICK f \in Frame : f = side[g].inbox[k]
    BY <1>4
  <2>2. Expects(g, f)' /\ KindOf(f)' = KindOf(f)
    BY <1>2, <1>3, <2>1 DEF FlowOf
  <2> QED
    BY <1>1, <2>1, <2>2 DEF Expects, KindOf
<1>6. side[g].bulk # NoOwner => Expects(g, side[g].bulk)'
  <2> SUFFICES ASSUME side[g].bulk # NoOwner PROVE Expects(g, side[g].bulk)'
    OBVIOUS
  <2>1. PICK f \in Frame : f = side[g].bulk
    BY <1>4
  <2>2. Expects(g, f)'
    BY <1>2, <1>3, <2>1 DEF FlowOf
  <2> QED
    BY <1>1, <2>1, <2>2 DEF Expects
<1>7. \A reply \in out'[g] : Expects(g, reply[1])'
  BY <1>1, <1>2, <1>3, <1>4 DEF FlowOf
<1> QED
  BY <1>1, <1>2, <1>5, <1>6, <1>7 DEF FlowOf

-----------------------------------------------------------------------------
\* The call of one thread changes to u.

Places == {"idle", "ensure", "replace", "enter", "admit", "waiting", "drain", "exited",
           "release", "accept", "fail", "failShut", "clear", "abandon", "abandonShut",
           "control", "controlShut", "closed"}
Nowhere == {"idle", "ensure", "replace", "control", "controlShut", "closed"}
Becomes(c, u) == u \in Call /\ call' = [call EXCEPT ![c] = u]

\* u is the call v, at another place.
Alike(u, v) ==
    /\ u.kind = v.kind /\ u.phase = v.phase /\ u.gen = v.gen /\ u.attempt = v.attempt
    /\ u.vault = v.vault /\ u.recovery = v.recovery /\ u.permit = v.permit
    /\ u.sent = v.sent

\* One record of call changes, the others stay.
LEMMA OneCall ==
    ASSUME Types, NEW c \in Caller, NEW u, Becomes(c, u)
    PROVE  /\ call' \in [Caller -> Call] /\ call'[c] = u
           /\ \A d \in Caller \ {c} : call'[d] = call[d]
<1>1. call \in [Caller -> Call]
  BY DEF Types
<1> QED
  BY <1>1 DEF Becomes

\* The thread goes on.
LEMMA GoesThere ==
    ASSUME Types, NEW c \in Caller, NEW place \in Places, Goes(c, place)
    PROVE  \E u : Becomes(c, u) /\ u.at = place /\ Alike(u, call[c])
<1> DEFINE u == [call[c] EXCEPT !.at = place]
<1>1. call \in [Caller -> Call] /\ call[c] \in Call
  BY DEF Types
<1>2. u \in Call /\ u.at = place /\ Alike(u, call[c])
  BY <1>1 DEF Call, Places, Alike
<1>3. call' = [call EXCEPT ![c] = u]
  BY <1>1 DEF Goes
<1> QED
  BY <1>2, <1>3 DEF Becomes

\* The call is over.
LEMMA BackHome ==
    ASSUME Types, NEW c \in Caller, Back(c)
    PROVE  /\ Becomes(c, NoCall) /\ gate' \in BOOLEAN
           /\ NoCall.at = "idle" /\ NoCall.gen = 0 /\ Sound(NoCall)
<1>1. Becomes(c, NoCall)
  BY Names DEF Back, Becomes
<1>2. gate' \in BOOLEAN
  BY DEF Back
<1>3. NoCall.at = "idle" /\ NoCall.gen = 0 /\ Sound(NoCall)
  BY DEF NoCall, Sound
<1> QED
  BY <1>1, <1>2, <1>3

\* A call that stays sound leaves every call sound.
LEMMA AttemptsKept ==
    ASSUME HostInv, NEW c \in Caller, NEW u, Becomes(c, u), Sound(u)
    PROVE  Attempts'
<1>1. call'[c] = u /\ \A d \in Caller \ {c} : call'[d] = call[d]
  BY OneCall DEF HostInv
<1> QED
  BY <1>1 DEF HostInv, Attempts, Sound

\* A close that is under way stays the only call.
LEMMA AloneKept ==
    ASSUME HostInv, NEW c \in Caller, NEW u, Becomes(c, u), Busy(c),
           u.at # "idle" => u.kind = call[c].kind,
           u.at = "closed" => proc' = 0
    PROVE  Alone'
<1>1. call'[c] = u /\ \A d \in Caller \ {c} : call'[d] = call[d]
  BY OneCall DEF HostInv
<1>2. \A d \in Caller \ {c} : ~(Busy(d) /\ call[d].kind = "close")
  BY DEF HostInv, Alone
<1>3. \A d \in Caller \ {c} : call[d].at # "closed"
  BY <1>2 DEF HostInv, Attempts, Sound, Busy
<1> QED
  BY <1>1, <1>2, <1>3 DEF HostInv, Alone, Busy

\* Who is about to clear an identity still names a process of the past.
LEMMA PassedKept ==
    ASSUME HostInv, NEW c \in Caller, NEW u, Becomes(c, u),
           proc' \in {proc, 0, started + 1},
           u.at = "clear" => u.gen # proc'
    PROVE  Passed'
<1>1. call'[c] = u /\ \A d \in Caller \ {c} : call'[d] = call[d]
  BY OneCall DEF HostInv
<1>2. ASSUME NEW d \in Caller, call[d].at = "clear"
      PROVE  call[d].gen # proc'
  <2>1. call[d].gen # proc /\ call[d].gen # 0 /\ call[d].gen <= started
    BY <1>2 DEF HostInv, Passed, Generations
  <2>2. started \in Nat /\ call[d].gen \in Nat
    BY Names DEF HostInv, Types, Call
  <2> QED
    BY <2>1, <2>2
<1> QED
  BY <1>1, <1>2 DEF Passed

\* The mutex has the holder whose place says so, and guards the current process.
LEMMA LockedKept ==
    ASSUME HostInv, NEW c \in Caller, NEW u, Becomes(c, u),
           \A d \in Caller \ {c} : shut'[d] = shut[d],
           u.at \in Holding <=> holder' = c,
           u.at \in Holding => shut'[c].gen = proc',
           \/ holder' = holder /\ proc' = proc
           \/ holder \in {NoOne, c} /\ holder' \in {NoOne, c}
    PROVE  Locked'
<1>1. call'[c] = u /\ \A d \in Caller \ {c} : call'[d] = call[d]
  BY OneCall DEF HostInv
<1>2. \A d \in Caller : d # NoOne
  BY Names
<1>3. ASSUME NEW d \in Caller \ {c}
      PROVE  /\ call[d].at \in Holding <=> holder' = d
             /\ call[d].at \in Holding => shut'[d].gen = proc'
  BY <1>2 DEF HostInv, Locked
<1> QED
  BY <1>1, <1>3 DEF Locked

\* Nothing refers to a generation that has not been started.
LEMMA GenerationsKept ==
    ASSUME HostInv, NEW c \in Caller, NEW u, Becomes(c, u),
           started' \in {started, started + 1}, proc' <= started',
           u.gen <= started', u.at \notin Nowhere => u.gen # 0,
           \A x \in Actor \ {c} : shut'[x] = shut[x],
           shut'[c].gen <= started',
           shut'[c].at \in {"begin", "reap", "exit"} => shut'[c].gen # 0,
           \A g \in Gen : g > started' =>
               /\ side'[g].state = side[g].state /\ bridge'[g].terminal = bridge[g].terminal
               /\ router'[g] = router[g],
           UNCHANGED out
    PROVE  Generations'
<1>1. call'[c] = u /\ \A d \in Caller \ {c} : call'[d] = call[d]
  BY OneCall DEF HostInv
<1>2. /\ started \in Nat /\ Gen \subseteq Nat
      /\ \A x \in Actor : shut[x].gen \in Nat
      /\ \A d \in Caller : call[d].gen \in Nat
  BY Names DEF HostInv, Types, Call
<1>3. \A d \in Caller : call'[d].gen <= started' /\ (call'[d].at \notin Nowhere => call'[d].gen # 0)
  <2>1. \A d \in Caller : call[d].gen <= started /\ (call[d].at \notin Nowhere => call[d].gen # 0)
    BY DEF HostInv, Generations, Nowhere
  <2> QED
    BY <1>1, <1>2, <2>1
<1>4. \A x \in Actor : /\ shut'[x].gen <= started'
                       /\ shut'[x].at \in {"begin", "reap", "exit"} => shut'[x].gen # 0
  <2>1. \A x \in Actor : /\ shut[x].gen <= started
                         /\ shut[x].at \in {"begin", "reap", "exit"} => shut[x].gen # 0
    BY DEF HostInv, Generations
  <2> QED
    BY <1>2, <2>1
<1>5. ASSUME NEW g \in Gen, g > started'
      PROVE  /\ side'[g].state = "none" /\ out'[g] = {} /\ ~bridge'[g].terminal
             /\ router'[g] = "none"
  <2>1. g > started
    BY <1>2, <1>5
  <2> QED
    BY <1>5, <2>1 DEF HostInv, Generations
<1> QED
  BY <1>3, <1>4, <1>5 DEF Generations, Nowhere

\* A thread that is not awaiting anything moves, and nothing becomes pending.
LEMMA MailedKept ==
    ASSUME HostInv, NEW c \in Caller, NEW u, Becomes(c, u),
           \A d \in Caller \ {c} : mail'[d] = mail[d],
           mail'[c] # "none" => u.at \in Awaiting,
           \A g \in Gen : pending'[g] \subseteq pending[g],
           \A g \in Gen : \A f \in pending'[g] : f[1] = c =>
               /\ mail'[c] = "none" /\ u.at \in Awaiting
               /\ u.gen = call[c].gen /\ u.phase = call[c].phase
    PROVE  Mailed'
<1>1. call'[c] = u /\ \A d \in Caller \ {c} : call'[d] = call[d]
  BY OneCall DEF HostInv
<1>2. \A g \in Gen : \A f \in pending[g] : f[1] \in Caller
  BY Names, Frames DEF HostInv
<1>3. \A d \in Caller : mail'[d] # "none" => call'[d].at \in Awaiting
  BY <1>1 DEF HostInv, Mailed
<1>4. ASSUME NEW g \in Gen, NEW f \in pending'[g]
      PROVE  /\ call'[f[1]].gen = g /\ call'[f[1]].phase = f[2]
             /\ call'[f[1]].at \in Awaiting /\ mail'[f[1]] = "none"
  <2>1. /\ f \in pending[g] /\ f[1] \in Caller
        /\ call[f[1]].gen = g /\ call[f[1]].phase = f[2]
        /\ call[f[1]].at \in Awaiting /\ mail[f[1]] = "none"
    BY <1>2 DEF HostInv, Mailed
  <2> QED
    BY <1>1, <2>1
<1> QED
  BY <1>3, <1>4 DEF Mailed

\* What the thread was expected for it is still expected for, or the process of its
\* call is not there any more.
LEMMA CallFlow ==
    ASSUME HostInv, NEW c \in Caller, NEW u, Becomes(c, u),
           \A d \in Caller \ {c} : mail'[d] \in {mail[d], "none", "interrupted"},
           \A g \in Gen : Alive(g)' =>
               /\ Alive(g) /\ side'[g].inbox = side[g].inbox /\ side'[g].bulk = side[g].bulk
               /\ out'[g] \subseteq out[g] /\ bridge'[g].owner = bridge[g].owner,
           \A g \in Gen :
               Alive(g) /\ Alive(g)' /\ call[c].gen = g /\ call[c].at \in Unsettled
               /\ mail[c] \notin {"ok", "no"} =>
                   /\ u.gen = g /\ u.phase = call[c].phase /\ u.kind = call[c].kind
                   /\ u.at \in Unsettled /\ mail'[c] \notin {"ok", "no"}
    PROVE  Flow'
<1>1. call'[c] = u /\ \A d \in Caller \ {c} : call'[d] = call[d]
  BY OneCall DEF HostInv
<1>2. ASSUME NEW g \in Gen, NEW f \in Frame, Alive(g), Alive(g)', Expects(g, f)
      PROVE  Expects(g, f)' /\ KindOf(f)' = KindOf(f)
  <2>1. f[1] \in Caller
    BY Names
  <2>2. CASE f[1] = c
    BY <1>1, <1>2, <2>2 DEF Expects, KindOf
  <2>3. CASE f[1] # c
    BY <1>1, <1>2, <2>1, <2>3 DEF Expects, KindOf
  <2> QED
    BY <2>2, <2>3
<1>3. Types /\ Flow
  BY DEF HostInv
<1> QED
  BY <1>2, <1>3, FlowKept

-----------------------------------------------------------------------------
\* A thread goes on, and nothing but its own call changes.
LEMMA Moves ==
    ASSUME HostInv, NEW c \in Caller, NEW u, Becomes(c, u), Sound(u),
           Busy(c), call[c].at \notin Holding, u.at \notin Holding,
           u.at # "idle" => u.kind = call[c].kind,
           u.at # "closed",
           u.at = "clear" => u.gen # proc,
           u.gen <= started, u.at \notin Nowhere => u.gen # 0,
           \/ call[c].at \notin Awaiting
           \/ u.at \in Awaiting /\ u.gen = call[c].gen /\ u.phase = call[c].phase,
           \/ call[c].at \notin Unsettled
           \/ call[c].gen # proc
           \/ u.at \in Unsettled /\ u.gen = call[c].gen /\ u.phase = call[c].phase
              /\ u.kind = call[c].kind,
           UNCHANGED <<proc, holder, started, shut, calls, mail, bridge, pending, side, out,
                       router, faults>>,
           active' \in [vault : Vault \cup {NoVault}, gen : 0 .. MaxGen],
           claimed' \in BOOLEAN, gate' \in BOOLEAN
    PROVE  HostInv'
<1>1. call' \in [Caller -> Call]
  BY OneCall DEF HostInv
<1>2. Types'
  BY <1>1 DEF HostInv, Types
<1>3. Locked'
  <2>1. holder # c
    BY DEF HostInv, Locked
  <2> QED
    BY <2>1, LockedKept
<1>4. Generations'
  <2>1. /\ proc <= started
        /\ shut[c].gen <= started /\ (shut[c].at \in {"begin", "reap", "exit"} => shut[c].gen # 0)
    BY Names DEF HostInv, Generations
  <2> QED
    BY <2>1, GenerationsKept
<1>5. Reaped' /\ Owned'
  BY DEF HostInv, Reaped, Alive, Owned
<1>6. Mailed'
  <2>1. /\ mail[c] # "none" => call[c].at \in Awaiting
        /\ \A g \in Gen : \A f \in pending[g] : f[1] = c =>
              mail[c] = "none" /\ call[c].at \in Awaiting
    BY DEF HostInv, Mailed
  <2> QED
    BY <2>1, MailedKept
<1>7. Flow'
  <2>1. \A g \in Gen : (Alive(g)' <=> Alive(g)) /\ (Alive(g) => g = proc)
    BY DEF HostInv, Reaped, Alive
  <2> QED
    BY <2>1, CallFlow
<1>8. Attempts'
  BY AttemptsKept
<1>9. Alone'
  BY AloneKept
<1>10. Passed'
  BY PassedKept
<1> QED
  BY <1>2, <1>3, <1>4, <1>5, <1>6, <1>7, <1>8, <1>9, <1>10 DEF HostInv

\* What is known of a call.
LEMMA OfCall ==
    ASSUME HostInv, NEW c \in Caller
    PROVE  /\ call[c] \in Call /\ Sound(call[c])
           /\ call[c].gen \in 0 .. MaxGen /\ call[c].gen <= started
           /\ call[c].at \notin Nowhere => call[c].gen \in Gen
           /\ call[c].sent \in Nat /\ call[c].attempt \in Nat
           /\ proc \in 0 .. MaxGen /\ proc <= started /\ started \in 0 .. MaxGen
           /\ proc # 0 => proc \in Gen
<1>1. call[c] \in Call /\ proc \in 0 .. MaxGen /\ started \in 0 .. MaxGen
  BY DEF HostInv, Types
<1>2. call[c].gen \in 0 .. MaxGen /\ call[c].sent \in Nat /\ call[c].attempt \in Nat
  BY <1>1 DEF Call
<1>3. Sound(call[c])
  BY DEF HostInv, Attempts
<1>4. /\ call[c].gen <= started /\ (call[c].at \notin Nowhere => call[c].gen # 0)
      /\ proc <= started
  BY DEF HostInv, Generations, Nowhere
<1> QED
  BY <1>1, <1>2, <1>3, <1>4, Names

\* What the host knows has its type.
LEMMA OfHost ==
    ASSUME HostInv
    PROVE  /\ active \in [vault : Vault \cup {NoVault}, gen : 0 .. MaxGen]
           /\ claimed \in BOOLEAN /\ gate \in BOOLEAN
  BY DEF HostInv, Types

\* The gate is open: the call goes on to be admitted.
LEMMA EnterKeeps ==
    ASSUME HostInv, NEW c \in Caller, Enter(c)
    PROVE  HostInv'
<1> DEFINE u == [call[c] EXCEPT !.at = "admit",
                    !.phase = IF @ = "main" /\ call[c].attempt = 1 THEN "reopen" ELSE "main"]
<1>1. /\ UNCHANGED <<proc, holder, started, active, claimed, gate, calls, mail, shut, bridge,
                     pending, side, out, router, faults>>
      /\ call[c].at = "enter" /\ call' = [call EXCEPT ![c] = u]
  BY DEF Enter, host, procs
<1>2. call[c] \in Call /\ Sound(call[c]) /\ call[c].gen <= started /\ call[c].gen # 0
  BY <1>1, OfCall, Names DEF Nowhere
<1>3. /\ u \in Call /\ u.at = "admit" /\ u.kind = call[c].kind /\ u.gen = call[c].gen
      /\ u.attempt = call[c].attempt /\ u.vault = call[c].vault
      /\ u.recovery = call[c].recovery /\ u.permit = call[c].permit
      /\ u.sent = call[c].sent
  BY <1>2 DEF Call
<1> HIDE DEF u
<1>4. Sound(u)
  BY <1>1, <1>2, <1>3 DEF Sound
<1> QED
  BY <1>1, <1>2, <1>3, <1>4, OfHost, Moves
  DEF Becomes, Busy, Holding, Nowhere, Awaiting, Unsettled

\* The gate stayed closed: the call ends.
LEMMA GateTimesOutKeeps ==
    ASSUME HostInv, NEW c \in Caller, GateTimesOut(c)
    PROVE  HostInv'
<1>1. /\ UNCHANGED <<proc, holder, started, active, claimed, calls, mail, shut, bridge,
                     pending, side, out, router, faults>>
      /\ call[c].at = "enter" /\ Back(c)
  BY DEF GateTimesOut, procs
<1>2. /\ Becomes(c, NoCall) /\ gate' \in BOOLEAN
      /\ NoCall.at = "idle" /\ NoCall.gen = 0 /\ Sound(NoCall)
  BY <1>1, BackHome DEF HostInv
<1> QED
  BY <1>1, <1>2, OfHost, OfCall, Names, Moves
  DEF Busy, Holding, Nowhere, Awaiting, Unsettled

\* The deadline of a waiting call passes.
LEMMA TimesOutKeeps ==
    ASSUME HostInv, NEW c \in Caller, TimesOut(c)
    PROVE  HostInv'
<1>1. /\ UNCHANGED <<proc, holder, started, active, claimed, gate, calls, mail, shut, bridge,
                     pending, side, out, router, faults>>
      /\ call[c].at = "waiting" /\ Goes(c, "drain")
  BY DEF TimesOut, host, procs
<1>2. PICK u : Becomes(c, u) /\ u.at = "drain" /\ Alike(u, call[c])
  BY <1>1, GoesThere DEF HostInv, Places
<1>3. Sound(u)
  BY <1>1, <1>2, OfCall DEF Sound, Alike
<1>4. call[c].gen <= started /\ call[c].gen # 0
  BY <1>1, OfCall, Names DEF Nowhere
<1> QED
  BY <1>1, <1>2, <1>3, <1>4, OfHost, Moves
  DEF Alike, Busy, Holding, Nowhere, Awaiting, Unsettled

\* A reply is accepted, or belongs to a process that has been replaced.
LEMMA AcceptKeeps ==
    ASSUME HostInv, NEW c \in Caller, Accept(c)
    PROVE  HostInv'
<1>1. /\ UNCHANGED <<proc, holder, started, calls, mail, shut, bridge,
                     pending, side, out, router, faults>>
      /\ call[c].at = "accept" /\ Back(c)
      /\ active' \in {active, [vault |-> call[c].vault, gen |-> call[c].gen],
                      [vault |-> call[c].recovery, gen |-> call[c].gen]}
      /\ claimed' \in {FALSE, claimed}
  BY DEF Accept, procs
<1>2. /\ Becomes(c, NoCall) /\ gate' \in BOOLEAN
      /\ NoCall.at = "idle" /\ NoCall.gen = 0 /\ Sound(NoCall)
  BY <1>1, BackHome DEF HostInv
<1>3. active' \in [vault : Vault \cup {NoVault}, gen : 0 .. MaxGen] /\ claimed' \in BOOLEAN
  <2>1. /\ call[c].vault \in Vault \cup {NoVault} /\ call[c].recovery \in Vault \cup {NoVault}
        /\ call[c].gen \in 0 .. MaxGen
    BY OfCall DEF Call
  <2>2. CASE active' = active
    BY <1>1, <2>2, OfHost
  <2>3. CASE active' = [vault |-> call[c].vault, gen |-> call[c].gen]
    BY <1>1, <2>1, <2>3, OfHost
  <2>4. CASE active' = [vault |-> call[c].recovery, gen |-> call[c].gen]
    BY <1>1, <2>1, <2>4, OfHost
  <2> QED
    BY <1>1, <2>2, <2>3, <2>4
<1> QED
  BY <1>1, <1>2, <1>3, OfCall, Names, Moves
  DEF Busy, Holding, Nowhere, Awaiting, Unsettled

\* The close ends when no process is left.
LEMMA CloseEndsKeeps ==
    ASSUME HostInv, NEW c \in Caller, CloseEnds(c)
    PROVE  HostInv'
<1>1. /\ UNCHANGED <<proc, holder, started, calls, mail, shut, bridge,
                     pending, side, out, router, faults>>
      /\ call[c].at = "closed" /\ Back(c)
      /\ active' = [vault |-> NoVault, gen |-> 0] /\ claimed' = FALSE
  BY DEF CloseEnds, procs
<1>2. /\ Becomes(c, NoCall) /\ gate' \in BOOLEAN
      /\ NoCall.at = "idle" /\ NoCall.gen = 0 /\ Sound(NoCall)
  BY <1>1, BackHome DEF HostInv
<1>3. active' \in [vault : Vault \cup {NoVault}, gen : 0 .. MaxGen] /\ claimed' \in BOOLEAN
  BY <1>1, Names
<1> QED
  BY <1>1, <1>2, <1>3, OfCall, Names, Moves
  DEF Busy, Holding, Nowhere, Awaiting, Unsettled

\* The call that failed is over, or is made again.
LEMMA ClearKeeps ==
    ASSUME HostInv, NEW c \in Caller, Clear(c)
    PROVE  HostInv'
<1>1. /\ UNCHANGED <<proc, holder, started, claimed, calls, mail, shut, bridge,
                     pending, side, out, router, faults>>
      /\ call[c].at = "clear"
      /\ active' \in {active, [active EXCEPT !.vault = NoVault]}
  BY DEF Clear, Cleared, procs
<1>2. active' \in [vault : Vault \cup {NoVault}, gen : 0 .. MaxGen] /\ claimed' \in BOOLEAN
  BY <1>1, OfHost
<1>3. CASE Back(c)
  <2>1. /\ Becomes(c, NoCall) /\ gate' \in BOOLEAN
        /\ NoCall.at = "idle" /\ NoCall.gen = 0 /\ Sound(NoCall)
    BY <1>3, BackHome DEF HostInv
  <2> QED
    BY <1>1, <1>2, <2>1, OfCall, Names, Moves
    DEF Busy, Holding, Nowhere, Awaiting, Unsettled
<1>4. CASE /\ call[c].permit /\ call[c].attempt = 0 /\ UNCHANGED gate
           /\ call' = [call EXCEPT ![c].at = "ensure", ![c].attempt = 1]
  <2> DEFINE u == [call[c] EXCEPT !.at = "ensure", !.attempt = 1]
  <2>1. call \in [Caller -> Call] /\ call[c] \in Call /\ Sound(call[c])
        /\ call[c].gen <= started /\ call[c].sent \in Nat
    BY OfCall DEF HostInv, Types
  <2>2. call' = [call EXCEPT ![c] = u]
    BY <1>4, <2>1
  <2>3. /\ u \in Call /\ u.at = "ensure" /\ u.kind = call[c].kind /\ u.phase = call[c].phase
        /\ u.gen = call[c].gen /\ u.attempt = 1 /\ u.vault = call[c].vault
        /\ u.recovery = call[c].recovery /\ u.permit = call[c].permit
        /\ u.sent = call[c].sent
    <3>1. 1 \in 0 .. 1 /\ "ensure" \in Places
      BY DEF Places
    <3> QED
      BY <2>1, <3>1 DEF Call, Places
  <2> HIDE DEF u
  <2>4. Sound(u)
    BY <1>1, <1>4, <2>1, <2>3 DEF Sound
  <2> QED
    BY <1>1, <1>2, <1>4, <2>1, <2>2, <2>3, <2>4, OfHost, Moves
    DEF Becomes, Busy, Holding, Nowhere, Awaiting, Unsettled
<1> QED
  BY <1>3, <1>4 DEF Clear

-----------------------------------------------------------------------------
\* A thread goes on, gives up on a process, or has waited for the end of one:
\* it may take or give back the mutex, and no process starts or leaves.
LEMMA Steps ==
    ASSUME HostInv, NEW c \in Caller, NEW u, Becomes(c, u), Sound(u),
           Busy(c), u.at # "idle" => u.kind = call[c].kind,
           u.at = "closed" => proc' = 0,
           u.at = "clear" => u.gen # proc',
           u.gen <= started, u.at \notin Nowhere => u.gen # 0,
           u.at \in Holding <=> holder' = c,
           u.at \in Holding => shut'[c].gen = proc',
           \/ holder' = holder /\ proc' = proc
           \/ holder \in {NoOne, c} /\ holder' \in {NoOne, c},
           proc' \in {proc, 0},
           \A g \in Gen : Alive(g) => g = proc',
           shut' \in [Actor -> [at : {"none", "begin", "reap", "exit", "done"}, gen : 0 .. MaxGen]],
           \A x \in Actor \ {c} : shut'[x] = shut[x],
           \/ shut'[c] = shut[c]
           \/ /\ shut'[c].gen <= started
              /\ shut'[c].at \in {"begin", "exit"} /\ shut'[c].gen # 0
           \/ shut'[c].at \in {"none", "done"} /\ shut'[c].gen = 0,
           bridge' \in [Gen -> Bridge],
           \A g \in Gen : /\ bridge'[g].terminal = bridge[g].terminal
                          /\ bridge'[g].owner = bridge[g].owner
                          /\ bridge[g].closed => bridge'[g].closed,
           mail' \in [Caller -> {"none", "ok", "no", "interrupted"}],
           \A d \in Caller \ {c} : mail'[d] = mail[d],
           mail'[c] # "none" => u.at \in Awaiting,
           pending' \in [Gen -> SUBSET Frame],
           \A g \in Gen : pending'[g] \subseteq pending[g],
           \A g \in Gen : \A f \in pending'[g] : f[1] = c =>
               /\ mail'[c] = "none" /\ u.at \in Awaiting
               /\ u.gen = call[c].gen /\ u.phase = call[c].phase,
           \A g \in Gen :
               Alive(g) /\ call[c].gen = g /\ call[c].at \in Unsettled /\ mail[c] \notin {"ok", "no"} =>
                   /\ u.gen = g /\ u.phase = call[c].phase /\ u.kind = call[c].kind
                   /\ u.at \in Unsettled /\ mail'[c] \notin {"ok", "no"},
           UNCHANGED <<started, calls, side, out, router, faults>>,
           active' \in [vault : Vault \cup {NoVault}, gen : 0 .. MaxGen],
           claimed' \in BOOLEAN, gate' \in BOOLEAN
    PROVE  HostInv'
<1>1. call' \in [Caller -> Call]
  BY OneCall DEF HostInv
<1>2. Types'
  <2>1. proc' \in 0 .. MaxGen /\ holder' \in Caller \cup {NoOne}
    BY Names DEF HostInv, Types
  <2> QED
    BY <1>1, <2>1 DEF HostInv, Types
<1>3. Locked'
  <2>1. \A d \in Caller \ {c} : shut'[d] = shut[d]
    BY Names
  <2> QED
    BY <2>1, LockedKept
<1>4. Generations'
  <2>1. /\ proc' <= started
        /\ shut[c].gen <= started /\ (shut[c].at \in {"begin", "reap", "exit"} => shut[c].gen # 0)
    <3>1. proc <= started /\ 0 <= started
      BY OfCall, Names
    <3>2. proc' <= started
      BY <3>1
    <3> QED
      BY <3>2, Names DEF HostInv, Generations
  <2>2. shut'[c].gen <= started /\ (shut'[c].at \in {"begin", "reap", "exit"} => shut'[c].gen # 0)
    <3>1. 0 <= started
      BY Names DEF HostInv, Types
    <3> QED
      BY <2>1, <3>1
  <2> QED
    BY <2>1, <2>2, GenerationsKept
<1>5. Reaped'
  <2>1. \A g \in Gen : Alive(g)' <=> Alive(g)
    BY DEF Alive
  <2>2. \A g \in Gen : Alive(g)' => g = proc' /\ ~bridge'[g].terminal
    BY <2>1 DEF HostInv, Reaped
  <2>3. ASSUME NEW x \in Actor, shut'[x].at = "done", shut'[x].gen # 0
        PROVE  ~(side'[shut'[x].gen].state = "up")
    <3>1. shut'[x] = shut[x]
      BY <2>3
    <3> QED
      BY <2>3, <3>1 DEF HostInv, Reaped, Alive
  <2> QED
    BY <2>1, <2>2, <2>3 DEF HostInv, Reaped, Alive
<1>6. Owned'
  <2>1. ASSUME NEW x \in Actor, shut'[x].at = "reap"
        PROVE  bridge'[shut'[x].gen].closed /\ bridge'[shut'[x].gen].owner = NoOwner
    <3>1. shut'[x] = shut[x]
      BY <2>1
    <3>2. shut[x].gen \in Gen
      BY <2>1, <3>1, Names DEF HostInv, Generations, Types
    <3> QED
      BY <2>1, <3>1, <3>2 DEF HostInv, Owned
  <2> QED
    BY <2>1 DEF Owned
<1>7. Mailed'
  BY MailedKept
<1>8. Flow'
  <2>1. \A g \in Gen : Alive(g)' <=> Alive(g)
    BY DEF Alive
  <2> QED
    BY <2>1, CallFlow
<1>9. Attempts'
  BY AttemptsKept
<1>10. Alone'
  BY AloneKept
<1>11. Passed'
  BY PassedKept
<1> QED
  BY <1>2, <1>3, <1>4, <1>5, <1>6, <1>7, <1>8, <1>9, <1>10, <1>11 DEF HostInv

\* Who runs is current; what a thread has waited for is over.
LEMMA OnlyCurrent ==
    ASSUME HostInv
    PROVE  /\ \A g \in Gen : Alive(g) => g = proc
           /\ \A c \in Caller : call[c].at \in Holding /\ shut[c].at = "done" =>
                 \A g \in Gen : ~Alive(g)
<1>1. \A g \in Gen : Alive(g) => g = proc
  BY DEF HostInv, Reaped
<1>2. ASSUME NEW c \in Caller, call[c].at \in Holding, shut[c].at = "done", NEW g \in Gen, Alive(g)
      PROVE  FALSE
  <2>1. shut[c].gen = proc /\ g = proc /\ c \in Actor /\ g # 0
    BY <1>1, <1>2, Names DEF HostInv, Locked
  <2> QED
    BY <1>2, <2>1 DEF HostInv, Reaped
<1> QED
  BY <1>1, <1>2

\* A thread takes the mutex, to shut the current process down.
LEMMA TakesKeeps ==
    ASSUME HostInv, NEW c \in Caller, NEW u, Becomes(c, u), Alike(u, call[c]),
           \/ call[c].at = "ensure" /\ u.at = "replace"
           \/ call[c].at = "fail" /\ u.at = "failShut"
           \/ call[c].at = "abandon" /\ u.at = "abandonShut"
           \/ call[c].at = "control" /\ u.at = "controlShut",
           holder = NoOne, holder' = c,
           shut' = [shut EXCEPT ![c] = IF proc = 0 THEN Doing("done", 0) ELSE Doing("begin", proc)],
           UNCHANGED <<proc, started, active, claimed, gate, calls, mail, bridge, pending, side,
                       out, router, faults>>
    PROVE  HostInv'
<1>1. /\ shut' \in [Actor -> [at : {"none", "begin", "reap", "exit", "done"}, gen : 0 .. MaxGen]]
      /\ \A x \in Actor \ {c} : shut'[x] = shut[x]
      /\ shut'[c].gen = proc
      /\ \/ shut'[c].at = "begin" /\ proc # 0
         \/ shut'[c].at = "done" /\ proc = 0
  <2>1. shut \in [Actor -> [at : {"none", "begin", "reap", "exit", "done"}, gen : 0 .. MaxGen]]
        /\ proc \in 0 .. MaxGen /\ c \in Actor
    BY Names DEF HostInv, Types
  <2> QED
    BY <2>1 DEF Doing
<1>2. /\ Sound(call[c]) /\ call[c].gen <= started /\ proc <= started
      /\ call[c].at \notin Nowhere => call[c].gen # 0
  BY OfCall, Names
<1>3. Sound(u)
  BY <1>2 DEF Sound, Alike
<1>4. u.at \notin Nowhere => u.gen # 0
  BY <1>2 DEF Nowhere, Alike
<1>5. \A g \in Gen : Alive(g) => g = proc
  BY OnlyCurrent
<1>6. /\ mail \in [Caller -> {"none", "ok", "no", "interrupted"}]
      /\ bridge \in [Gen -> Bridge] /\ pending \in [Gen -> SUBSET Frame]
      /\ active \in [vault : Vault \cup {NoVault}, gen : 0 .. MaxGen]
      /\ claimed \in BOOLEAN /\ gate \in BOOLEAN
  BY DEF HostInv, Types
<1>7. /\ mail[c] = "none" /\ \A g \in Gen : \A f \in pending[g] : f[1] # c
  BY DEF HostInv, Mailed, Awaiting
<1>8. /\ Busy(c) /\ u.at \in Holding /\ u.at \notin {"idle", "closed", "clear"}
      /\ call[c].at \in Unsettled => u.at \in Unsettled
  BY DEF Busy, Holding, Unsettled, Awaiting
<1>9. /\ u.kind = call[c].kind /\ u.gen = call[c].gen /\ u.phase = call[c].phase
  BY DEF Alike
<1> QED
  BY <1>1, <1>2, <1>3, <1>4, <1>5, <1>6, <1>7, <1>8, <1>9, Steps

\* One read may recover.
LEMMA DecidesThere ==
    ASSUME HostInv, NEW c \in Caller, Decides(c), call[c].at \in {"fail", "failShut"}
    PROVE  /\ \E u : /\ Becomes(c, u) /\ Sound(u) /\ u.at = "clear"
                     /\ u.kind = call[c].kind /\ u.gen = call[c].gen
           /\ claimed' \in BOOLEAN /\ gate' \in BOOLEAN
<1>1. call \in [Caller -> Call] /\ call[c] \in Call /\ Sound(call[c])
  BY OfCall DEF HostInv, Types
<1>2. claimed' \in BOOLEAN /\ gate' \in BOOLEAN
  BY DEF Decides
<1>3. PICK r \in BOOLEAN : /\ r => CanReplay(c)
                           /\ call' = [call EXCEPT ![c].at = "clear", ![c].permit = @ \/ r]
  BY DEF Decides
<1> DEFINE u == [call[c] EXCEPT !.at = "clear", !.permit = @ \/ r]
<1>4. call' = [call EXCEPT ![c] = u]
  BY <1>1, <1>3
<1>5. /\ u \in Call /\ u.at = "clear" /\ u.kind = call[c].kind /\ u.phase = call[c].phase
      /\ u.gen = call[c].gen /\ u.attempt = call[c].attempt /\ u.vault = call[c].vault
      /\ u.recovery = call[c].recovery /\ (u.permit => call[c].permit \/ r)
      /\ u.sent = call[c].sent
  <2>1. "clear" \in Places /\ (call[c].permit \/ r) \in BOOLEAN
    BY DEF Places
  <2> QED
    BY <1>1, <2>1 DEF Call, Places
<1> HIDE DEF u
<1>6. Sound(u)
  BY <1>1, <1>3, <1>5 DEF Sound, CanReplay
<1> QED
  BY <1>2, <1>4, <1>5, <1>6 DEF Becomes

\* The failed call looks at the process under the mutex.
LEMMA FailKeeps ==
    ASSUME HostInv, NEW c \in Caller, Fail(c)
    PROVE  HostInv'
<1>1. /\ UNCHANGED <<proc, started, active, calls, mail, bridge, pending, side, out, router, faults>>
      /\ call[c].at = "fail" /\ holder = NoOne /\ Busy(c)
  BY DEF Fail, procs, Busy
<1>2. CASE proc = call[c].gen
  <2>1. /\ holder' = c /\ shut' = [shut EXCEPT ![c] = Doing("begin", proc)]
        /\ Goes(c, "failShut") /\ UNCHANGED <<claimed, gate>>
    BY <1>2 DEF Fail
  <2>2. PICK u : Becomes(c, u) /\ u.at = "failShut" /\ Alike(u, call[c])
    BY <2>1, GoesThere DEF HostInv, Places
  <2>3. proc # 0
    BY <1>1, <1>2, OfCall, Names DEF Nowhere
  <2> QED
    BY <1>1, <1>2, <2>1, <2>2, <2>3, TakesKeeps
<1>3. CASE proc # call[c].gen
  <2>1. UNCHANGED <<holder, shut>> /\ Decides(c)
    BY <1>3 DEF Fail
  <2>2. PICK u : /\ Becomes(c, u) /\ Sound(u) /\ u.at = "clear"
                 /\ u.kind = call[c].kind /\ u.gen = call[c].gen
    BY <1>1, <2>1, DecidesThere
  <2>3. claimed' \in BOOLEAN /\ gate' \in BOOLEAN
    BY <1>1, <2>1, DecidesThere
  <2> QED
    BY <1>1, <1>3, <2>1, <2>2, <2>3, OfCall, OfHost, Names, Moves
    DEF Holding, Nowhere, Awaiting
<1> QED
  BY <1>2, <1>3

\* A replay that could not reopen the vault gives the process up.
LEMMA AbandonKeeps ==
    ASSUME HostInv, NEW c \in Caller, Abandon(c)
    PROVE  HostInv'
<1>1. /\ UNCHANGED <<proc, started, active, claimed, calls, mail, bridge, pending, side, out,
                     router, faults>>
      /\ call[c].at = "abandon" /\ holder = NoOne /\ Busy(c)
  BY DEF Abandon, procs, Busy
<1>2. CASE proc = 0
  <2>1. UNCHANGED <<holder, shut>> /\ Back(c)
    BY <1>2 DEF Abandon
  <2>2. /\ Becomes(c, NoCall) /\ gate' \in BOOLEAN
        /\ NoCall.at = "idle" /\ NoCall.gen = 0 /\ Sound(NoCall)
    BY <2>1, BackHome DEF HostInv
  <2> QED
    BY <1>1, <1>2, <2>1, <2>2, OfHost, OfCall, Names, Moves
    DEF Holding, Nowhere, Awaiting, Unsettled
<1>3. CASE proc # 0
  <2>1. /\ holder' = c /\ shut' = [shut EXCEPT ![c] = Doing("begin", proc)]
        /\ Goes(c, "abandonShut") /\ UNCHANGED gate
    BY <1>3 DEF Abandon
  <2>2. PICK u : Becomes(c, u) /\ u.at = "abandonShut" /\ Alike(u, call[c])
    BY <2>1, GoesThere DEF HostInv, Places
  <2> QED
    BY <1>1, <1>3, <2>1, <2>2, TakesKeeps
<1> QED
  BY <1>2, <1>3

\* A stop, restart or close takes the mutex.
LEMMA ControlKeeps ==
    ASSUME HostInv, NEW c \in Caller, Control(c)
    PROVE  HostInv'
<1>1. /\ UNCHANGED <<proc, started, active, claimed, gate, calls, mail, bridge, pending, side,
                     out, router, faults>>
      /\ call[c].at = "control" /\ holder = NoOne /\ holder' = c /\ Goes(c, "controlShut")
      /\ shut' = [shut EXCEPT ![c] = IF proc = 0 THEN Doing("done", 0) ELSE Doing("begin", proc)]
  BY DEF Control, procs
<1>2. PICK u : Becomes(c, u) /\ u.at = "controlShut" /\ Alike(u, call[c])
  BY <1>1, GoesThere DEF HostInv, Places
<1> QED
  BY <1>1, <1>2, TakesKeeps

\* A thread gives the mutex back, and leaves no process.
LEMMA YieldsKeeps ==
    ASSUME HostInv, NEW c \in Caller, NEW u, Becomes(c, u), Sound(u),
           call[c].at \in Holding, shut[c].at = "done", holder' = NoOne, proc' = 0,
           shut' = [shut EXCEPT ![c] = NoShut],
           u.at \in {"idle", "clear", "closed"}, u.at # "idle" => u.kind = call[c].kind,
           u.gen <= started, u.at = "clear" => u.gen # 0,
           UNCHANGED <<started, calls, mail, bridge, pending, side, out, router, faults>>,
           active' \in [vault : Vault \cup {NoVault}, gen : 0 .. MaxGen],
           claimed' \in BOOLEAN, gate' \in BOOLEAN
    PROVE  HostInv'
<1>1. /\ shut' \in [Actor -> [at : {"none", "begin", "reap", "exit", "done"}, gen : 0 .. MaxGen]]
      /\ \A x \in Actor \ {c} : shut'[x] = shut[x]
      /\ shut'[c].gen = 0 /\ shut'[c].at = "none"
  <2>1. shut \in [Actor -> [at : {"none", "begin", "reap", "exit", "done"}, gen : 0 .. MaxGen]]
        /\ c \in Actor /\ 0 \in 0 .. MaxGen
    BY Names DEF HostInv, Types
  <2> QED
    BY <2>1 DEF NoShut
<1>2. \A g \in Gen : ~Alive(g)
  BY OnlyCurrent
<1>3. /\ mail \in [Caller -> {"none", "ok", "no", "interrupted"}]
      /\ bridge \in [Gen -> Bridge] /\ pending \in [Gen -> SUBSET Frame]
  BY DEF HostInv, Types
<1>4. /\ mail[c] = "none" /\ \A g \in Gen : \A f \in pending[g] : f[1] # c
  BY DEF HostInv, Mailed, Awaiting, Holding
<1>5. /\ Busy(c) /\ u.at \notin Holding /\ (u.at \notin Nowhere => u.at = "clear")
      /\ holder = c /\ c # NoOne
  BY Names DEF Busy, Holding, Nowhere, HostInv, Locked
<1> QED
  BY <1>1, <1>2, <1>3, <1>4, <1>5, Steps

\* The failed call's process is down: the mutex is given back.
LEMMA FailShutKeeps ==
    ASSUME HostInv, NEW c \in Caller, FailShut(c)
    PROVE  HostInv'
<1>1. /\ UNCHANGED <<started, active, calls, mail, bridge, pending, side, out, router, faults>>
      /\ call[c].at = "failShut" /\ shut[c].at = "done" /\ holder' = NoOne /\ proc' = 0
      /\ shut' = [shut EXCEPT ![c] = NoShut] /\ Decides(c)
  BY DEF FailShut, procs
<1>2. PICK u : /\ Becomes(c, u) /\ Sound(u) /\ u.at = "clear"
               /\ u.kind = call[c].kind /\ u.gen = call[c].gen
  BY <1>1, DecidesThere
<1>3. claimed' \in BOOLEAN /\ gate' \in BOOLEAN
  BY <1>1, DecidesThere
<1>4. call[c].gen <= started /\ call[c].gen # 0
  BY <1>1, OfCall, Names DEF Nowhere
<1> QED
  BY <1>1, <1>2, <1>3, <1>4, OfHost, YieldsKeeps DEF Holding

\* The given-up process is down: the mutex is given back.
LEMMA AbandonShutKeeps ==
    ASSUME HostInv, NEW c \in Caller, AbandonShut(c)
    PROVE  HostInv'
<1>1. /\ UNCHANGED <<started, active, claimed, calls, mail, bridge, pending, side, out, router,
                     faults>>
      /\ call[c].at = "abandonShut" /\ shut[c].at = "done" /\ holder' = NoOne /\ proc' = 0
      /\ shut' = [shut EXCEPT ![c] = NoShut] /\ Back(c)
  BY DEF AbandonShut, procs
<1>2. /\ Becomes(c, NoCall) /\ gate' \in BOOLEAN
      /\ NoCall.at = "idle" /\ NoCall.gen = 0 /\ Sound(NoCall)
  BY <1>1, BackHome DEF HostInv
<1>3. 0 <= started
  BY OfCall, Names
<1> QED
  BY <1>1, <1>2, <1>3, OfHost, YieldsKeeps DEF Holding

\* The next generation, when no process is there.
LEMMA StartsKeeps ==
    ASSUME HostInv, NEW c \in Caller, NEW u, Becomes(c, u), Sound(u), Spawn,
           Busy(c), u.at # "idle" => u.kind = call[c].kind,
           \/ u.at = "enter" /\ u.gen = proc'
           \/ u.at = "idle" /\ u.gen = 0,
           call[c].at \in {"ensure", "replace", "controlShut"},
           holder \in {NoOne, c}, holder' = NoOne,
           \A g \in Gen : ~Alive(g),
           shut' \in {shut, [shut EXCEPT ![c] = NoShut]},
           UNCHANGED <<calls, mail, bridge, pending, out, faults>>,
           active' \in [vault : Vault \cup {NoVault}, gen : 0 .. MaxGen],
           claimed' \in BOOLEAN, gate' \in BOOLEAN
    PROVE  HostInv'
<1>1. /\ started \in 0 .. MaxGen /\ started' = started + 1 /\ proc' = started' /\ started' \in Gen
      /\ started < started' /\ MaxGen \in Nat /\ started \in Nat
      /\ side' = [side EXCEPT ![started'].state = "up"]
      /\ router' = [router EXCEPT ![started'] = "run"]
  BY OfCall, Names DEF Spawn, Spawns
<1>2. /\ side'[started'].state = "up" /\ side'[started'].inbox = side[started'].inbox
      /\ side'[started'].bulk = side[started'].bulk
      /\ \A g \in Gen \ {started'} : side'[g] = side[g] /\ router'[g] = router[g]
      /\ side' \in [Gen -> [state : {"none", "up", "gone"}, inbox : Seq(Frame),
                            bulk : Frame \cup {NoOwner}, vault : Vault \cup {NoVault}]]
      /\ router' \in [Gen -> {"none", "run", "copy", "done"}]
  <2>1. PICK n \in Gen : n = started'
    BY <1>1
  <2>2. /\ side \in [Gen -> [state : {"none", "up", "gone"}, inbox : Seq(Frame),
                             bulk : Frame \cup {NoOwner}, vault : Vault \cup {NoVault}]]
        /\ router \in [Gen -> {"none", "run", "copy", "done"}]
    BY DEF HostInv, Types
  <2>3. side' = [side EXCEPT ![n].state = "up"] /\ router' = [router EXCEPT ![n] = "run"]
    BY <1>1, <2>1
  <2>4. /\ side'[n].state = "up" /\ side'[n].inbox = side[n].inbox /\ side'[n].bulk = side[n].bulk
        /\ \A g \in Gen \ {n} : side'[g] = side[g] /\ router'[g] = router[g]
        /\ side' \in [Gen -> [state : {"none", "up", "gone"}, inbox : Seq(Frame),
                              bulk : Frame \cup {NoOwner}, vault : Vault \cup {NoVault}]]
        /\ router' \in [Gen -> {"none", "run", "copy", "done"}]
    BY <2>2, <2>3
  <2> QED
    BY <2>1, <2>4
<1>3. \A g \in Gen : Alive(g)' <=> g = started'
  BY <1>2 DEF Alive
<1>4. /\ shut' \in [Actor -> [at : {"none", "begin", "reap", "exit", "done"}, gen : 0 .. MaxGen]]
      /\ \A x \in Actor \ {c} : shut'[x] = shut[x]
      /\ shut'[c] = shut[c] \/ (shut'[c].at = "none" /\ shut'[c].gen = 0)
  <2>1. shut \in [Actor -> [at : {"none", "begin", "reap", "exit", "done"}, gen : 0 .. MaxGen]]
        /\ c \in Actor /\ 0 \in 0 .. MaxGen
    BY Names DEF HostInv, Types
  <2> QED
    BY <2>1 DEF NoShut
<1>5. Types'
  <2>1. call' \in [Caller -> Call]
    BY OneCall DEF HostInv
  <2>2. proc' \in 0 .. MaxGen /\ started' \in 0 .. MaxGen /\ holder' \in Caller \cup {NoOne}
    BY <1>1, Names
  <2> QED
    BY <1>2, <1>4, <2>1, <2>2 DEF HostInv, Types
<1>6. u.at \notin Holding /\ c # NoOne /\ call[c].at \notin Unsettled /\ call[c].at \notin Awaiting
  BY Names DEF Holding, Unsettled, Awaiting
<1>7. Locked'
  <2>1. \A d \in Caller \ {c} : shut'[d] = shut[d]
    BY <1>4, Names
  <2> QED
    BY <1>6, <2>1, LockedKept
<1>8. Generations'
  <2>1. /\ shut[c].gen <= started /\ (shut[c].at \in {"begin", "reap", "exit"} => shut[c].gen # 0)
        /\ shut[c].gen \in Nat
    BY <1>1, Names DEF HostInv, Generations, Types
  <2>2. shut'[c].gen <= started' /\ (shut'[c].at \in {"begin", "reap", "exit"} => shut'[c].gen # 0)
    BY <1>1, <1>4, <2>1
  <2>3. u.gen <= started' /\ (u.at \notin Nowhere => u.gen # 0) /\ proc' <= started'
    BY <1>1 DEF Nowhere
  <2>4. \A g \in Gen : g > started' =>
               /\ side'[g].state = side[g].state /\ bridge'[g].terminal = bridge[g].terminal
               /\ router'[g] = router[g]
    BY <1>1, <1>2
  <2> QED
    BY <1>1, <1>4, <2>2, <2>3, <2>4, GenerationsKept
<1>9. /\ out[started'] = {} /\ ~bridge[started'].terminal
      /\ side[started'].inbox = << >> /\ side[started'].bulk = NoOwner
      /\ \A x \in Actor : shut[x].gen # started'
  <2>1. started' > started /\ \A x \in Actor : shut[x].gen \in Nat
    BY <1>1, Names DEF HostInv, Types
  <2> QED
    BY <1>1, <2>1 DEF HostInv, Generations, Reaped
<1>10. Reaped'
  <2>1. ASSUME NEW x \in Actor, shut'[x].at = "done", shut'[x].gen # 0
        PROVE  ~(side'[shut'[x].gen].state = "up")
    <3>1. shut'[x] = shut[x]
      BY <1>4, <2>1
    <3>2. shut[x].gen \in Gen /\ shut[x].gen # started'
      <4>1. shut[x].gen \in 0 .. MaxGen
        BY DEF HostInv, Types
      <4> QED
        BY <1>9, <2>1, <3>1, <4>1, Names
    <3>3. PICK h \in Gen : h = shut[x].gen
      BY <3>2
    <3>4. side'[h].state # "up"
      BY <1>2, <3>2, <3>3 DEF Alive
    <3> QED
      BY <3>1, <3>3, <3>4
  <2>2. \A g \in Gen : ~Alive(g)' => side'[g].inbox = << >> /\ side'[g].bulk = NoOwner
    BY <1>2, <1>3 DEF HostInv, Reaped
  <2> QED
    BY <1>1, <1>3, <1>9, <2>1, <2>2 DEF Reaped, Alive
<1>11. Owned'
  <2>1. ASSUME NEW x \in Actor, shut'[x].at = "reap"
        PROVE  bridge[shut'[x].gen].closed /\ bridge[shut'[x].gen].owner = NoOwner
    BY <1>4, <2>1 DEF HostInv, Owned
  <2> QED
    BY <2>1 DEF Owned
<1>12. Mailed'
  <2>1. mail[c] = "none" /\ \A g \in Gen : \A f \in pending[g] : f[1] # c
    BY <1>6 DEF HostInv, Mailed
  <2> QED
    BY <2>1, MailedKept
<1>13. Flow'
  <2>1. /\ side'[started'].inbox = << >> /\ side'[started'].bulk = NoOwner /\ out'[started'] = {}
    BY <1>2, <1>9
  <2>2. ASSUME NEW g \in Gen, g = started'
        PROVE  FlowOf(g)'
    BY <2>1, <2>2 DEF FlowOf
  <2> QED
    BY <1>3, <2>2 DEF Flow
<1>14. Attempts'
  BY AttemptsKept
<1>15. Alone'
  BY AloneKept
<1>16. Passed'
  BY <1>1, PassedKept
<1> QED
  BY <1>5, <1>7, <1>8, <1>10, <1>11, <1>12, <1>13, <1>14, <1>15, <1>16 DEF HostInv

\* The call knows its process.
LEMMA EntersThere ==
    ASSUME HostInv, NEW c \in Caller, NEW g \in Gen, call[c].at \in {"ensure", "replace"},
           call' = [call EXCEPT ![c].at = "enter", ![c].gen = g]
    PROVE  \E u : /\ Becomes(c, u) /\ Sound(u) /\ u.at = "enter" /\ u.gen = g
                  /\ u.kind = call[c].kind
<1> DEFINE u == [call[c] EXCEPT !.at = "enter", !.gen = g]
<1>1. call \in [Caller -> Call] /\ call[c] \in Call /\ Sound(call[c])
  BY OfCall DEF HostInv, Types
<1>2. call' = [call EXCEPT ![c] = u]
  BY <1>1
<1>3. /\ u \in Call /\ u.at = "enter" /\ u.kind = call[c].kind /\ u.phase = call[c].phase
      /\ u.gen = g /\ u.attempt = call[c].attempt /\ u.vault = call[c].vault
      /\ u.recovery = call[c].recovery /\ u.permit = call[c].permit
      /\ u.sent = call[c].sent
  <2>1. "enter" \in Places /\ g \in 0 .. MaxGen
    BY Names DEF Places
  <2> QED
    BY <1>1, <2>1 DEF Call, Places
<1> HIDE DEF u
<1>4. Sound(u)
  BY <1>1, <1>3 DEF Sound
<1> QED
  BY <1>2, <1>3, <1>4 DEF Becomes

\* The process is there, is started, or is to be replaced.
LEMMA EnsureKeeps ==
    ASSUME HostInv, NEW c \in Caller, Ensure(c)
    PROVE  HostInv'
<1>1. /\ UNCHANGED <<active, claimed, calls, mail, bridge, pending, out, faults>>
      /\ call[c].at = "ensure" /\ holder = NoOne /\ Busy(c)
  BY DEF Ensure, Busy
<1>2. CASE Back(c) /\ UNCHANGED <<proc, holder, started, shut, side, router>>
  <2>1. /\ Becomes(c, NoCall) /\ gate' \in BOOLEAN
        /\ NoCall.at = "idle" /\ NoCall.gen = 0 /\ Sound(NoCall)
    BY <1>2, BackHome DEF HostInv
  <2> QED
    BY <1>1, <1>2, <2>1, OfHost, OfCall, Names, Moves
    DEF Holding, Nowhere, Awaiting, Unsettled
<1>3. CASE /\ proc # 0 /\ Goes(c, "replace") /\ holder' = c
           /\ shut' = [shut EXCEPT ![c] = Doing("begin", proc)]
           /\ UNCHANGED <<proc, started, gate, side, router>>
  <2>1. PICK u : Becomes(c, u) /\ u.at = "replace" /\ Alike(u, call[c])
    BY <1>3, GoesThere DEF HostInv, Places
  <2> QED
    BY <1>1, <1>3, <2>1, TakesKeeps
<1>4. CASE /\ proc # 0 /\ call' = [call EXCEPT ![c].at = "enter", ![c].gen = proc]
           /\ UNCHANGED <<holder, shut, proc, started, gate, side, router>>
  <2>1. proc \in Gen /\ proc <= started
    BY <1>4, OfCall
  <2>2. PICK u : /\ Becomes(c, u) /\ Sound(u) /\ u.at = "enter" /\ u.gen = proc
                 /\ u.kind = call[c].kind
    BY <1>1, <1>4, <2>1, EntersThere
  <2> QED
    BY <1>1, <1>4, <2>1, <2>2, OfHost, Moves DEF Holding, Nowhere, Awaiting, Unsettled
<1>5. CASE /\ proc = 0 /\ Spawn /\ UNCHANGED <<holder, shut, gate>>
           /\ call' = [call EXCEPT ![c].at = "enter", ![c].gen = proc']
  <2>1. PICK g \in Gen : g = proc'
    BY <1>5, OfCall, Names DEF Spawn, Spawns
  <2>2. PICK u : /\ Becomes(c, u) /\ Sound(u) /\ u.at = "enter" /\ u.gen = g
                 /\ u.kind = call[c].kind
    BY <1>1, <1>5, <2>1, EntersThere
  <2>3. \A h \in Gen : ~Alive(h)
    BY <1>5, OnlyCurrent, Names
  <2> QED
    BY <1>1, <1>5, <2>1, <2>2, <2>3, OfHost, StartsKeeps
<1> QED
  BY <1>2, <1>3, <1>4, <1>5 DEF Ensure

\* The dead process is down: its successor is started.
LEMMA ReplacedKeeps ==
    ASSUME HostInv, NEW c \in Caller, Replaced(c)
    PROVE  HostInv'
<1>1. /\ UNCHANGED <<active, claimed, calls, mail, bridge, pending, out, faults>>
      /\ call[c].at = "replace" /\ shut[c].at = "done" /\ holder' = NoOne
      /\ shut' = [shut EXCEPT ![c] = NoShut] /\ Busy(c) /\ call[c].at \in Holding
  BY DEF Replaced, Busy, Holding
<1>2. CASE /\ Spawn /\ UNCHANGED gate
           /\ call' = [call EXCEPT ![c].at = "enter", ![c].gen = proc']
  <2>1. PICK g \in Gen : g = proc'
    BY <1>2, OfCall, Names DEF Spawn, Spawns
  <2>2. PICK u : /\ Becomes(c, u) /\ Sound(u) /\ u.at = "enter" /\ u.gen = g
                 /\ u.kind = call[c].kind
    BY <1>1, <1>2, <2>1, EntersThere
  <2>3. holder = c /\ \A h \in Gen : ~Alive(h)
    BY <1>1, OnlyCurrent DEF HostInv, Locked
  <2> QED
    BY <1>1, <1>2, <2>1, <2>2, <2>3, OfHost, StartsKeeps
<1>3. CASE proc' = 0 /\ Back(c) /\ UNCHANGED <<started, side, router>>
  <2>1. /\ Becomes(c, NoCall) /\ gate' \in BOOLEAN
        /\ NoCall.at = "idle" /\ NoCall.gen = 0 /\ Sound(NoCall)
    BY <1>3, BackHome DEF HostInv
  <2>2. 0 <= started
    BY OfCall, Names
  <2> QED
    BY <1>1, <1>3, <2>1, <2>2, OfHost, YieldsKeeps
<1> QED
  BY <1>2, <1>3 DEF Replaced

\* The stopped process is down: nothing or a successor runs.
LEMMA ControlShutKeeps ==
    ASSUME HostInv, NEW c \in Caller, ControlShut(c)
    PROVE  HostInv'
<1>1. /\ UNCHANGED <<calls, mail, bridge, pending, out, faults>>
      /\ call[c].at = "controlShut" /\ shut[c].at = "done" /\ holder' = NoOne
      /\ shut' = [shut EXCEPT ![c] = NoShut] /\ Busy(c) /\ call[c].at \in Holding
  BY DEF ControlShut, Busy, Holding
<1>2. 0 <= started /\ call[c].gen <= started
  BY OfCall, Names
<1>3. CASE Back(c)
  <2>1. /\ Becomes(c, NoCall) /\ gate' \in BOOLEAN
        /\ NoCall.at = "idle" /\ NoCall.gen = 0 /\ Sound(NoCall)
    BY <1>3, BackHome DEF HostInv
  <2>2. CASE Spawn /\ active' = [vault |-> NoVault, gen |-> 0] /\ claimed' = FALSE
    <3>1. holder = c /\ \A h \in Gen : ~Alive(h)
      BY <1>1, OnlyCurrent DEF HostInv, Locked
    <3>2. active' \in [vault : Vault \cup {NoVault}, gen : 0 .. MaxGen] /\ claimed' \in BOOLEAN
      BY <2>2, Names
    <3> QED
      BY <1>1, <2>1, <2>2, <3>1, <3>2, StartsKeeps
  <2>3. CASE proc' = 0 /\ UNCHANGED <<active, claimed, started, side, router>>
    BY <1>1, <1>2, <2>1, <2>3, OfHost, YieldsKeeps
  <2>4. CASE call[c].kind = "close" /\ Goes(c, "closed")
    <3>1. call'[c].at = "idle"
      BY <2>1, OneCall DEF HostInv
    <3>2. PICK u : Becomes(c, u) /\ u.at = "closed" /\ Alike(u, call[c])
      BY <2>4, GoesThere DEF HostInv, Places
    <3> QED
      BY <3>1, <3>2, OneCall DEF HostInv
  <2> QED
    BY <2>2, <2>3, <2>4 DEF ControlShut
<1>4. CASE /\ call[c].kind = "close" /\ proc' = 0 /\ Goes(c, "closed")
           /\ UNCHANGED <<active, claimed, gate, started, side, router>>
  <2>1. PICK u : Becomes(c, u) /\ u.at = "closed" /\ Alike(u, call[c])
    BY <1>4, GoesThere DEF HostInv, Places
  <2>2. Sound(u)
    BY <1>1, <1>4, <2>1, OfCall DEF Sound, Alike
  <2>3. u.kind = call[c].kind /\ u.gen = call[c].gen
    BY <2>1 DEF Alike
  <2> QED
    BY <1>1, <1>2, <1>4, <2>1, <2>2, <2>3, OfHost, YieldsKeeps
<1> QED
  BY <1>3, <1>4 DEF ControlShut

\* A thread answers nothing of its own accord: what it goes on with, it was not
\* expected for.
LEMMA ReceiveKeeps ==
    ASSUME HostInv, NEW c \in Caller, Receive(c)
    PROVE  HostInv'
<1>1. /\ UNCHANGED <<proc, holder, started, active, claimed, gate, calls, shut, bridge, pending,
                     side, out, router, faults>>
      /\ call[c].at = "waiting" /\ mail[c] # "none" /\ mail' = [mail EXCEPT ![c] = "none"]
      /\ Busy(c)
  BY DEF Receive, host, procs, Busy
<1>2. /\ call \in [Caller -> Call] /\ call[c] \in Call /\ Sound(call[c])
      /\ call[c].gen <= started /\ call[c].gen # 0
      /\ mail \in [Caller -> {"none", "ok", "no", "interrupted"}]
      /\ shut \in [Actor -> [at : {"none", "begin", "reap", "exit", "done"}, gen : 0 .. MaxGen]]
      /\ bridge \in [Gen -> Bridge] /\ pending \in [Gen -> SUBSET Frame]
  <2>1. /\ call[c] \in Call /\ Sound(call[c])
        /\ call[c].gen <= started /\ call[c].gen \in Gen /\ call[c].gen # 0
    BY <1>1, OfCall, Names DEF Nowhere
  <2> QED
    BY <2>1 DEF HostInv, Types
<1>3. PICK w \in Places, p \in {"main", "reopen"}, b \in BOOLEAN :
         /\ call' = [call EXCEPT ![c].ok = b, ![c].phase = p, ![c].at = w]
         /\ mail[c] = "interrupted" => w = "drain" /\ p = call[c].phase
         /\ mail[c] # "interrupted" /\ call[c].phase = "reopen" =>
               \/ w = "admit" /\ p = "main"
               \/ w = "abandon" /\ p = "reopen"
         /\ mail[c] # "interrupted" /\ call[c].phase = "main" =>
               w \in {"release", "accept"} /\ p = "main"
  <2>1. call[c].phase \in {"main", "reopen"}
    BY <1>2 DEF Call
  <2> DEFINE b == mail[c] = "ok"
             p == IF mail[c] = "ok" THEN "main" ELSE call[c].phase
             w == CASE mail[c] = "interrupted" -> "drain"
                    [] mail[c] = "ok" /\ call[c].phase = "reopen" -> "admit"
                    [] mail[c] = "no" /\ call[c].phase = "reopen" -> "abandon"
                    [] OTHER -> IF call[c].kind = "bulk" THEN "release" ELSE "accept"
  <2>2. call' = [call EXCEPT ![c].ok = b, ![c].phase = p, ![c].at = w]
    BY <1>2 DEF Receive
  <2>3. b \in BOOLEAN /\ p \in {"main", "reopen"}
    BY <2>1
  <2>4. /\ mail[c] = "interrupted" => w = "drain" /\ p = call[c].phase
        /\ mail[c] # "interrupted" /\ call[c].phase = "reopen" =>
              \/ w = "admit" /\ p = "main"
              \/ w = "abandon" /\ p = "reopen"
        /\ mail[c] # "interrupted" /\ call[c].phase = "main" =>
              w \in {"release", "accept"} /\ p = "main"
    <3>1. CASE mail[c] = "interrupted"
      BY <3>1
    <3>2. CASE mail[c] = "ok" /\ call[c].phase = "reopen"
      BY <3>2
    <3>3. CASE mail[c] = "no" /\ call[c].phase = "reopen"
      BY <3>3
    <3>4. CASE mail[c] # "interrupted" /\ call[c].phase = "main"
      BY <3>4
    <3>5. mail[c] \in {"ok", "no", "interrupted"}
      BY <1>1, <1>2
    <3> QED
      BY <2>1, <3>1, <3>2, <3>3, <3>4, <3>5
  <2>5. w \in Places
    BY <2>1, <2>4 DEF Places
  <2> HIDE DEF b, p, w
  <2> QED
    BY <2>2, <2>3, <2>4, <2>5
<1> DEFINE u == [call[c] EXCEPT !.ok = b, !.phase = p, !.at = w]
<1>4. call' = [call EXCEPT ![c] = u]
  BY <1>2, <1>3
<1>5. /\ u \in Call /\ u.at = w /\ u.kind = call[c].kind /\ u.phase = p
      /\ u.gen = call[c].gen /\ u.attempt = call[c].attempt /\ u.vault = call[c].vault
      /\ u.recovery = call[c].recovery /\ u.permit = call[c].permit
      /\ u.sent = call[c].sent
  BY <1>2 DEF Call, Places
<1> HIDE DEF u
<1>6. call[c].phase \in {"main", "reopen"} /\ w \in {"drain", "admit", "abandon", "release", "accept"}
  BY <1>2, <1>3 DEF Call
<1>7. Sound(u)
  BY <1>1, <1>2, <1>3, <1>5, <1>6 DEF Sound
<1>8. /\ mail' \in [Caller -> {"none", "ok", "no", "interrupted"}] /\ mail'[c] = "none"
      /\ \A d \in Caller \ {c} : mail'[d] = mail[d]
      /\ mail[c] \notin {"ok", "no"} => mail[c] = "interrupted"
  BY <1>1, <1>2
<1>9. \A g \in Gen : \A f \in pending[g] : f[1] # c
  BY <1>1 DEF HostInv, Mailed
<1>10. holder # c /\ \A g \in Gen : Alive(g) => g = proc
  BY <1>1, OnlyCurrent DEF HostInv, Locked, Holding
<1>11. /\ u.at \notin Holding /\ u.at \notin {"idle", "closed", "clear"}
       /\ mail[c] \notin {"ok", "no"} => u.at \in Unsettled
  BY <1>3, <1>5, <1>6, <1>8 DEF Holding, Unsettled, Awaiting
<1>12. /\ Becomes(c, u) /\ u.gen <= started /\ u.gen # 0 /\ (u.at \in Holding <=> holder' = c)
       /\ mail[c] \notin {"ok", "no"} => u.phase = call[c].phase
  BY <1>1, <1>2, <1>3, <1>4, <1>5, <1>8, <1>10, <1>11 DEF Becomes
<1>13. UNCHANGED <<proc, holder, started, active, claimed, gate, calls, shut, bridge, pending,
                   side, out, router, faults>> /\ Busy(c) /\ mail'[c] = "none"
  BY <1>1, <1>8
<1>14. /\ shut \in [Actor -> [at : {"none", "begin", "reap", "exit", "done"}, gen : 0 .. MaxGen]]
       /\ bridge \in [Gen -> Bridge] /\ pending \in [Gen -> SUBSET Frame]
       /\ u.kind = call[c].kind /\ u.gen = call[c].gen
  BY <1>2, <1>5
<1> QED
  BY <1>7, <1>8, <1>9, <1>10, <1>11, <1>12, <1>13, <1>14, OfHost, Steps

\* The upload of the generation drains: input is closed, and nothing else changes.
LEMMA DrainingOnly ==
    ASSUME HostInv, NEW g \in Gen, Draining(g)
    PROVE  /\ bridge' \in [Gen -> Bridge]
           /\ \A h \in Gen : /\ bridge'[h].terminal = bridge[h].terminal
                             /\ bridge'[h].owner = bridge[h].owner
                             /\ bridge[h].closed => bridge'[h].closed
                             /\ bridge'[h].reaper = bridge[h].reaper
<1>1. bridge \in [Gen -> Bridge]
  BY DEF HostInv, Types
<1> QED
  BY <1>1 DEF Draining, Bridge

\* The request has failed.
LEMMA ForgottenThere ==
    ASSUME HostInv, NEW c \in Caller, Forgotten(c), call[c].at \in {"drain", "exited"}
    PROVE  /\ \E u : /\ Becomes(c, u) /\ Sound(u) /\ u.at \in {"fail", "abandon"}
                     /\ Alike(u, call[c])
           /\ mail' \in [Caller -> {"none", "ok", "no", "interrupted"}] /\ mail'[c] = "none"
           /\ \A d \in Caller \ {c} : mail'[d] = mail[d]
           /\ pending' \in [Gen -> SUBSET Frame]
           /\ \A g \in Gen : pending'[g] \subseteq pending[g]
           /\ \A g \in Gen : \A f \in pending'[g] : f[1] # c
<1>1. /\ mail \in [Caller -> {"none", "ok", "no", "interrupted"}]
      /\ pending \in [Gen -> SUBSET Frame] /\ Sound(call[c])
  BY OfCall DEF HostInv, Types
<1>2. PICK place \in {"fail", "abandon"} : Goes(c, place)
  BY DEF Forgotten
<1>3. PICK u : Becomes(c, u) /\ u.at = place /\ Alike(u, call[c])
  BY <1>2, GoesThere DEF HostInv, Places
<1>4. Sound(u)
  BY <1>1, <1>2, <1>3 DEF Sound, Alike
<1>5. /\ mail' \in [Caller -> {"none", "ok", "no", "interrupted"}] /\ mail'[c] = "none"
      /\ \A d \in Caller \ {c} : mail'[d] = mail[d]
  BY <1>1 DEF Forgotten
<1>6. PICK h : /\ h = call[c].gen /\ pending' = [pending EXCEPT ![h] = @ \ {FrameOf(c)}]
  BY DEF Forgotten
<1>7. pending' \in [Gen -> SUBSET Frame] /\ \A g \in Gen : pending'[g] \subseteq pending[g]
  BY <1>1, <1>6
<1>8. ASSUME NEW g \in Gen, NEW f \in pending'[g], f[1] = c
      PROVE  FALSE
  <2>1. f \in pending[g] /\ f \in Frame
    BY <1>1, <1>7
  <2>2. call[c].gen = g /\ call[c].phase = f[2]
    BY <1>8, <2>1 DEF HostInv, Mailed
  <2>3. f = FrameOf(c)
    BY <1>8, <2>1, <2>2 DEF FrameOf, Frame
  <2> QED
    BY <1>1, <1>6, <2>2, <2>3
<1> QED
  BY <1>2, <1>3, <1>4, <1>5, <1>7, <1>8

\* A failed call drains the upload of its generation.
LEMMA DrainKeeps ==
    ASSUME HostInv, NEW c \in Caller, Drain(c)
    PROVE  HostInv'
<1>1. /\ UNCHANGED <<proc, holder, started, active, claimed, gate, calls, side, out, router, faults>>
      /\ call[c].at = "drain" /\ Busy(c)
  BY DEF Drain, host, Busy
<1>2. /\ Sound(call[c]) /\ call[c].gen <= started /\ call[c].gen \in Gen /\ call[c].gen # 0
      /\ mail \in [Caller -> {"none", "ok", "no", "interrupted"}]
      /\ shut \in [Actor -> [at : {"none", "begin", "reap", "exit", "done"}, gen : 0 .. MaxGen]]
      /\ bridge \in [Gen -> Bridge] /\ pending \in [Gen -> SUBSET Frame]
  <2>1. /\ call[c] \in Call /\ Sound(call[c])
        /\ call[c].gen <= started /\ call[c].gen \in Gen /\ call[c].gen # 0
    BY <1>1, OfCall, Names DEF Nowhere
  <2> QED
    BY <2>1 DEF HostInv, Types
<1>3. holder # c /\ \A g \in Gen : Alive(g) => g = proc
  BY <1>1, OnlyCurrent DEF HostInv, Locked, Holding
<1>4. CASE bridge[call[c].gen].owner # NoOwner
  <2>1. PICK g \in Gen : g = call[c].gen
    BY <1>2
  <2>2. /\ Draining(g) /\ shut' = [shut EXCEPT ![c] = Doing("exit", g)]
        /\ Goes(c, "exited") /\ UNCHANGED <<mail, pending>>
    BY <1>4, <2>1 DEF Drain
  <2>3. PICK u : Becomes(c, u) /\ u.at = "exited" /\ Alike(u, call[c])
    BY <2>2, GoesThere DEF HostInv, Places
  <2>4. Sound(u)
    BY <1>1, <1>2, <2>3 DEF Sound, Alike
  <2>5. /\ bridge' \in [Gen -> Bridge]
        /\ \A h \in Gen : /\ bridge'[h].terminal = bridge[h].terminal
                          /\ bridge'[h].owner = bridge[h].owner
                          /\ bridge[h].closed => bridge'[h].closed
    BY <2>2, DrainingOnly
  <2>6. /\ shut' \in [Actor -> [at : {"none", "begin", "reap", "exit", "done"}, gen : 0 .. MaxGen]]
        /\ \A x \in Actor \ {c} : shut'[x] = shut[x]
        /\ shut'[c].at = "exit" /\ shut'[c].gen = g /\ g # 0
    BY <1>2, <2>1, <2>2, Names DEF Doing
  <2>7. \A h \in Gen : \A f \in pending[h] : f[1] = c => mail[c] = "none"
    BY DEF HostInv, Mailed
  <2>8. /\ u.at \in Awaiting /\ u.at \in Unsettled /\ u.at \notin Holding
        /\ u.at \notin {"idle", "closed", "clear"}
        /\ u.gen = call[c].gen /\ u.phase = call[c].phase /\ u.kind = call[c].kind
    BY <2>3 DEF Awaiting, Unsettled, Holding, Alike
  <2> QED
    BY <1>1, <1>2, <1>3, <2>1, <2>2, <2>3, <2>4, <2>5, <2>6, <2>7, <2>8, OfHost, Steps
<1>5. CASE bridge[call[c].gen].owner = NoOwner
  <2>1. Forgotten(c) /\ UNCHANGED <<bridge, shut>>
    BY <1>5 DEF Drain
  <2>2. PICK u : /\ Becomes(c, u) /\ Sound(u) /\ u.at \in {"fail", "abandon"}
                 /\ Alike(u, call[c])
    BY <1>1, <2>1, ForgottenThere
  <2>3. /\ mail' \in [Caller -> {"none", "ok", "no", "interrupted"}] /\ mail'[c] = "none"
        /\ \A d \in Caller \ {c} : mail'[d] = mail[d]
        /\ pending' \in [Gen -> SUBSET Frame]
        /\ \A g \in Gen : pending'[g] \subseteq pending[g]
        /\ \A g \in Gen : \A f \in pending'[g] : f[1] # c
    BY <1>1, <2>1, ForgottenThere
  <2>4. /\ u.at \in Unsettled /\ u.at \notin Holding /\ u.at \notin {"idle", "closed", "clear"}
        /\ u.gen = call[c].gen /\ u.phase = call[c].phase /\ u.kind = call[c].kind
    BY <2>2 DEF Awaiting, Unsettled, Holding, Alike
  <2> QED
    BY <1>1, <1>2, <1>3, <2>1, <2>2, <2>3, <2>4, OfHost, Steps
<1> QED
  BY <1>4, <1>5

\* The drained process is waited for, until it has left.
LEMMA ExitedKeeps ==
    ASSUME HostInv, NEW c \in Caller, Exited(c)
    PROVE  HostInv'
<1>1. /\ UNCHANGED <<proc, holder, started, active, claimed, gate, calls, bridge, side, out, router,
                     faults>>
      /\ call[c].at = "exited" /\ Busy(c) /\ Forgotten(c) /\ shut' = [shut EXCEPT ![c] = NoShut]
  BY DEF Exited, host, Busy
<1>2. /\ call[c].gen <= started /\ call[c].gen # 0 /\ bridge \in [Gen -> Bridge]
      /\ shut \in [Actor -> [at : {"none", "begin", "reap", "exit", "done"}, gen : 0 .. MaxGen]]
  <2>1. /\ call[c] \in Call /\ Sound(call[c])
        /\ call[c].gen <= started /\ call[c].gen \in Gen /\ call[c].gen # 0
    BY <1>1, OfCall, Names DEF Nowhere
  <2> QED
    BY <2>1 DEF HostInv, Types
<1>3. holder # c /\ \A g \in Gen : Alive(g) => g = proc
  BY <1>1, OnlyCurrent DEF HostInv, Locked, Holding
<1>4. PICK u : /\ Becomes(c, u) /\ Sound(u) /\ u.at \in {"fail", "abandon"}
               /\ Alike(u, call[c])
  BY <1>1, ForgottenThere
<1>5. /\ mail' \in [Caller -> {"none", "ok", "no", "interrupted"}] /\ mail'[c] = "none"
      /\ \A d \in Caller \ {c} : mail'[d] = mail[d]
      /\ pending' \in [Gen -> SUBSET Frame]
      /\ \A g \in Gen : pending'[g] \subseteq pending[g]
      /\ \A g \in Gen : \A f \in pending'[g] : f[1] # c
  BY <1>1, ForgottenThere
<1>6. /\ u.at \in Unsettled /\ u.at \notin Holding /\ u.at \notin {"idle", "closed", "clear"}
      /\ u.gen = call[c].gen /\ u.phase = call[c].phase /\ u.kind = call[c].kind
  BY <1>4 DEF Awaiting, Unsettled, Holding, Alike
<1>7. /\ shut' \in [Actor -> [at : {"none", "begin", "reap", "exit", "done"}, gen : 0 .. MaxGen]]
      /\ \A x \in Actor \ {c} : shut'[x] = shut[x]
      /\ shut'[c].at = "none" /\ shut'[c].gen = 0
  BY <1>1, <1>2, Names DEF NoShut
<1> QED
  BY <1>1, <1>2, <1>3, <1>4, <1>5, <1>6, <1>7, OfHost, Steps

\* A running process has nothing of a thread that does not wait for it.
LEMMA NotExpected ==
    ASSUME HostInv, NEW g \in Gen, Alive(g), NEW c \in Caller,
           call[c].at \notin Unsettled \/ call[c].gen # g \/ mail[c] \in {"ok", "no"}
    PROVE  /\ \A k \in 1 .. Len(side[g].inbox) : side[g].inbox[k][1] # c
           /\ side[g].bulk # NoOwner => side[g].bulk[1] # c
           /\ \A reply \in out[g] : reply[1][1] # c
  BY DEF HostInv, Flow, FlowOf, Expects

\* The stop of an upload closes the input of its process.
LEMMA StopTicketKeeps ==
    ASSUME HostInv, NEW c \in Caller, StopTicket(c)
    PROVE  HostInv'
<1> DEFINE u == [call[c] EXCEPT !.stopped = TRUE]
<1>1. /\ UNCHANGED <<proc, holder, started, active, claimed, gate, calls, mail, shut, pending, side,
                     out, router, faults>>
      /\ Busy(c) /\ call[c].kind = "bulk"
      /\ call' = [call EXCEPT ![c].stopped = TRUE]
  BY DEF StopTicket, host
<1>2. /\ call \in [Caller -> Call] /\ call[c] \in Call /\ Sound(call[c])
      /\ call[c].gen <= started /\ call[c].gen \in 0 .. MaxGen
      /\ call[c].at \notin Nowhere => call[c].gen # 0
  BY OfCall, Names DEF HostInv, Types
<1>3. call' = [call EXCEPT ![c] = u]
  BY <1>1, <1>2
<1>4. /\ u \in Call /\ u.at = call[c].at /\ Alike(u, call[c])
  BY <1>2 DEF Call, Alike
<1> HIDE DEF u
<1>5. Sound(u) /\ u.at # "closed" /\ u.at # "idle" /\ (u.at = "clear" => u.gen # proc)
  BY <1>1, <1>2, <1>4 DEF Sound, Alike, HostInv, Passed, Busy
<1>6. /\ bridge' \in [Gen -> Bridge]
      /\ \A h \in Gen : /\ bridge'[h].terminal = bridge[h].terminal
                        /\ bridge'[h].owner = bridge[h].owner
                        /\ bridge[h].closed => bridge'[h].closed
  <2>1. CASE UNCHANGED bridge
    BY <2>1 DEF HostInv, Types
  <2>2. CASE call[c].gen # 0 /\ Draining(call[c].gen)
    <3>1. PICK g \in Gen : g = call[c].gen
      BY <1>2, <2>2, Names
    <3> QED
      BY <2>2, <3>1, DrainingOnly
  <2> QED
    BY <2>1, <2>2 DEF StopTicket
<1>7. /\ shut \in [Actor -> [at : {"none", "begin", "reap", "exit", "done"}, gen : 0 .. MaxGen]]
      /\ mail \in [Caller -> {"none", "ok", "no", "interrupted"}]
      /\ pending \in [Gen -> SUBSET Frame]
  BY DEF HostInv, Types
<1>8. /\ mail[c] # "none" => call[c].at \in Awaiting
      /\ \A g \in Gen : \A f \in pending[g] : f[1] = c => mail[c] = "none" /\ call[c].at \in Awaiting
      /\ call[c].at \in Holding <=> holder = c
      /\ call[c].at \in Holding => shut[c].gen = proc
  BY DEF HostInv, Mailed, Locked
<1>9. /\ u.gen = call[c].gen /\ u.phase = call[c].phase /\ u.kind = call[c].kind /\ Becomes(c, u)
  BY <1>3, <1>4 DEF Alike, Becomes
<1>10. \A g \in Gen : Alive(g) => g = proc
  BY OnlyCurrent
<1>11. u.gen <= started /\ (u.at \notin Nowhere => u.gen # 0)
  BY <1>2, <1>4, <1>9
<1> QED
  BY <1>1, <1>4, <1>5, <1>6, <1>7, <1>8, <1>9, <1>10, <1>11, OfHost, Steps

\* A call begins.
LEMMA ArriveKeeps ==
    ASSUME HostInv, NEW c \in Caller, Arrive(c)
    PROVE  HostInv'
<1>1. /\ UNCHANGED <<proc, holder, started, active, claimed, gate, mail, shut, bridge, pending,
                     side, out, router, faults>>
      /\ calls' = [calls EXCEPT ![c] = @ + 1] /\ ~Busy(c) /\ calls[c] < Len(Calls[c])
  BY DEF Arrive, host, procs
<1>2. PICK kind \in Calls[c][calls[c] + 1], v \in Vault :
         /\ MayEnter(c, kind)
         /\ call' = [call EXCEPT ![c] = [NoCall EXCEPT
                !.at = IF kind \in {"restart", "stop", "close"} THEN "control" ELSE "ensure",
                !.kind = kind,
                !.vault = IF kind = "open" THEN v ELSE NoVault,
                !.recovery = IF Replayable(kind) THEN active.vault ELSE NoVault]]
  BY DEF Arrive
<1>3. kind \in Kind
  <2>1. /\ Calls[c] \in Seq(SUBSET Kind) /\ calls[c] \in Nat
    BY HostAssumption DEF HostInv, Types
  <2>2. calls[c] + 1 \in 1 .. Len(Calls[c])
    BY <1>1, <2>1
  <2> QED
    BY <2>1, <2>2
<1>4. PICK w \in {"ensure", "control"}, o \in Vault \cup {NoVault}, r \in Vault \cup {NoVault} :
         /\ w = "control" <=> kind \in {"restart", "stop", "close"}
         /\ kind = "open" => o \in Vault
         /\ call' = [call EXCEPT ![c] = [NoCall EXCEPT !.at = w, !.kind = kind, !.vault = o,
                                                       !.recovery = r]]
  <2>1. active.vault \in Vault \cup {NoVault}
    BY OfHost
  <2> DEFINE w == IF kind \in {"restart", "stop", "close"} THEN "control" ELSE "ensure"
             o == IF kind = "open" THEN v ELSE NoVault
             r == IF Replayable(kind) THEN active.vault ELSE NoVault
  <2>2. /\ w \in {"ensure", "control"} /\ o \in Vault \cup {NoVault} /\ r \in Vault \cup {NoVault}
        /\ w = "control" <=> kind \in {"restart", "stop", "close"}
        /\ kind = "open" => o \in Vault
    BY <2>1
  <2> QED
    BY <1>2, <2>2
<1> DEFINE u == [NoCall EXCEPT !.at = w, !.kind = kind, !.vault = o, !.recovery = r]
<1>5. /\ u \in Call /\ u.at = w /\ u.kind = kind /\ u.gen = 0 /\ u.sent = 0 /\ u.attempt = 0
      /\ u.permit = FALSE /\ u.vault = o /\ u.phase = "main"
  <2>1. NoCall \in Call /\ w \in Places
    BY Names DEF Places
  <2>2. /\ u.at = w /\ u.kind = kind /\ u.gen = 0 /\ u.sent = 0 /\ u.attempt = 0
        /\ u.permit = FALSE /\ u.vault = o /\ u.phase = "main"
    BY DEF NoCall
  <2> QED
    BY <1>3, <2>1, <2>2 DEF Call, Places
<1>6. Becomes(c, u)
  BY <1>4, <1>5 DEF Becomes
<1> HIDE DEF u
<1>7. Sound(u)
  BY <1>4, <1>5 DEF Sound
<1>8. call[c].at = "idle" /\ u.at \notin Holding /\ u.at \in Nowhere /\ holder # c
  BY <1>1, <1>4, <1>5 DEF Busy, Holding, Nowhere, HostInv, Locked
<1>9. call'[c] = u /\ \A d \in Caller \ {c} : call'[d] = call[d]
  BY <1>6, OneCall DEF HostInv
<1>10. Types'
  <2>1. call' \in [Caller -> Call]
    BY <1>6, OneCall DEF HostInv
  <2>2. calls' \in [Caller -> Nat]
    BY <1>1 DEF HostInv, Types
  <2> QED
    BY <1>1, <2>1, <2>2 DEF HostInv, Types
<1>11. Locked'
  BY <1>1, <1>6, <1>8, LockedKept
<1>12. Generations'
  <2>1. /\ shut[c].gen <= started /\ (shut[c].at \in {"begin", "reap", "exit"} => shut[c].gen # 0)
    BY Names DEF HostInv, Generations
  <2>2. u.gen <= started /\ proc <= started
    BY <1>5, OfCall, Names
  <2> QED
    BY <1>1, <1>6, <1>8, <2>1, <2>2, GenerationsKept
<1>13. Reaped' /\ Owned'
  BY <1>1 DEF HostInv, Reaped, Alive, Owned
<1>14. Mailed'
  <2>1. mail[c] = "none" /\ \A g \in Gen : \A f \in pending[g] : f[1] # c
    BY <1>8 DEF HostInv, Mailed, Awaiting
  <2> QED
    BY <1>1, <1>6, <2>1, MailedKept
<1>15. Flow'
  <2>1. call[c].at \notin Unsettled /\ \A g \in Gen : Alive(g)' <=> Alive(g)
    BY <1>1, <1>8 DEF Unsettled, Awaiting, Alive
  <2> QED
    BY <1>1, <1>6, <2>1, CallFlow
<1>16. Attempts'
  BY <1>6, <1>7, AttemptsKept
<1>17. Alone'
  <2>1. \A d \in Caller : ~(Busy(d) /\ call[d].kind = "close")
    BY <1>2 DEF MayEnter, Closing
  <2>2. \A d \in Caller : call[d].at # "closed"
    BY <2>1 DEF HostInv, Attempts, Sound, Busy
  <2>3. kind = "close" => \A d \in Caller : ~Busy(d)
    BY <1>2 DEF MayEnter
  <2>4. u.at # "closed"
    BY <1>4, <1>5
  <2> QED
    BY <1>5, <1>9, <2>1, <2>2, <2>3, <2>4 DEF Alone, Busy
<1>18. Passed'
  BY <1>1, <1>6, <1>4, <1>5, PassedKept
<1> QED
  BY <1>10, <1>11, <1>12, <1>13, <1>14, <1>15, <1>16, <1>17, <1>18 DEF HostInv

\* An upload that was answered is over: its process may be asked for anything again.
LEMMA ReleaseKeeps ==
    ASSUME HostInv, NEW c \in Caller, Release(c)
    PROVE  HostInv'
<1>1. /\ UNCHANGED <<proc, holder, started, active, claimed, gate, calls, mail, pending, side, out,
                     router, faults>>
      /\ call[c].at = "release" /\ Busy(c)
  BY DEF Release, host, Busy
<1>2. /\ Sound(call[c]) /\ call[c].gen <= started /\ call[c].gen \in Gen /\ call[c].gen # 0
      /\ mail \in [Caller -> {"none", "ok", "no", "interrupted"}]
      /\ shut \in [Actor -> [at : {"none", "begin", "reap", "exit", "done"}, gen : 0 .. MaxGen]]
      /\ bridge \in [Gen -> Bridge] /\ pending \in [Gen -> SUBSET Frame]
  <2>1. /\ Sound(call[c]) /\ call[c].gen <= started /\ call[c].gen \in Gen /\ call[c].gen # 0
    BY <1>1, OfCall, Names DEF Nowhere
  <2> QED
    BY <2>1 DEF HostInv, Types
<1>3. holder # c /\ \A g \in Gen : Alive(g) => g = proc
  BY <1>1, OnlyCurrent DEF HostInv, Locked, Holding
<1>4. mail[c] = "none" /\ \A g \in Gen : \A f \in pending[g] : f[1] # c
  BY <1>1 DEF HostInv, Mailed, Awaiting
<1>5. call[c].at \notin Unsettled /\ call[c].at \notin Awaiting /\ call[c].at \notin Holding
  BY <1>1 DEF Unsettled, Awaiting, Holding
<1>6. PICK g \in Gen : g = call[c].gen
  BY <1>2
<1>7. CASE /\ shut' = [shut EXCEPT ![c] = Doing("exit", g)]
           /\ Goes(c, "exited") /\ UNCHANGED bridge
  <2>1. PICK u : Becomes(c, u) /\ u.at = "exited" /\ Alike(u, call[c])
    BY <1>7, GoesThere DEF HostInv, Places
  <2>2. Sound(u)
    BY <1>1, <1>2, <2>1 DEF Sound, Alike
  <2>3. /\ shut' \in [Actor -> [at : {"none", "begin", "reap", "exit", "done"}, gen : 0 .. MaxGen]]
        /\ \A x \in Actor \ {c} : shut'[x] = shut[x]
        /\ shut'[c].at = "exit" /\ shut'[c].gen = g /\ g # 0
    BY <1>2, <1>6, <1>7, Names DEF Doing
  <2>4. /\ u.at \notin Holding /\ u.at \notin {"idle", "closed", "clear"}
        /\ u.gen = call[c].gen /\ u.phase = call[c].phase /\ u.kind = call[c].kind
    BY <2>1 DEF Holding, Alike
  <2> QED
    BY <1>1, <1>2, <1>3, <1>4, <1>5, <1>6, <1>7, <2>1, <2>2, <2>3, <2>4, OfHost, Steps
<1>8. CASE Goes(c, "accept") /\ UNCHANGED <<shut, bridge>>
  <2>1. PICK u : Becomes(c, u) /\ u.at = "accept" /\ Alike(u, call[c])
    BY <1>8, GoesThere DEF HostInv, Places
  <2>2. Sound(u)
    BY <1>1, <1>2, <2>1 DEF Sound, Alike
  <2>3. /\ u.at \notin Holding /\ u.at \notin {"idle", "closed", "clear"}
        /\ u.gen = call[c].gen /\ u.phase = call[c].phase /\ u.kind = call[c].kind
    BY <2>1 DEF Holding, Alike
  <2> QED
    BY <1>1, <1>2, <1>5, <1>8, <2>1, <2>2, <2>3, OfHost, Moves
<1>9. CASE /\ Goes(c, "accept") /\ UNCHANGED shut
           /\ bridge[g].owner = FrameOf(c) /\ ~bridge[g].closed
           /\ bridge' = [bridge EXCEPT ![g].owner = NoOwner]
  <2>1. PICK u : Becomes(c, u) /\ u.at = "accept" /\ Alike(u, call[c])
    BY <1>9, GoesThere DEF HostInv, Places
  <2>2. Sound(u)
    BY <1>1, <1>2, <2>1 DEF Sound, Alike
  <2>3. /\ u.at \notin Holding /\ u.at \notin {"idle", "closed", "clear"} /\ u.at \notin Nowhere
        /\ u.gen = call[c].gen /\ u.phase = call[c].phase /\ u.kind = call[c].kind
    BY <2>1 DEF Holding, Alike, Nowhere
  <2>4. /\ bridge' \in [Gen -> Bridge] /\ bridge'[g].owner = NoOwner
        /\ \A h \in Gen : bridge'[h].terminal = bridge[h].terminal /\ bridge'[h].closed = bridge[h].closed
        /\ \A h \in Gen \ {g} : bridge'[h] = bridge[h]
    BY <1>2, <1>9 DEF Bridge, NoOwner
  <2>5. call'[c] = u /\ \A d \in Caller \ {c} : call'[d] = call[d]
    BY <2>1, OneCall DEF HostInv
  <2>6. Types'
    <3>1. call' \in [Caller -> Call]
      BY <2>1, OneCall DEF HostInv
    <3> QED
      BY <1>1, <1>9, <2>4, <3>1 DEF HostInv, Types
  <2>7. Locked'
    BY <1>1, <1>3, <1>9, <2>1, <2>3, LockedKept
  <2>8. Generations'
    <3>1. /\ shut[c].gen <= started /\ (shut[c].at \in {"begin", "reap", "exit"} => shut[c].gen # 0)
      BY Names DEF HostInv, Generations
    <3>2. u.gen <= started /\ proc <= started /\ u.gen # 0
      BY <1>2, <2>3, OfCall
    <3> QED
      BY <1>1, <1>9, <2>1, <2>4, <3>1, <3>2, GenerationsKept
  <2>9. Reaped'
    BY <1>1, <1>9, <2>4 DEF HostInv, Reaped, Alive
  <2>10. Owned'
    <3>1. ASSUME NEW x \in Actor, shut[x].at = "reap"
          PROVE  bridge'[shut[x].gen].closed /\ bridge'[shut[x].gen].owner = NoOwner
      <4>1. PICK h \in Gen : h = shut[x].gen
        <5>1. shut[x].gen \in 0 .. MaxGen /\ shut[x].gen # 0
          BY <1>2, <3>1 DEF HostInv, Generations
        <5> QED
          BY <5>1, Names
      <4>2. bridge[h].closed /\ bridge[h].owner = NoOwner
        BY <3>1, <4>1 DEF HostInv, Owned
      <4> QED
        BY <1>9, <2>4, <4>1, <4>2
    <3> QED
      BY <1>9, <3>1 DEF Owned
  <2>11. Mailed'
    BY <1>1, <1>4, <2>1, MailedKept
  <2>12. Flow'
    <3> SUFFICES ASSUME NEW h \in Gen, Alive(h)'
                 PROVE  FlowOf(h)'
      BY DEF Flow
    <3>1. Alive(h) /\ side' = side /\ out' = out /\ mail' = mail
      BY <1>1 DEF Alive
    <3>2. FlowOf(h)
      BY <3>1 DEF HostInv, Flow
    <3>3. /\ \A k \in 1 .. Len(side[h].inbox) : side[h].inbox[k][1] # c /\ side[h].inbox[k][1] \in Caller
          /\ side[h].bulk # NoOwner => side[h].bulk[1] # c /\ side[h].bulk[1] \in Caller
          /\ \A reply \in out[h] : reply[1][1] # c /\ reply[1][1] \in Caller
      BY <1>5, <3>1, NotExpected, Frames, Names DEF HostInv
    <3>4. /\ h = g => bridge[h].owner = FrameOf(c) /\ FrameOf(c)[1] = c
          /\ h # g => bridge'[h].owner = bridge[h].owner
      BY <1>9, <2>4 DEF FrameOf
    <3>5. /\ \A k \in 1 .. Len(side[h].inbox) :
                /\ Expects(h, side[h].inbox[k])' /\ KindOf(side[h].inbox[k])' = KindOf(side[h].inbox[k])
                /\ KindOf(side[h].inbox[k]) = "bulk" => bridge'[h].owner = side[h].inbox[k]
          /\ side[h].bulk # NoOwner => Expects(h, side[h].bulk)' /\ bridge'[h].owner = side[h].bulk
      BY <2>5, <3>1, <3>2, <3>3, <3>4 DEF FlowOf, Expects, KindOf
    <3>6. \A reply \in out[h] : Expects(h, reply[1])'
      BY <2>5, <3>1, <3>2, <3>3 DEF FlowOf, Expects
    <3> QED
      BY <3>1, <3>2, <3>5, <3>6 DEF FlowOf
  <2>13. Attempts'
    BY <2>1, <2>2, AttemptsKept
  <2>14. Alone'
    BY <1>1, <2>1, <2>3, AloneKept
  <2>15. Passed'
    BY <1>1, <2>1, <2>3, PassedKept
  <2> QED
    BY <2>6, <2>7, <2>8, <2>9, <2>10, <2>11, <2>12, <2>13, <2>14, <2>15 DEF HostInv
<1> QED
  BY <1>6, <1>7, <1>8, <1>9 DEF Release

\* A request is written to the process that the call knows.
LEMMA AdmitKeeps ==
    ASSUME HostInv, NEW c \in Caller, Admit(c)
    PROVE  HostInv'
<1>1. /\ UNCHANGED <<proc, holder, started, active, claimed, calls, mail, shut, out, router, faults>>
      /\ call[c].at = "admit" /\ Busy(c)
      /\ call[c].at \notin Unsettled /\ call[c].at \notin Awaiting /\ call[c].at \notin Holding
  BY DEF Admit, Busy, Unsettled, Awaiting, Holding
<1>2. /\ call \in [Caller -> Call] /\ call[c] \in Call /\ Sound(call[c])
      /\ call[c].gen <= started /\ call[c].gen \in Gen /\ call[c].gen # 0
      /\ call[c].sent <= call[c].attempt
  <2>1. /\ call[c] \in Call /\ Sound(call[c])
        /\ call[c].gen <= started /\ call[c].gen \in Gen /\ call[c].gen # 0
    BY <1>1, OfCall, Names DEF Nowhere
  <2> QED
    BY <1>1, <2>1 DEF HostInv, Types, Sound
<1>3. CASE Back(c) /\ UNCHANGED <<bridge, pending, side>>
  <2>1. /\ Becomes(c, NoCall) /\ gate' \in BOOLEAN
        /\ NoCall.at = "idle" /\ NoCall.gen = 0 /\ Sound(NoCall)
    BY <1>3, BackHome DEF HostInv
  <2> QED
    BY <1>1, <1>3, <2>1, OfHost, OfCall, Names, Moves DEF Holding, Nowhere
<1>4. CASE \E place \in {"fail", "abandon"} : Goes(c, place) /\ UNCHANGED <<gate, bridge, pending, side>>
  <2>1. PICK place \in {"fail", "abandon"} : Goes(c, place) /\ UNCHANGED <<gate, bridge, pending, side>>
    BY <1>4
  <2>2. PICK u : Becomes(c, u) /\ u.at = place /\ Alike(u, call[c])
    BY <2>1, GoesThere DEF HostInv, Places
  <2>3. Sound(u)
    BY <1>1, <1>2, <2>1, <2>2 DEF Sound, Alike
  <2>4. /\ u.at \notin Holding /\ u.at \notin {"idle", "closed", "clear"}
        /\ u.gen = call[c].gen /\ u.kind = call[c].kind
    BY <2>1, <2>2 DEF Holding, Alike
  <2> QED
    BY <1>1, <1>2, <2>1, <2>2, <2>3, <2>4, OfHost, Moves
<1>5. ASSUME ~Refused(c), ~bridge[call[c].gen].closed, NEW g \in Gen, g = call[c].gen,
             NEW f, f = FrameOf(c),
             pending' = [pending EXCEPT ![g] = @ \cup {f}],
             bridge' = IF KindOf(f) = "bulk" THEN [bridge EXCEPT ![g].owner = f] ELSE bridge,
             \/ /\ Alive(g)
                /\ side' = [side EXCEPT ![g].inbox = Append(@, f)]
                /\ call' = [call EXCEPT ![c].at = "waiting",
                               ![c].sent = @ + IF f[2] = "main" THEN 1 ELSE 0]
             \/ ~Alive(g) /\ Goes(c, "drain") /\ UNCHANGED side,
             UNCHANGED gate
      PROVE  HostInv'
  <2>1. /\ f[1] = c /\ f[2] = call[c].phase /\ f \in Frame /\ f # NoOwner
    <3>1. call[c].phase \in {"main", "reopen"}
      BY <1>2 DEF Call
    <3>2. f[1] = c /\ f[2] = call[c].phase /\ f \in Frame
      BY <1>5, <3>1 DEF FrameOf, Frame
    <3> QED
      BY <3>2, Names
  <2>2. PICK u : /\ Becomes(c, u) /\ Sound(u) /\ u.at \in {"waiting", "drain"}
                 /\ u.kind = call[c].kind /\ u.phase = call[c].phase /\ u.gen = g
    <3>1. CASE call' = [call EXCEPT ![c].at = "waiting", ![c].sent = @ + IF f[2] = "main" THEN 1 ELSE 0]
      <4>1. PICK n \in {0, 1} : /\ n = IF f[2] = "main" THEN 1 ELSE 0
        OBVIOUS
      <4> DEFINE u == [call[c] EXCEPT !.at = "waiting", !.sent = @ + n]
      <4>2. call' = [call EXCEPT ![c] = u]
        BY <1>2, <3>1, <4>1
      <4>3. call[c].sent + n \in 0 .. 2 /\ call[c].attempt \in 0 .. 1 /\ call[c].sent \in 0 .. 2
        BY <1>2 DEF Call
      <4>4. /\ u.at = "waiting" /\ u.kind = call[c].kind /\ u.phase = call[c].phase
            /\ u.gen = call[c].gen /\ u.attempt = call[c].attempt /\ u.vault = call[c].vault
            /\ u.recovery = call[c].recovery /\ u.permit = call[c].permit
            /\ u.sent = call[c].sent + n /\ u \in Call
        <5>1. "waiting" \in Places
          BY DEF Places
        <5> QED
          BY <1>2, <4>3, <5>1 DEF Call, Places
      <4> HIDE DEF u
      <4>5. Sound(u)
        <5>1. u.phase = "reopen" => n = 0
          BY <2>1, <4>1, <4>4
        <5> QED
          BY <1>1, <1>2, <4>1, <4>3, <4>4, <5>1 DEF Sound
      <4> QED
        BY <1>5, <4>2, <4>4, <4>5 DEF Becomes
    <3>2. CASE Goes(c, "drain")
      <4>1. PICK u : Becomes(c, u) /\ u.at = "drain" /\ Alike(u, call[c])
        BY <3>2, GoesThere DEF HostInv, Places
      <4>2. Sound(u)
        BY <1>1, <1>2, <4>1 DEF Sound, Alike
      <4> QED
        BY <1>5, <4>1, <4>2 DEF Alike
    <3> QED
      BY <1>5, <3>1, <3>2
  <2>3. call'[c] = u /\ \A d \in Caller \ {c} : call'[d] = call[d]
    BY <2>2, OneCall DEF HostInv
  <2>4. /\ u.at \notin Holding /\ u.at \notin {"idle", "closed", "clear"} /\ u.at \in Awaiting
        /\ u.at \in Unsettled /\ u.gen <= started /\ u.gen # 0
    BY <1>2, <1>5, <2>2 DEF Holding, Awaiting, Unsettled
  <2>5. /\ bridge' \in [Gen -> Bridge]
        /\ \A h \in Gen : bridge'[h].terminal = bridge[h].terminal /\ bridge'[h].closed = bridge[h].closed
        /\ \A h \in Gen \ {g} : bridge'[h] = bridge[h]
        /\ KindOf(f) = "bulk" => bridge'[g].owner = f
        /\ KindOf(f) # "bulk" => bridge'[g].owner = bridge[g].owner
    <3>1. bridge \in [Gen -> Bridge]
      BY DEF HostInv, Types
    <3>2. CASE KindOf(f) = "bulk"
      <4>1. bridge' = [bridge EXCEPT ![g].owner = f]
        BY <1>5, <3>2
      <4> QED
        BY <2>1, <3>1, <3>2, <4>1 DEF Bridge
    <3>3. CASE KindOf(f) # "bulk"
      BY <1>5, <3>1, <3>3
    <3> QED
      BY <3>2, <3>3
  <2>6. /\ side \in [Gen -> [state : {"none", "up", "gone"}, inbox : Seq(Frame),
                             bulk : Frame \cup {NoOwner}, vault : Vault \cup {NoVault}]]
        /\ pending \in [Gen -> SUBSET Frame]
    BY DEF HostInv, Types
  <2>7. /\ side' \in [Gen -> [state : {"none", "up", "gone"}, inbox : Seq(Frame),
                              bulk : Frame \cup {NoOwner}, vault : Vault \cup {NoVault}]]
        /\ \A h \in Gen : side'[h].state = side[h].state /\ side'[h].bulk = side[h].bulk
        /\ \A h \in Gen : h # g \/ ~Alive(g) => side'[h].inbox = side[h].inbox
        /\ Alive(g) => side'[g].inbox = Append(side[g].inbox, f)
    <3>1. CASE Alive(g) /\ side' = [side EXCEPT ![g].inbox = Append(@, f)]
      <4>1. Append(side[g].inbox, f) \in Seq(Frame)
        BY <2>1, <2>6
      <4> QED
        BY <2>6, <3>1, <4>1
    <3>2. CASE ~Alive(g) /\ side' = side
      BY <2>6, <3>2
    <3> QED
      BY <1>5, <3>1, <3>2
  <2>8. /\ pending' \in [Gen -> SUBSET Frame] /\ pending'[g] = pending[g] \cup {f}
        /\ \A h \in Gen \ {g} : pending'[h] = pending[h]
    BY <1>5, <2>1, <2>6
  <2>9. Types'
    <3>1. call' \in [Caller -> Call]
      BY <2>2, OneCall DEF HostInv
    <3> QED
      BY <1>1, <1>5, <2>5, <2>7, <2>8, <3>1 DEF HostInv, Types
  <2>10. Locked'
    <3>1. holder # c
      BY <1>1 DEF HostInv, Locked
    <3> QED
      BY <1>1, <2>2, <2>4, <3>1, LockedKept
  <2>11. Generations'
    <3>1. /\ shut[c].gen <= started /\ (shut[c].at \in {"begin", "reap", "exit"} => shut[c].gen # 0)
      BY Names DEF HostInv, Generations
    <3>2. proc <= started
      BY OfCall
    <3> QED
      BY <1>1, <2>2, <2>4, <2>5, <2>7, <3>1, <3>2, GenerationsKept
  <2>12. \A h \in Gen : Alive(h)' <=> Alive(h)
    BY <2>7 DEF Alive
  <2>13. Reaped'
    <3>1. \A h \in Gen : ~Alive(h) => side'[h].inbox = << >> /\ side'[h].bulk = NoOwner
      BY <2>7 DEF HostInv, Reaped
    <3>2. ASSUME NEW x \in Actor, shut[x].at = "done", shut[x].gen # 0
          PROVE  side'[shut[x].gen].state # "up"
      <4>1. PICK h \in Gen : h = shut[x].gen
        <5>1. shut[x].gen \in 0 .. MaxGen
          BY DEF HostInv, Types
        <5> QED
          BY <3>2, <5>1, Names
      <4> QED
        BY <2>7, <3>2, <4>1 DEF HostInv, Reaped, Alive
    <3>3. \A h \in Gen : Alive(h) => h = proc /\ ~bridge'[h].terminal
      BY <2>5 DEF HostInv, Reaped
    <3> QED
      BY <1>1, <2>12, <3>1, <3>2, <3>3 DEF Reaped, Alive
  <2>14. Owned'
    <3>1. ASSUME NEW x \in Actor, shut[x].at = "reap"
          PROVE  bridge'[shut[x].gen].closed /\ bridge'[shut[x].gen].owner = NoOwner
      <4>1. PICK h \in Gen : h = shut[x].gen
        <5>1. shut[x].gen \in 0 .. MaxGen /\ shut[x].gen # 0
          BY <3>1 DEF HostInv, Generations, Types
        <5> QED
          BY <5>1, Names
      <4>2. bridge[h].closed /\ bridge[h].owner = NoOwner
        BY <3>1, <4>1 DEF HostInv, Owned
      <4> QED
        BY <1>5, <2>5, <4>1, <4>2
    <3> QED
      BY <1>1, <3>1 DEF Owned
  <2>15. Mailed'
    <3>1. mail[c] = "none" /\ \A h \in Gen : \A e \in pending[h] : e[1] # c
      BY <1>1 DEF HostInv, Mailed
    <3>2. \A d \in Caller : mail[d] # "none" => call'[d].at \in Awaiting
      BY <2>3, <3>1 DEF HostInv, Mailed
    <3>3. ASSUME NEW h \in Gen, NEW e \in pending'[h]
          PROVE  /\ call'[e[1]].gen = h /\ call'[e[1]].phase = e[2]
                 /\ call'[e[1]].at \in Awaiting /\ mail[e[1]] = "none"
      <4>1. CASE e \in pending[h]
        <5>1. e[1] \in Caller \ {c}
          BY <2>6, <3>1, <4>1, Names
        <5> QED
          BY <2>3, <4>1, <5>1 DEF HostInv, Mailed
      <4>2. CASE h = g /\ e = f
        BY <2>1, <2>2, <2>3, <2>4, <3>1, <4>2
      <4> QED
        BY <2>8, <4>1, <4>2
    <3> QED
      BY <1>1, <3>2, <3>3 DEF Mailed
  <2>16. Flow'
    <3> SUFFICES ASSUME NEW h \in Gen, Alive(h)'
                 PROVE  FlowOf(h)'
      BY DEF Flow
    <3>1. Alive(h) /\ FlowOf(h) /\ mail' = mail /\ out' = out
      BY <1>1, <2>12 DEF HostInv, Flow
    <3> DEFINE s == side[h].inbox
    <3>2. /\ \A k \in 1 .. Len(s) : s[k][1] # c /\ s[k][1] \in Caller
          /\ side[h].bulk # NoOwner => side[h].bulk[1] # c /\ side[h].bulk[1] \in Caller
          /\ \A reply \in out[h] : reply[1][1] # c /\ reply[1][1] \in Caller
      BY <1>1, <3>1, NotExpected, Frames, Names DEF HostInv
    <3> DEFINE Waits(e) == /\ call'[e[1]].gen = h /\ call'[e[1]].phase = e[2]
                           /\ call'[e[1]].at \in Unsettled /\ mail[e[1]] \notin {"ok", "no"}
               Asks(e) == IF e[2] = "reopen" THEN "open" ELSE call'[e[1]].kind
    <3>3. /\ \A k \in 1 .. Len(s) : Waits(s[k]) /\ Asks(s[k]) = KindOf(s[k])
          /\ side[h].bulk # NoOwner => Waits(side[h].bulk)
      BY <2>3, <3>1, <3>2 DEF FlowOf, Expects, KindOf
    <3>4. \A reply \in out[h] : Waits(reply[1])
      BY <2>3, <3>1, <3>2 DEF FlowOf, Expects
    <3>5. /\ s \in Seq(Frame) /\ side'[h].bulk = side[h].bulk
      BY <2>6, <2>7
    <3>6. /\ \A k \in 1 .. Len(s) : KindOf(s[k]) = "bulk" => bridge'[h].owner = s[k]
          /\ side[h].bulk # NoOwner => bridge'[h].owner = side[h].bulk
      <4>1. CASE bridge'[h].owner = bridge[h].owner
        BY <3>1, <4>1 DEF FlowOf
      <4>2. CASE h = g /\ KindOf(f) = "bulk"
        <5>1. bridge[g].owner = NoOwner
          BY <1>5, <4>2 DEF Refused, Companion
        <5>2. /\ \A k \in 1 .. Len(s) : s[k] # NoOwner
              /\ side[h].bulk = NoOwner
          BY <3>1, <4>2, <5>1, Frames, Names DEF FlowOf, HostInv
        <5> QED
          BY <3>1, <4>2, <5>1, <5>2 DEF FlowOf
      <4> QED
        BY <2>5, <4>1, <4>2
    <3>7. CASE h # g
      <4>1. side'[h].inbox = s
        BY <2>7, <3>7
      <4> QED
        BY <3>1, <3>3, <3>4, <3>5, <3>6, <4>1 DEF FlowOf, Expects, KindOf
    <3>8. CASE h = g
      <4>1. /\ side'[h].inbox = Append(s, f) /\ Len(Append(s, f)) = Len(s) + 1
            /\ \A k \in 1 .. Len(s) : Append(s, f)[k] = s[k]
            /\ Append(s, f)[Len(s) + 1] = f /\ Len(s) \in Nat
        BY <2>7, <3>1, <3>5, <3>8
      <4>2. Waits(f) /\ Asks(f) = KindOf(f)
        <5>1. mail[c] \notin {"ok", "no"}
          BY <1>1 DEF HostInv, Mailed
        <5>2. /\ call'[c].gen = h /\ call'[c].phase = f[2] /\ call'[c].at \in Unsettled
              /\ call'[c].kind = call[c].kind
          BY <2>1, <2>2, <2>3, <2>4, <3>8
        <5> QED
          BY <1>1, <2>1, <5>1, <5>2 DEF KindOf
      <4>3. KindOf(f) = "bulk" => bridge'[h].owner = f
        BY <2>5, <3>8
      <4>4. /\ f # side[h].bulk /\ \A k \in 1 .. Len(s) : s[k] # f
            /\ \A reply \in out[h] : reply[1] # f
        BY <2>1, <3>2
      <4> DEFINE t == Append(s, f)
      <4>5. \A k \in 1 .. Len(t) : k \in 1 .. Len(s) \/ k = Len(s) + 1
        BY <4>1
      <4>6. /\ \A k \in 1 .. Len(t) : /\ Waits(t[k]) /\ Asks(t[k]) = KindOf(t[k])
                                      /\ t[k] # side[h].bulk
                                      /\ KindOf(t[k]) = "bulk" => bridge'[h].owner = t[k]
                                      /\ \A reply \in out[h] : t[k] # reply[1]
        <5>1. ASSUME NEW k \in 1 .. Len(s)
              PROVE  /\ Waits(t[k]) /\ Asks(t[k]) = KindOf(t[k])
                     /\ t[k] # side[h].bulk
                     /\ KindOf(t[k]) = "bulk" => bridge'[h].owner = t[k]
                     /\ \A reply \in out[h] : t[k] # reply[1]
          <6>1. t[k] = s[k]
            BY <4>1
          <6>2. Waits(s[k]) /\ Asks(s[k]) = KindOf(s[k])
            BY <3>3
          <6>3. KindOf(s[k]) = "bulk" => bridge'[h].owner = s[k]
            BY <3>6
          <6>4. s[k] # side[h].bulk /\ \A reply \in out[h] : s[k] # reply[1]
            BY <3>1 DEF FlowOf
          <6> HIDE DEF t, Waits, Asks
          <6> QED
            BY <6>1, <6>2, <6>3, <6>4
        <5>2. ASSUME NEW k, k = Len(s) + 1
              PROVE  /\ Waits(t[k]) /\ Asks(t[k]) = KindOf(t[k])
                     /\ t[k] # side[h].bulk
                     /\ KindOf(t[k]) = "bulk" => bridge'[h].owner = t[k]
                     /\ \A reply \in out[h] : t[k] # reply[1]
          BY <4>1, <4>2, <4>3, <4>4, <5>2
        <5> QED
          BY <4>5, <5>1, <5>2
      <4>7. \A k \in 1 .. Len(t) : \A l \in 1 .. Len(t) : t[k] = t[l] => k = l
        BY <3>1, <4>1, <4>4, <4>5 DEF FlowOf
      <4> HIDE DEF t
      <4>8. side'[h].inbox = t
        BY <4>1 DEF t
      <4> QED
        BY <3>1, <3>3, <3>4, <3>5, <3>6, <4>6, <4>7, <4>8 DEF FlowOf, Expects, KindOf
    <3> QED
      BY <3>7, <3>8
  <2>17. Attempts'
    BY <2>2, AttemptsKept
  <2>18. Alone'
    BY <1>1, <2>2, <2>4, AloneKept
  <2>19. Passed'
    BY <1>1, <2>2, <2>4, PassedKept
  <2> QED
    BY <2>9, <2>10, <2>11, <2>13, <2>14, <2>15, <2>16, <2>17, <2>18, <2>19 DEF HostInv
<1>6. PICK g \in Gen : g = call[c].gen
  BY <1>2
<1>7. PICK f : f = FrameOf(c)
  OBVIOUS
<1> QED
  BY <1>3, <1>4, <1>5, <1>6, <1>7 DEF Admit

-----------------------------------------------------------------------------
\* Shutdowns, routers and processes leave the calls and the host alone.

ShutType == [at : {"none", "begin", "reap", "exit", "done"}, gen : 0 .. MaxGen]
SideType == [state : {"none", "up", "gone"}, inbox : Seq(Frame),
             bulk : Frame \cup {NoOwner}, vault : Vault \cup {NoVault}]
Apart == UNCHANGED <<proc, holder, started, active, claimed, gate, call, calls>>

\* Steps of routers and processes leave the calls alone; this is what they owe.
LEMMA ApartKeeps ==
    ASSUME HostInv, Apart,
           mail' \in [Caller -> {"none", "ok", "no", "interrupted"}],
           shut' \in [Actor -> ShutType], bridge' \in [Gen -> Bridge],
           pending' \in [Gen -> SUBSET Frame], side' \in [Gen -> SideType],
           out' \in [Gen -> SUBSET (Frame \X {"ok", "no"})],
           router' \in [Gen -> {"none", "run", "copy", "done"}], faults' \in 0 .. MaxFaults,
           \A c \in Caller : shut'[c].gen = shut[c].gen,
           \A x \in Actor : /\ shut'[x].gen <= started
                            /\ shut'[x].at \in {"begin", "reap", "exit"} => shut'[x].gen # 0,
           \A g \in Gen : g > started =>
               /\ side'[g].state = "none" /\ out'[g] = {}
               /\ ~bridge'[g].terminal /\ router'[g] = "none",
           Reaped', Mailed', Flow', Owned'
    PROVE  HostInv'
<1>1. Types'
  BY DEF HostInv, Types, Apart, ShutType, SideType
<1>2. Locked'
  BY DEF HostInv, Locked, Apart
<1>3. Generations'
  BY DEF HostInv, Generations, Apart
<1>4. Attempts' /\ Alone' /\ Passed'
  BY DEF HostInv, Attempts, Sound, Alone, Busy, Passed, Apart
<1> QED
  BY <1>1, <1>2, <1>3, <1>4 DEF HostInv

\* What an actor's shutdown is of.
LEMMA OfShut ==
    ASSUME HostInv, NEW x \in Actor
    PROVE  /\ shut \in [Actor -> ShutType] /\ shut[x].gen \in 0 .. MaxGen /\ shut[x].gen <= started
           /\ shut[x].at \in {"begin", "reap", "exit"} \/ shut[x].gen # 0 => shut[x].gen \in Gen
           /\ started \in Nat /\ Gen \subseteq Nat
<1>1. shut \in [Actor -> ShutType] /\ shut[x].gen \in 0 .. MaxGen /\ started \in 0 .. MaxGen
  BY DEF HostInv, Types, ShutType
<1>2. /\ shut[x].gen <= started
      /\ shut[x].at \in {"begin", "reap", "exit"} => shut[x].gen # 0
  BY DEF HostInv, Generations
<1> QED
  BY <1>1, <1>2, Names

\* An actor goes on with its shutdown.
LEMMA ShutGoes ==
    ASSUME HostInv, NEW x \in Actor, NEW a \in {"reap", "exit", "done"},
           shut[x].at \in {"begin", "reap", "exit"}, shut' = [shut EXCEPT ![x].at = a]
    PROVE  /\ shut' \in [Actor -> ShutType] /\ shut'[x].at = a
           /\ \A y \in Actor : /\ shut'[y].gen = shut[y].gen /\ shut'[y].gen <= started
                               /\ shut'[y].at \in {"begin", "reap", "exit"} => shut'[y].gen # 0
           /\ \A y \in Actor \ {x} : shut'[y] = shut[y]
<1>1. shut \in [Actor -> ShutType]
  BY OfShut
<1>2. /\ shut' \in [Actor -> ShutType] /\ shut'[x].at = a /\ shut'[x].gen = shut[x].gen
      /\ \A y \in Actor \ {x} : shut'[y] = shut[y]
  BY <1>1 DEF ShutType
<1>3. \A y \in Actor : /\ shut[y].gen <= started
                       /\ shut[y].at \in {"begin", "reap", "exit"} => shut[y].gen # 0
  BY DEF HostInv, Generations
<1> QED
  BY <1>2, <1>3

\* The threads that wait for a process hear that it is shut down.
LEMMA InterruptKeeps ==
    ASSUME HostInv, UNCHANGED call, NEW g \in Gen, Interrupt(g)
    PROVE  /\ mail' \in [Caller -> {"none", "ok", "no", "interrupted"}]
           /\ pending' \in [Gen -> SUBSET Frame]
           /\ \A d \in Caller : mail'[d] \in {mail[d], "interrupted"}
           /\ Mailed'
<1>1. /\ mail \in [Caller -> {"none", "ok", "no", "interrupted"}]
      /\ pending \in [Gen -> SUBSET Frame]
  BY DEF HostInv, Types
<1>2. /\ mail' \in [Caller -> {"none", "ok", "no", "interrupted"}]
      /\ \A d \in Caller : \/ mail'[d] = mail[d]
                           \/ /\ mail'[d] = "interrupted"
                              /\ \E p \in {"main", "reopen"} : <<d, p>> \in pending[g]
      /\ pending' \in [Gen -> SUBSET Frame]
      /\ pending'[g] = {} /\ \A h \in Gen \ {g} : pending'[h] = pending[h]
  BY <1>1 DEF Interrupt
<1>3. ASSUME NEW d \in Caller, mail'[d] # mail[d]
      PROVE  mail'[d] = "interrupted" /\ call[d].gen = g /\ call[d].at \in Awaiting
  <2>1. mail'[d] = "interrupted"
    BY <1>2, <1>3
  <2>2. PICK p \in {"main", "reopen"} : <<d, p>> \in pending[g]
    BY <1>2, <1>3
  <2>3. call[<<d, p>>[1]].gen = g /\ call[<<d, p>>[1]].at \in Awaiting
    BY <2>2 DEF HostInv, Mailed
  <2>4. <<d, p>>[1] = d
    OBVIOUS
  <2> QED
    BY <2>1, <2>3, <2>4
<1>4. \A d \in Caller : mail'[d] # "none" => call[d].at \in Awaiting
  BY <1>3 DEF HostInv, Mailed
<1>5. ASSUME NEW h \in Gen, NEW f \in pending'[h]
      PROVE  /\ call[f[1]].gen = h /\ call[f[1]].phase = f[2]
             /\ call[f[1]].at \in Awaiting /\ mail'[f[1]] = "none"
  <2>1. h # g /\ f \in pending[h] /\ f[1] \in Caller
    BY <1>1, <1>2, Names
  <2>2. /\ call[f[1]].gen = h /\ call[f[1]].phase = f[2]
        /\ call[f[1]].at \in Awaiting /\ mail[f[1]] = "none"
    BY <2>1 DEF HostInv, Mailed
  <2> QED
    BY <1>3, <2>1, <2>2
<1> QED
  BY <1>2, <1>4, <1>5 DEF Mailed

\* Nothing moves but that processes leave, replies are dropped, and threads hear
\* that they wait in vain.
LEMMA QuietFlow ==
    ASSUME HostInv, UNCHANGED call,
           \A d \in Caller : mail'[d] \in {mail[d], "interrupted"},
           \A g \in Gen : Alive(g)' =>
               /\ Alive(g) /\ side'[g].inbox = side[g].inbox /\ side'[g].bulk = side[g].bulk
               /\ out'[g] \subseteq out[g] /\ bridge'[g].owner = bridge[g].owner
    PROVE  Flow'
<1>1. ASSUME NEW g \in Gen, NEW f \in Frame, Expects(g, f)
      PROVE  Expects(g, f)' /\ KindOf(f)' = KindOf(f)
  <2>1. f[1] \in Caller
    BY Names
  <2> QED
    BY <1>1, <2>1 DEF Expects, KindOf
<1>2. Types /\ Flow
  BY DEF HostInv
<1> QED
  BY <1>1, <1>2, FlowKept

\* A shutdown closes the process it waits for, or finds it closed.
LEMMA ShutBeginKeeps ==
    ASSUME HostInv, NEW x \in Actor, ShutBegin(x)
    PROVE  HostInv'
<1>1. /\ Apart /\ UNCHANGED <<side, out, router, faults>> /\ shut[x].at = "begin"
  BY DEF ShutBegin, host, Apart
<1>2. PICK g \in Gen : g = shut[x].gen
  BY <1>1, OfShut
<1>3. /\ bridge \in [Gen -> Bridge] /\ side \in [Gen -> SideType]
      /\ out \in [Gen -> SUBSET (Frame \X {"ok", "no"})]
      /\ router \in [Gen -> {"none", "run", "copy", "done"}] /\ faults \in 0 .. MaxFaults
      /\ mail \in [Caller -> {"none", "ok", "no", "interrupted"}]
      /\ pending \in [Gen -> SUBSET Frame]
  BY DEF HostInv, Types, SideType
<1>4. \A h \in Gen : Alive(h)' <=> Alive(h)
  BY <1>1 DEF Alive
<1>5. PICK a \in {"reap", "exit", "done"} :
         /\ shut' = [shut EXCEPT ![x].at = a]
         /\ a = "done" => bridge[g].terminal
         /\ a = "reap" => bridge'[g].closed /\ bridge[g].owner = NoOwner
         /\ bridge' \in [Gen -> Bridge]
         /\ \A h \in Gen : /\ bridge'[h].terminal = bridge[h].terminal
                           /\ bridge'[h].owner = bridge[h].owner
                           /\ bridge[h].closed => bridge'[h].closed
         /\ UNCHANGED <<mail, pending>> \/ Interrupt(g)
  <2>1. CASE Draining(g) /\ shut' = [shut EXCEPT ![x].at = "exit"] /\ UNCHANGED <<mail, pending>>
    BY <2>1, DrainingOnly
  <2>2. CASE /\ bridge[g].terminal /\ shut' = [shut EXCEPT ![x].at = "done"]
             /\ UNCHANGED <<bridge, mail, pending>>
    BY <1>3, <2>2
  <2>3. CASE /\ bridge[g].owner = NoOwner
             /\ bridge' = [bridge EXCEPT ![g].closed = TRUE, ![g].reaper = x]
             /\ Interrupt(g) /\ shut' = [shut EXCEPT ![x].at = "reap"]
    <3>1. /\ bridge' \in [Gen -> Bridge] /\ bridge'[g].closed
          /\ \A h \in Gen : /\ bridge'[h].terminal = bridge[h].terminal
                            /\ bridge'[h].owner = bridge[h].owner
                            /\ bridge[h].closed => bridge'[h].closed
      <4> DEFINE b == [bridge[g] EXCEPT !.closed = TRUE, !.reaper = x]
      <4>1. /\ b \in Bridge /\ b.closed /\ b.terminal = bridge[g].terminal
            /\ b.owner = bridge[g].owner
        BY <1>3 DEF Bridge
      <4>2. bridge' = [bridge EXCEPT ![g] = b]
        BY <1>3, <2>3
      <4> HIDE DEF b
      <4> QED
        BY <1>3, <4>1, <4>2
    <3> QED
      BY <2>3, <3>1
  <2> QED
    BY <1>2, <2>1, <2>2, <2>3 DEF ShutBegin
<1>6. /\ mail' \in [Caller -> {"none", "ok", "no", "interrupted"}]
      /\ pending' \in [Gen -> SUBSET Frame]
      /\ \A d \in Caller : mail'[d] \in {mail[d], "interrupted"}
      /\ Mailed'
  <2>1. CASE UNCHANGED <<mail, pending>>
    BY <1>1, <1>3, <2>1 DEF HostInv, Mailed, Apart
  <2>2. CASE Interrupt(g)
    BY <1>1, <2>2, InterruptKeeps DEF Apart
  <2> QED
    BY <1>5, <2>1, <2>2
<1>7. /\ shut' \in [Actor -> ShutType] /\ shut'[x].at = a
      /\ \A y \in Actor : /\ shut'[y].gen = shut[y].gen /\ shut'[y].gen <= started
                          /\ shut'[y].at \in {"begin", "reap", "exit"} => shut'[y].gen # 0
      /\ \A y \in Actor \ {x} : shut'[y] = shut[y]
  BY <1>1, <1>5, ShutGoes
<1>8. Flow'
  BY <1>1, <1>4, <1>5, <1>6, QuietFlow DEF Apart
<1>9. Reaped'
  <2>1. ASSUME NEW y \in Actor, shut'[y].at = "done", shut'[y].gen # 0
        PROVE  side[shut'[y].gen].state # "up"
    <3>1. CASE y = x
      BY <1>2, <1>5, <1>7, <2>1, <3>1 DEF HostInv, Reaped, Alive
    <3>2. CASE y # x
      BY <1>7, <2>1, <3>2 DEF HostInv, Reaped, Alive
    <3> QED
      BY <3>1, <3>2
  <2>2. \A h \in Gen : Alive(h) => h = proc /\ ~bridge'[h].terminal
    BY <1>5 DEF HostInv, Reaped
  <2> QED
    BY <1>1, <2>1, <2>2 DEF HostInv, Reaped, Alive, Apart
<1>10. Owned'
  <2>1. ASSUME NEW y \in Actor, shut'[y].at = "reap"
        PROVE  bridge'[shut'[y].gen].closed /\ bridge'[shut'[y].gen].owner = NoOwner
    <3>1. CASE y = x
      BY <1>2, <1>5, <1>7, <2>1, <3>1
    <3>2. CASE y # x
      <4>1. PICK h \in Gen : h = shut[y].gen
        BY <1>7, <2>1, <3>2, OfShut
      <4> QED
        BY <1>5, <1>7, <2>1, <3>2, <4>1 DEF HostInv, Owned
    <3> QED
      BY <3>1, <3>2
  <2> QED
    BY <2>1 DEF Owned
<1>11. \A h \in Gen : h > started => /\ side'[h].state = "none" /\ out'[h] = {}
                                     /\ ~bridge'[h].terminal /\ router'[h] = "none"
  BY <1>1, <1>5 DEF HostInv, Generations
<1> QED
  BY <1>1, <1>3, <1>5, <1>6, <1>7, <1>8, <1>9, <1>10, <1>11, Names, ApartKeeps

\* A process that left has nothing any more.
LEMMA GoneThere ==
    ASSUME HostInv, NEW g \in Gen, side' = [side EXCEPT ![g] = GoneSide]
    PROVE  /\ side' \in [Gen -> SideType] /\ side'[g].state = "gone"
           /\ side'[g].inbox = << >> /\ side'[g].bulk = NoOwner
           /\ \A h \in Gen \ {g} : side'[h] = side[h]
<1>1. side \in [Gen -> SideType]
  BY DEF HostInv, Types, SideType
<1>2. GoneSide \in SideType /\ GoneSide.state = "gone" /\ GoneSide.inbox = << >> /\ GoneSide.bulk = NoOwner
  <2>1. << >> \in Seq(Frame) /\ NoOwner \in Frame \cup {NoOwner}
    OBVIOUS
  <2>2. GoneSide = [state |-> "gone", inbox |-> << >>, bulk |-> NoOwner, vault |-> NoVault]
    BY DEF GoneSide, NoSide
  <2> QED
    BY <2>1, <2>2 DEF SideType
<1> QED
  BY <1>1, <1>2

\* The process has left or is killed; no upload of it is under way.
LEMMA ReapKeeps ==
    ASSUME HostInv, NEW x \in Actor, Reap(x)
    PROVE  HostInv'
<1>1. /\ Apart /\ UNCHANGED <<mail, pending, out, router, faults>> /\ shut[x].at = "reap"
      /\ shut' = [shut EXCEPT ![x].at = "done"]
  BY DEF Reap, host, threads, Apart
<1>2. PICK g \in Gen : g = shut[x].gen
  BY <1>1, OfShut
<1>3. /\ bridge \in [Gen -> Bridge]
      /\ out \in [Gen -> SUBSET (Frame \X {"ok", "no"})]
      /\ router \in [Gen -> {"none", "run", "copy", "done"}] /\ faults \in 0 .. MaxFaults
      /\ mail \in [Caller -> {"none", "ok", "no", "interrupted"}]
      /\ pending \in [Gen -> SUBSET Frame]
  BY DEF HostInv, Types
<1>4. /\ side' = [side EXCEPT ![g] = GoneSide]
      /\ bridge' = [bridge EXCEPT ![g].terminal = TRUE, ![g].reaper = NoOne]
  BY <1>2 DEF Reap
<1>5. /\ side' \in [Gen -> SideType] /\ side'[g].state = "gone"
      /\ side'[g].inbox = << >> /\ side'[g].bulk = NoOwner
      /\ \A h \in Gen \ {g} : side'[h] = side[h]
  BY <1>4, GoneThere
<1>6. /\ bridge' \in [Gen -> Bridge]
      /\ \A h \in Gen \ {g} : bridge'[h] = bridge[h]
      /\ \A h \in Gen : bridge'[h].owner = bridge[h].owner /\ bridge'[h].closed = bridge[h].closed
  <2> DEFINE b == [bridge[g] EXCEPT !.terminal = TRUE, !.reaper = NoOne]
  <2>1. b \in Bridge /\ b.closed = bridge[g].closed /\ b.owner = bridge[g].owner
    BY <1>3 DEF Bridge
  <2>2. bridge' = [bridge EXCEPT ![g] = b]
    BY <1>3, <1>4
  <2> HIDE DEF b
  <2> QED
    BY <1>3, <2>1, <2>2
<1>7. /\ shut' \in [Actor -> ShutType] /\ shut'[x].at = "done"
      /\ \A y \in Actor : /\ shut'[y].gen = shut[y].gen /\ shut'[y].gen <= started
                          /\ shut'[y].at \in {"begin", "reap", "exit"} => shut'[y].gen # 0
      /\ \A y \in Actor \ {x} : shut'[y] = shut[y]
  BY <1>1, ShutGoes
<1>8. \A h \in Gen : (Alive(h)' <=> Alive(h) /\ h # g) /\ (Alive(h)' => side'[h] = side[h])
  BY <1>5 DEF Alive
<1>9. Flow'
  BY <1>1, <1>6, <1>8, QuietFlow DEF Apart
<1>10. Mailed'
  BY <1>1 DEF HostInv, Mailed, Apart
<1>11. Reaped'
  <2>1. ASSUME NEW y \in Actor, shut'[y].at = "done", shut'[y].gen # 0
        PROVE  side'[shut'[y].gen].state # "up"
    <3>1. PICK h \in Gen : h = shut[y].gen
      BY <1>7, <2>1, OfShut
    <3>2. CASE h = g
      BY <1>5, <1>7, <3>1, <3>2
    <3>3. CASE h # g
      BY <1>2, <1>5, <1>7, <2>1, <3>1, <3>3 DEF HostInv, Reaped, Alive
    <3> QED
      BY <3>2, <3>3
  <2>2. \A h \in Gen : Alive(h)' => h = proc /\ ~bridge'[h].terminal
    BY <1>6, <1>8 DEF HostInv, Reaped
  <2>3. \A h \in Gen : ~Alive(h)' => side'[h].inbox = << >> /\ side'[h].bulk = NoOwner
    BY <1>5, <1>8 DEF HostInv, Reaped
  <2> QED
    BY <1>1, <2>1, <2>2, <2>3 DEF Reaped, Alive, Apart
<1>12. Owned'
  <2>1. ASSUME NEW y \in Actor, shut'[y].at = "reap"
        PROVE  bridge'[shut'[y].gen].closed /\ bridge'[shut'[y].gen].owner = NoOwner
    <3>1. y # x
      BY <1>7, <2>1
    <3>2. PICK h \in Gen : h = shut[y].gen
      BY <1>7, <2>1, <3>1, OfShut
    <3> QED
      BY <1>6, <1>7, <2>1, <3>1, <3>2 DEF HostInv, Owned
  <2> QED
    BY <2>1 DEF Owned
<1>13. \A h \in Gen : h > started => /\ side'[h].state = "none" /\ out'[h] = {}
                                     /\ ~bridge'[h].terminal /\ router'[h] = "none"
  <2>1. \A h \in Gen : h > started => h # g
    BY <1>2, OfShut
  <2> QED
    BY <1>1, <1>5, <1>6, <2>1 DEF HostInv, Generations
<1> QED
  BY <1>1, <1>3, <1>5, <1>6, <1>7, <1>9, <1>10, <1>11, <1>12, <1>13, Names, ApartKeeps

\* The process of an upload has left by itself.
LEMMA BulkExitKeeps ==
    ASSUME HostInv, NEW x \in Actor, BulkExit(x)
    PROVE  HostInv'
<1>1. /\ Apart /\ UNCHANGED <<side, out, router, faults>> /\ shut[x].at = "exit"
      /\ shut' = [shut EXCEPT ![x].at = "done"]
  BY DEF BulkExit, host, Apart
<1>2. PICK g \in Gen : g = shut[x].gen
  BY <1>1, OfShut
<1>3. /\ bridge \in [Gen -> Bridge] /\ side \in [Gen -> SideType]
      /\ out \in [Gen -> SUBSET (Frame \X {"ok", "no"})]
      /\ router \in [Gen -> {"none", "run", "copy", "done"}] /\ faults \in 0 .. MaxFaults
  BY DEF HostInv, Types, SideType
<1>4. /\ ~Alive(g) /\ Interrupt(g)
      /\ bridge' = [bridge EXCEPT ![g].terminal = TRUE, ![g].owner = NoOwner]
  BY <1>2 DEF BulkExit
<1>5. /\ bridge' \in [Gen -> Bridge] /\ bridge'[g].owner = NoOwner
      /\ \A h \in Gen \ {g} : bridge'[h] = bridge[h]
      /\ \A h \in Gen : bridge'[h].closed = bridge[h].closed
  <2> DEFINE b == [bridge[g] EXCEPT !.terminal = TRUE, !.owner = NoOwner]
  <2>1. b \in Bridge /\ b.closed = bridge[g].closed /\ b.owner = NoOwner
    BY <1>3 DEF Bridge, NoOwner
  <2>2. bridge' = [bridge EXCEPT ![g] = b]
    BY <1>3, <1>4
  <2> HIDE DEF b
  <2> QED
    BY <1>3, <2>1, <2>2
<1>6. /\ mail' \in [Caller -> {"none", "ok", "no", "interrupted"}]
      /\ pending' \in [Gen -> SUBSET Frame]
      /\ \A d \in Caller : mail'[d] \in {mail[d], "interrupted"}
      /\ Mailed'
  BY <1>1, <1>4, InterruptKeeps DEF Apart
<1>7. /\ shut' \in [Actor -> ShutType] /\ shut'[x].at = "done"
      /\ \A y \in Actor : /\ shut'[y].gen = shut[y].gen /\ shut'[y].gen <= started
                          /\ shut'[y].at \in {"begin", "reap", "exit"} => shut'[y].gen # 0
      /\ \A y \in Actor \ {x} : shut'[y] = shut[y]
  BY <1>1, ShutGoes
<1>8. \A h \in Gen : (Alive(h)' <=> Alive(h)) /\ (Alive(h) => h # g)
  BY <1>1, <1>4 DEF Alive
<1>9. Flow'
  BY <1>1, <1>5, <1>6, <1>8, QuietFlow DEF Apart
<1>10. Reaped'
  <2>1. ASSUME NEW y \in Actor, shut'[y].at = "done", shut'[y].gen # 0
        PROVE  side[shut'[y].gen].state # "up"
    <3>1. CASE y = x
      BY <1>2, <1>4, <1>7, <3>1 DEF Alive
    <3>2. CASE y # x
      BY <1>7, <2>1, <3>2 DEF HostInv, Reaped, Alive
    <3> QED
      BY <3>1, <3>2
  <2>2. \A h \in Gen : Alive(h) => h = proc /\ ~bridge'[h].terminal
    BY <1>5, <1>8 DEF HostInv, Reaped
  <2> QED
    BY <1>1, <2>1, <2>2 DEF HostInv, Reaped, Alive, Apart
<1>11. Owned'
  <2>1. ASSUME NEW y \in Actor, shut'[y].at = "reap"
        PROVE  bridge'[shut'[y].gen].closed /\ bridge'[shut'[y].gen].owner = NoOwner
    <3>1. y # x
      BY <1>7, <2>1
    <3>2. PICK h \in Gen : h = shut[y].gen
      BY <1>7, <2>1, <3>1, OfShut
    <3> QED
      BY <1>5, <1>7, <2>1, <3>1, <3>2 DEF HostInv, Owned
  <2> QED
    BY <2>1 DEF Owned
<1>12. \A h \in Gen : h > started => /\ side'[h].state = "none" /\ out'[h] = {}
                                     /\ ~bridge'[h].terminal /\ router'[h] = "none"
  <2>1. \A h \in Gen : h > started => h # g
    BY <1>2, OfShut
  <2> QED
    BY <1>1, <1>5, <2>1 DEF HostInv, Generations
<1> QED
  BY <1>1, <1>3, <1>5, <1>6, <1>7, <1>9, <1>10, <1>11, <1>12, Names, ApartKeeps

\* A process leaves, by itself.
LEMMA LeavesKeeps ==
    ASSUME HostInv, NEW g \in Gen, Apart, Alive(g), side' = [side EXCEPT ![g] = GoneSide],
           UNCHANGED <<mail, shut, bridge, pending, out, router>>, faults' \in 0 .. MaxFaults
    PROVE  HostInv'
<1>1. /\ bridge \in [Gen -> Bridge] /\ shut \in [Actor -> ShutType]
      /\ out \in [Gen -> SUBSET (Frame \X {"ok", "no"})]
      /\ router \in [Gen -> {"none", "run", "copy", "done"}]
      /\ mail \in [Caller -> {"none", "ok", "no", "interrupted"}]
      /\ pending \in [Gen -> SUBSET Frame]
  BY DEF HostInv, Types, ShutType
<1>2. /\ side' \in [Gen -> SideType] /\ side'[g].state = "gone"
      /\ side'[g].inbox = << >> /\ side'[g].bulk = NoOwner
      /\ \A h \in Gen \ {g} : side'[h] = side[h]
  BY GoneThere
<1>3. \A h \in Gen : (Alive(h)' <=> Alive(h) /\ h # g) /\ (Alive(h)' => side'[h] = side[h])
  BY <1>2 DEF Alive
<1>4. Flow'
  BY <1>3, QuietFlow DEF Apart
<1>5. Mailed' /\ Owned'
  BY DEF HostInv, Mailed, Owned, Apart
<1>6. Reaped'
  <2>1. ASSUME NEW y \in Actor, shut[y].at = "done", shut[y].gen # 0
        PROVE  side'[shut[y].gen].state # "up"
    <3>1. PICK h \in Gen : h = shut[y].gen
      BY <2>1, OfShut
    <3>2. CASE h = g
      BY <1>2, <3>1, <3>2
    <3>3. CASE h # g
      BY <1>2, <2>1, <3>1, <3>3 DEF HostInv, Reaped, Alive
    <3> QED
      BY <3>2, <3>3
  <2>2. \A h \in Gen : Alive(h)' => h = proc /\ ~bridge[h].terminal
    BY <1>3 DEF HostInv, Reaped
  <2>3. \A h \in Gen : ~Alive(h)' => side'[h].inbox = << >> /\ side'[h].bulk = NoOwner
    BY <1>2, <1>3 DEF HostInv, Reaped
  <2> QED
    BY <2>1, <2>2, <2>3 DEF Reaped, Alive, Apart
<1>7. \A x \in Actor : /\ shut[x].gen <= started
                       /\ shut[x].at \in {"begin", "reap", "exit"} => shut[x].gen # 0
  BY DEF HostInv, Generations
<1>8. \A h \in Gen : h > started => /\ side'[h].state = "none" /\ out'[h] = {}
                                    /\ ~bridge'[h].terminal /\ router'[h] = "none"
  <2>1. \A h \in Gen : h > started => h # g
    BY DEF HostInv, Generations, Alive
  <2> QED
    BY <1>2, <2>1 DEF HostInv, Generations
<1> QED
  BY <1>1, <1>2, <1>4, <1>5, <1>6, <1>7, <1>8, ApartKeeps

\* A reply reaches the thread that waits for it.
LEMMA RouteKeeps ==
    ASSUME HostInv, NEW g \in Gen, Route(g)
    PROVE  HostInv'
<1>1. Apart /\ UNCHANGED <<shut, bridge, side, router, faults>>
  BY DEF Route, host, Apart
<1>2. PICK reply \in out[g] :
         /\ out' = [out EXCEPT ![g] = @ \ {reply}]
         /\ pending' = [pending EXCEPT ![g] = @ \ {reply[1]}]
         /\ mail' = IF reply[1] \in pending[g] THEN [mail EXCEPT ![reply[1][1]] = reply[2]] ELSE mail
  BY DEF Route
<1>3. /\ bridge \in [Gen -> Bridge] /\ side \in [Gen -> SideType] /\ shut \in [Actor -> ShutType]
      /\ out \in [Gen -> SUBSET (Frame \X {"ok", "no"})]
      /\ router \in [Gen -> {"none", "run", "copy", "done"}] /\ faults \in 0 .. MaxFaults
      /\ mail \in [Caller -> {"none", "ok", "no", "interrupted"}]
      /\ pending \in [Gen -> SUBSET Frame]
  BY DEF HostInv, Types, SideType, ShutType
<1>4. PICK f \in Frame, w \in {"ok", "no"} : f = reply[1] /\ w = reply[2]
  BY <1>3
<1>5. PICK d \in Caller : d = f[1]
  BY Names
<1>6. /\ out' \in [Gen -> SUBSET (Frame \X {"ok", "no"})]
      /\ out'[g] = out[g] \ {reply} /\ \A h \in Gen \ {g} : out'[h] = out[h]
      /\ pending' \in [Gen -> SUBSET Frame]
      /\ pending'[g] = pending[g] \ {f} /\ \A h \in Gen \ {g} : pending'[h] = pending[h]
      /\ mail' \in [Caller -> {"none", "ok", "no", "interrupted"}]
      /\ \A c \in Caller \ {d} : mail'[c] = mail[c]
      /\ mail'[d] = IF f \in pending[g] THEN w ELSE mail[d]
  BY <1>2, <1>3, <1>4, <1>5
<1>7. f \in pending[g] => call[d].gen = g /\ call[d].phase = f[2] /\ call[d].at \in Awaiting
  BY <1>5 DEF HostInv, Mailed
<1>8. Mailed'
  <2>1. \A c \in Caller : mail'[c] # "none" => call[c].at \in Awaiting
    BY <1>6, <1>7 DEF HostInv, Mailed
  <2>2. ASSUME NEW h \in Gen, NEW e \in pending'[h]
        PROVE  /\ call[e[1]].gen = h /\ call[e[1]].phase = e[2]
               /\ call[e[1]].at \in Awaiting /\ mail'[e[1]] = "none"
    <3>1. e \in pending[h] /\ e \in Frame /\ e[1] \in Caller
      BY <1>3, <1>6, Names
    <3>2. /\ call[e[1]].gen = h /\ call[e[1]].phase = e[2]
          /\ call[e[1]].at \in Awaiting /\ mail[e[1]] = "none"
      BY <3>1 DEF HostInv, Mailed
    <3>3. ASSUME f \in pending[g], e[1] = d
          PROVE  FALSE
      <4>1. h = g /\ e[2] = f[2]
        BY <1>7, <3>2, <3>3
      <4>2. e = f
        BY <1>5, <3>1, <3>3, <4>1 DEF Frame
      <4> QED
        BY <1>6, <4>1, <4>2
    <3> QED
      BY <1>6, <3>1, <3>2, <3>3
  <2> QED
    BY <1>1, <2>1, <2>2 DEF Mailed, Apart
<1>9. \A h \in Gen : Alive(h)' <=> Alive(h)
  BY <1>1 DEF Alive
<1>10. Flow'
  <2> SUFFICES ASSUME NEW h \in Gen, Alive(h)'
               PROVE  FlowOf(h)'
    BY DEF Flow
  <2>1. Alive(h) /\ FlowOf(h)
    BY <1>9 DEF HostInv, Flow
  <2>2. ASSUME NEW e \in Frame, Expects(h, e), h = g => e # f
        PROVE  Expects(h, e)' /\ KindOf(e)' = KindOf(e)
    <3>1. mail'[e[1]] = mail[e[1]]
      <4>1. e[1] \in Caller
        BY Names
      <4>2. CASE f \in pending[g] /\ e[1] = d
        <5>1. h = g /\ e[2] = f[2]
          BY <1>7, <2>2, <4>2 DEF Expects
        <5>2. e = f
          BY <1>5, <4>2, <5>1 DEF Frame
        <5> QED
          BY <2>2, <5>1, <5>2
      <4> QED
        BY <1>6, <4>1, <4>2
    <3> QED
      BY <1>1, <2>2, <3>1 DEF Expects, KindOf, Apart
  <2>3. /\ \A k \in 1 .. Len(side[h].inbox) : side[h].inbox[k] \in Frame
        /\ side[h].bulk # NoOwner => side[h].bulk \in Frame
        /\ \A r \in out[h] : r[1] \in Frame /\ r \in Frame \X {"ok", "no"}
    BY <1>3, Frames DEF HostInv
  <2>4. h = g => /\ f # side[h].bulk /\ \A k \in 1 .. Len(side[h].inbox) : side[h].inbox[k] # f
                 /\ \A r \in out[h] \ {reply} : r[1] # f
    BY <1>2, <1>4, <2>1 DEF FlowOf
  <2>5. ASSUME NEW k \in 1 .. Len(side[h].inbox)
        PROVE  Expects(h, side[h].inbox[k])' /\ KindOf(side[h].inbox[k])' = KindOf(side[h].inbox[k])
    <3>1. PICK e \in Frame : e = side[h].inbox[k]
      BY <2>3
    <3>2. Expects(h, e)' /\ KindOf(e)' = KindOf(e)
      BY <2>1, <2>2, <2>4, <3>1 DEF FlowOf
    <3> QED
      BY <1>1, <3>1, <3>2 DEF Expects, KindOf
  <2>6. side[h].bulk # NoOwner => Expects(h, side[h].bulk)'
    <3> SUFFICES ASSUME side[h].bulk # NoOwner PROVE Expects(h, side[h].bulk)'
      OBVIOUS
    <3>1. PICK e \in Frame : e = side[h].bulk
      BY <2>3
    <3>2. Expects(h, e)'
      BY <2>1, <2>2, <2>4, <3>1 DEF FlowOf
    <3> QED
      BY <1>1, <3>1, <3>2 DEF Expects
  <2>7. out'[h] \subseteq out[h] /\ (h = g => reply \notin out'[h])
    BY <1>6
  <2>8. \A r \in out'[h] : Expects(h, r[1])'
    BY <2>1, <2>2, <2>3, <2>4, <2>7 DEF FlowOf
  <2> QED
    BY <1>1, <2>1, <2>5, <2>6, <2>7, <2>8 DEF FlowOf
<1>11. Reaped' /\ Owned'
  BY <1>1 DEF HostInv, Reaped, Alive, Owned, Apart
<1>12. \A x \in Actor : /\ shut[x].gen <= started
                        /\ shut[x].at \in {"begin", "reap", "exit"} => shut[x].gen # 0
  BY DEF HostInv, Generations
<1>13. \A h \in Gen : h > started => /\ side'[h].state = "none" /\ out'[h] = {}
                                     /\ ~bridge'[h].terminal /\ router'[h] = "none"
  BY <1>1, <1>6 DEF HostInv, Generations
<1> QED
  BY <1>1, <1>3, <1>6, <1>8, <1>10, <1>11, <1>12, <1>13, ApartKeeps

\* A router begins the shutdown of its generation.
LEMMA RouterShuts ==
    ASSUME HostInv, NEW g \in Gen, router[g] # "none", shut' = [shut EXCEPT ![g] = Doing("begin", g)]
    PROVE  /\ shut' \in [Actor -> ShutType] /\ shut'[g].at = "begin"
           /\ \A y \in Actor \ {g} : shut'[y] = shut[y]
           /\ \A c \in Caller : shut'[c] = shut[c]
           /\ \A y \in Actor : /\ shut'[y].gen <= started
                               /\ shut'[y].at \in {"begin", "reap", "exit"} => shut'[y].gen # 0
<1>1. g \in Actor /\ g \in 0 .. MaxGen /\ g # 0 /\ \A c \in Caller : c # g /\ c \in Actor
  BY Names
<1>2. shut \in [Actor -> ShutType] /\ started \in Nat /\ g \in Nat
  BY <1>1, OfShut
<1>3. g <= started
  BY <1>2 DEF HostInv, Generations
<1>4. /\ shut' \in [Actor -> ShutType] /\ shut'[g].at = "begin" /\ shut'[g].gen = g
      /\ \A y \in Actor \ {g} : shut'[y] = shut[y]
  BY <1>1, <1>2 DEF ShutType, Doing
<1>5. \A y \in Actor : /\ shut[y].gen <= started
                       /\ shut[y].at \in {"begin", "reap", "exit"} => shut[y].gen # 0
  BY DEF HostInv, Generations
<1> QED
  BY <1>1, <1>3, <1>4, <1>5

\* The router's copy of the output ends.
LEMMA CopyEndsKeeps ==
    ASSUME HostInv, NEW g \in Gen, CopyEnds(g)
    PROVE  HostInv'
<1>1. /\ Apart /\ UNCHANGED <<mail, bridge, pending, side, out, faults>>
      /\ router[g] = "copy" /\ router' = [router EXCEPT ![g] = "done"]
      /\ shut' = [shut EXCEPT ![g] = Doing("begin", g)]
  BY DEF CopyEnds, host, threads, procs, Apart
<1>2. /\ bridge \in [Gen -> Bridge] /\ side \in [Gen -> SideType]
      /\ out \in [Gen -> SUBSET (Frame \X {"ok", "no"})]
      /\ router \in [Gen -> {"none", "run", "copy", "done"}] /\ faults \in 0 .. MaxFaults
      /\ mail \in [Caller -> {"none", "ok", "no", "interrupted"}]
      /\ pending \in [Gen -> SUBSET Frame]
  BY DEF HostInv, Types, SideType
<1>3. /\ shut' \in [Actor -> ShutType] /\ shut'[g].at = "begin"
      /\ \A y \in Actor \ {g} : shut'[y] = shut[y]
      /\ \A c \in Caller : shut'[c] = shut[c]
      /\ \A y \in Actor : /\ shut'[y].gen <= started
                          /\ shut'[y].at \in {"begin", "reap", "exit"} => shut'[y].gen # 0
  BY <1>1, RouterShuts
<1>4. /\ router' \in [Gen -> {"none", "run", "copy", "done"}]
      /\ \A h \in Gen \ {g} : router'[h] = router[h]
  BY <1>1, <1>2
<1>5. \A h \in Gen : Alive(h)' <=> Alive(h)
  BY <1>1 DEF Alive
<1>6. Flow'
  BY <1>1, <1>5, QuietFlow DEF Apart
<1>7. Mailed'
  BY <1>1 DEF HostInv, Mailed, Apart
<1>8. Owned'
  <2>1. ASSUME NEW y \in Actor, shut'[y].at = "reap"
        PROVE  bridge[shut'[y].gen].closed /\ bridge[shut'[y].gen].owner = NoOwner
    BY <1>3, <2>1 DEF HostInv, Owned
  <2> QED
    BY <1>1, <2>1 DEF Owned
<1>9. Reaped'
  <2>1. ASSUME NEW y \in Actor, shut'[y].at = "done", shut'[y].gen # 0
        PROVE  side[shut'[y].gen].state # "up"
    BY <1>3, <2>1 DEF HostInv, Reaped, Alive
  <2> QED
    BY <1>1, <2>1 DEF HostInv, Reaped, Alive, Apart
<1>10. \A h \in Gen : h > started => /\ side'[h].state = "none" /\ out'[h] = {}
                                     /\ ~bridge'[h].terminal /\ router'[h] = "none"
  BY <1>1, <1>4 DEF HostInv, Generations
<1> QED
  BY <1>1, <1>2, <1>3, <1>4, <1>6, <1>7, <1>8, <1>9, <1>10, ApartKeeps

\* The router closes its generation when the output ends.
LEMMA RouterFailsKeeps ==
    ASSUME HostInv, NEW g \in Gen, RouterFails(g)
    PROVE  HostInv'
<1>1. /\ Apart /\ UNCHANGED side /\ router[g] = "run" /\ out' = [out EXCEPT ![g] = {}]
  BY DEF RouterFails, host, Apart
<1>2. /\ bridge \in [Gen -> Bridge] /\ side \in [Gen -> SideType] /\ shut \in [Actor -> ShutType]
      /\ out \in [Gen -> SUBSET (Frame \X {"ok", "no"})]
      /\ router \in [Gen -> {"none", "run", "copy", "done"}] /\ faults \in 0 .. MaxFaults
      /\ mail \in [Caller -> {"none", "ok", "no", "interrupted"}]
      /\ pending \in [Gen -> SUBSET Frame]
  BY DEF HostInv, Types, SideType, ShutType
<1>3. /\ out' \in [Gen -> SUBSET (Frame \X {"ok", "no"})] /\ \A h \in Gen : out'[h] \subseteq out[h]
  BY <1>1, <1>2
<1>4. faults' \in 0 .. MaxFaults
  BY <1>2, Names DEF RouterFails
<1>5. \A y \in Actor : /\ shut[y].gen <= started
                       /\ shut[y].at \in {"begin", "reap", "exit"} => shut[y].gen # 0
  BY DEF HostInv, Generations
<1>6. /\ router' \in [Gen -> {"none", "run", "copy", "done"}]
      /\ \A h \in Gen \ {g} : router'[h] = router[h]
      /\ bridge' \in [Gen -> Bridge]
      /\ \A h \in Gen : /\ bridge'[h].terminal = bridge[h].terminal
                        /\ bridge'[h].owner = bridge[h].owner
                        /\ bridge[h].closed => bridge'[h].closed
      /\ mail' \in [Caller -> {"none", "ok", "no", "interrupted"}]
      /\ pending' \in [Gen -> SUBSET Frame]
      /\ \A d \in Caller : mail'[d] \in {mail[d], "interrupted"}
      /\ Mailed'
      /\ shut' \in [Actor -> ShutType]
      /\ \A y \in Actor \ {g} : shut'[y] = shut[y]
      /\ shut'[g] = shut[g] \/ shut'[g].at = "begin"
      /\ \A c \in Caller : shut'[c] = shut[c]
      /\ \A y \in Actor : /\ shut'[y].gen <= started
                          /\ shut'[y].at \in {"begin", "reap", "exit"} => shut'[y].gen # 0
  <2>1. CASE /\ Draining(g) /\ router' = [router EXCEPT ![g] = "copy"]
             /\ UNCHANGED <<shut, mail, pending>>
    <3>1. /\ bridge' \in [Gen -> Bridge]
          /\ \A h \in Gen : /\ bridge'[h].terminal = bridge[h].terminal
                            /\ bridge'[h].owner = bridge[h].owner
                            /\ bridge[h].closed => bridge'[h].closed
      BY <2>1, DrainingOnly
    <3>2. Mailed'
      BY <1>1, <2>1 DEF HostInv, Mailed, Apart
    <3> QED
      BY <1>2, <1>5, <2>1, <3>1, <3>2
  <2>2. CASE /\ Interrupt(g) /\ router' = [router EXCEPT ![g] = "done"]
             /\ shut' = [shut EXCEPT ![g] = Doing("begin", g)] /\ UNCHANGED bridge
    <3>1. /\ mail' \in [Caller -> {"none", "ok", "no", "interrupted"}]
          /\ pending' \in [Gen -> SUBSET Frame]
          /\ \A d \in Caller : mail'[d] \in {mail[d], "interrupted"}
          /\ Mailed'
      BY <1>1, <2>2, InterruptKeeps DEF Apart
    <3>2. /\ shut' \in [Actor -> ShutType] /\ shut'[g].at = "begin"
          /\ \A y \in Actor \ {g} : shut'[y] = shut[y]
          /\ \A c \in Caller : shut'[c] = shut[c]
          /\ \A y \in Actor : /\ shut'[y].gen <= started
                              /\ shut'[y].at \in {"begin", "reap", "exit"} => shut'[y].gen # 0
      BY <1>1, <2>2, RouterShuts
    <3> QED
      BY <1>2, <2>2, <3>1, <3>2
  <2> QED
    BY <2>1, <2>2 DEF RouterFails
<1>7. \A h \in Gen : Alive(h)' <=> Alive(h)
  BY <1>1 DEF Alive
<1>8. Flow'
  BY <1>1, <1>3, <1>6, <1>7, QuietFlow DEF Apart
<1>9. Owned'
  <2>1. ASSUME NEW y \in Actor, shut'[y].at = "reap"
        PROVE  bridge'[shut'[y].gen].closed /\ bridge'[shut'[y].gen].owner = NoOwner
    <3>1. shut'[y] = shut[y]
      BY <1>6, <2>1
    <3>2. PICK h \in Gen : h = shut[y].gen
      BY <2>1, <3>1, OfShut
    <3> QED
      BY <1>6, <2>1, <3>1, <3>2 DEF HostInv, Owned
  <2> QED
    BY <2>1 DEF Owned
<1>10. Reaped'
  <2>1. ASSUME NEW y \in Actor, shut'[y].at = "done", shut'[y].gen # 0
        PROVE  side[shut'[y].gen].state # "up"
    <3>1. shut'[y] = shut[y]
      BY <1>6, <2>1
    <3> QED
      BY <2>1, <3>1 DEF HostInv, Reaped, Alive
  <2>2. \A h \in Gen : Alive(h) => h = proc /\ ~bridge'[h].terminal
    BY <1>6 DEF HostInv, Reaped
  <2> QED
    BY <1>1, <2>1, <2>2 DEF HostInv, Reaped, Alive, Apart
<1>11. \A h \in Gen : h > started => /\ side'[h].state = "none" /\ out'[h] = {}
                                     /\ ~bridge'[h].terminal /\ router'[h] = "none"
  <2>1. \A h \in Gen : h > started => h # g
    BY <1>1 DEF HostInv, Generations
  <2> QED
    BY <1>1, <1>3, <1>6, <2>1 DEF HostInv, Generations
<1> QED
  BY <1>1, <1>2, <1>3, <1>4, <1>6, <1>8, <1>9, <1>10, <1>11, ApartKeeps

-----------------------------------------------------------------------------
\* What is left of a sequence without one of its elements.
LEMMA WithoutThere ==
    ASSUME NEW S, NEW s \in Seq(S), NEW k \in 1 .. Len(s),
           \A i \in 1 .. Len(s) : \A j \in 1 .. Len(s) : s[i] = s[j] => i = j
    PROVE  /\ Without(s, k) \in Seq(S)
           /\ \A i \in 1 .. Len(Without(s, k)) :
                 \E j \in 1 .. Len(s) : Without(s, k)[i] = s[j] /\ s[j] # s[k]
           /\ \A i \in 1 .. Len(Without(s, k)) : \A j \in 1 .. Len(Without(s, k)) :
                 Without(s, k)[i] = Without(s, k)[j] => i = j
<1> DEFINE n == Len(s)
           p == SubSeq(s, 1, k - 1)
           q == SubSeq(s, k + 1, n)
           t == Without(s, k)
<1>1. n \in Nat /\ k \in Nat /\ 1 <= k /\ k <= n
  OBVIOUS
<1>2. p \in Seq(S) /\ Len(p) = k - 1 /\ \A i \in 1 .. k - 1 : p[i] = s[i]
  BY <1>1
<1>3. q \in Seq(S) /\ Len(q) = n - k /\ \A i \in 1 .. n - k : q[i] = s[k + i]
  BY <1>1
<1>4. t = p \o q
  BY DEF Without
<1> HIDE DEF p, q
<1>5. /\ t \in Seq(S) /\ Len(t) = n - 1
      /\ \A i \in 1 .. k - 1 : t[i] = p[i]
      /\ \A i \in 1 .. n - k : t[(k - 1) + i] = q[i]
  BY <1>1, <1>2, <1>3, <1>4
<1>6. ASSUME NEW i \in 1 .. n - 1
      PROVE  t[i] = s[IF i < k THEN i ELSE i + 1]
  <2>1. CASE i < k
    BY <1>1, <1>2, <1>5, <2>1
  <2>2. CASE ~(i < k)
    <3>1. i - (k - 1) \in 1 .. n - k /\ (k - 1) + (i - (k - 1)) = i /\ k + (i - (k - 1)) = i + 1
      BY <1>1, <2>2
    <3>2. t[i] = q[i - (k - 1)]
      BY <1>5, <3>1
    <3> QED
      BY <1>3, <2>2, <3>1, <3>2
  <2> QED
    BY <2>1, <2>2
<1> HIDE DEF t
<1>7. ASSUME NEW i \in 1 .. Len(t)
      PROVE  \E j \in 1 .. n : t[i] = s[j] /\ s[j] # s[k]
  <2>1. /\ i \in 1 .. n - 1
        /\ (IF i < k THEN i ELSE i + 1) \in 1 .. n /\ (IF i < k THEN i ELSE i + 1) # k
    BY <1>1, <1>5
  <2> QED
    BY <1>6, <2>1
<1>8. ASSUME NEW i \in 1 .. Len(t), NEW j \in 1 .. Len(t), t[i] = t[j]
      PROVE  i = j
  <2>1. /\ i \in 1 .. n - 1 /\ j \in 1 .. n - 1
        /\ (IF i < k THEN i ELSE i + 1) \in 1 .. n /\ (IF j < k THEN j ELSE j + 1) \in 1 .. n
    BY <1>1, <1>5
  <2>2. (IF i < k THEN i ELSE i + 1) = (IF j < k THEN j ELSE j + 1)
    BY <1>6, <1>8, <2>1
  <2> QED
    BY <1>1, <2>1, <2>2
<1> QED
  BY <1>5, <1>7, <1>8 DEF t

\* A running process takes up the request f, or answers it.
LEMMA WorksKeeps ==
    ASSUME HostInv, NEW g \in Gen, Apart, Alive(g),
           UNCHANGED <<mail, shut, bridge, pending, router, faults>>,
           NEW f \in Frame,
           side' \in [Gen -> SideType], side'[g].state = "up",
           \A h \in Gen \ {g} : side'[h] = side[h],
           \A k \in 1 .. Len(side'[g].inbox) :
               \E j \in 1 .. Len(side[g].inbox) : side'[g].inbox[k] = side[g].inbox[j],
           \A k \in 1 .. Len(side'[g].inbox) :
               side'[g].inbox[k] # f /\ side'[g].inbox[k] # side'[g].bulk,
           \A k \in 1 .. Len(side'[g].inbox) : \A l \in 1 .. Len(side'[g].inbox) :
               side'[g].inbox[k] = side'[g].inbox[l] => k = l,
           Expects(g, f), \A reply \in out[g] : reply[1] # f,
           side'[g].bulk # NoOwner =>
               side'[g].bulk \in {side[g].bulk, f} /\ bridge[g].owner = side'[g].bulk,
           \/ UNCHANGED out
           \/ side'[g].bulk # f /\ \E w \in {"ok", "no"} : out' = [out EXCEPT ![g] = @ \cup {<<f, w>>}]
    PROVE  HostInv'
<1> DEFINE t == side'[g].inbox
           b == side'[g].bulk
<1>1. /\ bridge \in [Gen -> Bridge] /\ side \in [Gen -> SideType] /\ shut \in [Actor -> ShutType]
      /\ out \in [Gen -> SUBSET (Frame \X {"ok", "no"})]
      /\ router \in [Gen -> {"none", "run", "copy", "done"}] /\ faults \in 0 .. MaxFaults
      /\ mail \in [Caller -> {"none", "ok", "no", "interrupted"}]
      /\ pending \in [Gen -> SUBSET Frame]
  BY DEF HostInv, Types, SideType, ShutType
<1>2. /\ side' \in [Gen -> SideType] /\ side'[g].state = "up" /\ side'[g].inbox = t
      /\ side'[g].bulk = b /\ \A h \in Gen \ {g} : side'[h] = side[h]
  OBVIOUS
<1>3. /\ out' \in [Gen -> SUBSET (Frame \X {"ok", "no"})]
      /\ \A h \in Gen \ {g} : out'[h] = out[h]
      /\ out'[g] = out[g] \/ (b # f /\ \E w \in {"ok", "no"} : out'[g] = out[g] \cup {<<f, w>>})
  <2>1. CASE UNCHANGED out
    BY <1>1, <2>1
  <2>2. CASE b # f /\ \E w \in {"ok", "no"} : out' = [out EXCEPT ![g] = @ \cup {<<f, w>>}]
    <3>1. PICK w \in {"ok", "no"} : out' = [out EXCEPT ![g] = @ \cup {<<f, w>>}]
      BY <2>2
    <3>2. <<f, w>> \in Frame \X {"ok", "no"}
      OBVIOUS
    <3> QED
      BY <1>1, <2>2, <3>1, <3>2
  <2> QED
    BY <2>1, <2>2
<1>4. \A h \in Gen : Alive(h)' <=> Alive(h)
  BY <1>2 DEF Alive
<1>5. FlowOf(g)
  BY DEF HostInv, Flow
<1>6. Mailed' /\ Owned'
  BY DEF HostInv, Mailed, Owned, Apart
<1>7. Reaped'
  <2>1. ASSUME NEW y \in Actor, shut[y].at = "done", shut[y].gen # 0
        PROVE  side'[shut[y].gen].state # "up"
    <3>1. PICK h \in Gen : h = shut[y].gen
      BY <2>1, OfShut
    <3>2. h # g
      BY <2>1, <3>1 DEF HostInv, Reaped
    <3> QED
      BY <1>2, <2>1, <3>1, <3>2 DEF HostInv, Reaped, Alive
  <2>2. \A h \in Gen : Alive(h)' => h = proc /\ ~bridge[h].terminal
    BY <1>4 DEF HostInv, Reaped
  <2>3. \A h \in Gen : ~Alive(h)' => side'[h].inbox = << >> /\ side'[h].bulk = NoOwner
    <3> SUFFICES ASSUME NEW h \in Gen, ~Alive(h)'
                 PROVE  side'[h].inbox = << >> /\ side'[h].bulk = NoOwner
      OBVIOUS
    <3>1. h # g /\ ~Alive(h)
      BY <1>4
    <3> QED
      BY <1>2, <3>1 DEF HostInv, Reaped
  <2> QED
    BY <2>1, <2>2, <2>3 DEF Reaped, Alive, Apart
<1>8. call' = call /\ mail' = mail /\ bridge' = bridge
  BY DEF Apart
<1>9. Flow'
  <2> SUFFICES ASSUME NEW h \in Gen, Alive(h)'
               PROVE  FlowOf(h)'
    BY DEF Flow
  <2>1. CASE h # g
    <3>1. FlowOf(h) /\ side'[h] = side[h] /\ out'[h] = out[h] /\ call' = call
      BY <1>2, <1>3, <1>4, <2>1 DEF HostInv, Flow, Apart
    <3> QED
      BY <3>1 DEF FlowOf, Expects, KindOf
  <2>2. CASE h = g
    <3>1. ASSUME NEW k \in 1 .. Len(t)
          PROVE  /\ Expects(g, t[k]) /\ t[k] # b
                 /\ KindOf(t[k]) = "bulk" => bridge[g].owner = t[k]
                 /\ \A reply \in out'[g] : t[k] # reply[1]
      <4>1. PICK j \in 1 .. Len(side[g].inbox) : t[k] = side[g].inbox[j]
        OBVIOUS
      <4>2. /\ Expects(g, t[k])
            /\ KindOf(t[k]) = "bulk" => bridge[g].owner = t[k]
            /\ \A reply \in out[g] : t[k] # reply[1]
        BY <1>5, <4>1 DEF FlowOf
      <4> QED
        BY <1>3, <4>2
    <3>2. b # NoOwner => Expects(g, b) /\ bridge[g].owner = b
      BY <1>5 DEF FlowOf
    <3>3. ASSUME NEW reply \in out'[g]
          PROVE  /\ Expects(g, reply[1]) /\ reply[1] # b
                 /\ \A other \in out'[g] : other[1] = reply[1] => other = reply
      <4>1. f # NoOwner
        BY Names
      <4>2. \A r \in out[g] : /\ Expects(g, r[1]) /\ r[1] # b /\ r[1] # f
                              /\ \A other \in out[g] : other[1] = r[1] => other = r
        <5>1. \A r \in out[g] : r[1] # NoOwner /\ r[1] # side[g].bulk
          BY <1>5, Frames, Names DEF HostInv, FlowOf
        <5> QED
          BY <1>5, <5>1 DEF FlowOf
      <4> QED
        BY <1>3, <4>2
    <3> QED
      BY <1>2, <1>8, <2>2, <3>1, <3>2, <3>3 DEF FlowOf, Expects, KindOf
  <2> QED
    BY <2>1, <2>2
<1>10. \A x \in Actor : /\ shut[x].gen <= started
                        /\ shut[x].at \in {"begin", "reap", "exit"} => shut[x].gen # 0
  BY DEF HostInv, Generations
<1>11. \A h \in Gen : h > started => /\ side'[h].state = "none" /\ out'[h] = {}
                                     /\ ~bridge'[h].terminal /\ router'[h] = "none"
  <2>1. \A h \in Gen : h > started => h # g
    BY DEF HostInv, Generations, Alive
  <2> QED
    BY <1>2, <1>3, <2>1 DEF HostInv, Generations
<1> QED
  BY <1>1, <1>2, <1>3, <1>6, <1>7, <1>9, <1>10, <1>11, ApartKeeps

\* What a running process holds.
LEMMA OfSide ==
    ASSUME HostInv, NEW g \in Gen, Alive(g)
    PROVE  /\ side \in [Gen -> SideType] /\ side[g].inbox \in Seq(Frame)
           /\ side[g].bulk \in Frame \cup {NoOwner} /\ side[g].vault \in Vault \cup {NoVault}
           /\ \A k \in 1 .. Len(side[g].inbox) :
                 /\ side[g].inbox[k] \in Frame /\ Expects(g, side[g].inbox[k])
                 /\ side[g].inbox[k] # side[g].bulk
                 /\ KindOf(side[g].inbox[k]) = "bulk" => bridge[g].owner = side[g].inbox[k]
                 /\ \A l \in 1 .. Len(side[g].inbox) :
                       side[g].inbox[k] = side[g].inbox[l] => k = l
                 /\ \A reply \in out[g] : reply[1] # side[g].inbox[k]
           /\ side[g].bulk # NoOwner => /\ Expects(g, side[g].bulk) /\ bridge[g].owner = side[g].bulk
                                        /\ \A reply \in out[g] : reply[1] # side[g].bulk
<1>1. side \in [Gen -> SideType]
  BY DEF HostInv, Types, SideType
<1>2. /\ side[g].inbox \in Seq(Frame) /\ side[g].bulk \in Frame \cup {NoOwner}
      /\ side[g].vault \in Vault \cup {NoVault}
  BY <1>1 DEF SideType
<1>3. FlowOf(g)
  BY DEF HostInv, Flow
<1> QED
  BY <1>1, <1>2, <1>3 DEF FlowOf

\* The process answers a frame or takes up an upload.
LEMMA ServeKeeps ==
    ASSUME HostInv, NEW g \in Gen, Serve(g)
    PROVE  HostInv'
<1>1. /\ Apart /\ UNCHANGED <<mail, shut, bridge, pending, router, faults>>
      /\ Alive(g) /\ side[g].bulk = NoOwner /\ side[g].inbox # << >>
  BY DEF Serve, host, threads, Apart
<1> DEFINE s == side[g].inbox
           t == Tail(s)
           f == Head(s)
<1>2. s \in Seq(Frame) /\ Len(s) \in Nat /\ 1 \in 1 .. Len(s)
  BY <1>1, OfSide
<1>3. /\ f = s[1] /\ t \in Seq(Frame) /\ Len(t) = Len(s) - 1
      /\ \A k \in 1 .. Len(t) : t[k] = s[k + 1] /\ k + 1 \in 1 .. Len(s)
  BY <1>1, <1>2
<1>4. /\ f \in Frame /\ Expects(g, f) /\ (KindOf(f) = "bulk" => bridge[g].owner = f)
      /\ \A reply \in out[g] : reply[1] # f
      /\ \A l \in 1 .. Len(s) : s[1] = s[l] => 1 = l
  BY <1>1, <1>2, <1>3, OfSide
<1>5. /\ \A k \in 1 .. Len(t) : \E j \in 1 .. Len(s) : t[k] = s[j]
      /\ \A k \in 1 .. Len(t) : t[k] # f /\ t[k] # NoOwner
  <2>1. ASSUME NEW k \in 1 .. Len(t)
        PROVE  t[k] # f /\ t[k] # NoOwner
    <3>1. t[k] = s[k + 1] /\ k + 1 \in 1 .. Len(s) /\ k + 1 # 1
      BY <1>2, <1>3
    <3>2. s[k + 1] # s[1] /\ s[k + 1] \in Frame
      BY <1>1, <1>2, <1>4, <3>1, OfSide
    <3> QED
      BY <1>3, <3>1, <3>2, Names
  <2> QED
    BY <1>3, <2>1
<1>6. \A k \in 1 .. Len(t) : \A l \in 1 .. Len(t) : t[k] = t[l] => k = l
  <2>1. ASSUME NEW k \in 1 .. Len(t), NEW l \in 1 .. Len(t), t[k] = t[l]
        PROVE  k = l
    <3>1. s[k + 1] = s[l + 1] /\ k + 1 \in 1 .. Len(s) /\ l + 1 \in 1 .. Len(s)
      BY <1>3, <2>1
    <3>2. k + 1 = l + 1
      BY <1>1, <3>1, OfSide
    <3> QED
      BY <1>2, <1>3, <3>2
  <2> QED
    BY <2>1
<1>7. side[g] \in SideType /\ side[g].state = "up"
  BY <1>1, OfSide DEF Alive
<1>8. PICK v \in Vault \cup {NoVault}, b \in {f, NoOwner}, w \in {"ok", "no"} :
         /\ side' = [side EXCEPT ![g] = [state |-> "up", inbox |-> t, bulk |-> b, vault |-> v]]
         /\ b = f => KindOf(f) = "bulk" /\ UNCHANGED out
         /\ b # f => Answers(g, f, w)
  <2> DEFINE rest == [side[g] EXCEPT !.inbox = Tail(@)]
             o == IF f[2] = "reopen" THEN call[f[1]].recovery ELSE call[f[1]].vault
  <2>1. o \in Vault \cup {NoVault}
    <3>1. f[1] \in Caller
      BY <1>4, Names
    <3>2. call[f[1]] \in Call
      BY <3>1, OfCall
    <3> QED
      BY <3>2 DEF Call
  <2>2. /\ [rest EXCEPT !.vault = o] = [state |-> "up", inbox |-> t, bulk |-> NoOwner, vault |-> o]
        /\ rest = [state |-> "up", inbox |-> t, bulk |-> NoOwner, vault |-> side[g].vault]
        /\ [rest EXCEPT !.bulk = f] = [state |-> "up", inbox |-> t, bulk |-> f, vault |-> side[g].vault]
    <3>1. PICK u \in Seq(Frame) : u = t
      BY <1>3
    <3>2. rest = [side[g] EXCEPT !.inbox = u]
      BY <1>7, <3>1 DEF SideType
    <3>3. rest = [state |-> "up", inbox |-> u, bulk |-> NoOwner, vault |-> side[g].vault]
      BY <1>1, <1>7, <3>2 DEF SideType
    <3> HIDE DEF rest, o, t, f
    <3> QED
      BY <3>1, <3>3
  <2>3. side[g].vault \in Vault \cup {NoVault} /\ f # NoOwner
    BY <1>1, <1>4, OfSide, Names
  <2> HIDE DEF rest, o
  <2>4. CASE side' = [side EXCEPT ![g] = [rest EXCEPT !.vault = o]] /\ Answers(g, f, "ok")
    BY <2>1, <2>2, <2>3, <2>4
  <2>5. CASE /\ side' = [side EXCEPT ![g] = rest]
             /\ \E a \in {"ok", "no"} : Answers(g, f, a)
    BY <2>2, <2>3, <2>5
  <2>6. CASE /\ KindOf(f) = "bulk" /\ side' = [side EXCEPT ![g] = [rest EXCEPT !.bulk = f]]
             /\ UNCHANGED out
    BY <2>2, <2>3, <2>6
  <2> QED
    BY <2>4, <2>5, <2>6 DEF Serve, rest, o
<1>9. /\ b \in Frame \cup {NoOwner} /\ (b # NoOwner => bridge[g].owner = b)
      /\ \A k \in 1 .. Len(t) : t[k] # b
      /\ \/ UNCHANGED out
         \/ b # f /\ out' = [out EXCEPT ![g] = @ \cup {<<f, w>>}]
  BY <1>4, <1>5, <1>8 DEF Answers
<1> HIDE DEF t, f
<1>10. /\ side' \in [Gen -> SideType] /\ side'[g].state = "up" /\ side'[g].inbox = t
       /\ side'[g].bulk = b /\ \A h \in Gen \ {g} : side'[h] = side[h]
  <2>1. [state |-> "up", inbox |-> t, bulk |-> b, vault |-> v] \in SideType
    BY <1>3, <1>9 DEF SideType
  <2>2. side \in [Gen -> SideType]
    BY <1>1, OfSide
  <2> QED
    BY <1>8, <2>1, <2>2
<1> QED
  BY <1>1, <1>4, <1>5, <1>6, <1>8, <1>9, <1>10, WorksKeeps

\* During an upload a cancel is answered out of order.
LEMMA PumpKeeps ==
    ASSUME HostInv, NEW g \in Gen, Pump(g)
    PROVE  HostInv'
<1>1. /\ Apart /\ UNCHANGED <<mail, shut, bridge, pending, router, faults>>
      /\ Alive(g) /\ side[g].bulk # NoOwner
  BY DEF Pump, host, threads, Apart
<1> DEFINE s == side[g].inbox
<1>2. PICK k \in 1 .. Len(s) :
         /\ side' = [side EXCEPT ![g].inbox = Without(@, k)]
         /\ Answers(g, s[k], "ok")
  BY DEF Pump
<1> DEFINE t == Without(s, k)
<1>3. /\ side \in [Gen -> SideType] /\ s \in Seq(Frame) /\ side[g].bulk \in Frame \cup {NoOwner}
      /\ side[g].vault \in Vault \cup {NoVault} /\ side[g].state = "up" /\ side[g] \in SideType
  BY <1>1, OfSide DEF Alive
<1>4. /\ \A i \in 1 .. Len(s) : \A j \in 1 .. Len(s) : s[i] = s[j] => i = j
  BY <1>1, OfSide
<1>5. /\ t \in Seq(Frame)
      /\ \A i \in 1 .. Len(t) : \E j \in 1 .. Len(s) : t[i] = s[j] /\ s[j] # s[k]
      /\ \A i \in 1 .. Len(t) : \A j \in 1 .. Len(t) : t[i] = t[j] => i = j
  BY <1>3, <1>4, WithoutThere
<1> HIDE DEF t
<1>6. /\ side' \in [Gen -> SideType] /\ side'[g].state = "up" /\ side'[g].inbox = t
      /\ side'[g].bulk = side[g].bulk /\ \A h \in Gen \ {g} : side'[h] = side[h]
  <2>1. side' = [side EXCEPT ![g].inbox = t]
    BY <1>2, <1>3 DEF t
  <2> QED
    BY <1>3, <1>5, <2>1 DEF SideType
<1>7. PICK f \in Frame : f = s[k]
  BY <1>1, OfSide
<1>8. /\ Expects(g, f) /\ f # side[g].bulk /\ bridge[g].owner = side[g].bulk
      /\ \A reply \in out[g] : reply[1] # f
  BY <1>1, <1>7, OfSide
<1>9. /\ \A i \in 1 .. Len(t) : \E j \in 1 .. Len(s) : t[i] = s[j]
      /\ \A i \in 1 .. Len(t) : t[i] # f /\ t[i] # side[g].bulk
  BY <1>1, <1>5, <1>7, OfSide
<1>10. \/ UNCHANGED out
       \/ out' = [out EXCEPT ![g] = @ \cup {<<f, "ok">>}]
  BY <1>2, <1>7 DEF Answers
<1>11. /\ \A i \in 1 .. Len(side'[g].inbox) :
             \E j \in 1 .. Len(side[g].inbox) : side'[g].inbox[i] = side[g].inbox[j]
       /\ \A i \in 1 .. Len(side'[g].inbox) :
             side'[g].inbox[i] # f /\ side'[g].inbox[i] # side'[g].bulk
       /\ \A i \in 1 .. Len(side'[g].inbox) : \A j \in 1 .. Len(side'[g].inbox) :
             side'[g].inbox[i] = side'[g].inbox[j] => i = j
       /\ side'[g].bulk \in {side[g].bulk, f} /\ bridge[g].owner = side'[g].bulk
       /\ side'[g].bulk # f
  BY <1>5, <1>6, <1>8, <1>9
<1> QED
  BY <1>1, <1>6, <1>8, <1>10, <1>11, WorksKeeps

\* The upload ends and is answered.
LEMMA BulkEndsKeeps ==
    ASSUME HostInv, NEW g \in Gen, BulkEnds(g)
    PROVE  HostInv'
<1>1. /\ Apart /\ UNCHANGED <<mail, shut, bridge, pending, router, faults>>
      /\ Alive(g) /\ side[g].bulk # NoOwner /\ Answers(g, side[g].bulk, "ok")
      /\ side' = [side EXCEPT ![g].bulk = NoOwner]
  BY DEF BulkEnds, host, threads, Apart
<1>2. /\ side \in [Gen -> SideType] /\ side[g].inbox \in Seq(Frame) /\ side[g].bulk \in Frame
      /\ side[g].vault \in Vault \cup {NoVault} /\ side[g].state = "up" /\ side[g] \in SideType
  BY <1>1, OfSide DEF Alive
<1>3. PICK f \in Frame : f = side[g].bulk
  BY <1>2
<1> DEFINE t == side[g].inbox
<1>4. /\ side' \in [Gen -> SideType] /\ side'[g].state = "up" /\ side'[g].inbox = t
      /\ side'[g].bulk = NoOwner /\ \A h \in Gen \ {g} : side'[h] = side[h]
  BY <1>1, <1>2 DEF SideType
<1>5. /\ Expects(g, f) /\ f # NoOwner /\ \A reply \in out[g] : reply[1] # f
      /\ \A k \in 1 .. Len(t) : t[k] \in Frame /\ t[k] # f
      /\ \A k \in 1 .. Len(t) : \A l \in 1 .. Len(t) : t[k] = t[l] => k = l
  BY <1>1, <1>3, OfSide
<1>6. \A k \in 1 .. Len(t) : t[k] # NoOwner
  BY <1>5, Names
<1>7. \/ UNCHANGED out
      \/ out' = [out EXCEPT ![g] = @ \cup {<<f, "ok">>}]
  BY <1>1, <1>3 DEF Answers
<1> QED
  BY <1>1, <1>4, <1>5, <1>6, <1>7, WorksKeeps

-----------------------------------------------------------------------------
\* Nothing has been started, nobody waits.
LEMMA InitKeeps == Init => HostInv
<1> SUFFICES ASSUME Init PROVE HostInv
  OBVIOUS
<1>1. /\ proc = 0 /\ holder = NoOne /\ started = 0 /\ active = [vault |-> NoVault, gen |-> 0]
      /\ claimed = FALSE /\ gate = FALSE
      /\ call = [c \in Caller |-> NoCall] /\ calls = [c \in Caller |-> 0]
      /\ mail = [c \in Caller |-> "none"] /\ shut = [x \in Actor |-> NoShut]
      /\ bridge = [g \in Gen |-> NewBridge] /\ pending = [g \in Gen |-> {}]
      /\ side = [g \in Gen |-> NoSide] /\ out = [g \in Gen |-> {}]
      /\ router = [g \in Gen |-> "none"] /\ faults = 0
  BY DEF Init
<1>2. NoShut \in ShutType /\ NoShut.at = "none" /\ NoShut.gen = 0
  BY Names DEF NoShut, ShutType
<1>3. NewBridge \in Bridge /\ ~NewBridge.terminal
  BY DEF NewBridge, Bridge, NoOwner
<1>4. NoSide \in SideType /\ NoSide.state = "none" /\ NoSide.inbox = << >> /\ NoSide.bulk = NoOwner
  <2>1. << >> \in Seq(Frame) /\ NoOwner \in Frame \cup {NoOwner}
    OBVIOUS
  <2> QED
    BY <2>1 DEF NoSide, SideType
<1>5. NoCall \in Call /\ NoCall.at = "idle" /\ NoCall.gen = 0 /\ Sound(NoCall)
  BY Names DEF NoCall, Sound
<1>6. Types
  <2>1. active \in [vault : Vault \cup {NoVault}, gen : 0 .. MaxGen] /\ 0 \in 0 .. MaxFaults
    BY <1>1, Names
  <2> QED
    BY <1>1, <1>2, <1>3, <1>4, <1>5, <2>1, Names DEF Types, ShutType, SideType
<1>7. Locked
  BY <1>1, <1>5, Names DEF Locked, Holding
<1>8. Generations
  BY <1>1, <1>2, <1>3, <1>4, <1>5, Names DEF Generations
<1>9. \A g \in Gen : ~Alive(g)
  BY <1>1, <1>4 DEF Alive
<1>10. Reaped
  BY <1>1, <1>2, <1>4, <1>9 DEF Reaped
<1>11. Mailed /\ Flow
  BY <1>1, <1>9 DEF Mailed, Flow
<1>12. Owned
  BY <1>1, <1>2 DEF Owned
<1>13. Attempts /\ Alone /\ Passed
  BY <1>1, <1>5 DEF Attempts, Alone, Busy, Passed
<1> QED
  BY <1>6, <1>7, <1>8, <1>10, <1>11, <1>12, <1>13 DEF HostInv

\* A step that changes nothing keeps the invariant.
LEMMA StutterKeeps ==
    ASSUME HostInv, UNCHANGED vars
    PROVE  HostInv'
<1>1. /\ Apart /\ UNCHANGED <<mail, shut, bridge, pending, side, out, router, faults>>
  BY DEF vars, host, threads, procs, Apart
<1>2. /\ bridge \in [Gen -> Bridge] /\ side \in [Gen -> SideType] /\ shut \in [Actor -> ShutType]
      /\ out \in [Gen -> SUBSET (Frame \X {"ok", "no"})]
      /\ router \in [Gen -> {"none", "run", "copy", "done"}] /\ faults \in 0 .. MaxFaults
      /\ mail \in [Caller -> {"none", "ok", "no", "interrupted"}]
      /\ pending \in [Gen -> SUBSET Frame]
  BY DEF HostInv, Types, SideType, ShutType
<1>3. Flow'
  BY <1>1, QuietFlow DEF Apart, Alive
<1>4. Reaped' /\ Mailed' /\ Owned'
  BY <1>1 DEF HostInv, Reaped, Mailed, Owned, Alive, Apart
<1>5. \A x \in Actor : /\ shut[x].gen <= started
                       /\ shut[x].at \in {"begin", "reap", "exit"} => shut[x].gen # 0
  BY DEF HostInv, Generations
<1>6. \A h \in Gen : h > started => /\ side'[h].state = "none" /\ out'[h] = {}
                                    /\ ~bridge'[h].terminal /\ router'[h] = "none"
  BY <1>1 DEF HostInv, Generations
<1> QED
  BY <1>1, <1>2, <1>3, <1>4, <1>5, <1>6, ApartKeeps

\* Every step keeps the invariant.
LEMMA NextKeeps ==
    ASSUME HostInv, [Next]_vars
    PROVE  HostInv'
<1>1. ASSUME NEW c \in Caller, Arrive(c) \/ CallStep(c) \/ StopTicket(c)
      PROVE  HostInv'
  BY <1>1, ArriveKeeps, StopTicketKeeps, EnsureKeeps, ReplacedKeeps, EnterKeeps, AdmitKeeps,
     ReceiveKeeps, TimesOutKeeps, DrainKeeps, ExitedKeeps, ReleaseKeeps, AcceptKeeps, FailKeeps,
     FailShutKeeps, ClearKeeps, AbandonKeeps, AbandonShutKeeps, ControlKeeps, ControlShutKeeps,
     CloseEndsKeeps, GateTimesOutKeeps
  DEF CallStep
<1>2. ASSUME NEW x \in Actor, ShutStep(x)
      PROVE  HostInv'
  BY <1>2, ShutBeginKeeps, ReapKeeps, BulkExitKeeps DEF ShutStep
<1>3. ASSUME NEW g \in Gen, RouterStep(g)
      PROVE  HostInv'
  BY <1>3, RouteKeeps, RouterFailsKeeps, CopyEndsKeeps DEF RouterStep
<1>4. ASSUME NEW g \in Gen, SideStep(g) \/ Pump(g) \/ Crash(g)
      PROVE  HostInv'
  <2>1. CASE Leaves(g)
    <3>1. /\ Apart /\ Alive(g) /\ side' = [side EXCEPT ![g] = GoneSide]
          /\ UNCHANGED <<mail, shut, bridge, pending, out, router, faults>>
      BY <2>1 DEF Leaves, host, threads, Apart
    <3>2. faults \in 0 .. MaxFaults
      BY DEF HostInv, Types
    <3> QED
      BY <3>1, <3>2, LeavesKeeps
  <2>2. CASE Crash(g)
    <3>1. /\ Apart /\ Alive(g) /\ side' = [side EXCEPT ![g] = GoneSide]
          /\ UNCHANGED <<mail, shut, bridge, pending, out, router>>
          /\ faults < MaxFaults /\ faults' = faults + 1
      BY <2>2 DEF Crash, host, threads, Apart
    <3>2. faults' \in 0 .. MaxFaults
      BY <3>1, Names DEF HostInv, Types
    <3> QED
      BY <3>1, <3>2, LeavesKeeps
  <2> QED
    BY <1>4, <2>1, <2>2, ServeKeeps, BulkEndsKeeps, PumpKeeps DEF SideStep
<1> QED
  BY <1>1, <1>2, <1>3, <1>4, StutterKeeps DEF Next

\* The invariant holds in every behaviour of the bridge.
LEMMA InvariantHolds == Spec => []HostInv
<1>1. HostInv /\ [Next]_vars => HostInv'
  BY NextKeeps
<1> QED
  BY InitKeeps, <1>1, PTL DEF Spec

\* Every variable keeps its type, and the mutex is held exactly while a thread
\* waits for a process to end.
THEOREM TypeCorrect == Spec => []TypeOK
<1>1. HostInv => TypeOK
  <2> SUFFICES ASSUME HostInv PROVE TypeOK
    OBVIOUS
  <2>1. holder # NoOne <=> \E c \in Caller : call[c].at \in Holding
    <3>1. holder \in Caller \cup {NoOne}
      BY DEF HostInv, Types
    <3> QED
      BY <3>1, Names DEF HostInv, Locked
  <2> QED
    BY <2>1 DEF HostInv, Types, TypeOK, Holding
<1> QED
  BY InvariantHolds, <1>1, PTL

\* A vault has one sidecar at any time: spawn_bridge runs only when the process
\* before has been reaped, whichever thread or router gave up on it.
THEOREM OneProcess == Spec => []OneSidecar
<1>1. HostInv => OneSidecar
  <2> SUFFICES ASSUME HostInv PROVE OneSidecar
    OBVIOUS
  <2>1. { g \in Gen : Alive(g) } \subseteq {proc}
    BY OnlyCurrent
  <2>2. IsFiniteSet({proc}) /\ Cardinality({proc}) = 1
    BY FS_Singleton
  <2>3. Cardinality({ g \in Gen : Alive(g) }) <= Cardinality({proc})
    BY <2>1, <2>2, FS_Subset
  <2> QED
    BY <2>2, <2>3 DEF OneSidecar
<1> QED
  BY InvariantHolds, <1>1, PTL

\* An upload is never killed: who reaches the kill in shutdown found the
\* generation unowned, and closed its input before anyone else could own it.
THEOREM UploadsAreDrained == Spec => []BulkNotKilled
<1>1. HostInv => BulkNotKilled
  <2> SUFFICES ASSUME HostInv, NEW x \in Actor, shut[x].at = "reap"
               PROVE  /\ side[shut[x].gen].bulk = NoOwner
                      /\ \A k \in 1 .. Len(side[shut[x].gen].inbox) :
                            KindOf(side[shut[x].gen].inbox[k]) # "bulk"
    BY DEF BulkNotKilled
  <2>1. PICK g \in Gen : g = shut[x].gen
    BY OfShut
  <2>2. bridge[g].owner = NoOwner
    BY <2>1 DEF HostInv, Owned
  <2>3. CASE Alive(g)
    <3>1. side[g].bulk = NoOwner
      BY <2>2, <2>3, OfSide
    <3>2. \A k \in 1 .. Len(side[g].inbox) : KindOf(side[g].inbox[k]) # "bulk"
      BY <2>2, <2>3, OfSide, Names
    <3> QED
      BY <2>1, <3>1, <3>2
  <2>4. CASE ~Alive(g)
    <3>1. side[g].bulk = NoOwner /\ side[g].inbox = << >> /\ Len(<< >>) = 0
      BY <2>4 DEF HostInv, Reaped
    <3> QED
      BY <2>1, <3>1
  <2> QED
    BY <2>3, <2>4
<1> QED
  BY InvariantHolds, <1>1, PTL

\* A request that may have written is written to one process only; a read, or a
\* look at the jobs, to two at most.
THEOREM NothingIsReplayed == Spec => []NoReplay
<1>1. HostInv => NoReplay
  <2> SUFFICES ASSUME HostInv, NEW c \in Caller
               PROVE  call[c].sent <= IF call[c].kind \in {"read", "jobs"} THEN 2 ELSE 1
    BY DEF NoReplay
  <2>1. call[c] \in Call /\ Sound(call[c])
    BY OfCall
  <2>2. call[c].attempt \in 0 .. 1 /\ call[c].sent \in 0 .. 2
    BY <2>1 DEF Call
  <2> QED
    BY <2>1, <2>2 DEF Sound, Replayable
<1> QED
  BY InvariantHolds, <1>1, PTL

\* Only a reply of the current process, an erasure of its own generation, a
\* restart or a close change what the host holds for the open vault.
LEMMA IdentityStep ==
    ASSUME HostInv, [Next]_vars
    PROVE  KeepsIdentity
<1> SUFFICES ASSUME proc # 0, proc' = proc, active.gen = proc, active.vault # NoVault
             PROVE  active'.gen = proc /\ active'.vault # NoVault
  BY DEF KeepsIdentity
<1>1. ASSUME NEW c \in Caller, Accept(c)
      PROVE  active'.gen = proc /\ active'.vault # NoVault
  <2>1. Sound(call[c]) /\ call[c].at = "accept"
    BY <1>1, OfCall DEF Accept
  <2>2. NoVault \notin Vault
    BY HostAssumption
  <2> QED
    BY <1>1, <2>1, <2>2 DEF Accept, Current, Sound
<1>2. ASSUME NEW c \in Caller, Clear(c)
      PROVE  active'.gen = proc /\ active'.vault # NoVault
  <2>1. call[c].gen # proc
    BY <1>2 DEF Clear, HostInv, Passed
  <2> QED
    BY <1>2, <2>1 DEF Clear, Cleared
<1>3. ASSUME NEW c \in Caller, CloseEnds(c)
      PROVE  FALSE
  BY <1>3 DEF CloseEnds, HostInv, Alone
<1>4. ASSUME NEW c \in Caller, ControlShut(c)
      PROVE  active' = active
  <2>1. ~Spawn
    BY OfCall, Names DEF Spawn
  <2> QED
    BY <1>4, <2>1 DEF ControlShut
<1>5. ASSUME NEW c \in Caller,
             \/ Arrive(c) \/ StopTicket(c) \/ Ensure(c) \/ Replaced(c) \/ Enter(c) \/ Admit(c)
             \/ Receive(c) \/ TimesOut(c) \/ Drain(c) \/ Exited(c) \/ Release(c) \/ Fail(c)
             \/ FailShut(c) \/ Abandon(c) \/ AbandonShut(c) \/ Control(c) \/ GateTimesOut(c)
      PROVE  active' = active
  BY <1>5 DEF Arrive, StopTicket, Ensure, Replaced, Enter, Admit, Receive, TimesOut, Drain, Exited,
              Release, Fail, FailShut, Abandon, AbandonShut, Control, GateTimesOut, host
<1>6. ASSUME NEW x \in Actor, ShutStep(x)
      PROVE  active' = active
  BY <1>6 DEF ShutStep, ShutBegin, Reap, BulkExit, host
<1>7. ASSUME NEW g \in Gen, RouterStep(g) \/ SideStep(g) \/ Pump(g) \/ Crash(g)
      PROVE  active' = active
  BY <1>7 DEF RouterStep, Route, RouterFails, CopyEnds, SideStep, Serve, BulkEnds, Leaves, Pump,
              Crash, host
<1>8. CASE UNCHANGED vars
  BY <1>8 DEF vars, host
<1>9. ASSUME NEW c \in Caller, Arrive(c) \/ CallStep(c) \/ StopTicket(c)
      PROVE  active'.gen = proc /\ active'.vault # NoVault
  BY <1>1, <1>2, <1>3, <1>4, <1>5, <1>9 DEF CallStep
<1> QED
  BY <1>6, <1>7, <1>8, <1>9 DEF Next

\* While its process is the current one, the identity of the vault it has open
\* is not lost to the failure or the late reply of an earlier generation.
THEOREM IdentitiesAreKept == Spec => IdentityKept
<1>1. HostInv /\ [Next]_vars => [KeepsIdentity]_vars
  BY IdentityStep
<1> QED
  BY InvariantHolds, <1>1, PTL DEF Spec, IdentityKept

=============================================================================
