-------------------------- MODULE JobRegistryProofs --------------------------
(***************************************************************************)
(* What the job registry promises, for any number of threads, documents,    *)
(* receipts, jobs, crashes and failed saves.                                *)
(*                                                                         *)
(* RegistryInv holds whatever happens, the vault opened again included: a   *)
(* record has one thread, a thread that has begun finds its record running,  *)
(* and nobody settles it but that thread; PaidInv adds that a registry has   *)
(* one paid run.  OnceInv holds until a thread whose registry was replaced   *)
(* saves that registry over the file (late): the file holds the largest      *)
(* number handed out, a job that was told it is stopped will not complete,   *)
(* and the receipt of a posting is on file.                                  *)
(***************************************************************************)
EXTENDS JobRegistry, FiniteSetTheorems, WellFoundedInduction, TLAPS

Instrs == {"begin", "check", "reach", "work", "finish", "lock", "bind", "confirm",
           "read", "settling", "post", "pump", "settle", "drain", "pulse", "look"}
Ending == {"pulse", "finish"}

Types ==
    /\ reg \in [Gen -> [JobId -> JobRecord]] /\ file \in [JobId -> JobRecord]
    /\ late \in BOOLEAN
    /\ gen \in Gen /\ next \in 1 .. MaxJobs + 1
    /\ run \in [Thread -> RunRecord]
    /\ ask \in 0 .. MaxJobs /\ said \subseteq JobId /\ minted \subseteq JobId
    /\ captured \subseteq Doc /\ posted \subseteq Doc /\ resolved \subseteq Doc
    /\ crashes \in Nat /\ errors \in Nat

\* A thread is idle, or at a call of the handler it runs, for a job of its own.
Running(u) ==
    /\ u.op # "none" /\ u.job \in JobId
    /\ u.at \in DOMAIN Program[u.op]
    /\ u.op \in {"upload", "recover"} => u.doc \in Doc
Threads ==
    \A t \in Thread : run[t] # Idle =>
        /\ Running(run[t])
        /\ run[t].op = "spend" <=> t # Fg
        /\ run[t].gen <= gen
        /\ run[t].gen = gen => run[t].job < next

\* No record has two threads.
OneThread ==
    \A t, s \in Thread :
        (/\ run[t] # Idle /\ run[s] # Idle
         /\ run[t].gen = run[s].gen /\ run[t].job = run[s].job) => t = s

\* What has not been numbered yet has no record.
Unnumbered ==
    /\ \A j \in JobId : j >= next => reg[gen][j].state = "absent"
    /\ \A g \in Gen : g > gen => \A j \in JobId : reg[g][j].state = "absent"

\* What a thread may find when it looks at its record: u is where the thread
\* is, r the record.
Finds(u, r) ==
    /\ r.state # "absent" => r.op = u.op
    /\ u.at > 1 =>
          /\ r.state \in {"running"} \cup Terminal
          /\ Program[u.op][u.at] \notin Ending \/ u.op # "bulk" => r.state = "running"
Records == \A t \in Thread : run[t] # Idle => Finds(run[t], Of(t))

RegistryInv ==
    /\ Types
    /\ Threads
    /\ OneThread
    /\ Unnumbered
    /\ Records
    /\ RecoverBeforePosting

\* The file holds a number as large as any that was handed out, or settled.
Backed(j) == \E k \in JobId : k >= j /\ k \in Held(file)
Numbers ==
    /\ \A j \in minted \cup said : j < next /\ Backed(j)
    /\ \A j \in Settled(reg[gen]) : Backed(j)
    /\ \A t \in Thread : run[t] # Idle => run[t].job \in minted
    /\ next > 1 => next - 1 \in Held(reg[gen])

\* What the file calls completed is completed, or forgotten.
Filed ==
    \A j \in JobId : file[j].state = "completed" =>
        /\ j < next
        /\ reg[gen][j].state # "absent" =>
              reg[gen][j].state = "completed" /\ reg[gen][j].op = file[j].op

\* The foreground is held at the pump that answers the request.
Answering ==
    ask # 0 =>
        /\ run[Fg] = Idle \/ Pumping
        /\ reg[gen][ask].state = "completed" => reg[gen][ask].op = "spend"

\* The checkpoint that pumped has yet to look.
Told ==
    \A j \in said :
        /\ reg[gen][j].state = "completed" => reg[gen][j].op = "spend"
        /\ file[j].state = "completed" => file[j].op = "spend"
        /\ run[Fg] # Idle /\ run[Fg].job = j =>
              Of(Fg).cancel /\ Instr(Fg) \in {"check", "confirm"}

\* The receipt of a posting is in memory, and on file unless its save made the
\* read a failed one.
Receipts ==
    \A t \in Thread : Instr(t) = "post" /\ ~run[t].unread =>
        /\ Of(t).stage = "settling"
        /\ file[run[t].job].stage # "reading"

\* The foreground uses the registry the handlers use.
Current == run[Fg] # Idle => run[Fg].gen = gen

OnceInv ==
    /\ Current
    /\ Numbers
    /\ Filed
    /\ Answering
    /\ Told
    /\ Receipts

-----------------------------------------------------------------------------
\* The handlers, call by call.

\* Who calls what, and what a call is followed by.
Follows(op, n) ==
    LET i == Program[op][n]
        j == Program[op][n + 1]
    IN  /\ i \in Instrs
        /\ n > 1 <=> i # "begin"
        /\ i # "finish" =>
              /\ n + 1 \in DOMAIN Program[op]
              /\ j = "settling" <=> i = "read"
              /\ j = "post" <=> i = "settling"
              /\ j = "work" => i \in {"check", "look", "pump"}
              /\ j = "read" => i = "confirm"
              /\ op = "bulk" /\ j \in Ending => i \in {"drain", "pulse"}
              /\ i \in {"drain", "pulse"} => j \in Ending
        /\ i = "read" => n + 3 \in DOMAIN Program[op] /\ Program[op][n + 3] = "reach"
        /\ i \in {"pump", "settle", "drain", "pulse"} => op = "bulk"
        /\ i \in {"bind", "lock", "confirm", "read", "settling", "post"} =>
              op \in {"upload", "recover"}

\* The handlers' programs and their lengths.
LEMMA Programs ==
    /\ DOMAIN Program = {"plain", "upload", "recover", "bulk", "spend"}
    /\ "none" \notin DOMAIN Program
    /\ DOMAIN Program.plain = 1 .. 7 /\ DOMAIN Program.upload = 1 .. 15
    /\ DOMAIN Program.recover = 1 .. 13 /\ DOMAIN Program.bulk = 1 .. 14
    /\ DOMAIN Program.spend = 1 .. 10
    /\ Pulsing = 13 /\ Program["bulk"][13] = "pulse" /\ 13 \in DOMAIN Program["bulk"]
  BY DEF Program, Pulsing

\* What may follow each instruction, read off the programs.
LEMMA EachFollows ==
    ASSUME NEW op \in DOMAIN Program, NEW n \in DOMAIN Program[op]
    PROVE  n \in Nat /\ Follows(op, n)
<1>1. CASE op = "plain"
  <2>1. n \in 1 .. 7
    BY <1>1, Programs
  <2> QED
    BY <1>1, <2>1 DEF Program, Follows, Instrs, Ending
<1>2. CASE op = "upload"
  <2>1. n \in 1 .. 15
    BY <1>2, Programs
  <2> QED
    BY <1>2, <2>1 DEF Program, Follows, Instrs, Ending
<1>3. CASE op = "recover"
  <2>1. n \in 1 .. 13
    BY <1>3, Programs
  <2> QED
    BY <1>3, <2>1 DEF Program, Follows, Instrs, Ending
<1>4. CASE op = "bulk"
  <2>1. n \in 1 .. 14
    BY <1>4, Programs
  <2> QED
    BY <1>4, <2>1 DEF Program, Follows, Instrs, Ending
<1>5. CASE op = "spend"
  <2>1. n \in 1 .. 10
    BY <1>5, Programs
  <2> QED
    BY <1>5, <2>1 DEF Program, Follows, Instrs, Ending
<1> QED
  BY <1>1, <1>2, <1>3, <1>4, <1>5, Programs

-----------------------------------------------------------------------------
\* The registry.

\* Making room forgets settled records and no others.
LEMMA Forgets ==
    ASSUME NEW jobs \in [JobId -> JobRecord]
    PROVE  /\ Forget(jobs) \in [JobId -> JobRecord]
           /\ \A j \in JobId : /\ Forget(jobs)[j] \in {jobs[j], Absent}
                               /\ j \notin Settled(jobs) => Forget(jobs)[j] = jobs[j]
<1>1. Absent \in JobRecord
  BY DEF Absent, JobRecord
<1> QED
  BY <1>1 DEF Forget

\* What is restored was saved, and is over.
LEMMA Restores ==
    ASSUME NEW saved \in [JobId -> JobRecord]
    PROVE  /\ Restore(saved) \in [JobId -> JobRecord]
           /\ \A j \in JobId :
                 /\ Restore(saved)[j].state \notin Open
                 /\ Restore(saved)[j].state # "absent" => j \in Held(saved)
                 /\ Restore(saved)[j].state = "completed" =>
                        saved[j].state = "completed" /\ Restore(saved)[j].op = saved[j].op
<1> SUFFICES ASSUME NEW j \in JobId
             PROVE  /\ Restore(saved)[j] \in JobRecord
                    /\ Restore(saved)[j].state \notin Open
                    /\ Restore(saved)[j].state # "absent" => j \in Held(saved)
                    /\ Restore(saved)[j].state = "completed" =>
                        saved[j].state = "completed" /\ Restore(saved)[j].op = saved[j].op
  <2>1. Restore(saved) = [j \in JobId |-> Restore(saved)[j]]
    BY DEF Restore
  <2> QED
    BY <2>1
<1>1. saved[j] \in JobRecord
  OBVIOUS
<1>2. CASE Restore(saved)[j] = Absent
  <2>1. Absent \in JobRecord /\ Absent.state = "absent"
    BY DEF Absent, JobRecord
  <2> QED
    BY <1>2, <2>1 DEF Open
<1>3. CASE /\ j \in Held(saved)
           /\ Restore(saved)[j] =
                 [ saved[j] EXCEPT
                     !.state = IF saved[j].state \in Terminal THEN saved[j].state
                               ELSE IF saved[j].cancel THEN "cancelled"
                               ELSE "failed",
                     !.cancel = FALSE ]
  BY <1>1, <1>3 DEF JobRecord, Open, Terminal
<1> QED
  BY <1>2, <1>3 DEF Restore

\* A set of numbers has a largest one.
LEMMA LargestOf ==
    ASSUME NEW m \in Nat, NEW S, S \subseteq 1 .. m, S # {}
    PROVE  \E j \in S : \A k \in S : k <= j
<1> DEFINE R == OpToRel(<, Nat)
           T == { m - j : j \in S }
<1>1. IsWellFoundedOn(R, Nat)
  BY NatLessThanWellFounded
<1>2. T \subseteq Nat /\ T # {}
  <2> HIDE DEF R
  <2>1. T \subseteq Nat
    OBVIOUS
  <2>2. PICK j \in S : TRUE
    OBVIOUS
  <2>3. m - j \in T
    OBVIOUS
  <2> QED
    BY <2>1, <2>3
<1>3. PICK x \in T : \A y \in T : ~(<<y, x>> \in R)
  <2> HIDE DEF R, T
  <2> QED
    BY <1>1, <1>2, WFMin
<1>4. \A y \in T : ~(y < x)
  BY <1>2, <1>3 DEF OpToRel
<1>5. PICK j \in S : x = m - j
  OBVIOUS
<1>6. \A k \in S : ~(m - k < m - j)
  BY <1>4, <1>5
<1> QED
  BY <1>6

\* The numbering goes on above every number held.
LEMMA NumbersGoOn ==
    ASSUME NEW jobs \in [JobId -> JobRecord]
    PROVE  /\ FirstFree(jobs) \in 1 .. MaxJobs + 1
           /\ \A j \in Held(jobs) : j < FirstFree(jobs)
           /\ FirstFree(jobs) = 1 \/ FirstFree(jobs) - 1 \in Held(jobs)
<1> DEFINE Free(n) == /\ \A j \in Held(jobs) : j < n
                      /\ n = 1 \/ n - 1 \in Held(jobs)
<1>1. MaxJobs \in Nat /\ Held(jobs) \subseteq 1 .. MaxJobs
  BY JobBoundsAssumption DEF Held, JobId
<1>2. \E n \in 1 .. MaxJobs + 1 : Free(n)
  <2>1. CASE Held(jobs) = {}
    BY <1>1, <2>1
  <2>2. CASE Held(jobs) # {}
    <3>1. PICK j \in Held(jobs) : \A k \in Held(jobs) : k <= j
      BY <1>1, <2>2, LargestOf
    <3>2. j + 1 \in 1 .. MaxJobs + 1 /\ Free(j + 1)
      BY <1>1, <3>1
    <3> QED
      BY <3>2
  <2> QED
    BY <2>1, <2>2
<1>3. FirstFree(jobs) = CHOOSE n \in 1 .. MaxJobs + 1 : Free(n)
  BY DEF FirstFree
<1> QED
  BY <1>2, <1>3

\* The newest receipt survives a restart.
LEMMA NewestRestored ==
    ASSUME NEW saved \in [JobId -> JobRecord], NEW j \in Held(saved)
    PROVE  \E k \in JobId : k >= j /\ k \in Held(Restore(saved))
<1>1. MaxJobs \in Nat /\ Held(saved) \subseteq 1 .. MaxJobs /\ JobId = 1 .. MaxJobs
  BY JobBoundsAssumption DEF Held, JobId
<1>2. PICK k \in Held(saved) : \A l \in Held(saved) : l <= k
  BY <1>1, LargestOf
<1>3. { l \in Held(saved) : l > k } = {}
  BY <1>1, <1>2
<1>4. Cardinality({ l \in Held(saved) : l > k }) < Limit
  BY <1>3, FS_EmptySet, JobBoundsAssumption
<1>5. k \in JobId /\ saved[k] \in JobRecord /\ saved[k].state # "absent"
  BY DEF Held
<1>6. Restore(saved)[k].state # "absent"
  <2>1. ~(k \notin Held(saved) \/ Cardinality({ l \in Held(saved) : l > k }) >= Limit)
    <3>1. \A c \in Nat : c = 0 => ~(c >= Limit)
      BY JobBoundsAssumption
    <3> QED
      BY <1>3, <3>1, FS_EmptySet
  <2>2. Restore(saved)[k] =
          [ saved[k] EXCEPT
              !.state = IF saved[k].state \in Terminal THEN saved[k].state
                        ELSE IF saved[k].cancel THEN "cancelled" ELSE "failed",
              !.cancel = FALSE ]
    BY <1>5, <2>1 DEF Restore
  <2> QED
    BY <1>5, <2>2 DEF JobRecord, Terminal
<1> QED
  BY <1>1, <1>2, <1>5, <1>6 DEF Held
-----------------------------------------------------------------------------
\* A step of a thread: u is where it goes, r what it leaves as its record.

\* A record that is over stays as it is, a stop request stays, and only a
\* handler that has finished completes.
Leaves(t, r) ==
    /\ r.op = Of(t).op
    /\ Of(t).state \notin Open => r.state = Of(t).state
    /\ Of(t).state \in Open => r.state # "absent"
    /\ Of(t).cancel => r.cancel
    /\ r.state = "completed" => Of(t).state = "completed" \/ Instr(t) = "finish"

\* The thread stays with its job; a checkpoint heeds a stop; and what it may
\* assume about its record and about the ledger holds where it goes.
Goes(t, r, u) ==
    u # Idle =>
        /\ u.op = run[t].op /\ u.job = run[t].job /\ u.gen = run[t].gen
        /\ u.doc = run[t].doc
        /\ u.at \in DOMAIN Program[u.op]
        /\ Finds(u, r)
        /\ Instr(t) \in {"check", "confirm"} => ~Of(t).cancel
        /\ u.op = "recover" /\ Program[u.op][u.at] \in {"settling", "post"} =>
              u.doc \notin posted'
        /\ Program[u.op][u.at] = "post" =>
              r.stage = "settling" /\ (u.unread \/ file' = reg'[u.gen])

\* The file is left alone or holds the thread's registry, as it is now or as
\* it was between the two saves of a cancel.
Writes(t) ==
    /\ errors' \in Nat
    /\ late' \in BOOLEAN
    /\ \/ UNCHANGED <<file, late>>
       \/ /\ file' \in {reg'[run[t].gen],
                        [reg[run[t].gen] EXCEPT ![run[t].job] = Asked(@)]}
          /\ ~late' => ~late /\ run[t].gen = gen

OwnStep(t, r, u) ==
    /\ run[t] # Idle
    /\ r \in JobRecord /\ Record(t, r) /\ Leaves(t, r)
    /\ u \in RunRecord /\ run' = [run EXCEPT ![t] = u] /\ Goes(t, r, u)
    /\ Writes(t)
    /\ UNCHANGED <<gen, next, ask, said, minted, crashes>>
    /\ captured' \subseteq Doc /\ posted' \subseteq Doc /\ resolved' \subseteq Doc
    /\ posted' # posted => t = Fg

\* What is known of a thread that runs, and of its record.
LEMMA OfThread ==
    ASSUME RegistryInv, NEW t \in Thread, run[t] # Idle
    PROVE  /\ run[t] \in RunRecord /\ run[t].op \in DOMAIN Program
           /\ run[t].job \in JobId /\ run[t].gen \in Gen
           /\ run[t].at \in DOMAIN Program[run[t].op] /\ run[t].at \in Nat
           /\ Of(t) \in JobRecord
           /\ Finds(run[t], Of(t))
           /\ Follows(run[t].op, run[t].at)
           /\ Instr(t) = Program[run[t].op][run[t].at]
<1>1. /\ run[t] \in RunRecord /\ run[t].op \in DOMAIN Program
      /\ run[t].job \in JobId /\ run[t].gen \in Gen
      /\ run[t].at \in DOMAIN Program[run[t].op] /\ run[t].at \in Nat
  BY DEF RegistryInv, Types, RunRecord, Threads, Running
<1>2. Of(t) \in JobRecord /\ Finds(run[t], Of(t))
  BY <1>1 DEF RegistryInv, Types, Records, Of
<1>3. Follows(run[t].op, run[t].at)
  BY <1>1, EachFollows
<1>4. run[t].at # 0
  BY <1>1, Programs
<1> QED
  BY <1>1, <1>2, <1>3, <1>4 DEF Instr

\* A thread at a call runs.
LEMMA AtRuns ==
    ASSUME NEW t \in Thread, NEW i \in Instrs, At(t, i)
    PROVE  run[t] # Idle /\ Instr(t) = i /\ (t = Fg => ask = 0)
<1>1. run[t].at # 0
  BY DEF At, Instr, Instrs
<1> QED
  BY <1>1 DEF At, Idle

\* The thread's record is the only one a step of it writes.
LEMMA Cells ==
    ASSUME Types, NEW t \in Thread, run[t].gen \in Gen, run[t].job \in JobId,
           NEW r \in JobRecord, Record(t, r)
    PROVE  /\ reg' \in [Gen -> [JobId -> JobRecord]]
           /\ reg'[run[t].gen][run[t].job] = r
           /\ \A g \in Gen, j \in JobId :
                 ~(g = run[t].gen /\ j = run[t].job) => reg'[g][j] = reg[g][j]
  BY DEF Types, Record

\* A step by which a thread moves its own record and program counter keeps the invariant.
LEMMA OwnStepKeeps ==
    ASSUME RegistryInv, NEW t \in Thread, NEW r, NEW u, OwnStep(t, r, u)
    PROVE  RegistryInv'
<1> USE DEF RegistryInv
<1>1. /\ run[t] \in RunRecord /\ run[t].op \in DOMAIN Program
      /\ run[t].job \in JobId /\ run[t].gen \in Gen
      /\ Of(t) \in JobRecord /\ Finds(run[t], Of(t)) /\ run[t] # Idle
  BY OfThread DEF OwnStep
<1>2. /\ r \in JobRecord /\ Record(t, r)
      /\ u \in RunRecord /\ run' = [run EXCEPT ![t] = u]
      /\ UNCHANGED <<gen, next, ask, said, minted, crashes>>
      /\ captured' \subseteq Doc /\ posted' \subseteq Doc /\ resolved' \subseteq Doc
  BY DEF OwnStep
<1>3. /\ reg' \in [Gen -> [JobId -> JobRecord]]
      /\ reg'[run[t].gen][run[t].job] = r
      /\ \A g \in Gen, j \in JobId :
            ~(g = run[t].gen /\ j = run[t].job) => reg'[g][j] = reg[g][j]
  BY <1>1, <1>2, Cells
<1>4. /\ run' \in [Thread -> RunRecord]
      /\ run'[t] = u
      /\ \A s \in Thread \ {t} : run'[s] = run[s]
  BY <1>2 DEF Types
<1>5. u # Idle => /\ u.op = run[t].op /\ u.job = run[t].job /\ u.gen = run[t].gen
                  /\ u.doc = run[t].doc /\ u.at \in DOMAIN Program[u.op]
                  /\ Finds(u, r)
  BY DEF OwnStep, Goes
<1>6. Types'
  <2>1. errors' \in Nat /\ late' \in BOOLEAN /\ file' \in [JobId -> JobRecord]
    <3>1. [reg[run[t].gen] EXCEPT ![run[t].job] = Asked(@)] \in [JobId -> JobRecord]
      BY <1>1 DEF Types, Asked, JobRecord, Of
    <3>2. reg'[run[t].gen] \in [JobId -> JobRecord]
      BY <1>1, <1>3
    <3> QED
      BY <3>1, <3>2 DEF OwnStep, Writes, Types
  <2> QED
    BY <1>2, <1>3, <1>4, <2>1 DEF Types
<1>7. Threads'
  BY <1>1, <1>2, <1>4, <1>5 DEF Threads, Running
<1>8. OneThread'
  BY <1>1, <1>4, <1>5 DEF OneThread
<1>9. Unnumbered'
  <2>1. run[t].gen <= gen /\ (run[t].gen = gen => run[t].job < next)
    BY <1>1 DEF Threads
  <2>2. gen \in Gen /\ next \in Nat /\ gen \in Nat
    BY JobBoundsAssumption DEF Types, Gen
  <2>3. ASSUME NEW j \in JobId, j >= next
        PROVE  reg'[gen][j].state = "absent"
    <3>1. ~(gen = run[t].gen /\ j = run[t].job)
      BY <2>1, <2>2, <2>3 DEF JobId
    <3> QED
      BY <1>3, <2>2, <2>3, <3>1 DEF Unnumbered
  <2>4. ASSUME NEW g \in Gen, g > gen, NEW j \in JobId
        PROVE  reg'[g][j].state = "absent"
    <3>1. g # run[t].gen
      BY <1>1, <2>1, <2>2, <2>4 DEF Gen
    <3> QED
      BY <1>3, <2>4, <3>1 DEF Unnumbered
  <2> QED
    BY <1>2, <2>3, <2>4 DEF Unnumbered
<1>10. Records'
  <2> SUFFICES ASSUME NEW s \in Thread, run'[s] # Idle
               PROVE  Finds(run'[s], reg'[run'[s].gen][run'[s].job])
    BY DEF Records, Of
  <2>1. CASE s = t
    BY <1>3, <1>4, <1>5, <2>1
  <2>2. CASE s # t
    <3>1. run'[s] = run[s]
      BY <1>4, <2>2
    <3>2. /\ run[s].gen \in Gen /\ run[s].job \in JobId
          /\ Finds(run[s], Of(s))
      BY <3>1, OfThread
    <3>3. ~(run[s].gen = run[t].gen /\ run[s].job = run[t].job)
      BY <1>1, <2>2, <3>1 DEF OneThread
    <3> QED
      BY <1>3, <3>1, <3>2, <3>3 DEF Of
  <2> QED
    BY <2>1, <2>2
<1>11. RecoverBeforePosting'
  <2> SUFFICES ASSUME NEW s \in Thread, run'[s].op = "recover",
                      Instr(s)' \in {"settling", "post"}
               PROVE  run'[s].doc \notin posted'
    BY DEF RecoverBeforePosting
  <2>1. CASE s = t
    <3>1. u = run'[s] /\ u # Idle /\ Program[u.op][u.at] \in {"settling", "post"}
      BY <1>4, <2>1 DEF Instr, Idle
    <3> QED
      BY <3>1 DEF OwnStep, Goes
  <2>2. CASE s # t
    <3>1. run'[s] = run[s] /\ Instr(s) \in {"settling", "post"}
      BY <1>4, <2>2 DEF Instr
    <3>2. run[s].doc \notin posted
      BY <3>1 DEF RecoverBeforePosting
    <3>3. s = Fg
      BY <3>1 DEF Threads, Idle
    <3>4. posted' = posted
      BY <2>2, <3>3 DEF OwnStep
    <3> QED
      BY <3>1, <3>2, <3>4
  <2> QED
    BY <2>1, <2>2
<1> QED
  BY <1>6, <1>7, <1>8, <1>9, <1>10, <1>11

\* A record left as it is.
LEMMA SameRecord ==
    ASSUME RegistryInv, NEW t \in Thread, run[t] # Idle, UNCHANGED reg
    PROVE  Record(t, Of(t)) /\ Leaves(t, Of(t))
<1>1. run[t].gen \in Gen /\ run[t].job \in JobId /\ Of(t) \in JobRecord
  BY OfThread
<1>2. reg \in [Gen -> [JobId -> JobRecord]]
  BY DEF RegistryInv, Types
<1>3. [reg EXCEPT ![run[t].gen][run[t].job] = Of(t)] = reg
  BY <1>1, <1>2 DEF Of
<1> QED
  BY <1>3 DEF Record, Leaves, Open

\* The next call of the handler.
LEMMA NextCall ==
    ASSUME RegistryInv, NEW t \in Thread, run[t] # Idle, Instr(t) # "finish",
           NEW u, u = [run[t] EXCEPT !.at = @ + 1]
    PROVE  /\ u \in RunRecord
           /\ u.op = run[t].op /\ u.job = run[t].job /\ u.gen = run[t].gen
           /\ u.doc = run[t].doc /\ u.at = run[t].at + 1 /\ u.at > 1
           /\ u.at \in DOMAIN Program[u.op]
           /\ Program[u.op][u.at] = "settling" <=> Instr(t) = "read"
           /\ Program[u.op][u.at] = "post" <=> Instr(t) = "settling"
           /\ u.op = "bulk" /\ Program[u.op][u.at] \in Ending =>
                 Instr(t) \in {"drain", "pulse"}
           /\ Advance(t) => run' = [run EXCEPT ![t] = u]
<1>1. /\ run[t] \in RunRecord /\ run[t].at \in Nat
      /\ Follows(run[t].op, run[t].at) /\ Instr(t) = Program[run[t].op][run[t].at]
      /\ run[t].at \in DOMAIN Program[run[t].op] /\ run[t].op \in DOMAIN Program
  BY OfThread
<1>2. /\ u \in RunRecord
      /\ u.op = run[t].op /\ u.job = run[t].job /\ u.gen = run[t].gen
      /\ u.doc = run[t].doc /\ u.at = run[t].at + 1
  BY <1>1 DEF RunRecord
<1>3. run[t].at >= 1
  BY <1>1, Programs
<1>4. Advance(t) => run' = [run EXCEPT ![t] = u]
  BY DEF Advance
<1> QED
  BY <1>1, <1>2, <1>3, <1>4 DEF Follows

\* The handler is over.
LEMMA GoneIdle ==
    ASSUME RegistryInv, NEW t \in Thread
    PROVE  /\ Idle \in RunRecord
           /\ Leave(t) => run' = [run EXCEPT ![t] = Idle]
           /\ \A r : Goes(t, r, Idle)
<1>1. 0 \in Gen /\ 0 \in 0 .. MaxJobs
  BY JobBoundsAssumption DEF Gen
<1> QED
  BY <1>1 DEF RunRecord, Idle, Leave, Goes

\* A save that may fail.
LEMMA Saves ==
    ASSUME RegistryInv, NEW t \in Thread, Save(run[t].gen) \/ SaveRaises
    PROVE  Writes(t)
<1>1. errors' \in Nat
  BY DEF RegistryInv, Types, Save, SaveRaises, Error, NoError
<1>2. CASE Save(run[t].gen)
  <2>1. file' = reg'[run[t].gen] /\ late' = (late \/ run[t].gen # gen)
    BY <1>2 DEF Save, Write
  <2>2. late' \in BOOLEAN /\ (~late' => ~late /\ run[t].gen = gen)
    BY <2>1, Zenon
  <2> QED
    BY <1>1, <2>1, <2>2 DEF Writes
<1>3. CASE SaveRaises
  BY <1>1, <1>3 DEF SaveRaises, fileVars, Writes, RegistryInv, Types
<1> QED
  BY <1>2, <1>3

\* No save.
LEMMA NoSave ==
    ASSUME RegistryInv, NEW t \in Thread, UNCHANGED <<file, late, errors>>
    PROVE  Writes(t)
  BY DEF RegistryInv, Types, Writes

\* What is on record while a begun handler runs.
LEMMA WhileRunning ==
    ASSUME RegistryInv, NEW t \in Thread, run[t] # Idle,
           Instr(t) \notin {"begin", "pulse", "finish"}
    PROVE  Of(t).state = "running"
<1>1. /\ Finds(run[t], Of(t)) /\ Follows(run[t].op, run[t].at)
      /\ Instr(t) = Program[run[t].op][run[t].at]
  BY OfThread
<1> QED
  BY <1>1 DEF Finds, Follows, Ending

\* A record that says "running" is what a begun handler finds anywhere.
LEMMA FindsRunning ==
    ASSUME NEW u, NEW r, r.state = "running", r.op = u.op
    PROVE  Finds(u, r)
  BY DEF Finds

\* What an open or a running record is set to keeps its type and its name.
LEMMA StateSet ==
    ASSUME NEW r \in JobRecord, NEW st \in Open \cup Terminal
    PROVE  /\ [r EXCEPT !.state = st] \in JobRecord
           /\ [r EXCEPT !.state = st].state = st
           /\ [r EXCEPT !.state = st].op = r.op
           /\ [r EXCEPT !.state = st].cancel = r.cancel
           /\ [r EXCEPT !.state = st].stage = r.stage
  BY DEF JobRecord

\* JobRegistry.begin moves the record of its own thread only.
LEMMA BeginIsOwn ==
    ASSUME RegistryInv, NEW t \in Thread, Begin(t)
    PROVE  \E r, u : OwnStep(t, r, u)
<1>1. run[t] # Idle /\ Instr(t) = "begin"
  BY AtRuns DEF Begin, Instrs
<1>2. /\ UNCHANGED <<gen, next, ask, said, minted, crashes, captured, posted, resolved>>
      /\ captured \subseteq Doc /\ posted \subseteq Doc /\ resolved \subseteq Doc
  BY DEF Begin, askVars, docVars, RegistryInv, Types
<1>3. Of(t) \in JobRecord /\ Finds(run[t], Of(t))
  BY <1>1, OfThread
<1>4. CASE Of(t).state \in Open
  <2> DEFINE r == [Of(t) EXCEPT !.state = "running"]
             u == [run[t] EXCEPT !.at = @ + 1]
  <2>1. /\ Record(t, r)
        /\ \/ Save(run[t].gen) /\ Advance(t)
           \/ SaveRaises /\ Leave(t)
    BY <1>4 DEF Begin
  <2>2. r \in JobRecord /\ r.state = "running" /\ r.op = Of(t).op /\ r.cancel = Of(t).cancel
    BY <1>3, StateSet DEF Open
  <2>3. Leaves(t, r)
    BY <1>4, <2>2 DEF Leaves, Open
  <2>4. Writes(t)
    BY <2>1, Saves
  <2>5. CASE Leave(t)
    <3>1. OwnStep(t, r, Idle)
      BY <1>1, <1>2, <2>1, <2>2, <2>3, <2>4, <2>5, GoneIdle DEF OwnStep
    <3> QED
      BY <3>1
  <2>6. CASE Advance(t)
    <3>1. Finds(u, r)
      <4>1. u.op = run[t].op
        BY <1>1, NextCall
      <4>2. r.op = run[t].op
        BY <1>3, <1>4, <2>2 DEF Finds, Open
      <4> QED
        BY <2>2, <4>1, <4>2, FindsRunning
    <3>2. Goes(t, r, u)
      BY <1>1, <3>1, NextCall DEF Goes
    <3>3. OwnStep(t, r, u)
      BY <1>1, <1>2, <2>1, <2>2, <2>3, <2>4, <2>6, <3>2, NextCall DEF OwnStep
    <3> QED
      BY <3>3
  <2> QED
    BY <2>1, <2>5, <2>6
<1>5. CASE Of(t).state \notin Open
  <2>1. UNCHANGED <<reg, file, late, errors>> /\ Leave(t)
    BY <1>5 DEF Begin, fileVars
  <2>2. OwnStep(t, Of(t), Idle)
    BY <1>1, <1>2, <1>3, <2>1, SameRecord, NoSave, GoneIdle DEF OwnStep
  <2> QED
    BY <2>2
<1> QED
  BY <1>4, <1>5

\* A checkpoint moves the record of its own thread only.
LEMMA CheckIsOwn ==
    ASSUME RegistryInv, NEW t \in Thread, Check(t)
    PROVE  \E r, u : OwnStep(t, r, u)
<1>1. run[t] # Idle /\ Instr(t) \in {"check", "confirm", "look"}
  BY AtRuns DEF Check, Instrs
<1>2. /\ UNCHANGED <<gen, next, ask, said, minted, crashes, captured, posted, resolved>>
      /\ captured \subseteq Doc /\ posted \subseteq Doc /\ resolved \subseteq Doc
  BY DEF Check, askVars, docVars, RegistryInv, Types
<1>3. Of(t) \in JobRecord /\ Finds(run[t], Of(t)) /\ Of(t).state = "running"
  BY <1>1, OfThread, WhileRunning
<1>4. CASE Of(t).cancel
  <2> DEFINE r == [Of(t) EXCEPT !.state = "cancelled"]
  <2>1. Record(t, r) /\ (Save(run[t].gen) \/ SaveRaises) /\ Leave(t)
    BY <1>4 DEF Check
  <2>2. /\ r \in JobRecord /\ r.state = "cancelled" /\ r.op = Of(t).op
        /\ r.cancel = Of(t).cancel
    BY <1>3, StateSet DEF Terminal
  <2>3. Leaves(t, r)
    BY <1>3, <2>2 DEF Leaves, Open
  <2>4. OwnStep(t, r, Idle)
    BY <1>1, <1>2, <2>1, <2>2, <2>3, Saves, GoneIdle DEF OwnStep
  <2> QED
    BY <2>4
<1>5. CASE ~Of(t).cancel
  <2> DEFINE u == [run[t] EXCEPT !.at = @ + 1]
  <2>1. UNCHANGED <<reg, file, late, errors>> /\ Advance(t)
    BY <1>5 DEF Check, fileVars
  <2>2. /\ u \in RunRecord
        /\ u.op = run[t].op /\ u.job = run[t].job /\ u.gen = run[t].gen
        /\ u.doc = run[t].doc /\ u.at \in DOMAIN Program[u.op]
        /\ Program[u.op][u.at] \notin {"settling", "post"}
        /\ run' = [run EXCEPT ![t] = u]
    BY <1>1, <2>1, NextCall
  <2>3. Goes(t, Of(t), u)
    BY <1>3, <1>5, <2>2, FindsRunning DEF Goes, Finds
  <2>4. OwnStep(t, Of(t), u)
    BY <1>1, <1>2, <1>3, <2>1, <2>2, <2>3, SameRecord, NoSave DEF OwnStep
  <2> QED
    BY <2>4
<1> QED
  BY <1>4, <1>5

\* u is run[t] with the thread at call n.
Moved(t, u, n) ==
    /\ u \in RunRecord
    /\ u.op = run[t].op /\ u.job = run[t].job /\ u.gen = run[t].gen
    /\ u.doc = run[t].doc /\ u.at = n

\* Where a begun handler goes on with a running record, the calls that decide
\* something left aside.
LEMMA GoesOn ==
    ASSUME RegistryInv, NEW t \in Thread, run[t] # Idle,
           Instr(t) \notin {"begin", "finish", "check", "confirm", "read", "settling"},
           NEW r, r.op = Of(t).op, Of(t).state # "absent",
           \/ r.state = "running"
           \/ Instr(t) \in {"drain", "pulse"} /\ r.state \in Terminal,
           NEW u, Moved(t, u, run[t].at + 1)
    PROVE  Goes(t, r, u)
<1>1. /\ run[t].at \in Nat /\ Finds(run[t], Of(t))
      /\ Follows(run[t].op, run[t].at) /\ Instr(t) = Program[run[t].op][run[t].at]
  BY OfThread
<1>2. /\ u.at \in DOMAIN Program[u.op]
      /\ Program[u.op][u.at] \notin {"settling", "post"}
      /\ Instr(t) \in {"drain", "pulse"} => u.op = "bulk" /\ Program[u.op][u.at] \in Ending
  BY <1>1 DEF Follows, Moved
<1>3. r.op = u.op
  BY <1>1 DEF Finds, Moved
<1>4. Finds(u, r)
  BY <1>2, <1>3 DEF Finds
<1> QED
  BY <1>2, <1>4 DEF Goes, Moved

\* The import's finally block, whatever it found.
LEMMA GoesToPulse ==
    ASSUME RegistryInv, NEW t \in Thread, run[t] # Idle, run[t].op = "bulk",
           Instr(t) \notin {"begin", "check", "confirm"},
           NEW r, r.op = Of(t).op, Of(t).state # "absent",
           r.state \in {"running"} \cup Terminal,
           NEW u, Moved(t, u, Pulsing)
    PROVE  Goes(t, r, u)
<1>1. Finds(run[t], Of(t))
  BY OfThread
<1>2. /\ u.at \in DOMAIN Program[u.op] /\ Program[u.op][u.at] = "pulse"
      /\ u.op = "bulk"
  BY Programs DEF Moved
<1>3. Finds(u, r)
  BY <1>1, <1>2 DEF Finds, Ending, Moved
<1> QED
  BY <1>2, <1>3 DEF Goes, Moved

\* Advance moves to the next call.
LEMMA AdvanceMoves ==
    ASSUME RegistryInv, NEW t \in Thread, run[t] # Idle, Advance(t)
    PROVE  \E u : Moved(t, u, run[t].at + 1) /\ run' = [run EXCEPT ![t] = u]
<1> DEFINE u == [run[t] EXCEPT !.at = @ + 1]
<1>1. run[t] \in RunRecord /\ run[t].at \in Nat
  BY OfThread
<1>2. Moved(t, u, run[t].at + 1)
  BY <1>1 DEF Moved, RunRecord
<1>3. run' = [run EXCEPT ![t] = u]
  BY DEF Advance
<1> QED
  BY <1>2, <1>3

\* __exit__: an open record is settled, one that is over is left.
LEMMA Closes ==
    ASSUME RegistryInv, NEW t \in Thread, run[t] # Idle, Instr(t) # "begin",
           NEW how \in {"failed", "completed"},
           how = "completed" => Instr(t) = "finish",
           NEW r0 \in JobRecord, r0.op = Of(t).op, r0.cancel = Of(t).cancel,
           Close(t, r0, how)
    PROVE  Writes(t) /\ \E r \in JobRecord : Record(t, r) /\ Leaves(t, r)
<1>1. Of(t) \in JobRecord /\ Finds(run[t], Of(t))
      /\ Follows(run[t].op, run[t].at) /\ Instr(t) = Program[run[t].op][run[t].at]
  BY OfThread
<1>2. CASE Of(t).state \in Terminal
  BY <1>1, <1>2, SameRecord, NoSave DEF Close, fileVars
<1>3. CASE Of(t).state \notin Terminal
  <2> DEFINE r == [r0 EXCEPT !.state = how]
  <2>1. Record(t, r) /\ (Save(run[t].gen) \/ SaveRaises)
    BY <1>3 DEF Close
  <2>2. Of(t).state = "running"
    BY <1>1, <1>3 DEF Finds, Follows
  <2>3. r \in JobRecord /\ r.state = how /\ r.op = Of(t).op /\ r.cancel = Of(t).cancel
    BY <1>1, StateSet DEF Terminal
  <2>4. Leaves(t, r)
    BY <2>2, <2>3 DEF Leaves, Open
  <2> QED
    BY <2>1, <2>3, <2>4, Saves
<1> QED
  BY <1>2, <1>3

\* Entering a step moves the record of its own thread only.
LEMMA ReachIsOwn ==
    ASSUME RegistryInv, NEW t \in Thread, Reach(t)
    PROVE  \E r, u : OwnStep(t, r, u)
<1> DEFINE r == [Of(t) EXCEPT !.state = "running"]
<1>1. run[t] # Idle /\ Instr(t) \in {"reach", "settle"}
  BY AtRuns DEF Reach, Instrs
<1>2. /\ UNCHANGED <<gen, next, ask, said, minted, crashes, captured, posted, resolved>>
      /\ captured \subseteq Doc /\ posted \subseteq Doc /\ resolved \subseteq Doc
      /\ Record(t, r) /\ Save(run[t].gen) /\ Advance(t)
  BY DEF Reach, askVars, docVars, RegistryInv, Types
<1>3. Of(t) \in JobRecord /\ Of(t).state = "running"
  BY <1>1, OfThread, WhileRunning
<1>4. r \in JobRecord /\ r.state = "running" /\ r.op = Of(t).op /\ r.cancel = Of(t).cancel
  BY <1>3, StateSet DEF Open
<1>5. Leaves(t, r)
  BY <1>3, <1>4 DEF Leaves, Open
<1>6. PICK u : Moved(t, u, run[t].at + 1) /\ run' = [run EXCEPT ![t] = u]
  BY <1>1, <1>2, AdvanceMoves
<1>7. Goes(t, r, u)
  <2>1. r.state = "running" /\ r.op = Of(t).op /\ Of(t).state # "absent"
    BY <1>3, <1>4
  <2> HIDE DEF r
  <2> QED
    BY <1>1, <1>6, <2>1, GoesOn
<1>8. OwnStep(t, r, u)
  BY <1>1, <1>2, <1>4, <1>5, <1>6, <1>7, Saves DEF OwnStep, Moved
<1> QED
  BY <1>8

\* Steps that leave the registry alone.
LEMMA QuietIsOwn ==
    ASSUME RegistryInv, NEW t \in Thread, Work(t) \/ Capture(t) \/ Post(t)
    PROVE  \E r, u : OwnStep(t, r, u)
<1>1. /\ run[t] # Idle /\ Instr(t) \in {"work", "lock", "post"}
      /\ Instr(t) = "work" => Work(t)
      /\ Instr(t) # "work" => Capture(t) \/ Post(t)
  <2>1. ASSUME NEW i \in {"work", "lock", "post"}, At(t, i)
        PROVE  run[t] # Idle /\ Instr(t) = i
    BY <2>1, AtRuns DEF Instrs
  <2> QED
    BY <2>1 DEF Work, Capture, Post
<1>2. /\ UNCHANGED <<reg, file, late, errors, gen, next, ask, said, minted, crashes>>
      /\ Advance(t)
  BY DEF Work, Capture, Post, regVars, fileVars, askVars
<1>3. /\ Of(t) \in JobRecord /\ Of(t).state = "running"
      /\ Follows(run[t].op, run[t].at) /\ Instr(t) = Program[run[t].op][run[t].at]
  BY <1>1, OfThread, WhileRunning
<1>4. /\ captured' \subseteq Doc /\ posted' \subseteq Doc /\ resolved' \subseteq Doc
      /\ posted' # posted => t = Fg
  <2>1. CASE Work(t)
    BY <2>1 DEF Work, docVars, RegistryInv, Types
  <2>2. CASE Instr(t) \in {"lock", "post"}
    <3>1. run[t].op \in {"upload", "recover"}
      BY <1>3, <2>2 DEF Follows
    <3>2. run[t].doc \in Doc /\ t = Fg
      BY <1>1, <3>1 DEF RegistryInv, Threads, Running
    <3>3. Capture(t) \/ Post(t)
      BY <1>1, <2>2
    <3> QED
      BY <3>2, <3>3 DEF Capture, Post, RegistryInv, Types
  <2> QED
    BY <1>1, <2>1, <2>2
<1>5. PICK u : Moved(t, u, run[t].at + 1) /\ run' = [run EXCEPT ![t] = u]
  BY <1>1, <1>2, AdvanceMoves
<1>6. Goes(t, Of(t), u)
  BY <1>1, <1>3, <1>5, GoesOn
<1>7. OwnStep(t, Of(t), u)
  BY <1>1, <1>2, <1>3, <1>4, <1>5, <1>6, SameRecord, NoSave DEF OwnStep, Moved
<1> QED
  BY <1>7

\* Completing moves the record of its own thread only.
LEMMA FinishIsOwn ==
    ASSUME RegistryInv, NEW t \in Thread, Finish(t)
    PROVE  \E r, u : OwnStep(t, r, u)
<1>1. run[t] # Idle /\ Instr(t) = "finish"
  BY AtRuns DEF Finish, Instrs
<1>2. /\ UNCHANGED <<gen, next, ask, said, minted, crashes, captured, posted, resolved>>
      /\ captured \subseteq Doc /\ posted \subseteq Doc /\ resolved \subseteq Doc
      /\ Leave(t)
  BY DEF Finish, askVars, docVars, RegistryInv, Types
<1>3. PICK how \in {"failed", "completed"} : Close(t, Of(t), how) /\ Of(t) \in JobRecord
  BY <1>1, OfThread DEF Finish
<1>4. PICK r \in JobRecord : Record(t, r) /\ Leaves(t, r)
  BY <1>1, <1>3, Closes
<1>5. Writes(t)
  BY <1>1, <1>3, Closes
<1>6. OwnStep(t, r, Idle)
  BY <1>1, <1>2, <1>4, <1>5, GoneIdle DEF OwnStep
<1> QED
  BY <1>6

\* A failure moves the record of its own thread only.
LEMMA RaisesIsOwn ==
    ASSUME RegistryInv, NEW t \in Thread, Raises(t)
    PROVE  \E r, u : OwnStep(t, r, u)
<1>1. run[t] # Idle /\ Instr(t) \in Fallible
  BY AtRuns DEF Raises, Instrs, Fallible
<1>2. /\ UNCHANGED <<gen, next, ask, said, minted, crashes, captured, resolved>>
      /\ Close(t, InMemory(t), "failed")
      /\ Leave(t)
      /\ captured \subseteq Doc /\ resolved \subseteq Doc
  BY DEF Raises, askVars, RegistryInv, Types
<1>3. posted' \subseteq Doc /\ (posted' # posted => t = Fg)
  <2>1. CASE Instr(t) = "post"
    <3>1. Follows(run[t].op, run[t].at) /\ Instr(t) = Program[run[t].op][run[t].at]
      BY <1>1, OfThread
    <3>2. run[t].op \in {"upload", "recover"}
      BY <2>1, <3>1 DEF Follows
    <3>3. run[t].doc \in Doc /\ t = Fg
      BY <1>1, <3>2 DEF RegistryInv, Threads, Running
    <3> QED
      BY <2>1, <3>3 DEF Raises, RegistryInv, Types
  <2>2. CASE Instr(t) # "post"
    BY <2>2 DEF Raises, RegistryInv, Types
  <2> QED
    BY <2>1, <2>2
<1>4. /\ Instr(t) # "begin" /\ InMemory(t) \in JobRecord
      /\ InMemory(t).op = Of(t).op /\ InMemory(t).cancel = Of(t).cancel
  <2>1. Of(t) \in JobRecord /\ run[t] \in RunRecord
    BY <1>1, OfThread
  <2> QED
    BY <1>1, <2>1 DEF Fallible, InMemory, JobRecord, RunRecord
<1>5. PICK r \in JobRecord : Record(t, r) /\ Leaves(t, r)
  BY <1>1, <1>2, <1>4, Closes
<1>6. Writes(t)
  BY <1>1, <1>2, <1>4, Closes
<1>7. OwnStep(t, r, Idle)
  BY <1>1, <1>2, <1>3, <1>5, <1>6, GoneIdle DEF OwnStep
<1> QED
  BY <1>7

\* The receipt of a capture moves the record of its own thread only.
LEMMA BindIsOwn ==
    ASSUME RegistryInv, NEW t \in Thread, Bind(t)
    PROVE  \E r, u : OwnStep(t, r, u)
<1> DEFINE r == [Of(t) EXCEPT !.doc = run[t].doc, !.stage = "reading"]
<1>1. run[t] # Idle /\ Instr(t) = "bind"
  BY AtRuns DEF Bind, Instrs
<1>2. /\ UNCHANGED <<gen, next, ask, said, minted, crashes, captured, posted, resolved>>
      /\ captured \subseteq Doc /\ posted \subseteq Doc /\ resolved \subseteq Doc
      /\ Record(t, r) /\ Save(run[t].gen) /\ Advance(t)
  BY DEF Bind, askVars, docVars, RegistryInv, Types
<1>3. /\ Of(t) \in JobRecord /\ Of(t).state = "running" /\ run[t] \in RunRecord
  BY <1>1, OfThread, WhileRunning
<1>4. /\ r \in JobRecord /\ r.state = "running" /\ r.op = Of(t).op
      /\ r.cancel = Of(t).cancel /\ Of(t).state # "absent"
  BY <1>3 DEF JobRecord, RunRecord
<1>5. Leaves(t, r)
  BY <1>3, <1>4 DEF Leaves, Open
<1>6. PICK u : Moved(t, u, run[t].at + 1) /\ run' = [run EXCEPT ![t] = u]
  BY <1>1, <1>2, AdvanceMoves
<1>7. Goes(t, r, u)
  <2> HIDE DEF r
  <2> QED
    BY <1>1, <1>4, <1>6, GoesOn
<1>8. OwnStep(t, r, u)
  BY <1>1, <1>2, <1>4, <1>5, <1>6, <1>7, Saves DEF OwnStep, Moved
<1> QED
  BY <1>8

\* before_read looked under the lock: what it permitted holds now.
LEMMA ReadIsOwn ==
    ASSUME RegistryInv, NEW t \in Thread, Read(t)
    PROVE  \E r, u : OwnStep(t, r, u)
<1>1. run[t] # Idle /\ Instr(t) = "read"
  BY AtRuns DEF Read, Instrs
<1>2. /\ UNCHANGED <<reg, file, late, errors, gen, next, ask, said, minted, crashes, captured,
                     posted, resolved>>
      /\ captured \subseteq Doc /\ posted \subseteq Doc /\ resolved \subseteq Doc
      /\ Permitted(t) /\ Advance(t)
  BY DEF Read, regVars, fileVars, askVars, docVars, RegistryInv, Types
<1>3. /\ Of(t) \in JobRecord /\ Of(t).state = "running" /\ Finds(run[t], Of(t))
      /\ Follows(run[t].op, run[t].at) /\ Instr(t) = Program[run[t].op][run[t].at]
  BY <1>1, OfThread, WhileRunning
<1>4. PICK u : Moved(t, u, run[t].at + 1) /\ run' = [run EXCEPT ![t] = u]
  BY <1>1, <1>2, AdvanceMoves
<1>5. u.at \in DOMAIN Program[u.op] /\ Program[u.op][u.at] = "settling"
  BY <1>1, <1>3, <1>4 DEF Follows, Moved
<1>6. Finds(u, Of(t))
  BY <1>3, <1>4, FindsRunning DEF Finds, Moved
<1>7. Goes(t, Of(t), u)
  BY <1>1, <1>2, <1>4, <1>5, <1>6 DEF Goes, Moved, Permitted
<1>8. OwnStep(t, Of(t), u)
  BY <1>1, <1>2, <1>3, <1>4, <1>7, SameRecord, NoSave DEF OwnStep, Moved
<1> QED
  BY <1>8

\* A read that is not needed moves its own thread only.
LEMMA ReadSkippedIsOwn ==
    ASSUME RegistryInv, NEW t \in Thread, ReadSkipped(t)
    PROVE  \E r, u : OwnStep(t, r, u)
<1> DEFINE u == [run[t] EXCEPT !.at = @ + 3]
<1>1. run[t] # Idle /\ Instr(t) = "read"
  BY AtRuns DEF ReadSkipped, Instrs
<1>2. /\ UNCHANGED <<reg, file, late, errors, gen, next, ask, said, minted, crashes, captured,
                     posted, resolved>>
      /\ captured \subseteq Doc /\ posted \subseteq Doc /\ resolved \subseteq Doc
      /\ run' = [run EXCEPT ![t] = u]
  BY DEF ReadSkipped, regVars, fileVars, askVars, docVars, RegistryInv, Types
<1>3. /\ Of(t) \in JobRecord /\ Of(t).state = "running" /\ Finds(run[t], Of(t))
      /\ run[t] \in RunRecord /\ run[t].at \in Nat
      /\ Follows(run[t].op, run[t].at) /\ Instr(t) = Program[run[t].op][run[t].at]
  BY <1>1, OfThread, WhileRunning
<1>4. Moved(t, u, run[t].at + 3)
  BY <1>3 DEF Moved, RunRecord
<1>5. u.at \in DOMAIN Program[u.op] /\ Program[u.op][u.at] = "reach"
  BY <1>1, <1>3, <1>4 DEF Follows, Moved
<1>6. Finds(u, Of(t))
  BY <1>3, <1>4, FindsRunning DEF Finds, Moved
<1>7. Goes(t, Of(t), u)
  BY <1>1, <1>4, <1>5, <1>6 DEF Goes, Moved
<1>8. OwnStep(t, Of(t), u)
  BY <1>1, <1>2, <1>3, <1>4, <1>7, SameRecord, NoSave DEF OwnStep, Moved
<1> QED
  BY <1>8

\* A read refused under the lock ends its own job only.
LEMMA ReadRefusedIsOwn ==
    ASSUME RegistryInv, NEW t \in Thread, ReadRefused(t)
    PROVE  \E r, u : OwnStep(t, r, u)
<1>1. run[t] # Idle /\ Instr(t) = "read"
  BY AtRuns DEF ReadRefused, Instrs
<1>2. /\ UNCHANGED <<gen, next, ask, said, minted, crashes, captured, posted, resolved>>
      /\ captured \subseteq Doc /\ posted \subseteq Doc /\ resolved \subseteq Doc
      /\ Leave(t) /\ Close(t, Of(t), "failed") /\ Of(t) \in JobRecord
  BY <1>1, OfThread DEF ReadRefused, askVars, docVars, RegistryInv, Types
<1>3. PICK r \in JobRecord : Record(t, r) /\ Leaves(t, r)
  BY <1>1, <1>2, Closes
<1>4. Writes(t)
  BY <1>1, <1>2, Closes
<1>5. OwnStep(t, r, Idle)
  BY <1>1, <1>2, <1>3, <1>4, GoneIdle DEF OwnStep
<1> QED
  BY <1>5

\* The receipt is in memory, and on file unless its save failed.
LEMMA SettlingIsOwn ==
    ASSUME RegistryInv, NEW t \in Thread, Settling(t)
    PROVE  \E r, u : OwnStep(t, r, u)
<1> DEFINE r == [Of(t) EXCEPT !.stage = "settling"]
<1>1. run[t] # Idle /\ Instr(t) = "settling"
  BY AtRuns DEF Settling, Instrs
<1>2. /\ UNCHANGED <<gen, next, ask, said, minted, crashes, captured, posted, resolved>>
      /\ captured \subseteq Doc /\ posted \subseteq Doc /\ resolved \subseteq Doc
      /\ Record(t, r)
      /\ \/ Save(run[t].gen) /\ Advance(t)
         \/ SaveRaises /\ run' = [run EXCEPT ![t].at = @ + 1, ![t].unread = TRUE]
  BY DEF Settling, askVars, docVars, RegistryInv, Types
<1>3. /\ Of(t) \in JobRecord /\ Of(t).state = "running" /\ Finds(run[t], Of(t))
      /\ Follows(run[t].op, run[t].at) /\ Instr(t) = Program[run[t].op][run[t].at]
  BY <1>1, OfThread, WhileRunning
<1>4. /\ r \in JobRecord /\ r.state = "running" /\ r.op = Of(t).op
      /\ r.cancel = Of(t).cancel /\ r.stage = "settling"
  BY <1>3 DEF JobRecord
<1>5. Leaves(t, r)
  BY <1>3, <1>4 DEF Leaves, Open
<1>6. PICK u : /\ Moved(t, u, run[t].at + 1) /\ run' = [run EXCEPT ![t] = u]
               /\ u.unread \/ file' = reg'[u.gen]
  <2>1. CASE Save(run[t].gen) /\ Advance(t)
    <3>1. file' = reg'[run[t].gen]
      BY <2>1 DEF Save, Write
    <3> QED
      BY <1>1, <2>1, <3>1, AdvanceMoves DEF Moved
  <2>2. CASE SaveRaises /\ run' = [run EXCEPT ![t].at = @ + 1, ![t].unread = TRUE]
    <3> DEFINE v == [run[t] EXCEPT !.at = @ + 1, !.unread = TRUE]
    <3>1. run[t] \in RunRecord /\ run[t].at \in Nat
      BY <1>1, OfThread
    <3>2. [run[t] EXCEPT !.at = @ + 1] \in RunRecord
      BY <3>1 DEF RunRecord
    <3>4. v \in RunRecord
      BY <3>1, <3>2 DEF RunRecord
    <3>5. Moved(t, v, run[t].at + 1) /\ v.unread
      BY <3>1, <3>4 DEF Moved, RunRecord
    <3>3. run' = [run EXCEPT ![t] = v]
      BY <2>2
    <3> QED
      BY <3>3, <3>5
  <2> QED
    BY <1>2, <2>1, <2>2
<1>7. u.at \in DOMAIN Program[u.op] /\ Program[u.op][u.at] = "post"
  BY <1>1, <1>3, <1>6 DEF Follows, Moved
<1>8. Finds(u, r)
  BY <1>3, <1>4, <1>6, FindsRunning DEF Finds, Moved
<1>9. run[t].op = "recover" => run[t].doc \notin posted
  BY <1>1 DEF RegistryInv, RecoverBeforePosting
<1>10. Writes(t)
  BY <1>2, Saves
<1>11. Goes(t, r, u)
  <2> HIDE DEF r
  <2> QED
    BY <1>1, <1>2, <1>4, <1>6, <1>7, <1>8, <1>9, <1>10 DEF Goes, Moved
<1>12. OwnStep(t, r, u)
  BY <1>1, <1>2, <1>4, <1>5, <1>6, <1>10, <1>11 DEF OwnStep, Moved
<1> QED
  BY <1>12

\* A pulse saves the registry, fails to, or is not due.
LEMMA Pulses ==
    ASSUME RegistryInv, NEW t \in Thread, MayPulse(t)
    PROVE  UNCHANGED reg /\ Writes(t)
  BY Saves, NoSave DEF MayPulse, fileVars

\* The pump of a bulk import moves its own thread only.
LEMMA PumpIsOwn ==
    ASSUME RegistryInv, NEW t \in Thread, Pump(t)
    PROVE  \E r, u : OwnStep(t, r, u)
<1> DEFINE stop == \/ run[t].stopped \/ Of(t).cancel
                   \/ errors' # errors
           u == [run[t] EXCEPT !.at = @ + 1, !.stopped = stop]
<1>1. run[t] # Idle /\ Instr(t) = "pump"
  BY AtRuns DEF Pump, Instrs
<1>2. /\ UNCHANGED <<gen, next, ask, said, minted, crashes, captured, posted, resolved>>
      /\ captured \subseteq Doc /\ posted \subseteq Doc /\ resolved \subseteq Doc
      /\ MayPulse(t)
      /\ run' = [run EXCEPT ![t] = u]
  BY DEF Pump, askVars, docVars, RegistryInv, Types
<1>3. /\ Of(t) \in JobRecord /\ Of(t).state = "running"
      /\ run[t] \in RunRecord /\ run[t].at \in Nat
  BY <1>1, OfThread, WhileRunning
<1>4. Moved(t, u, run[t].at + 1)
  <2>1. /\ Moved(t, [run[t] EXCEPT !.at = @ + 1, !.stopped = TRUE], run[t].at + 1)
        /\ Moved(t, [run[t] EXCEPT !.at = @ + 1, !.stopped = FALSE], run[t].at + 1)
    <3> HIDE DEF stop, u
    <3>1. [run[t] EXCEPT !.at = @ + 1] \in RunRecord
      BY <1>3 DEF RunRecord
    <3>2. [run[t] EXCEPT !.at = @ + 1, !.stopped = TRUE] \in RunRecord
      BY <1>3, <3>1 DEF RunRecord
    <3>3. [run[t] EXCEPT !.at = @ + 1, !.stopped = FALSE] \in RunRecord
      BY <1>3, <3>1 DEF RunRecord
    <3> QED
      BY <1>3, <3>2, <3>3 DEF Moved, RunRecord
  <2>2. stop = TRUE \/ stop = FALSE
    BY Zenon
  <2> HIDE DEF stop
  <2>3. u = [run[t] EXCEPT !.at = @ + 1, !.stopped = stop]
    OBVIOUS
  <2> QED
    BY <2>1, <2>2, <2>3, Zenon
<1> HIDE DEF u
<1>5. Goes(t, Of(t), u)
  BY <1>1, <1>3, <1>4, GoesOn
<1>6. OwnStep(t, Of(t), u)
  BY <1>1, <1>2, <1>3, <1>4, <1>5, SameRecord, Pulses DEF OwnStep, Moved
<1> QED
  BY <1>6

\* The finally block finds its record running or over.
LEMMA PulseIsOwn ==
    ASSUME RegistryInv, NEW t \in Thread, Pulse(t)
    PROVE  \E r, u : OwnStep(t, r, u)
<1>1. run[t] # Idle /\ Instr(t) = "pulse"
  BY AtRuns DEF Pulse, Instrs
<1>2. /\ UNCHANGED <<gen, next, ask, said, minted, crashes, captured, posted, resolved>>
      /\ captured \subseteq Doc /\ posted \subseteq Doc /\ resolved \subseteq Doc
      /\ MayPulse(t) /\ Advance(t)
  BY DEF Pulse, askVars, docVars, RegistryInv, Types
<1>3. /\ Of(t) \in JobRecord /\ Finds(run[t], Of(t))
      /\ Follows(run[t].op, run[t].at) /\ Instr(t) = Program[run[t].op][run[t].at]
  BY <1>1, OfThread
<1>4. Of(t).state \in {"running"} \cup Terminal /\ Of(t).state # "absent"
  BY <1>1, <1>3 DEF Finds, Follows, Terminal
<1>5. PICK u : Moved(t, u, run[t].at + 1) /\ run' = [run EXCEPT ![t] = u]
  BY <1>1, <1>2, AdvanceMoves
<1>6. Goes(t, Of(t), u)
  BY <1>1, <1>4, <1>5, GoesOn
<1>7. OwnStep(t, Of(t), u)
  BY <1>1, <1>2, <1>3, <1>5, <1>6, SameRecord, Pulses DEF OwnStep, Moved
<1> QED
  BY <1>7

\* A settlement that fails moves the record of its own thread only.
LEMMA SettleFailsIsOwn ==
    ASSUME RegistryInv, NEW t \in Thread, SettleFails(t)
    PROVE  \E r, u : OwnStep(t, r, u)
<1> DEFINE r == [Of(t) EXCEPT !.state = "failed"]
<1>1. run[t] # Idle /\ Instr(t) = "settle"
  BY AtRuns DEF SettleFails, Instrs
<1>2. /\ UNCHANGED <<gen, next, ask, said, minted, crashes, captured, posted, resolved>>
      /\ captured \subseteq Doc /\ posted \subseteq Doc /\ resolved \subseteq Doc
      /\ Record(t, r)
      /\ Save(run[t].gen) \/ SaveRaises
  BY DEF SettleFails, askVars, docVars, RegistryInv, Types
<1>3. /\ Of(t) \in JobRecord /\ Of(t).state = "running" /\ run[t] \in RunRecord
      /\ Follows(run[t].op, run[t].at) /\ Instr(t) = Program[run[t].op][run[t].at]
  BY <1>1, OfThread, WhileRunning
<1>4. run[t].op = "bulk"
  BY <1>1, <1>3 DEF Follows
<1>5. /\ r \in JobRecord /\ r.state = "failed" /\ r.op = Of(t).op
      /\ r.cancel = Of(t).cancel /\ Of(t).state # "absent"
  BY <1>3, StateSet DEF Terminal
<1>6. Leaves(t, r)
  BY <1>3, <1>5 DEF Leaves, Open
<1>7. PICK u : Moved(t, u, Pulsing) /\ run' = [run EXCEPT ![t] = u]
  <2> DEFINE v == [run[t] EXCEPT !.at = Pulsing]
             w == [run[t] EXCEPT !.at = Pulsing, !.raised = TRUE]
  <2>1. Moved(t, v, Pulsing) /\ Moved(t, w, Pulsing)
    BY <1>3, Programs DEF Moved, RunRecord
  <2>2. run' = [run EXCEPT ![t] = v] \/ run' = [run EXCEPT ![t] = w]
    BY DEF SettleFails
  <2> QED
    BY <2>1, <2>2
<1>8. Goes(t, r, u)
  <2>1. r.state \in {"running"} \cup Terminal
    BY <1>5 DEF Terminal
  <2> HIDE DEF r
  <2> QED
    BY <1>1, <1>4, <1>5, <1>7, <2>1, GoesToPulse
<1>9. OwnStep(t, r, u)
  BY <1>1, <1>2, <1>5, <1>6, <1>7, <1>8, Saves DEF OwnStep, Moved
<1> QED
  BY <1>9

\* The stop is recorded, on file too unless one of its two saves fails.
LEMMA DrainIsOwn ==
    ASSUME RegistryInv, NEW t \in Thread, Drain(t)
    PROVE  \E r, u : OwnStep(t, r, u)
<1>1. run[t] # Idle /\ Instr(t) = "drain"
  BY AtRuns DEF Drain, Instrs
<1>2. /\ UNCHANGED <<gen, next, ask, said, minted, crashes, captured, posted, resolved>>
      /\ captured \subseteq Doc /\ posted \subseteq Doc /\ resolved \subseteq Doc
      /\ Advance(t)
  BY DEF Drain, askVars, docVars, RegistryInv, Types
<1>3. Of(t) \in JobRecord /\ Of(t).state = "running" /\ Of(t).state # "absent"
  BY <1>1, OfThread, WhileRunning
<1>4. PICK u : Moved(t, u, run[t].at + 1) /\ run' = [run EXCEPT ![t] = u]
  BY <1>1, <1>2, AdvanceMoves
<1>5. CASE run[t].stopped
  <2> DEFINE r == [Asked(Of(t)) EXCEPT !.state = "cancelled"]
  <2>1. /\ Record(t, r)
        /\ Save(run[t].gen) \/ StateSaveRaises(run[t].gen, run[t].job)
    BY <1>5 DEF Drain
  <2>2. r \in JobRecord /\ r.state = "cancelled" /\ r.op = Of(t).op /\ r.cancel
    BY <1>3 DEF Asked, JobRecord, Terminal
  <2>3. Leaves(t, r)
    BY <1>3, <2>2 DEF Leaves, Open
  <2>4. Writes(t)
    <3>1. CASE Save(run[t].gen)
      BY <3>1, Saves
    <3>2. CASE StateSaveRaises(run[t].gen, run[t].job)
      <4>1. /\ file' = [reg[run[t].gen] EXCEPT ![run[t].job] = Asked(@)]
            /\ late' = (late \/ run[t].gen # gen) /\ errors' = errors + 1
        BY <3>2 DEF StateSaveRaises, Write, Error
      <4>2. late' \in BOOLEAN /\ (~late' => ~late /\ run[t].gen = gen)
        BY <4>1, Zenon
      <4> QED
        BY <4>1, <4>2 DEF Writes, RegistryInv, Types
    <3> QED
      BY <2>1, <3>1, <3>2
  <2>5. Goes(t, r, u)
    <3>1. r.state \in Terminal
      BY <2>2 DEF Terminal
    <3> HIDE DEF r
    <3> QED
      BY <1>1, <1>3, <1>4, <2>2, <3>1, GoesOn
  <2>6. OwnStep(t, r, u)
    BY <1>1, <1>2, <1>4, <2>1, <2>2, <2>3, <2>4, <2>5 DEF OwnStep, Moved
  <2> QED
    BY <2>6
<1>6. CASE ~run[t].stopped
  <2>1. UNCHANGED <<reg, file, late, errors>>
    BY <1>6 DEF Drain, fileVars
  <2>2. Goes(t, Of(t), u)
    BY <1>1, <1>3, <1>4, GoesOn
  <2>3. OwnStep(t, Of(t), u)
    BY <1>1, <1>2, <1>3, <1>4, <2>1, <2>2, SameRecord, NoSave DEF OwnStep, Moved
  <2> QED
    BY <2>3
<1> QED
  BY <1>5, <1>6

\* A bulk import that raises moves the record of its own thread only.
LEMMA BulkRaisesIsOwn ==
    ASSUME RegistryInv, NEW t \in Thread, BulkRaises(t)
    PROVE  \E r, u : OwnStep(t, r, u)
<1> DEFINE stop == Of(t).cancel \/ (Instr(t) = "drain" /\ run[t].stopped)
           r == [Of(t) EXCEPT !.cancel = stop]
           u == [run[t] EXCEPT !.at = Pulsing, !.raised = TRUE]
<1>1. /\ run[t] # Idle /\ Instr(t) \in {"pump", "work", "reach", "settle", "drain"}
      /\ run[t].op = "bulk"
  BY AtRuns DEF BulkRaises, Instrs
<1>2. /\ Of(t) \in JobRecord /\ Of(t).state = "running" /\ run[t] \in RunRecord
      /\ run[t].gen \in Gen /\ run[t].job \in JobId
  BY <1>1, OfThread, WhileRunning
<1>3. Record(t, r)
  BY <1>2 DEF BulkRaises, Record, Of, RegistryInv, Types
<1>4. /\ UNCHANGED <<gen, next, ask, said, minted, crashes, captured, posted, resolved,
                     file, late, errors>>
      /\ captured \subseteq Doc /\ posted \subseteq Doc /\ resolved \subseteq Doc
      /\ run' = [run EXCEPT ![t] = u]
  BY DEF BulkRaises, fileVars, askVars, docVars, RegistryInv, Types
<1>5. /\ r \in JobRecord /\ r.state = "running" /\ r.op = Of(t).op
      /\ Of(t).cancel => r.cancel
  <2>1. stop \in BOOLEAN /\ (Of(t).cancel => stop)
    OBVIOUS
  <2> HIDE DEF stop
  <2> QED
    BY <1>2, <2>1 DEF JobRecord
<1>6. Leaves(t, r)
  BY <1>2, <1>5 DEF Leaves, Open
<1>7. Moved(t, u, Pulsing)
  BY <1>2, Programs DEF Moved, RunRecord
<1>8. Goes(t, r, u)
  <2>1. Of(t).state # "absent"
    BY <1>2
  <2> HIDE DEF r, u
  <2> QED
    BY <1>1, <1>5, <1>7, <2>1, GoesToPulse
<1>9. OwnStep(t, r, u)
  BY <1>1, <1>3, <1>4, <1>5, <1>6, <1>7, <1>8, NoSave DEF OwnStep, Moved
<1> QED
  BY <1>9

\* The stop of a host that is gone is asked of a record that is not over.
LEMMA HostGoneIsOwn ==
    ASSUME RegistryInv, NEW t \in Thread, HostGone(t)
    PROVE  \E r, u : OwnStep(t, r, u)
<1> DEFINE stop == Of(t).cancel \/ Of(t).state \notin Terminal
           r == [Of(t) EXCEPT !.cancel = stop]
           u == [run[t] EXCEPT !.stopped = TRUE]
<1>1. run[t] # Idle /\ Instr(t) \in {"pump", "pulse"}
  BY AtRuns DEF HostGone, Instrs
<1>2. /\ Of(t) \in JobRecord /\ run[t] \in RunRecord /\ Finds(run[t], Of(t))
      /\ run[t].gen \in Gen /\ run[t].job \in JobId
      /\ run[t].at \in DOMAIN Program[run[t].op]
      /\ Instr(t) = Program[run[t].op][run[t].at]
  BY <1>1, OfThread
<1>3. Record(t, r)
  BY <1>2 DEF HostGone, Record, Of, RegistryInv, Types
<1>4. /\ UNCHANGED <<gen, next, ask, said, minted, crashes, captured, posted, resolved>>
      /\ captured \subseteq Doc /\ posted \subseteq Doc /\ resolved \subseteq Doc
      /\ run' = [run EXCEPT ![t] = u]
      /\ Save(run[t].gen) \/ SaveRaises
  BY DEF HostGone, askVars, docVars, RegistryInv, Types
<1>5. /\ r \in JobRecord /\ r.state = Of(t).state /\ r.op = Of(t).op
      /\ Of(t).cancel => r.cancel
  <2>1. stop \in BOOLEAN /\ (Of(t).cancel => stop)
    OBVIOUS
  <2> HIDE DEF stop
  <2> QED
    BY <1>2, <2>1 DEF JobRecord
<1>6. Leaves(t, r)
  BY <1>5 DEF Leaves, Open
<1>7. Moved(t, u, run[t].at)
  BY <1>2 DEF Moved, RunRecord
<1>8. Goes(t, r, u)
  <2>1. Finds(u, r)
    BY <1>2, <1>5, <1>7 DEF Finds, Moved
  <2> HIDE DEF r, u
  <2> QED
    BY <1>1, <1>2, <1>7, <2>1 DEF Goes, Moved
<1>9. OwnStep(t, r, u)
  BY <1>1, <1>3, <1>4, <1>5, <1>6, <1>7, <1>8, Saves DEF OwnStep, Moved
<1> QED
  BY <1>9

\* Every step of a thread is one of these.
LEMMA JobStepIsOwn ==
    ASSUME RegistryInv, NEW t \in Thread, JobStep(t) \/ HostGone(t)
    PROVE  \E r, u : OwnStep(t, r, u)
  BY BeginIsOwn, CheckIsOwn, ReachIsOwn, QuietIsOwn, FinishIsOwn, RaisesIsOwn, BindIsOwn,
     ReadIsOwn, ReadSkippedIsOwn, ReadRefusedIsOwn, SettlingIsOwn, PumpIsOwn, PulseIsOwn,
     SettleFailsIsOwn, DrainIsOwn, BulkRaisesIsOwn, HostGoneIsOwn
  DEF JobStep
-----------------------------------------------------------------------------
\* The other steps keep the invariant too.

\* A sidecar that starts on an empty file satisfies the invariant.
LEMMA InitHolds == Init => RegistryInv
<1> SUFFICES ASSUME Init PROVE RegistryInv
  OBVIOUS
<1>1. Absent \in JobRecord /\ Absent.state = "absent"
  BY DEF Absent, JobRecord
<1>2. NoJobs \in [JobId -> JobRecord] /\ \A j \in JobId : NoJobs[j].state = "absent"
  BY <1>1 DEF NoJobs
<1>3. 0 \in Gen /\ 1 \in 1 .. MaxJobs + 1 /\ 0 \in 0 .. MaxJobs
  BY JobBoundsAssumption DEF Gen
<1>4. Idle \in RunRecord /\ Idle.op = "none"
  BY <1>3 DEF RunRecord, Idle
<1>5. \A t \in Thread : run[t] = Idle
  BY DEF Init
<1>6. Types
  BY <1>2, <1>3, <1>4 DEF Init, Types
<1>7. Unnumbered
  BY <1>2, <1>3 DEF Init, Unnumbered
<1>8. Threads /\ OneThread /\ Records
  BY <1>5 DEF Threads, OneThread, Records
<1>9. RecoverBeforePosting
  BY <1>4, <1>5 DEF RecoverBeforePosting
<1> QED
  BY <1>6, <1>7, <1>8, <1>9 DEF RegistryInv

\* A job that was just opened: its record, its number, and who is left alone.
LEMMA Opened ==
    ASSUME RegistryInv, NEW op \in DOMAIN Program, NEW t, NEW doc, Opens(op, t, doc)
    PROVE  /\ reg' \in [Gen -> [JobId -> JobRecord]]
           /\ next \in JobId /\ next' = next + 1 /\ gen' = gen /\ gen \in Gen
           /\ reg'[gen][next] = [Absent EXCEPT !.op = op, !.state = "queued"]
           /\ \A g \in Gen \ {gen} : reg'[g] = reg[g]
           /\ \A j \in JobId \ {next} :
                 /\ reg'[gen][j] \in {reg[gen][j], Absent}
                 /\ reg[gen][j].state \notin Terminal => reg'[gen][j] = reg[gen][j]
<1> DEFINE rec == [Absent EXCEPT !.op = op, !.state = "queued"]
           jobs == [reg[gen] EXCEPT ![next] = rec]
<1>1. /\ next \in JobId /\ next' = next + 1 /\ gen' = gen /\ gen \in Gen
      /\ reg' = [reg EXCEPT ![gen] = Forget(jobs)]
  BY DEF Opens, RegistryInv, Types
<1>2. reg \in [Gen -> [JobId -> JobRecord]]
  BY DEF RegistryInv, Types
<1>3. rec \in JobRecord /\ rec.state = "queued"
  BY DEF Absent, JobRecord, Open
<1>4. jobs \in [JobId -> JobRecord] /\ jobs[next] = rec
      /\ \A j \in JobId \ {next} : jobs[j] = reg[gen][j]
  BY <1>1, <1>2, <1>3
<1>5. Forget(jobs)[next] = rec
  <2>1. next \notin Settled(jobs)
    BY <1>3, <1>4 DEF Settled, Terminal
  <2> QED
    BY <1>1, <1>4, <2>1, Forgets
<1>6. /\ Forget(jobs) \in [JobId -> JobRecord]
      /\ \A j \in JobId \ {next} :
            /\ Forget(jobs)[j] \in {reg[gen][j], Absent}
            /\ reg[gen][j].state \notin Terminal => Forget(jobs)[j] = reg[gen][j]
  <2> HIDE DEF jobs
  <2> QED
    BY <1>4, Forgets DEF Settled
<1>7. reg' \in [Gen -> [JobId -> JobRecord]] /\ reg'[gen] = Forget(jobs)
      /\ \A g \in Gen \ {gen} : reg'[g] = reg[g]
  BY <1>1, <1>2, <1>6
<1> QED
  BY <1>1, <1>5, <1>6, <1>7

\* A job is opened for a thread that was idle.
LEMMA OpensKeeps ==
    ASSUME RegistryInv, NEW op \in DOMAIN Program, NEW t \in Thread,
           NEW doc \in Doc \cup {NoDoc}, run[t] = Idle,
           op = "spend" <=> t # Fg,
           op \in {"upload", "recover"} => doc \in Doc,
           Opens(op, t, doc)
    PROVE  RegistryInv'
<1> DEFINE v == [Idle EXCEPT !.op = op, !.job = next, !.gen = gen, !.at = 1, !.doc = doc]
<1>1. /\ reg' \in [Gen -> [JobId -> JobRecord]]
      /\ next \in JobId /\ next' = next + 1 /\ gen' = gen /\ gen \in Gen
      /\ reg'[gen][next] = [Absent EXCEPT !.op = op, !.state = "queued"]
      /\ \A g \in Gen \ {gen} : reg'[g] = reg[g]
      /\ \A j \in JobId \ {next} :
            /\ reg'[gen][j] \in {reg[gen][j], Absent}
            /\ reg[gen][j].state \notin Terminal => reg'[gen][j] = reg[gen][j]
  <2> HIDE DEF v
  <2> QED
    BY Opened, Zenon
<1> USE DEF RegistryInv
<1>2. /\ UNCHANGED <<ask, said, captured, posted, resolved, crashes>>
      /\ run[Fg] = Idle /\ ask = 0
      /\ \/ file' = reg'[gen] /\ errors' = errors /\ minted' = minted \cup {next}
            /\ run' = [run EXCEPT ![t] = v]
         \/ UNCHANGED <<file, minted, run>> /\ errors' = errors + 1
  BY DEF Opens, FgFree, askVars, docVars, Save, Write, SaveRaises, fileVars, NoError, Error
<1>3. MaxJobs \in Nat /\ next \in Nat /\ next \in 1 .. MaxJobs /\ MaxOpens \in Nat
  BY <1>1, JobBoundsAssumption DEF JobId
<1>4. /\ v \in RunRecord /\ v.op = op /\ v.job = next /\ v.gen = gen /\ v.at = 1
      /\ v.doc = doc /\ v # Idle
  <2>1. next \in 0 .. MaxJobs /\ Idle.at = 0
    BY <1>3 DEF Idle
  <2>2. Idle \in RunRecord
    BY GoneIdle
  <2>3. gen \in Gen /\ 1 \in Nat
    BY <1>1
  <2>4. PICK w \in RunRecord : w = Idle
    BY <2>2
  <2>5. v = [w EXCEPT !.op = op, !.job = next, !.gen = gen, !.at = 1, !.doc = doc]
    BY <2>4
  <2> HIDE DEF v, RegistryInv
  <2>6. /\ v \in RunRecord /\ v.op = op /\ v.job = next /\ v.gen = gen /\ v.at = 1
        /\ v.doc = doc
    BY <2>1, <2>3, <2>5 DEF RunRecord
  <2> QED
    BY <2>1, <2>6
<1>5. 1 \in DOMAIN Program[op] /\ op # "none"
  BY Programs
<1> HIDE DEF v
<1>6. \A s \in Thread : run'[s] = run[s] \/ (s = t /\ run'[s] = v)
  BY <1>2 DEF Types
<1>7. Types'
  <2>0. late' \in BOOLEAN
    BY DEF Opens, Save, Write, SaveRaises, fileVars, RegistryInv, Types
  <2>1. minted' \subseteq JobId /\ errors' \in Nat /\ file' \in [JobId -> JobRecord]
    BY <1>1, <1>2 DEF Types
  <2>2. run' \in [Thread -> RunRecord]
    BY <1>2, <1>4 DEF Types
  <2>3. next' \in 1 .. MaxJobs + 1
    BY <1>1, <1>3
  <2> QED
    BY <1>1, <1>2, <2>0, <2>1, <2>2, <2>3 DEF Types
<1>8. Threads'
  <2> SUFFICES ASSUME NEW s \in Thread, run'[s] # Idle
               PROVE  /\ Running(run'[s])
                      /\ run'[s].op = "spend" <=> s # Fg
                      /\ run'[s].gen <= gen
                      /\ run'[s].gen = gen => run'[s].job < next + 1
    BY <1>1 DEF Threads
  <2>1. CASE run'[s] = run[s]
    <3>1. /\ Running(run[s]) /\ (run[s].op = "spend" <=> s # Fg)
          /\ run[s].gen <= gen /\ (run[s].gen = gen => run[s].job < next)
          /\ run[s].job \in Nat
      BY <2>1 DEF Threads, Running, JobId
    <3> QED
      BY <1>3, <2>1, <3>1
  <2>2. CASE s = t /\ run'[s] = v
    <3>1. Running(v)
      BY <1>1, <1>4, <1>5 DEF Running
    <3>2. gen <= gen
      BY <1>1 DEF Gen
    <3> QED
      BY <1>3, <1>4, <2>2, <3>1, <3>2
  <2> QED
    BY <1>6, <2>1, <2>2
<1>9. OneThread'
  <2>1. \A s \in Thread : run[s] # Idle /\ run[s].gen = gen => run[s].job # next
    BY <1>3 DEF Threads, Running, JobId
  <2> QED
    BY <1>4, <1>6, <2>1 DEF OneThread
<1>10. Unnumbered'
  <2>1. Absent.state = "absent"
    BY DEF Absent
  <2>2. ASSUME NEW j \in JobId, j >= next + 1
        PROVE  reg'[gen][j].state = "absent"
    <3>1. j # next /\ j >= next
      BY <1>3, <2>2 DEF JobId
    <3>2. reg[gen][j].state = "absent"
      BY <3>1 DEF Unnumbered
    <3> QED
      BY <1>1, <2>1, <3>1, <3>2
  <2>3. \A g \in Gen : g > gen => g # gen
    BY <1>1 DEF Gen
  <2> QED
    BY <1>1, <2>2, <2>3 DEF Unnumbered
<1>11. Records'
  <2> SUFFICES ASSUME NEW s \in Thread, run'[s] # Idle
               PROVE  Finds(run'[s], reg'[run'[s].gen][run'[s].job])
    BY DEF Records, Of
  <2>1. CASE run'[s] = run[s]
    <3>1. /\ run[s].gen \in Gen /\ run[s].job \in JobId /\ Finds(run[s], Of(s))
          /\ Of(s) \in JobRecord
      BY <2>1, OfThread
    <3>2. run[s].op # "bulk" /\ (run[s].gen = gen => run[s].job # next)
      BY <1>2, <1>3, <2>1 DEF Threads, Running, JobId
    <3>3. CASE run[s].gen = gen
      <4>1. reg'[gen][run[s].job] = Of(s) \/ Of(s).state \in Terminal
        BY <1>1, <3>1, <3>2, <3>3 DEF Of
      <4>2. CASE reg'[gen][run[s].job] = Of(s)
        BY <2>1, <3>1, <3>3, <4>2
      <4>3. CASE Of(s).state \in Terminal
        <5>1. ~(run[s].at > 1)
          BY <3>1, <3>2, <4>3 DEF Finds, Terminal
        <5>2. reg'[gen][run[s].job] = Absent
              \/ reg'[gen][run[s].job] = Of(s)
          BY <1>1, <3>1, <3>2, <3>3 DEF Of
        <5>3. Absent.state = "absent"
          BY DEF Absent
        <5> QED
          BY <2>1, <3>1, <3>3, <5>1, <5>2, <5>3 DEF Finds
      <4> QED
        BY <4>1, <4>2, <4>3
    <3>4. CASE run[s].gen # gen
      BY <1>1, <2>1, <3>1, <3>4 DEF Of
    <3> QED
      BY <3>3, <3>4
  <2>2. CASE s = t /\ run'[s] = v
    <3>1. reg'[gen][next].op = op /\ reg'[gen][next].state = "queued"
      <4>1. [Absent EXCEPT !.op = op, !.state = "queued"].op = op
        BY DEF Absent
      <4>2. [Absent EXCEPT !.op = op, !.state = "queued"].state = "queued"
        BY DEF Absent
      <4> QED
        BY <1>1, <4>1, <4>2
    <3>2. Finds(v, reg'[gen][next])
      BY <1>4, <3>1 DEF Finds
    <3> QED
      BY <1>4, <2>2, <3>2
  <2> QED
    BY <1>6, <2>1, <2>2
<1>12. RecoverBeforePosting'
  <2> SUFFICES ASSUME NEW s \in Thread, run'[s].op = "recover",
                      Instr(s)' \in {"settling", "post"}
               PROVE  run'[s].doc \notin posted'
    BY DEF RecoverBeforePosting
  <2>1. CASE run'[s] = run[s]
    BY <1>2, <2>1 DEF RecoverBeforePosting, Instr
  <2>2. CASE s = t /\ run'[s] = v
    <3>1. Instr(s)' = Program[op][1]
      BY <1>4, <2>2 DEF Instr
    <3>2. Program[op][1] = "begin"
      BY <1>5, EachFollows DEF Follows
    <3> QED
      BY <3>1, <3>2
  <2> QED
    BY <1>6, <2>1, <2>2
<1> QED
  BY <1>7, <1>8, <1>9, <1>10, <1>11, <1>12

\* Every request that opens a job.
LEMMA RequestKeeps ==
    ASSUME RegistryInv, Request
    PROVE  RegistryInv'
<1> USE DEF RegistryInv
<1>1. ASSUME NEW op, NEW t, NEW doc, Opens(op, t, doc)
      PROVE  op \in DOMAIN Program /\ run[Fg] = Idle /\ Fg \in Thread
  BY <1>1, OpsAssumption DEF Opens, FgFree, Thread
<1>2. CASE RequestPlain
  <2>1. PICK op \in {"plain", "bulk"} : Opens(op, Fg, NoDoc)
    BY <1>2 DEF RequestPlain
  <2> QED
    BY <1>1, <2>1, OpensKeeps
<1>3. CASE \E d \in Doc : RequestUpload(d)
  <2>1. PICK d \in Doc : Opens("upload", Fg, d)
    BY <1>3 DEF RequestUpload
  <2> QED
    BY <1>1, <2>1, OpensKeeps
<1>4. CASE \E o \in JobId : RequestRecover(o)
  <2>1. PICK o \in JobId : Recoverable(reg[gen][o]) /\ Opens("recover", Fg, reg[gen][o].doc)
    BY <1>4 DEF RequestRecover
  <2>2. reg[gen][o].doc \in Doc
    BY <2>1 DEF Recoverable, Types, JobRecord
  <2> QED
    BY <1>1, <2>1, <2>2, OpensKeeps
<1>5. CASE \E b \in Background : RequestSpend(b)
  <2>1. PICK b \in Background : run[b] = Idle /\ Opens("spend", b, NoDoc)
    BY <1>5 DEF RequestSpend
  <2>2. b \in Thread /\ b # Fg
    BY BackgroundAssumption DEF Thread
  <2> QED
    BY <1>1, <2>1, <2>2, OpensKeeps
<1>6. CASE \E j \in JobId : AskStop(j)
  <2>1. PICK j \in JobId : AskStop(j)
    BY <1>6
  <2>2. /\ UNCHANGED <<reg, gen, next, file, late, run, said, minted, captured, posted,
                       resolved, crashes, errors>>
        /\ ask' = j
    BY <2>1 DEF AskStop, regVars, fileVars, docVars
  <2>3. Types'
    BY <2>2 DEF Types, JobId
  <2> QED
    BY <2>2, <2>3
    DEF Threads, OneThread, Unnumbered, Records, Of, RecoverBeforePosting, Instr
<1> QED
  BY <1>2, <1>3, <1>4, <1>5, <1>6 DEF Request

\* A record with its stop request, and a record that is cancelled at once.
LEMMA AskedRecord ==
    ASSUME NEW r, r \in JobRecord
    PROVE  /\ Asked(r) \in JobRecord /\ Asked(r).op = r.op /\ Asked(r).state = r.state
           /\ Asked(r).stage = r.stage /\ Asked(r).cancel
<1> DEFINE a == [r EXCEPT !.cancel = TRUE]
<1>1. a \in JobRecord /\ a.op = r.op /\ a.state = r.state /\ a.stage = r.stage
  BY DEF JobRecord
<1>2. a.cancel
  BY DEF JobRecord
<1>3. Asked(r) = a
  BY DEF Asked
<1> HIDE DEF a
<1> QED
  BY <1>1, <1>2, <1>3, Zenon

\* What a stop makes of a record: only a queued job is cancelled at once.
LEMMA CancelledRecord ==
    ASSUME NEW r, r \in JobRecord
    PROVE  /\ Cancelled(r) \in JobRecord /\ Cancelled(r).op = r.op
           /\ Cancelled(r).stage = r.stage /\ Cancelled(r).cancel
           /\ \/ Cancelled(r).state = r.state
              \/ r.state = "queued" /\ Cancelled(r).state = "cancelled"
<1>1. PICK a : /\ a \in JobRecord /\ a = Asked(r) /\ a.op = r.op /\ a.state = r.state
                             /\ a.stage = r.stage /\ a.cancel
  BY AskedRecord
<1> DEFINE c == [a EXCEPT !.state = "cancelled"]
<1>2. c \in JobRecord /\ c.op = a.op /\ c.stage = a.stage /\ c.state = "cancelled"
  BY <1>1 DEF JobRecord, Terminal
<1>3. c.cancel
  BY <1>1 DEF JobRecord
<1>4. Cancelled(r) = IF r.state = "queued" THEN c ELSE a
  BY <1>1 DEF Cancelled
<1> HIDE DEF c
<1>5. CASE r.state = "queued"
  BY <1>1, <1>2, <1>3, <1>4, <1>5, Zenon
<1>6. CASE r.state # "queued"
  BY <1>1, <1>4, <1>6, Zenon
<1> QED
  BY <1>5, <1>6

\* What a stop request leaves: nobody settles a job that has begun but its own
\* thread.
LEMMA Stopped ==
    ASSUME RegistryInv, Stop
    PROVE  /\ ask \in JobId /\ gen \in Gen
           /\ reg' \in [Gen -> [JobId -> JobRecord]]
           /\ reg[gen][ask] \in JobRecord /\ reg'[gen][ask] \in JobRecord
           /\ \A g \in Gen, j \in JobId :
                 ~(g = gen /\ j = ask) => reg'[g][j] = reg[g][j]
           /\ reg[gen][ask].state # "absent"
           /\ reg'[gen][ask].op = reg[gen][ask].op
           /\ \/ reg'[gen][ask].state = reg[gen][ask].state
              \/ reg[gen][ask].state = "queued" /\ reg'[gen][ask].state = "cancelled"
           /\ reg[gen][ask].cancel => reg'[gen][ask].cancel
           /\ reg[gen][ask].state \in Open => reg'[gen][ask].cancel
           /\ reg'[gen][ask].stage = reg[gen][ask].stage
<1> DEFINE r == reg[gen][ask]
<1>1. /\ ask \in JobId /\ gen \in Gen /\ reg \in [Gen -> [JobId -> JobRecord]]
      /\ r \in JobRecord
  <2>1. ask \in 0 .. MaxJobs /\ ask # 0 /\ gen \in Gen
        /\ reg \in [Gen -> [JobId -> JobRecord]]
    BY DEF Stop, RegistryInv, Types
  <2>2. ask \in JobId
    BY <2>1, JobBoundsAssumption DEF JobId
  <2> QED
    BY <2>1, <2>2
<1>2. PICK x : /\ x \in {r, Asked(r), Cancelled(r)}
               /\ r.state \in Open \cup Terminal
               /\ r.state \in Open => x \in {Asked(r), Cancelled(r)}
               /\ r.state \notin Open => x = r
               /\ reg' = [reg EXCEPT ![gen][ask] = x]
  <2>1. CASE r.state \in Terminal /\ UNCHANGED reg
    <3>1. reg' = [reg EXCEPT ![gen][ask] = r]
      BY <1>1, <2>1
    <3>2. r.state \notin Open
      BY <2>1 DEF Open, Terminal
    <3> QED
      BY <2>1, <3>1, <3>2
  <2>2. CASE r.state \in Open /\ reg' = [reg EXCEPT ![gen][ask] = Asked(r)]
    BY <2>2
  <2>3. CASE r.state \in Open /\ reg' = [reg EXCEPT ![gen][ask] = Cancelled(r)]
    BY <2>3
  <2> QED
    BY <2>1, <2>2, <2>3 DEF Stop
<1> HIDE DEF r
<1>3. /\ Asked(r) \in JobRecord /\ Asked(r).op = r.op /\ Asked(r).state = r.state
      /\ Asked(r).stage = r.stage /\ Asked(r).cancel
  BY <1>1, AskedRecord
<1>4. /\ Cancelled(r) \in JobRecord /\ Cancelled(r).op = r.op
      /\ Cancelled(r).stage = r.stage /\ Cancelled(r).cancel
      /\ \/ Cancelled(r).state = r.state
         \/ r.state = "queued" /\ Cancelled(r).state = "cancelled"
  BY <1>1, CancelledRecord
<1>5. /\ x \in JobRecord /\ x.op = r.op /\ x.stage = r.stage
      /\ r.cancel => x.cancel
      /\ \/ x.state = r.state
         \/ r.state = "queued" /\ x.state = "cancelled"
  BY <1>1, <1>2, <1>3, <1>4
<1>6. r.state \in Open => x.cancel
  BY <1>2, <1>3, <1>4
<1>7. r.state # "absent"
  BY <1>2 DEF Open, Terminal
<1>8. /\ reg' \in [Gen -> [JobId -> JobRecord]] /\ reg'[gen][ask] = x
      /\ \A g \in Gen, j \in JobId :
            ~(g = gen /\ j = ask) => reg'[g][j] = reg[g][j]
  BY <1>1, <1>2, <1>5
<1> QED
  BY <1>1, <1>5, <1>6, <1>7, <1>8 DEF r

\* What a stop request leaves alone.
LEMMA StopKeeps ==
    ASSUME RegistryInv, Stop
    PROVE  RegistryInv'
<1>1. /\ ask \in JobId /\ gen \in Gen
      /\ reg' \in [Gen -> [JobId -> JobRecord]]
      /\ \A g \in Gen, j \in JobId :
            ~(g = gen /\ j = ask) => reg'[g][j] = reg[g][j]
      /\ reg[gen][ask].state # "absent"
      /\ reg'[gen][ask].op = reg[gen][ask].op
      /\ \/ reg'[gen][ask].state = reg[gen][ask].state
         \/ reg[gen][ask].state = "queued" /\ reg'[gen][ask].state = "cancelled"
  BY Stopped
<1>2. /\ UNCHANGED <<gen, next, run, minted, captured, posted, resolved, crashes>>
      /\ ask' = 0
  BY DEF Stop, docVars
<1>3. Types'
  <2>1. ask' \in 0 .. MaxJobs
    BY <1>2, JobBoundsAssumption
  <2>2. said' \subseteq JobId
    BY <1>1 DEF Stop, RegistryInv, Types
  <2>3. file' \in [JobId -> JobRecord] /\ errors' \in Nat /\ late' \in BOOLEAN
    <3>1. [reg[gen] EXCEPT ![ask] = Asked(@)] \in [JobId -> JobRecord]
      <4>1. reg[gen] \in [JobId -> JobRecord] /\ reg[gen][ask] \in JobRecord
        BY <1>1 DEF RegistryInv, Types
      <4>2. Asked(reg[gen][ask]) \in JobRecord
        BY <4>1, AskedRecord
      <4> QED
        BY <4>1, <4>2
    <3>2. reg'[gen] \in [JobId -> JobRecord]
      BY <1>1
    <3> QED
      BY <3>1, <3>2
      DEF Stop, RegistryInv, Types, Save, Write, SaveRaises, StateSaveRaises, fileVars,
          Error, NoError
  <2> QED
    BY <1>1, <1>2, <2>1, <2>2, <2>3 DEF RegistryInv, Types
<1>4. Threads' /\ OneThread' /\ RecoverBeforePosting'
  BY <1>2 DEF RegistryInv, Threads, OneThread, RecoverBeforePosting, Instr
<1>5. Unnumbered'
  <2>1. \A j \in JobId : j >= next => j # ask
    BY <1>1 DEF RegistryInv, Unnumbered
  <2>2. \A g \in Gen : g > gen => g # gen
    BY <1>1 DEF Gen
  <2> QED
    BY <1>1, <1>2, <2>1, <2>2 DEF RegistryInv, Unnumbered
<1>6. Records'
  <2> SUFFICES ASSUME NEW s \in Thread, run[s] # Idle
               PROVE  Finds(run[s], reg'[run[s].gen][run[s].job])
    BY <1>2 DEF Records, Of
  <2>1. /\ run[s].gen \in Gen /\ run[s].job \in JobId /\ Finds(run[s], Of(s))
    BY OfThread
  <2>2. CASE run[s].gen = gen /\ run[s].job = ask
    <3>1. /\ reg'[gen][ask].op = Of(s).op /\ Of(s).state # "absent"
          /\ \/ reg'[gen][ask].state = Of(s).state
             \/ Of(s).state = "queued" /\ reg'[gen][ask].state = "cancelled"
      BY <1>1, <2>2 DEF Of
    <3> QED
      BY <2>1, <2>2, <3>1 DEF Finds, Terminal
  <2>3. CASE ~(run[s].gen = gen /\ run[s].job = ask)
    BY <1>1, <2>1, <2>3 DEF Of
  <2> QED
    BY <2>2, <2>3
<1> QED
  BY <1>3, <1>4, <1>5, <1>6 DEF RegistryInv

\* A registry that was just restored is over with everything, and numbers on.
LEMMA Restored ==
    ASSUME RegistryInv, NEW jobs, jobs = Restore(file)
    PROVE  /\ jobs \in [JobId -> JobRecord]
           /\ FirstFree(jobs) \in 1 .. MaxJobs + 1
           /\ \A j \in JobId : j >= FirstFree(jobs) => jobs[j].state = "absent"
           /\ FirstFree(jobs) = 1 \/ FirstFree(jobs) - 1 \in Held(jobs)
           /\ \A j \in JobId :
                 /\ jobs[j].state \notin Open
                 /\ jobs[j].state # "absent" => j \in Held(file)
                 /\ jobs[j].state = "completed" =>
                        file[j].state = "completed" /\ jobs[j].op = file[j].op
<1>1. file \in [JobId -> JobRecord]
  BY DEF RegistryInv, Types
<1>2. jobs \in [JobId -> JobRecord]
  BY <1>1, Restores
<1>3. /\ FirstFree(jobs) \in 1 .. MaxJobs + 1
      /\ \A j \in Held(jobs) : j < FirstFree(jobs)
      /\ FirstFree(jobs) = 1 \/ FirstFree(jobs) - 1 \in Held(jobs)
  BY <1>2, NumbersGoOn
<1>4. ASSUME NEW j \in JobId, j >= FirstFree(jobs)
      PROVE  jobs[j].state = "absent"
  <2>1. ~(j < FirstFree(jobs))
    BY <1>3, <1>4, JobBoundsAssumption DEF JobId
  <2> QED
    BY <1>3, <2>1 DEF Held
<1> QED
  BY <1>1, <1>2, <1>3, <1>4, Restores

\* Opening the vault again leaves the records of the threads that run alone.
LEMMA ReopenKeeps ==
    ASSUME RegistryInv, Reopen
    PROVE  RegistryInv'
<1> DEFINE jobs == Restore(file)
<1>1. /\ gen \in Gen /\ gen + 1 \in Gen /\ gen \in Nat /\ Gen \subseteq Nat
      /\ reg \in [Gen -> [JobId -> JobRecord]]
  BY JobBoundsAssumption DEF RegistryInv, Types, Reopen, Gen
<1>2. /\ gen' = gen + 1
      /\ reg' = [reg EXCEPT ![gen + 1] = jobs]
      /\ file' = reg'[gen + 1]
      /\ next' = FirstFree(file')
      /\ UNCHANGED <<late, run, ask, said, minted, captured, posted, resolved, crashes,
                     errors>>
  BY DEF Reopen, askVars, docVars
<1>3. /\ jobs \in [JobId -> JobRecord]
      /\ FirstFree(jobs) \in 1 .. MaxJobs + 1
      /\ \A j \in JobId : j >= FirstFree(jobs) => jobs[j].state = "absent"
  BY Restored
<1> HIDE DEF jobs
<1>4. /\ reg' \in [Gen -> [JobId -> JobRecord]] /\ reg'[gen + 1] = jobs
      /\ \A g \in Gen \ {gen + 1} : reg'[g] = reg[g]
      /\ file' = jobs /\ next' = FirstFree(jobs)
  BY <1>1, <1>2, <1>3
<1>5. Types'
  BY <1>1, <1>2, <1>3, <1>4 DEF RegistryInv, Types
<1>6. ASSUME NEW t \in Thread, run[t] # Idle
      PROVE  run[t].gen \in Nat /\ run[t].gen <= gen /\ run[t].gen # gen + 1
  <2>1. run[t].gen \in Gen /\ run[t].gen <= gen
    BY <1>6, OfThread DEF RegistryInv, Threads
  <2>2. run[t].gen \in Nat
    BY <1>1, <2>1
  <2> QED
    BY <1>1, <2>1, <2>2
<1>7. Threads'
  <2> SUFFICES ASSUME NEW t \in Thread, run[t] # Idle
               PROVE  /\ Running(run[t])
                      /\ run[t].op = "spend" <=> t # Fg
                      /\ run[t].gen <= gen + 1
                      /\ run[t].gen # gen + 1
    BY <1>2 DEF Threads
  <2>1. run[t].gen <= gen + 1
    BY <1>1, <1>6
  <2> QED
    <3>1. Running(run[t]) /\ (run[t].op = "spend" <=> t # Fg)
      BY DEF RegistryInv, Threads
    <3> QED
      BY <1>6, <2>1, <3>1
<1>8. OneThread' /\ RecoverBeforePosting'
  BY <1>2 DEF RegistryInv, OneThread, RecoverBeforePosting, Instr
<1>9. Unnumbered'
  <2>1. \A g \in Gen : g > gen + 1 => g > gen /\ g # gen + 1
    BY <1>1
  <2> QED
    BY <1>2, <1>3, <1>4, <2>1 DEF RegistryInv, Unnumbered
<1>10. Records'
  <2> SUFFICES ASSUME NEW t \in Thread, run[t] # Idle
               PROVE  Finds(run[t], reg'[run[t].gen][run[t].job])
    BY <1>2 DEF Records, Of
  <2>1. run[t].gen \in Gen /\ Finds(run[t], Of(t))
    BY OfThread
  <2> QED
    BY <1>4, <1>6, <2>1 DEF Of
<1> QED
  BY <1>5, <1>7, <1>8, <1>9, <1>10 DEF RegistryInv

\* A sidecar that was started again runs nothing.
LEMMA CrashKeeps ==
    ASSUME RegistryInv, Crash
    PROVE  RegistryInv'
<1> DEFINE jobs == Restore(file)
<1>1. 0 \in Gen /\ Gen \subseteq Nat /\ 0 \in 0 .. MaxJobs
  BY JobBoundsAssumption DEF Gen
<1>2. /\ gen' = 0
      /\ reg' = [g \in Gen |-> IF g = 0 THEN jobs ELSE NoJobs]
      /\ file' = reg'[0]
      /\ next' = FirstFree(file')
      /\ run' = [t \in Thread |-> Idle]
      /\ ask' = 0
      /\ crashes' = crashes + 1
      /\ UNCHANGED <<late, said, minted, captured, posted, resolved, errors>>
  BY DEF Crash, docVars
<1>3. /\ jobs \in [JobId -> JobRecord]
      /\ FirstFree(jobs) \in 1 .. MaxJobs + 1
      /\ \A j \in JobId : j >= FirstFree(jobs) => jobs[j].state = "absent"
  BY Restored
<1>4. NoJobs \in [JobId -> JobRecord] /\ \A j \in JobId : NoJobs[j].state = "absent"
  <2>1. Absent \in JobRecord /\ Absent.state = "absent"
    BY DEF Absent, JobRecord
  <2> QED
    BY <2>1 DEF NoJobs
<1> HIDE DEF jobs
<1>5. /\ reg' \in [Gen -> [JobId -> JobRecord]] /\ reg'[0] = jobs
      /\ \A g \in Gen \ {0} : reg'[g] = NoJobs
      /\ file' = jobs /\ next' = FirstFree(jobs)
  BY <1>1, <1>2, <1>3, <1>4
<1>6. Idle \in RunRecord /\ Idle.op = "none"
  <2>1. Idle.op = "none"
    BY DEF Idle
  <2>2. Fg \in Thread
    BY DEF Thread
  <2> QED
    BY <2>1, <2>2, GoneIdle
<1>7. run' \in [Thread -> RunRecord] /\ \A t \in Thread : run'[t] = Idle
  BY <1>2, <1>6
<1>8. Types'
  BY <1>1, <1>2, <1>3, <1>5, <1>7 DEF RegistryInv, Types
<1>9. Threads' /\ OneThread' /\ Records'
  BY <1>7 DEF Threads, OneThread, Records
<1>10. RecoverBeforePosting'
  BY <1>6, <1>7 DEF RecoverBeforePosting
<1>11. Unnumbered'
  <2>1. \A g \in Gen : g > 0 => g # 0
    BY <1>1
  <2> QED
    BY <1>2, <1>3, <1>4, <1>5, <2>1 DEF Unnumbered
<1> QED
  BY <1>8, <1>9, <1>10, <1>11 DEF RegistryInv

\* Another process posts nothing of a document whose lock a recovery holds.
LEMMA OtherIngestKeeps ==
    ASSUME RegistryInv, NEW d \in Doc, OtherIngest(d)
    PROVE  RegistryInv'
<1>1. /\ UNCHANGED <<reg, gen, next, file, late, run, ask, said, minted, crashes, errors>>
      /\ captured' = captured \cup {d}
      /\ posted' \in {posted, posted \cup {d}}
      /\ resolved' \in {resolved, resolved \cup {d}}
  BY DEF OtherIngest, regVars, fileVars, askVars
<1>2. Types'
  BY <1>1 DEF RegistryInv, Types
<1>3. Threads' /\ OneThread' /\ Unnumbered' /\ Records'
  BY <1>1 DEF RegistryInv, Threads, OneThread, Unnumbered, Records, Of
<1>4. RecoverBeforePosting'
  <2> SUFFICES ASSUME NEW t \in Thread, run[t].op = "recover",
                      Instr(t) \in {"settling", "post"}
               PROVE  run[t].doc \notin posted'
    BY <1>1 DEF RecoverBeforePosting, Instr
  <2>1. run[t].doc \notin posted
    BY DEF RegistryInv, RecoverBeforePosting
  <2>2. t = Fg
    BY DEF RegistryInv, Threads, Idle
  <2>3. run[t].doc # d
    BY <2>2 DEF OtherIngest
  <2> QED
    BY <1>1, <2>1, <2>3
<1> QED
  BY <1>2, <1>3, <1>4 DEF RegistryInv

\* Every step keeps the invariant.
LEMMA NextKeeps == RegistryInv /\ [Next]_vars => RegistryInv'
<1> SUFFICES ASSUME RegistryInv, [Next]_vars PROVE RegistryInv'
  OBVIOUS
<1>1. CASE UNCHANGED vars
  BY <1>1
  DEF vars, regVars, fileVars, askVars, docVars, RegistryInv, Types, Threads, OneThread, Unnumbered,
      Records, Of, RecoverBeforePosting, Instr
<1>2. ASSUME NEW t \in Thread, JobStep(t) \/ HostGone(t)
      PROVE  RegistryInv'
  BY <1>2, JobStepIsOwn, OwnStepKeeps
<1> QED
  BY <1>1, <1>2, RequestKeeps, StopKeeps, ReopenKeeps, CrashKeeps, OtherIngestKeeps DEF Next

\* The invariant holds in every behaviour, with any number of reopenings.
LEMMA RegistryInvariant == Spec => []RegistryInv
<1>1. RegistryInv /\ [Next]_vars => RegistryInv'
  BY NextKeeps
<1> QED
  BY <1>1, InitHolds, PTL DEF Spec

-----------------------------------------------------------------------------
\* What holds whatever the sidecar does, its vault opened again included.

\* Every variable keeps its type, and a thread is idle or at a call of the
\* handler it runs.
THEOREM TypeCorrect == Spec => []TypeOK
<1>1. RegistryInv => TypeOK
  <2> SUFFICES ASSUME RegistryInv PROVE TypeOK
    OBVIOUS
  <2>1. ASSUME NEW t \in Thread, run[t] # Idle
        PROVE  /\ run[t].op # "none" /\ run[t].job # 0
               /\ run[t].at \in DOMAIN Program[run[t].op]
    <3>1. Running(run[t])
      BY <2>1 DEF RegistryInv, Threads
    <3>2. 0 \notin JobId
      BY JobBoundsAssumption DEF JobId
    <3> QED
      BY <3>1, <3>2 DEF Running
  <2> QED
    BY <2>1 DEF RegistryInv, Types, TypeOK
<1> QED
  BY <1>1, RegistryInvariant, PTL

\* A thread past its begin finds its record, and finds it running unless it is
\* the bulk import closing.
LEMMA BegunIsRunning ==
    ASSUME RegistryInv, NEW t \in Thread, run[t].at > 1
    PROVE  /\ run[t] # Idle
           /\ Of(t).state \in {"running"} \cup Terminal
           /\ Instr(t) \notin Ending \/ run[t].op # "bulk" => Of(t).state = "running"
<1>1. run[t] # Idle
  BY DEF Idle
<1> QED
  BY <1>1, OfThread DEF Finds

\* Making room never takes a job away from the thread that is doing it, so no
\* call of a begun handler raises KeyError (_forget_the_oldest_settled, _job).
THEOREM HandlesFindTheirJobs == Spec => []HandleFindsJob
<1>1. RegistryInv => HandleFindsJob
  BY BegunIsRunning DEF HandleFindsJob, Terminal
<1> QED
  BY <1>1, RegistryInvariant, PTL

\* No thread is inside a step of a cancelled job: the vault is left where some
\* step finished (_checkpoint, cancel).
THEOREM CancelledJobsAreStill == Spec => []CancelledIsStill
<1>1. RegistryInv => CancelledIsStill
  <2> SUFFICES ASSUME RegistryInv, NEW t \in Thread,
                      Instr(t) \in {"work", "read", "settling", "post"}
               PROVE  Of(t).state # "cancelled"
    BY DEF CancelledIsStill
  <2>1. run[t] # Idle
    BY DEF Instr, Idle
  <2>2. run[t].at > 1
    BY <2>1, OfThread DEF Follows
  <2>3. Instr(t) \notin Ending
    BY DEF Ending
  <2> QED
    BY <2>2, <2>3, BegunIsRunning
<1> QED
  BY <1>1, RegistryInvariant, PTL

\* Recovery reads and pays again only while the ledger holds no event of the
\* document, whoever else ingests it (before_read, under the document's lock).
THEOREM RecoveryPrecedesPosting == Spec => []RecoverBeforePosting
<1>1. RegistryInv => RecoverBeforePosting
  BY DEF RegistryInv
<1> QED
  BY <1>1, RegistryInvariant, PTL

\* A record that was opened under a settled one leaves it, or makes room.
LEMMA OpensSettlesNothing ==
    ASSUME RegistryInv, NEW op, NEW t, NEW doc, Opens(op, t, doc)
    PROVE  TerminalKept
<1>1. op \in DOMAIN Program
  BY OpsAssumption DEF Opens
<1>2. /\ next \in JobId /\ gen \in Gen
      /\ \A g \in Gen \ {gen} : reg'[g] = reg[g]
      /\ \A j \in JobId \ {next} : reg'[gen][j] \in {reg[gen][j], Absent}
  BY <1>1, Opened, Zenon
<1>3. next \notin Settled(reg[gen])
  <2>1. next >= next
    BY <1>2 DEF JobId
  <2>2. reg[gen][next].state = "absent"
    BY <1>2, <2>1 DEF RegistryInv, Unnumbered
  <2> QED
    BY <2>2 DEF Settled, Terminal
<1>4. Absent.state = "absent"
  BY DEF Absent
<1> QED
  BY <1>2, <1>3, <1>4 DEF TerminalKept, Settled

\* Terminal states never move (JobState): while its registry lives, a settled job
\* keeps its state until it is forgotten.
THEOREM TerminalStatesStay == Spec => TerminalStays
<1>1. RegistryInv /\ [Next]_vars => [TerminalKept]_vars
  <2> SUFFICES ASSUME RegistryInv, Next PROVE TerminalKept
    OBVIOUS
  <2>1. Terminal \cap Open = {} /\ "absent" \notin Terminal
    BY DEF Terminal, Open
  <2>2. ASSUME UNCHANGED reg PROVE TerminalKept
    BY <2>2 DEF TerminalKept
  <2>3. CASE Request
    <3>1. CASE \E j \in JobId : AskStop(j)
      BY <2>2, <3>1 DEF AskStop, regVars
    <3> QED
      BY <2>3, <3>1, OpensSettlesNothing
      DEF Request, RequestPlain, RequestUpload, RequestRecover, RequestSpend
  <2>4. CASE Stop
    <3>1. /\ \A g \in Gen, j \in JobId :
                ~(g = gen /\ j = ask) => reg'[g][j] = reg[g][j]
          /\ \/ reg'[gen][ask].state = reg[gen][ask].state
             \/ reg[gen][ask].state = "queued"
      BY <2>4, Stopped
    <3> QED
      BY <2>1, <3>1 DEF TerminalKept, Settled, Open
  <2>5. CASE Reopen
    <3>1. gen \in Gen /\ reg' = [reg EXCEPT ![gen + 1] = Restore(file)]
          /\ reg \in [Gen -> [JobId -> JobRecord]]
      BY <2>5 DEF Reopen, RegistryInv, Types
    <3>2. \A j \in JobId : gen + 1 \in Gen => reg[gen + 1][j].state = "absent"
      BY <3>1, JobBoundsAssumption DEF RegistryInv, Unnumbered, Gen
    <3>3. \A g \in Gen : g # gen + 1 => reg'[g] = reg[g]
      BY <3>1
    <3> QED
      BY <2>1, <3>2, <3>3 DEF TerminalKept, Settled
  <2>6. CASE Crash
    <3>1. crashes \in Nat /\ crashes' = crashes + 1
      BY <2>6 DEF Crash, RegistryInv, Types
    <3>2. crashes' # crashes
      BY <3>1
    <3> QED
      BY <3>2 DEF TerminalKept
  <2>7. ASSUME NEW t \in Thread, JobStep(t) \/ HostGone(t)
        PROVE  TerminalKept
    <3>1. PICK r, u : OwnStep(t, r, u)
      BY <2>7, JobStepIsOwn
    <3>2. /\ run[t].gen \in Gen /\ run[t].job \in JobId
          /\ r \in JobRecord /\ Record(t, r) /\ Leaves(t, r)
      BY <3>1, OfThread DEF OwnStep
    <3>3. /\ reg'[run[t].gen][run[t].job] = r
          /\ \A g \in Gen, j \in JobId :
                ~(g = run[t].gen /\ j = run[t].job) => reg'[g][j] = reg[g][j]
      BY <3>2, Cells DEF RegistryInv
    <3>4. Of(t).state \notin Open => r.state = reg[run[t].gen][run[t].job].state
      BY <3>2 DEF Leaves, Of
    <3> QED
      BY <2>1, <3>3, <3>4 DEF TerminalKept, Settled, Of
  <2>8. CASE \E d \in Doc : OtherIngest(d)
    BY <2>2, <2>8 DEF OtherIngest, regVars
  <2> QED
    BY <2>3, <2>4, <2>5, <2>6, <2>7, <2>8 DEF Next
<1> QED
  BY <1>1, RegistryInvariant, PTL DEF Spec, TerminalStays

-----------------------------------------------------------------------------
\* What holds until a replaced registry saves over the file.

\* The foreground makes no call of its job while it answers a stop request.
LEMMA AnswersFirst ==
    ASSUME NEW t \in Thread, JobStep(t) \/ HostGone(t)
    PROVE  t = Fg => ask = 0
  BY DEF JobStep, HostGone, Begin, Check, Reach, Work, Finish, Capture, Bind, Read,
         ReadSkipped, ReadRefused, Settling, Post, Pump, SettleFails, Drain, Pulse, Raises,
         BulkRaises, At

\* What is numbered is below the next number.
LEMMA HeldIsNumbered ==
    ASSUME RegistryInv, NEW j \in JobId, reg[gen][j].state # "absent"
    PROVE  j < next /\ next > 1 /\ next - 1 \in JobId /\ next - 1 >= j
<1>1. next \in 1 .. MaxJobs + 1 /\ j \in 1 .. MaxJobs /\ MaxJobs \in Nat
  BY JobBoundsAssumption DEF RegistryInv, Types, JobId
<1>2. ~(j >= next)
  BY DEF RegistryInv, Unnumbered
<1> QED
  BY <1>1, <1>2 DEF JobId

\* A thread of the background runs paid maintenance, and no posting.
LEMMA BackgroundSpends ==
    ASSUME RegistryInv, NEW t \in Thread, t # Fg, run[t] # Idle
    PROVE  /\ run[t].op = "spend" /\ Instr(t) # "post"
           /\ Of(t).state # "absent" => Of(t).op = "spend"
<1>1. run[t].op = "spend"
  BY DEF RegistryInv, Threads
<1> QED
  BY <1>1, OfThread DEF Follows, Finds

\* The first registry of a process satisfies what holds while it is the only one.
LEMMA OnceInit == Init => OnceInv
<1> SUFFICES ASSUME Init PROVE OnceInv
  OBVIOUS
<1>1. Absent.state = "absent"
  BY DEF Absent
<1>2. Idle.at = 0
  BY DEF Idle
<1>3. 0 \in Gen
  BY JobBoundsAssumption DEF Gen
<1>4. /\ gen = 0 /\ next = 1 /\ ask = 0 /\ said = {} /\ minted = {}
      /\ \A j \in JobId : reg[gen][j].state = "absent" /\ file[j].state = "absent"
      /\ \A t \in Thread : run[t] = Idle
  BY <1>1, <1>3 DEF Init, NoJobs
<1>5. Numbers
  BY <1>4 DEF Numbers, Settled, Terminal
<1>6. Filed /\ Answering /\ Told
  BY <1>4 DEF Filed, Answering, Told
<1>7. Receipts /\ Current
  BY <1>2, <1>4 DEF Receipts, Instr, Current, Thread
<1> QED
  BY <1>5, <1>6, <1>7 DEF OnceInv

\* A step of a thread on the registry the handlers use.
LEMMA OwnStepOnce ==
    ASSUME RegistryInv, RegistryInv', OnceInv, NEW t \in Thread, run[t].gen = gen,
           NEW r, NEW u, OwnStep(t, r, u), t = Fg => ask = 0
    PROVE  OnceInv'
<1> DEFINE own == run[t].job
<1>1. /\ run[t].job \in JobId /\ gen \in Gen /\ run[t].gen = gen
      /\ Of(t) \in JobRecord /\ Finds(run[t], Of(t)) /\ run[t] # Idle
      /\ Of(t) = reg[gen][own]
  BY OfThread DEF OwnStep, Of
<1>2. /\ r \in JobRecord /\ Record(t, r) /\ Leaves(t, r) /\ Writes(t)
      /\ u \in RunRecord /\ run' = [run EXCEPT ![t] = u] /\ Goes(t, r, u)
      /\ UNCHANGED <<gen, next, ask, said, minted, crashes>>
  BY DEF OwnStep
<1>3. /\ reg'[gen][own] = r
      /\ \A j \in JobId : j # own => reg'[gen][j] = reg[gen][j]
  BY <1>1, <1>2, Cells DEF RegistryInv
<1>4. /\ run'[t] = u
      /\ \A s \in Thread \ {t} : run'[s] = run[s]
  BY <1>2 DEF RegistryInv, Types
<1>5. /\ u # Idle => u.gen = gen /\ u.job = own
      /\ \A s \in Thread \ {t} : run[s] # Idle /\ run[s].gen = gen => run[s].job # own
      /\ run[Fg] # Idle => run[Fg].gen = gen
  <2>1. u # Idle => u.gen = gen /\ u.job = own
    BY <1>1, <1>2 DEF Goes
  <2>2. \A s \in Thread \ {t} : run[s] # Idle /\ run[s].gen = gen => run[s].job # own
    BY <1>1 DEF RegistryInv, OneThread
  <2> QED
    BY <2>1, <2>2 DEF OnceInv, Current
<1>6. /\ r.op = Of(t).op /\ (Of(t).state \notin Open => r.state = Of(t).state)
      /\ (Of(t).state \in Open => r.state # "absent")
      /\ (Of(t).cancel => r.cancel)
      /\ (r.state = "completed" => Of(t).state = "completed" \/ Instr(t) = "finish")
  BY <1>2 DEF Leaves
<1>7. ASSUME NEW j \in JobId
      PROVE  /\ reg'[gen][j].state = "absent" <=> reg[gen][j].state = "absent"
             /\ reg'[gen][j].op = reg[gen][j].op
             /\ reg'[gen][j].state \in Open => reg[gen][j].state \in Open
             /\ reg[gen][j].state = "completed" => reg'[gen][j].state = "completed"
  BY <1>1, <1>3, <1>6 DEF Open
<1>8. ASSUME NEW j \in JobId
      PROVE  /\ [reg[gen] EXCEPT ![own] = Asked(@)][j].state = reg[gen][j].state
             /\ [reg[gen] EXCEPT ![own] = Asked(@)][j].op = reg[gen][j].op
             /\ j # own => [reg[gen] EXCEPT ![own] = Asked(@)][j] = reg[gen][j]
  <2>1. reg[gen] \in [JobId -> JobRecord]
    BY <1>1 DEF RegistryInv, Types
  <2>2. Asked(reg[gen][own]).state = reg[gen][own].state
        /\ Asked(reg[gen][own]).op = reg[gen][own].op
    BY <1>1, AskedRecord
  <2> QED
    BY <1>1, <2>1, <2>2
<1>9. \/ file' = file
      \/ file' = reg'[gen]
      \/ file' = [reg[gen] EXCEPT ![own] = Asked(@)]
  BY <1>1, <1>2 DEF Writes
<1> HIDE DEF own
<1>10. Numbers'
  <2>1. ASSUME NEW j \in JobId, j < next, file' # file
        PROVE  Backed(j)'
    <3>1. next \in 1 .. MaxJobs + 1 /\ j \in 1 .. MaxJobs /\ MaxJobs \in Nat
      BY JobBoundsAssumption DEF RegistryInv, Types, JobId
    <3>2. next > 1 /\ next - 1 >= j /\ next - 1 \in JobId
      BY <2>1, <3>1 DEF JobId
    <3>3. reg[gen][next - 1].state # "absent"
      BY <3>2 DEF OnceInv, Numbers, Held
    <3>4. file'[next - 1].state # "absent"
      BY <1>7, <1>8, <1>9, <2>1, <3>2, <3>3
    <3> QED
      BY <3>2, <3>4 DEF Backed, Held
  <2>2. ASSUME NEW j \in JobId, file' = file, Backed(j)
        PROVE  Backed(j)'
    BY <2>2 DEF Backed, Held
  <2>3. ASSUME NEW j \in minted \cup said
        PROVE  j < next /\ Backed(j)'
    <3>1. j \in JobId /\ j < next /\ Backed(j)
      BY DEF OnceInv, Numbers, RegistryInv, Types
    <3> QED
      BY <2>1, <2>2, <3>1
  <2>4. ASSUME NEW j \in JobId, reg'[gen][j].state \in Terminal
        PROVE  Backed(j)'
    <3>1. reg[gen][j].state # "absent"
      BY <1>7, <2>4 DEF Terminal
    <3>2. j < next
      BY <3>1, HeldIsNumbered
    <3>3. CASE file' = file /\ j # own
      <4>1. j \in Settled(reg[gen])
        BY <1>3, <2>4, <3>3 DEF Settled
      <4> QED
        BY <2>2, <3>3, <4>1 DEF OnceInv, Numbers
    <3>4. CASE file' = file /\ j = own
      <4>1. j \in minted
        BY <1>1, <3>4 DEF OnceInv, Numbers, own
      <4> QED
        BY <2>3, <4>1
    <3> QED
      BY <2>1, <3>2, <3>3, <3>4
  <2>5. ASSUME NEW s \in Thread, run'[s] # Idle
        PROVE  run'[s].job \in minted
    <3>1. CASE s = t
      BY <1>1, <1>4, <1>5, <2>5, <3>1 DEF OnceInv, Numbers, own
    <3>2. CASE s # t
      BY <1>4, <2>5, <3>2 DEF OnceInv, Numbers
    <3> QED
      BY <3>1, <3>2
  <2>6. next > 1 => next - 1 \in Held(reg'[gen])
    BY <1>7 DEF OnceInv, Numbers, Held
  <2> QED
    BY <1>2, <2>3, <2>4, <2>5, <2>6 DEF Numbers, Settled
<1>11. Filed'
  <2> SUFFICES ASSUME NEW j \in JobId, file'[j].state = "completed"
               PROVE  /\ j < next
                      /\ reg'[gen][j].state # "absent" =>
                            reg'[gen][j].state = "completed" /\ reg'[gen][j].op = file'[j].op
    BY <1>2 DEF Filed
  <2>1. CASE file' = file
    BY <1>7, <2>1 DEF OnceInv, Filed
  <2>2. CASE file' = reg'[gen]
    BY <1>7, <2>2, HeldIsNumbered
  <2>3. CASE file' = [reg[gen] EXCEPT ![own] = Asked(@)]
    <3>1. file'[j].op = reg[gen][j].op /\ reg[gen][j].state = "completed"
      BY <1>8, <2>3
    <3> QED
      BY <1>7, <3>1, HeldIsNumbered
  <2> QED
    BY <1>9, <2>1, <2>2, <2>3
<1>13. ASSUME t # Fg, r.state = "completed"
       PROVE  r.op = "spend"
  <2>1. Of(t).state # "absent"
    BY <1>6, <1>13 DEF Open
  <2> QED
    BY <1>1, <1>6, <1>13, <2>1, BackgroundSpends
<1>14. Answering'
  <2> SUFFICES ASSUME ask # 0
               PROVE  /\ run'[Fg] = Idle \/ Pumping'
                      /\ reg'[gen][ask].state = "completed" => reg'[gen][ask].op = "spend"
    BY <1>2 DEF Answering
  <2>1. Fg \in Thread /\ t # Fg
    BY DEF Thread
  <2>2. run'[Fg] = run[Fg] /\ (Pumping' <=> Pumping)
    BY <1>4, <2>1 DEF Pumping, Instr
  <2>3. ask \in JobId
    BY JobBoundsAssumption DEF RegistryInv, Types, JobId
  <2>4. reg'[gen][ask].state = "completed" => reg'[gen][ask].op = "spend"
    <3>1. CASE ask = own
      BY <1>3, <1>13, <2>1, <3>1
    <3>2. CASE ask # own
      BY <1>3, <2>3, <3>2 DEF OnceInv, Answering
    <3> QED
      BY <3>1, <3>2
  <2> QED
    BY <2>2, <2>4 DEF OnceInv, Answering
<1>15. Told'
  <2> SUFFICES ASSUME NEW j \in said
               PROVE  /\ reg'[gen][j].state = "completed" => reg'[gen][j].op = "spend"
                      /\ file'[j].state = "completed" => file'[j].op = "spend"
                      /\ run'[Fg] # Idle /\ run'[Fg].job = j =>
                            Of(Fg)'.cancel /\ Instr(Fg)' \in {"check", "confirm"}
    BY <1>2 DEF Told
  <2>1. j \in JobId /\ Fg \in Thread
    BY DEF RegistryInv, Types, Thread
  <2>2. /\ reg[gen][j].state = "completed" => reg[gen][j].op = "spend"
        /\ file[j].state = "completed" => file[j].op = "spend"
        /\ run[Fg] # Idle /\ run[Fg].job = j =>
              Of(Fg).cancel /\ Instr(Fg) \in {"check", "confirm"}
    BY DEF OnceInv, Told
  <2>3. reg'[gen][j].state = "completed" => reg'[gen][j].op = "spend"
    <3>1. CASE j = own /\ t = Fg
      <4>1. Instr(t) # "finish"
        BY <1>1, <2>2, <3>1 DEF own
      <4> QED
        BY <1>1, <1>3, <1>6, <2>2, <3>1, <4>1
    <3>2. CASE j = own /\ t # Fg
      BY <1>3, <1>13, <3>2
    <3>3. CASE j # own
      BY <1>3, <2>1, <2>2, <3>3
    <3> QED
      BY <3>1, <3>2, <3>3
  <2>4. file'[j].state = "completed" => file'[j].op = "spend"
    BY <1>8, <1>9, <2>1, <2>2, <2>3
  <2>5. ASSUME run'[Fg] # Idle, run'[Fg].job = j
        PROVE  Of(Fg)'.cancel /\ Instr(Fg)' \in {"check", "confirm"}
    <3>1. CASE t = Fg
      <4>1. u # Idle /\ run[Fg].job = j /\ run[Fg] # Idle
        BY <1>1, <1>4, <1>5, <2>5, <3>1 DEF own
      <4>2. Instr(t) \in {"check", "confirm"} => ~Of(t).cancel
        BY <1>2, <4>1 DEF Goes
      <4> QED
        BY <2>2, <3>1, <4>1, <4>2
    <3>2. CASE t # Fg
      <4>1. run'[Fg] = run[Fg] /\ run[Fg].job # own
        BY <1>4, <1>5, <2>1, <2>5, <3>2
      <4>2. Of(Fg).cancel /\ Instr(Fg) \in {"check", "confirm"}
        BY <2>2, <2>5, <4>1
      <4>3. Of(Fg)' = Of(Fg) /\ Instr(Fg)' = Instr(Fg)
        BY <1>3, <1>5, <2>1, <2>5, <4>1 DEF Of, Instr
      <4> QED
        BY <4>2, <4>3
    <3> QED
      BY <3>1, <3>2
  <2> QED
    BY <2>3, <2>4, <2>5
<1>16. Receipts'
  <2> SUFFICES ASSUME NEW s \in Thread, Instr(s)' = "post", ~run'[s].unread
               PROVE  Of(s)'.stage = "settling" /\ file'[run'[s].job].stage # "reading"
    BY DEF Receipts
  <2>2. run'[s] # Idle
    BY DEF Instr, Idle
  <2>3. CASE s = t
    <3>1. run'[s] = u /\ Program[u.op][u.at] = "post" /\ u.gen = gen /\ u.job = own
      BY <1>4, <1>5, <2>2, <2>3 DEF Instr
    <3>2. r.stage = "settling" /\ file' = reg'[gen]
      BY <1>2, <2>2, <3>1 DEF Goes
    <3>3. Of(s)' = r
      BY <1>2, <1>3, <3>1 DEF Of
    <3> QED
      BY <1>3, <3>1, <3>2, <3>3
  <2>4. CASE s # t
    <3>1. run'[s] = run[s] /\ Instr(s) = "post" /\ run[s].job \in JobId
      BY <1>4, <2>2, <2>4, OfThread DEF Instr
    <3>2. s = Fg
      BY <2>2, <3>1, BackgroundSpends
    <3>3. Of(s).stage = "settling" /\ file[run[s].job].stage # "reading"
      BY <3>1 DEF OnceInv, Receipts
    <3>4. run[s].gen = gen /\ run[s].job # own
      BY <1>5, <2>2, <2>4, <3>1, <3>2
    <3>5. Of(s)' = Of(s) /\ Of(s)' = reg'[gen][run[s].job]
      BY <1>3, <3>1, <3>4 DEF Of
    <3>6. file'[run[s].job] \in {file[run[s].job], reg'[gen][run[s].job],
                                 reg[gen][run[s].job]}
      BY <1>8, <1>9, <3>1, <3>4
    <3>7. reg[gen][run[s].job] = reg'[gen][run[s].job]
      BY <1>3, <3>1, <3>4
    <3> QED
      BY <3>1, <3>3, <3>5, <3>6, <3>7
  <2> QED
    BY <2>3, <2>4
<1>17. Current'
  BY <1>2, <1>4, <1>5 DEF OnceInv, Current, Thread
<1> QED
  BY <1>10, <1>11, <1>14, <1>15, <1>16, <1>17 DEF OnceInv

\* A step of a thread whose registry was replaced: it leaves the file alone, or
\* from then on a replaced registry has saved over it.
LEMMA OlderStepOnce ==
    ASSUME RegistryInv, OnceInv, NEW t \in Thread, run[t].gen # gen, ~late',
           NEW r, NEW u, OwnStep(t, r, u)
    PROVE  OnceInv'
<1>1. /\ run[t].job \in JobId /\ run[t].gen \in Gen /\ gen \in Gen
      /\ run[t] # Idle /\ run[t].op \in DOMAIN Program
  BY OfThread DEF OwnStep, RegistryInv, Types
<1>2. /\ r \in JobRecord /\ Record(t, r) /\ Writes(t)
      /\ run' = [run EXCEPT ![t] = u] /\ Goes(t, r, u)
      /\ UNCHANGED <<gen, next, ask, said, minted>>
  BY DEF OwnStep
<1>3. file' = file
  BY <1>2 DEF Writes
<1>4. \A j \in JobId : reg'[gen][j] = reg[gen][j]
  BY <1>1, <1>2, Cells DEF RegistryInv
<1>5. /\ run'[t] = u
      /\ \A s \in Thread \ {t} : run'[s] = run[s]
  BY <1>2 DEF RegistryInv, Types
<1>6. t # Fg /\ run'[Fg] = run[Fg] /\ run[t].op = "spend" /\ Fg \in Thread
  <2>1. t # Fg
    BY <1>1 DEF OnceInv, Current
  <2> QED
    BY <1>1, <1>5, <2>1, BackgroundSpends DEF Thread
<1>7. Numbers'
  <2>1. \A s \in Thread : run'[s] # Idle => run'[s].job \in minted
    BY <1>1, <1>2, <1>5 DEF Goes, OnceInv, Numbers
  <2>2. Settled(reg'[gen]) = Settled(reg[gen]) /\ Held(reg'[gen]) = Held(reg[gen])
    BY <1>4 DEF Settled, Held
  <2> QED
    BY <1>2, <1>3, <2>1, <2>2 DEF OnceInv, Numbers, Backed
<1>8. Filed'
  BY <1>2, <1>3, <1>4 DEF OnceInv, Filed
<1>9. Answering'
  <2>1. ask # 0 => ask \in JobId
    BY JobBoundsAssumption DEF RegistryInv, Types, JobId
  <2> QED
    BY <1>2, <1>4, <1>6, <2>1 DEF OnceInv, Answering, Pumping, Instr
<1>10. run[Fg] # Idle => /\ Of(Fg)' = Of(Fg) /\ run[Fg].job \in JobId
                        /\ Instr(Fg)' = Instr(Fg)
  BY <1>4, <1>6, OfThread DEF OnceInv, Current, Of, Instr
<1>11. Told'
  <2>1. \A j \in said : j \in JobId
    BY DEF RegistryInv, Types
  <2> QED
    BY <1>2, <1>3, <1>4, <1>6, <1>10, <2>1 DEF OnceInv, Told
<1>12. Receipts'
  <2> SUFFICES ASSUME NEW s \in Thread, Instr(s)' = "post", ~run'[s].unread
               PROVE  Of(s)'.stage = "settling" /\ file'[run'[s].job].stage # "reading"
    BY DEF Receipts
  <2>1. run'[s] # Idle
    BY DEF Instr, Idle
  <2>2. s # t
    <3>1. ASSUME s = t PROVE FALSE
      <4>1. u.op = "spend" /\ u.at \in DOMAIN Program[u.op] /\ Program[u.op][u.at] = "post"
        BY <1>2, <1>5, <1>6, <2>1, <3>1 DEF Goes, Instr
      <4> QED
        BY <1>1, <1>6, <4>1, EachFollows DEF Follows
    <3> QED
      BY <3>1
  <2>3. run'[s] = run[s] /\ Instr(s) = "post"
    BY <1>5, <2>2 DEF Instr
  <2>4. s = Fg
    BY <2>1, <2>3, BackgroundSpends
  <2> QED
    BY <1>3, <1>10, <2>1, <2>3, <2>4 DEF OnceInv, Receipts
<1>13. Current'
  BY <1>2, <1>6 DEF OnceInv, Current
<1> QED
  BY <1>7, <1>8, <1>9, <1>11, <1>12, <1>13 DEF OnceInv

\* A job is opened.
LEMMA OpensOnce ==
    ASSUME RegistryInv, RegistryInv', OnceInv, NEW op, NEW t \in Thread,
           NEW doc, run[t] = Idle, Opens(op, t, doc)
    PROVE  OnceInv'
<1> DEFINE v == [Idle EXCEPT !.op = op, !.job = next, !.gen = gen, !.at = 1, !.doc = doc]
           rec == [Absent EXCEPT !.op = op, !.state = "queued"]
<1>1. op \in DOMAIN Program
  BY OpsAssumption DEF Opens
<1>2. /\ next \in JobId /\ next' = next + 1 /\ gen' = gen /\ gen \in Gen
      /\ reg'[gen][next] = rec
      /\ \A j \in JobId \ {next} :
            /\ reg'[gen][j] \in {reg[gen][j], Absent}
            /\ reg[gen][j].state \notin Terminal => reg'[gen][j] = reg[gen][j]
  <2> HIDE DEF v
  <2> QED
    BY <1>1, Opened, Zenon
<1>3. /\ ask' = 0 /\ ask = 0 /\ said' = said /\ run[Fg] = Idle
      /\ \/ /\ file' = reg'[gen] /\ errors' = errors /\ minted' = minted \cup {next}
            /\ run' = [run EXCEPT ![t] = v]
         \/ UNCHANGED <<file, minted, run>> /\ errors' = errors + 1
  BY DEF Opens, FgFree, askVars, Save, Write, SaveRaises, fileVars, NoError, Error
<1>4. v.at = 1 /\ v.op = op /\ v.job = next /\ v.gen = gen
  BY DEF Idle
<1>5. rec.state = "queued" /\ rec.op = op /\ Absent.state = "absent"
  <2>1. rec.state = "queued"
    BY DEF Absent
  <2>2. rec.op = op
    BY DEF Absent
  <2>3. Absent.state = "absent"
    BY DEF Absent
  <2> QED
    BY <2>1, <2>2, <2>3
<1> HIDE DEF v, rec
<1>6. /\ next \in 1 .. MaxJobs /\ next \in Nat /\ MaxJobs \in Nat /\ JobId = 1 .. MaxJobs
      /\ JobId \subseteq Nat
  BY <1>2, JobBoundsAssumption DEF JobId
<1>7. \A s \in Thread : run'[s] = run[s] \/ (s = t /\ run'[s] = v)
  BY <1>3 DEF RegistryInv, Types
<1>8. \A j \in said : j \in JobId /\ j < next /\ j # next
  BY <1>6 DEF OnceInv, Numbers, RegistryInv, Types
<1>9. Numbers'
  <2>1. ASSUME NEW j \in JobId, file' = reg'[gen], j <= next
        PROVE  Backed(j)'
    <3>1. next \in Held(file')
      BY <1>2, <1>5, <2>1 DEF Held
    <3> QED
      BY <1>2, <1>6, <2>1, <3>1 DEF Backed
  <2>2. ASSUME NEW j \in JobId, file' = file, Backed(j)
        PROVE  Backed(j)'
    BY <2>2 DEF Backed, Held
  <2>3. ASSUME NEW j \in (minted \cup said)'
        PROVE  j < next + 1 /\ Backed(j)'
    <3>1. CASE j \in minted \cup said
      <4>1. j \in JobId /\ j < next /\ Backed(j)
        BY <3>1 DEF OnceInv, Numbers, RegistryInv, Types
      <4>2. j <= next /\ j < next + 1
        BY <1>6, <4>1
      <4> QED
        BY <1>3, <2>1, <2>2, <4>1, <4>2
    <3>2. CASE j \notin minted \cup said
      <4>1. j = next /\ file' = reg'[gen]
        BY <1>3, <3>2
      <4>2. j <= next /\ j < next + 1
        BY <1>6, <4>1
      <4> QED
        BY <1>2, <2>1, <4>1, <4>2
    <3> QED
      BY <3>1, <3>2
  <2>4. ASSUME NEW j \in JobId, reg'[gen][j].state \in Terminal
        PROVE  Backed(j)'
    <3>1. j # next
      BY <1>2, <1>5, <2>4 DEF Terminal
    <3>2. reg'[gen][j] = reg[gen][j]
      BY <1>2, <1>5, <2>4, <3>1 DEF Terminal
    <3>3. j \in Settled(reg[gen]) /\ reg[gen][j].state # "absent"
      BY <2>4, <3>2 DEF Settled, Terminal
    <3>4. j <= next
      BY <1>6, <3>3, HeldIsNumbered
    <3> QED
      BY <1>3, <2>1, <2>2, <3>3, <3>4 DEF OnceInv, Numbers
  <2>5. ASSUME NEW s \in Thread, run'[s] # Idle
        PROVE  run'[s].job \in minted'
    <3>1. CASE run'[s] = run[s]
      BY <1>3, <2>5, <3>1 DEF OnceInv, Numbers
    <3>2. CASE run'[s] # run[s]
      <4>1. run' # run
        BY <3>2
      <4> QED
        BY <1>3, <1>4, <1>7, <3>2, <4>1
    <3> QED
      BY <3>1, <3>2
  <2>6. (next + 1) - 1 \in Held(reg'[gen])
    <3>1. (next + 1) - 1 = next
      BY <1>6
    <3> QED
      BY <1>2, <1>5, <3>1 DEF Held
  <2> QED
    BY <1>2, <2>3, <2>4, <2>5, <2>6 DEF Numbers, Settled
<1>10. Filed'
  <2> SUFFICES ASSUME NEW j \in JobId, file'[j].state = "completed"
               PROVE  /\ j < next + 1
                      /\ reg'[gen][j].state # "absent" =>
                            reg'[gen][j].state = "completed" /\ reg'[gen][j].op = file'[j].op
    BY <1>2 DEF Filed
  <2>1. CASE file' = file
    <3>1. j < next /\ (reg[gen][j].state # "absent" =>
                          reg[gen][j].state = "completed" /\ reg[gen][j].op = file[j].op)
      BY <2>1 DEF OnceInv, Filed
    <3>2. j # next /\ j < next + 1
      BY <1>6, <3>1
    <3> QED
      BY <1>2, <1>5, <2>1, <3>1, <3>2
  <2>2. CASE file' = reg'[gen]
    <3>1. j < next'
      BY <1>2, <2>2 DEF RegistryInv, Unnumbered, Types, JobId
    <3> QED
      BY <1>2, <2>2, <3>1
  <2> QED
    BY <1>3, <2>1, <2>2
<1>12. Answering'
  BY <1>3 DEF Answering
<1>13. Told'
  <2> SUFFICES ASSUME NEW j \in said
               PROVE  /\ reg'[gen][j].state = "completed" => reg'[gen][j].op = "spend"
                      /\ file'[j].state = "completed" => file'[j].op = "spend"
                      /\ ~(run'[Fg] # Idle /\ run'[Fg].job = j)
    BY <1>2, <1>3 DEF Told
  <2>1. reg'[gen][j].state = "completed" => reg'[gen][j].op = "spend"
    BY <1>2, <1>5, <1>8 DEF OnceInv, Told
  <2>2. file'[j].state = "completed" => file'[j].op = "spend"
    BY <1>3, <2>1 DEF OnceInv, Told
  <2>3. ~(run'[Fg] # Idle /\ run'[Fg].job = j)
    BY <1>3, <1>4, <1>7, <1>8 DEF Thread
  <2> QED
    BY <2>1, <2>2, <2>3
<1>14. Receipts'
  <2>1. ASSUME NEW s \in Thread, Instr(s)' = "post"
        PROVE  FALSE
    <3>1. CASE s = t /\ run'[s] = v
      <4>1. Instr(s)' = Program[op][1]
        BY <1>4, <3>1 DEF Instr
      <4>2. Program[op][1] = "begin"
        BY <1>1, Programs, EachFollows DEF Follows
      <4> QED
        BY <2>1, <4>1, <4>2
    <3>2. CASE run'[s] = run[s]
      <4>1. Instr(s) = "post" /\ run[s] # Idle
        BY <2>1, <3>2 DEF Instr, Idle
      <4> QED
        BY <1>3, <4>1, BackgroundSpends
    <3> QED
      BY <1>7, <3>1, <3>2
  <2> QED
    BY <2>1 DEF Receipts
<1>15. Current'
  BY <1>2, <1>4, <1>7 DEF OnceInv, Current, Thread
<1> QED
  BY <1>9, <1>10, <1>12, <1>13, <1>14, <1>15 DEF OnceInv

\* Every request.
LEMMA RequestOnce ==
    ASSUME RegistryInv, RegistryInv', OnceInv, Request
    PROVE  OnceInv'
<1>1. ASSUME NEW op, NEW doc, Opens(op, Fg, doc), op # "spend"
      PROVE  OnceInv'
  <2>1. Fg \in Thread /\ run[Fg] = Idle
    BY <1>1 DEF Opens, FgFree, Thread
  <2> QED
    BY <1>1, <2>1, OpensOnce
<1>2. ASSUME NEW b \in Background, RequestSpend(b)
      PROVE  OnceInv'
  BY <1>2, OpensOnce DEF RequestSpend, Thread
<1>3. ASSUME NEW j \in JobId, AskStop(j)
      PROVE  OnceInv'
  <2>1. /\ UNCHANGED <<reg, gen, next, file, run, said, minted, errors>>
        /\ ask' = j
        /\ run[Fg] = Idle \/ Pumping
        /\ reg[gen][j].state \in Open
    BY <1>3 DEF AskStop, regVars, fileVars
  <2>2. Answering'
    BY <2>1 DEF Answering, Pumping, Instr, Open
  <2>3. Numbers' /\ Filed'
    BY <2>1 DEF OnceInv, Numbers, Filed, Backed, Held, Settled
  <2>4. Told' /\ Receipts' /\ Current'
    BY <2>1 DEF OnceInv, Told, Receipts, Of, Instr, Current
  <2> QED
    BY <2>2, <2>3, <2>4 DEF OnceInv
<1> QED
  BY <1>1, <1>2, <1>3 DEF Request, RequestPlain, RequestUpload, RequestRecover

\* A stop request: what is answered will not complete.
LEMMA StopOnce ==
    ASSUME RegistryInv, RegistryInv', OnceInv, Stop
    PROVE  OnceInv'
<1>1. /\ ask \in JobId /\ gen \in Gen
      /\ reg[gen][ask] \in JobRecord
      /\ \A g \in Gen, j \in JobId :
            ~(g = gen /\ j = ask) => reg'[g][j] = reg[g][j]
      /\ reg[gen][ask].state # "absent"
      /\ reg'[gen][ask].op = reg[gen][ask].op
      /\ \/ reg'[gen][ask].state = reg[gen][ask].state
         \/ reg[gen][ask].state = "queued" /\ reg'[gen][ask].state = "cancelled"
      /\ reg[gen][ask].cancel => reg'[gen][ask].cancel
      /\ reg[gen][ask].state \in Open => reg'[gen][ask].cancel
      /\ reg'[gen][ask].stage = reg[gen][ask].stage
  BY Stopped
<1>2. /\ UNCHANGED <<gen, next, run, minted>>
      /\ ask # 0 /\ ask' = 0
      /\ said' = said \/ (said' = said \cup {ask} /\ reg[gen][ask].op # "bulk")
  BY DEF Stop
<1>3. \/ file' = file /\ errors' = errors /\ reg' = reg
         /\ reg[gen][ask].state \in Terminal
      \/ file' = file /\ said' = said /\ errors' = errors + 1
         /\ reg' = [reg EXCEPT ![gen][ask] = Asked(reg[gen][ask])]
      \/ file' = reg'[gen] /\ errors' = errors
      \/ file' = [reg[gen] EXCEPT ![ask] = Asked(@)] /\ said' = said
         /\ errors' = errors + 1
  BY DEF Stop, Save, Write, SaveRaises, StateSaveRaises, fileVars, Error, NoError
<1>4. ASSUME NEW j \in JobId
      PROVE  /\ reg'[gen][j].state = "absent" <=> reg[gen][j].state = "absent"
             /\ reg'[gen][j].op = reg[gen][j].op
             /\ reg'[gen][j].stage = reg[gen][j].stage
             /\ reg[gen][j].cancel => reg'[gen][j].cancel
             /\ reg'[gen][j].state \in Open => reg[gen][j].state \in Open
             /\ reg[gen][j].state = "completed" <=> reg'[gen][j].state = "completed"
  BY <1>1 DEF Open
<1>5. ASSUME NEW j \in JobId
      PROVE  [reg[gen] EXCEPT ![ask] = Asked(@)][j].state = reg[gen][j].state
             /\ [reg[gen] EXCEPT ![ask] = Asked(@)][j].op = reg[gen][j].op
             /\ [reg[gen] EXCEPT ![ask] = Asked(@)][j].stage = reg[gen][j].stage
  <2>1. reg[gen] \in [JobId -> JobRecord]
    BY <1>1 DEF RegistryInv, Types
  <2>2. Asked(reg[gen][ask]).state = reg[gen][ask].state
        /\ Asked(reg[gen][ask]).op = reg[gen][ask].op
        /\ Asked(reg[gen][ask]).stage = reg[gen][ask].stage
    BY <1>1, AskedRecord
  <2> QED
    BY <1>1, <2>1, <2>2
<1>6. ask < next
  BY <1>1, HeldIsNumbered
<1>7. Numbers'
  <2>1. ASSUME NEW j \in JobId, j < next,
               file' = reg'[gen] \/ file' = [reg[gen] EXCEPT ![ask] = Asked(@)]
        PROVE  Backed(j)'
    <3>1. next \in 1 .. MaxJobs + 1 /\ j \in 1 .. MaxJobs /\ MaxJobs \in Nat
      BY JobBoundsAssumption DEF RegistryInv, Types, JobId
    <3>2. next > 1 /\ next - 1 >= j /\ next - 1 \in JobId
      BY <2>1, <3>1 DEF JobId
    <3>3. reg[gen][next - 1].state # "absent"
      BY <3>2 DEF OnceInv, Numbers, Held
    <3>4. file'[next - 1].state # "absent"
      BY <1>4, <1>5, <2>1, <3>2, <3>3
    <3> QED
      BY <3>2, <3>4 DEF Backed, Held
  <2>2. ASSUME NEW j \in JobId, file' = file, Backed(j)
        PROVE  Backed(j)'
    BY <2>2 DEF Backed, Held
  <2>3. ASSUME NEW j \in minted \cup said
        PROVE  j < next /\ Backed(j)'
    <3>1. j \in JobId /\ j < next /\ Backed(j)
      BY DEF OnceInv, Numbers, RegistryInv, Types
    <3> QED
      BY <1>3, <2>1, <2>2, <3>1
  <2>4. ASSUME NEW j \in JobId, reg'[gen][j].state \in Terminal
        PROVE  Backed(j)'
    <3>1. reg[gen][j].state # "absent"
      BY <1>4, <2>4 DEF Terminal
    <3>2. j < next
      BY <3>1, HeldIsNumbered
    <3>3. CASE file' = file /\ reg'[gen][j].state = reg[gen][j].state
      <4>1. j \in Settled(reg[gen])
        BY <2>4, <3>3 DEF Settled
      <4> QED
        BY <2>2, <3>3, <4>1 DEF OnceInv, Numbers
    <3>4. CASE reg' = [reg EXCEPT ![gen][ask] = Asked(reg[gen][ask])]
      <4>1. reg \in [Gen -> [JobId -> JobRecord]]
        BY DEF RegistryInv, Types
      <4>2. reg'[gen][ask] = Asked(reg[gen][ask])
        BY <1>1, <3>4, <4>1
      <4>3. Asked(reg[gen][ask]).state = reg[gen][ask].state
        BY <1>1, AskedRecord
      <4>4. reg'[gen][j].state = reg[gen][j].state
        BY <1>1, <4>2, <4>3
      <4> QED
        BY <1>3, <2>1, <3>2, <3>3, <4>4
    <3> QED
      BY <1>3, <2>1, <3>2, <3>3, <3>4
  <2>5. ASSUME NEW j \in JobId, j = ask
        PROVE  Backed(j)' \/ said' = said
    <3>1. CASE file' = file /\ reg[gen][ask].state \in Terminal
      <4>1. j \in Settled(reg[gen])
        BY <2>5, <3>1 DEF Settled
      <4>2. Backed(j)
        BY <4>1 DEF OnceInv, Numbers
      <4> QED
        BY <2>2, <3>1, <4>2
    <3>2. CASE \/ file' = reg'[gen]
               \/ file' = [reg[gen] EXCEPT ![ask] = Asked(@)]
      BY <1>6, <2>1, <2>5, <3>2
    <3> QED
      BY <1>3, <3>1, <3>2
  <2>6. next > 1 => next - 1 \in Held(reg'[gen])
    BY <1>4 DEF OnceInv, Numbers, Held
  <2>7. \A j \in (minted \cup said)' : j < next /\ Backed(j)'
    BY <1>1, <1>2, <1>6, <2>3, <2>5
  <2>8. \A t \in Thread : run[t] # Idle => run[t].job \in minted
    BY DEF OnceInv, Numbers
  <2> QED
    BY <1>2, <2>4, <2>6, <2>7, <2>8 DEF Numbers, Settled
<1>8. Filed'
  <2> SUFFICES ASSUME NEW j \in JobId, file'[j].state = "completed"
               PROVE  /\ j < next
                      /\ reg'[gen][j].state # "absent" =>
                            reg'[gen][j].state = "completed" /\ reg'[gen][j].op = file'[j].op
    BY <1>2 DEF Filed
  <2>1. CASE file' = file
    BY <1>4, <2>1 DEF OnceInv, Filed
  <2>2. CASE file' = reg'[gen]
    BY <1>4, <2>2, HeldIsNumbered
  <2>3. CASE file' = [reg[gen] EXCEPT ![ask] = Asked(@)]
    <3>1. file'[j].op = reg[gen][j].op /\ reg[gen][j].state = "completed"
      BY <1>5, <2>3
    <3> QED
      BY <1>4, <3>1, HeldIsNumbered
  <2> QED
    BY <1>3, <2>1, <2>2, <2>3
<1>10. Answering'
  BY <1>2 DEF Answering
<1>11. Told'
  <2> SUFFICES ASSUME NEW j \in said'
               PROVE  /\ reg'[gen][j].state = "completed" => reg'[gen][j].op = "spend"
                      /\ file'[j].state = "completed" => file'[j].op = "spend"
                      /\ run[Fg] # Idle /\ run[Fg].job = j =>
                            Of(Fg)'.cancel /\ Instr(Fg)' \in {"check", "confirm"}
    BY <1>2 DEF Told
  <2>1. Fg \in Thread /\ j \in JobId /\ (run[Fg] # Idle => run[Fg].gen = gen)
    BY <1>1, <1>2 DEF Thread, RegistryInv, Types, OnceInv, Current
  <2>2. run[Fg] # Idle =>
            /\ Of(Fg)' = reg'[gen][run[Fg].job] /\ Instr(Fg)' = Instr(Fg)
            /\ Of(Fg) = reg[gen][run[Fg].job]
    BY <1>2, <2>1 DEF Of, Instr
  <2>3. CASE j \in said
    <3>1. /\ reg[gen][j].state = "completed" => reg[gen][j].op = "spend"
          /\ file[j].state = "completed" => file[j].op = "spend"
          /\ run[Fg] # Idle /\ run[Fg].job = j =>
                Of(Fg).cancel /\ Instr(Fg) \in {"check", "confirm"}
      BY <2>3 DEF OnceInv, Told
    <3>2. reg'[gen][j].state = "completed" => reg'[gen][j].op = "spend"
      BY <1>4, <2>1, <3>1
    <3>3. file'[j].state = "completed" => file'[j].op = "spend"
      BY <1>3, <1>5, <2>1, <3>1, <3>2
    <3>4. run[Fg] # Idle /\ run[Fg].job = j =>
              Of(Fg)'.cancel /\ Instr(Fg)' \in {"check", "confirm"}
      BY <1>4, <2>1, <2>2, <3>1
    <3> QED
      BY <3>2, <3>3, <3>4
  <2>4. CASE j \notin said
    <3>1. j = ask /\ reg[gen][ask].op # "bulk"
          /\ \/ file' = file /\ reg' = reg /\ reg[gen][ask].state \in Terminal
             \/ file' = reg'[gen]
      BY <1>2, <1>3, <2>4
    <3>2. /\ run[Fg] = Idle \/ Pumping
          /\ reg[gen][ask].state = "completed" => reg[gen][ask].op = "spend"
      BY <1>2 DEF OnceInv, Answering
    <3>3. reg'[gen][j].state = "completed" => reg'[gen][j].op = "spend"
      BY <1>4, <2>1, <3>1, <3>2
    <3>4. file'[j].state = "completed" => file'[j].op = "spend"
      <4>1. CASE file' = file /\ reg' = reg
        BY <1>1, <2>1, <3>1, <3>2, <4>1 DEF OnceInv, Filed
      <4> QED
        BY <3>1, <3>3, <4>1
    <3>5. ASSUME run[Fg] # Idle, run[Fg].job = j
          PROVE  Of(Fg)'.cancel /\ Instr(Fg)' \in {"check", "confirm"}
      <4>1. Of(Fg) = reg[gen][ask] /\ Of(Fg).state # "absent"
        BY <1>1, <2>2, <3>1, <3>5
      <4>2. /\ Finds(run[Fg], Of(Fg)) /\ Follows(run[Fg].op, run[Fg].at)
            /\ Instr(Fg) = Program[run[Fg].op][run[Fg].at] /\ run[Fg].at \in Nat
        BY <2>1, <3>5, OfThread
      <4>3. run[Fg].op # "bulk"
        BY <3>1, <4>1, <4>2 DEF Finds
      <4>4. Instr(Fg) \in {"check", "confirm"}
        BY <3>2, <3>5, <4>2, <4>3 DEF Pumping, Follows
      <4>5. run[Fg].at > 1
        BY <4>2, <4>4 DEF Follows
      <4>6. Of(Fg).state = "running"
        BY <2>1, <4>3, <4>5, BegunIsRunning
      <4>7. reg'[gen][ask].cancel
        BY <1>1, <4>1, <4>6 DEF Open
      <4> QED
        BY <2>2, <3>1, <3>5, <4>4, <4>7
    <3> QED
      BY <3>3, <3>4, <3>5
  <2> QED
    BY <2>3, <2>4
<1>12. Receipts'
  <2> SUFFICES ASSUME NEW s \in Thread, Instr(s)' = "post", ~run'[s].unread
               PROVE  Of(s)'.stage = "settling" /\ file'[run'[s].job].stage # "reading"
    BY DEF Receipts
  <2>2. run'[s] = run[s] /\ Instr(s) = "post" /\ run[s] # Idle
    BY <1>2 DEF Instr, Idle
  <2>3. run[s].job \in JobId /\ run[s].gen = gen
    BY <2>2, OfThread, BackgroundSpends DEF OnceInv, Current
  <2>4. Of(s).stage = "settling" /\ file[run[s].job].stage # "reading"
    BY <2>2 DEF OnceInv, Receipts
  <2>5. Of(s)' = reg'[gen][run[s].job] /\ Of(s) = reg[gen][run[s].job]
    BY <1>2, <2>2, <2>3 DEF Of
  <2>6. Of(s)'.stage = "settling"
    BY <1>4, <2>3, <2>4, <2>5
  <2>7. file'[run[s].job].stage \in {file[run[s].job].stage, "settling"}
    BY <1>3, <1>5, <2>3, <2>4, <2>5, <2>6
  <2> QED
    BY <2>2, <2>4, <2>6, <2>7
<1>13. Current'
  BY <1>2 DEF OnceInv, Current
<1> QED
  BY <1>7, <1>8, <1>10, <1>11, <1>12, <1>13 DEF OnceInv

\* A registry restored from the file, with the foreground idle: the newest receipt
\* is there, so the numbering goes on above it.
LEMMA RestartOnce ==
    ASSUME RegistryInv, OnceInv, gen' \in Gen,
           reg'[gen'] = Restore(file), file' = reg'[gen'], next' = FirstFree(file'),
           \A t \in Thread : run'[t] \in {run[t], Idle}, run'[Fg] = Idle, ask' = 0,
           UNCHANGED <<said, minted>>
    PROVE  OnceInv'
<1> DEFINE jobs == Restore(file)
<1>3. /\ FirstFree(jobs) \in 1 .. MaxJobs + 1
      /\ \A j \in JobId : j >= FirstFree(jobs) => jobs[j].state = "absent"
      /\ FirstFree(jobs) = 1 \/ FirstFree(jobs) - 1 \in Held(jobs)
      /\ \A j \in JobId :
            /\ jobs[j].state \notin Open
            /\ jobs[j].state = "completed" =>
                   file[j].state = "completed" /\ jobs[j].op = file[j].op
  BY Restored
<1>4. \A j \in JobId : Backed(j) => \E k \in JobId : k >= j /\ k \in Held(jobs)
  <2> SUFFICES ASSUME NEW j \in JobId, Backed(j)
               PROVE  \E k \in JobId : k >= j /\ k \in Held(jobs)
    OBVIOUS
  <2>1. file \in [JobId -> JobRecord]
    BY DEF RegistryInv, Types
  <2>2. PICK i \in JobId : i >= j /\ i \in Held(file)
    BY DEF Backed
  <2>3. PICK k \in JobId : k >= i /\ k \in Held(jobs)
    BY <2>1, <2>2, NewestRestored
  <2>4. k >= j
    BY <2>2, <2>3, JobBoundsAssumption DEF JobId
  <2> QED
    BY <2>3, <2>4
<1>5. reg'[gen'] = jobs /\ file' = jobs /\ next' = FirstFree(jobs)
  OBVIOUS
<1> HIDE DEF jobs
<1>7. Numbers'
  <2>1. ASSUME NEW j \in minted \cup said
        PROVE  j < FirstFree(jobs) /\ Backed(j)'
    <3>1. j \in JobId /\ Backed(j)
      BY DEF OnceInv, Numbers, RegistryInv, Types
    <3>2. PICK k \in JobId : k >= j /\ k \in Held(jobs)
      BY <1>4, <3>1
    <3>3. ~(k >= FirstFree(jobs))
      BY <1>3, <3>2 DEF Held
    <3>4. j < FirstFree(jobs)
      BY <1>3, <3>1, <3>2, <3>3, JobBoundsAssumption DEF JobId
    <3> QED
      BY <1>5, <3>2, <3>4 DEF Backed
  <2>2. ASSUME NEW j \in Settled(jobs)
        PROVE  Backed(j)'
    <3>1. j \in JobId /\ j >= j /\ j \in Held(jobs)
      BY JobBoundsAssumption DEF Settled, Held, Terminal, JobId
    <3> QED
      BY <1>5, <3>1 DEF Backed
  <2>3. FirstFree(jobs) > 1 => FirstFree(jobs) - 1 \in Held(jobs)
    BY <1>3
  <2>4. \A t \in Thread : run'[t] # Idle => run'[t].job \in minted
    BY DEF OnceInv, Numbers
  <2> QED
    BY <1>5, <2>1, <2>2, <2>3, <2>4 DEF Numbers
<1>8. Filed'
  <2> SUFFICES ASSUME NEW j \in JobId, jobs[j].state = "completed"
               PROVE  j < FirstFree(jobs)
    BY <1>5 DEF Filed
  <2>1. ~(j >= FirstFree(jobs))
    BY <1>3
  <2> QED
    BY <1>3, <2>1, JobBoundsAssumption DEF JobId
<1>9. Answering'
  BY DEF Answering
<1>10. Told'
  <2>1. ASSUME NEW j \in said, jobs[j].state = "completed"
        PROVE  jobs[j].op = "spend"
    <3>1. j \in JobId
      BY DEF RegistryInv, Types
    <3> QED
      BY <1>3, <2>1, <3>1 DEF OnceInv, Told
  <2> QED
    BY <1>5, <2>1 DEF Told, Thread
<1>11. Receipts'
  <2>1. ASSUME NEW t \in Thread, Instr(t)' = "post" PROVE FALSE
    <3>1. run'[t] # Idle
      BY <2>1 DEF Instr, Idle
    <3>2. run'[t] = run[t] /\ Instr(t) = "post" /\ t # Fg
      BY <2>1, <3>1 DEF Instr
    <3> QED
      BY <3>1, <3>2, BackgroundSpends
  <2> QED
    BY <2>1 DEF Receipts
<1>12. Current'
  BY DEF Current
<1> QED
  BY <1>7, <1>8, <1>9, <1>10, <1>11, <1>12 DEF OnceInv

\* The sidecar starts again, or opens the vault again.
LEMMA LifeOnce ==
    ASSUME RegistryInv, OnceInv, Crash \/ Reopen
    PROVE  OnceInv'
<1>1. CASE Crash
  <2>1. 0 \in Gen
    BY JobBoundsAssumption DEF Gen
  <2>2. /\ gen' = 0 /\ reg'[0] = Restore(file) /\ file' = reg'[0]
        /\ next' = FirstFree(file') /\ ask' = 0
        /\ UNCHANGED <<said, minted>>
        /\ \A t \in Thread : run'[t] = Idle
    BY <1>1, <2>1 DEF Crash, docVars
  <2> QED
    BY <2>1, <2>2, RestartOnce DEF Thread
<1>2. CASE Reopen
  <2>1. gen \in 0 .. MaxOpens /\ gen < MaxOpens /\ MaxOpens \in Nat
    BY <1>2, JobBoundsAssumption DEF Reopen, RegistryInv, Types, Gen
  <2>2. gen + 1 \in Gen
    BY <2>1 DEF Gen
  <2>3. /\ gen' = gen + 1 /\ reg' = [reg EXCEPT ![gen + 1] = Restore(file)]
        /\ file' = reg'[gen'] /\ next' = FirstFree(file') /\ ask' = 0 /\ run' = run
        /\ UNCHANGED <<said, minted>> /\ run[Fg] = Idle
    BY <1>2 DEF Reopen, FgFree, askVars
  <2>4. reg'[gen + 1] = Restore(file)
    BY <2>2, <2>3 DEF RegistryInv, Types
  <2> QED
    BY <2>2, <2>3, <2>4, RestartOnce
<1> QED
  BY <1>1, <1>2

\* A replaced registry that has saved over the file stays on record.
LEMMA LateStays == RegistryInv /\ [Next]_vars => (late => late')
<1> SUFFICES ASSUME RegistryInv, [Next]_vars, late PROVE late'
  OBVIOUS
<1>1. ASSUME NEW t \in Thread, JobStep(t) \/ HostGone(t) PROVE late'
  <2>1. PICK r, u : OwnStep(t, r, u)
    BY <1>1, JobStepIsOwn
  <2>2. Writes(t)
    BY <2>1 DEF OwnStep
  <2> QED
    BY <2>2 DEF Writes
<1>2. ASSUME NEW op, NEW t, NEW doc, Opens(op, t, doc) PROVE late'
  BY <1>2 DEF Opens, Save, Write, SaveRaises, fileVars
<1>3. CASE Request
  <2>1. ASSUME NEW j \in JobId, AskStop(j) PROVE late'
    BY <2>1 DEF AskStop, regVars, fileVars
  <2> QED
    BY <1>2, <1>3, <2>1
    DEF Request, RequestPlain, RequestUpload, RequestRecover, RequestSpend
<1>4. CASE Stop
  BY <1>4 DEF Stop, Save, Write, SaveRaises, StateSaveRaises, fileVars
<1>5. ASSUME NEW d \in Doc, OtherIngest(d) PROVE late'
  BY <1>5 DEF OtherIngest, regVars, fileVars
<1>6. CASE Reopen \/ Crash
  BY <1>6 DEF Reopen, Crash
<1>7. CASE UNCHANGED vars
  BY <1>7 DEF vars, regVars, fileVars
<1> QED
  BY <1>1, <1>3, <1>4, <1>5, <1>6, <1>7 DEF Next

\* Every step keeps what holds until a replaced registry saves over the file.
LEMMA OnceKeeps ==
    RegistryInv /\ RegistryInv' /\ (~late => OnceInv) /\ [Next]_vars =>
        (~late' => OnceInv')
<1> SUFFICES ASSUME RegistryInv, RegistryInv', ~late => OnceInv, [Next]_vars, ~late'
             PROVE  OnceInv'
  OBVIOUS
<1>0. OnceInv
  BY LateStays
<1>1. ASSUME UNCHANGED <<reg, gen, next, file, run, ask, said, minted>>
      PROVE  OnceInv'
  BY <1>0, <1>1
  DEF OnceInv, Current, Numbers, Filed, Answering, Told, Receipts, Backed,
      Held, Settled, Of, Instr, Pumping
<1>2. CASE UNCHANGED vars
  BY <1>1, <1>2 DEF vars, regVars, fileVars, askVars
<1>3. ASSUME NEW d \in Doc, OtherIngest(d)
      PROVE  OnceInv'
  BY <1>1, <1>3 DEF OtherIngest, regVars, fileVars, askVars
<1>4. ASSUME NEW t \in Thread, JobStep(t) \/ HostGone(t)
      PROVE  OnceInv'
  <2>1. PICK r, u : OwnStep(t, r, u)
    BY <1>4, JobStepIsOwn
  <2>2. CASE run[t].gen = gen
    BY <1>0, <1>4, <2>1, <2>2, OwnStepOnce, AnswersFirst
  <2>3. CASE run[t].gen # gen
    BY <1>0, <2>1, <2>3, OlderStepOnce
  <2> QED
    BY <2>2, <2>3
<1> QED
  BY <1>0, <1>2, <1>3, <1>4, RequestOnce, StopOnce, LifeOnce DEF Next

\* Both invariants.
LEMMA OnceInvariant == Spec => [](RegistryInv /\ (~late => OnceInv))
<1>1. RegistryInv /\ RegistryInv' /\ (~late => OnceInv) /\ [Next]_vars =>
        (~late' => OnceInv')
  BY OnceKeeps
<1>2. RegistryInv /\ [Next]_vars => RegistryInv'
  BY NextKeeps
<1> QED
  BY <1>1, <1>2, InitHolds, OnceInit, PTL DEF Spec

\* No id a caller was handed is minted again, across restarts, reopenings, forgotten
\* receipts and failed saves, until a replaced registry saves over the file: the file
\* holds a number as large (_forget_the_oldest_settled, _restore).
THEOREM IdsAreFresh == Spec => []IdsFresh
<1>1. (~late => OnceInv) => IdsFresh
  BY DEF OnceInv, Numbers, IdsFresh
<1> QED
  BY <1>1, OnceInvariant, PTL

\* A foreground job whose stop request was answered never completes: the checkpoint
\* that pumped the request honours it (cancel, _checkpoint), across restarts and
\* reopenings until a replaced registry saves over the file.
THEOREM ForegroundStopsHold == Spec => []ForegroundStopHolds
<1>1. (~late => OnceInv) => ForegroundStopHolds
  BY DEF OnceInv, Told, ForegroundStopHolds
<1> QED
  BY <1>1, OnceInvariant, PTL

\* The settling receipt of a read that succeeded is on file before any event the
\* pipeline may append, whichever other saves failed: a crash does not restore the
\* document as unposted.
THEOREM ReceiptsPrecedePosting == Spec => []SettlingPrecedes
<1>1. (~late => OnceInv) => SettlingPrecedes
  BY DEF OnceInv, Receipts, SettlingPrecedes
<1> QED
  BY <1>1, OnceInvariant, PTL

-----------------------------------------------------------------------------
\* Paid runs, the registries that were replaced included.

Paying(r) == r.op = "spend" /\ r.state \in Open
PaidInv ==
    \A g \in Gen : \A j, k \in JobId :
        Paying(reg[g][j]) /\ Paying(reg[g][k]) => j = k

\* A job is opened, a paid one only when its registry has none.
LEMMA OpensPaid ==
    ASSUME RegistryInv, PaidInv, NEW op, NEW t, NEW doc, Opens(op, t, doc),
           op = "spend" => Active("spend") = {}
    PROVE  PaidInv'
<1>1. op \in DOMAIN Program
  BY OpsAssumption DEF Opens
<1>2. /\ next \in JobId /\ gen \in Gen
      /\ \A g \in Gen \ {gen} : reg'[g] = reg[g]
      /\ reg'[gen][next] = [Absent EXCEPT !.op = op, !.state = "queued"]
      /\ \A j \in JobId \ {next} : reg'[gen][j] \in {reg[gen][j], Absent}
  BY <1>1, Opened, Zenon
<1>3. ~Paying(Absent)
  BY DEF Absent, Paying
<1>4. Paying(reg'[gen][next]) => \A j \in JobId : ~Paying(reg[gen][j])
  <2>1. [Absent EXCEPT !.op = op, !.state = "queued"].op = op
    BY DEF Absent
  <2> QED
    BY <1>2, <2>1 DEF Paying, Active
<1> QED
  BY <1>2, <1>3, <1>4 DEF PaidInv

\* No other step opens a paid run.
LEMMA PaidKeeps == RegistryInv /\ PaidInv /\ [Next]_vars => PaidInv'
<1> SUFFICES ASSUME RegistryInv, PaidInv, [Next]_vars PROVE PaidInv'
  OBVIOUS
<1>1. ASSUME \A g \in Gen, j \in JobId : Paying(reg'[g][j]) => Paying(reg[g][j])
      PROVE  PaidInv'
  BY <1>1 DEF PaidInv
<1>2. ASSUME UNCHANGED reg PROVE PaidInv'
  BY <1>2 DEF PaidInv
<1>3. CASE Request
  <2>1. CASE \E j \in JobId : AskStop(j)
    BY <1>2, <2>1 DEF AskStop, regVars
  <2> QED
    BY <1>3, <2>1, OpensPaid
    DEF Request, RequestPlain, RequestUpload, RequestRecover, RequestSpend
<1>4. CASE Stop
  <2>1. /\ \A g \in Gen, j \in JobId :
              ~(g = gen /\ j = ask) => reg'[g][j] = reg[g][j]
        /\ reg'[gen][ask].op = reg[gen][ask].op
        /\ \/ reg'[gen][ask].state = reg[gen][ask].state
           \/ reg[gen][ask].state = "queued"
    BY <1>4, Stopped
  <2> QED
    BY <1>1, <2>1 DEF Paying, Open
<1>5. CASE Reopen
  <2>1. /\ gen \in Gen /\ reg' = [reg EXCEPT ![gen + 1] = Restore(file)]
        /\ reg \in [Gen -> [JobId -> JobRecord]] /\ file \in [JobId -> JobRecord]
    BY <1>5 DEF Reopen, RegistryInv, Types
  <2>2. \A j \in JobId : ~Paying(Restore(file)[j])
    BY <2>1, Restores DEF Paying
  <2>3. \A g \in Gen : reg'[g] \in {reg[g], Restore(file)}
    BY <2>1
  <2> QED
    BY <1>1, <2>2, <2>3
<1>6. CASE Crash
  <2>1. file \in [JobId -> JobRecord]
    BY DEF RegistryInv, Types
  <2>2. \A g \in Gen : reg'[g] \in {NoJobs, Restore(file)}
    BY <1>6 DEF Crash
  <2>3. \A j \in JobId : ~Paying(Restore(file)[j])
    BY <2>1, Restores DEF Paying
  <2>4. \A j \in JobId : ~Paying(NoJobs[j])
    BY DEF NoJobs, Absent, Paying
  <2> QED
    BY <1>1, <2>2, <2>3, <2>4
<1>7. ASSUME NEW t \in Thread, JobStep(t) \/ HostGone(t)
      PROVE  PaidInv'
  <2>1. PICK r, u : OwnStep(t, r, u)
    BY <1>7, JobStepIsOwn
  <2>2. /\ run[t].gen \in Gen /\ run[t].job \in JobId
        /\ r \in JobRecord /\ Record(t, r) /\ Leaves(t, r)
    BY <2>1, OfThread DEF OwnStep
  <2>3. /\ reg'[run[t].gen][run[t].job] = r
        /\ \A g \in Gen, j \in JobId :
              ~(g = run[t].gen /\ j = run[t].job) => reg'[g][j] = reg[g][j]
    BY <2>2, Cells DEF RegistryInv
  <2>4. Paying(r) => Paying(Of(t))
    BY <2>2 DEF Leaves, Paying
  <2> QED
    BY <1>1, <2>3, <2>4 DEF Of
<1>8. CASE \E d \in Doc : OtherIngest(d)
  BY <1>2, <1>8 DEF OtherIngest, regVars
<1>9. CASE UNCHANGED vars
  BY <1>2, <1>9 DEF vars, regVars
<1> QED
  BY <1>3, <1>4, <1>5, <1>6, <1>7, <1>8, <1>9 DEF Next

\* Of the paid runs asked of one registry one at most is past its begin
\* (TrustActions.run), however many threads there are, however often the vault is
\* opened again and however requests, steps and stops interleave.
THEOREM PaidRunsAreSingle == Spec => []OnePaidRun
<1>1. RegistryInv /\ PaidInv => OnePaidRun
  <2> SUFFICES ASSUME RegistryInv, PaidInv, NEW g \in Gen
               PROVE  Cardinality({ t \in Background : run[t].at > 1 /\ run[t].gen = g }) <= 1
    BY DEF OnePaidRun
  <2> DEFINE paid == { t \in Background : run[t].at > 1 /\ run[t].gen = g }
  <2>1. ASSUME NEW t \in paid
        PROVE  /\ t \in Thread /\ run[t] # Idle /\ run[t].gen = g
               /\ run[t].job \in JobId /\ Paying(reg[g][run[t].job])
    <3>1. t \in Thread /\ t # Fg /\ run[t].at > 1 /\ run[t].gen = g
      BY BackgroundAssumption DEF Thread
    <3>2. run[t] # Idle
      BY <3>1, BegunIsRunning
    <3>3. run[t].op = "spend" /\ (Of(t).state # "absent" => Of(t).op = "spend")
      BY <3>1, <3>2, BackgroundSpends
    <3>4. Of(t).state = "running"
      BY <3>1, <3>3, BegunIsRunning
    <3> QED
      BY <3>1, <3>2, <3>3, <3>4, OfThread DEF Paying, Open, Of
  <2>2. \A t, s \in paid : t = s
    <3> SUFFICES ASSUME NEW t \in paid, NEW s \in paid PROVE t = s
      OBVIOUS
    <3>1. /\ t \in Thread /\ run[t] # Idle /\ run[t].gen = g
          /\ run[t].job \in JobId /\ Paying(reg[g][run[t].job])
      BY <2>1
    <3>2. /\ s \in Thread /\ run[s] # Idle /\ run[s].gen = g
          /\ run[s].job \in JobId /\ Paying(reg[g][run[s].job])
      BY <2>1
    <3>3. run[t].job = run[s].job
      BY <3>1, <3>2 DEF PaidInv
    <3> QED
      BY <3>1, <3>2, <3>3 DEF RegistryInv, OneThread
  <2> HIDE DEF paid
  <2>3. Cardinality(paid) <= 1
    <3>1. CASE paid = {}
      BY <3>1, FS_EmptySet
    <3>2. CASE paid # {}
      <4>1. PICK t : paid = {t}
        BY <2>2, <3>2
      <4>2. Cardinality({t}) = 1
        BY FS_Singleton
      <4> QED
        BY <4>1, <4>2
    <3> QED
      BY <3>1, <3>2
  <2> QED
    BY <2>3 DEF paid
<1>2. Init => PaidInv
  BY DEF Init, PaidInv, Paying, NoJobs, Absent
<1>3. RegistryInv /\ PaidInv /\ [Next]_vars => PaidInv'
  BY PaidKeeps
<1> QED
  BY <1>1, <1>2, <1>3, RegistryInvariant, PTL DEF Spec

=============================================================================
