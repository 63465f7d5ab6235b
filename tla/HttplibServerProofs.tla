------------------------- MODULE HttplibServerProofs -------------------------
(***************************************************************************)
(* Proofs about a httplib server and its task queue.                       *)
(*                                                                         *)
(* httplib::ThreadPool, for any finite set of workers, any jobs and any    *)
(* queue limit.  Its inductive invariant is the conjunction of four parts, *)
(* each preserved given the ones before it.                                *)
(*                                                                         *)
(* The life of httplib::Server, for any connections, any threads of the    *)
(* task queue, any number of threads in stop() and any keep-alive limit:   *)
(* listen() returns only when what it accepted is closed, the listening    *)
(* descriptor is closed once, and the task queue is used as its contract   *)
(* allows.                                                                 *)
(*                                                                         *)
(* The beast benchmark, for any number of threads and requests: what its   *)
(* clients print is the sum of what was answered.  The sum over the        *)
(* threads is a recursive function, followed by induction on the set of    *)
(* numbers up to which it is what it should be.                            *)
(***************************************************************************)
EXTENDS ThreadPool, HttplibServer, BeastBench, TLAPS, SequenceTheorems, FiniteSetTheorems,
        FunctionTheorems, WellFoundedInduction

\* a worker holds a job exactly while it runs one
HoldsWhileRunning == \A w \in Workers : pc[w] = "run" <=> fn[w] # NoJob

PoolTypeInv == TypeOK /\ HoldsWhileRunning

\* no job is accepted twice, and what runs or has finished was started
NoDuplicate == \A i, k \in DOMAIN enqueued : enqueued[i] = enqueued[k] => i = k
StartedJobs == {enqueued[i] : i \in 1..Started}
HeldStarted == \A w \in Workers : fn[w] # NoJob => fn[w] \in StartedJobs

OnceInv == NoDuplicate /\ RunOnce /\ HeldStarted /\ returned \subseteq StartedJobs

\* how far the shutdown has come, at the owner and at the workers
ShutdownPhase ==
  /\ shutdown <=> owner \in {"stopping", "joining", "joined"}
  /\ \A w \in Workers : pc[w] = "exited" => shutdown /\ jobs = <<>>
  /\ owner = "joined" => \A w \in Workers : pc[w] = "exited"

----------------------------------------------------------------------------
LEMMA PoolTypeInit == PoolInit => PoolTypeInv
<1> SUFFICES ASSUME PoolInit PROVE PoolTypeInv
  OBVIOUS
<1>1. jobs \in Seq(Jobs) /\ enqueued \in Seq(Jobs)
  BY EmptySeq DEF PoolInit
<1>2. pc \in [Workers -> WorkerPC] /\ fn \in [Workers -> Jobs \cup {NoJob}]
  BY DEF PoolInit, WorkerPC
<1> QED BY <1>1, <1>2 DEF PoolInit, PoolTypeInv, TypeOK, HoldsWhileRunning, OwnerPC

LEMMA PoolTypeStep == PoolTypeInv /\ [PoolNext]_queueVars => PoolTypeInv'
<1> SUFFICES ASSUME PoolTypeInv, [PoolNext]_queueVars PROVE PoolTypeInv'
  OBVIOUS
<1> USE DEF PoolTypeInv, TypeOK, HoldsWhileRunning, WorkerPC, OwnerPC
<1>1. ASSUME NEW j \in Jobs, Push(j) PROVE PoolTypeInv'
  BY <1>1 DEF Push
<1>2. ASSUME NEW j \in Jobs, Refuse(j) PROVE PoolTypeInv'
  BY <1>2 DEF Refuse
<1>3. CASE NotifyOne
  BY <1>3 DEF NotifyOne, Asleep
<1>4. CASE SetShutdown
  BY <1>4 DEF SetShutdown
<1>5. CASE NotifyAll
  BY <1>5 DEF NotifyAll
<1>6. CASE JoinAll
  BY <1>6 DEF JoinAll
<1>7. ASSUME NEW w \in Workers, Take(w) PROVE PoolTypeInv'
  <2>1. Head(jobs) \in Jobs /\ Tail(jobs) \in Seq(Jobs)
    BY <1>7, HeadTailProperties DEF Take
  <2>2. Head(jobs) # NoJob
    BY <2>1, JobsAssumption
  <2> QED BY <1>7, <2>1, <2>2 DEF Take
<1>8. ASSUME NEW w \in Workers, Sleep(w) PROVE PoolTypeInv'
  BY <1>8 DEF Sleep
<1>9. ASSUME NEW w \in Workers, Exit(w) PROVE PoolTypeInv'
  BY <1>9 DEF Exit
<1>10. ASSUME NEW w \in Workers, Spurious(w) PROVE PoolTypeInv'
  BY <1>10 DEF Spurious
<1>11. ASSUME NEW w \in Workers, Return(w) PROVE PoolTypeInv'
  <2>1. fn[w] \in Jobs
    BY <1>11 DEF Return
  <2> QED BY <1>11, <2>1 DEF Return
<1>12. CASE UNCHANGED queueVars
  BY <1>12 DEF queueVars
<1> QED BY <1>1, <1>2, <1>3, <1>4, <1>5, <1>6, <1>7, <1>8, <1>9, <1>10, <1>11, <1>12
        DEF PoolNext, OwnerNext, WorkerNext, WorkerStep, Done

\* Every variable of the pool keeps its type (httplib.h:1049-1145).
THEOREM TypeCorrect == PoolSafety => []TypeOK
<1>1. PoolTypeInv => TypeOK
  BY DEF PoolTypeInv
<1> QED BY PoolTypeInit, PoolTypeStep, <1>1, PTL DEF PoolSafety

----------------------------------------------------------------------------
(* The queue is the unstarted tail of the accepted jobs. *)

LEMMA TailInit == PoolInit => QueueIsTail
  BY DEF PoolInit, QueueIsTail, Started

LEMMA TailStep ==
  ASSUME PoolTypeInv, QueueIsTail, [PoolNext]_queueVars PROVE QueueIsTail'
<1> USE DEF PoolTypeInv, TypeOK, QueueIsTail, Started
<1>1. ASSUME NEW j \in Jobs, Push(j) PROVE QueueIsTail'
  <2>1. jobs' = Append(jobs, j) /\ enqueued' = Append(enqueued, j)
    BY <1>1 DEF Push
  <2>2. /\ Len(jobs') = Len(jobs) + 1 /\ Len(enqueued') = Len(enqueued) + 1
        /\ DOMAIN jobs' = 1..(Len(jobs) + 1)
        /\ \A i \in 1..Len(jobs) : jobs'[i] = jobs[i]
        /\ \A i \in 1..Len(enqueued) : enqueued'[i] = enqueued[i]
        /\ jobs'[Len(jobs) + 1] = j /\ enqueued'[Len(enqueued) + 1] = j
    BY <2>1, AppendProperties
  <2>3. Len(jobs) \in Nat /\ Len(enqueued) \in Nat /\ Started' = Started
    BY <2>2, LenProperties
  <2>4. ASSUME NEW i \in DOMAIN jobs' PROVE jobs'[i] = enqueued'[Started + i]
    <3>1. CASE i \in 1..Len(jobs)
      <4>1. jobs[i] = enqueued[Started + i] /\ Started + i \in 1..Len(enqueued)
        BY <3>1, <2>3
      <4> QED BY <3>1, <4>1, <2>2
    <3>2. CASE i = Len(jobs) + 1
      BY <3>2, <2>2, <2>3
    <3> QED BY <3>1, <3>2, <2>2, <2>3
  <2> QED BY <2>2, <2>3, <2>4
<1>2. ASSUME NEW w \in Workers, Take(w) PROVE QueueIsTail'
  <2>1. /\ jobs' = Tail(jobs) /\ enqueued' = enqueued /\ jobs # <<>>
    BY <1>2 DEF Take
  <2>2. /\ Len(Tail(jobs)) = Len(jobs) - 1
        /\ \A i \in 1..Len(Tail(jobs)) : Tail(jobs)[i] = jobs[i + 1]
    BY <2>1, HeadTailProperties
  <2> QED BY <2>1, <2>2
<1>3. ASSUME UNCHANGED <<jobs, enqueued>> PROVE QueueIsTail'
  BY <1>3
<1> QED BY <1>1, <1>2, <1>3
        DEF PoolNext, OwnerNext, WorkerNext, WorkerStep, Done, queueVars, Refuse, NotifyOne,
            SetShutdown, NotifyAll, JoinAll, Sleep, Exit, Spurious, Return

----------------------------------------------------------------------------
(* Every started job is held by one worker or finished, never both. *)

LEMMA OnceInit == PoolInit => OnceInv
  BY DEF PoolInit, OnceInv, NoDuplicate, RunOnce, HeldStarted, StartedJobs, Started

LEMMA OnceStep ==
  ASSUME PoolTypeInv, QueueIsTail, OnceInv, [PoolNext]_queueVars PROVE OnceInv'
<1> USE DEF PoolTypeInv, TypeOK
<1>1. ASSUME NEW j \in Jobs, Push(j) PROVE OnceInv'
  <2>1. /\ enqueued' = Append(enqueued, j) /\ Len(jobs') = Len(jobs) + 1
        /\ fn' = fn /\ returned' = returned
    BY <1>1 DEF Push
  <2>2. Len(enqueued') = Len(enqueued) + 1 /\ Started' = Started
    BY <2>1 DEF Started
  <2>3. \A i \in DOMAIN enqueued : enqueued[i] # j
    BY <1>1 DEF Push, Fresh, Elems
  <2>4. NoDuplicate'
    BY <2>1, <2>3 DEF OnceInv, NoDuplicate
  <2>5. Started \in Nat /\ Started <= Len(enqueued)
    BY DEF QueueIsTail, Started
  <2>6. \A i \in 1..Started : enqueued'[i] = enqueued[i]
    BY <2>1, <2>5
  <2>7. StartedJobs' = StartedJobs
    BY <2>2, <2>6 DEF StartedJobs
  <2> QED BY <2>1, <2>2, <2>4, <2>6, <2>7 DEF OnceInv, RunOnce, HeldStarted
<1>2. ASSUME NEW w \in Workers, Take(w) PROVE OnceInv'
  <2> DEFINE n == Started + 1
  <2>1. /\ enqueued' = enqueued /\ returned' = returned /\ jobs # <<>>
        /\ jobs' = Tail(jobs) /\ fn' = [fn EXCEPT ![w] = Head(jobs)] /\ pc[w] = "check"
    BY <1>2 DEF Take
  <2>2. Len(jobs') = Len(jobs) - 1 /\ Head(jobs) = jobs[1] /\ Len(jobs) > 0
    BY <2>1, HeadTailProperties
  <2>3. Started' = n /\ n \in DOMAIN enqueued /\ Started \in Nat
    BY <2>1, <2>2 DEF Started, QueueIsTail
  <2>4. Head(jobs) = enqueued[n]
    BY <2>2 DEF QueueIsTail
  <2>5. fn[w] = NoJob
    BY <2>1 DEF HoldsWhileRunning
  <2>6. enqueued[n] \notin StartedJobs
    BY <2>3 DEF StartedJobs, OnceInv, NoDuplicate
  <2>7. StartedJobs' = StartedJobs \cup {enqueued[n]}
    BY <2>1, <2>3 DEF StartedJobs
  <2>8. enqueued[n] \notin returned /\ \A v \in Workers : fn[v] # enqueued[n]
    <3>1. enqueued[n] # NoJob
      BY <2>3, JobsAssumption
    <3> QED BY <2>6, <3>1 DEF OnceInv, HeldStarted
  <2>9. HeldStarted' /\ (returned \subseteq StartedJobs)'
    BY <2>1, <2>4, <2>7 DEF OnceInv, HeldStarted
  <2>10. \A v, u \in Workers : fn'[v] = fn'[u] /\ fn'[v] # NoJob => v = u
    BY <2>1, <2>4, <2>8 DEF OnceInv, RunOnce
  <2>11. ASSUME NEW i \in 1..n
         PROVE enqueued[i] \in returned <=> ~(\E v \in Workers : fn'[v] = enqueued[i])
    <3>1. CASE i = n
      BY <3>1, <2>1, <2>4, <2>8
    <3>2. CASE i # n
      <4>1. i \in 1..Started /\ enqueued[i] # enqueued[n]
        BY <3>2, <2>3 DEF OnceInv, NoDuplicate
      <4>2. enqueued[i] # NoJob
        BY <2>3, JobsAssumption
      <4> QED BY <4>1, <4>2, <2>1, <2>4, <2>5 DEF OnceInv, RunOnce
    <3> QED BY <3>1, <3>2
  <2>12. RunOnce'
    BY <2>1, <2>3, <2>10, <2>11 DEF RunOnce
  <2> QED BY <2>1, <2>9, <2>12 DEF OnceInv, NoDuplicate
<1>3. ASSUME NEW w \in Workers, Return(w) PROVE OnceInv'
  <2>1. /\ jobs' = jobs /\ enqueued' = enqueued /\ returned' = returned \cup {fn[w]}
        /\ fn' = [fn EXCEPT ![w] = NoJob] /\ pc[w] = "run"
    BY <1>3 DEF Return
  <2>2. Started' = Started /\ StartedJobs' = StartedJobs
    BY <2>1 DEF Started, StartedJobs
  <2>3. fn[w] # NoJob /\ fn[w] \in StartedJobs
    BY <2>1 DEF HoldsWhileRunning, OnceInv, HeldStarted
  <2>4. \A v \in Workers : fn[v] = fn[w] => v = w
    BY <2>3 DEF OnceInv, RunOnce
  <2>5. Started \in Nat /\ Started <= Len(enqueued)
    BY DEF QueueIsTail, Started
  <2>6. ASSUME NEW i \in 1..Started
        PROVE enqueued[i] \in returned' <=> ~(\E v \in Workers : fn'[v] = enqueued[i])
    <3>1. enqueued[i] # NoJob
      BY <2>5, JobsAssumption
    <3>2. CASE enqueued[i] = fn[w]
      BY <3>1, <3>2, <2>1, <2>4
    <3>3. CASE enqueued[i] # fn[w]
      BY <3>1, <3>3, <2>1 DEF OnceInv, RunOnce
    <3> QED BY <3>2, <3>3
  <2>7. RunOnce'
    BY <2>1, <2>2, <2>6 DEF OnceInv, RunOnce
  <2> QED BY <2>1, <2>2, <2>3, <2>7 DEF OnceInv, NoDuplicate, HeldStarted
<1>4. ASSUME UNCHANGED <<jobs, enqueued, fn, returned>> PROVE OnceInv'
  BY <1>4 DEF OnceInv, NoDuplicate, RunOnce, HeldStarted, StartedJobs, Started
<1> QED BY <1>1, <1>2, <1>3, <1>4
        DEF PoolNext, OwnerNext, WorkerNext, WorkerStep, Done, queueVars, Refuse, NotifyOne,
            SetShutdown, NotifyAll, JoinAll, Sleep, Exit, Spurious

\* No accepted job is lost, overtaken or put back in the queue
\* (httplib.h:1074, 1119-1120), and a started one is in the hands of exactly one
\* worker or finished, never both (1102-1125).
THEOREM RunsOnce == PoolSafety => []OnceInOrder
<1>1. PoolTypeInv /\ QueueIsTail /\ [PoolNext]_queueVars => QueueIsTail'
  BY TailStep
<1>2. PoolTypeInv /\ QueueIsTail /\ OnceInv /\ [PoolNext]_queueVars => OnceInv'
  BY OnceStep
<1>3. QueueIsTail /\ OnceInv => OnceInOrder
  BY DEF OnceInv, OnceInOrder
<1> QED BY PoolTypeInit, PoolTypeStep, TailInit, OnceInit, <1>1, <1>2, <1>3, PTL DEF PoolSafety

----------------------------------------------------------------------------
(* shutdown() *)

LEMMA PhaseInit == PoolInit => ShutdownPhase
  BY DEF PoolInit, ShutdownPhase

LEMMA PhaseStep ==
  ASSUME PoolTypeInv, ShutdownPhase, [PoolNext]_queueVars PROVE ShutdownPhase'
<1> USE DEF PoolTypeInv, TypeOK, ShutdownPhase, OwnerPC, WorkerPC
<1>1. ASSUME NEW j \in Jobs, Push(j) PROVE ShutdownPhase'
  BY <1>1 DEF Push
<1>2. ASSUME NEW j \in Jobs, Refuse(j) PROVE ShutdownPhase'
  BY <1>2 DEF Refuse
<1>3. CASE NotifyOne
  BY <1>3 DEF NotifyOne, Asleep
<1>4. CASE SetShutdown
  BY <1>4 DEF SetShutdown
<1>5. CASE NotifyAll
  BY <1>5 DEF NotifyAll
<1>6. CASE JoinAll
  BY <1>6 DEF JoinAll
<1>7. ASSUME NEW w \in Workers, Take(w) PROVE ShutdownPhase'
  BY <1>7 DEF Take
<1>8. ASSUME NEW w \in Workers, Sleep(w) PROVE ShutdownPhase'
  BY <1>8 DEF Sleep
<1>9. ASSUME NEW w \in Workers, Exit(w) PROVE ShutdownPhase'
  BY <1>9 DEF Exit
<1>10. ASSUME NEW w \in Workers, Spurious(w) PROVE ShutdownPhase'
  BY <1>10 DEF Spurious
<1>11. ASSUME NEW w \in Workers, Return(w) PROVE ShutdownPhase'
  BY <1>11 DEF Return
<1>12. CASE UNCHANGED queueVars
  BY <1>12 DEF queueVars
<1> QED BY <1>1, <1>2, <1>3, <1>4, <1>5, <1>6, <1>7, <1>8, <1>9, <1>10, <1>11, <1>12
        DEF PoolNext, OwnerNext, WorkerNext, WorkerStep, Done

LEMMA DrainedWhenExited ==
  ASSUME PoolTypeInv, QueueIsTail, OnceInv, ShutdownPhase, \A w \in Workers : pc[w] = "exited"
  PROVE  Elems(enqueued) = returned
<1>1. \A w \in Workers : fn[w] = NoJob
  BY DEF PoolTypeInv, HoldsWhileRunning
<1>2. jobs = <<>>
  BY WorkersAssumption DEF ShutdownPhase
<1>3. Started = Len(enqueued)
  BY <1>2 DEF Started, PoolTypeInv, TypeOK
<1>4. \A i \in 1..Started : enqueued[i] \in returned
  <2>1. \A i \in 1..Started : enqueued[i] # NoJob
    BY <1>3, JobsAssumption DEF PoolTypeInv, TypeOK
  <2> QED BY <1>1, <2>1 DEF OnceInv, RunOnce
<1>5. Elems(enqueued) = StartedJobs
  BY <1>3 DEF Elems, StartedJobs, PoolTypeInv, TypeOK
<1> QED BY <1>4, <1>5 DEF OnceInv, StartedJobs

LEMMA PhaseDrains ==
  ASSUME PoolTypeInv, QueueIsTail, OnceInv, ShutdownPhase PROVE DrainedAtJoin
  BY DrainedWhenExited DEF DrainedAtJoin, ShutdownPhase

\* When shutdown() returns every job that was ever accepted has run to its end
\* (httplib.h:1080-1095 with the exit test of 1114-1117).
THEOREM Drained == PoolSafety => []DrainedAtJoin
<1>1. PoolTypeInv /\ QueueIsTail /\ [PoolNext]_queueVars => QueueIsTail'
  BY TailStep
<1>2. PoolTypeInv /\ QueueIsTail /\ OnceInv /\ [PoolNext]_queueVars => OnceInv'
  BY OnceStep
<1>3. PoolTypeInv /\ ShutdownPhase /\ [PoolNext]_queueVars => ShutdownPhase'
  BY PhaseStep
<1>4. PoolTypeInv /\ QueueIsTail /\ OnceInv /\ ShutdownPhase => DrainedAtJoin
  BY PhaseDrains
<1> QED BY PoolTypeInit, PoolTypeStep, TailInit, OnceInit, PhaseInit, <1>1, <1>2, <1>3, <1>4, PTL
        DEF PoolSafety

LEMMA AwakeStep ==
  ASSUME PoolTypeInv, ShutdownPhase, NobodySleepsAtJoin, [PoolNext]_queueVars
  PROVE  NobodySleepsAtJoin'
<1> USE DEF PoolTypeInv, TypeOK, ShutdownPhase, NobodySleepsAtJoin, Asleep
<1>1. ASSUME NEW w \in Workers, Sleep(w) PROVE NobodySleepsAtJoin'
  BY <1>1 DEF Sleep
<1>2. CASE NotifyAll
  BY <1>2 DEF NotifyAll
<1>3. ASSUME NEW w \in Workers, Take(w) \/ Exit(w) \/ Spurious(w) \/ Return(w)
      PROVE  NobodySleepsAtJoin'
  BY <1>3 DEF Take, Exit, Spurious, Return
<1>4. CASE NotifyOne \/ SetShutdown \/ JoinAll
  BY <1>4 DEF NotifyOne, SetShutdown, JoinAll
<1>5. ASSUME NEW j \in Jobs, Push(j) \/ Refuse(j) PROVE NobodySleepsAtJoin'
  BY <1>5 DEF Push, Refuse
<1>6. CASE UNCHANGED queueVars
  BY <1>6 DEF queueVars
<1> QED BY <1>1, <1>2, <1>3, <1>4, <1>5, <1>6
        DEF PoolNext, OwnerNext, WorkerNext, WorkerStep, Done

\* After notify_all() no worker sleeps, so join() has nobody to wait for in vain
\* (httplib.h:1088, with the predicate of 1110-1112).
THEOREM AwakeAtJoin == PoolSafety => []NobodySleepsAtJoin
<1>1. PoolInit => NobodySleepsAtJoin
  BY DEF PoolInit, NobodySleepsAtJoin
<1>2. PoolTypeInv /\ ShutdownPhase /\ [PoolNext]_queueVars => ShutdownPhase'
  BY PhaseStep
<1>3. PoolTypeInv /\ ShutdownPhase /\ NobodySleepsAtJoin /\ [PoolNext]_queueVars => NobodySleepsAtJoin'
  BY AwakeStep
<1> QED BY PoolTypeInit, PoolTypeStep, PhaseInit, <1>1, <1>2, <1>3, PTL DEF PoolSafety

\* Once a worker has left its loop the queue stays empty and nothing more is
\* accepted (httplib.h:1114-1117).
THEOREM ExitIsLast == PoolSafety => NoWorkAfterExit
<1> DEFINE NoMore == (\E w \in Workers : pc[w] = "exited") => jobs' = jobs /\ enqueued' = enqueued
<1>1. ASSUME PoolTypeInv, ShutdownPhase, [PoolNext]_queueVars PROVE [NoMore]_queueVars
  <2> SUFFICES ASSUME NEW v \in Workers, pc[v] = "exited"
               PROVE  jobs' = jobs /\ enqueued' = enqueued
    OBVIOUS
  <2>1. shutdown /\ jobs = <<>> /\ owner # "ready"
    BY <1>1 DEF ShutdownPhase
  <2> QED BY <1>1, <2>1
          DEF PoolNext, OwnerNext, WorkerNext, WorkerStep, Done, queueVars, Push, Refuse, NotifyOne,
              SetShutdown, NotifyAll, JoinAll, Take, Sleep, Exit, Spurious, Return
<1>2. PoolTypeInv /\ ShutdownPhase /\ [PoolNext]_queueVars => ShutdownPhase'
  BY PhaseStep
<1> QED BY PoolTypeInit, PoolTypeStep, PhaseInit, <1>1, <1>2, PTL DEF PoolSafety, NoWorkAfterExit

----------------------------------------------------------------------------
(* Wake-ups *)

\* the workers on their way to the queue, and the one about to be notified
Notified == IF owner = "notify" THEN 1 ELSE 0

LEMMA LookingFinite == /\ IsFiniteSet(Looking) /\ Cardinality(Looking) \in Nat
                       /\ IsFiniteSet(Looking') /\ Cardinality(Looking') \in Nat
<1>1. Looking \subseteq Workers /\ Looking' \subseteq Workers
  BY DEF Looking
<1>2. IsFiniteSet(Looking) /\ IsFiniteSet(Looking')
  BY <1>1, FS_Subset, WorkersAssumption
<1> QED BY <1>2, FS_CardinalityType

\* a worker that comes back to the predicate, from sleep or from a job
LEMMA LooksAgain ==
  ASSUME PoolTypeInv, NEW w \in Workers, pc[w] # "check", pc' = [pc EXCEPT ![w] = "check"]
  PROVE  Cardinality(Looking') = Cardinality(Looking) + 1
<1>1. Looking' = Looking \cup {w} /\ w \notin Looking
  BY DEF Looking, PoolTypeInv, TypeOK
<1> QED BY <1>1, LookingFinite, FS_AddElement

LEMMA WakeStep ==
  ASSUME PoolTypeInv, NoLostWakeup, [PoolNext]_queueVars PROVE NoLostWakeup'
<1> USE LookingFinite DEF PoolTypeInv, TypeOK, NoLostWakeup
<1>0. Len(jobs) \in Nat
  BY LenProperties
<1>1. ASSUME NEW j \in Jobs, Push(j) PROVE NoLostWakeup'
  <2>1. /\ Len(jobs') = Len(jobs) + 1 /\ owner = "ready" /\ owner' = "notify"
        /\ Looking' = Looking /\ Asleep' = Asleep
    BY <1>1 DEF Push, Looking, Asleep
  <2> QED BY <2>1, <1>0
<1>2. CASE NotifyOne
  <2>1. owner = "notify" /\ owner' = "ready" /\ jobs' = jobs
    BY <1>2 DEF NotifyOne
  <2>2. CASE Asleep = {} /\ pc' = pc
    BY <2>2 DEF Asleep
  <2>3. ASSUME NEW w \in Asleep, pc' = [pc EXCEPT ![w] = "check"] PROVE NoLostWakeup'
    <3>1. Cardinality(Looking') = Cardinality(Looking) + 1
      BY <2>3, LooksAgain DEF Asleep
    <3> QED BY <2>1, <2>3, <3>1, <1>0
  <2> QED BY <1>2, <2>2, <2>3 DEF NotifyOne
<1>3. CASE NotifyAll
  BY <1>3 DEF NotifyAll, Asleep
<1>4. ASSUME NEW w \in Workers, Take(w) PROVE NoLostWakeup'
  <2>1. Len(jobs') = Len(jobs) - 1 /\ owner' = owner
    BY <1>4, HeadTailProperties DEF Take
  <2>2. Asleep' = Asleep /\ Looking' = Looking \ {w} /\ w \in Looking
    BY <1>4 DEF Take, Asleep, Looking
  <2>3. Cardinality(Looking') = Cardinality(Looking) - 1
    BY <2>2, FS_RemoveElement
  <2> QED BY <1>0, <2>1, <2>2, <2>3
<1>5. ASSUME NEW w \in Workers, Sleep(w) \/ Exit(w) PROVE NoLostWakeup'
  <2>1. Len(jobs') = 0
    BY <1>5 DEF Sleep, Exit
  <2> QED BY <2>1
<1>6. ASSUME NEW w \in Workers, Spurious(w) \/ Return(w) PROVE NoLostWakeup'
  <2>1. Cardinality(Looking') = Cardinality(Looking) + 1
    BY <1>6, LooksAgain DEF Spurious, Return
  <2>2. Asleep' \subseteq Asleep /\ jobs' = jobs /\ owner' = owner
    BY <1>6 DEF Spurious, Return, Asleep
  <2> QED BY <1>0, <2>1, <2>2
<1>7. ASSUME UNCHANGED <<jobs, pc>>, owner' = "notify" <=> owner = "notify" PROVE NoLostWakeup'
  BY <1>7 DEF Looking, Asleep
<1> QED BY <1>1, <1>2, <1>3, <1>4, <1>5, <1>6, <1>7
        DEF PoolNext, OwnerNext, WorkerNext, WorkerStep, Done, queueVars, Refuse, SetShutdown, JoinAll

\* While a worker sleeps there are no more jobs than workers on their way to the queue,
\* although the notification comes after the unlock (httplib.h:1077) and the one who is
\* woken may find that another has taken its job (1108-1120).
THEOREM WakesEnough == PoolSafety => []NoLostWakeup
<1>1. PoolInit => NoLostWakeup
  BY DEF PoolInit, NoLostWakeup, Asleep
<1>2. PoolTypeInv /\ NoLostWakeup /\ [PoolNext]_queueVars => NoLostWakeup'
  BY WakeStep
<1> QED BY PoolTypeInit, PoolTypeStep, <1>1, <1>2, PTL DEF PoolSafety

----------------------------------------------------------------------------
(* The pool implements the abstract executor *)

\* what the abstract executor calls running is held by workers: a free worker has
\* room for one more
LEMMA RoomForOne ==
  ASSUME PoolTypeInv, QueueIsTail, OnceInv, NEW w \in Workers, fn[w] = NoJob
  PROVE  Cardinality(Executor!Running) < Cardinality(Workers)
<1> DEFINE Free == Workers \ {w}
           holder == [j \in Executor!Running |-> CHOOSE v \in Workers : fn[v] = j]
<1>1. \A j \in Executor!Running : \E v \in Workers : fn[v] = j
  BY DEF Executor!Running, OnceInv, RunOnce
<1>2. \A j \in Executor!Running : j # NoJob
  <2>1. Started \in Nat /\ Started <= Len(enqueued)
    BY DEF PoolTypeInv, TypeOK, QueueIsTail, Started
  <2> QED BY <2>1, JobsAssumption DEF Executor!Running, PoolTypeInv, TypeOK
<1>3. \A j \in Executor!Running : holder[j] \in Free /\ fn[holder[j]] = j
  BY <1>1, <1>2
<1>4. holder \in Injection(Executor!Running, Free)
  BY <1>3 DEF Injection, IsInjective
<1>5. IsFiniteSet(Free) /\ Cardinality(Free) = Cardinality(Workers) - 1
  BY WorkersAssumption, FS_RemoveElement
<1>6. IsFiniteSet(Executor!Running) /\ Cardinality(Executor!Running) <= Cardinality(Free)
  BY <1>4, <1>5, FS_Injection
<1> QED BY <1>5, <1>6, WorkersAssumption, FS_CardinalityType

\* the cardinality of the instance is that of the library
LEMMA SameCardinality == \A S : Executor!Cardinality(S) = Cardinality(S)
BY DEF Executor!Cardinality, Cardinality

LEMMA ExecutorInit == PoolInit => Executor!ExecInit
  BY DEF PoolInit, Executor!ExecInit, Started

LEMMA ExecutorStep ==
  ASSUME PoolTypeInv, QueueIsTail, OnceInv, ShutdownPhase, [PoolNext]_queueVars
  PROVE  [Executor!ExecNext]_(Executor!execVars)
<1> USE DEF PoolTypeInv, TypeOK
<1>1. ASSUME NEW j \in Jobs, Push(j) PROVE Executor!Submit(j)
  <2>1. owner # "joined" /\ owner' # "joined" /\ enqueued' = Append(enqueued, j)
        /\ returned' = returned
    BY <1>1 DEF Push
  <2>2. j \notin Executor!Submitted
    BY <1>1 DEF Push, Fresh, Elems, Executor!Submitted
  <2>3. Started' = Started
    BY <1>1 DEF Push, Started
  <2> QED BY <2>1, <2>2, <2>3 DEF Executor!Submit
<1>2. ASSUME NEW w \in Workers, Take(w) PROVE Executor!Start
  <2>1. /\ jobs # <<>> /\ jobs' = Tail(jobs) /\ pc[w] = "check"
        /\ UNCHANGED <<enqueued, returned, owner>>
    BY <1>2 DEF Take
  <2>2. Len(jobs') = Len(jobs) - 1 /\ Len(jobs) \in Nat \ {0}
    BY <2>1, HeadTailProperties, EmptySeq
  <2>3. Started < Len(enqueued) /\ Started' = Started + 1
    BY <2>1, <2>2 DEF Started, QueueIsTail
  <2>4. Cardinality(Executor!Running) < Cardinality(Workers)
    BY <2>1, RoomForOne DEF HoldsWhileRunning
  <2> QED BY <2>1, <2>3, <2>4, SameCardinality DEF Executor!Start
<1>3. ASSUME NEW w \in Workers, Return(w)
      PROVE  Executor!Finish(fn[w]) /\ fn[w] \in Jobs
  <2>1. /\ pc[w] = "run" /\ returned' = returned \cup {fn[w]}
        /\ UNCHANGED <<enqueued, jobs, owner>>
    BY <1>3 DEF Return
  <2>2. fn[w] # NoJob /\ fn[w] \in Jobs
    BY <2>1 DEF HoldsWhileRunning
  <2>3. fn[w] \in Executor!Running
    BY <2>2 DEF Executor!Running, OnceInv, HeldStarted, StartedJobs, RunOnce
  <2> QED BY <2>1, <2>2, <2>3 DEF Executor!Finish, Started
<1>4. CASE JoinAll
  <2>1. /\ \A w \in Workers : pc[w] = "exited"
        /\ owner = "joining" /\ owner' = "joined" /\ UNCHANGED <<jobs, enqueued, returned>>
    BY <1>4 DEF JoinAll
  <2>2. Elems(enqueued) = returned
    BY <2>1, DrainedWhenExited
  <2>3. Executor!Submitted = returned
    BY <2>2 DEF Elems, Executor!Submitted
  <2> QED BY <2>1, <2>3 DEF Executor!Close, Executor!ExecNext, Started
<1>5. ASSUME UNCHANGED <<jobs, enqueued, returned>>, owner' = "joined" <=> owner = "joined"
      PROVE  UNCHANGED Executor!execVars
  BY <1>5 DEF Executor!execVars, Started
<1> QED BY <1>1, <1>2, <1>3, <1>4, <1>5
        DEF PoolNext, OwnerNext, WorkerNext, WorkerStep, Done, queueVars, Refuse, NotifyOne,
            SetShutdown, NotifyAll, Sleep, Exit, Spurious, Executor!ExecNext

\* Every step of the pool is one of the abstract executor of TaskQueue's contract or
\* leaves it alone: jobs start in the order of acceptance on a free thread, end once, and
\* shutdown() (httplib.h:1080-1095) closes only what has nothing left.
THEOREM PoolIsExecutor == PoolSafety => Executor!ExecSafety
<1>1. PoolTypeInv /\ QueueIsTail /\ [PoolNext]_queueVars => QueueIsTail'
  BY TailStep
<1>2. PoolTypeInv /\ QueueIsTail /\ OnceInv /\ [PoolNext]_queueVars => OnceInv'
  BY OnceStep
<1>3. PoolTypeInv /\ ShutdownPhase /\ [PoolNext]_queueVars => ShutdownPhase'
  BY PhaseStep
<1>4. PoolTypeInv /\ QueueIsTail /\ OnceInv /\ ShutdownPhase /\ [PoolNext]_queueVars
        => [Executor!ExecNext]_(Executor!execVars)
  BY ExecutorStep
<1> QED BY PoolTypeInit, PoolTypeStep, TailInit, OnceInit, PhaseInit, ExecutorInit, <1>1, <1>2, <1>3,
           <1>4, PTL DEF PoolSafety, Executor!ExecSafety

----------------------------------------------------------------------------
(* The server *)

ListenPC == {"idle", "bound", "loop", "accept", "failed", "closing", "drain", "leave",
             "ending", "returned"}
StopPC   == {"idle", "checked", "close", "reset", "done"}
ConnPC   == {"new", "backlog", "queued", "serving", "closed", "reset"}

ListenTypes == lpc \in ListenPC /\ waiter \in {"waiting", "second", "ready"}
FlagTypes   == /\ ret \in BOOLEAN /\ acceptError \in BOOLEAN /\ svr_sock \in BOOLEAN
               /\ is_running \in BOOLEAN /\ is_decommissioned \in BOOLEAN
SocketTypes == kernel \in {"none", "open", "closed"} /\ closes \in Nat
StopTypes   == spc \in [Stoppers -> StopPC] /\ mine \in [Stoppers -> BOOLEAN]
ConnTypes   == cpc \in [Conns -> ConnPC] /\ left \in [Conns -> 0..KeepAliveMax]
PoolTypes   == /\ accepted \in Seq(Conns) /\ started \in Nat
               /\ finished \subseteq Conns /\ closed \in BOOLEAN

ServerTypeOK == ListenTypes /\ FlagTypes /\ SocketTypes /\ StopTypes /\ ConnTypes /\ PoolTypes

\* the count of a connection runs out only with its last answer
LeftInv == \A c \in Conns : left[c] = 0 => cpc[c] = "closed"

Open == {c \in Conns : cpc[c] \in {"queued", "serving"}}

\* a connection is in the task queue as long as it is open, and waits there unserved
QueueInv ==
  /\ started <= Len(accepted)
  /\ \A i, k \in DOMAIN accepted : accepted[i] = accepted[k] => i = k
  /\ finished \subseteq Pool!Submitted
  /\ Open \subseteq Pool!Submitted \ finished
  /\ \A i \in DOMAIN accepted : i > started => cpc[accepted[i]] = "queued"

\* inside the loop, and inside the scope of is_running_
Looping == {"loop", "accept", "failed", "closing", "drain"}

ListenInv == /\ is_running <=> lpc \in Looping \cup {"leave", "ending"}
             /\ Open # {} => lpc \in Looping

\* one thread at most has taken the socket, and while accept() did not fail by itself,
\* it is the only one that closes it
SocketInv ==
  /\ svr_sock => lpc # "idle"
  /\ \A s \in Stoppers : mine[s] => ~svr_sock /\ lpc # "idle" /\ spc[s] \notin {"idle", "checked"}
  /\ \A s, u \in Stoppers : mine[s] /\ mine[u] => s = u
  /\ ~acceptError =>
       /\ svr_sock => kernel = "open"
       /\ lpc = "failed" => ~svr_sock
       /\ lpc # "closing"
       /\ \/ closes = 0
          \/ closes = 1 /\ \E s \in Stoppers : mine[s] /\ spc[s] \in {"reset", "done"}

----------------------------------------------------------------------------
(* Types *)

LEMMA TypeInit == Init => ServerTypeOK /\ LeftInv
<1> SUFFICES ASSUME Init PROVE ServerTypeOK /\ LeftInv
  OBVIOUS
<1>1. accepted \in Seq(Conns) /\ started \in Nat /\ finished \subseteq Conns /\ closed \in BOOLEAN
  BY EmptySeq DEF Init, Pool!ExecInit
<1>2. left \in [Conns -> 0..KeepAliveMax]
  BY ServerAssumption DEF Init
<1> QED BY <1>1, <1>2, ServerAssumption DEF Init, ServerTypeOK, LeftInv, ListenPC, StopPC, ConnPC,
            ListenTypes, FlagTypes, SocketTypes, StopTypes, ConnTypes, PoolTypes

LEMMA ListenTypesStep == ListenTypes /\ [Next]_vars => ListenTypes'
<1> SUFFICES ASSUME ListenTypes, [Next]_vars PROVE ListenTypes'
  OBVIOUS
<1> USE DEF ListenTypes, ListenPC, Listening, listenVars
<1>1. CASE ListenStep
  BY <1>1 DEF ListenStep, Bind, EnterListen, LoopTest, Accept, AcceptRetry, AcceptFails,
              FailTest, FailClose, Drain, Leave, ListenEnds
<1>2. CASE WaitStep
  BY <1>2 DEF WaitStep, WaitRunning, WaitDecommissioned
<1>3. ASSUME UNCHANGED <<listenVars, waiter>> PROVE ListenTypes'
  BY <1>3
<1> QED BY <1>1, <1>2, <1>3 DEF Next, Begin, Decommission, Over, StopStep, StopTest, StopExchange,
           StopClose, StopReset, Connect, JobStep, Expire, Respond, vars

LEMMA FlagTypesStep == FlagTypes /\ [Next]_vars => FlagTypes'
<1> SUFFICES ASSUME FlagTypes, [Next]_vars PROVE FlagTypes'
  OBVIOUS
<1> USE DEF FlagTypes, listenVars, sockVars, flagVars
<1>1. CASE ListenStep
  BY <1>1 DEF ListenStep, Bind, EnterListen, LoopTest, Accept, AcceptRetry, AcceptFails,
              FailTest, FailClose, Drain, Leave, ListenEnds
<1>2. ASSUME NEW s \in Stoppers, StopStep(s) PROVE FlagTypes'
  BY <1>2 DEF StopStep, StopTest, StopExchange, StopClose, StopReset
<1>3. ASSUME UNCHANGED <<ret, acceptError, svr_sock, is_running>>,
             is_decommissioned' = is_decommissioned \/ is_decommissioned' = TRUE
      PROVE  FlagTypes'
  BY <1>3
<1> QED BY <1>1, <1>2, <1>3 DEF Next, Begin, WaitStep, WaitRunning, WaitDecommissioned,
           Decommission, Over, Connect, JobStep, Expire, Respond, vars

LEMMA SocketTypesStep == SocketTypes /\ [Next]_vars => SocketTypes'
<1> SUFFICES ASSUME SocketTypes, [Next]_vars PROVE SocketTypes'
  OBVIOUS
<1> USE DEF SocketTypes, sockVars
<1>1. CASE ListenStep
  BY <1>1 DEF ListenStep, Bind, EnterListen, LoopTest, Accept, AcceptRetry, AcceptFails,
              FailTest, FailClose, Drain, Leave, ListenEnds
<1>2. ASSUME NEW s \in Stoppers, StopStep(s) PROVE SocketTypes'
  BY <1>2 DEF StopStep, StopTest, StopExchange, StopClose, StopReset
<1>3. ASSUME UNCHANGED <<kernel, closes>> PROVE SocketTypes'
  BY <1>3
<1> QED BY <1>1, <1>2, <1>3 DEF Next, Begin, WaitStep, WaitRunning, WaitDecommissioned,
           Decommission, Over, Connect, JobStep, Expire, Respond, vars

LEMMA StopTypesStep == FlagTypes /\ StopTypes /\ [Next]_vars => StopTypes'
<1> SUFFICES ASSUME FlagTypes, StopTypes, [Next]_vars PROVE StopTypes'
  OBVIOUS
<1>1. ASSUME UNCHANGED stopVars PROVE StopTypes'
  BY <1>1 DEF stopVars, StopTypes
<1>2. ASSUME NEW s \in Stoppers, NEW p \in StopPC, spc' = [spc EXCEPT ![s] = p],
             mine' = mine \/ mine' = [mine EXCEPT ![s] = svr_sock]
      PROVE  StopTypes'
  <2>1. spc' \in [Stoppers -> StopPC]
    BY <1>2 DEF StopTypes
  <2>2. mine' \in [Stoppers -> BOOLEAN]
    BY <1>2, Zenon DEF StopTypes, FlagTypes
  <2> QED BY <2>1, <2>2 DEF StopTypes
<1>3. ASSUME NEW s \in Stoppers, StopStep(s) PROVE StopTypes'
  <2>1. \E p \in StopPC : spc' = [spc EXCEPT ![s] = p]
    BY <1>3 DEF StopStep, StopTest, StopExchange, StopClose, StopReset, Stopping, StopPC
  <2>2. mine' = mine \/ mine' = [mine EXCEPT ![s] = svr_sock]
    BY <1>3 DEF StopStep, StopTest, StopExchange, StopClose, StopReset
  <2> QED BY <1>2, <2>1, <2>2
<1>4. CASE ListenStep
  BY <1>1, <1>4 DEF ListenStep, Bind, EnterListen, LoopTest, Accept, AcceptRetry, AcceptFails,
                    FailTest, FailClose, Drain, Leave, ListenEnds
<1> QED BY <1>1, <1>3, <1>4 DEF Next, Begin, WaitStep, WaitRunning, WaitDecommissioned,
           Decommission, Over, Connect, JobStep, Expire, Respond, vars

LEMMA ConnTypesStep ==
  ASSUME ConnTypes, PoolTypes, LeftInv, QueueInv, [Next]_vars PROVE ConnTypes' /\ LeftInv'
<1> USE DEF ConnTypes, LeftInv, ConnPC
<1>1. ASSUME UNCHANGED connVars PROVE ConnTypes' /\ LeftInv'
  BY <1>1 DEF connVars
<1>2. ASSUME NEW c \in Conns, NEW p \in ConnPC, cpc' = [cpc EXCEPT ![c] = p], left' = left,
             cpc[c] # "closed" \/ p = "closed"
      PROVE  ConnTypes' /\ LeftInv'
  BY <1>2
<1>3. ASSUME Backlog \/ UNCHANGED cpc, left' = left PROVE ConnTypes' /\ LeftInv'
  BY <1>3 DEF Backlog
<1>4. ASSUME NEW c \in Conns, Accept(c) PROVE ConnTypes' /\ LeftInv'
  BY <1>2, <1>4 DEF Accept
<1>5. CASE FailClose
  BY <1>3, <1>5 DEF FailClose
<1>6. ASSUME NEW s \in Stoppers, StopStep(s) PROVE ConnTypes' /\ LeftInv'
  BY <1>1, <1>3, <1>6 DEF StopStep, StopTest, StopExchange, StopClose, StopReset, connVars
<1>7. ASSUME NEW c \in Conns, Connect(c) PROVE ConnTypes' /\ LeftInv'
  BY <1>2, <1>7 DEF Connect
<1>8. CASE Begin
  <2>1. accepted[started + 1] \in Conns /\ cpc' = [cpc EXCEPT ![accepted[started + 1]] = "serving"]
        /\ left' = left
    BY <1>8 DEF Begin, Pool!Start, PoolTypes
  <2>2. cpc[accepted[started + 1]] = "queued"
    <3>1. started + 1 \in DOMAIN accepted /\ started + 1 > started
      BY <1>8, LenProperties DEF Begin, Pool!Start, PoolTypes
    <3> QED BY <3>1 DEF QueueInv
  <2> QED BY <1>2, <2>1, <2>2
<1>9. ASSUME NEW c \in Conns, Expire(c) PROVE ConnTypes' /\ LeftInv'
  BY <1>2, <1>9 DEF Expire, Hangup
<1>10. ASSUME NEW c \in Conns, NEW hang \in BOOLEAN, Respond(c, hang) PROVE ConnTypes' /\ LeftInv'
  <2>1. left[c] \in 1..KeepAliveMax /\ cpc[c] = "serving"
    BY <1>10, ServerAssumption DEF Respond
  <2>2. CASE hang
    BY <1>2, <1>10, <2>1, <2>2 DEF Respond, Hangup
  <2>3. CASE ~hang /\ left[c] = 1
    BY <1>10, <2>1, <2>3, ServerAssumption DEF Respond, Hangup
  <2>4. CASE ~hang /\ left[c] # 1
    BY <1>10, <2>1, <2>4, ServerAssumption DEF Respond
  <2> QED BY <2>2, <2>3, <2>4
<1>11. CASE Drain
  BY <1>1, <1>11 DEF Drain
<1>12. ASSUME ListenStep, ~FailClose, ~Drain, \A c \in Conns : ~Accept(c)
       PROVE  ConnTypes' /\ LeftInv'
  BY <1>1, <1>12 DEF ListenStep, Bind, EnterListen, LoopTest, AcceptRetry, AcceptFails, FailTest,
                     Leave, ListenEnds
<1>13. CASE WaitStep \/ Decommission \/ UNCHANGED vars
  BY <1>1, <1>13 DEF WaitStep, WaitRunning, WaitDecommissioned, Decommission, vars
<1> QED BY <1>4, <1>5, <1>6, <1>7, <1>8, <1>9, <1>10, <1>11, <1>12, <1>13 DEF Next, JobStep, Over

LEMMA PoolTypesStep == PoolTypes /\ [Next]_vars => PoolTypes'
<1> SUFFICES ASSUME PoolTypes, [Next]_vars PROVE PoolTypes'
  OBVIOUS
<1> USE DEF PoolTypes
<1>1. ASSUME UNCHANGED poolVars PROVE PoolTypes'
  BY <1>1 DEF poolVars
<1>2. ASSUME NEW c \in Conns, Accept(c) PROVE PoolTypes'
  <2>1. accepted' \in Seq(Conns)
    BY <1>2, AppendProperties DEF Accept, Pool!Submit
  <2> QED BY <1>2, <2>1 DEF Accept, Pool!Submit
<1>3. CASE Drain
  BY <1>3 DEF Drain, Pool!Close
<1>4. CASE Begin
  BY <1>4 DEF Begin, Pool!Start
<1>5. ASSUME NEW c \in Conns, Hangup(c) PROVE PoolTypes'
  BY <1>5 DEF Hangup, Pool!Finish
<1>6. ASSUME NEW c \in Conns, JobStep(c) PROVE PoolTypes'
  BY <1>1, <1>5, <1>6 DEF JobStep, Expire, Respond
<1> QED BY <1>1, <1>2, <1>3, <1>4, <1>6
        DEF Next, ListenStep, Bind, EnterListen, LoopTest, AcceptRetry, AcceptFails, FailTest,
            FailClose, Leave, ListenEnds, StopStep, StopTest, StopExchange, StopClose, StopReset,
            WaitStep, WaitRunning, WaitDecommissioned, Decommission, Connect, Over, vars

LEMMA TypeStep == ServerTypeOK /\ LeftInv /\ QueueInv /\ [Next]_vars => ServerTypeOK' /\ LeftInv'
BY ListenTypesStep, FlagTypesStep, SocketTypesStep, StopTypesStep, ConnTypesStep, PoolTypesStep
   DEF ServerTypeOK

----------------------------------------------------------------------------
(* The task queue *)

LEMMA QueueInit == Init => QueueInv
  BY DEF Init, QueueInv, Open, Pool!ExecInit, Pool!Submitted

\* a job ends with its connection closed
LEMMA HangupQueue ==
  ASSUME ServerTypeOK, QueueInv, NEW c \in Conns, cpc[c] = "serving", Hangup(c)
  PROVE  QueueInv' /\ Open' \subseteq Open
<1>1. /\ cpc' = [cpc EXCEPT ![c] = "closed"] /\ finished' = finished \cup {c}
      /\ accepted' = accepted /\ started' = started /\ c \in Open
  BY DEF Hangup, Pool!Finish, Open
<1>2. Open' = Open \ {c}
  BY <1>1 DEF Open, ServerTypeOK, ConnTypes
<1>3. Pool!Submitted' = Pool!Submitted
  BY <1>1 DEF Pool!Submitted
<1>4. \A i \in DOMAIN accepted : i > started => accepted[i] # c /\ accepted[i] \in Conns
  BY DEF QueueInv, ServerTypeOK, PoolTypes
<1> QED BY <1>1, <1>2, <1>3, <1>4 DEF QueueInv, ServerTypeOK, PoolTypes

LEMMA QueueStep ==
  ASSUME ServerTypeOK, QueueInv, [Next]_vars PROVE QueueInv'
<1> USE DEF ServerTypeOK, ConnTypes, PoolTypes
<1>1. ASSUME UNCHANGED <<poolVars, cpc>> PROVE QueueInv'
  BY <1>1 DEF poolVars, QueueInv, Open, Pool!Submitted
<1>2. ASSUME NEW c \in Conns, Accept(c) PROVE QueueInv'
  <2>1. /\ cpc[c] = "backlog" /\ cpc' = [cpc EXCEPT ![c] = "queued"]
        /\ accepted' = Append(accepted, c) /\ c \notin Pool!Submitted
        /\ started' = started /\ finished' = finished
    BY <1>2 DEF Accept, Pool!Submit
  <2>2. /\ Len(accepted') = Len(accepted) + 1 /\ Len(accepted) \in Nat
        /\ DOMAIN accepted' = 1..Len(accepted) + 1 /\ DOMAIN accepted = 1..Len(accepted)
        /\ \A i \in 1..Len(accepted) : accepted'[i] = accepted[i] /\ accepted[i] \in Conns
        /\ accepted'[Len(accepted) + 1] = c
    BY <2>1, AppendProperties, LenProperties
  <2>3. Pool!Submitted' = Pool!Submitted \cup {c}
    BY <2>2, SMTT(30) DEF Pool!Submitted
  <2>4. Open' = Open \cup {c}
    BY <2>1 DEF Open
  <2>5. \A i \in 1..Len(accepted) : accepted[i] # c
    BY <2>1, <2>2 DEF Pool!Submitted
  <2>6. \A i, k \in DOMAIN accepted' : accepted'[i] = accepted'[k] => i = k
    BY <2>2, <2>5 DEF QueueInv
  <2>7. \A i \in DOMAIN accepted' : i > started => cpc'[accepted'[i]] = "queued"
    BY <2>1, <2>2, <2>5 DEF QueueInv
  <2> QED BY <2>1, <2>2, <2>3, <2>4, <2>6, <2>7 DEF QueueInv
<1>3. ASSUME Backlog \/ UNCHANGED cpc, UNCHANGED poolVars PROVE QueueInv'
  <2>1. Open' = Open /\ Pool!Submitted' = Pool!Submitted
    BY <1>3 DEF Backlog, poolVars, Open, Pool!Submitted
  <2>2. \A i \in DOMAIN accepted : i > started => cpc'[accepted[i]] = "queued"
    BY <1>3 DEF Backlog, QueueInv
  <2> QED BY <1>3, <2>1, <2>2 DEF poolVars, QueueInv
<1>4. CASE Drain
  BY <1>4 DEF Drain, Pool!Close, connVars, QueueInv, Open, Pool!Submitted
<1>5. ASSUME NEW c \in Conns, Connect(c) PROVE QueueInv'
  <2>1. cpc' = [cpc EXCEPT ![c] = "backlog"] /\ cpc[c] = "new" /\ UNCHANGED poolVars
    BY <1>5 DEF Connect
  <2>2. Open' = Open /\ Pool!Submitted' = Pool!Submitted
    BY <2>1 DEF Open, poolVars, Pool!Submitted
  <2>3. \A i \in DOMAIN accepted : i > started => cpc'[accepted[i]] = "queued"
    BY <2>1 DEF QueueInv
  <2> QED BY <2>1, <2>2, <2>3 DEF poolVars, QueueInv
<1>6. CASE Begin
  <2> DEFINE c == accepted[started + 1]
  <2>1. /\ started < Len(accepted) /\ started' = started + 1
        /\ cpc' = [cpc EXCEPT ![c] = "serving"] /\ accepted' = accepted /\ finished' = finished
    BY <1>6 DEF Begin, Pool!Start
  <2>2. Len(accepted) \in Nat /\ started + 1 \in DOMAIN accepted /\ c \in Conns
    BY <2>1, LenProperties
  <2>3. cpc[c] = "queued"
    BY <2>1, <2>2 DEF QueueInv
  <2>4. Open' = Open /\ Pool!Submitted' = Pool!Submitted
    BY <2>1, <2>2, <2>3 DEF Open, Pool!Submitted
  <2>5. \A i \in DOMAIN accepted : i > started + 1 => cpc'[accepted[i]] = "queued"
    BY <2>1, <2>2 DEF QueueInv
  <2> QED BY <2>1, <2>2, <2>4, <2>5 DEF QueueInv
<1>7. ASSUME NEW c \in Conns, cpc[c] = "serving", Hangup(c) PROVE QueueInv'
  BY <1>7, HangupQueue
<1>8. ASSUME NEW c \in Conns, JobStep(c) PROVE QueueInv'
  BY <1>1, <1>7, <1>8 DEF JobStep, Expire, Respond, poolVars
<1>9. ASSUME NEW s \in Stoppers, StopStep(s) PROVE QueueInv'
  BY <1>3, <1>9 DEF StopStep, StopTest, StopExchange, StopClose, StopReset, connVars
<1>10. CASE FailClose
  BY <1>3, <1>10 DEF FailClose
<1>11. ASSUME ListenStep, ~FailClose, ~Drain, \A c \in Conns : ~Accept(c) PROVE QueueInv'
  BY <1>1, <1>11 DEF ListenStep, Bind, EnterListen, LoopTest, AcceptRetry, AcceptFails, FailTest,
                     Leave, ListenEnds, connVars
<1>12. CASE WaitStep \/ Decommission \/ UNCHANGED vars
  BY <1>1, <1>12 DEF WaitStep, WaitRunning, WaitDecommissioned, Decommission, vars, connVars
<1> QED BY <1>2, <1>4, <1>5, <1>6, <1>8, <1>9, <1>10, <1>11, <1>12 DEF Next, Over

LEMMA QueueAlways == SafetySpec => [](ServerTypeOK /\ LeftInv /\ QueueInv)
<1>1. ServerTypeOK /\ QueueInv /\ [Next]_vars => QueueInv'
  BY QueueStep
<1> QED BY TypeInit, QueueInit, TypeStep, <1>1, PTL DEF SafetySpec

\* The server is well typed; the count of a kept connection never runs below zero, since
\* the connection is closed with its last answer (httplib.h:4093-4177, 9281-9305).
THEOREM ServerTypes == SafetySpec => [](ServerTypeOK /\ LeftInv)
BY QueueAlways, PTL

LEMMA SubmitsOnly ==
  ASSUME ServerTypeOK, [Next]_vars
  PROVE  [Pool!ExecNext]_(Pool!execVars)
<1> USE DEF Pool!ExecNext
<1>1. ASSUME NEW c \in Conns, Accept(c) PROVE Pool!Submit(c)
  BY <1>1 DEF Accept
<1>2. CASE Begin
  BY <1>2 DEF Begin
<1>3. CASE Drain
  BY <1>3 DEF Drain
<1>4. ASSUME NEW c \in Conns, JobStep(c) PROVE Pool!Finish(c) \/ UNCHANGED Pool!execVars
  BY <1>4 DEF JobStep, Expire, Respond, Hangup, poolVars, Pool!execVars
<1>5. ASSUME UNCHANGED poolVars PROVE UNCHANGED Pool!execVars
  BY <1>5 DEF poolVars, Pool!execVars
<1> QED BY <1>1, <1>2, <1>3, <1>4, <1>5
        DEF Next, ListenStep, Bind, EnterListen, LoopTest, AcceptRetry, AcceptFails, FailTest,
            FailClose, Leave, ListenEnds, StopStep, StopTest, StopExchange, StopClose, StopReset,
            WaitStep, WaitRunning, WaitDecommissioned, Decommission, Connect, Over, vars

\* What the server does to its task queue is what the contract allows its one owner: a
\* connection is submitted once, nothing after shutdown(), which comes when all have ended
\* (httplib.h:8700-8765).  ThreadPoolProofs shows that the pool keeps the other side.
THEOREM ServerUsesExecutor == SafetySpec => Pool!ExecSafety
<1>1. Init => Pool!ExecInit
  BY DEF Init
<1>2. ServerTypeOK /\ [Next]_vars => [Pool!ExecNext]_(Pool!execVars)
  BY SubmitsOnly
<1> QED BY QueueAlways, <1>1, <1>2, PTL DEF SafetySpec, Pool!ExecSafety

----------------------------------------------------------------------------
(* listen() returns when its connections are closed *)

LEMMA ListenInit == Init => ListenInv
  BY DEF Init, ListenInv, Open, Looping

\* nothing is open any more once the queue is shut down
LEMMA DrainCloses ==
  ASSUME QueueInv, Drain PROVE Open' = {}
<1>1. Pool!Submitted = finished /\ cpc' = cpc
  BY DEF Drain, Pool!Close, connVars
<1> QED BY <1>1 DEF QueueInv, Open

LEMMA ListenStepInv ==
  ASSUME ServerTypeOK, QueueInv, ListenInv, [Next]_vars PROVE ListenInv'
<1> USE DEF ListenInv, Looping, Listening
<1>1. ASSUME UNCHANGED <<lpc, is_running>>, Open' \subseteq Open PROVE ListenInv'
  BY <1>1
<1>2. ASSUME UNCHANGED cpc PROVE Open' = Open
  BY <1>2 DEF Open
<1>3. ASSUME Backlog PROVE Open' = Open
  BY <1>3 DEF Backlog, Open, ServerTypeOK, ConnTypes
<1>4. ASSUME Bind \/ EnterListen \/ LoopTest \/ AcceptRetry \/ AcceptFails \/ FailTest \/ Leave
             \/ ListenEnds
      PROVE  ListenInv'
  <2>1. Open' = Open
    BY <1>2, <1>4 DEF Bind, EnterListen, LoopTest, AcceptRetry, AcceptFails, FailTest, Leave,
                      ListenEnds, connVars
  <2> QED BY <1>4, <2>1 DEF Bind, EnterListen, LoopTest, AcceptRetry, AcceptFails, FailTest, Leave,
                            ListenEnds, flagVars
<1>5. ASSUME NEW c \in Conns, Accept(c) PROVE ListenInv'
  BY <1>5 DEF Accept, flagVars
<1>6. CASE FailClose
  BY <1>2, <1>3, <1>6 DEF FailClose, flagVars
<1>7. CASE Drain
  BY <1>7, DrainCloses DEF Drain, flagVars
<1>8. ASSUME NEW s \in Stoppers, StopStep(s) PROVE ListenInv'
  <2>1. Open' = Open
    BY <1>2, <1>3, <1>8 DEF StopStep, StopTest, StopExchange, StopClose, StopReset, connVars
  <2> QED BY <1>1, <1>8, <2>1
          DEF StopStep, StopTest, StopExchange, StopClose, StopReset, listenVars, flagVars
<1>9. ASSUME NEW c \in Conns, Connect(c) PROVE ListenInv'
  <2>1. Open' = Open
    BY <1>9 DEF Connect, Open, ServerTypeOK, ConnTypes
  <2> QED BY <1>1, <1>9, <2>1 DEF Connect, listenVars, flagVars
<1>10. CASE Begin
  <2> DEFINE c == accepted[started + 1]
  <2>1. started + 1 \in DOMAIN accepted /\ started + 1 > started
    BY <1>10, LenProperties DEF Begin, Pool!Start, ServerTypeOK, PoolTypes
  <2>2. cpc[c] = "queued" /\ cpc' = [cpc EXCEPT ![c] = "serving"]
    BY <1>10, <2>1 DEF Begin, QueueInv
  <2>3. Open' = Open
    BY <2>2 DEF Open, ServerTypeOK, ConnTypes
  <2> QED BY <1>1, <1>10, <2>3 DEF Begin, listenVars, flagVars
<1>11. ASSUME NEW c \in Conns, JobStep(c) PROVE ListenInv'
  <2>1. Open' \subseteq Open
    BY <1>2, <1>11, HangupQueue DEF JobStep, Expire, Respond
  <2> QED BY <1>1, <1>11, <2>1 DEF JobStep, Expire, Respond, listenVars, flagVars
<1>12. CASE WaitStep \/ Decommission \/ UNCHANGED vars
  BY <1>1, <1>2, <1>12 DEF WaitStep, WaitRunning, WaitDecommissioned, Decommission, vars,
                           listenVars, flagVars, connVars
<1> QED BY <1>4, <1>5, <1>6, <1>7, <1>8, <1>9, <1>10, <1>11, <1>12 DEF Next, ListenStep, Over

\* listen() does not come to its end, nor is_running() to false, while a connection it
\* has accepted is open, also one accepted while stop() ran (httplib.h:8700-8765).
THEOREM StopsGracefully == SafetySpec => []GracefulStop
<1>1. ServerTypeOK /\ QueueInv /\ ListenInv /\ [Next]_vars => ListenInv'
  BY ListenStepInv
<1>2. ListenInv => GracefulStop
  BY DEF ListenInv, GracefulStop, Open, Looping
<1> QED BY QueueAlways, ListenInit, <1>1, <1>2, PTL DEF SafetySpec

----------------------------------------------------------------------------
(* The listening descriptor *)

LEMMA SocketInit == Init => SocketInv
  BY DEF Init, SocketInv

LEMMA SocketStep ==
  ASSUME ServerTypeOK, ListenInv, SocketInv, [Next]_vars PROVE SocketInv'
<1> USE DEF ServerTypeOK, SocketInv, Listening, Stopping, listenVars, sockVars, stopVars
<1>1. ASSUME UNCHANGED <<lpc, acceptError, sockVars, stopVars>> PROVE SocketInv'
  BY <1>1
<1>2. CASE Bind
  BY <1>2 DEF Bind
<1>3. ASSUME EnterListen \/ LoopTest \/ AcceptRetry \/ Drain \/ Leave \/ ListenEnds
      PROVE  SocketInv'
  BY <1>3 DEF EnterListen, LoopTest, AcceptRetry, Drain, Leave, ListenEnds
<1>4. ASSUME NEW c \in Conns, Accept(c) PROVE SocketInv'
  BY <1>4 DEF Accept
<1>5. CASE AcceptFails
  BY <1>5 DEF AcceptFails
<1>6. CASE FailTest
  BY <1>6 DEF FailTest
<1>7. CASE FailClose
  BY <1>7 DEF FailClose
<1>8. ASSUME NEW s \in Stoppers, StopTest(s) \/ StopReset(s) PROVE SocketInv'
  BY <1>8 DEF StopTest, StopReset, StopTypes
<1>9. ASSUME NEW s \in Stoppers, StopExchange(s) PROVE SocketInv'
  BY <1>9 DEF StopExchange, StopTypes
<1>10. ASSUME NEW s \in Stoppers, StopClose(s) PROVE SocketInv'
  BY <1>10 DEF StopClose, StopTypes
<1> QED BY <1>1, <1>2, <1>3, <1>4, <1>5, <1>6, <1>7, <1>8, <1>9, <1>10
        DEF Next, ListenStep, StopStep, WaitStep, WaitRunning, WaitDecommissioned, Decommission,
            Begin, Connect, JobStep, Expire, Respond, Over, vars

\* The descriptor is closed once at most, however many threads call stop(), unless
\* accept() failed by itself (httplib.h:8150-8160, 8733-8741).
THEOREM ClosesOnce == SafetySpec => []ClosedOnce
<1>1. ServerTypeOK /\ QueueInv /\ ListenInv /\ [Next]_vars => ListenInv'
  BY ListenStepInv
<1>2. ServerTypeOK /\ ListenInv /\ SocketInv /\ [Next]_vars => SocketInv'
  BY SocketStep
<1>3. SocketInv => ClosedOnce
  BY DEF SocketInv, ClosedOnce
<1> QED BY QueueAlways, ListenInit, SocketInit, <1>1, <1>2, <1>3, PTL DEF SafetySpec

----------------------------------------------------------------------------
(* The beast benchmark: its requests, and who has counted which *)

StatsOf(n) == [requests_sent |-> n, bytes_transferred |-> Size * n]

\* the requests of a thread, and of the first threads, that were answered
OkOf(t)   == {r \in Requests : r[1] = t /\ outcome[r] = "ok"}
OkUpTo(n) == {r \in Requests : r[1] <= n /\ outcome[r] = "ok"}

Sessions == {"none", "backlog", "reading", "read", "writing", "written", "dead", "closed", "dropped"}

BeastTypes == /\ concurrent \in BOOLEAN
              /\ step \in [ThreadIds -> {"next", "waiting", "exited"}]
              /\ sent \in [ThreadIds -> 0..requests_per_thread]
              /\ thread_stat \in [ThreadIds -> Stats] /\ thread_stats \in [ThreadIds -> Stats]
              /\ total_stats \in Stats
              /\ outcome \in [Requests -> {"pending", "ok", "failed"}]
              /\ summary \in Stats \cup {NoSummary}
              /\ acceptor \in {"armed", "unserved", "gone"}
              /\ session \in [Requests -> Sessions]

\* a thread settles its requests one after the other
SettledInTurn ==
  /\ \A r \in Requests : /\ r[2] > sent[r[1]] => outcome[r] = "pending"
                         /\ r[2] < sent[r[1]] => outcome[r] # "pending"
                         /\ r[2] = sent[r[1]] => (outcome[r] = "pending" <=> step[r[1]] = "waiting")
  /\ \A t \in ThreadIds : /\ step[t] = "waiting" => sent[t] >= 1
                          /\ step[t] = "exited" => sent[t] = requests_per_thread
  /\ summary # NoSummary => \A t \in ThreadIds : step[t] = "exited"

\* where the successes of each client are counted
CountedWhere ==
  /\ concurrent => \A t \in ThreadIds :
       /\ thread_stat[t] = StatsOf(Cardinality(OkOf(t)))
       /\ step[t] = "exited" => thread_stats[t] = thread_stat[t]
  /\ concurrent /\ summary = NoSummary => total_stats = NoStats
  /\ ~concurrent =>
       /\ \A t \in ThreadIds : thread_stat[t] = NoStats /\ thread_stats[t] = NoStats
       /\ summary = NoSummary => total_stats = StatsOf(Cardinality(With("ok")))

BeastInv == BeastTypes /\ SettledInTurn /\ CountedWhere

----------------------------------------------------------------------------
(* Sums over the threads *)

LEMMA LeastNumber ==
  ASSUME NEW T \in SUBSET Nat, T # {}
  PROVE  \E x \in T : \A y \in T : x <= y
<1>1. PICK x \in T : \A y \in T : ~(<<y, x>> \in OpToRel(<, Nat))
  BY NatLessThanWellFounded, WFMin
<1>2. \A y \in T : ~(y < x)
  BY <1>1 DEF OpToRel
<1>3. \A y \in T : y \in Nat
  OBVIOUS
<1>4. \A y \in T : x <= y
  BY <1>2, <1>3
<1> QED BY <1>4

LEMMA AllNumbers ==
  ASSUME NEW T \in SUBSET Nat, 0 \in T, \A n \in T : n + 1 \in T
  PROVE  T = Nat
<1>1. SUFFICES ASSUME Nat \ T # {} PROVE FALSE
  OBVIOUS
<1>2. PICK x \in Nat \ T : \A y \in Nat \ T : x <= y
  BY <1>1, LeastNumber
<1>3. x # 0 /\ x - 1 \in Nat /\ (x - 1) + 1 = x /\ ~(x <= x - 1)
  BY <1>2
<1> QED BY <1>2, <1>3

LEMMA PlusIsStats ==
  ASSUME NEW a \in Stats, NEW b \in Stats
  PROVE  Plus(a, b) \in Stats
<1>1. /\ a.requests_sent + b.requests_sent \in Nat
      /\ a.bytes_transferred + b.bytes_transferred \in Nat
  BY DEF Stats
<1> QED BY <1>1 DEF Stats, Plus

\* f has the totals after each of the first threads
AddsUp(f, n) == /\ f \in [0..n -> Stats] /\ f[0] = total_stats
                /\ \A i \in 1..n : f[i] = Plus(f[i - 1], thread_stats[i])

LEMMA TotalsExist ==
  ASSUME BeastTypes
  PROVE  \E f : AddsUp(f, thread_count)
<1> DEFINE T == {n \in Nat : n <= thread_count => \E f : AddsUp(f, n)}
<1>1. thread_count \in Nat /\ total_stats \in Stats /\ \A i \in 1..thread_count : thread_stats[i] \in Stats
  BY BeastAssumption DEF BeastTypes, ThreadIds
<1>2. 0 \in T
  <2>1. AddsUp([i \in 0..0 |-> total_stats], 0)
    BY <1>1 DEF AddsUp
  <2> QED BY <2>1
<1>3. ASSUME NEW n \in T PROVE n + 1 \in T
  <2>1. SUFFICES ASSUME n + 1 <= thread_count PROVE \E f : AddsUp(f, n + 1)
    OBVIOUS
  <2>2. n \in Nat /\ n <= thread_count /\ n + 1 \in 1..thread_count
    BY <1>1, <2>1
  <2>3. PICK f : AddsUp(f, n)
    BY <2>2
  <2> DEFINE last == Plus(f[n], thread_stats[n + 1])
             g == [i \in 0..n + 1 |-> IF i <= n THEN f[i] ELSE last]
  <2>4. /\ f \in [0..n -> Stats] /\ f[0] = total_stats
        /\ \A i \in 1..n : f[i] = Plus(f[i - 1], thread_stats[i])
    BY <2>3 DEF AddsUp
  <2>5. last \in Stats
    <3>1. n \in 0..n
      BY <2>2
    <3> QED BY <1>1, <2>2, <2>4, <3>1, PlusIsStats
  <2>6. g \in [0..n + 1 -> Stats]
    <3>1. \A i \in 0..n + 1 : i <= n => i \in 0..n
      BY <2>2
    <3> HIDE DEF last
    <3> QED BY <2>4, <2>5, <3>1
  <2>7. g[0] = total_stats
    <3>1. 0 \in 0..n + 1 /\ 0 <= n
      BY <2>2
    <3> HIDE DEF last
    <3> QED BY <2>4, <3>1
  <2>8. ASSUME NEW i \in 1..n + 1 PROVE g[i] = Plus(g[i - 1], thread_stats[i])
    <3>1. i \in 0..n + 1 /\ i - 1 \in 0..n + 1 /\ i - 1 <= n
      BY <2>2
    <3>2. g[i - 1] = f[i - 1]
      BY <3>1
    <3>3. CASE i <= n
      <4>1. i \in 1..n /\ g[i] = f[i]
        BY <3>1, <3>3
      <4> QED BY <2>4, <3>2, <4>1
    <3>4. CASE ~(i <= n)
      <4>1. i = n + 1 /\ i - 1 = n
        BY <2>2, <3>4
      <4>2. g[i] = last
        BY <3>1, <3>4
      <4> QED BY <3>2, <4>1, <4>2
    <3> QED BY <3>3, <3>4
  <2> HIDE DEF g
  <2> QED BY <2>6, <2>7, <2>8 DEF AddsUp
<1>4. T = Nat
  <2>1. T \in SUBSET Nat
    OBVIOUS
  <2> HIDE DEF T
  <2> QED BY <1>2, <1>3, <2>1, AllNumbers
<1> QED BY <1>1, <1>4

LEMMA AddedIs ==
  ASSUME BeastTypes
  PROVE  /\ Added[0] = total_stats
         /\ \A n \in 1..thread_count : Added[n] = Plus(Added[n - 1], thread_stats[n])
<1> DEFINE g == CHOOSE h : h = [n \in 0..thread_count |->
                  IF n = 0 THEN total_stats ELSE Plus(h[n - 1], thread_stats[n])]
<1>1. PICK f : AddsUp(f, thread_count)
  BY TotalsExist
<1>2. f = [n \in 0..thread_count |-> IF n = 0 THEN total_stats ELSE Plus(f[n - 1], thread_stats[n])]
  <2>1. \A n \in 0..thread_count :
          f[n] = IF n = 0 THEN total_stats ELSE Plus(f[n - 1], thread_stats[n])
    BY <1>1, BeastAssumption DEF AddsUp
  <2> QED BY <1>1, <2>1 DEF AddsUp
<1>3. g = [n \in 0..thread_count |-> IF n = 0 THEN total_stats ELSE Plus(g[n - 1], thread_stats[n])]
  BY <1>2
<1>4. Added = g
  BY DEF Added
<1> HIDE DEF g
<1>5. \A n \in 0..thread_count :
        g[n] = IF n = 0 THEN total_stats ELSE Plus(g[n - 1], thread_stats[n])
  BY <1>3
<1>6. 0 \in 0..thread_count /\ \A n \in 1..thread_count : n \in 0..thread_count /\ n # 0
  BY BeastAssumption
<1> QED BY <1>4, <1>5, <1>6

----------------------------------------------------------------------------
(* Sets of requests *)

LEMMA BeastRequestsFinite == IsFiniteSet(Requests)
<1>1. IsFiniteSet(ThreadIds) /\ IsFiniteSet(1..requests_per_thread)
  BY BeastAssumption, FS_Interval DEF ThreadIds
<1> QED BY <1>1, FS_Product DEF Requests

LEMMA BeastSets ==
  ASSUME NEW S \in SUBSET Requests
  PROVE  /\ IsFiniteSet(S) /\ Cardinality(S) \in Nat
         /\ \A r \in Requests : r \notin S => Cardinality(S \cup {r}) = Cardinality(S) + 1
<1>1. IsFiniteSet(S)
  BY BeastRequestsFinite, FS_Subset
<1>2. Cardinality(S) \in Nat
  BY <1>1, FS_CardinalityType
<1>3. \A r \in Requests : r \notin S => Cardinality(S \cup {r}) = Cardinality(S) + 1
  BY <1>1, FS_AddElement
<1> QED BY <1>1, <1>2, <1>3

LEMMA OfBytes ==
  ASSUME NEW a \in Nat, NEW b \in Nat
  PROVE  /\ Size * a \in Nat
         /\ Size * (a + b) = Size * a + Size * b
         /\ Size * 1 = Size /\ Size * 0 = 0
<1>1. Size \in Nat
  BY BeastAssumption
<1> QED BY <1>1, SMT

LEMMA StatsAdd ==
  ASSUME NEW a \in Nat, NEW b \in Nat
  PROVE  /\ StatsOf(a) \in Stats /\ Plus(StatsOf(a), StatsOf(b)) = StatsOf(a + b)
         /\ One = StatsOf(1) /\ NoStats = StatsOf(0)
<1>1. StatsOf(a) \in Stats
  BY OfBytes DEF StatsOf, Stats
<1>2. Plus(StatsOf(a), StatsOf(b)) = StatsOf(a + b)
  BY OfBytes DEF StatsOf, Plus
<1>3. One = StatsOf(1) /\ NoStats = StatsOf(0)
  BY OfBytes DEF StatsOf, One, NoStats
<1> QED BY <1>1, <1>2, <1>3

\* when nothing is pending each request is a success or a failure
LEMMA BeastPartition ==
  ASSUME BeastTypes, With("pending") = {}
  PROVE  total_requests = Cardinality(With("ok")) + Cardinality(With("failed"))
<1>1. With("ok") \cup With("failed") = Requests /\ With("ok") \cap With("failed") = {}
  BY DEF BeastTypes, With
<1>2. With("ok") \in SUBSET Requests /\ With("failed") \in SUBSET Requests
  BY DEF With
<1>3. IsFiniteSet(With("ok")) /\ IsFiniteSet(With("failed"))
  BY <1>2, BeastSets
<1>4. Cardinality(Requests)
        = Cardinality(With("ok")) + Cardinality(With("failed"))
          - Cardinality(With("ok") \cap With("failed"))
  BY ONLY <1>1, <1>3, FS_Union
<1>5. Cardinality(With("ok") \cap With("failed")) = 0
  BY <1>1, FS_EmptySet
<1>6. Cardinality(With("ok")) \in Nat /\ Cardinality(With("failed")) \in Nat
  BY <1>2, BeastSets
<1> QED BY <1>4, <1>5, <1>6 DEF total_requests

\* the threads' successes, added up, are all successes
LEMMA AddedIsTruth ==
  ASSUME BeastInv, concurrent, summary = NoSummary, \A t \in ThreadIds : step[t] = "exited"
  PROVE  Added[thread_count] = StatsOf(Cardinality(With("ok")))
<1> DEFINE T == {n \in Nat : n <= thread_count => Added[n] = StatsOf(Cardinality(OkUpTo(n)))}
<1>0. thread_count \in Nat
  BY BeastAssumption
<1>1. \A r \in Requests : r[1] \in 1..thread_count
  BY DEF Requests, ThreadIds
<1>2. 0 \in T
  <2>1. OkUpTo(0) = {}
    BY <1>0, <1>1 DEF OkUpTo
  <2>2. Cardinality(OkUpTo(0)) = 0
    BY <2>1, FS_EmptySet
  <2>3. Added[0] = total_stats /\ total_stats = NoStats
    BY AddedIs DEF BeastInv, CountedWhere
  <2> QED BY <2>2, <2>3, StatsAdd
<1>3. ASSUME NEW n \in T PROVE n + 1 \in T
  <2>1. SUFFICES ASSUME n + 1 <= thread_count
                 PROVE  Added[n + 1] = StatsOf(Cardinality(OkUpTo(n + 1)))
    OBVIOUS
  <2>2. n \in Nat /\ n + 1 \in 1..thread_count /\ (n + 1) - 1 = n
        /\ Added[n] = StatsOf(Cardinality(OkUpTo(n)))
    BY <1>0, <2>1
  <2>3. Added[n + 1] = Plus(Added[n], thread_stats[n + 1])
    <3>1. Added[n + 1] = Plus(Added[(n + 1) - 1], thread_stats[n + 1])
      BY <2>2, AddedIs DEF BeastInv
    <3> QED BY <2>2, <3>1
  <2>4. thread_stats[n + 1] = StatsOf(Cardinality(OkOf(n + 1)))
    BY <2>2 DEF BeastInv, CountedWhere, ThreadIds
  <2>5. OkUpTo(n + 1) = OkUpTo(n) \cup OkOf(n + 1) /\ OkUpTo(n) \cap OkOf(n + 1) = {}
    BY <1>1, <2>2 DEF OkUpTo, OkOf
  <2>6. OkUpTo(n) \in SUBSET Requests /\ OkOf(n + 1) \in SUBSET Requests
    BY DEF OkUpTo, OkOf
  <2>7. /\ IsFiniteSet(OkUpTo(n)) /\ IsFiniteSet(OkOf(n + 1))
        /\ Cardinality(OkUpTo(n)) \in Nat /\ Cardinality(OkOf(n + 1)) \in Nat
    BY <2>6, BeastSets
  <2>8. Cardinality(OkUpTo(n) \cup OkOf(n + 1))
          = Cardinality(OkUpTo(n)) + Cardinality(OkOf(n + 1))
            - Cardinality(OkUpTo(n) \cap OkOf(n + 1))
    BY ONLY <2>7, FS_Union
  <2>9. Cardinality(OkUpTo(n) \cap OkOf(n + 1)) = 0
    BY <2>5, FS_EmptySet
  <2>10. Cardinality(OkUpTo(n + 1)) = Cardinality(OkUpTo(n)) + Cardinality(OkOf(n + 1))
    <3>1. Cardinality(OkUpTo(n + 1)) = Cardinality(OkUpTo(n) \cup OkOf(n + 1))
      BY <2>5
    <3>2. Cardinality(OkUpTo(n) \cup OkOf(n + 1)) = Cardinality(OkUpTo(n)) + Cardinality(OkOf(n + 1))
      BY ONLY <2>7, <2>8, <2>9
    <3> QED BY <3>1, <3>2
  <2> QED BY <2>2, <2>3, <2>4, <2>7, <2>10, StatsAdd
<1>4. T = Nat
  <2>1. T \in SUBSET Nat
    OBVIOUS
  <2> HIDE DEF T
  <2> QED BY <1>2, <1>3, <2>1, AllNumbers
<1>5. Added[thread_count] = StatsOf(Cardinality(OkUpTo(thread_count)))
  BY <1>0, <1>4
<1>6. OkUpTo(thread_count) = With("ok")
  BY <1>0, <1>1 DEF OkUpTo, With
<1> QED BY <1>5, <1>6

\* the regular client adds nothing after its last request
LEMMA AddedNothing ==
  ASSUME BeastInv, ~concurrent
  PROVE  Added[thread_count] = total_stats
<1> DEFINE T == {n \in Nat : n <= thread_count => Added[n] = total_stats}
<1>0. thread_count \in Nat
  BY BeastAssumption
<1>1. 0 \in T
  BY AddedIs DEF BeastInv
<1>2. ASSUME NEW n \in T PROVE n + 1 \in T
  <2>1. SUFFICES ASSUME n + 1 <= thread_count PROVE Added[n + 1] = total_stats
    OBVIOUS
  <2>2. n \in Nat /\ n + 1 \in 1..thread_count /\ (n + 1) - 1 = n /\ Added[n] = total_stats
    BY <1>0, <2>1
  <2>3. Added[n + 1] = Plus(Added[(n + 1) - 1], thread_stats[n + 1])
    BY <2>2, AddedIs DEF BeastInv
  <2>4. thread_stats[n + 1] = NoStats
    BY <2>2 DEF BeastInv, CountedWhere, ThreadIds
  <2>5. Plus(total_stats, NoStats) = total_stats
    <3>1. total_stats \in Stats
      BY DEF BeastInv, BeastTypes
    <3>2. PICK a \in Nat, b \in Nat : total_stats = [requests_sent |-> a, bytes_transferred |-> b]
      BY <3>1 DEF Stats
    <3>3. a + 0 = a /\ b + 0 = b
      BY <3>2
    <3> QED BY <3>2, <3>3 DEF Plus, NoStats
  <2> QED BY <2>2, <2>3, <2>4, <2>5
<1>3. T = Nat
  <2>1. T \in SUBSET Nat
    OBVIOUS
  <2> HIDE DEF T
  <2> QED BY <1>1, <1>2, <2>1, AllNumbers
<1> QED BY <1>0, <1>3

\* what is printed
LEMMA ReportTrue ==
  ASSUME BeastInv, Report
  PROVE  Added[thread_count] = StatsOf(Cardinality(With("ok")))
<1>1. summary = NoSummary /\ \A t \in ThreadIds : step[t] = "exited"
  BY DEF Report
<1>2. CASE concurrent
  BY <1>1, <1>2, AddedIsTruth
<1>3. CASE ~concurrent
  BY <1>1, <1>3, AddedNothing DEF BeastInv, CountedWhere
<1> QED BY <1>2, <1>3

----------------------------------------------------------------------------
(* The invariant of the benchmark *)

LEMMA BeastStarts == BeastInit => BeastInv
<1> SUFFICES ASSUME BeastInit PROVE BeastInv
  OBVIOUS
<1>1. BeastTypes
  <2>1. NoStats \in Stats
    BY StatsAdd
  <2>2. 0 \in 0..requests_per_thread
    BY BeastAssumption
  <2> QED BY <2>1, <2>2 DEF BeastInit, BeastTypes, Sessions
<1>2. SettledInTurn
  <2>1. \A r \in Requests : r[1] \in ThreadIds /\ r[2] \in Nat /\ r[2] > 0
    BY BeastAssumption DEF Requests
  <2> QED BY <2>1 DEF BeastInit, SettledInTurn
<1>3. CountedWhere
  <2>1. With("ok") = {} /\ \A t \in ThreadIds : OkOf(t) = {}
    BY DEF BeastInit, With, OkOf
  <2>2. NoStats = StatsOf(Cardinality({}))
    BY StatsAdd, FS_EmptySet
  <2> QED BY <2>1, <2>2 DEF BeastInit, CountedWhere
<1> QED BY <1>1, <1>2, <1>3 DEF BeastInv

\* what a step of the server leaves alone
LEMMA ServerKeeps ==
  ASSUME BeastInv, UNCHANGED <<concurrent, clientVars>>,
         acceptor' \in {"armed", "unserved", "gone"}, session' \in [Requests -> Sessions]
  PROVE  BeastInv'
<1>1. UNCHANGED <<concurrent, step, sent, thread_stat, thread_stats, total_stats, outcome, summary>>
  BY DEF clientVars
<1>2. BeastTypes'
  BY <1>1 DEF BeastInv, BeastTypes
<1>3. SettledInTurn'
  BY <1>1 DEF BeastInv, SettledInTurn
<1>4. CountedWhere'
  <2>1. With("ok")' = With("ok") /\ \A t \in ThreadIds : OkOf(t)' = OkOf(t)
    BY <1>1 DEF With, OkOf
  <2> QED BY <1>1, <2>1 DEF BeastInv, CountedWhere
<1> QED BY <1>2, <1>3, <1>4 DEF BeastInv

\* the request a thread is in, and the next one
LEMMA RequestOf ==
  ASSUME BeastInv, NEW t \in ThreadIds
  PROVE  /\ step[t] = "waiting" =>
              Current(t) \in Requests /\ outcome[Current(t)] = "pending" /\ summary = NoSummary
         /\ step[t] = "next" /\ sent[t] < requests_per_thread =>
              /\ <<t, sent[t] + 1>> \in Requests /\ outcome[<<t, sent[t] + 1>>] = "pending"
              /\ sent[t] + 1 \in 0..requests_per_thread
         /\ step[t] = "next" => summary = NoSummary
<1>1. sent[t] \in Nat /\ sent[t] <= requests_per_thread /\ requests_per_thread \in Nat
  BY BeastAssumption DEF BeastInv, BeastTypes
<1>2. ASSUME step[t] = "waiting"
      PROVE  Current(t) \in Requests /\ outcome[Current(t)] = "pending" /\ summary = NoSummary
  <2>1. sent[t] \in 1..requests_per_thread /\ summary = NoSummary
    BY <1>1, <1>2 DEF BeastInv, SettledInTurn
  <2>2. Current(t) \in Requests /\ Current(t)[1] = t /\ Current(t)[2] = sent[t]
    BY <2>1 DEF Current, Requests
  <2> QED BY <1>2, <2>1, <2>2 DEF BeastInv, SettledInTurn
<1>3. ASSUME step[t] = "next", sent[t] < requests_per_thread
      PROVE  /\ <<t, sent[t] + 1>> \in Requests /\ outcome[<<t, sent[t] + 1>>] = "pending"
             /\ sent[t] + 1 \in 0..requests_per_thread
  <2> DEFINE r == <<t, sent[t] + 1>>
  <2>1. r \in Requests /\ r[1] = t /\ r[2] = sent[t] + 1 /\ sent[t] + 1 > sent[t]
    BY <1>1, <1>3 DEF Requests
  <2>2. sent[t] + 1 \in 0..requests_per_thread
    BY <1>1, <1>3
  <2> HIDE DEF r
  <2>3. outcome[r] = "pending"
    BY <2>1 DEF BeastInv, SettledInTurn
  <2> QED BY <2>1, <2>2, <2>3 DEF r
<1>4. step[t] = "next" => summary = NoSummary
  BY DEF BeastInv, SettledInTurn
<1> QED BY <1>2, <1>3, <1>4

LEMMA BeastSends ==
  ASSUME BeastInv, NEW t \in ThreadIds, Send(t)
  PROVE  BeastInv'
<1> DEFINE next == <<t, sent[t] + 1>>
<1>0. /\ step[t] = "next" /\ sent[t] < requests_per_thread /\ sent' = [sent EXCEPT ![t] = @ + 1]
      /\ UNCHANGED <<concurrent, thread_stat, thread_stats, total_stats, summary, acceptor>>
      /\ \/ /\ outcome' = [outcome EXCEPT ![next] = "failed"]
            /\ UNCHANGED <<step, session>>
         \/ /\ step' = [step EXCEPT ![t] = "waiting"]
            /\ session' = [session EXCEPT ![next] = "backlog"]
            /\ UNCHANGED outcome
  BY DEF Send, Goto
<1>1. /\ next \in Requests /\ outcome[next] = "pending" /\ sent[t] + 1 \in 0..requests_per_thread
      /\ next[1] = t /\ next[2] = sent[t] + 1
  BY <1>0, RequestOf
<1>2. \A r \in Requests : /\ r[1] \in ThreadIds /\ r[2] \in Nat /\ r[2] > 0
                          /\ r = next <=> r[1] = t /\ r[2] = sent[t] + 1
  BY BeastAssumption DEF Requests
<1> HIDE DEF next
<1>3. BeastTypes'
  BY <1>0, <1>1 DEF BeastInv, BeastTypes, Sessions
<1>4. SettledInTurn'
  <2>1. \A u \in ThreadIds : sent[u] \in Nat
    BY DEF BeastInv, BeastTypes
  <2>2. ASSUME NEW r \in Requests
        PROVE  /\ r[2] > sent'[r[1]] => outcome'[r] = "pending"
               /\ r[2] < sent'[r[1]] => outcome'[r] # "pending"
               /\ r[2] = sent'[r[1]] => (outcome'[r] = "pending" <=> step'[r[1]] = "waiting")
    <3>1. CASE r[1] # t
      <4>1. /\ sent'[r[1]] = sent[r[1]] /\ step'[r[1]] = step[r[1]] /\ outcome'[r] = outcome[r]
        BY <1>0, <1>2, <3>1 DEF BeastInv, BeastTypes
      <4> QED BY <4>1 DEF BeastInv, SettledInTurn
    <3>2. CASE r[1] = t
      <4>1. sent'[t] = sent[t] + 1 /\ sent[t] \in Nat /\ r[2] \in Nat
        BY <1>0, <1>2, <2>1 DEF BeastInv, BeastTypes
      <4>2. CASE r[2] = sent[t] + 1
        <5>1. r = next
          BY <1>2, <3>2, <4>2
        <5>2. outcome'[next] = "pending" <=> step'[t] = "waiting"
          BY <1>0, <1>1 DEF BeastInv, BeastTypes
        <5> QED BY <3>2, <4>1, <4>2, <5>1, <5>2
      <4>3. CASE r[2] # sent[t] + 1
        <5>1. outcome'[r] = outcome[r]
          BY <1>0, <1>2, <4>3 DEF BeastInv, BeastTypes
        <5>2. /\ r[2] > sent[t] => outcome[r] = "pending"
              /\ r[2] < sent[t] => outcome[r] # "pending"
              /\ r[2] = sent[t] => outcome[r] # "pending"
          BY <1>0, <3>2 DEF BeastInv, SettledInTurn
        <5> QED BY <3>2, <4>1, <4>3, <5>1, <5>2
      <4> QED BY <4>2, <4>3
    <3> QED BY <3>1, <3>2
  <2>3. ASSUME NEW u \in ThreadIds
        PROVE  /\ step'[u] = "waiting" => sent'[u] >= 1
               /\ step'[u] = "exited" => sent'[u] = requests_per_thread
    <3>1. CASE u = t
      <4>1. sent'[u] = sent[t] + 1 /\ step'[u] \in {"next", "waiting"}
        BY <1>0, <3>1 DEF BeastInv, BeastTypes
      <4> QED BY <2>1, <4>1
    <3>2. CASE u # t
      <4>1. sent'[u] = sent[u] /\ step'[u] = step[u]
        BY <1>0, <3>2 DEF BeastInv, BeastTypes
      <4> QED BY <4>1 DEF BeastInv, SettledInTurn
    <3> QED BY <3>1, <3>2
  <2>4. summary' = NoSummary
    BY <1>0, RequestOf
  <2> QED BY <2>2, <2>3, <2>4 DEF SettledInTurn
<1>5. CountedWhere'
  <2>1. With("ok")' = With("ok") /\ \A u \in ThreadIds : OkOf(u)' = OkOf(u)
    BY <1>0, <1>1 DEF With, OkOf, BeastInv, BeastTypes
  <2>2. \A u \in ThreadIds : step'[u] = "exited" => step[u] = "exited"
    BY <1>0 DEF BeastInv, BeastTypes
  <2> QED BY <1>0, <2>1, <2>2 DEF BeastInv, CountedWhere
<1> QED BY <1>3, <1>4, <1>5 DEF BeastInv

\* the thread's request is settled, and it goes on to the next
LEMMA SettlesInTurn ==
  ASSUME BeastInv, NEW t \in ThreadIds, step[t] = "waiting", NEW o \in {"ok", "failed"},
         outcome' = [outcome EXCEPT ![Current(t)] = o], step' = [step EXCEPT ![t] = "next"],
         UNCHANGED <<sent, summary>>
  PROVE  SettledInTurn'
<1>1. /\ Current(t) \in Requests /\ Current(t)[1] = t /\ Current(t)[2] = sent[t]
      /\ summary = NoSummary
  BY RequestOf DEF Current
<1>2. \A r \in Requests : r[1] \in ThreadIds /\ r = <<r[1], r[2]>>
  BY DEF Requests
<1>3. ASSUME NEW r \in Requests
      PROVE  /\ r[2] > sent'[r[1]] => outcome'[r] = "pending"
             /\ r[2] < sent'[r[1]] => outcome'[r] # "pending"
             /\ r[2] = sent'[r[1]] => (outcome'[r] = "pending" <=> step'[r[1]] = "waiting")
  <2>1. CASE r = Current(t)
    <3>1. outcome'[r] = o /\ step'[t] = "next" /\ sent' = sent /\ sent[t] \in Nat
      BY <1>1, <2>1 DEF BeastInv, BeastTypes
    <3> QED BY <1>1, <2>1, <3>1
  <2>2. CASE r # Current(t)
    <3>1. outcome'[r] = outcome[r] /\ sent' = sent
      BY <2>2 DEF BeastInv, BeastTypes
    <3>2. r[2] = sent[r[1]] => r[1] # t
      BY <1>2, <2>2 DEF Current
    <3>3. r[1] # t => step'[r[1]] = step[r[1]]
      BY <1>2 DEF BeastInv, BeastTypes
    <3> QED BY <3>1, <3>2, <3>3 DEF BeastInv, SettledInTurn
  <2> QED BY <2>1, <2>2
<1>4. ASSUME NEW u \in ThreadIds
      PROVE  /\ step'[u] = "waiting" => sent'[u] >= 1
             /\ step'[u] = "exited" => sent'[u] = requests_per_thread
  <2>1. CASE u = t
    BY <2>1 DEF BeastInv, BeastTypes
  <2>2. CASE u # t
    <3>1. sent'[u] = sent[u] /\ step'[u] = step[u]
      BY <2>2 DEF BeastInv, BeastTypes
    <3> QED BY <3>1 DEF BeastInv, SettledInTurn
  <2> QED BY <2>1, <2>2
<1> QED BY <1>1, <1>3, <1>4 DEF SettledInTurn

LEMMA BeastThrows ==
  ASSUME BeastInv, NEW t \in ThreadIds, Throw(t)
  PROVE  BeastInv'
<1>0. /\ step[t] = "waiting" /\ outcome' = [outcome EXCEPT ![Current(t)] = "failed"]
      /\ step' = [step EXCEPT ![t] = "next"]
      /\ UNCHANGED <<concurrent, sent, thread_stat, thread_stats, total_stats, summary, acceptor, session>>
  BY DEF Throw, Goto, serverVars
<1>1. Current(t) \in Requests /\ outcome[Current(t)] = "pending"
  BY <1>0, RequestOf
<1>2. BeastTypes'
  BY <1>0, <1>1 DEF BeastInv, BeastTypes
<1>3. SettledInTurn'
  BY <1>0, SettlesInTurn
<1>4. CountedWhere'
  <2>1. With("ok")' = With("ok") /\ \A u \in ThreadIds : OkOf(u)' = OkOf(u)
    BY <1>0, <1>1 DEF With, OkOf, BeastInv, BeastTypes
  <2>2. \A u \in ThreadIds : step'[u] = "exited" => step[u] = "exited"
    BY <1>0 DEF BeastInv, BeastTypes
  <2> QED BY <1>0, <2>1, <2>2 DEF BeastInv, CountedWhere
<1> QED BY <1>2, <1>3, <1>4 DEF BeastInv

LEMMA BeastCredits ==
  ASSUME BeastInv, NEW t \in ThreadIds, Receive(t)
  PROVE  BeastInv'
<1> DEFINE now == Current(t)
<1>0. /\ step[t] = "waiting" /\ outcome' = [outcome EXCEPT ![now] = "ok"]
      /\ step' = [step EXCEPT ![t] = "next"]
      /\ concurrent => thread_stat' = [thread_stat EXCEPT ![t] = Plus(@, One)]
                       /\ total_stats' = total_stats
      /\ ~concurrent => total_stats' = Plus(total_stats, One) /\ thread_stat' = thread_stat
      /\ UNCHANGED <<concurrent, sent, thread_stats, summary, acceptor, session>>
  BY DEF Receive, Credit, Goto, serverVars
<1>1. /\ now \in Requests /\ outcome[now] = "pending" /\ now[1] = t /\ summary = NoSummary
  BY <1>0, RequestOf DEF Current
<1>2. One \in Stats
  BY StatsAdd
<1> HIDE DEF now
<1>3. BeastTypes'
  <2>1. total_stats' \in Stats
    BY <1>0, <1>2, PlusIsStats DEF BeastInv, BeastTypes
  <2>2. thread_stat' \in [ThreadIds -> Stats]
    <3>1. Plus(thread_stat[t], One) \in Stats
      BY <1>2, PlusIsStats DEF BeastInv, BeastTypes
    <3> QED BY <1>0, <3>1 DEF BeastInv, BeastTypes
  <2> QED BY <1>0, <1>1, <2>1, <2>2 DEF BeastInv, BeastTypes
<1>4. SettledInTurn'
  BY <1>0, SettlesInTurn DEF now
<1>5. /\ \A r \in Requests : outcome'[r] = "ok" <=> (outcome[r] = "ok" \/ r = now)
      /\ outcome[now] # "ok"
  BY <1>0, <1>1 DEF BeastInv, BeastTypes
<1>6. CountedWhere'
  <2>1. \A u \in ThreadIds : step'[u] = "exited" => step[u] = "exited" /\ u # t
    BY <1>0 DEF BeastInv, BeastTypes
  <2>2. CASE concurrent
    <3>1. ASSUME NEW u \in ThreadIds, u # t
          PROVE  thread_stat'[u] = StatsOf(Cardinality(OkOf(u)'))
      <4>1. OkOf(u)' = OkOf(u)
        BY <1>1, <1>5, <3>1 DEF OkOf
      <4>2. thread_stat'[u] = thread_stat[u]
        BY <1>0, <2>2, <3>1 DEF BeastInv, BeastTypes
      <4> QED BY <2>2, <4>1, <4>2 DEF BeastInv, CountedWhere
    <3>2. thread_stat'[t] = StatsOf(Cardinality(OkOf(t)'))
      <4>1. OkOf(t)' = OkOf(t) \cup {now} /\ now \notin OkOf(t) /\ OkOf(t) \in SUBSET Requests
        BY <1>1, <1>5 DEF OkOf
      <4>2. Cardinality(OkOf(t)') = Cardinality(OkOf(t)) + 1 /\ Cardinality(OkOf(t)) \in Nat
        BY <1>1, <4>1, BeastSets
      <4>3. thread_stat'[t] = Plus(thread_stat[t], One)
        BY <1>0, <2>2 DEF BeastInv, BeastTypes
      <4>4. thread_stat[t] = StatsOf(Cardinality(OkOf(t)))
        BY <2>2 DEF BeastInv, CountedWhere
      <4> QED BY <4>2, <4>3, <4>4, StatsAdd
    <3>3. \A u \in ThreadIds : step'[u] = "exited" => thread_stats'[u] = thread_stat'[u]
      BY <1>0, <2>1, <2>2 DEF BeastInv, BeastTypes, CountedWhere
    <3> QED BY <1>0, <2>2, <3>1, <3>2, <3>3 DEF BeastInv, CountedWhere
  <2>3. CASE ~concurrent
    <3>1. With("ok")' = With("ok") \cup {now} /\ now \notin With("ok")
          /\ With("ok") \in SUBSET Requests
      BY <1>1, <1>5 DEF With
    <3>2. Cardinality(With("ok")') = Cardinality(With("ok")) + 1
          /\ Cardinality(With("ok")) \in Nat
      BY <1>1, <3>1, BeastSets
    <3>3. total_stats' = Plus(total_stats, One)
      BY <1>0, <2>3
    <3>4. total_stats = StatsOf(Cardinality(With("ok")))
      BY <1>1, <2>3 DEF BeastInv, CountedWhere
    <3>5. total_stats' = StatsOf(Cardinality(With("ok")'))
      BY <3>2, <3>3, <3>4, StatsAdd
    <3> QED BY <1>0, <2>3, <3>5 DEF BeastInv, CountedWhere
  <2> QED BY <2>2, <2>3
<1> QED BY <1>3, <1>4, <1>6 DEF BeastInv

LEMMA BeastExits ==
  ASSUME BeastInv, NEW t \in ThreadIds, ThreadExit(t)
  PROVE  BeastInv'
<1>0. /\ step[t] = "next" /\ sent[t] = requests_per_thread
      /\ step' = [step EXCEPT ![t] = "exited"]
      /\ thread_stats' = [thread_stats EXCEPT ![t] = thread_stat[t]]
      /\ UNCHANGED <<concurrent, sent, thread_stat, total_stats, outcome, summary, acceptor, session>>
  BY DEF ThreadExit, Goto, serverVars
<1>1. \A u \in ThreadIds : step'[u] = IF u = t THEN "exited" ELSE step[u]
  BY <1>0 DEF BeastInv, BeastTypes
<1>2. \A u \in ThreadIds : thread_stats'[u] = IF u = t THEN thread_stat[t] ELSE thread_stats[u]
  BY <1>0 DEF BeastInv, BeastTypes
<1>3. BeastTypes'
  BY <1>0 DEF BeastInv, BeastTypes
<1>4. SettledInTurn'
  <2>1. \A r \in Requests : r[1] \in ThreadIds
    BY DEF Requests
  <2>2. summary' = NoSummary
    BY <1>0, RequestOf
  <2> QED BY <1>0, <1>1, <2>1, <2>2 DEF BeastInv, SettledInTurn
<1>5. CountedWhere'
  <2>1. With("ok")' = With("ok") /\ \A u \in ThreadIds : OkOf(u)' = OkOf(u)
    BY <1>0 DEF With, OkOf
  <2> QED BY <1>0, <1>1, <1>2, <2>1 DEF BeastInv, CountedWhere
<1> QED BY <1>3, <1>4, <1>5 DEF BeastInv

LEMMA BeastReports ==
  ASSUME BeastInv, Report
  PROVE  BeastInv' /\ summary' # NoSummary
<1>0. /\ summary = NoSummary /\ \A t \in ThreadIds : step[t] = "exited"
      /\ summary' = Added[thread_count] /\ total_stats' = summary'
      /\ UNCHANGED <<concurrent, step, sent, thread_stat, thread_stats, outcome, acceptor, session>>
  BY DEF Report, serverVars
<1>1. summary' \in Stats
  <2>1. Cardinality(With("ok")) \in Nat
    BY BeastSets DEF With
  <2> QED BY <1>0, <2>1, ReportTrue, StatsAdd
<1>2. summary' # NoSummary
  BY <1>1, TotalsAssumption
<1>3. BeastTypes'
  BY <1>0, <1>1 DEF BeastInv, BeastTypes
<1>4. SettledInTurn'
  BY <1>0 DEF BeastInv, SettledInTurn
<1>5. CountedWhere'
  <2>1. \A u \in ThreadIds : OkOf(u)' = OkOf(u)
    BY <1>0 DEF OkOf
  <2> QED BY <1>0, <1>2, <2>1 DEF BeastInv, CountedWhere
<1> QED BY <1>2, <1>3, <1>4, <1>5 DEF BeastInv

LEMMA BeastServes ==
  ASSUME BeastInv,
         \/ OnAcceptError \/ ServerExits
         \/ \E r \in Requests : OnAccept(r) \/ SessionStep(r)
  PROVE  BeastInv' /\ UNCHANGED <<outcome, summary>>
<1>1. UNCHANGED <<concurrent, clientVars>>
  BY DEF OnAcceptError, ServerExits, OnAccept, SessionStep, ReadDone, OnRead, WriteDone, OnWrite,
         Break, Drop
<1>2. acceptor' \in {"armed", "unserved", "gone"}
  BY DEF OnAcceptError, ServerExits, OnAccept, SessionStep, ReadDone, OnRead, WriteDone, OnWrite,
         Break, Drop, BeastInv, BeastTypes
<1>3. session' \in [Requests -> Sessions]
  <2>1. session \in [Requests -> Sessions]
    BY DEF BeastInv, BeastTypes
  <2>2. CASE ServerExits
    BY <2>1, <2>2 DEF ServerExits, Sessions
  <2>3. CASE OnAcceptError
    BY <2>1, <2>3 DEF OnAcceptError
  <2>4. ASSUME NEW r \in Requests, OnAccept(r) \/ SessionStep(r) PROVE session' \in [Requests -> Sessions]
    <3>1. \E s \in Sessions : session' = [session EXCEPT ![r] = s]
      BY <2>4 DEF OnAccept, SessionStep, ReadDone, OnRead, WriteDone, OnWrite, Break, Drop, Moves, Sessions
    <3> QED BY <2>1, <3>1
  <2> QED BY <2>2, <2>3, <2>4
<1> QED BY <1>1, <1>2, <1>3, ServerKeeps DEF clientVars

LEMMA BeastStep ==
  ASSUME BeastInv, [BeastNext]_beastVars
  PROVE  BeastInv'
<1>1. ASSUME NEW t \in ThreadIds, ThreadStep(t) \/ Throw(t) PROVE BeastInv'
  BY <1>1, BeastSends, BeastThrows, BeastCredits, BeastExits DEF ThreadStep
<1>2. CASE Report
  BY <1>2, BeastReports
<1>3. CASE OnAcceptError \/ ServerExits \/ \E r \in Requests : OnAccept(r) \/ SessionStep(r)
  BY <1>3, BeastServes
<1>4. CASE UNCHANGED beastVars
  BY <1>4, ServerKeeps DEF beastVars, serverVars, BeastInv, BeastTypes
<1> QED BY <1>1, <1>2, <1>3, <1>4 DEF BeastNext, Quiet

LEMMA BeastAlways == BeastSpec => []BeastInv
<1>1. BeastInv /\ [BeastNext]_beastVars => BeastInv'
  BY BeastStep
<1> QED BY <1>1, BeastStarts, PTL DEF BeastSpec

----------------------------------------------------------------------------
(* The tally *)

LEMMA BeastCardinality == \A S : Tally!Cardinality(S) = Cardinality(S)
BY DEF Tally!Cardinality, Cardinality

LEMMA BeastTallyStep ==
  ASSUME BeastInv, BeastInv', [BeastNext]_beastVars
  PROVE  [Tally!TallyNext]_Tally!tallyVars
<1> USE DEF Tally!tallyVars
<1>1. ASSUME NEW r \in Requests, NEW o \in {"ok", "failed"}, outcome[r] = "pending",
             outcome' = [outcome EXCEPT ![r] = o], summary' = summary
      PROVE  Tally!TallyNext
  BY <1>1 DEF Tally!TallyNext, Tally!Settle
<1>2. ASSUME NEW t \in ThreadIds, Receive(t) \/ Throw(t) PROVE Tally!TallyNext
  <2>1. step[t] = "waiting" /\ summary' = summary
        /\ \E o \in {"ok", "failed"} : outcome' = [outcome EXCEPT ![Current(t)] = o]
    BY <1>2 DEF Receive, Throw, Credit
  <2> QED BY <1>1, <2>1, RequestOf
<1>3. ASSUME NEW t \in ThreadIds, Send(t) PROVE [Tally!TallyNext]_Tally!tallyVars
  <2>1. step[t] = "next" /\ sent[t] < requests_per_thread /\ summary' = summary
        /\ (outcome' = [outcome EXCEPT ![<<t, sent[t] + 1>>] = "failed"] \/ outcome' = outcome)
    BY <1>3 DEF Send
  <2>2. <<t, sent[t] + 1>> \in Requests /\ outcome[<<t, sent[t] + 1>>] = "pending"
    BY <2>1, RequestOf
  <2> QED BY <1>1, <2>1, <2>2
<1>4. ASSUME NEW t \in ThreadIds, ThreadExit(t) PROVE UNCHANGED Tally!tallyVars
  BY <1>4 DEF ThreadExit
<1>5. CASE Report
  <2>1. /\ summary = NoSummary /\ summary' # NoSummary /\ outcome' = outcome
        /\ \A t \in ThreadIds : step[t] = "exited"
    BY <1>5, BeastReports DEF Report
  <2>2. With("pending") = {}
    <3>1. ASSUME NEW r \in Requests PROVE outcome[r] # "pending"
      <4>1. r[1] \in ThreadIds /\ r[2] \in Nat /\ r[2] <= requests_per_thread
        BY BeastAssumption DEF Requests
      <4>2. step[r[1]] = "exited" /\ sent[r[1]] = requests_per_thread
        BY <2>1, <4>1 DEF BeastInv, SettledInTurn
      <4>3. r[2] < sent[r[1]] \/ r[2] = sent[r[1]]
        BY <4>1, <4>2, BeastAssumption
      <4> QED BY <4>2, <4>3 DEF BeastInv, SettledInTurn
    <3> QED BY <3>1 DEF With
  <2>3. summary' = StatsOf(Cardinality(With("ok")))
    BY <1>5, ReportTrue DEF Report
  <2>4. total_requests - Cardinality(With("ok")) = Cardinality(With("failed"))
    <3>1. total_requests = Cardinality(With("ok")) + Cardinality(With("failed"))
      BY <2>2, BeastPartition DEF BeastInv
    <3>2. Cardinality(With("ok")) \in Nat /\ Cardinality(With("failed")) \in Nat
      BY BeastSets DEF With
    <3> QED BY <3>1, <3>2
  <2>5. /\ Tally!With("ok") = With("ok") /\ Tally!With("failed") = With("failed")
        /\ Tally!With("pending") = With("pending")
    BY DEF Tally!With, With
  <2>6. [ok |-> summary'.requests_sent, failed |-> total_requests - summary'.requests_sent,
         bytes |-> summary'.bytes_transferred] = Tally!Truth
    BY <2>3, <2>4, <2>5, BeastCardinality DEF Tally!Truth, StatsOf
  <2>7. Tally!Summarise
    BY <2>1, <2>2, <2>5, <2>6 DEF Tally!Summarise
  <2> QED BY <2>7 DEF Tally!TallyNext
<1>6. CASE OnAcceptError \/ ServerExits \/ \E r \in Requests : OnAccept(r) \/ SessionStep(r)
  BY <1>6, BeastServes
<1>7. CASE UNCHANGED beastVars
  BY <1>7 DEF beastVars, clientVars
<1> QED BY <1>2, <1>3, <1>4, <1>5, <1>6, <1>7 DEF BeastNext, ThreadStep, Quiet

\* Both clients keep the tally of a benchmark: each request is settled once, and the
\* totals are printed once, after all of them, and are those of the answered ones, added
\* at once in the regular client, over the statistics of the threads in the concurrent
\* one (regular_beast_client.cpp:159-178, concurrent_beast_client.cpp:194-243).
THEOREM BeastKeepsTally == BeastSpec => Tally!TallySafety
<1>1. BeastInit => Tally!TallyInit
  BY DEF BeastInit, Tally!TallyInit
<1>2. BeastInv /\ BeastInv' /\ [BeastNext]_beastVars => [Tally!TallyNext]_Tally!tallyVars
  BY BeastTallyStep
<1> QED BY <1>1, <1>2, BeastAlways, PTL DEF BeastSpec, Tally!TallySafety
=============================================================================
