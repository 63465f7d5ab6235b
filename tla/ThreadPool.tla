----------------------------- MODULE ThreadPool -----------------------------
(***************************************************************************)
(* httplib::ThreadPool, the task queue of the httplib servers of this      *)
(* repository.  One thread, the owner (the one inside listen()), calls     *)
(* enqueue() and at last shutdown(); the workers take jobs off jobs_.      *)
(* A critical section under mutex_ is one action: everything the threads   *)
(* share is read and written under it, except the notifications, which are *)
(* sent after the unlock and so are actions of their own.                  *)
(***************************************************************************)
EXTENDS Naturals, Sequences, FiniteSets

CONSTANTS Workers,        \* threads_
          Jobs,           \* the jobs the owner may hand over, each once
          NoJob,          \* fn is empty
          MaxQueued       \* max_queued_requests_, 0: no limit

ASSUME WorkersAssumption == Workers # {} /\ IsFiniteSet(Workers)
ASSUME JobsAssumption    == NoJob \notin Jobs /\ IsFiniteSet(Jobs)
ASSUME MaxAssumption     == MaxQueued \in Nat

VARIABLES
  jobs,        \* jobs_
  shutdown,    \* shutdown_
  pc,          \* where each worker stands in its loop
  fn,          \* the job each worker has taken
  owner,       \* where the owner stands
  enqueued,    \* history: the jobs for which enqueue() returned true, in order
  refused,     \* history: the jobs for which it returned false
  returned     \* history: the jobs that returned

queueVars == <<jobs, shutdown, pc, fn, owner, enqueued, refused, returned>>

\* "check": about to lock and look at the predicate of wait(); "asleep": inside
\* wait(), mutex released; "run": calling fn(); "exited": out of the loop
WorkerPC == {"check", "asleep", "run", "exited"}

\* "ready": may call; "notify": past the unlock in enqueue(); "stopping": past
\* the unlock in shutdown(); "joining": in the loop of join(); "joined": returned
OwnerPC == {"ready", "notify", "stopping", "joining", "joined"}

Asleep  == {w \in Workers : pc[w] = "asleep"}
Looking == {w \in Workers : pc[w] = "check"}
Elems(s) == {s[i] : i \in DOMAIN s}

PoolInit ==
        /\ jobs = <<>>
        /\ shutdown = FALSE
        /\ pc = [w \in Workers |-> "check"]
        /\ fn = [w \in Workers |-> NoJob]
        /\ owner = "ready"
        /\ enqueued = <<>>
        /\ refused = {}
        /\ returned = {}

----------------------------------------------------------------------------
(* enqueue() *)

Fresh(j) == j \notin Elems(enqueued) \cup refused
Full     == MaxQueued > 0 /\ Len(jobs) >= MaxQueued

\* mutant: notify only when the queue was empty
PushNotifyFirst(j) == /\ owner = "ready" /\ Fresh(j) /\ ~Full
                      /\ jobs' = Append(jobs, j)
                      /\ enqueued' = Append(enqueued, j)
                      /\ owner' = IF jobs = <<>> THEN "notify" ELSE "ready"
                      /\ UNCHANGED <<shutdown, pc, fn, refused, returned>>

Push(j) == /\ owner = "ready"
           /\ Fresh(j)
           /\ ~Full
           /\ jobs' = Append(jobs, j)
           /\ enqueued' = Append(enqueued, j)
           /\ owner' = "notify"
           /\ UNCHANGED <<shutdown, pc, fn, refused, returned>>

Refuse(j) == /\ owner = "ready"
             /\ Fresh(j)
             /\ Full
             /\ refused' = refused \cup {j}
             /\ UNCHANGED <<jobs, shutdown, pc, fn, owner, enqueued, returned>>

\* cond_.notify_one(): some sleeper wakes, or none is there and it is lost
NotifyOne == /\ owner = "notify"
             /\ owner' = "ready"
             /\ \/ /\ Asleep = {}
                   /\ pc' = pc
                \/ \E w \in Asleep : pc' = [pc EXCEPT ![w] = "check"]
             /\ UNCHANGED <<jobs, shutdown, fn, enqueued, refused, returned>>

(* shutdown() *)

SetShutdown == /\ owner = "ready"
               /\ shutdown' = TRUE
               /\ owner' = "stopping"
               /\ UNCHANGED <<jobs, pc, fn, enqueued, refused, returned>>

NotifyAll == /\ owner = "stopping"
             /\ pc' = [w \in Workers |-> IF pc[w] = "asleep" THEN "check" ELSE pc[w]]
             /\ owner' = "joining"
             /\ UNCHANGED <<jobs, shutdown, fn, enqueued, refused, returned>>

JoinAll == /\ owner = "joining"
           /\ \A w \in Workers : pc[w] = "exited"
           /\ owner' = "joined"
           /\ UNCHANGED <<jobs, shutdown, pc, fn, enqueued, refused, returned>>

(* worker::operator() *)

\* mutant: the job is copied and not popped
TakeNoPop(w) == /\ pc[w] = "check" /\ jobs # <<>>
                /\ fn' = [fn EXCEPT ![w] = Head(jobs)]
                /\ pc' = [pc EXCEPT ![w] = "run"]
                /\ UNCHANGED <<jobs, shutdown, owner, enqueued, refused, returned>>

\* mutant: the newest job first
TakeBack(w) == /\ pc[w] = "check" /\ jobs # <<>>
               /\ fn' = [fn EXCEPT ![w] = jobs[Len(jobs)]]
               /\ jobs' = SubSeq(jobs, 1, Len(jobs) - 1)
               /\ pc' = [pc EXCEPT ![w] = "run"]
               /\ UNCHANGED <<shutdown, owner, enqueued, refused, returned>>

\* the predicate of wait() holds and there is a job to take
Take(w) == /\ pc[w] = "check"
           /\ jobs # <<>>
           /\ fn' = [fn EXCEPT ![w] = Head(jobs)]
           /\ jobs' = Tail(jobs)
           /\ pc' = [pc EXCEPT ![w] = "run"]
           /\ UNCHANGED <<shutdown, owner, enqueued, refused, returned>>

\* the predicate does not hold: release the mutex and sleep, in one step
Sleep(w) == /\ pc[w] = "check"
            /\ jobs = <<>>
            /\ ~shutdown
            /\ pc' = [pc EXCEPT ![w] = "asleep"]
            /\ UNCHANGED <<jobs, shutdown, fn, owner, enqueued, refused, returned>>

\* mutant: shutdown_ alone ends the loop
ExitEarly(w) == /\ pc[w] = "check" /\ shutdown
                /\ pc' = [pc EXCEPT ![w] = "exited"]
                /\ UNCHANGED <<jobs, shutdown, fn, owner, enqueued, refused, returned>>

Exit(w) == /\ pc[w] = "check"
           /\ jobs = <<>>
           /\ shutdown
           /\ pc' = [pc EXCEPT ![w] = "exited"]
           /\ UNCHANGED <<jobs, shutdown, fn, owner, enqueued, refused, returned>>

\* a condition variable may wake a sleeper without a notification
Spurious(w) == /\ pc[w] = "asleep"
               /\ pc' = [pc EXCEPT ![w] = "check"]
               /\ UNCHANGED <<jobs, shutdown, fn, owner, enqueued, refused, returned>>

\* mutant: fn is emptied before it is recorded
ReturnCleared(w) == /\ pc[w] = "run"
                    /\ fn' = [fn EXCEPT ![w] = NoJob]
                    /\ returned' = returned \cup {fn'[w]}
                    /\ pc' = [pc EXCEPT ![w] = "check"]
                    /\ UNCHANGED <<jobs, shutdown, owner, enqueued, refused>>

\* fn() returns
Return(w) == /\ pc[w] = "run"
             /\ returned' = returned \cup {fn[w]}
             /\ fn' = [fn EXCEPT ![w] = NoJob]
             /\ pc' = [pc EXCEPT ![w] = "check"]
             /\ UNCHANGED <<jobs, shutdown, owner, enqueued, refused>>

----------------------------------------------------------------------------
OwnerNext  == \/ \E j \in Jobs : Push(j) \/ Refuse(j)
              \/ NotifyOne \/ SetShutdown \/ NotifyAll \/ JoinAll
WorkerStep(w) == Take(w) \/ Sleep(w) \/ Exit(w) \/ Return(w)
WorkerNext == \E w \in Workers : WorkerStep(w) \/ Spurious(w)

\* everything is over once the owner has joined the workers
Done == owner = "joined" /\ UNCHANGED queueVars

PoolNext == OwnerNext \/ WorkerNext \/ Done

PoolSafety == PoolInit /\ [][PoolNext]_queueVars

\* the scheduler runs every thread that can run and jobs return; the owner
\* need never call shutdown(), and a sleeper need never wake by itself
Fairness == /\ WF_queueVars(NotifyOne) /\ WF_queueVars(NotifyAll)
            /\ WF_queueVars(JoinAll)
            /\ \A w \in Workers : WF_queueVars(WorkerStep(w))

PoolSpec == PoolSafety /\ Fairness

----------------------------------------------------------------------------
(* Properties *)

\* Every variable has its type.
TypeOK == /\ jobs \in Seq(Jobs)
          /\ shutdown \in BOOLEAN
          /\ pc \in [Workers -> WorkerPC]
          /\ fn \in [Workers -> Jobs \cup {NoJob}]
          /\ owner \in OwnerPC
          /\ enqueued \in Seq(Jobs)
          /\ refused \subseteq Jobs
          /\ returned \subseteq Jobs

\* How many accepted jobs have left the queue.
Started == Len(enqueued) - Len(jobs)

\* The queue is the tail of the accepted jobs that nobody has started.
QueueIsTail == /\ Len(jobs) <= Len(enqueued)
               /\ \A i \in DOMAIN jobs : jobs[i] = enqueued[Started + i]

\* A started job is either in the hands of exactly one worker or finished,
\* never both and never run again: two workers woken by one notification
\* cannot take the same job.
RunOnce ==
  /\ \A v, w \in Workers : fn[v] = fn[w] /\ fn[v] # NoJob => v = w
  /\ \A i \in 1..Started :
        enqueued[i] \in returned <=> ~(\E w \in Workers : fn[w] = enqueued[i])

\* Between enqueue() and the worker's pop no job is lost or overtaken, and a
\* popped one is run once.
OnceInOrder == QueueIsTail /\ RunOnce

\* When shutdown() returns, every job ever accepted has run to its end: the
\* flag stops workers only when the queue is empty.
DrainedAtJoin == owner = "joined" => Elems(enqueued) = returned

\* No worker sleeps while there are more jobs than workers on their way to the
\* queue (awake or about to be notified): notify_one() after the unlock, and
\* a worker that steals the job meant for the one being woken, lose no wake-up.
NoLostWakeup ==
  Asleep # {} => Len(jobs) <= Cardinality(Looking) + (IF owner = "notify" THEN 1 ELSE 0)

\* After notify_all() nobody sleeps again, so join() cannot wait forever.
NobodySleepsAtJoin == owner \in {"joining", "joined"} => Asleep = {}

\* A worker leaves its loop only when no job can come any more: once one has
\* exited the queue stays empty and nothing is accepted.
NoWorkAfterExit ==
  [][(\E w \in Workers : pc[w] = "exited") => jobs' = jobs /\ enqueued' = enqueued]_queueVars

\* shutdown() returns once it is called.
ShutdownReturns == shutdown ~> owner = "joined"

\* The pool does what a task queue promises.
Executor == INSTANCE JobExecutor WITH
              Threads <- Workers, accepted <- enqueued, started <- Started,
              finished <- returned, closed <- (owner = "joined")

\* Every behaviour of the pool is one of the abstract executor, in which a job
\* starts in the order of acceptance on a free thread, every accepted job runs to
\* its end, and closing waits for all; and shutdown() returns once it is called.
ImplementsExecutor == Executor!Spec /\ ShutdownReturns
=============================================================================
