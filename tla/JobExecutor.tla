---------------------------- MODULE JobExecutor ----------------------------
(***************************************************************************)
(* What a task queue promises to its one owner: a job that was accepted is *)
(* started in the order of acceptance, by one of a bounded number of       *)
(* threads, runs once and to its end; and when the executor is closed no   *)
(* accepted job is left behind.  (httplib.h, class TaskQueue.)             *)
(***************************************************************************)
EXTENDS Naturals, Sequences, FiniteSets

CONSTANTS Jobs,       \* the jobs the owner may submit
          Threads     \* the threads that run them

VARIABLES accepted,   \* the jobs taken over, in order
          started,    \* how many of them were started: always a prefix
          finished,   \* the jobs that ran to their end
          closed      \* shutdown() returned

execVars == <<accepted, started, finished, closed>>

Submitted == {accepted[i] : i \in DOMAIN accepted}
Running   == {accepted[i] : i \in 1..started} \ finished

ExecInit == accepted = <<>> /\ started = 0 /\ finished = {} /\ closed = FALSE

Submit(j) == /\ ~closed
             /\ j \notin Submitted
             /\ accepted' = Append(accepted, j)
             /\ UNCHANGED <<started, finished, closed>>

Start == /\ started < Len(accepted)
         /\ Cardinality(Running) < Cardinality(Threads)
         /\ started' = started + 1
         /\ UNCHANGED <<accepted, finished, closed>>

Finish(j) == /\ j \in Running
             /\ finished' = finished \cup {j}
             /\ UNCHANGED <<accepted, started, closed>>

Close == /\ ~closed
         /\ Submitted = finished
         /\ closed' = TRUE
         /\ UNCHANGED <<accepted, started, finished>>

ExecNext == Start \/ Close \/ \E j \in Jobs : Submit(j) \/ Finish(j)

ExecSafety == ExecInit /\ [][ExecNext]_execVars

Spec == /\ ExecSafety
        /\ WF_execVars(Start)
        /\ \A j \in Jobs : WF_execVars(Finish(j))
=============================================================================
