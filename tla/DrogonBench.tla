---------------------------- MODULE DrogonBench ----------------------------
(***************************************************************************)
(* The drogon clients and their server, regular_drogon_server.cpp.  The    *)
(* requests of concurrent_drogon_client.cpp are posted by its threads,     *)
(* those of regular_drogon_client.cpp by main() before the event loop runs;*)
(* every answer comes as a callback on the event loop of app(), which      *)
(* main() runs until a callback stops it.                                  *)
(* Drogon itself is external: it calls each callback once, on that loop,   *)
(* and at the server the handler of a request, on any of sixteen loops.    *)
(***************************************************************************)
EXTENDS Naturals, FiniteSets

CONSTANTS Threads,      \* the threads of the concurrent client; for the regular one, whose
                        \* main() posts everything, the names of parts of its requests
          PerThread,    \* requests_per_thread
          Size,         \* bytes of one body
          Junk,         \* other values a dead stack slot may hold
          NoSummary

\* with nothing to request no callback ever stops the loop: the clients are
\* of use only for positive numbers, which they do not check
ASSUME DrogonAssumption == /\ IsFiniteSet(Threads) /\ Threads # {}
                           /\ PerThread \in Nat \ {0} /\ Size \in Nat \ {0}
                           /\ Junk \subseteq Nat

\* nothing printed is told apart from every summary
ASSUME SummaryAssumption == NoSummary \notin [ok : Nat, failed : Nat, bytes : Nat]

Requests == Threads \X (1..PerThread)
total_requests == Cardinality(Requests)

VARIABLES
  concurrent,  \* which of the two clients this is
  main,        \* "spawn", "run" (inside app().run()), "join", "printed"
  thread,      \* "none", "posting", "returned" for each thread
  posted,      \* requests each thread has posted
  request,     \* "none", "sent", then the answer "ok" or "failed" is ready
  handler,     \* at the server: "none", "counted", "added", "answered" for each request
  request_count, total_received_bytes,
  callback,    \* "none", or the stage of its callback; at most one is on the loop
  quit,        \* getLoop()->quit() was called
  total_bytes_sent, completed_requests, failed_requests,
  outcome,     \* history: what the callback counted the request as
  summary

serverVars == <<handler, request_count, total_received_bytes>>
vars == <<concurrent, main, thread, posted, request, serverVars, callback, quit, total_bytes_sent,
          completed_requests, failed_requests, outcome, summary>>
counters == <<total_bytes_sent, completed_requests, failed_requests>>

\* callback: "none", "counted", "completed", "done"

Init == /\ concurrent \in BOOLEAN
        /\ main = "spawn"
        /\ thread = [t \in Threads |-> "none"]
        /\ posted = [t \in Threads |-> 0]
        /\ request = [r \in Requests |-> "none"]
        /\ handler = [r \in Requests |-> "none"] /\ request_count = 0 /\ total_received_bytes = 0
        /\ callback = [r \in Requests |-> "none"]
        /\ quit = FALSE
        /\ total_bytes_sent = 0 /\ completed_requests = 0 /\ failed_requests = 0
        /\ outcome = [r \in Requests |-> "pending"]
        /\ summary = NoSummary

----------------------------------------------------------------------------
(* sendRequests() *)

\* std::thread of the concurrent client; the regular one is in its loop at once
Spawn(t) == /\ main = "spawn" /\ thread[t] = "none"
            /\ thread' = [thread EXCEPT ![t] = "posting"]
            /\ UNCHANGED <<main, posted, request, callback, quit, counters, outcome,
                           summary, concurrent, serverVars>>

Post(t) == /\ thread[t] = "posting" /\ posted[t] < PerThread
           /\ posted' = [posted EXCEPT ![t] = @ + 1]
           /\ request' = [request EXCEPT ![<<t, posted[t] + 1>>] = "sent"]
           /\ UNCHANGED <<main, thread, callback, quit, counters, outcome, summary,
                          concurrent, serverVars>>

\* sendRequests() returns: its parameters, data_size among them, are gone
Return(t) == /\ thread[t] = "posting" /\ posted[t] = PerThread
             /\ thread' = [thread EXCEPT ![t] = "returned"]
             /\ UNCHANGED <<main, posted, request, callback, quit, counters, outcome,
                            summary, concurrent, serverVars>>

(* main() *)

RunLoop == /\ main = "spawn"
           /\ \A t \in Threads : thread[t] # "none"
           /\ ~concurrent => \A t \in Threads : thread[t] = "returned"
           /\ main' = "run"
           /\ UNCHANGED <<thread, posted, request, callback, quit, counters, outcome,
                          summary, concurrent, serverVars>>

\* app().run() returns when the loop has finished the callback that stopped it
LoopReturns == /\ main = "run" /\ quit
               /\ \A r \in Requests : callback[r] \in {"none", "done"}
               /\ main' = "join"
               /\ UNCHANGED <<thread, posted, request, callback, quit, counters, outcome,
                              summary, concurrent, serverVars>>

\* join the threads and print; successes are total_requests - failed_requests
Report == /\ main = "join"
          /\ \A t \in Threads : thread[t] = "returned"
          /\ main' = "printed"
          /\ summary' = [ok |-> total_requests - failed_requests, failed |-> failed_requests,
                         bytes |-> total_bytes_sent]
          /\ UNCHANGED <<thread, posted, request, callback, quit, counters, outcome,
                         concurrent, serverVars>>

(* the callback, and the answer it is called with *)

\* the server has answered, or the connection fails; the loop does the client's
\* input and output too
Answer(r) == /\ main = "run" /\ request[r] = "sent"
             /\ \E a \in {"ok", "failed"} : /\ a = "ok" => handler[r] = "answered"
                                          /\ request' = [request EXCEPT ![r] = a]
             /\ UNCHANGED <<main, thread, posted, callback, quit, counters, outcome,
                            summary, concurrent, serverVars>>

Busy == \E r \in Requests : callback[r] \in {"counted", "completed"}

Called(r) == main = "run" /\ ~Busy /\ callback[r] = "none"

\* data_size, captured by reference: main()'s own in the regular client, a
\* parameter of sendRequests() in the concurrent one, undefined when it returned
DataSize(r) == IF concurrent /\ thread[r[1]] = "returned" THEN {Size} \cup Junk ELSE {Size}

\* total_bytes_sent += data_size
CountOk(r) == /\ Called(r) /\ request[r] = "ok"
              /\ \E n \in DataSize(r) : total_bytes_sent' = total_bytes_sent + n
              /\ callback' = [callback EXCEPT ![r] = "counted"]
              /\ outcome' = [outcome EXCEPT ![r] = "ok"]
              /\ UNCHANGED <<main, thread, posted, request, quit, completed_requests,
                             failed_requests, summary, concurrent, serverVars>>

\* mutant: an error without a response is not counted
CountNoFailure(r) == /\ Called(r) /\ request[r] = "failed"
                     /\ callback' = [callback EXCEPT ![r] = "counted"]
                     /\ outcome' = [outcome EXCEPT ![r] = "failed"]
                     /\ UNCHANGED <<main, thread, posted, request, quit, counters,
                                    summary, concurrent, serverVars>>

CountFailed(r) == /\ Called(r) /\ request[r] = "failed"
                  /\ failed_requests' = failed_requests + 1
                  /\ callback' = [callback EXCEPT ![r] = "counted"]
                  /\ outcome' = [outcome EXCEPT ![r] = "failed"]
                  /\ UNCHANGED <<main, thread, posted, request, quit, total_bytes_sent,
                                 completed_requests, summary, concurrent, serverVars>>

Complete(r) == /\ callback[r] = "counted"
               /\ completed_requests' = completed_requests + 1
               /\ callback' = [callback EXCEPT ![r] = "completed"]
               /\ UNCHANGED <<main, thread, posted, request, quit, total_bytes_sent,
                              failed_requests, outcome, summary, concurrent, serverVars>>

\* mutant: the loop stops after the requests of one thread
QuitEarly(r) == /\ callback[r] = "completed"
                /\ quit' = (quit \/ completed_requests = PerThread)
                /\ callback' = [callback EXCEPT ![r] = "done"]
                /\ UNCHANGED <<main, thread, posted, request, counters, outcome, summary,
                               concurrent, serverVars>>

QuitIfLast(r) == /\ callback[r] = "completed"
                 /\ quit' = (quit \/ completed_requests = total_requests)
                 /\ callback' = [callback EXCEPT ![r] = "done"]
                 /\ UNCHANGED <<main, thread, posted, request, counters, outcome, summary,
                                concurrent, serverVars>>

(* POST /receive_data at the server *)

clientVars == <<main, thread, posted, request, callback, quit, counters, outcome, summary,
                concurrent>>

Moves(r, from, to) == handler[r] = from /\ handler' = [handler EXCEPT ![r] = to]

\* an HttpClient sends a request when the one before it is settled; an upload that
\* has arrived is handled also when its client has given up
Count(r) == /\ main # "spawn" /\ request[r] # "none" /\ Moves(r, "none", "counted")
            /\ \A k \in 1..r[2] - 1 : request[<<r[1], k>>] # "sent"
            /\ request_count' = request_count + 1
            /\ UNCHANGED <<total_received_bytes, clientVars>>

\* mutant: the addition is lost
AddLost(r) == /\ Moves(r, "counted", "added")
              /\ UNCHANGED <<request_count, total_received_bytes, clientVars>>

AddTotal(r) == /\ Moves(r, "counted", "added")
               /\ total_received_bytes' = total_received_bytes + Size
               /\ UNCHANGED <<request_count, clientVars>>

Respond(r) == /\ Moves(r, "added", "answered")
              /\ UNCHANGED <<request_count, total_received_bytes, clientVars>>

----------------------------------------------------------------------------
ThreadStep(t) == Spawn(t) \/ Post(t) \/ Return(t)
MainStep      == RunLoop \/ LoopReturns \/ Report
CallbackStep(r) == CountOk(r) \/ CountFailed(r) \/ Complete(r) \/ QuitIfLast(r)
LoopStep      == \E r \in Requests : CallbackStep(r)
HandlerStep(r) == Count(r) \/ AddTotal(r) \/ Respond(r)

Stopped == main = "printed" /\ UNCHANGED vars

Next == \/ \E t \in Threads : ThreadStep(t)
        \/ MainStep \/ LoopStep
        \/ \E r \in Requests : Answer(r) \/ HandlerStep(r)
        \/ Stopped

\* threads run, the loop runs what is ready, and each request is answered or
\* its connection fails: the clients set no timeout of their own
Spec == /\ Init /\ [][Next]_vars
        /\ \A t \in Threads : WF_vars(ThreadStep(t))
        /\ WF_vars(MainStep) /\ WF_vars(LoopStep)
        /\ \A r \in Requests : WF_vars(Answer(r))

----------------------------------------------------------------------------
(* Properties *)

With(o) == {r \in Requests : outcome[r] = o}

\* The loop is stopped only when every request was settled, so no callback can
\* run after app().run() has returned, when the counters, locals of main() that
\* it uses by reference, may be gone, and the join never waits for a thread that
\* still has to post.
QuitLast == quit => /\ With("pending") = {}
                    /\ \A t \in Threads : posted[t] = PerThread

\* The printed total is one body for each success.
BytesTrue == summary # NoSummary => summary.bytes = Size * Cardinality(With("ok"))

\* Two programs that share nothing agree: what the client counts as a success the
\* server has counted and added before, whatever the order of sixteen loops, and
\* when both are at rest they differ by failures only.
ServerAgrees ==
  /\ Cardinality(With("ok")) <= request_count
  /\ Size * Cardinality(With("ok")) <= total_received_bytes
  /\ main = "printed" /\ (\A r \in Requests : handler[r] \in {"none", "answered"}) =>
       /\ total_received_bytes = Size * request_count
       /\ request_count <= summary.ok + summary.failed

\* Each client settles every request once and prints the truth, its successes,
\* a difference, included, but for the total of the concurrent one, which
\* data_size may spoil (BytesTrue).
Tally == INSTANCE BenchmarkTally WITH
  summary <- IF concurrent /\ summary # NoSummary
             THEN [summary EXCEPT !.bytes = Size * Cardinality(With("ok"))]
             ELSE summary
ImplementsTally == Tally!TallySpec
=============================================================================
