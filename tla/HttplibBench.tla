---------------------------- MODULE HttplibBench ----------------------------
(***************************************************************************)
(* concurrent_httplib_client.cpp against concurrent_httplib_server.cpp:    *)
(* client threads with shared atomic counters, a lossy network, and the    *)
(* handlers of the server on the threads of its pool.  The pool is the     *)
(* abstract executor that ThreadPool implements; a job is a connection,    *)
(* and as the client does not keep connections alive, a request.           *)
(***************************************************************************)
EXTENDS Naturals, Sequences, FiniteSets

CONSTANTS Threads,        \* the client's worker threads
          PerThread,      \* requests_per_thread
          ServerThreads,  \* the threads of the server's pool
          Size,           \* bytes of one body, uploaded or downloaded
          NoSummary

ASSUME BenchAssumption == /\ IsFiniteSet(Threads) /\ IsFiniteSet(ServerThreads)
                          /\ PerThread \in Nat
                          /\ Size \in Nat \ {0}

Requests == Threads \X (1..PerThread)

VARIABLES
  upload,             \* the mode given on the command line
  pc, sent,           \* client: where each thread stands, requests it has begun
  completed_requests, failed_requests, total_bytes_transferred,
  outcome,            \* history: what the client decided about each request
  summary,            \* what main() printed after the join
  accepted, started, finished, closed,    \* the server's pool
  handler,            \* where the handler of each request stands
  number,             \* count, the handler's local
  request_count, total_received_bytes,
  log                 \* the lines printed under stats_mutex

clientVars == <<pc, sent, completed_requests, failed_requests, total_bytes_transferred,
                outcome, summary>>
poolVars   == <<accepted, started, finished, closed>>
serverVars == <<handler, number, request_count, total_received_bytes, log>>
vars       == <<upload, clientVars, poolVars, serverVars>>

\* "next": head of the for loop; "waiting": inside Post() or Get(); "bytes":
\* counted as completed, bytes not yet added.  That Post() returns and the first
\* counter is updated is one step: nobody else reads the counters meanwhile.
ClientPC == {"next", "waiting", "bytes", "exited"}

\* "none": not begun; "read": reading the request; "dropped": connection lost
\* before the handler ran; "answered": response written
HandlerPC == {"none", "read", "counted", "added", "printed", "dropped", "answered"}

Pool == INSTANCE JobExecutor WITH Jobs <- Requests, Threads <- ServerThreads

Init == /\ upload \in BOOLEAN
        /\ pc = [t \in Threads |-> "next"]
        /\ sent = [t \in Threads |-> 0]
        /\ completed_requests = 0 /\ failed_requests = 0 /\ total_bytes_transferred = 0
        /\ outcome = [r \in Requests |-> "pending"]
        /\ summary = NoSummary
        /\ Pool!ExecInit
        /\ handler = [r \in Requests |-> "none"]
        /\ number = [r \in Requests |-> 0]
        /\ request_count = 0 /\ total_received_bytes = 0
        /\ log = <<>>

----------------------------------------------------------------------------
(* worker_thread() of the client *)

Current(t) == <<t, sent[t]>>
Goto(t, l) == pc' = [pc EXCEPT ![t] = l]

\* mutant: the loop runs once too often
SendOneMore(t) == /\ pc[t] = "next" /\ sent[t] <= PerThread
                  /\ sent' = [sent EXCEPT ![t] = @ + 1]
                  /\ Goto(t, "waiting")
                  /\ Pool!Submit(<<t, sent[t] + 1>>)
                  /\ UNCHANGED <<upload, completed_requests, failed_requests,
                                 total_bytes_transferred, outcome, summary, serverVars>>

\* connect and write: the server accepts the connection and queues it
Send(t) == /\ pc[t] = "next" /\ sent[t] < PerThread
           /\ sent' = [sent EXCEPT ![t] = @ + 1]
           /\ Goto(t, "waiting")
           /\ Pool!Submit(<<t, sent[t] + 1>>)
           /\ UNCHANGED <<upload, completed_requests, failed_requests,
                          total_bytes_transferred, outcome, summary, serverVars>>

\* the connection is refused or times out: failed_requests++
SendFails(t) == /\ pc[t] = "next" /\ sent[t] < PerThread
                /\ sent' = [sent EXCEPT ![t] = @ + 1]
                /\ failed_requests' = failed_requests + 1
                /\ outcome' = [outcome EXCEPT ![<<t, sent[t] + 1>>] = "failed"]
                /\ UNCHANGED <<upload, pc, completed_requests, total_bytes_transferred,
                               summary, poolVars, serverVars>>

\* mutant: any answer counts, also that of a connection that was dropped
CountAny(t) == /\ pc[t] = "waiting"
               /\ handler[Current(t)] \in {"dropped", "answered"}
               /\ completed_requests' = completed_requests + 1
               /\ outcome' = [outcome EXCEPT ![Current(t)] = "ok"]
               /\ Goto(t, "bytes")
               /\ UNCHANGED <<upload, sent, failed_requests, total_bytes_transferred,
                              summary, poolVars, serverVars>>

\* res && res->status == 200: completed_requests++
CountCompleted(t) == /\ pc[t] = "waiting"
                     /\ handler[Current(t)] = "answered"
                     /\ completed_requests' = completed_requests + 1
                     /\ outcome' = [outcome EXCEPT ![Current(t)] = "ok"]
                     /\ Goto(t, "bytes")
                     /\ UNCHANGED <<upload, sent, failed_requests, total_bytes_transferred,
                                    summary, poolVars, serverVars>>

\* the answer does not arrive: read timeout, reset connection, exception; the
\* server may be before, inside or past the handler and goes on regardless
GiveUp(t) == /\ pc[t] = "waiting"
             /\ failed_requests' = failed_requests + 1
             /\ outcome' = [outcome EXCEPT ![Current(t)] = "failed"]
             /\ Goto(t, "next")
             /\ UNCHANGED <<upload, sent, completed_requests, total_bytes_transferred,
                            summary, poolVars, serverVars>>

AddBytes(t) == /\ pc[t] = "bytes"
               /\ total_bytes_transferred' = total_bytes_transferred + Size
               /\ Goto(t, "next")
               /\ UNCHANGED <<upload, sent, completed_requests, failed_requests, outcome,
                              summary, poolVars, serverVars>>

ThreadExit(t) == /\ pc[t] = "next" /\ sent[t] = PerThread
                 /\ Goto(t, "exited")
                 /\ UNCHANGED <<upload, sent, completed_requests, failed_requests,
                                total_bytes_transferred, outcome, summary, poolVars, serverVars>>

(* main() of the client *)

Printed == [ok |-> completed_requests, failed |-> failed_requests,
            bytes |-> total_bytes_transferred]

\* mutant: the summary is printed when the requests are counted, without join
ReportEarly == /\ summary = NoSummary
               /\ completed_requests + failed_requests = Cardinality(Requests)
               /\ summary' = Printed
               /\ UNCHANGED <<upload, pc, sent, completed_requests, failed_requests,
                              total_bytes_transferred, outcome, poolVars, serverVars>>

Report == /\ summary = NoSummary
          /\ \A t \in Threads : pc[t] = "exited"
          /\ summary' = Printed
          /\ UNCHANGED <<upload, pc, sent, completed_requests, failed_requests,
                         total_bytes_transferred, outcome, poolVars, serverVars>>

----------------------------------------------------------------------------
(* the handlers of the server, on the threads of its pool *)

At(r, from, to) == handler[r] = from /\ handler' = [handler EXCEPT ![r] = to]

\* a worker takes the oldest connection
Begin == /\ Pool!Start
         /\ At(accepted[started + 1], "none", "read")
         /\ UNCHANGED <<upload, clientVars, number, request_count, total_received_bytes, log>>

\* the request cannot be read: no handler runs, the connection is closed
ReadFails(r) == /\ At(r, "read", "dropped")
                /\ Pool!Finish(r)
                /\ UNCHANGED <<upload, clientVars, number, request_count,
                               total_received_bytes, log>>

\* count = ++request_count
Count(r) == /\ At(r, "read", IF upload THEN "counted" ELSE "added")
            /\ request_count' = request_count + 1
            /\ number' = [number EXCEPT ![r] = request_count + 1]
            /\ UNCHANGED <<upload, clientVars, poolVars, total_received_bytes, log>>

\* mutant: the addition is lost
AddLost(r) == /\ At(r, "counted", "added")
              /\ UNCHANGED <<upload, clientVars, poolVars, number, request_count,
                             total_received_bytes, log>>

\* total_received_bytes += body_size, in the POST handler only
AddTotal(r) == /\ At(r, "counted", "added")
               /\ total_received_bytes' = total_received_bytes + Size
               /\ UNCHANGED <<upload, clientVars, poolVars, number, request_count, log>>

\* mutant: the line does not wait for the addition
PrintEarly(r) == /\ handler[r] \in {"counted", "added"}
                 /\ handler' = [handler EXCEPT ![r] = "printed"]
                 /\ log' = Append(log, [n |-> number[r], total |-> total_received_bytes])
                 /\ UNCHANGED <<upload, clientVars, poolVars, number, request_count,
                                total_received_bytes>>

\* one line under stats_mutex; the total is read there
LogLine(r) == /\ At(r, "added", "printed")
              /\ log' = Append(log, [n |-> number[r], total |-> total_received_bytes])
              /\ UNCHANGED <<upload, clientVars, poolVars, number, request_count,
                             total_received_bytes>>

Answer(r) == /\ At(r, "printed", "answered")
             /\ Pool!Finish(r)
             /\ UNCHANGED <<upload, clientVars, number, request_count, total_received_bytes, log>>

----------------------------------------------------------------------------
ThreadStep(t) == \/ Send(t) \/ SendFails(t) \/ CountCompleted(t) \/ GiveUp(t)
                 \/ AddBytes(t) \/ ThreadExit(t)
HandlerStep(r) == ReadFails(r) \/ Count(r) \/ AddTotal(r) \/ LogLine(r) \/ Answer(r)

\* the summary is printed and the server has nothing left to do
Quiet == summary # NoSummary /\ finished = Pool!Submitted
Idle  == Quiet /\ UNCHANGED vars

Next == \/ \E t \in Threads : ThreadStep(t)
        \/ Report
        \/ Begin
        \/ \E r \in Requests : HandlerStep(r)
        \/ Idle

SafetySpec == Init /\ [][Next]_vars

\* the client's threads run; an answer arrives or the timeout of the client
\* fires.  Nothing is asked of the server.
Spec == /\ SafetySpec
        /\ \A t \in Threads : WF_vars(ThreadStep(t))
        /\ WF_vars(Report)

----------------------------------------------------------------------------
(* Properties *)

\* Every variable has its type.
TypeOK == /\ upload \in BOOLEAN
          /\ pc \in [Threads -> ClientPC]
          /\ sent \in [Threads -> 0..PerThread]
          /\ completed_requests \in Nat /\ failed_requests \in Nat
          /\ total_bytes_transferred \in Nat
          /\ outcome \in [Requests -> {"pending", "ok", "failed"}]
          /\ summary \in [ok : Nat, failed : Nat, bytes : Nat] \cup {NoSummary}
          /\ accepted \in Seq(Requests) /\ started \in Nat
          /\ finished \subseteq Requests /\ closed \in BOOLEAN
          /\ handler \in [Requests -> HandlerPC]
          /\ number \in [Requests -> Nat]
          /\ request_count \in Nat /\ total_received_bytes \in Nat
          /\ log \in Seq([n : Nat, total : Nat])

\* The client never credits what the server has not done: a success belongs to
\* an answered request, successes never outnumber the server's count, and the
\* uploaded bytes the client reports never exceed those the server has added,
\* at any moment, whatever is lost on the way.
CreditBacked == /\ \A r \in Requests : outcome[r] = "ok" => handler[r] = "answered"
                /\ completed_requests <= request_count
                /\ upload => total_bytes_transferred <= total_received_bytes

\* When client and server are done, the server's count lies between the
\* client's successes and all its requests (lost answers are the difference),
\* and each counted upload was added once.
ServerAgrees ==
  Quiet => /\ completed_requests <= request_count
           /\ request_count <= completed_requests + failed_requests
           /\ total_received_bytes = IF upload THEN Size * request_count ELSE 0

\* No two lines of the server's output bear the same request number, although
\* the number is taken before stats_mutex is; and the total printed for uploads
\* never decreases from line to line, the i-th line accounting for at least i
\* bodies: add first, read under the mutex.
LogTrue ==
  /\ \A i, k \in DOMAIN log : log[i].n = log[k].n => i = k
  /\ upload => \A i \in DOMAIN log : /\ log[i].total >= Size * i
                                    /\ \A k \in 1..i : log[k].total <= log[i].total

\* The client settles each request once, and the summary it prints after the
\* join is the truth about them: successes, failures and bytes.
Tally == INSTANCE BenchmarkTally
ImplementsTally == Tally!TallySpec
=============================================================================
