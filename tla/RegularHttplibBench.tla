------------------------ MODULE RegularHttplibBench ------------------------
(***************************************************************************)
(* regular_httplib_client.cpp against regular_httplib_server.cpp: one      *)
(* client thread, the handlers of the server on its default pool (never    *)
(* short of a thread here: the client has one request at a time, and those *)
(* it gave up), and somebody who asks for /request_stats meanwhile.        *)
(***************************************************************************)
EXTENDS Naturals, FiniteSets

CONSTANTS N,          \* request_count of the command line
          Size,       \* bytes of one body, uploaded or downloaded
          NoSummary

ASSUME RegularAssumption == N \in Nat /\ Size \in Nat \ {0}

Requests == 1..N

VARIABLES
  upload,             \* the mode given on the command line
  pc, i,              \* client: where it stands, requests begun
  completed_requests, failed_requests, total_bytes_sent,
  outcome,            \* history: the answer the client got for each request
  summary,
  handler,            \* where the handler of each request stands
  request_count, total_received_bytes,
  poll, seenCount, seenBytes,   \* the /request_stats handler and what it read
  disturbed           \* history: an upload was half counted during the poll

clientVars == <<pc, i, completed_requests, failed_requests, total_bytes_sent, outcome, summary>>
pollVars   == <<poll, seenCount, seenBytes, disturbed>>
vars == <<upload, clientVars, handler, request_count, total_received_bytes, pollVars>>

\* pc: "next", "waiting", "success", "failure", "settled", "exited"; handler: "none", "read",
\* "counted", "added", "dropped", "answered"; poll is "idle" or which of its two counters
\* the stats handler has read: "none", "count", "bytes", "both"

HalfCounted == \E r \in Requests : handler[r] = "counted"

Init == /\ upload \in BOOLEAN
        /\ pc = "next" /\ i = 0
        /\ completed_requests = 0 /\ failed_requests = 0 /\ total_bytes_sent = 0
        /\ outcome = [r \in Requests |-> "pending"]
        /\ summary = NoSummary
        /\ handler = [r \in Requests |-> "none"]
        /\ request_count = 0 /\ total_received_bytes = 0
        /\ poll = "idle" /\ seenCount = 0 /\ seenBytes = 0 /\ disturbed = FALSE

----------------------------------------------------------------------------
(* perform_test() and main() of the client *)

Send == /\ pc = "next" /\ i < N
        /\ i' = i + 1
        /\ \/ /\ handler' = [handler EXCEPT ![i + 1] = "read"]
              /\ pc' = "waiting"
           \/ /\ handler' = handler       \* the connection cannot be made
              /\ pc' = "failure"
        /\ UNCHANGED <<upload, completed_requests, failed_requests, total_bytes_sent, outcome,
                       summary, request_count, total_received_bytes, pollVars>>

Receive == /\ pc = "waiting" /\ handler[i] = "answered"
           /\ pc' = "success"
           /\ UNCHANGED <<upload, i, completed_requests, failed_requests, total_bytes_sent,
                          outcome, summary, handler, request_count, total_received_bytes, pollVars>>

\* read timeout or lost connection, at any stage of the handler
GiveUp == /\ pc = "waiting"
          /\ pc' = "failure"
          /\ UNCHANGED <<upload, i, completed_requests, failed_requests, total_bytes_sent,
                         outcome, summary, handler, request_count, total_received_bytes, pollVars>>

AddBytes == /\ pc = "success"
            /\ total_bytes_sent' = total_bytes_sent + Size
            /\ outcome' = [outcome EXCEPT ![i] = "ok"]
            /\ pc' = "settled"
            /\ UNCHANGED <<upload, i, completed_requests, failed_requests, summary, handler,
                           request_count, total_received_bytes, pollVars>>

\* mutant: the bytes of a failed request are added as well
AddFailed == /\ pc = "failure"
             /\ failed_requests' = failed_requests + 1
             /\ total_bytes_sent' = total_bytes_sent + Size
             /\ outcome' = [outcome EXCEPT ![i] = "failed"]
             /\ pc' = "settled"
             /\ UNCHANGED <<upload, i, completed_requests, summary, handler, request_count,
                            total_received_bytes, pollVars>>

CountFailed == /\ pc = "failure"
               /\ failed_requests' = failed_requests + 1
               /\ outcome' = [outcome EXCEPT ![i] = "failed"]
               /\ pc' = "settled"
               /\ UNCHANGED <<upload, i, completed_requests, total_bytes_sent, summary, handler,
                              request_count, total_received_bytes, pollVars>>

\* completed_requests++ at the end of the loop's body, for either outcome
CountCompleted == /\ pc = "settled"
                  /\ completed_requests' = completed_requests + 1
                  /\ pc' = "next"
                  /\ UNCHANGED <<upload, i, failed_requests, total_bytes_sent, outcome, summary,
                                 handler, request_count, total_received_bytes, pollVars>>

\* "Successful: " << completed_requests, "Failed: " << failed_requests
Report == /\ pc = "next" /\ i = N
          /\ pc' = "exited"
          /\ summary' = [ok |-> completed_requests, failed |-> failed_requests,
                         bytes |-> total_bytes_sent]
          /\ UNCHANGED <<upload, i, completed_requests, failed_requests, total_bytes_sent,
                         outcome, handler, request_count, total_received_bytes, pollVars>>

----------------------------------------------------------------------------
(* the handlers of the server *)

At(r, from, to) == handler[r] = from /\ handler' = [handler EXCEPT ![r] = to]

\* whether a poll that is under way sees an upload between its two counters
Disturb == disturbed' = (disturbed \/ (poll \notin {"idle", "both"} /\ HalfCounted'))

\* GET /large_data answers without counting; a request that cannot be read is
\* answered by nobody
Serve(r) == /\ \/ At(r, "read", "dropped")
               \/ ~upload /\ At(r, "read", "answered")
            /\ UNCHANGED <<upload, clientVars, request_count, total_received_bytes, pollVars>>

\* POST /receive_data: count = ++request_count
Count(r) == /\ upload /\ At(r, "read", "counted")
            /\ request_count' = request_count + 1
            /\ Disturb
            /\ UNCHANGED <<upload, clientVars, total_received_bytes, poll, seenCount, seenBytes>>

\* mutant: the addition is lost
AddLost(r) == /\ At(r, "counted", "added")
              /\ UNCHANGED <<upload, clientVars, request_count, total_received_bytes, pollVars>>

AddTotal(r) == /\ At(r, "counted", "added")
               /\ total_received_bytes' = total_received_bytes + Size
               /\ UNCHANGED <<upload, clientVars, request_count, pollVars>>

Answer(r) == /\ At(r, "added", "answered")
             /\ UNCHANGED <<upload, clientVars, request_count, total_received_bytes, pollVars>>

(* /request_stats: the operands of + are evaluated in either order *)

PollBegin == /\ poll \in {"idle", "both"}
             /\ poll' = "none"
             /\ disturbed' = HalfCounted
             /\ UNCHANGED <<upload, clientVars, handler, request_count, total_received_bytes,
                            seenCount, seenBytes>>

PollCount == /\ poll \in {"none", "bytes"}
             /\ seenCount' = request_count
             /\ poll' = IF poll = "none" THEN "count" ELSE "both"
             /\ UNCHANGED <<upload, clientVars, handler, request_count, total_received_bytes,
                            seenBytes, disturbed>>

PollBytes == /\ poll \in {"none", "count"}
             /\ seenBytes' = total_received_bytes
             /\ poll' = IF poll = "none" THEN "bytes" ELSE "both"
             /\ UNCHANGED <<upload, clientVars, handler, request_count, total_received_bytes,
                            seenCount, disturbed>>

----------------------------------------------------------------------------
ClientNext == \/ Send \/ Receive \/ GiveUp \/ AddBytes \/ CountFailed \/ CountCompleted \/ Report
ServerNext == \/ \E r \in Requests : Serve(r) \/ Count(r) \/ AddTotal(r) \/ Answer(r)
              \/ PollBegin \/ PollCount \/ PollBytes

Next == ClientNext \/ ServerNext
Spec == Init /\ [][Next]_vars

----------------------------------------------------------------------------
(* Properties *)

With(o) == {r \in Requests : outcome[r] = o}

\* The failures and the bytes that are printed are those of the requests that failed and
\* of those that did not, and no more bytes are claimed than the server added, even when
\* it worked on for a request that the client had given up.
BytesTrue == /\ upload => total_bytes_sent <= total_received_bytes
             /\ summary # NoSummary => /\ summary.failed = Cardinality(With("failed"))
                                       /\ summary.bytes = Size * Cardinality(With("ok"))

\* What is printed as "Successful", beside "Failed", are the requests that succeeded.
SuccessesPrinted == summary # NoSummary => summary.ok = Cardinality(With("ok"))

\* The two numbers of /request_stats are read one after the other; they fit
\* together when no upload was counted and not yet added at any time during
\* the poll, and no poll shows more bytes than the uploads counted by then.
StatsFit ==
  (upload /\ poll = "both") =>
     /\ seenBytes <= Size * request_count
     /\ ~disturbed => seenBytes = Size * seenCount
=============================================================================
