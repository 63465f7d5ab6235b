----------------------------- MODULE BeastBench -----------------------------
(***************************************************************************)
(* The beast clients against regular_beast_server.cpp.  Each request of    *)
(* the clients is a connection of its own, with "Connection: close".  The  *)
(* concurrent client keeps statistics per thread and adds them up after    *)
(* the join; the regular client adds to its totals at once.  The server    *)
(* runs the handlers of its acceptor and its sessions on the threads of    *)
(* one io_context; a strand each keeps the handlers of one object apart.   *)
(* Neither side sets a timeout.  Asio and Beast are external.              *)
(***************************************************************************)
EXTENDS Naturals, FiniteSets

CONSTANTS thread_count,    \* the threads of the concurrent client; for the regular one, which
                           \* has main() alone, parts of its requests
          requests_per_thread,
          Size,            \* bytes of one body
          NoSummary

ASSUME BeastAssumption == thread_count \in Nat /\ requests_per_thread \in Nat /\ Size \in Nat

ThreadIds == 1..thread_count

Requests == ThreadIds \X (1..requests_per_thread)
total_requests == Cardinality(Requests)

\* struct Stats without its durations
Stats == [requests_sent : Nat, bytes_transferred : Nat]

\* nothing printed is told apart from every total
ASSUME TotalsAssumption == NoSummary \notin Stats

NoStats == [requests_sent |-> 0, bytes_transferred |-> 0]
Plus(a, b) == [requests_sent     |-> a.requests_sent + b.requests_sent,
               bytes_transferred |-> a.bytes_transferred + b.bytes_transferred]

VARIABLES
  concurrent,       \* which of the two clients this is
  step, sent,       \* client: where each thread stands, requests it has begun
  thread_stat,      \* the local of each thread
  thread_stats,     \* the shared vector, one element for each thread
  total_stats, outcome, summary,
  acceptor,         \* "armed": async_accept pending; "idle": none; "unserved": the
                    \* io_context has no threads; "gone": the server has exited
  session           \* the connection of each request, at the server

clientVars == <<step, sent, thread_stat, thread_stats, total_stats, outcome, summary>>
serverVars == <<acceptor, session>>
beastVars == <<concurrent, clientVars, serverVars>>

\* step: "next", "waiting", "exited"
\* session: "none"; "backlog": connected; "reading", "writing": async operation pending; "read",
\* "written": its handler is due; "dead": the operation failed; "closed" after an
\* answer, "dropped" without one
Answered  == {"written", "closed"}

BeastInit == /\ concurrent \in BOOLEAN
             /\ step = [t \in ThreadIds |-> "next"] /\ sent = [t \in ThreadIds |-> 0]
             /\ thread_stat = [t \in ThreadIds |-> NoStats]
             /\ thread_stats = [t \in ThreadIds |-> NoStats]
             /\ total_stats = NoStats
             /\ outcome = [r \in Requests |-> "pending"]
             /\ summary = NoSummary
             \* hardware_concurrency() is positive, or 0 when it cannot tell
             /\ acceptor \in {"armed", "unserved"}
             /\ session = [r \in Requests |-> "none"]

----------------------------------------------------------------------------
(* The clients: send_request(), the loop around it, main() *)

Current(t) == <<t, sent[t]>>
Goto(t, l) == step' = [step EXCEPT ![t] = l]

\* the regular client has one request at a time
Alone == concurrent \/ \A u \in ThreadIds : step[u] \in {"next", "exited"}

\* connect and write; a failed request adds Stats{}, or its exception skips the
\* addition
Send(t) == /\ step[t] = "next" /\ sent[t] < requests_per_thread /\ Alone
           /\ sent' = [sent EXCEPT ![t] = @ + 1]
           /\ IF acceptor = "gone"
              THEN /\ outcome' = [outcome EXCEPT ![<<t, sent[t] + 1>>] = "failed"]
                   /\ UNCHANGED <<step, session>>
              ELSE /\ Goto(t, "waiting")
                   /\ session' = [session EXCEPT ![<<t, sent[t] + 1>>] = "backlog"]
                   /\ UNCHANGED outcome
           /\ UNCHANGED <<concurrent, thread_stat, thread_stats, total_stats, summary, acceptor>>

One == [requests_sent |-> 1, bytes_transferred |-> Size]

Credit(t) == /\ IF concurrent
                THEN /\ thread_stat' = [thread_stat EXCEPT ![t] = Plus(@, One)]
                     /\ UNCHANGED total_stats
                ELSE /\ total_stats' = Plus(total_stats, One)
                     /\ UNCHANGED thread_stat
             /\ outcome' = [outcome EXCEPT ![Current(t)] = "ok"]
             /\ Goto(t, "next")
             /\ UNCHANGED <<concurrent, sent, thread_stats, summary, serverVars>>

\* http::read() returns the answer, whatever its status
Receive(t) == step[t] = "waiting" /\ session[Current(t)] \in Answered /\ Credit(t)

\* an exception: the network failed, or the server closed without an answer
Throw(t) == /\ step[t] = "waiting"
            /\ outcome' = [outcome EXCEPT ![Current(t)] = "failed"]
            /\ Goto(t, "next")
            /\ UNCHANGED <<concurrent, sent, thread_stat, thread_stats, total_stats, summary,
                           serverVars>>

\* thread_stats[t] = thread_stat
ThreadExit(t) == /\ step[t] = "next" /\ sent[t] = requests_per_thread
                 /\ Goto(t, "exited")
                 /\ thread_stats' = [thread_stats EXCEPT ![t] = thread_stat[t]]
                 /\ UNCHANGED <<concurrent, sent, thread_stat, total_stats, outcome, summary,
                                serverVars>>

\* the totals when the first n of the threads are added
Added[n \in 0..thread_count] ==
  IF n = 0 THEN total_stats ELSE Plus(Added[n - 1], thread_stats[n])

\* mutant: the sum does not wait for the threads
ReportEarly == /\ summary = NoSummary
               /\ \A t \in ThreadIds : sent[t] = requests_per_thread
               /\ summary' = Added[thread_count]
               /\ total_stats' = summary'
               /\ UNCHANGED <<concurrent, step, sent, thread_stat, thread_stats, outcome, serverVars>>

\* the threads are joined, their statistics added up and printed
Report == /\ summary = NoSummary
          /\ \A t \in ThreadIds : step[t] = "exited"
          /\ summary' = Added[thread_count]
          /\ total_stats' = summary'
          /\ UNCHANGED <<concurrent, step, sent, thread_stat, thread_stats, outcome, serverVars>>

----------------------------------------------------------------------------
(* The server: listener and session.  Their handlers never wait and no two
   sessions share anything, so a handler is one step *)

Moves(r, from, to) == session[r] = from /\ session' = [session EXCEPT ![r] = to]

\* on_accept(): the new session begins to read, and accepting goes on
OnAccept(r) == /\ acceptor = "armed"
               /\ Moves(r, "backlog", "reading")
               /\ UNCHANGED <<concurrent, clientVars, acceptor>>

\* mutant: after an error there is no next async_accept()
ErrorEndsAccept == /\ acceptor = "armed"
                   /\ acceptor' = "idle"
                   /\ UNCHANGED <<concurrent, clientVars, session>>

\* on_accept() with an error: accepting goes on, the connection stays in the backlog
OnAcceptError == /\ acceptor = "armed"
                 /\ acceptor' = "armed"
                 /\ UNCHANGED <<concurrent, clientVars, session>>

\* without threads for the io_context main() returns; the connections the kernel
\* has taken are reset
ServerExits == /\ acceptor = "unserved"
               /\ acceptor' = "gone"
               /\ session' = [r \in Requests |-> IF session[r] = "backlog" THEN "dropped"
                                                                       ELSE session[r]]
               /\ UNCHANGED <<concurrent, clientVars>>

ReadDone(r)  == Moves(r, "reading", "read") /\ UNCHANGED <<concurrent, clientVars, acceptor>>
\* on_read(): the answer is made and async_write() begins
OnRead(r)    == Moves(r, "read", "writing") /\ UNCHANGED <<concurrent, clientVars, acceptor>>
WriteDone(r) == Moves(r, "writing", "written") /\ UNCHANGED <<concurrent, clientVars, acceptor>>
\* on_write(): need_eof() of a response to "Connection: close"
OnWrite(r)   == Moves(r, "written", "closed") /\ UNCHANGED <<concurrent, clientVars, acceptor>>

\* a read or a write fails, and its handler lets the session go
Break(r)     == /\ session[r] \in {"reading", "writing"}
                /\ session' = [session EXCEPT ![r] = "dead"]
                /\ UNCHANGED <<concurrent, clientVars, acceptor>>
Drop(r)      == Moves(r, "dead", "dropped") /\ UNCHANGED <<concurrent, clientVars, acceptor>>

----------------------------------------------------------------------------
ThreadStep(t)  == \/ Send(t) \/ Receive(t) \/ ThreadExit(t)
                  \/ Throw(t) /\ session[Current(t)] = "dropped"
SessionStep(r) == ReadDone(r) \/ OnRead(r) \/ WriteDone(r) \/ OnWrite(r) \/ Break(r) \/ Drop(r)

\* everything is printed and the server waits for a connection
Quiet == summary # NoSummary /\ UNCHANGED beastVars

BeastNext == \/ \E t \in ThreadIds : ThreadStep(t) \/ Throw(t)
             \/ Report
             \/ OnAcceptError \/ ServerExits
             \/ \E r \in Requests : OnAccept(r) \/ SessionStep(r)
             \/ Quiet

\* the threads of both sides run, and an operation on a socket succeeds or fails;
\* the network need not fail, and nobody has a timeout
BeastSpec == /\ BeastInit /\ [][BeastNext]_beastVars
             /\ \A t \in ThreadIds : WF_beastVars(ThreadStep(t))
             /\ WF_beastVars(Report) /\ WF_beastVars(ServerExits)
             /\ WF_beastVars(\E r \in Requests : OnAccept(r))
             /\ WF_beastVars(\E r \in Requests : SessionStep(r))

----------------------------------------------------------------------------
(* Properties *)

With(o) == {r \in Requests : outcome[r] = o}

\* The threads' statistics, added up after the join, are the truth about all
\* requests; the failures, which are not printed, are the rest.
Tally == INSTANCE BenchmarkTally WITH
  summary <- IF summary = NoSummary THEN NoSummary
             ELSE [ok     |-> summary.requests_sent,
                   failed |-> total_requests - summary.requests_sent,
                   bytes  |-> summary.bytes_transferred]
ImplementsTally == Tally!TallySpec

\* The server owes no connection anything in the end: each one its kernel has
\* taken is accepted, also after errors of accept(), and answered or dropped.
ConnectionsEnd == []<>(\A r \in Requests : session[r] \in {"none", "closed", "dropped"})
=============================================================================
