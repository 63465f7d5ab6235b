---------------------------- MODULE HttplibServer ----------------------------
(***************************************************************************)
(* The life of one httplib::Server: one thread inside listen(), threads    *)
(* that call stop(), decommission() and wait_until_ready(), and the        *)
(* accepted connections, each served by a job of the task queue until it   *)
(* is closed.  The task queue is the abstract executor that ThreadPool     *)
(* implements; its queue has no limit, as in the servers of this           *)
(* repository, so enqueue() never refuses.                                 *)
(***************************************************************************)
EXTENDS Naturals, Sequences, FiniteSets

CONSTANTS Conns,          \* the connections clients may open
          Threads,        \* the threads of the task queue
          Stoppers,       \* the threads that call stop(), once each
          KeepAliveMax    \* keep_alive_max_count_

ASSUME ServerAssumption == /\ IsFiniteSet(Threads) /\ Threads # {}
                           /\ KeepAliveMax \in Nat \ {0}

VARIABLES
  lpc, ret,        \* the thread inside listen(), and its result
  svr_sock,        \* svr_sock_ is a socket (TRUE) or INVALID_SOCKET (FALSE)
  kernel,          \* the listening socket itself: "none", "open", "closed"
  closes,          \* how often its descriptor was passed to close()
  acceptError,     \* history: accept() failed although the socket was open
  is_running, is_decommissioned,
  spc, mine,       \* the threads in stop(), and what each took out of svr_sock_
  waiter,          \* the thread in wait_until_ready()
  cpc,             \* where each connection stands
  left,            \* count of process_server_socket_core()
  accepted, started, finished, closed     \* the task queue

listenVars == <<lpc, ret, acceptError>>
sockVars   == <<svr_sock, kernel, closes>>
flagVars   == <<is_running, is_decommissioned>>
stopVars   == <<spc, mine>>
connVars   == <<cpc, left>>
poolVars   == <<accepted, started, finished, closed>>
vars == <<listenVars, sockVars, flagVars, stopVars, waiter, connVars, poolVars>>

\* lpc: "idle", "bound", "loop", "accept", "failed", "closing", "drain", "leave", "ending",
\* "returned"; spc: "idle", "checked", "close", "reset", "done"; cpc: "new", "backlog",
\* "queued", "serving", "closed", "reset"

Pool == INSTANCE JobExecutor WITH Jobs <- Conns

Init == /\ lpc = "idle" /\ ret = FALSE /\ acceptError = FALSE
        /\ svr_sock = FALSE /\ kernel = "none" /\ closes = 0
        /\ is_running = FALSE /\ is_decommissioned = FALSE
        /\ spc = [s \in Stoppers |-> "idle"] /\ mine = [s \in Stoppers |-> FALSE]
        /\ waiter = "waiting"
        /\ cpc = [c \in Conns |-> "new"] /\ left = [c \in Conns |-> KeepAliveMax]
        /\ Pool!ExecInit

Listening(from, to) == lpc = from /\ lpc' = to

----------------------------------------------------------------------------
(* listen() = bind_to_port() && listen_internal() *)

\* mutant: a failed bind is not remembered
BindForgets == \/ /\ Listening("idle", "returned")
                  /\ UNCHANGED <<ret, acceptError, sockVars, flagVars, stopVars, waiter,
                                 connVars, poolVars>>
               \/ /\ Listening("idle", "bound") /\ ~is_decommissioned
                  /\ svr_sock' = TRUE /\ kernel' = "open"
                  /\ UNCHANGED <<ret, acceptError, closes, flagVars, stopVars, waiter,
                                 connVars, poolVars>>

\* bind_internal() fails on a decommissioned server, and when no socket can be
\* made; either way the server is decommissioned
Bind == \/ /\ Listening("idle", "returned")
           /\ is_decommissioned' = TRUE
           /\ UNCHANGED <<ret, acceptError, sockVars, is_running, stopVars, waiter,
                          connVars, poolVars>>
        \/ /\ Listening("idle", "bound") /\ ~is_decommissioned
           /\ svr_sock' = TRUE /\ kernel' = "open"
           /\ UNCHANGED <<ret, acceptError, closes, flagVars, stopVars, waiter, connVars,
                          poolVars>>

\* a server decommissioned since bind() returns, with its socket left open
EnterListen == /\ lpc = "bound"
               /\ IF is_decommissioned
                  THEN lpc' = "returned" /\ UNCHANGED <<is_running, ret>>
                  ELSE lpc' = "loop" /\ is_running' = TRUE /\ ret' = TRUE
               /\ UNCHANGED <<acceptError, sockVars, is_decommissioned, stopVars, waiter,
                              connVars, poolVars>>

\* while (svr_sock_ != INVALID_SOCKET)
LoopTest == /\ lpc = "loop"
            /\ lpc' = IF svr_sock THEN "accept" ELSE "drain"
            /\ UNCHANGED <<ret, acceptError, sockVars, flagVars, stopVars, waiter, connVars,
                           poolVars>>

\* accept() returns a connection; it is enqueued as a job
Accept(c) == /\ Listening("accept", "loop")
             /\ kernel = "open" /\ cpc[c] = "backlog"
             /\ cpc' = [cpc EXCEPT ![c] = "queued"]
             /\ Pool!Submit(c)
             /\ UNCHANGED <<ret, acceptError, sockVars, flagVars, stopVars, waiter, left>>

\* EMFILE (after a short sleep), EINTR, EAGAIN, or the idle interval is over
AcceptRetry == /\ Listening("accept", "loop") /\ kernel = "open"
               /\ UNCHANGED <<ret, acceptError, sockVars, flagVars, stopVars, waiter,
                              connVars, poolVars>>

\* accept() fails because stop() has closed the socket, or for any
\* other reason, as a connection that was aborted in the backlog
AcceptFails == /\ Listening("accept", "failed")
               /\ acceptError' = (acceptError \/ kernel = "open")
               /\ UNCHANGED <<ret, sockVars, flagVars, stopVars, waiter, connVars, poolVars>>

FailTest == /\ lpc = "failed"
            /\ lpc' = IF svr_sock THEN "closing" ELSE "drain"
            /\ UNCHANGED <<ret, acceptError, sockVars, flagVars, stopVars, waiter, connVars,
                           poolVars>>

\* the connections in the backlog of a socket that is closed are reset
Backlog == cpc' = [c \in Conns |-> IF cpc[c] = "backlog" THEN "reset" ELSE cpc[c]]

\* close_socket(svr_sock_), which reads svr_sock_ again and leaves it as it is
FailClose == /\ Listening("closing", "drain")
             /\ IF svr_sock THEN closes' = closes + 1 /\ kernel' = "closed" /\ Backlog
                            ELSE UNCHANGED <<closes, kernel, cpc>>
             /\ ret' = FALSE
             /\ UNCHANGED <<acceptError, svr_sock, flagVars, stopVars, waiter, left, poolVars>>

\* mutant: the task queue is not shut down
DrainNot == /\ Listening("drain", "leave")
            /\ UNCHANGED <<ret, acceptError, sockVars, flagVars, stopVars, waiter, connVars,
                           poolVars>>

\* task_queue->shutdown()
Drain == /\ Listening("drain", "leave")
         /\ Pool!Close
         /\ UNCHANGED <<ret, acceptError, sockVars, flagVars, stopVars, waiter, connVars>>

Leave == /\ Listening("leave", "ending")
         /\ is_decommissioned' = ~ret
         /\ UNCHANGED <<ret, acceptError, sockVars, is_running, stopVars, waiter, connVars,
                        poolVars>>

\* the scope_exit of listen_internal()
ListenEnds == /\ Listening("ending", "returned")
              /\ is_running' = FALSE
              /\ UNCHANGED <<ret, acceptError, sockVars, is_decommissioned, stopVars, waiter,
                             connVars, poolVars>>

----------------------------------------------------------------------------
(* stop(), decommission(), wait_until_ready() *)

Stopping(s, from, to) == spc[s] = from /\ spc' = [spc EXCEPT ![s] = to]

StopTest(s) == /\ Stopping(s, "idle", IF is_running THEN "checked" ELSE "reset")
               /\ UNCHANGED <<listenVars, sockVars, flagVars, mine, waiter, connVars, poolVars>>

\* mutant: the socket is read, not taken
StopReads(s) == /\ Stopping(s, "checked", "close")
                /\ mine' = [mine EXCEPT ![s] = svr_sock]
                /\ UNCHANGED <<listenVars, sockVars, flagVars, waiter, connVars, poolVars>>

\* svr_sock_.exchange(INVALID_SOCKET), after an assertion that a build with
\* NDEBUG leaves out
StopExchange(s) == /\ Stopping(s, "checked", "close")
                   /\ mine' = [mine EXCEPT ![s] = svr_sock]
                   /\ svr_sock' = FALSE
                   /\ UNCHANGED <<listenVars, kernel, closes, flagVars, waiter, connVars,
                                  poolVars>>

\* shutdown_socket() and close_socket() of what this thread took
StopClose(s) == /\ Stopping(s, "close", "reset")
                /\ IF mine[s] THEN closes' = closes + 1 /\ kernel' = "closed" /\ Backlog
                              ELSE UNCHANGED <<closes, kernel, cpc>>
                /\ UNCHANGED <<listenVars, svr_sock, flagVars, mine, waiter, left, poolVars>>

StopReset(s) == /\ Stopping(s, "reset", "done")
                /\ is_decommissioned' = FALSE
                /\ UNCHANGED <<listenVars, sockVars, is_running, mine, waiter, connVars, poolVars>>

Decommission == /\ ~is_decommissioned
                /\ is_decommissioned' = TRUE
                /\ UNCHANGED <<listenVars, sockVars, is_running, stopVars, waiter, connVars,
                               poolVars>>

\* while (!is_running_ && !is_decommissioned): two reads, sleep, again
WaitRunning == /\ waiter = "waiting"
               /\ waiter' = IF is_running THEN "ready" ELSE "second"
               /\ UNCHANGED <<listenVars, sockVars, flagVars, stopVars, connVars, poolVars>>

WaitDecommissioned == /\ waiter = "second"
                      /\ waiter' = IF is_decommissioned THEN "ready" ELSE "waiting"
                      /\ UNCHANGED <<listenVars, sockVars, flagVars, stopVars, connVars, poolVars>>

----------------------------------------------------------------------------
(* a connection: the client's end is external, then its job,               *)
(* process_and_close_socket()                                              *)

Connect(c) == /\ cpc[c] = "new" /\ kernel = "open"
              /\ cpc' = [cpc EXCEPT ![c] = "backlog"]
              /\ UNCHANGED <<listenVars, sockVars, flagVars, stopVars, waiter, left,
                             poolVars>>

\* a thread of the task queue takes the job
Begin == /\ Pool!Start
         /\ cpc' = [cpc EXCEPT ![accepted[started + 1]] = "serving"]
         /\ UNCHANGED <<listenVars, sockVars, flagVars, stopVars, waiter, left>>

\* shutdown_socket() and close_socket() end the job
Hangup(c) == cpc' = [cpc EXCEPT ![c] = "closed"] /\ Pool!Finish(c)

\* keep_alive() returns false, for the timeout, an error, or a server that is
\* stopping; or the client is gone or too slow: nothing can be read or written
Expire(c) == /\ cpc[c] = "serving"
             /\ Hangup(c)
             /\ UNCHANGED <<listenVars, sockVars, flagVars, stopVars, waiter, left>>

\* mutant: the count starts again instead of running out
RespondForever(c, hang) ==
  /\ cpc[c] = "serving"
  /\ IF hang THEN Hangup(c) ELSE UNCHANGED <<cpc, poolVars>>
  /\ left' = IF hang THEN left ELSE [left EXCEPT ![c] = IF @ = 1 THEN KeepAliveMax ELSE @ - 1]
  /\ UNCHANGED <<listenVars, sockVars, flagVars, stopVars, waiter>>

\* a request is read and its answer written (HttplibRequest); the connection closes
\* if process_request() says so or fails (hang), or the count is used up
Respond(c, hang) ==
  /\ cpc[c] = "serving"
  /\ IF hang \/ left[c] = 1 THEN Hangup(c) ELSE UNCHANGED <<cpc, poolVars>>
  /\ left' = IF hang THEN left ELSE [left EXCEPT ![c] = @ - 1]
  /\ UNCHANGED <<listenVars, sockVars, flagVars, stopVars, waiter>>

----------------------------------------------------------------------------
ListenStep == \/ Bind \/ EnterListen \/ LoopTest \/ (\E c \in Conns : Accept(c)) \/ AcceptRetry
              \/ AcceptFails \/ FailTest \/ FailClose \/ Drain \/ Leave \/ ListenEnds
StopStep(s) == StopTest(s) \/ StopExchange(s) \/ StopClose(s) \/ StopReset(s)
WaitStep == WaitRunning \/ WaitDecommissioned
JobStep(c)  == Expire(c) \/ \E hang \in BOOLEAN : Respond(c, hang)

\* listen() has returned and nobody has anything left to do
Over == /\ lpc = "returned" /\ waiter = "ready"
        /\ \A s \in Stoppers : spc[s] = "done"
        /\ UNCHANGED vars

Next == \/ ListenStep \/ Begin \/ WaitStep \/ Decommission \/ Over
        \/ \E s \in Stoppers : StopStep(s)
        \/ \E c \in Conns : Connect(c) \/ JobStep(c)

SafetySpec == Init /\ [][Next]_vars

\* threads run; a connection is answered or times out; a closed socket fails
\* accept(); nobody need connect, stop or decommission
Spec == /\ SafetySpec
        /\ WF_vars(ListenStep) /\ WF_vars(Begin) /\ WF_vars(WaitStep)
        /\ WF_vars(\E s \in Stoppers : spc[s] # "idle" /\ StopStep(s))
        /\ WF_vars(\E c \in Conns : JobStep(c))

----------------------------------------------------------------------------
(* Properties *)

\* When listen() is about to return, every connection it accepted, also one it
\* accepted while stop() was running, has been served and closed: the handlers
\* use locals of the caller by reference.  Nor does is_running() say that the
\* server has stopped while one of them is open.
GracefulStop == (\E c \in Conns : cpc[c] \in {"queued", "serving"}) =>
                   is_running /\ lpc \notin {"leave", "ending", "returned"}

\* The listening descriptor is closed at most once, however many threads call
\* stop() - unless accept() failed by itself, when listen() closes it without
\* taking it out of svr_sock_.
ClosedOnce == closes <= 1 \/ acceptError

\* Once a stop() has taken the socket, listen() returns, whatever the clients do.
StopEndsListen == (\E s \in Stoppers : mine[s]) ~> lpc = "returned"

\* Every accepted connection is closed in the end: connections are not used again,
\* so it is enough that again and again none is open.
AcceptedIsClosed == []<>(\A c \in Conns : cpc[c] \notin {"queued", "serving"})

\* wait_until_ready() returns, whether listen() comes to run or fails, unless
\* somebody calls stop().
WaiterReturns == <>(waiter = "ready") \/ <>(\E s \in Stoppers : spc[s] # "idle")
=============================================================================
