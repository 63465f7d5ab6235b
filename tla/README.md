# A TLA+ project for cpp-http-survey

The repository compares four C++ HTTP stacks (cpp-httplib, Drogon, Boost.Beast
and Seastar) with small benchmark clients and servers. cpp-httplib is part of
the repository as one header, `src/headers/httplib.h`; the others are installed
libraries and appear here only as the programs use them.

This directory holds TLA+ modules that model the programs and the core of
`httplib.h` - its thread pool, its server from the accept loop to the answer, its
client, and the texts and forms that both exchange -, TLC configurations that check
them on small instances, and proofs, checked by TLAPS, of the safety properties of the modules
for all values of their constants.

    tlc -workers 2 -config MCThreadPool.cfg MCThreadPool
    tlapm HttplibServerProofs.tla

## 1. Inventory

| component | state | operations | hard behaviour |
|---|---|---|---|
| `httplib::ThreadPool` (httplib.h 1029-1140) | `jobs_`, `shutdown_`, one mutex and condition variable, the workers | `enqueue`, `shutdown`, the worker loop | notifications after the unlock, a wake-up taken by somebody else, leaving with work queued, join |
| `httplib::Server` life cycle (8130-8165, 8637-8770) | `svr_sock_`, `is_running_`, `is_decommissioned`, the listening socket | `bind_internal`, `listen_internal`, `stop`, `decommission`, `wait_until_ready` | `stop()` from any thread at any point of the accept loop; draining; closing a descriptor once |
| connection loop (4093-4177, 9281-9305) | the count of a kept-alive connection, `close_connection`, `connection_closed` | `keep_alive`, `process_server_socket_core` | the last answer must say so; timeouts; workers occupied by idle connections |
| request processing (8163-9277) | request, response, the buffer of the stream, content readers | parsing, routing, handlers, ranges, compression, writing | content left unread, limits, malformed input, a length announced in one place and written in another, clients that stop anywhere |
| texts and forms (3088-3630, 5998-6082, 6145-6585, 7718-7827, 10341-10394) | `MultipartFormDataParser`, the content providers of a form | percent encodings, queries, the request line, paths and patterns, multipart forms | one side writes what the other parses; a form arrives in pieces cut anywhere |
| `httplib::ClientImpl` (9308-11139) | the socket, `socket_requests_in_flight_`, `socket_should_be_closed_when_request_is_done_`, the connection | the calls of the API, `send`, `stop`, redirections, the destructor | one thread inside a request while others stop or send; `send_()` calls itself; an answer left unread on a connection that is used again |
| concurrent httplib client and server | four atomics on each side, `stats_mutex` | worker threads, upload and download handlers, `/request_stats` | answers lost or late, counters updated one after the other, log lines out of order |
| regular httplib client and server | the same counters, one client thread | the loop of requests, three handlers | failures in the middle of an iteration, a poll between two updates |
| drogon clients | atomics, an event loop | `sendRequests`, the callback, `app().run()`, `quit()` | callbacks that outlive what they captured; who stops the loop |
| drogon server | two counters | two handlers on sixteen event loops | counters updated one after the other, an upload whose client has given up |
| beast clients | per-thread `Stats`, totals | `send_request`, the loops, the sum after the join | failures at each stage, no timeouts |
| beast server | acceptor, one session for each connection, an `io_context` | `on_accept`, `on_read`, `on_write` | errors of `accept`, no threads at all, handlers of many sessions |
| seastar client and server | the accept loop, one coroutine at a time, two streams | `service_loop`, `handle_connection`, `client_connect` | back-pressure, connections lost in the middle, an exception that leaves the loop undefined |
| TLS in `httplib.h`, build trees, `main.cpp` | - | - | not part of any program built here, generated, or without state |

How they interact: `Server::listen_internal` is the one owner of a task queue
and submits one job for each accepted connection; a job runs the connection loop
until the connection is closed, and calls the handlers of the program, which use
locals of `main()` by reference. Clients and servers meet only through
connections. In the drogon clients the threads hand requests to the event loop,
which calls back; in the seastar server the accept loop waits for the coroutine
of a connection; in the beast server handlers of one acceptor and many sessions
run on the threads of one `io_context`.

What makes each component correct:

- *thread pool*: a job that was accepted runs once, in order, to its end; no
  worker sleeps while work waits; `shutdown()` drains, and returns.
- *server*: `listen()` returns after `stop()`, and not before the connections it
  accepted are closed; the listening descriptor is closed once;
  `wait_until_ready()` does not spin for ever.
- *a connection of the server*: the client can find the end of an answer and the
  server the end of a request, or the connection is closed; the answer says
  whether it is; what a client does or does not do, it ends.
- *the client*: a thread uses no socket that was closed and is given no answer to
  another request; no socket is lost; `stop()` is obeyed; every call returns.
- *texts and forms*: the handler sees the path, the parameters and the items that the
  client was given, however the bytes are cut on the way.
- *benchmarks*: every request is settled once, and what is printed is the truth;
  a client never claims what the server has not done; the client ends.
- *seastar transfer*: one buffer at a time, nothing lost, a complete transfer is
  the whole data, later clients are served.

## 2. Modules

Abstract specifications:

- `JobExecutor` - what a task queue promises its owner: jobs start in order, at
  most as many as there are threads, run to their end, and closing waits for all.
- `BenchmarkTally` - what every client is for: settle each request once, then
  print one summary that is true.

Detailed modules, in the order they were planned:

| module | models | implements / uses |
|---|---|---|
| `ThreadPool` | `ThreadPool::enqueue`, `shutdown`, `worker::operator()` | implements `JobExecutor` |
| `HttplibServer` | life cycle of `Server` and how long its connections take | uses `JobExecutor` as its task queue |
| `HttplibBench` | concurrent httplib client and server, composed | implements `BenchmarkTally`, uses `JobExecutor` as the server's threads |
| `RegularHttplibBench` | regular httplib client and server, and a poll of `/request_stats` | |
| `DrogonBench` | both drogon clients and the upload handler of the drogon server, composed | implements `BenchmarkTally` |
| `SeastarTransfer` | seastar server and clients, composed | |
| `BeastBench` | both beast clients and the beast server, composed | implements `BenchmarkTally` |
| `HttplibRanges` | byte ranges: resolving, accepting and measuring them | |
| `HttplibRequest` | one connection: the keep-alive loop and `process_request` | uses `HttplibRanges` |
| `HttplibClient` | `ClientImpl`: one client shared by threads, its connections, redirections, `stop()` and its end | |
| `HttplibText` | the functions on texts: encodings, queries, the request line, paths, patterns | |
| `HttplibForms` | a form and a request line from the client that writes them to the handler that reads them | uses `HttplibText` |

The proofs are in `HttplibServerProofs` (of `ThreadPool`, `HttplibServer` and `BeastBench`),
`HttplibBenchProofs`, `RegularBenchProofs` (of `RegularHttplibBench` and
`SeastarTransfer`), `DrogonBenchProofs`, `HttplibRequestProofs`, `HttplibClientProofs`,
`HttplibTextProofs` and `HttplibFormsProofs`; each `MC...` module names the constants of
its run.

### How state and actions correspond to the code

**ThreadPool.** A critical section under `mutex_` is one action; a notification
sent after the unlock is another (`NotifyOne`, `NotifyAll`). A worker is about
to look at the predicate ("check"), inside `wait()` ("asleep"), in `fn()`
("run") or out of its loop ("exited"). Testing the predicate and falling asleep
is one action, since the mutex is held for both; `Spurious` wakes a sleeper for
no reason. `enqueued`, `refused`, `returned` are history. The owner is one
thread, as in `listen_internal()`; other uses of the class do not occur.

**HttplibServer.** `lpc` is the thread inside `listen()`: `Bind`, `EnterListen`,
`LoopTest`, `Accept`, `AcceptRetry`, `AcceptFails`, `FailTest`, `FailClose`,
`Drain`, `Leave`, `ListenEnds` are its steps, one for each access to state that
another thread changes. `stop()` is `StopTest`, `StopExchange`, `StopClose`,
`StopReset`, and as many threads as `Stoppers` has may be in it. `kernel` is the
socket itself, as opposed to the variable `svr_sock_`. `FailClose` reads
`svr_sock_` again and leaves it as it is: that is what the code does.
`Respond(c, hang)` is one request: what is inside it (parsing, routing,
content) is abstracted to whether the connection closes after it; `HttplibRequest`
is the inside. The task queue is `JobExecutor`, without a limit,
as the programs configure it. The assertion in `stop()` (8153) is left out of
the steps, as in a build with `NDEBUG`.

**HttplibBench.** A client thread sends, waits, and either counts a success and
then its bytes, two atomic operations (`CountCompleted`, `AddBytes`), or counts
a failure (`SendFails`, `GiveUp`). `GiveUp` is a timeout or a lost answer and
may happen at any time, also after the server has answered. The handler is
`Begin`, `Count`, `AddTotal`, `LogLine`, `Answer`: the count is taken before
`stats_mutex` and the line is written under it. `upload` is the mode.

**RegularHttplibBench.** The same, for one client thread whose `completed_requests`
is counted at the end of each iteration, failed or not; `PollBegin`, `PollCount`,
`PollBytes` are the stats handler, whose two reads the language leaves in either
order.

**DrogonBench.** `concurrent` says which client. `Post` hands a request to the
loop; `Answer` is the server and the network; `CountOk`, `CountFailed`,
`Complete`, `QuitIfLast` are the callback, each access to an atomic one step,
and one callback at a time, as there is one loop. `DataSize` is what reading
`data_size` through its captured reference gives: the size, or, when the
function whose parameter it was has returned, anything the stack slot may hold.
`Count`, `AddTotal`, `Respond` are the server's upload handler, on any of its loops;
a request can only succeed once its handler has answered, and a handler whose client
has given up goes on. A `HttpClient` has one connection and sends its next request
when the one before is settled.

**SeastarTransfer.** Data is counted in blocks; a connection holds at most `Room` blocks that
were written and not read. `Fail` is an exception in the coroutine of a connection, whose
handler flows off the end of a function that returns a future: undefined behaviour, modelled
as a loop that goes on or does not. A client whose connection is closed early reads nothing
again and again, as the code does (`ReadEof`, `CutOff`).

**BeastBench.** `concurrent` says which client; the regular one has one request
at a time. Handlers of the server never wait and no two sessions share state,
so a handler is one step (the shared static storage of `std::localtime` affects
printed text only). `hardware_concurrency()` may be 0: then no thread runs the
`io_context`, `main()` returns and the kernel resets what it had taken. `Added[n]` are the
totals after n turns of the loop that adds up `thread_stats`.

**HttplibRequest.** `pc` is where the thread of the connection is: waiting for a request
("idle"), in the head ("head"; "skim" for the second `read_headers()` of a target that is too
long), at `Expect` ("expect"), in `routing()` ("route"), in `read_content_core()` ("receive"),
about to call a handler ("call"), at `write_response_core()` ("answer"), writing content
("write"), back in the loop ("done"). What the client sends is a sequence of items: a head,
units of content, and, when it is chunked, the last chunk and, unless the client leaves it
out, the empty line. Behind the last chunk `read_content_chunked()` looks for that line
("trailer"): it comes (`ReceiveEnd`), does not in time (`EndMissing`: the content counts as
read all the same, and `late` remembers it), or a head comes in its place and is taken for
trailers (`EndEaten`). `flight` is what the socket has, `buff` what the `SocketStream` has
read ahead; `Fill` moves any number of items, as `recv()` does, and `Forget` drops the buffer
with the request. A head carries what the code looks at (method, framing, ranges, Connection
and version) and a field `trait` that says where it is unusual: that stands for the parsers. A
handler leaves any member of `Handlings`; it may throw, be replaced by the pre-routing handler
or a file, or read the content itself. `Deliver` and `Refuse` are the two ways to an answer,
with and without `apply_ranges()`; in `Content` and `Announced` the two computations of the
length stay apart, as they do in the code. The shutdown of the server is a provider's loop
that may stop early (`NextPiece`, `ChunksEnd`) and a wait that may end (`Expire`); a read or
write that times out is `HeadFails`, `Skim`, `ReceiveFails`, `WriteFails`. "undefined" is
where an assertion fails or, without assertions, a provider is asked for bytes it does not
have.

**HttplibClient.** Only the holder of `request_mutex_` is inside `send_()`, but
`send_()` calls itself to follow a redirection: `frame[0..depth-1]` are its activation
records, each with its own `pc`, request, socket number and answer, and `error` is the one
variable that they all refer to. Object 0 is the client; a redirection to another host makes
a `ClientImpl` of its own, which has the number of its record, and one to the same host
uses the object again (`Enters`). A critical section under `socket_mutex_` is one action:
`Reuse` and `Connect` (the first block of `send_()`), `Handle` (the server closes),
`Leave` (the `scope_exit`), `Stop`. `in_flight` and `noted` are
`socket_requests_in_flight_` and `socket_should_be_closed_when_request_is_done_`; `fds` are
the descriptors of the process, never closed by anyone but the code. `Write`, `ReadInterim`,
`ReadHead`, `ReadBody` are `process_request()`; each may fail at any time, which is a
timeout, a broken connection, a receiver or a provider that says no. The servers are the
environment: `Answer` answers the oldest request of a connection with any of `Answers`,
`SendContent` sends the content later, `PeerCloses` closes. They answer nothing unasked.
A 303 makes a GET of a POST and drops its headers but not its content provider: the
chunks are then sent without `Transfer-Encoding` ("bare"), the server takes them for
requests, and of the answers on such a connection (`stray`) nobody can say what they
answer; they carry the number 0. The destructor waits ten milliseconds at most for a request in
flight, so using the client while it is destroyed is an error of its user: `Destroy`
comes when no thread uses it.

**HttplibText, HttplibForms.** A text is a sequence of bytes; the few words that the code
compares as a whole (`Content-Disposition: form-data;`, `filename`, `HTTP/1.1`, ...) are
single letters above 255. The operators of `HttplibText` have the names of the functions
they stand for; recursion is written as recursive functions.
In `HttplibForms` the client
writes the form at once (`WriteForm`) or call by call through
`get_multipart_content_provider()` (`ProvideGiven`, `Provide`, `ProvideFinish`), whose
`cur_item` and `cur_start` are its captured state; a provider gives something at each call,
or says that it is done. `Receive(n)` is a piece of
any length given to the parser, and one turn of the loop of `parse()` is one action
(`SkipPreamble`, `NewEntry`, `HeaderTooLong`, `HeaderWaits`, `HeaderLine`, `HeadersEnd`,
`Content`, `ContentGoesOn`, `BoundaryEnd`); `state_` has the numbers of the code. In state 2 a
turn reads as many header lines as have come, and measures the first of them only: `looping`
is that it is at another one. `ReadLine` is the request line and the
routing of the path, `ReceiveEnd` the end of the content. `cut` is history.

## 3. Runs

| run | instance | shows |
|---|---|---|
| `pool` | 3 workers, 4 jobs, limit 2 | jobs run once and in order, the queue is drained at the join, no wake-up is lost; refinement of `JobExecutor`, whose `shutdown()` returns |
| `server` | 2 connections, 1 worker, 2 threads in `stop()`, 2 requests for each connection | graceful stop, one close of the descriptor, termination of `listen()`, of connections and of `wait_until_ready()` |
| `httplib_bench` | 2 threads, 2 requests each, 2 server threads, both modes | the two sides agree, the log is consistent, refinement of `BenchmarkTally`, which includes that the summary comes |
| `regular` | the two benchmarks with one client thread, whichever is started: httplib with 3 requests, both modes; seastar with 2 clients, 5 blocks, room for 2 | true bytes and failures, consistent polls; one connection at a time, nothing lost, closed after the last block, later clients are served |
| `regular_success` | the first of them | failures are printed among the successes (finding 3) |
| `drogon` | 2 threads, 2 requests each, both clients, the server | who stops the loop, the two sides agree, refinement of `BenchmarkTally` |
| `drogon_bytes` | the same | the total reads a dead stack slot (finding 1) |
| `beast` | 2 threads, 2 requests each, both clients, a server with threads or without | refinement of `BenchmarkTally`, connections end |
| `request` | 2 requests of 28 kinds, 8 outcomes of handlers, at most 2 requests for a connection | answers have an end the client can find, content is read to its end, the Connection header is the truth, the connection ends |
| `request_assertion` | the same | a provider is asked for ranges nobody resolved (finding 2) |
| `client` | 2 threads with a call each, 5 kinds of calls, 6 of answers, 1 redirection, 1 `stop()` | sockets are held and not lost, an answer is one's own, results are true, `stop()` is obeyed, calls return |
| `forms` | forms of up to 3 items, from strings and providers, header lines of up to 20 bytes and longer ones; parameters of every byte; paths of many kinds | the handler sees what the client said, wherever the bytes are cut; a form is refused for the named reasons only |

Every property is stated above its definition. Type invariants are checked where they are
proved as well (`pool`, `httplib_bench`, `client`; that of `SeastarTransfer` is only proved);
the other runs spend their time on properties that say more.

### Why the bounds are enough

- `pool`: three workers are one that sleeps, one that is being notified and one
  that steals; four jobs and a limit of two fill the queue, empty it and refuse.
- `server`: one worker and two connections make one wait in the queue while the
  other is served and `stop()` runs; two threads in `stop()` are needed for a
  second close; a count of two has a first and a last answer.
- benchmarks: two threads with two requests each interleave every pair of
  updates and pass through the loops more than once.
- `regular`: three requests fail and succeed in every order, and leave handlers of requests
  that were given up beside the next; the data of the transfer is longer than the buffers by
  more than their size, so writing and reading must alternate; the second client is the one
  that waits.
- `request`: two requests are one that leaves something behind and one that finds
  it, and a count of two has a first and a last answer; content of two units can be
  cut in the middle; chunks come with their empty line in time, late or without it, and with a
request behind them or not; a provider of two bytes has a range at its start, one at its
  end, one outside and three that overlap.
- `client`: two threads are one that holds the connection and one that finds it; one
  redirection makes a nested `send_()`, on the same object or on a new one, and a second is
  refused; the answers keep the connection or close it, lead here, there or nowhere, and
  may come after a 100; one call has a provider whose content is "bare" after a 303.
- `forms`: a boundary of one byte is found, missed, cut and begun in contents of five bytes
  (`\r\n--b` is five); with `MaxHeader` = 20 there are lines of 19, 20 and 22 bytes, first and
  behind another; two items are as many as are allowed and a third is too many; the pattern
  `/:i/u/:j` has a value at its start, a fixed part and a value at its end, and paths have a
  slash more than it or a colon in a value; every byte occurs as the value of a parameter.

`MCRegularBench` runs two programs that share nothing: the one that makes the first step is
the one that is run. While `RegularHttplibBench` runs, `SeastarTransfer` stays as it began,
where its fairness asks no step of it; the other states no fairness.

The bounds (`PerThread`, `MaxStops`, `MaxHops`, `MaxFiles`, ...) are constants,
named where they are declared. No run uses symmetry: each also checks temporal properties
or is small enough.

### Fairness

Each `Spec` states the fairness its comment justifies, and no more:

- threads that can run are run (weak fairness of each thread's steps), as the
  schedulers of the platforms do;
- a job or handler ends: a connection is answered or times out (`httplib` sets
  read and write timeouts by default);
- a client with a timeout (httplib) needs nothing of the server; the drogon and
  beast clients have none, so an answer, an error or a closed connection must
  come: sockets succeed or fail;
- `HttplibRequest` has one fairness, for the thread of the connection: every read,
  write and wait has a timeout (5 seconds each by default), and handlers return;
- `HttplibClient` has one for the thread inside `send()`, whose reads, writes and connections
  have timeouts (300 seconds to connect or read, 5 to write, by default), and one for each
  thread that waits for `request_mutex_` while it is free; the servers have none;
- `HttplibForms` checks safety only and has none;
- nobody is made to connect, to call `stop()`, to lose a message or to wake up
  for no reason.

## 4. Proofs

Proved for all values of the constants, from the assumptions named in the modules
(`WorkersAssumption`, `TransferAssumption`, ...). They say of which sets the constants are and
how large, and three things more: `SummaryAssumption`, that the mark for "nothing printed yet"
is not a summary, `FormsAssumption`, that a boundary has the characters
`is_multipart_boundary_chars_valid()` allows and one at least, and `FramingAssumption`, that a
client sends no content it has not announced, unless with a method whose content the server
reads to the end of the connection. Each is evaluated by TLC on the instances of the runs.

- `HttplibServerProofs`, the pool: `TypeCorrect`, `RunsOnce`, `Drained`, `AwakeAtJoin`,
  `ExitIsLast`, `WakesEnough`, `PoolIsExecutor`. The inductive invariant has four layers.
  `PoolTypeInv` adds to the types that a worker holds a job exactly while it runs one, without
  which `Return` could record `NoJob`. `QueueIsTail` ties the queue to the history. `OnceInv`
  adds that accepted jobs are distinct and that what runs or has finished was started:
  `RunOnce` alone does not say that the job a worker pops is not running elsewhere.
  `ShutdownPhase` ties the flag, the owner and the workers that have left: from it and the
  others follows that after `join()` nothing is queued and nothing runs. `NoLostWakeup` is
  inductive with `TypeInv`, since it counts the notification that is still owed;
  `PoolIsExecutor` takes the layers together: each step is one of `JobExecutor` or leaves it
  alone.
- `HttplibServerProofs`, the server: `ServerTypes`, `StopsGracefully`, `ClosesOnce`,
  `ServerUsesExecutor`. `QueueInv` ties the stage of each connection to its place in the task
  queue: what is open was submitted and has not ended; `ListenInv` that connections are open
  only while the thread in `listen()` is in its loop or waits for the queue to drain;
  `SocketInv` says who may still close: the value of `svr_sock_` is in one place only, the
  variable or the hands of the one thread in `stop()` that has exchanged it.
  `ServerUsesExecutor` is the other side of `PoolIsExecutor`: the server does to `JobExecutor`
  only what its contract allows.
- `HttplibBenchProofs`: `TypeCorrect`, `Credit`, `TwoSidesAgree`, `LogIsTrue`, `KeepsTally`.
  Each shared counter is the cardinality of a set of requests (`ClientCounts`,
  `ServerCounts`), the set of credited ones is contained in the set of answered ones
  (`OkAnswered`), and a thread is in one request at a time (`ThreadInv`); `CreditBacked`
  follows by comparing cardinalities. `HandlerInv` ties each handler to the job of its
  connection, so that when all jobs have ended no upload is half counted. `LogInv` says that
  the lines are as many as the requests logged, that their numbers are those of these
  requests, and that a line's total is at least the bodies of the lines up to it:
  `stats_mutex` orders the totals, not the numbers. `KeepsTally` is the safety half of the
  refinement of `BenchmarkTally`.
- `RegularBenchProofs`, httplib: `PrintsTruth`, of the bytes and the failures that are printed
  (the successes are finding 3), and `StatsAreFit`. As above, for one thread (`ClientCounts`,
  with the iteration that is not counted yet); `PollInv` relates what a poll has read of one
  counter to what the other has become since.
- `DrogonBenchProofs`: `LoopStoppedLast`, `TwoSidesAgree`, `KeepsTally`. `PathInv` follows a
  request through its thread, the server's handler and the callback; `QuitInv`: the callback
  that calls `quit()` has counted itself among all of them, so every other is at least past
  its own count, which is also why `main()` finds nobody at work after it.
- `HttplibServerProofs`, the beast benchmark: `BeastKeepsTally`, the safety half of the
  refinement of `BenchmarkTally`. `SettledInTurn` says that a thread settles its requests one
  after the other, so that none is pending when all threads have left; `CountedWhere` where
  the successes are: in the statistics of the thread that had them, or in the totals.
  `AddedIsTruth` adds up the threads, by induction as for `LengthOfParts` below: the totals
  after n of them are the successes of the first n.
- `RegularBenchProofs`, seastar: `TransferTypes`, `TransferWhole`, `OneAtATime`. What a
  client can read is bounded by what was written, and the handler comes to
  writing only with something left to write (`WritesRest`).
- `HttplibRequestProofs`: `ClosesTold`, `PartialFits`, `StopsAtBoundary`, `AnswersDelimited`.
  `CloseInv` says for every stage what the two flags of the loop and the Connection header
  have to do with each other: the property itself speaks of the end only and is not inductive.
  `RangesFit` holds since `range_error()` runs in the one place from which an answer with
  status 206 can come; `AcceptableInBounds` is the lemma that what it lets pass satisfies the
  assertions of `get_range_offset_and_length()`. Finding 2 shows that the restriction to 206
  is needed. `StreamInv` says where the server is in what the client has sent, the buffer and
  the network taken together: after every head comes its content, as far as it was sent, and
  then the next head, so that reading the number of units announced ends at a head, and behind
  the last chunk comes the empty line or, if it was left out, the next head. `StopsAtBoundary`
  therefore has the exceptions that the property names: a line that was missing, or late (then
  it is all that is left), and the chunks of a DELETE. `OutInv` says that what was written and
  what is still to be written is what was announced. `Announced` and `Content` compute the two
  separately, as the code does, and agree only if the ranges announced are the ranges that the
  provider is asked for, and none of its pieces is negative. Their sum, `LengthOf`, is a
  recursive function; that it is the first piece and the sum of the others (`LengthOfParts`)
  is proved by induction over the set of the numbers up to which the function exists and is
  what it should be (`AllNumbers`, from `LeastNumber`, from the well-foundedness of the
  natural numbers), which needs no theorem with an operator as a parameter.
- `HttplibClientProofs`: `ClientTypes`, `ClientHoldsDescriptor`, `ClientLeaksNothing`,
  `ClientResultTrue`, `ClientObeysStop`, `ClientAnswerIsOwn`. The first three are from
  `ClientInvariant`. The descriptor that a thread reads from stays open since `stop()` only
  shuts a socket down while requests are in flight: so the invariant needs `in_flight`
  exactly. `Chain` says that only the innermost activation record works, that the records of
  an object follow one another and that the first of them made it; `Counts` that `in_flight`
  of an object is the number of its records that have come past the locked block, counted at
  its innermost one, and that an object without a record has no socket; `Sockets` that the
  open descriptors are those of the objects, no two of which share one; `Held` is the property
  itself. `StaysChain`, `DropsCounts` and their like say what a step inside a record and a
  return do to these parts, once for all actions. `Fate` adds what a failure and a stop leave
  behind them: a record that goes on has seen no error, one that is lost has one, and the note
  of `stop()` stays with its object, or its socket is gone. `Own` says of every connection
  that it is clean: what the server owes and what has arrived answer nothing any more, or are
  answers of nobody (`stray`). The exception is the connection of the exchange at work or of
  one that has failed and is about to close it, on which there is the answer to that request,
  with its interim answers before it and its content after it (`Awaited`, `AtHead`, `AtBody`),
  and nothing behind. Each operation on a line is a lemma of its own (an answer arrives, an
  interim answer or a head is read, content is skipped).
- `HttplibTextProofs`: `DecodeEscaped`, and the lemmas on the functions on texts.
  `DecodeEscaped` says that `decode_url()` undoes `encode_query_param()` and
  `encode_url()`: the decoder takes three characters at an escape and one elsewhere, so the
  induction is over the text, appended to at its end, with a lemma on what an escape is
  read as (`EscapedSame`, `EscapedTwice`). `PartsJoined`: what is split at a
  separator and joined with it is the text; `LevelCounts`: the level of `is_valid_path()`
  is the number of names less the number of `..`, and never below zero in a valid path.
- `HttplibFormsProofs`: `RouteTrueAlways`, `LineTrueAlways`, with lemmas of
  `HttplibTextProofs`. For the first, which leaves a slash more at the end and parts with a
  colon to section 5, `RouteFilled` follows `PathParamsMatcher::match()` from its end: if the
  rest of the path is the rest of the pattern with its values, so is the path from one part
  earlier. For the second, `LineParsed`: what the server parses is what the client wrote,
  since no separator of the request line, of a query or of a parameter occurs in what
  `encode_query_param()` and `encode_url()` leave (`PathCharsAre`, `KeepsMapped`), so every
  `split()` and `divide()` finds the places that were written (`WordsMade`, `ParamRead`), and
  two texts differ once encoded when they differ before (`WordsDiffer`), so that the
  parameters seen once are the same. `LineInv` adds to this where the content of a form with
  parameters is: what was read, followed by what is on the wire, is what the client wrote.
- `HttplibFormsProofs`, forms: `FormTrueAlways`, for forms whose first piece has the whole
  first boundary line (of others only that the last items are whole), and `FormTakenAlways`,
  that forms are refused for the reasons `FormTaken` lists only: that line cut, a client that
  breaks off, no item or too many, a header line of `MaxHeader` bytes or more, text after the
  end. Both are from `FormInv`. What is in the buffer, on the wire and still to be written by
  the client, one after the other (`Rest`), is at every moment the text of the form from some
  place on: from item j on (`From`), behind its first line (`Opened`), from header line l on
  (`HeadersFrom`), behind its headers (`Behind`) or its content (`Closed`). What the client
  has still to write (`ToWrite`) follows from `cur_item` and `cur_start`, and each of its
  calls takes its text from the front of that (`Sends`), so only the parser moves the place.
  With each place goes what was collected there (`StartsAt`, `HeadsAt`, `FillsAt`,
  `ClosesAt`): the items before, whole, and of item j the header lines read or a first part of
  the content. One lemma for each state says what a turn of `parse()` makes of it however much
  of `Rest` is in the buffer. `HeadsNext`: a line that is found is the next header line
  (`LineAt`: no header line has a line break), and what is read of it is what was written
  (`LineReadAs`, `DispositionParsed`: the separators that `split()` and `divide()` look for
  are in no value). `FillsWhole`, `FillsMore`: the boundary found first is the one behind the
  content (`FoundInside`, `FoundAcross`: it is not in the content, and since it has one
  carriage return, at its beginning, it does not overlap one), and what is handed on before
  leaves room for it. `ClosesNext`: what follows a boundary tells the last item from the
  others. The invariant needs more than the place: that a parser that returned does not have
  what it waits for in the buffer (`ReadingInv`, else the end of the form could be missed),
  that the first piece has the whole first boundary line unless `cut` (`Untouched`), that the
  entries collected are as many as counted (`CountInv`), and what a parser does that goes on
  behind the last boundary, or took a line for the first one (`Over`). No line is too long
  (`Fits`, `HeadsLong`, `FirstSpot`): what has come of a header line, with the carriage return
  behind it, is no longer than the longest line allowed. Contents of any length, any number of
  items, header lines and pieces; header lines of any length in `FormTrueAlways`, up to the
  limit in `FormTakenAlways`.

The type invariants of `HttplibRequest`, `HttplibServer`, the regular httplib, the drogon and
the beast benchmark and `SeastarTransfer` are proved with the theorems above and not checked
by a run.

Only model-checked are the liveness properties: fairness and `ENABLED` are outside what the
provers handle. Of `ImplementsExecutor` and `ImplementsTally` the theorems are the safety
half; that `shutdown()` returns and the summary comes is checked.

## 5. Findings

1. `concurrent_drogon_client.cpp:37-43`: the callback reads `data_size`, a
   parameter of a function that has usually returned, through a reference.
2. `httplib.h:6673`: the assertion that a range was resolved is false when a handler
   answers a request for a range with an error status of its own and a file or a
   provider: `range_error()` leaves such answers alone, `write_content_with_provider()`
   applies the ranges.
3. `regular_httplib_client.cpp:47`: a request is counted as completed whether it succeeded or
   failed, and the count is printed as "Successful" (75) beside "Failed" (76), which the
   concurrent client (65, 119) counts apart. Four comments of `httplib.h` say something else
   than the code does. The properties of the runs are stated as the code is, with the
   exception named; what the comment says is a property of its own, and TLC finds it violated
   with the configuration given here:

- `MCHttplibRequestUnended.cfg`, `UnendedTaken`: chunked content "without the final CRLF" is
  allowed (5488-5489), but if another request is there already, its head is read as trailers
  and lost (5495-5516). If the CRLF only comes late, after 5492 has returned, it is read as
  the next head and answered 400: that is the exception `late` of `AtBoundary`.
- `MCHttplibFormsCaptured.cfg`, `RouteCaptured`: the example at the declaration of the matcher
  (1193-1196) drops the colon before a value; `match()` keeps it (7819).
- `MCHttplibFormsLength.cfg`, `RouteLength`: `match()` "returns false if the path is longer than
  the pattern" (7825), but not when what is more is a slash at the end (7826).
- `MCHttplibClientStop.cfg`, `StopAlwaysObeyed`: by the comments at 9540-9541 and 11129-11130
  a request will know of a `stop()` and close its socket; but `send_()` calls itself for a
  redirection and takes the note back (9542), and the call ends with its connection open.
  `StopObeyed` is therefore stated without `follow_location`.

(`tlc -config MCHttplibRequestUnended.cfg MCHttplibRequest`, and likewise with
`MCHttplibForms` and `MCHttplibClient`.)

Of what follows we know no comment, test or document of the repository that says otherwise; the
properties make room for it by name, or the model has it.

*Programs.* The drogon clients never end when there are no requests
(`concurrent_drogon_client.cpp:59`). The beast server loses a pipelined request; its branch
for connections that are kept is not reached with these clients
(`regular_beast_server.cpp:79`).

*Server.* A second `stop()` fails the assertion at 8153; one before `is_running_` is set does
nothing (8151); `decommission()` between `bind` and `listen` leaves a socket open (8686).
A pipelined request may be lost with the buffer of its predecessor (4173).
An answer whose handler threw after it had set content has no length and the connection
stays open; so has a provider without a length; a target that is too long leaves a
connection open whose answer says it closes; chunked content of a DELETE is read as the
next request; the limit of the payload is not applied to chunks.

*Client.* `stop()` reaches neither the object of a redirection to another host nor
a call that is still before its locked block. A 304 with `follow_location` fails with
`Error::Unknown`. A 303 keeps a chunked provider and drops `Transfer-Encoding`.
`redirect()` makes a space of a `+` in the path (9820). `Get(path, params, headers,
progress)` drops `progress` when `params` is empty.

*Forms.* A piece that ends inside the first line of the boundary loses items or the whole
form, since `parse()` erases the buffer when it does not find that line; a content or header
line that looks like that line is then taken for it. `FormTrue` and `FormTaken` say so with
`cut`. An empty form is refused. Of the header lines that come in one piece only the first is
measured, so whether a line that is too long is accepted depends on the pieces. Names with
`;`, `=`, `"` or control bytes do not survive; keys of parameters are not encoded; equal
parameters are seen once. Text after a form may be taken for header lines.

## 6. Not modelled

- TLS (`SSLServer`, `SSLClient`), proxies, digest authentication and compression: compiled
  only with options no program of the repository sets, or not used by any.
- `main.cpp`: one constant handler. `httplib::Client`: it passes each call on to a
  `ClientImpl`. Getters and setters, which store a value.
- Generated build trees, IDE files, binaries.
- Output text, timing, throughput numbers (floating point).
- Weak memory: the atomics are sequentially consistent in the source.
- Of a request: a handler that sets a body and a provider at once; handlers that change
  the response and then let the next one handle the request; `is_connection_closed`.
- Of texts: dates, base64, cookies, quality values, regular expressions as patterns,
  the limits on the length of the head of a request. In `HttplibForms` the content is what
  the parser is given: `HttplibRequest` is how it is read.
- `SocketStream` (7544-7660) is the buffer `buff` of `HttplibRequest`; the client's is not
  told from its socket. `HttplibClient` reads chunked content with its
  final CRLF as one: that a late one is left for the next answer (the client has the reader of
  the server) is not modelled.
- `GET /request_stats` of the concurrent httplib server and of the drogon server: two
  reads of two atomics, as in the regular httplib server, where it is modelled.
- The branch of the beast session for connections that are kept; argument parsing.

## 7. Plan

Next modules, the most important first:

1. The session of the beast server with keep-alive and pipelined requests; argument
   parsing (ports cut to 16 bits).
2. The chunk decoder as a function over short inputs, checked against a reference.
3. `HttplibClient` composed with the connection loop of `HttplibRequest`.

