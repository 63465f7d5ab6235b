---------------------------- MODULE HttplibClient ----------------------------
(***************************************************************************)
(* httplib::ClientImpl, one client shared by several threads: the calls    *)
(* Get(), Post(), ..., send(), which lets one thread through at a time and *)
(* calls itself to follow a redirection, the connection that is kept from  *)
(* one request to the next, and stop(), which any thread may call.         *)
(*                                                                         *)
(* Only the holder of request_mutex_ has activation records of send_();    *)
(* record 0 is that of the call and record i follows the i-th redirection. *)
(* Object 0 is the client; a redirection to another host makes a ClientImpl*)
(* of its own, which has the number of its record.                         *)
(***************************************************************************)
EXTENDS Integers, Sequences, FiniteSets

CONSTANTS
  Threads,        \* the threads that use the client
  Nobody,         \* what holds request_mutex_ when no thread does
  MaxHops,        \* redirect_count_ of a new request
  Calls,          \* the requests of the users
  Answers,        \* what servers answer
  AddressLists,   \* what the addresses of a server do when they are connected to
  PerThread,      \* bound: calls of a thread
  MaxStops        \* bound: calls of stop()

Methods  == {"GET", "HEAD", "POST", "PUT", "PATCH", "DELETE", "OPTIONS"}

\* "bare" is chunked content whose Transfer-Encoding was dropped, "badform" a form
\* with a boundary that is refused
Contents == {"none", "body", "sized", "chunked", "bare", "badform"}

\* "checked": a receiver, a response handler or a progress callback may say no
RequestType == [method : Methods, content : Contents, taker : {"body", "checked"},
                path : {"some", "empty"}]

\* answers 100 that come first; whether the connection is kept; a location that is
\* missing, unusable or https, one on the same server or one on another
AnswerType == [interims : Nat, status : 200..599, conn : {"keep", "close"},
               to : {"nowhere", "here", "away"}]

Attempts == {"nosocket", "nobind", "refused", "timeout", "connected"}

NoRequest == [method |-> "GET", content |-> "none", taker |-> "body", path |-> "empty"]
NoAnswer  == [interims |-> 0, status |-> 200, conn |-> "keep", to |-> "nowhere"]

----------------------------------------------------------------------------
(* The requests that the overloads of the API make *)

Makes(method, contents, takers) ==
  [method : {method}, content : contents, taker : takers, path : {"some", "empty"}]

\* a string or form parameters, with or without progress, or a provider without it
Uploads(method) == Makes(method, {"none", "body"}, {"body", "checked"})
                   \cup Makes(method, {"sized", "chunked"}, {"body"})
Forms(method)   == Makes(method, {"badform"}, {"body"})

GetCalls     == Makes("GET", {"none"}, {"body", "checked"})
HeadCalls    == Makes("HEAD", {"none"}, {"body"})
PostCalls    == Uploads("POST") \cup Forms("POST")
PutCalls     == Uploads("PUT") \cup Forms("PUT")
PatchCalls   == Uploads("PATCH")
DeleteCalls  == Makes("DELETE", {"none", "body"}, {"body", "checked"})
OptionsCalls == Makes("OPTIONS", {"none"}, {"body"})

AllCalls == GetCalls \cup HeadCalls \cup PostCalls \cup PutCalls \cup PatchCalls
            \cup DeleteCalls \cup OptionsCalls

ASSUME ClientAssumption ==
  /\ Nobody \notin Threads /\ MaxHops \in Nat /\ PerThread \in Nat /\ MaxStops \in Nat
  /\ Calls \subseteq AllCalls /\ Answers \subseteq AnswerType
  /\ AddressLists \subseteq Seq(Attempts)

Hops    == 0..MaxHops
Objects == 0..MaxHops

Errors == {"Success", "Unknown", "Connection", "BindIPAddress", "Read", "Write",
           "ExceedRedirectCount", "Canceled", "UnsupportedMultipartBoundaryChars",
           "ConnectionTimeout"}

----------------------------------------------------------------------------

VARIABLES
  keep_alive_, follow_location_,
  todo,           \* calls a thread has still to make
  tpc,            \* where a thread is
  call,           \* the request of its call
  result,         \* what the last call returned
  holder,         \* the thread that holds request_mutex_
  depth,          \* how many activation records of send_() there are
  frame,          \* the records
  error,          \* the variable that all of them refer to
  sock,           \* socket_ of an object, 0 for INVALID_SOCKET
  in_flight,      \* socket_requests_in_flight_
  noted,          \* where socket_should_be_closed_when_request_is_done_ is true
  fds,            \* the open sockets of the process, numbered as they are opened
  opened,         \* how many were opened
  owes,           \* the requests that the peer of an object has and did not answer
  due,            \* the objects whose peers have still to send content
  inbox,          \* what has arrived from the peer and was not read
  down,           \* the objects whose connections were shut down, by either side
  stray,          \* those where chunks were sent without Transfer-Encoding
  serial,         \* how many requests were written
  asked,          \* stop() came while the last call had a request in flight
  stops,          \* how many times stop() was called
  gone            \* the client was destroyed

settings == <<keep_alive_, follow_location_>>
threads  == <<todo, tpc, call, result>>
sockets  == <<sock, in_flight, noted, fds, opened>>
lines    == <<owes, due, inbox, down, stray>>
stopping == <<asked, stops, gone>>
vars     == <<settings, threads, holder, depth, frame, error, sockets, lines,
              serial, stopping>>

Stages == {"enter", "write", "head", "body", "handle", "follow", "wait", "won", "lost"}

Frame    == [pc : Stages, obj : Objects, fd : Nat, req : RequestType, id : Nat,
             got : Nat, ans : AnswerType]
NoFrame  == [pc |-> "enter", obj |-> 0, fd |-> 0, req |-> NoRequest, id |-> 0,
             got |-> 0, ans |-> NoAnswer]
Item     == [is : {"interim", "head", "tail"}, id : Nat, ans : AnswerType]
Debt     == [id : Nat, method : Methods]
NoResult == [end |-> "lost", error |-> "Unknown", id |-> 0, got |-> 0]

Init == /\ keep_alive_ \in BOOLEAN /\ follow_location_ \in BOOLEAN
        /\ todo = [t \in Threads |-> PerThread]
        /\ tpc = [t \in Threads |-> "idle"]
        /\ call = [t \in Threads |-> NoRequest]
        /\ result = NoResult
        /\ holder = Nobody /\ depth = 0 /\ frame = [i \in Hops |-> NoFrame]
        /\ error = "Success"
        /\ sock = [o \in Objects |-> 0] /\ in_flight = [o \in Objects |-> 0]
        /\ noted = {} /\ fds = {} /\ opened = 0
        /\ owes = [o \in Objects |-> <<>>] /\ inbox = [o \in Objects |-> <<>>]
        /\ due = {} /\ down = {} /\ stray = {} /\ serial = 0
        /\ asked = FALSE /\ stops = 0 /\ gone = FALSE

top     == depth - 1
current == frame[top]

At(stage)    == depth > 0 /\ current.pc = stage
Becomes(f)   == frame' = [frame EXCEPT ![top] = f]
Goto(stage)  == Becomes([current EXCEPT !.pc = stage])
Fail(e)      == Goto("lost") /\ error' = e

\* a new activation record of send_(), of object o
Entering(o, r) == [NoFrame EXCEPT !.obj = o, !.req = r]

\* nothing is left of the connection that an object had
Blank(o) == /\ owes' = [owes EXCEPT ![o] = <<>>] /\ inbox' = [inbox EXCEPT ![o] = <<>>]
            /\ due' = due \ {o} /\ down' = down \ {o} /\ stray' = stray \ {o}

\* shutdown_socket() and close_socket() of an object, which may have no open socket
CloseSocket(o) == sock' = [sock EXCEPT ![o] = 0] /\ fds' = fds \ {sock[o]} /\ Blank(o)

----------------------------------------------------------------------------
(* A call and its result *)

Call(t, c) == /\ tpc[t] = "idle" /\ todo[t] > 0 /\ ~gone
              /\ todo' = [todo EXCEPT ![t] = @ - 1]
              /\ IF c.content = "badform"
                 THEN /\ result' = [NoResult EXCEPT !.error = "UnsupportedMultipartBoundaryChars"]
                      /\ UNCHANGED <<tpc, call>>
                 ELSE /\ tpc' = [tpc EXCEPT ![t] = "waiting"]
                      /\ call' = [call EXCEPT ![t] = c]
                      /\ UNCHANGED result
              /\ UNCHANGED <<settings, holder, depth, frame, error, sockets, lines, serial,
                             stopping>>

\* send() takes request_mutex_
Lock(t) == /\ tpc[t] = "waiting" /\ holder = Nobody
           /\ holder' = t /\ tpc' = [tpc EXCEPT ![t] = "sending"]
           /\ depth' = 1 /\ frame' = [frame EXCEPT ![0] = Entering(0, call[t])]
           /\ error' = "Success" /\ result' = NoResult /\ asked' = FALSE
           /\ UNCHANGED <<settings, todo, call, sockets, lines, serial, stops, gone>>

\* the call returns to its user
Deliver(end, e) == /\ result' = [end |-> end, error |-> e, id |-> current.id,
                                  got |-> current.got]
                   /\ call' = [call EXCEPT ![holder] = NoRequest]
                   /\ tpc' = [tpc EXCEPT ![holder] = "idle"]
                   /\ holder' = Nobody /\ depth' = 0
                   /\ frame' = [frame EXCEPT ![0] = NoFrame]
                   /\ UNCHANGED todo

\* detail::redirect() returns to handle_request(), with the request and the response
\* of the redirection if it was won
Resumed(f, end) == IF end = "won" THEN [f EXCEPT !.pc = "won", !.id = current.id,
                                                !.got = current.got, !.ans = current.ans]
                   ELSE [f EXCEPT !.pc = "lost"]

Resume(end) == /\ depth' = top
               /\ frame' = [frame EXCEPT ![top] = NoFrame, ![top - 1] = Resumed(frame[top - 1], end)]
               /\ UNCHANGED <<threads, holder>>

\* send() returns, with request_mutex_ released by the outermost one
Return(end, e) == IF depth = 1 THEN Deliver(end, e) ELSE Resume(end)

----------------------------------------------------------------------------
(* send_(): the connection *)

\* is_socket_alive(): nothing can be read, or something else than the end
Alive(o) == inbox[o] # <<>> \/ o \notin down

Usable(o) == sock[o] # 0 /\ Alive(o)

\* socket_ was used before; it is marked as in use under socket_mutex_
Reuse == /\ At("enter") /\ Usable(current.obj)
         /\ LET o == current.obj
            IN /\ noted' = noted \ {o}
               /\ in_flight' = [in_flight EXCEPT ![o] = @ + 1]
               /\ Becomes([current EXCEPT !.pc = "write", !.fd = sock[o]])
         /\ UNCHANGED <<settings, threads, holder, depth, error, sock, fds, opened, lines,
                        serial, stopping>>

\* create_socket() tries the addresses in their order; only a timeout ends the search
Decisive(as) == {i \in DOMAIN as : as[i] \in {"connected", "timeout"}}
Tried(as)    == IF Decisive(as) = {} THEN DOMAIN as
                ELSE {i \in DOMAIN as : \A j \in Decisive(as) : i <= j}
Failing(as)  == {i \in Tried(as) : as[i] \in {"nobind", "refused"}}

\* the error that create_client_socket() leaves
ConnectError(as) ==
  IF \E i \in Tried(as) : as[i] = "connected"   THEN "Success"
  ELSE IF \E i \in Tried(as) : as[i] = "timeout" THEN "ConnectionTimeout"
  ELSE IF \E i \in Failing(as) : as[i] = "nobind" /\ \A j \in Failing(as) : j <= i
       THEN "BindIPAddress" ELSE "Connection"

\* mutant: the socket of a connection that is dead is forgotten, not closed
ConnectOver(as) ==
  /\ At("enter") /\ ~Usable(current.obj) /\ ConnectError(as) = "Success"
  /\ LET o == current.obj
     IN /\ opened' = opened + 1 /\ sock' = [sock EXCEPT ![o] = opened + 1]
        /\ fds' = fds \cup {opened + 1}
        /\ Blank(o) /\ noted' = noted \ {o}
        /\ in_flight' = [in_flight EXCEPT ![o] = @ + 1]
        /\ Becomes([current EXCEPT !.pc = "write", !.fd = opened + 1])
        /\ error' = "Success"
  /\ UNCHANGED <<settings, threads, holder, depth, serial, stopping>>

\* there is no connection, or its socket is closed because the peer has closed it
Connect(as) ==
  /\ At("enter") /\ ~Usable(current.obj) /\ ConnectError(as) = "Success"
  /\ LET o == current.obj
     IN /\ opened' = opened + 1 /\ sock' = [sock EXCEPT ![o] = opened + 1]
        /\ fds' = (fds \ {sock[o]}) \cup {opened + 1}
        /\ Blank(o) /\ noted' = noted \ {o}
        /\ in_flight' = [in_flight EXCEPT ![o] = @ + 1]
        /\ Becomes([current EXCEPT !.pc = "write", !.fd = opened + 1])
        /\ error' = "Success"
  /\ UNCHANGED <<settings, threads, holder, depth, serial, stopping>>

\* send_() returns before the request counts as in flight
ConnectFails(as) ==
  /\ At("enter") /\ ~Usable(current.obj) /\ ConnectError(as) # "Success"
  /\ CloseSocket(current.obj)
  /\ noted' = noted \ {current.obj}
  /\ error' = ConnectError(as) /\ Return("lost", ConnectError(as))
  /\ UNCHANGED <<settings, in_flight, opened, serial, stopping>>

----------------------------------------------------------------------------
(* process_request() *)

\* while it is written, and until the answer is read, the request owns the socket
exchange == <<settings, threads, holder, depth, sockets, stopping>>

\* after the content of a "bare" request the server and the client disagree about
\* where requests begin: of what the server sends then, nobody can say what it answers
Pending(o, r) == <<[id |-> IF o \in stray THEN 0 ELSE serial + 1, method |-> r.method]>>
                 \o IF r.content = "bare" THEN <<[id |-> 0, method |-> "GET"]>> ELSE <<>>

Owe(o, r) == /\ owes' = [owes EXCEPT ![o] = @ \o Pending(o, r)]
             /\ stray' = IF r.content = "bare" THEN stray \cup {o} ELSE stray
             /\ UNCHANGED <<due, inbox, down>>

Write == /\ At("write") /\ current.req.path = "some" /\ Alive(current.obj)
         /\ serial' = serial + 1
         /\ Becomes([current EXCEPT !.pc = "head", !.id = serial + 1])
         /\ IF current.obj \in down THEN UNCHANGED lines
            ELSE Owe(current.obj, current.req)
         /\ UNCHANGED <<exchange, error>>

\* the path is empty, the socket takes no more, or the provider gives up
WriteFails(e) == /\ At("write")
                 /\ \/ e = "Connection" /\ current.req.path = "empty"
                    \/ e = "Write" /\ current.req.path = "some"
                    \/ /\ e = "Canceled" /\ current.req.path = "some" /\ Alive(current.obj)
                       /\ current.req.content \in {"sized", "chunked", "bare"}
                 /\ Fail(e)
                 /\ UNCHANGED <<exchange, lines, serial>>

Comes(kind) == inbox[current.obj] # <<>> /\ Head(inbox[current.obj]).is = kind
Consume     == /\ inbox' = [inbox EXCEPT ![current.obj] = Tail(@)]
               /\ UNCHANGED <<owes, due, down, stray>>

\* read_response_line() skips an answer 100
ReadInterim == /\ At("head") /\ Comes("interim") /\ Consume
               /\ UNCHANGED <<exchange, frame, error, serial>>

ReadHead == /\ At("head") /\ Comes("head") /\ Consume
            /\ LET m == Head(inbox[current.obj])
               IN Becomes([current EXCEPT !.pc = "body", !.got = m.id, !.ans = m.ans])
            /\ UNCHANGED <<exchange, error, serial>>

\* mutant: reading waits as long as the peer keeps the connection open
ReadFailsAtEnd == /\ At("head") /\ ~Comes("head") /\ ~Comes("interim")
                  /\ ~Alive(current.obj) /\ Fail("Read")
                  /\ UNCHANGED <<exchange, lines, serial>>

\* nothing comes in time, the connection is closed, or what comes is not an answer
ReadFails == /\ At("head") /\ ~Comes("head") /\ ~Comes("interim")
             /\ Fail("Read")
             /\ UNCHANGED <<exchange, lines, serial>>

HasContent(method, status) == status # 204 /\ method # "HEAD"
Moved(status)     == 300 < status /\ status < 400
Skipped(status)   == Moved(status) /\ status # 304 /\ follow_location_

\* the content is read, also that of a redirection, but not after a 304
ReadBody == /\ At("body")
            /\ IF HasContent(current.req.method, current.ans.status) /\ current.ans.status # 304
               THEN Comes("tail") /\ Consume ELSE UNCHANGED lines
            /\ Goto("handle")
            /\ UNCHANGED <<exchange, error, serial>>

BodyFails(e) ==
  /\ At("body") /\ HasContent(current.req.method, current.ans.status)
  /\ \/ e = "Read" /\ current.ans.status # 304
     \/ e = "Canceled" /\ current.req.taker = "checked" /\ ~Skipped(current.ans.status)
  /\ Fail(e)
  /\ UNCHANGED <<exchange, lines, serial>>

----------------------------------------------------------------------------
(* handle_request() and redirect() *)

\* a connection that the server is going to close is closed under socket_mutex_
Handle == /\ At("handle")
          /\ IF current.ans.conn = "close" THEN CloseSocket(current.obj)
             ELSE UNCHANGED <<sock, fds, lines>>
          /\ Goto(IF Moved(current.ans.status) /\ follow_location_ THEN "follow" ELSE "won")
          /\ UNCHANGED <<settings, threads, holder, depth, error, in_flight, noted, opened,
                         serial, stopping>>

\* a 303 makes a GET of it, without body and headers; a content provider stays
Redirected(r, status) ==
  IF status = 303 /\ r.method \notin {"GET", "HEAD"}
  THEN [r EXCEPT !.method = "GET",
                 !.content = CASE @ = "body" -> "none" [] @ = "chunked" -> "bare" [] OTHER -> @]
  ELSE r

Enters(o) == /\ frame' = [frame EXCEPT
                  ![top] = [current EXCEPT !.pc = "wait"],
                  ![depth] = Entering(o, Redirected(current.req, current.ans.status))]
             /\ depth' = depth + 1

\* mutant: redirect_count_ is not looked at
RedirectAlways == /\ At("follow") /\ current.ans.to # "nowhere"
                  /\ Enters(IF current.ans.to = "here" THEN current.obj ELSE depth)
                  /\ UNCHANGED <<settings, threads, holder, error, sockets, lines, serial, stopping>>

\* to the same server with this object, to another one with a new object
Redirect == /\ At("follow") /\ top < MaxHops /\ current.ans.to # "nowhere"
            /\ Enters(IF current.ans.to = "here" THEN current.obj ELSE depth)
            /\ UNCHANGED <<settings, threads, holder, error, sockets, lines, serial, stopping>>

RedirectFails == /\ At("follow")
                 /\ \/ top = MaxHops
                    \/ current.ans.to = "nowhere"
                 /\ Goto("lost")
                 /\ error' = IF top = MaxHops THEN "ExceedRedirectCount" ELSE error
                 /\ UNCHANGED <<exchange, lines, serial>>

----------------------------------------------------------------------------
(* The end of send_() *)

LostError == IF error = "Success" THEN "Unknown" ELSE error

\* the object of this record was made for it and is destroyed
Local == current.obj > 0 /\ current.obj = top

Leaves(end, e, closes) ==
  /\ At(end) /\ error' = e /\ Return(end, e)
  /\ in_flight' = [in_flight EXCEPT ![current.obj] = @ - 1]
  /\ IF closes THEN CloseSocket(current.obj) ELSE UNCHANGED <<sock, fds, lines>>
  /\ UNCHANGED <<settings, noted, opened, serial, stopping>>

Noted == current.obj \in noted

\* mutant: a connection is kept although the request failed
LeaveKeeping == \/ Leaves("won", error, Noted \/ ~keep_alive_ \/ Local)
                \/ Leaves("lost", LostError, Noted \/ ~keep_alive_ \/ Local)

\* mutant: the note that stop() left is not looked at
LeaveIgnoring == \/ Leaves("won", error, ~keep_alive_ \/ Local)
                 \/ Leaves("lost", LostError, TRUE)

\* mutant: a failure without an error of its own stays a success
LeaveSilent == \/ Leaves("won", error, Noted \/ ~keep_alive_ \/ Local)
               \/ Leaves("lost", error, TRUE)

\* the scope_exit of send_(), under socket_mutex_
Leave == \/ Leaves("won", error, Noted \/ ~keep_alive_ \/ Local)
         \/ Leaves("lost", LostError, TRUE)

----------------------------------------------------------------------------
(* stop() and the destructor *)

\* mutant: the socket is closed whoever uses it
StopClosing == /\ stops < MaxStops /\ ~gone
               /\ stops' = stops + 1 /\ asked' = (asked \/ in_flight[0] > 0)
               /\ CloseSocket(0)
               /\ UNCHANGED <<settings, threads, holder, depth, frame, error, in_flight,
                              noted, opened, serial, gone>>

\* with a request in flight the socket is only shut down, and a note is left
Stop == /\ stops < MaxStops /\ ~gone
        /\ stops' = stops + 1 /\ asked' = (asked \/ in_flight[0] > 0)
        /\ IF in_flight[0] > 0
           THEN /\ noted' = noted \cup {0}
                /\ down' = IF sock[0] = 0 THEN down ELSE down \cup {0}
                /\ UNCHANGED <<sock, fds, owes, due, inbox, stray>>
           ELSE CloseSocket(0) /\ UNCHANGED noted
        /\ UNCHANGED <<settings, threads, holder, depth, frame, error, in_flight, opened,
                       serial, gone>>

\* ~ClientImpl(), called when no thread uses the client any more
Destroy == /\ ~gone /\ \A t \in Threads : tpc[t] = "idle"
           /\ gone' = TRUE /\ CloseSocket(0)
           /\ UNCHANGED <<settings, threads, holder, depth, frame, error, in_flight, noted,
                          opened, serial, asked, stops>>

----------------------------------------------------------------------------
(* The servers *)

others == <<settings, threads, holder, depth, frame, error, sockets, serial, stopping>>

Answer(o, a) ==
  /\ sock[o] # 0 /\ o \notin down \cup due /\ owes[o] # <<>>
  /\ LET m == Head(owes[o])
         i(kind) == [is |-> kind, id |-> m.id, ans |-> a]
     IN /\ owes' = [owes EXCEPT ![o] = Tail(@)]
        /\ due' = IF HasContent(m.method, a.status) /\ a.status # 304 THEN due \cup {o} ELSE due
        /\ inbox' = [inbox EXCEPT ![o] = @ \o [j \in 1..a.interims |-> i("interim")]
                                           \o <<i("head")>>]
  /\ UNCHANGED <<others, down, stray>>

SendContent(o) == /\ sock[o] # 0 /\ o \in due \ down
                  /\ due' = due \ {o}
                  /\ inbox' = [inbox EXCEPT ![o] =
                                 Append(@, [is |-> "tail", id |-> 0, ans |-> NoAnswer])]
                  /\ UNCHANGED <<others, owes, down, stray>>

PeerCloses(o) == /\ sock[o] # 0 /\ o \notin down
                 /\ down' = down \cup {o}
                 /\ UNCHANGED <<others, owes, due, inbox, stray>>

----------------------------------------------------------------------------

Sending == \/ Reuse \/ Write \/ ReadInterim \/ ReadHead \/ ReadFails \/ ReadBody
           \/ Handle \/ Redirect \/ RedirectFails \/ Leave
           \/ \E as \in AddressLists : Connect(as) \/ ConnectFails(as)
           \/ \E e \in Errors : WriteFails(e) \/ BodyFails(e)

Server == \E o \in Objects : \/ \E a \in Answers : Answer(o, a)
                             \/ SendContent(o) \/ PeerCloses(o)

Next == \/ \E t \in Threads : Lock(t) \/ \E c \in Calls : Call(t, c)
        \/ Sending \/ Server \/ Stop \/ Destroy

SafetySpec == Init /\ [][Next]_vars

\* the thread that is inside send() is scheduled, and waits no longer than its
\* timeouts; one that waits for request_mutex_ gets it once it stays free
Spec == SafetySpec /\ WF_vars(Sending) /\ \A t \in Threads : WF_vars(Lock(t))

----------------------------------------------------------------------------
(* Properties *)

\* The variables have their types: there are never more activation records than
\* redirect_count_ allows.
TypeOK == /\ keep_alive_ \in BOOLEAN /\ follow_location_ \in BOOLEAN
          /\ todo \in [Threads -> 0..PerThread]
          /\ tpc \in [Threads -> {"idle", "waiting", "sending"}]
          /\ call \in [Threads -> RequestType]
          /\ result \in [end : {"won", "lost"}, error : Errors, id : Nat, got : Nat]
          /\ holder \in Threads \cup {Nobody}
          /\ depth \in 0..MaxHops + 1 /\ frame \in [Hops -> Frame] /\ error \in Errors
          /\ sock \in [Objects -> Nat] /\ in_flight \in [Objects -> Nat]
          /\ noted \subseteq Objects /\ fds \subseteq 1..opened /\ opened \in Nat
          /\ owes \in [Objects -> Seq(Debt)]
          /\ inbox \in [Objects -> Seq(Item)]
          /\ due \subseteq Objects /\ down \subseteq Objects /\ stray \subseteq Objects
          /\ serial \in Nat
          /\ asked \in BOOLEAN /\ stops \in 0..MaxStops /\ gone \in BOOLEAN

\* Whatever stop(), redirections and closing connections do meanwhile, the thread
\* that writes a request or reads its answer does so on a socket that is open and
\* still that of its object: the number was not closed, nor given to another socket.
DescriptorHeld == depth > 0 /\ current.pc \in {"write", "head", "body"}
                     => current.fd \in fds /\ current.fd = sock[current.obj]

\* No socket is lost: between two calls at most that of the client is open, and
\* after its destructor none.
NoLeak == holder = Nobody => fds \subseteq {sock[0]} /\ (gone => fds = {})

\* A Result with a response answers the request of the call, or that of its last
\* redirection, and never one that an earlier call gave up or that stop() ended:
\* what is left unread of an answer is not taken for the next one.  (Answer 0
\* comes from a connection that was sent chunks without Transfer-Encoding.)
AnswerIsOwn == result.end = "won" => result.got \in {0, result.id}

\* A Result has a response if and only if its error is Success.
ResultTrue == result.end = "won" <=> result.error = "Success"

\* After a stop() while a request is in flight that follows no redirection, the connection does
\* not outlive the call, also with keep-alive and also if the call succeeds.
StopObeyed == holder = Nobody /\ asked /\ ~follow_location_ => sock[0] = 0

\* What the comments at send_() and stop() say (httplib.h:9540-9541, 11129-11130), of every
\* request, also one that follows a redirection: a stop() while it is in flight is known at
\* the end of it, and the connection is closed when it is done.
StopAlwaysObeyed == holder = Nobody /\ asked => sock[0] = 0

\* Every call returns, whatever the servers do, and although calls wait for each
\* other: a silent server is given up, and redirections end.
CallsReturn == \A t \in Threads : tpc[t] = "waiting" ~> tpc[t] = "idle"
=============================================================================
