--------------------------- MODULE HttplibRequest ---------------------------
(***************************************************************************)
(* One connection of httplib::Server: the keep-alive loop and, for each    *)
(* request, process_request(): reading the head, routing, reading the      *)
(* content, the handlers, and writing the answer.  What a client sends is  *)
(* a sequence of items, the head of a request, units of its content and,   *)
(* for chunked content, the last chunk and the empty line that ends it;    *)
(* what a handler leaves in the response is any member of Handlings.       *)
(* Texts are not modelled: a request that parses badly somewhere says so   *)
(* in its field "trait".                                                   *)
(***************************************************************************)
EXTENDS HttplibRanges

CONSTANTS
  Requests,       \* what clients may send
  Pipelined,      \* the ones they may send before they have their answers
  Handlings,      \* what handlers may leave: [status, kind, size]
  ErrorHandlings, \* the content that error_handler_ may set: [kind, size]
  KeepAliveMax,   \* keep_alive_max_count_
  MaxSent,        \* bound: how many requests a client sends
  MaxBlocks       \* bound: how many blocks a provider without a length writes

RangeType == [first : Int, last : Int]

\* parse_request_line() accepts these methods; "" is that of no request
Methods == {"", "GET", "HEAD", "POST", "PUT", "DELETE", "CONNECT", "OPTIONS", "TRACE",
            "PATCH", "PRI"}

\* where a request is unusual: it cannot be parsed there, or is refused for it;
\* "unended" is chunked content without the final empty line
Traits == {"none", "line", "header", "target", "range", "expect", "boundary", "coding",
           "number", "content", "big", "unended"}

\* the content of a response: none, set_content(), a provider with a length, with
\* chunks or with neither, a file
Kinds == {"none", "body", "sized", "chunked", "stream", "file"}

RequestType == [method : Methods, framing : {"none", "length", "chunked"}, units : Nat,
                ranges : Seq(RangeType), conn : {"keep", "close", "old"}, trait : Traits]

ASSUME RequestAssumption == /\ Requests \subseteq RequestType /\ Pipelined \subseteq Requests
                            /\ Handlings \subseteq [status : Int, kind : Kinds, size : Nat]
                            /\ ErrorHandlings \subseteq [kind : Kinds \ {"file"}, size : Nat]
                            /\ KeepAliveMax \in Nat \ {0} /\ MaxSent \in Nat
                            /\ MaxBlocks \in Nat /\ RangeMaxCount \in Nat

\* of these the server takes what comes as content up to the end of the connection;
\* of others what the head does not announce is not content, for either side
Unbounded(m) == m.framing = "none" /\ m.method \in {"POST", "PUT", "PATCH"}

ASSUME FramingAssumption == \A m \in Requests :
                               m.framing = "none" => m.units = 0 \/ Unbounded(m)

ResponseType == [status : Int, kind : Kinds, size : Nat,
                 by : {"nobody", "reader", "regular"}, apply : {"yes", "no"}]

VARIABLES
  gone,           \* the client has closed its end
  sent,           \* how many requests it has sent
  flight,         \* items sent and not yet received
  buff,           \* read_buff_ of the SocketStream, unread part
  pc,             \* where the thread of the connection is
  count,          \* count of process_server_socket_core()
  closing,        \* close_connection
  hangup,         \* connection_closed
  late,           \* history: the empty line after the last chunk did not come in time
  req, res,       \* the request and the response
  got,            \* units of the content read so far
  out             \* what was announced and what was written

network == <<gone, sent, flight>>
loop    == <<count, closing, hangup, late>>
vars    == <<network, buff, pc, loop, req, res, got, out>>

\* pc: "idle", "head", "skim", "expect", "route", "receive", "trailer", "call",
\* "answer", "write", "done", "closed", "undefined"

NoRequest  == [method |-> "", framing |-> "none", units |-> 0, ranges |-> <<>>,
               conn |-> "keep", trait |-> "none"]
NoResponse == [status |-> -1, kind |-> "none", size |-> 0, by |-> "nobody", apply |-> "no"]
NoOutput   == [framing |-> "none", length |-> 0, told |-> FALSE, written |-> 0,
               todo |-> <<>>, ended |-> "no", cut |-> FALSE]

Init == /\ gone = FALSE /\ sent = 0 /\ flight = <<>> /\ buff = <<>>
        /\ pc = "idle"
        /\ count = KeepAliveMax /\ closing = FALSE /\ hangup = FALSE /\ late = FALSE
        /\ req = NoRequest /\ res = NoResponse /\ got = 0 /\ out = NoOutput

Goto(from, to) == pc = from /\ pc' = to

----------------------------------------------------------------------------
(* The client, and the rest of the server *)

Item(kind) == [is |-> kind, of |-> NoRequest]

Wire(m) == <<[is |-> "head", of |-> m]>> \o [i \in 1..m.units |-> Item("data")]
           \o (IF m.framing = "chunked" THEN <<Item("last")>> ELSE <<>>)
           \o (IF m.framing = "chunked" /\ m.trait # "unended" THEN <<Item("end")>> ELSE <<>>)

Over == pc \in {"closed", "undefined"}

\* the client acts while the server reads or waits: what it sends at another time
\* is not seen before, and answers it does not take are WriteFails
Seen == pc \in {"idle", "head", "skim", "receive", "trailer"}

Send(m) == /\ sent < MaxSent /\ ~gone /\ Seen
           /\ pc = "idle" \/ m \in Pipelined
           /\ sent' = sent + 1 /\ flight' = flight \o Wire(m)
           /\ UNCHANGED <<gone, buff, pc, loop, req, res, got, out>>

\* the client closes; what it has not sent by then it does not send any more
LeaveWith(k) == /\ ~gone /\ Seen
                /\ gone' = TRUE /\ flight' = SubSeq(flight, 1, k)
                /\ UNCHANGED <<sent, buff, pc, loop, req, res, got, out>>

----------------------------------------------------------------------------
(* process_server_socket_core() and keep_alive(): something can be read, also
   the end of the connection, and then svr_sock_ is not looked at; or it waits until
   its timeout or until the server is down *)

Begin == /\ Goto("idle", "head")
         /\ flight # <<>> \/ gone
         /\ closing' = (count = 1) /\ hangup' = FALSE /\ late' = FALSE
         /\ UNCHANGED <<network, buff, count, req, res, got, out>>

\* the objects of the request are gone, with what the SocketStream had in its buffer
Forget == buff' = <<>> /\ req' = NoRequest /\ res' = NoResponse /\ out' = NoOutput

\* process_and_close_socket(): nobody reads what is still on its way
Close == /\ Forget /\ pc' = "closed" /\ flight' = <<>> /\ got' = 0
         /\ UNCHANGED <<gone, sent, loop>>

\* mutant: the connection waits as long as the client does
ExpireGone == pc = "idle" /\ gone /\ Close

Expire == pc = "idle" /\ Close

\* the callback has returned TRUE
Again == /\ pc = "done"
         /\ IF hangup \/ count = 1 THEN Close
            ELSE /\ Forget /\ pc' = "idle" /\ count' = count - 1
                 /\ UNCHANGED <<network, closing, hangup, late, got>>

----------------------------------------------------------------------------
(* Reading, through the buffer of the SocketStream *)

\* DELETE without Content-Length has no content, whatever else its head says
Skipped == req.method = "DELETE" /\ req.framing # "length"

Refusal == CASE req.trait = "boundary"                 -> 400
             [] req.trait = "coding" /\ ~Skipped       -> 415
             [] req.trait = "number" /\ ~Skipped       -> 400
             [] OTHER                                  -> 0

Receiving == /\ pc = "receive" /\ ~Skipped /\ Refusal = 0
             /\ req.framing = "length" => got < req.units

\* recv() returns what has arrived, up to the size of the buffer
Fill(k) == /\ pc \in {"head", "skim", "trailer"} \/ Receiving
           /\ buff = <<>> /\ k \in 1..Len(flight)
           /\ buff' = SubSeq(flight, 1, k) /\ flight' = SubSeq(flight, k + 1, Len(flight))
           /\ UNCHANGED <<gone, sent, pc, loop, req, res, got, out>>

AtEnd == gone /\ flight = <<>>

Comes(kind) == buff # <<>> /\ Head(buff).is = kind

\* what is left of a head after one line of it was read
Rest == Item("data")

\* the response as the two ends of process_request() leave it to the writer
Answered(status, kind, size, apply) ==
  [res EXCEPT !.status = status, !.kind = kind, !.size = size, !.apply = apply]

\* write_response(): an error, with no content but what error_handler_ adds
Refuse(status) == res' = Answered(status, "none", 0, "no") /\ pc' = "answer"

----------------------------------------------------------------------------
(* process_request(), up to the routing *)

\* nothing, or a line that never ends
HeadFails == pc = "head" /\ ~Comes("head") /\ Close

\* a line of something else than a head
Garbage == /\ pc = "head" /\ buff # <<>> /\ Head(buff).is # "head"
           /\ Refuse(400) /\ buff' = Tail(buff)
           /\ UNCHANGED <<network, loop, req, got, out>>

\* parse_request_line() or read_headers() fails in the middle of the head
BadHead == /\ pc = "head" /\ Comes("head")
           /\ LET m == Head(buff).of
              IN /\ m.trait \in {"line", "header"}
                 /\ req' = [m EXCEPT !.ranges = <<>>,
                                     !.conn = IF m.trait = "line" THEN "keep" ELSE @]
           /\ Refuse(400) /\ buff' = <<Rest>> \o Tail(buff)
           /\ UNCHANGED <<network, loop, got, out>>

\* the head is good; the Connection header and the version say whether the
\* connection closes, but a target that is too long is noticed first
GoodHead == /\ pc = "head" /\ Comes("head")
            /\ LET m == Head(buff).of
               IN /\ m.trait \notin {"line", "header"}
                  /\ IF m.trait \in {"target", "range"}
                     THEN req' = [m EXCEPT !.ranges = <<>>] ELSE req' = m
                  /\ hangup' = (m.trait # "target" /\ m.conn \in {"close", "old"})
                  /\ CASE m.trait = "target" -> pc' = "skim" /\ UNCHANGED res
                       [] m.trait = "range"  -> Refuse(416)
                       [] m.trait = "expect" -> pc' = "expect" /\ UNCHANGED res
                       [] OTHER              -> pc' = "route" /\ UNCHANGED res
            /\ buff' = Tail(buff)
            /\ UNCHANGED <<network, count, closing, late, got, out>>

\* 414: a second head is read, although the first was complete; what comes is the
\* content or the next request, of which the first line is lost
Skim == /\ pc = "skim" /\ Refuse(414)
        /\ IF buff = <<>> THEN UNCHANGED buff
           ELSE buff' = (IF Head(buff).is = "head" THEN <<Rest>> ELSE <<>>)
                        \o Tail(buff)
        /\ UNCHANGED <<network, loop, req, got, out>>

\* 100 and, final answer or not, 417: a status line is written and the request goes on
Continue == /\ Goto("expect", "route")
            /\ UNCHANGED <<network, buff, loop, req, res, got, out>>

\* content as it is in the response when no file is opened for it
Plain(h) == IF h.kind = "file" THEN [h EXCEPT !.kind = "none", !.size = 0] ELSE h

\* expect_100_continue_handler_ answers: with the status it leaves in the response
Decline(h) == /\ pc = "expect" /\ h.status # -1
              /\ res' = [res EXCEPT !.status = h.status, !.kind = Plain(h).kind,
                                     !.size = Plain(h).size]
              /\ req' = [req EXCEPT !.ranges = <<>>]
              /\ pc' = "answer" /\ closing' = TRUE /\ hangup' = TRUE
              /\ UNCHANGED <<network, buff, count, late, got, out>>

----------------------------------------------------------------------------
(* Handlers and what becomes of their answer *)

InRange(status) == status >= 200 /\ status < 300

Measure(kind, size) == IF kind \in {"body", "sized"} THEN size ELSE 0

\* the response goes out with its content if the ranges fit it
Deliver(status, kind, size) ==
  LET len == Measure(kind, size)
  IN IF req.ranges # <<>> /\ InRange(status) /\ ~Acceptable(req.ranges, len)
     THEN Refuse(416) /\ req' = [req EXCEPT !.ranges = <<>>]
     ELSE /\ res' = Answered(status, kind, size, "yes")
          /\ req' = IF InRange(status)
                    THEN [req EXCEPT !.ranges = ResolvedAll(@, len)] ELSE req
          /\ pc' = "answer"

\* the status of a routed request: what the handler set, or reading the content
\* failed with, or 200, or 206 for one with ranges
StatusOf(h) == IF h.status # -1 THEN h.status
               ELSE IF res.status # -1 THEN res.status
               ELSE IF req.ranges = <<>> THEN 200 ELSE 206

\* a handler, or exception_handler_ for it, has returned; a file it named is
\* opened now, or is not there
Returned(h) == IF h.kind = "file"
               THEN \/ Deliver(StatusOf(h), "sized", h.size)
                    \/ Refuse(404) /\ req' = [req EXCEPT !.ranges = <<>>]
               ELSE Deliver(StatusOf(h), h.kind, h.size)

\* it has thrown, and there is no exception_handler_: the content stays in the response
Thrown(h) == /\ res' = Answered(500, Plain(h).kind, Plain(h).size, "no")
             /\ req' = [req EXCEPT !.ranges = <<>>]
             /\ pc' = "answer"

----------------------------------------------------------------------------
(* routing() *)

HasContent == {"POST", "PUT", "PATCH", "DELETE"}
HasTable   == HasContent \cup {"GET", "HEAD", "OPTIONS"}

ExpectContent == \/ req.method \in HasContent
                 \/ req.framing = "length" /\ req.units > 0
                 \/ req.framing = "chunked"

\* pre_routing_handler_ has handled the request
PreRouting(h) == /\ pc = "route" /\ (Returned(h) \/ Thrown(h))
                 /\ UNCHANGED <<network, buff, loop, got, out>>

\* a file below a mount point, or a redirection to a directory
FileRequest(h) == /\ pc = "route" /\ req.method \in {"GET", "HEAD"}
                  /\ \/ h.kind = "sized" /\ h.status = -1
                     \/ h.kind = "none" /\ h.status = 301
                  /\ Deliver(StatusOf(h), h.kind, h.size)
                  /\ UNCHANGED <<network, buff, loop, got, out>>

\* a handler that reads the content itself: it does, or it does not
ReaderHandler == /\ pc = "route" /\ req.method \in HasContent
                 /\ pc' \in {"receive", "call"}
                 /\ res' = [res EXCEPT !.by = "reader"]
                 /\ UNCHANGED <<network, buff, loop, req, got, out>>

ReadContent == /\ pc = "route"
               /\ IF ExpectContent THEN pc' = "receive" /\ UNCHANGED res
                  ELSE pc' = "call" /\ res' = [res EXCEPT !.by = "regular"]
               /\ UNCHANGED <<network, buff, loop, req, got, out>>

CallHandler(h) == /\ pc = "call" /\ req.method \in HasTable
                  /\ Returned(h) \/ Thrown(h)
                  /\ UNCHANGED <<network, buff, loop, got, out>>

\* no pattern matches, or the method has no handlers at all
NoHandler == /\ pc = "call" /\ res.by = "regular"
             /\ Refuse(IF req.method \in HasTable THEN 404 ELSE 400)
             /\ req' = [req EXCEPT !.ranges = <<>>]
             /\ UNCHANGED <<network, buff, loop, got, out>>

----------------------------------------------------------------------------
(* read_content_core() and read_content() *)

\* the content was read
Received == /\ pc' = "call" /\ got' = 0
            /\ res' = IF res.by = "reader" THEN res ELSE [res EXCEPT !.by = "regular"]
            /\ UNCHANGED req

\* it was not: a handler that reads it itself sees the status, others are not called
NotReceived(status) ==
  /\ got' = 0
  /\ IF res.by = "reader"
     THEN pc' = "call" /\ res' = [res EXCEPT !.status = status] /\ UNCHANGED req
     ELSE Refuse(status) /\ req' = [req EXCEPT !.ranges = <<>>]

ReceiveNothing == /\ pc = "receive" /\ (Refusal # 0 \/ Skipped)
                  /\ IF Refusal # 0 THEN NotReceived(Refusal) ELSE Received
                  /\ UNCHANGED <<network, buff, loop, out>>

\* a unit is read; the receiver or the multipart parser may refuse it
ReceiveUnit == /\ Receiving /\ req.framing # "none"
               /\ Comes("data") /\ buff' = Tail(buff)
               /\ \/ got' = got + 1 /\ UNCHANGED <<pc, req, res>>
                  \/ req.trait = "content" /\ NotReceived(400)
               /\ UNCHANGED <<network, loop, out>>

\* payload_max_length_ is compared with Content-Length; chunks are not counted
TooBig == req.trait = "big" /\ req.framing = "length"

\* all of it is read: too much, not what it should be, or good; only read_content()
\* limits the content of a form
Complete == \/ TooBig /\ NotReceived(413)
            \/ req.trait = "content" /\ NotReceived(400)
            \/ req.trait = "content" /\ res.by # "reader" /\ NotReceived(413)
            \/ ~TooBig /\ req.trait # "content" /\ Received

ReceiveLength == /\ pc = "receive" /\ req.framing = "length" /\ Refusal = 0
                 /\ got = req.units /\ Complete
                 /\ UNCHANGED <<network, buff, loop, out>>

\* mutant: the content counts as read with its last chunk
ReceiveLastReturns == /\ Receiving /\ req.framing = "chunked"
                      /\ Comes("last") /\ buff' = Tail(buff) /\ Complete
                      /\ UNCHANGED <<network, loop, out>>

\* the last chunk: the empty line is looked for
ReceiveLast == /\ Receiving /\ req.framing = "chunked"
               /\ Comes("last") /\ buff' = Tail(buff) /\ pc' = "trailer"
               /\ UNCHANGED <<network, loop, req, res, got, out>>

ReceiveEnd == /\ pc = "trailer" /\ Comes("end") /\ Complete
              /\ buff' = Tail(buff)
              /\ UNCHANGED <<network, loop, out>>

\* the content counts as read also if nothing comes, in time or at all
EndMissing == /\ pc = "trailer" /\ buff = <<>> /\ Complete
              /\ late' = TRUE
              /\ UNCHANGED <<network, buff, count, closing, hangup, out>>

\* what comes instead is taken for trailers up to its empty line: the whole head of
\* another request, or less if a line of it is too long or does not come in time
EndEaten == /\ pc = "trailer" /\ Comes("head")
            /\ \/ Head(buff).of.trait # "target" /\ Complete /\ buff' = Tail(buff)
               \/ NotReceived(400) /\ buff' = <<Rest>> \o Tail(buff)
            /\ UNCHANGED <<network, loop, out>>

\* neither length nor chunks: everything up to the end of the connection is content
ReceiveAnything == /\ Receiving /\ req.framing = "none"
                   /\ buff # <<>> /\ buff' = <<>>
                   /\ UNCHANGED <<network, pc, loop, req, res, got, out>>

\* nothing more comes, in time or at all
ReceiveFails == /\ Receiving /\ buff = <<>>
                /\ \/ NotReceived(IF TooBig THEN 413 ELSE 400)
                   \/ req.framing = "none" /\ AtEnd /\ Complete
                /\ UNCHANGED <<network, buff, loop, out>>

----------------------------------------------------------------------------
(* write_response_core() *)

\* error_handler_ may add content to an error, and apply_ranges() then runs
WithErrorHandler(h, handled) ==
  [res EXCEPT !.kind = h.kind, !.size = h.size, !.apply = IF handled THEN "yes" ELSE @]

\* the ranges that apply_ranges() cuts the content to, or announces
Applied(r) == IF r.apply = "yes" /\ r.status = 206 THEN req.ranges ELSE <<>>

\* Content-Length, Transfer-Encoding or neither; without apply_ranges() only an
\* empty answer gets a length
Framing(r) == CASE r.kind = "none"                          -> "length"
                [] r.apply = "yes" /\ r.kind \in {"body", "sized"} -> "length"
                [] r.apply = "yes" /\ r.kind = "chunked"           -> "chunked"
                [] OTHER                                    -> "none"

\* mutant: the length of the whole content is announced
AnnouncedWhole(r) == IF Framing(r) = "length" /\ r.kind # "none" THEN r.size ELSE 0

Announced(r) == IF Framing(r) = "length" /\ r.kind # "none"
                THEN TotalLength(Applied(r), r.size) ELSE 0

\* what is going to be written: a body was cut by apply_ranges(), a provider is
\* asked for the ranges of the request
Content(r) == CASE r.kind = "body"  -> [todo |-> <<TotalLength(Applied(r), r.size)>>, frames |-> 0]
                [] r.kind = "sized" -> [todo |-> Pieces(req.ranges, r.size),
                                        frames |-> Frames(req.ranges)]
                [] OTHER            -> [todo |-> <<>>, frames |-> 0]

\* mutant: the answer before the last says nothing
TellsCloseLate == req.conn = "close"

TellsClose == closing \/ req.conn = "close"

\* the status line and the headers; whether they can be written is not looked at
WriteHead(r) == /\ pc = "answer" /\ pc' = "write" /\ res' = r
                /\ out' = [framing |-> Framing(r), length |-> Announced(r),
                           told |-> TellsClose, written |-> Content(r).frames,
                           todo |-> Content(r).todo, ended |-> "no", cut |-> FALSE]
                /\ UNCHANGED <<network, buff, loop, req, got>>

Answer == \/ WriteHead(res)
          \/ res.status >= 400 /\ \E h \in ErrorHandlings, handled \in BOOLEAN :
                                     WriteHead(WithErrorHandler(h, handled))

Writing(kinds) == /\ pc = "write" /\ req.method # "HEAD" /\ res.kind \in kinds
                  /\ UNCHANGED <<network, buff, loop, req, res, got>>

\* the ranges a provider is asked for are in its content: an assertion; without
\* it, the provider is called with positions that are not
Sound == \A i \in DOMAIN req.ranges : InBounds(req.ranges[i], res.size)

WriteNothing == /\ Goto("write", "done") /\ (req.method = "HEAD" \/ res.kind = "none")
                /\ UNCHANGED <<network, buff, loop, req, res, got, out>>

WriteBody == /\ Writing({"body"}) /\ pc' = "done"
             /\ out' = [out EXCEPT !.written = @ + Head(out.todo), !.todo = <<>>]

\* the provider writes a block of the piece it is asked for
WriteBlock == /\ Writing({"sized"}) /\ Sound
              /\ out.todo # <<>> /\ Head(out.todo) > 0
              /\ out' = [out EXCEPT !.written = @ + 1, !.todo[1] = @ - 1]
              /\ UNCHANGED pc

\* a piece is complete, or svr_sock_ is INVALID_SOCKET: the rest is left out
NextPiece == /\ Writing({"sized"}) /\ Sound /\ out.todo # <<>>
             /\ out' = [out EXCEPT !.todo = Tail(@), !.cut = @ \/ Head(out.todo) > 0]
             /\ UNCHANGED pc

WriteEnds == /\ Writing({"sized"}) /\ out.todo = <<>> /\ pc' = "done"
             /\ UNCHANGED out

WriteUndefined == /\ Writing({"sized"}) /\ ~Sound /\ pc' = "undefined"
                  /\ UNCHANGED out

\* a provider without a length writes blocks and says when it is done; writing an
\* empty block to a chunked answer ends the loop without the last chunk
WriteChunk == /\ Writing({"chunked", "stream"}) /\ out.ended = "no"
              /\ \/ out.written < MaxBlocks /\ out' = [out EXCEPT !.written = @ + 1]
                 \/ out' = [out EXCEPT !.ended = "done"]
                 \/ res.kind = "chunked" /\ out' = [out EXCEPT !.ended = "blank"]
              /\ UNCHANGED pc

ChunksEnd == /\ Writing({"chunked", "stream"}) /\ pc' = "done"
             /\ out' = [out EXCEPT !.cut = (out.ended = "no")]

\* the client does not take it, or the provider gives up
WriteFails == /\ pc = "write" /\ req.method # "HEAD" /\ res.kind # "none" /\ Close

----------------------------------------------------------------------------
LoopStep == Begin \/ Expire \/ Again
ReadStep == \/ HeadFails \/ Garbage \/ BadHead \/ GoodHead \/ Skim
            \/ \E k \in 1..Len(flight) : Fill(k)
RouteStep == \/ Continue \/ ReaderHandler \/ ReadContent \/ NoHandler
             \/ \E h \in Handlings : Decline(h) \/ PreRouting(h) \/ FileRequest(h) \/ CallHandler(h)
ReceiveStep == \/ ReceiveNothing \/ ReceiveUnit \/ ReceiveLength \/ ReceiveLast
               \/ ReceiveEnd \/ EndMissing \/ EndEaten \/ ReceiveAnything \/ ReceiveFails
WriteStep == \/ Answer \/ WriteNothing \/ WriteBody \/ WriteBlock \/ NextPiece \/ WriteEnds
             \/ WriteUndefined \/ WriteChunk \/ ChunksEnd \/ WriteFails

ServerStep == LoopStep \/ ReadStep \/ RouteStep \/ ReceiveStep \/ WriteStep

ClientStep == \/ \E m \in Requests : Send(m)
              \/ \E k \in 0..Len(flight) : LeaveWith(k)

Next == ServerStep \/ ClientStep \/ (Over /\ UNCHANGED vars)

SafetySpec == Init /\ [][Next]_vars

\* the thread of the connection runs; reading and waiting time out, and a provider
\* that can only write more blocks than its bound comes to an end
Spec == SafetySpec /\ WF_vars(ServerStep)

----------------------------------------------------------------------------
(* Properties *)

Items == [is : {"head", "data", "last", "end"}, of : Requests \cup {NoRequest}]

\* The connection goes on to another request.
GoesOn == pc = "done" /\ ~hangup /\ count > 1

\* On a connection that goes on, the client can find the end of the answer: as
\* many bytes were written as announced, or the last chunk was - unless a handler
\* threw after it had set content, uses a provider without a length, ends chunks
\* by an empty block or sets a status of its own for a range of a provider, or the
\* answer was cut because the server is going down.
Delimited == (GoesOn /\ req.method # "HEAD") =>
                \/ out.framing = "length" /\ out.written = out.length
                \/ out.framing = "chunked" /\ out.ended \in {"done", "blank"}
                \/ res.apply = "no" /\ res.kind # "none"
                \/ res.kind = "stream"
                \/ res.kind = "sized" /\ res.status # 206 /\ req.ranges # <<>>
                \/ out.cut

AtHead(items) == items = <<>> \/ Head(items).is = "head"

\* When the handler of a request was called with its content, nothing of the
\* content is left to be taken for the next request - unless it is that of a
\* DELETE without Content-Length, or the empty line behind the last chunk came so
\* late that the server went on without it: then that line is left, and nothing else.
\* A client that leaves the line out and sends another request at once loses its head.
AtBoundary == (pc = "done" /\ res.by = "regular") =>
                 LET rest == buff \o flight
                 IN \/ AtHead(rest)
                    \/ Skipped /\ req.framing = "chunked"
                    \/ late /\ Head(rest).is = "end" /\ AtHead(Tail(rest))
                    \/ ~late /\ req.trait = "unended"

\* What the comment at read_content_chunked() says (httplib.h:5488-5489): chunked content
\* may be sent without its final empty line.  What follows it is then the head of another
\* request.
UnendedTaken == (pc = "done" /\ res.by = "regular" /\ req.trait = "unended") =>
                   AtHead(buff \o flight)

\* After an answer that says "Connection: close" the server closes, and it does
\* not close after another one - unless the head was not read to its end or its
\* target is too long, or the request is one of HTTP/1.0.
ClosesAsTold == pc = "done" => /\ out.told => \/ hangup \/ count = 1
                                              \/ req.trait \in {"header", "target"}
                               /\ hangup \/ count = 1 => out.told \/ req.conn = "old"

\* Whatever the client sends, keeps back or does not take, and whether or not the
\* server is told to stop, the job of the connection ends.
ConnectionEnds == <>Over

\* assert() in get_range_offset_and_length(): a provider is asked for ranges that
\* lie in its content.
RangeAsserted == (pc = "write" /\ res.kind = "sized" /\ req.method # "HEAD") => Sound
=============================================================================
