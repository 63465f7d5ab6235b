------------------------ MODULE HttplibRequestProofs ------------------------
(***************************************************************************)
(* Safety of one connection of the server, for any requests, handlers and  *)
(* bounds.  ClosesAsTold rests on CloseInv, which says at every stage what *)
(* connection_closed, close_connection and the Connection header of the    *)
(* request have to do with each other; RangesFit on the fact that          *)
(* range_error() runs before the only place that makes the status 206.     *)
(*                                                                         *)
(* AtBoundary rests on StreamInv, which follows the content of a request   *)
(* through the network and the buffer; Delimited on OutInv, which says     *)
(* that what was written and what is still to be written is what was       *)
(* announced.  The latter needs the sum of the lengths of several pieces,  *)
(* a recursive function: LengthOfParts is proved by induction, on the set  *)
(* of the numbers up to which the function is what it should be.           *)
(***************************************************************************)
EXTENDS HttplibRequest, SequenceTheorems, WellFoundedInduction, TLAPS

TypeInv == /\ flight \in Seq(Items) /\ buff \in Seq(Items)
           /\ req \in RequestType /\ res \in ResponseType
           /\ closing \in BOOLEAN /\ hangup \in BOOLEAN
           /\ "told" \in DOMAIN out

Serving == pc \notin {"idle", "closed"}
Headed  == pc \notin {"idle", "head", "closed"}

CloseInv == /\ pc \in {"idle", "head"} => req = NoRequest
            /\ pc = "head" => ~hangup
            /\ Serving => (count = 1 => closing)
            /\ Serving => (closing => count = 1 \/ hangup)
            /\ Headed => (hangup => closing \/ req.conn \in {"close", "old"})
            /\ Headed => (req.conn = "close" => hangup \/ req.trait \in {"header", "target"})
            /\ pc \in {"write", "done"} => (out.told <=> TellsClose)

\* Every range of an answer with status 206 lies in its content, so the assertions
\* of get_range_offset_and_length() hold for it.
RangesFit == (pc \in {"answer", "write"} /\ res.status = 206) =>
                \A i \in DOMAIN req.ranges :
                   InBounds(req.ranges[i], Measure(res.kind, res.size))

Inv == TypeInv /\ CloseInv /\ RangesFit

----------------------------------------------------------------------------
(* Ranges *)

LEMMA ResolvedType ==
  ASSUME NEW ranges \in Seq(RangeType), NEW len \in Int
  PROVE  ResolvedAll(ranges, len) \in Seq(RangeType)
<1>1. DOMAIN ranges = 1..Len(ranges) /\ Len(ranges) \in Nat
  OBVIOUS
<1>2. \A i \in DOMAIN ranges : ranges[i] \in RangeType
  OBVIOUS
<1>3. \A r \in RangeType : Resolved(r, len) \in RangeType
  BY DEF Resolved, RangeType, Absent
<1>4. ResolvedAll(ranges, len) \in [1..Len(ranges) -> RangeType]
  BY <1>1, <1>2, <1>3 DEF ResolvedAll
<1> QED BY <1>1, <1>4, SeqDef

\* What range_error() lets pass, get_range_offset_and_length() accepts.
LEMMA AcceptableInBounds ==
  ASSUME NEW ranges \in Seq(RangeType), NEW len \in Int, Acceptable(ranges, len)
  PROVE  \A i \in DOMAIN ResolvedAll(ranges, len) :
            InBounds(ResolvedAll(ranges, len)[i], len)
<1> DEFINE R == ResolvedAll(ranges, len)
<1>1. R \in Seq(RangeType)
  BY ResolvedType
<1>2. \A i \in DOMAIN R : 0 <= R[i].first /\ R[i].first <= R[i].last /\ R[i].last <= len - 1
  BY DEF Acceptable
<1>3. ASSUME NEW i \in DOMAIN R PROVE InBounds(R[i], len)
  <2>1. R[i] \in RangeType
    BY <1>1
  <2> HIDE DEF R
  <2> QED BY <1>2, <2>1 DEF InBounds, Absent, RangeType
<1> QED BY <1>3

----------------------------------------------------------------------------
(* What the parts of the actions leave alone *)

SameHead(m) == req'.conn = m.conn /\ req'.trait = m.trait
SameClose   == SameHead(req)

LEMMA RangesCleared ==
  ASSUME req \in RequestType, req' = [req EXCEPT !.ranges = <<>>]
  PROVE  req' \in RequestType /\ SameClose /\ req'.ranges = <<>>
<1>1. <<>> \in Seq(RangeType)
  OBVIOUS
<1>2. req'.ranges = <<>> /\ SameClose
  BY DEF RequestType, SameClose, SameHead
<1>3. req' \in RequestType
  BY <1>1 DEF RequestType
<1> QED BY <1>2, <1>3

LEMMA AnswerSet ==
  ASSUME res \in ResponseType, NEW status \in Int, NEW kind \in Kinds, NEW size \in Nat,
         NEW apply \in {"yes", "no"}
  PROVE  /\ Answered(status, kind, size, apply) \in ResponseType
         /\ Answered(status, kind, size, apply).status = status
         /\ Answered(status, kind, size, apply).kind = kind
         /\ Answered(status, kind, size, apply).size = size
  BY DEF ResponseType, Answered

LEMMA RefuseStep ==
  ASSUME res \in ResponseType, NEW status \in Int, Refuse(status)
  PROVE  res' \in ResponseType /\ pc' = "answer" /\ res'.status = status
<1>1. "none" \in Kinds /\ 0 \in Nat
  BY DEF Kinds
<1>2. "no" \in {"yes", "no"}
  OBVIOUS
<1> DEFINE new == Answered(status, "none", 0, "no")
<1>3. new \in ResponseType /\ new.status = status
  BY ONLY <1>1, <1>2, AnswerSet, res \in ResponseType, status \in Int
<1>4. res' = new /\ pc' = "answer"
  BY DEF Refuse
<1> HIDE DEF new
<1> QED BY ONLY <1>3, <1>4

LEMMA DeliverStep ==
  ASSUME req \in RequestType, res \in ResponseType,
         NEW status \in Int, NEW kind \in Kinds, NEW size \in Nat,
         Deliver(status, kind, size)
  PROVE  req' \in RequestType /\ res' \in ResponseType /\ SameClose
         /\ pc' = "answer" /\ RangesFit'
<1> DEFINE len == Measure(kind, size)
<1>1. len \in Nat
  BY DEF Measure
<1>2. CASE req.ranges # <<>> /\ InRange(status) /\ ~Acceptable(req.ranges, len)
  <2>1. Refuse(416) /\ req' = [req EXCEPT !.ranges = <<>>]
    BY <1>2 DEF Deliver
  <2> QED BY <2>1, RefuseStep, RangesCleared DEF RangesFit
<1>3. CASE ~(req.ranges # <<>> /\ InRange(status) /\ ~Acceptable(req.ranges, len))
  <2>1. /\ res' = Answered(status, kind, size, "yes")
        /\ req' = IF InRange(status) THEN [req EXCEPT !.ranges = ResolvedAll(@, len)] ELSE req
        /\ pc' = "answer"
    BY <1>3 DEF Deliver
  <2>2. res' \in ResponseType /\ res'.status = status /\ res'.kind = kind /\ res'.size = size
    <3> DEFINE new == Answered(status, kind, size, "yes")
    <3>1. "yes" \in {"yes", "no"}
      OBVIOUS
    <3>2. new \in ResponseType /\ new.status = status /\ new.kind = kind /\ new.size = size
      BY ONLY <3>1, AnswerSet, res \in ResponseType, status \in Int, kind \in Kinds, size \in Nat
    <3>3. res' = new
      BY <2>1
    <3> HIDE DEF new
    <3> QED BY ONLY <3>2, <3>3
  <2>3. req.ranges \in Seq(RangeType)
    BY DEF RequestType
  <2>4. ResolvedAll(req.ranges, len) \in Seq(RangeType)
    BY <1>1, <2>3, ResolvedType
  <2>5. req' \in RequestType /\ SameClose
    BY <2>1, <2>4 DEF RequestType, SameClose, SameHead
  <2>6. ASSUME InRange(status)
        PROVE  \A i \in DOMAIN req'.ranges : InBounds(req'.ranges[i], len)
    <3>1. req'.ranges = ResolvedAll(req.ranges, len)
      BY <2>1, <2>6 DEF RequestType
    <3>2. CASE req.ranges = <<>>
      <4>1. DOMAIN ResolvedAll(req.ranges, len) = {}
        BY <3>2 DEF ResolvedAll
      <4> QED BY <3>1, <4>1
    <3>3. CASE Acceptable(req.ranges, len)
      BY <1>1, <2>3, <3>1, <3>3, AcceptableInBounds
    <3> QED BY <1>3, <2>6, <3>2, <3>3
  <2>7. status = 206 => InRange(status)
    BY DEF InRange
  <2>8. RangesFit'
    BY <2>2, <2>6, <2>7 DEF RangesFit
  <2> QED BY <2>1, <2>2, <2>5, <2>8
<1> QED BY <1>2, <1>3

LEMMA ReturnedStep ==
  ASSUME req \in RequestType, res \in ResponseType, NEW h \in Handlings, Returned(h)
  PROVE  req' \in RequestType /\ res' \in ResponseType /\ SameClose
         /\ pc' = "answer" /\ RangesFit'
<1>1. h.status \in Int /\ h.kind \in Kinds /\ h.size \in Nat
  BY RequestAssumption DEF RequestAssumption
<1>2. StatusOf(h) \in Int
  BY <1>1 DEF StatusOf, ResponseType
<1>3. CASE Deliver(StatusOf(h), "sized", h.size)
  <2>1. "sized" \in Kinds
    BY DEF Kinds
  <2> QED BY <1>1, <1>2, <1>3, <2>1, DeliverStep
<1>4. CASE Deliver(StatusOf(h), h.kind, h.size)
  BY <1>1, <1>2, <1>4, DeliverStep
<1>5. CASE Refuse(404) /\ req' = [req EXCEPT !.ranges = <<>>]
  <2>1. res' \in ResponseType /\ pc' = "answer" /\ res'.status = 404
    BY <1>5, RefuseStep
  <2>2. req' \in RequestType /\ SameClose
    BY <1>5, RangesCleared
  <2> QED BY <2>1, <2>2 DEF RangesFit
<1>6. \/ Deliver(StatusOf(h), "sized", h.size)
      \/ Deliver(StatusOf(h), h.kind, h.size)
      \/ Refuse(404) /\ req' = [req EXCEPT !.ranges = <<>>]
  BY DEF Returned
<1> QED BY <1>3, <1>4, <1>5, <1>6

LEMMA PlainType ==
  ASSUME NEW h \in Handlings
  PROVE  Plain(h).kind \in Kinds /\ Plain(h).size \in Nat
<1>1. h \in [status : Int, kind : Kinds, size : Nat]
  BY RequestAssumption DEF RequestAssumption
<1>2. CASE h.kind = "file"
  <2>1. Plain(h) = [h EXCEPT !.kind = "none", !.size = 0]
    BY <1>2 DEF Plain
  <2>2. Plain(h).kind = "none" /\ Plain(h).size = 0
    BY <1>1, <2>1
  <2> QED BY <2>2 DEF Kinds
<1>3. CASE h.kind # "file"
  BY <1>1, <1>3 DEF Plain
<1> QED BY <1>2, <1>3

LEMMA ThrownStep ==
  ASSUME req \in RequestType, res \in ResponseType, NEW h \in Handlings, Thrown(h)
  PROVE  req' \in RequestType /\ res' \in ResponseType /\ SameClose
         /\ pc' = "answer" /\ RangesFit'
<1> DEFINE new == Answered(500, Plain(h).kind, Plain(h).size, "no")
<1>1. res' = new /\ req' = [req EXCEPT !.ranges = <<>>] /\ pc' = "answer"
  BY DEF Thrown
<1>2. res' \in ResponseType /\ res'.status = 500
  <2>1. Plain(h).kind \in Kinds /\ Plain(h).size \in Nat
    BY PlainType
  <2>2. 500 \in Int /\ "no" \in {"yes", "no"}
    OBVIOUS
  <2>3. new \in ResponseType /\ new.status = 500
    BY ONLY <2>1, <2>2, AnswerSet, res \in ResponseType
  <2> HIDE DEF new
  <2> QED BY ONLY <1>1, <2>3
<1> HIDE DEF new
<1>3. req' \in RequestType /\ SameClose
  BY <1>1, RangesCleared
<1> QED BY <1>1, <1>2, <1>3 DEF RangesFit

----------------------------------------------------------------------------
(* The stages of a request *)

Stages == {"skim", "expect", "route", "receive", "trailer", "call", "answer"}

\* a step from one stage to another that leaves the flags alone
LEMMA StageClose ==
  ASSUME CloseInv, pc \in Stages, pc' \in Stages, SameClose,
         UNCHANGED <<count, closing, hangup>>
  PROVE  CloseInv'
  BY DEF CloseInv, Serving, Headed, Stages, SameClose, SameHead

LEMMA ForgetStep ==
  ASSUME Forget
  PROVE  /\ buff' \in Seq(Items) /\ req' \in RequestType /\ res' \in ResponseType
         /\ "told" \in DOMAIN out' /\ req' = NoRequest
<1>1. NoRequest \in RequestType /\ NoResponse \in ResponseType /\ <<>> \in Seq(Items)
  BY DEF NoRequest, NoResponse, RequestType, ResponseType, Methods, Traits, Kinds
<1>2. "told" \in DOMAIN NoOutput
  BY DEF NoOutput
<1> QED BY <1>1, <1>2 DEF Forget

\* the connection is closed
LEMMA CloseStep ==
  ASSUME Inv, Close
  PROVE  Inv'
<1>1. <<>> \in Seq(Items)
  OBVIOUS
<1>2. TypeInv'
  BY <1>1, ForgetStep DEF Inv, TypeInv, Close, loop
<1> QED BY <1>2 DEF Inv, CloseInv, RangesFit, Serving, Headed, Close

LEMMA LoopInv ==
  ASSUME Inv, LoopStep
  PROVE  Inv'
<1>1. CASE Begin
  <2>1. TypeInv'
    BY <1>1 DEF Inv, TypeInv, Begin, network
  <2>2. CloseInv'
    BY <1>1 DEF Inv, CloseInv, Begin, Goto, Serving, Headed
  <2> QED BY <1>1, <2>1, <2>2 DEF Inv, RangesFit, Begin, Goto
<1>2. CASE Forget /\ pc' = "idle" /\ UNCHANGED <<network, closing, hangup, late, got>>
  <2>1. TypeInv'
    BY <1>2, ForgetStep DEF Inv, TypeInv, network
  <2>2. CloseInv'
    BY <1>2, ForgetStep DEF CloseInv, Serving, Headed
  <2> QED BY <1>2, <2>1, <2>2 DEF Inv, RangesFit
<1> QED BY <1>1, <1>2, CloseStep DEF LoopStep, Again, Expire

LEMMA WireType ==
  ASSUME NEW m \in Requests
  PROVE  Wire(m) \in Seq(Items)
<1>1. m.units \in Nat
  BY RequestAssumption DEF RequestAssumption, RequestType
<1>2. /\ [is |-> "head", of |-> m] \in Items
      /\ Item("data") \in Items /\ Item("last") \in Items /\ Item("end") \in Items
  BY DEF Items, Item
<1>3. [i \in 1..m.units |-> Item("data")] \in Seq(Items)
  BY <1>1, <1>2, SeqDef
<1> QED BY <1>2, <1>3 DEF Wire

LEMMA ClientInv ==
  ASSUME Inv, ClientStep
  PROVE  Inv'
<1>1. flight' \in Seq(Items)
  <2>1. CASE \E m \in Requests : Send(m)
    BY <2>1, WireType DEF Inv, TypeInv, Send
  <2>2. CASE \E k \in 0..Len(flight) : LeaveWith(k)
    BY <2>2 DEF Inv, TypeInv, LeaveWith
  <2> QED BY <2>1, <2>2 DEF ClientStep
<1>2. UNCHANGED <<buff, pc, loop, req, res, got, out>>
  BY DEF ClientStep, Send, LeaveWith
<1> QED BY <1>1, <1>2 DEF Inv, TypeInv, CloseInv, RangesFit, Serving, Headed, loop, TellsClose

\* what is read as a head is the request it stands for
LEMMA HeadType ==
  ASSUME TypeInv, buff # <<>>
  PROVE  Head(buff) \in Items /\ Tail(buff) \in Seq(Items) /\ Head(buff).of \in RequestType
<1>1. Head(buff) \in Items /\ Tail(buff) \in Seq(Items)
  BY DEF TypeInv
<1>2. NoRequest \in RequestType
  BY DEF NoRequest, RequestType, Methods, Traits
<1>3. Requests \subseteq RequestType
  BY RequestAssumption DEF RequestAssumption
<1> QED BY <1>1, <1>2, <1>3 DEF Items

LEMMA ReadInv ==
  ASSUME Inv, ReadStep
  PROVE  Inv'
<1>1. Rest \in Items
  BY DEF Rest, Item, Items
<1>2. CASE HeadFails
  BY <1>2, CloseStep DEF HeadFails
<1>3. CASE Garbage
  <2>1. res' \in ResponseType /\ pc' = "answer" /\ res'.status = 400
    BY <1>3, RefuseStep DEF Garbage, Inv, TypeInv
  <2>2. TypeInv'
    BY <1>3, <2>1, HeadType DEF Inv, TypeInv, Garbage, network, loop
  <2>3. req' = NoRequest /\ ~hangup' /\ UNCHANGED loop
    BY <1>3 DEF Inv, CloseInv, Garbage, loop
  <2>4. req'.conn = "keep"
    BY <2>3 DEF NoRequest
  <2>5. CloseInv'
    BY <1>3, <2>1, <2>3, <2>4 DEF Inv, CloseInv, Garbage, loop, Serving, Headed
  <2> QED BY <2>1, <2>2, <2>5 DEF Inv, RangesFit
<1>4. CASE BadHead
  <2> DEFINE m == Head(buff).of
  <2>1. m \in RequestType /\ Tail(buff) \in Seq(Items)
    BY <1>4, HeadType DEF BadHead, Comes, Inv
  <2>2. res' \in ResponseType /\ pc' = "answer" /\ res'.status = 400
    BY <1>4, RefuseStep DEF BadHead, Inv, TypeInv
  <2>3. /\ req' \in RequestType /\ req'.trait \in {"line", "header"}
        /\ req'.trait = "line" => req'.conn = "keep"
    <3>1. /\ m.trait \in {"line", "header"}
          /\ req' = [m EXCEPT !.ranges = <<>>,
                              !.conn = IF m.trait = "line" THEN "keep" ELSE @]
      BY <1>4 DEF BadHead
    <3> HIDE DEF m
    <3>2. <<>> \in Seq(RangeType)
      OBVIOUS
    <3> QED BY <2>1, <3>1, <3>2 DEF RequestType
  <2>4. TypeInv'
    BY <1>1, <1>4, <2>1, <2>2, <2>3 DEF Inv, TypeInv, BadHead, network, loop
  <2>5. CloseInv'
    BY <1>4, <2>2, <2>3 DEF Inv, CloseInv, BadHead, loop, Serving, Headed
  <2> QED BY <2>2, <2>4, <2>5 DEF Inv, RangesFit
<1>5. CASE GoodHead
  <2> DEFINE m == Head(buff).of
  <2>1. m \in RequestType /\ Tail(buff) \in Seq(Items)
    BY <1>5, HeadType DEF GoodHead, Comes, Inv
  <2>2. /\ req' \in RequestType /\ SameHead(m)
    <3>1. req' = m \/ req' = [m EXCEPT !.ranges = <<>>]
      BY <1>5 DEF GoodHead
    <3> HIDE DEF m
    <3>2. <<>> \in Seq(RangeType)
      OBVIOUS
    <3> QED BY <2>1, <3>1, <3>2 DEF RequestType, SameHead
  <2>3. /\ res' \in ResponseType /\ pc' \in Stages
        /\ pc' = "answer" => res'.status = 416
    <3>1. res \in ResponseType
      BY DEF Inv, TypeInv
    <3>2. \/ Refuse(416)
          \/ res' = res /\ pc' \in Stages /\ pc' # "answer"
      BY <1>5 DEF GoodHead, Stages
    <3> QED BY ONLY <3>1, <3>2, RefuseStep DEF Stages
  <2>4. /\ hangup' = (m.trait # "target" /\ m.conn \in {"close", "old"})
        /\ UNCHANGED <<flight, count, closing, got, out>> /\ buff' = Tail(buff)
        /\ pc = "head"
    BY <1>5 DEF GoodHead, network
  <2>5. TypeInv'
    BY <2>1, <2>2, <2>3, <2>4 DEF Inv, TypeInv
  <2>6. CloseInv'
    <3>1. /\ count' = count /\ closing' = closing /\ req'.conn = m.conn /\ req'.trait = m.trait
          /\ pc = "head" /\ pc' \notin {"idle", "head", "closed", "write", "done"}
          /\ hangup' = (m.trait # "target" /\ m.conn \in {"close", "old"})
      BY <2>2, <2>4, <1>5 DEF SameHead, GoodHead, Refuse
    <3>2. (count = 1 => closing) /\ (closing => count = 1)
      BY <3>1 DEF Inv, CloseInv, Serving
    <3> QED BY ONLY <3>1, <3>2 DEF CloseInv, Serving, Headed
  <2> QED BY <2>3, <2>5, <2>6 DEF Inv, RangesFit, Stages
<1>6. CASE Skim
  <2>1. res' \in ResponseType /\ pc' = "answer" /\ res'.status = 414
    BY <1>6, RefuseStep DEF Skim, Inv, TypeInv
  <2>2. buff' \in Seq(Items)
    <3>1. CASE buff = <<>>
      BY <1>6, <3>1 DEF Skim, Inv, TypeInv
    <3>2. CASE buff # <<>>
      <4>1. Tail(buff) \in Seq(Items)
        BY <3>2, HeadType DEF Inv
      <4>2. buff' = <<Rest>> \o Tail(buff) \/ buff' = <<>> \o Tail(buff)
        BY <1>6, <3>2 DEF Skim
      <4> QED BY <1>1, <4>1, <4>2
    <3> QED BY <3>1, <3>2
  <2>3. TypeInv'
    BY <1>6, <2>1, <2>2 DEF Inv, TypeInv, Skim, network, loop
  <2>4. CloseInv'
    BY <1>6, <2>1, StageClose DEF Inv, Skim, Stages, SameClose, SameHead, loop
  <2> QED BY <2>1, <2>3, <2>4 DEF Inv, RangesFit
<1>7. CASE \E k \in 1..Len(flight) : Fill(k)
  <2>1. flight' \in Seq(Items) /\ buff' \in Seq(Items)
    BY <1>7 DEF Fill, Inv, TypeInv
  <2>2. UNCHANGED <<pc, loop, req, res, out>>
    BY <1>7 DEF Fill
  <2> QED BY <2>1, <2>2 DEF Inv, TypeInv, CloseInv, RangesFit, Serving, Headed, loop, TellsClose
<1> QED BY <1>2, <1>3, <1>4, <1>5, <1>6, <1>7 DEF ReadStep

----------------------------------------------------------------------------
(* Routing and reading the content *)

\* a step to an answer of which the ranges fit, or to a stage before it
LEMMA StageInv ==
  ASSUME Inv, pc \in Stages, pc' \in Stages,
         req' \in RequestType, res' \in ResponseType, SameClose,
         flight' \in Seq(Items), buff' \in Seq(Items), UNCHANGED <<count, closing, hangup, out>>,
         pc' = "answer" => RangesFit'
  PROVE  Inv'
<1>1. TypeInv'
  BY DEF Inv, TypeInv
<1>2. CloseInv'
  BY StageClose DEF Inv
<1>3. RangesFit'
  BY DEF RangesFit, Stages
<1> QED BY <1>1, <1>2, <1>3 DEF Inv

LEMMA RouteInv ==
  ASSUME Inv, RouteStep
  PROVE  Inv'
<1> USE DEF Stages
<1>1. req \in RequestType /\ res \in ResponseType /\ flight \in Seq(Items) /\ buff \in Seq(Items)
  BY DEF Inv, TypeInv
<1>2. CASE Continue
  BY <1>1, <1>2, StageInv DEF Continue, Goto, SameClose, SameHead, network, loop
<1>3. CASE ReaderHandler
  <2>1. res' \in ResponseType
    BY <1>1, <1>3 DEF ReaderHandler, ResponseType
  <2> QED BY <1>1, <1>3, <2>1, StageInv DEF ReaderHandler, SameClose, SameHead, network, loop
<1>4. CASE ReadContent
  <2>1. res' \in ResponseType /\ pc' \in {"receive", "call"}
    BY <1>1, <1>4 DEF ReadContent, ResponseType
  <2> QED BY <1>1, <1>4, <2>1, StageInv DEF ReadContent, SameClose, SameHead, network, loop
<1>5. CASE NoHandler
  <2> DEFINE status == IF req.method \in HasTable THEN 404 ELSE 400
  <2>1. res' \in ResponseType /\ pc' = "answer" /\ res'.status = status
    BY <1>1, <1>5, RefuseStep DEF NoHandler
  <2>2. req' \in RequestType /\ SameClose
    BY <1>1, <1>5, RangesCleared DEF NoHandler
  <2>3. RangesFit'
    BY <2>1 DEF RangesFit
  <2> QED BY <1>1, <1>5, <2>1, <2>2, <2>3, StageInv DEF NoHandler, network, loop
<1>6. ASSUME NEW h \in Handlings, Decline(h)
      PROVE  Inv'
  <2>1. h \in [status : Int, kind : Kinds, size : Nat]
    BY RequestAssumption DEF RequestAssumption
  <2>2. res' \in ResponseType
    <3> DEFINE k == Plain(h).kind
               z == Plain(h).size
    <3>1. k \in Kinds /\ z \in Nat
      BY PlainType
    <3>2. res' = [res EXCEPT !.status = h.status, !.kind = k, !.size = z]
      BY <1>6 DEF Decline
    <3> HIDE DEF k, z
    <3> QED BY <1>1, <2>1, <3>1, <3>2 DEF ResponseType
  <2>3. req' \in RequestType /\ SameClose /\ req'.ranges = <<>>
    BY <1>1, <1>6, RangesCleared DEF Decline
  <2>4. TypeInv'
    BY <1>1, <1>6, <2>2, <2>3 DEF Inv, TypeInv, Decline, network
  <2>5. CloseInv'
    BY <1>6, <2>3 DEF Inv, CloseInv, Decline, Serving, Headed, SameClose, SameHead
  <2>6. RangesFit'
    BY <2>3 DEF RangesFit
  <2> QED BY <2>4, <2>5, <2>6 DEF Inv
<1>7. ASSUME NEW h \in Handlings, PreRouting(h) \/ CallHandler(h)
      PROVE  Inv'
  <2>1. Returned(h) \/ Thrown(h)
    BY <1>7 DEF PreRouting, CallHandler
  <2>2. req' \in RequestType /\ res' \in ResponseType /\ SameClose /\ pc' = "answer" /\ RangesFit'
    BY <1>1, <2>1, ReturnedStep, ThrownStep
  <2>3. pc \in Stages /\ UNCHANGED <<flight, buff, count, closing, hangup, out>>
    BY <1>7 DEF PreRouting, CallHandler, network, loop
  <2> QED BY <1>1, <2>2, <2>3, StageInv
<1>8. ASSUME NEW h \in Handlings, FileRequest(h)
      PROVE  Inv'
  <2>1. h.status \in Int /\ h.kind \in Kinds /\ h.size \in Nat
    BY RequestAssumption DEF RequestAssumption
  <2>2. StatusOf(h) \in Int
    BY <1>1, <2>1 DEF StatusOf, ResponseType
  <2>3. req' \in RequestType /\ res' \in ResponseType /\ SameClose /\ pc' = "answer" /\ RangesFit'
    BY <1>1, <1>8, <2>1, <2>2, DeliverStep DEF FileRequest
  <2>4. pc \in Stages /\ UNCHANGED <<flight, buff, count, closing, hangup, out>>
    BY <1>8 DEF FileRequest, network, loop
  <2> QED BY <1>1, <2>3, <2>4, StageInv
<1> QED BY <1>2, <1>3, <1>4, <1>5, <1>6, <1>7, <1>8 DEF RouteStep

LEMMA ReceivedStep ==
  ASSUME Inv, Received
  PROVE  req' \in RequestType /\ res' \in ResponseType /\ SameClose /\ pc' = "call"
  BY DEF Inv, TypeInv, Received, ResponseType, SameClose, SameHead

LEMMA NotReceivedStep ==
  ASSUME Inv, NEW status \in Int, status # 206, NotReceived(status)
  PROVE  /\ req' \in RequestType /\ res' \in ResponseType /\ SameClose
         /\ pc' \in {"call", "answer"} /\ (pc' = "answer" => RangesFit')
<1>1. req \in RequestType /\ res \in ResponseType
  BY DEF Inv, TypeInv
<1>2. CASE res.by = "reader"
  BY <1>1, <1>2 DEF NotReceived, ResponseType, SameClose, SameHead
<1>3. CASE res.by # "reader"
  <2>1. Refuse(status) /\ req' = [req EXCEPT !.ranges = <<>>]
    BY <1>3 DEF NotReceived
  <2>2. res' \in ResponseType /\ pc' = "answer" /\ res'.status = status
    BY <1>1, <2>1, RefuseStep
  <2>3. req' \in RequestType /\ SameClose
    BY <1>1, <2>1, RangesCleared
  <2> QED BY <2>2, <2>3 DEF RangesFit
<1> QED BY <1>2, <1>3

LEMMA ReceiveInv ==
  ASSUME Inv, ReceiveStep
  PROVE  Inv'
<1> USE DEF Stages
<1>1. req \in RequestType /\ res \in ResponseType /\ flight \in Seq(Items) /\ buff \in Seq(Items)
  BY DEF Inv, TypeInv
<1>2. /\ pc \in {"receive", "trailer"} /\ flight' = flight
      /\ UNCHANGED <<count, closing, hangup, out>>
  BY DEF ReceiveStep, ReceiveNothing, ReceiveUnit, ReceiveLength, ReceiveLast, ReceiveEnd,
         EndMissing, EndEaten, ReceiveAnything, ReceiveFails, Receiving, network, loop
<1>3. buff' \in Seq(Items)
  <2>1. \/ buff' = buff \/ buff' = <<>>
        \/ buff # <<>> /\ (buff' = Tail(buff) \/ buff' = <<Rest>> \o Tail(buff))
    BY DEF ReceiveStep, ReceiveNothing, ReceiveUnit, ReceiveLength, ReceiveLast, ReceiveEnd,
           EndMissing, EndEaten, ReceiveAnything, ReceiveFails, Comes
  <2>2. CASE buff # <<>> /\ buff' = Tail(buff)
    BY <2>2, HeadType DEF Inv
  <2>3. CASE buff' = <<>>
    BY <2>3
  <2>4. CASE buff # <<>> /\ buff' = <<Rest>> \o Tail(buff)
    <3>1. Rest \in Items
      BY DEF Rest, Item, Items
    <3> QED BY <2>4, <3>1, HeadType DEF Inv
  <2> QED BY <1>1, <2>1, <2>2, <2>3, <2>4
<1>4. CASE Received
  BY <1>1, <1>2, <1>3, <1>4, ReceivedStep, StageInv
<1>5. CASE \E status \in {400, 413, 415} : NotReceived(status)
  BY <1>1, <1>2, <1>3, <1>5, NotReceivedStep, StageInv
<1>6. CASE pc' \in {pc, "trailer"} /\ UNCHANGED <<req, res>>
  BY <1>1, <1>2, <1>3, <1>6, StageInv DEF SameClose, SameHead
<1>7. Complete => Received \/ NotReceived(400) \/ NotReceived(413)
  BY DEF Complete
<1>8. Refusal # 0 => Refusal \in {400, 415}
  BY DEF Refusal
<1>9. \/ Received
      \/ pc' \in {pc, "trailer"} /\ UNCHANGED <<req, res>>
      \/ \E status \in {400, 413, 415} : NotReceived(status)
  BY <1>7, <1>8 DEF ReceiveStep, ReceiveNothing, ReceiveUnit, ReceiveLength,
                    ReceiveLast, ReceiveEnd, EndMissing, EndEaten, ReceiveAnything,
                    ReceiveFails
<1> QED BY <1>4, <1>5, <1>6, <1>9

----------------------------------------------------------------------------
(* Writing the answer *)

LEMMA WriteHeadInv ==
  ASSUME Inv, NEW STATE r, r \in ResponseType, WriteHead(r),
         r.status = 206 => r = res
  PROVE  Inv'
<1>1. pc = "answer" /\ pc' = "write" /\ res' = r /\ UNCHANGED <<network, buff, loop, req, got>>
  BY DEF WriteHead
<1>2. "told" \in DOMAIN out' /\ (out'.told <=> TellsClose)
  BY DEF WriteHead
<1>3. TypeInv'
  BY <1>1, <1>2 DEF Inv, TypeInv, network, loop
<1>4. CloseInv'
  BY <1>1, <1>2 DEF Inv, CloseInv, TellsClose, Serving, Headed, loop
<1>5. RangesFit'
  BY <1>1 DEF Inv, RangesFit
<1> QED BY <1>3, <1>4, <1>5 DEF Inv

LEMMA WriteInv ==
  ASSUME Inv, WriteStep
  PROVE  Inv'
<1>1. CASE Answer
  <2>1. CASE WriteHead(res)
    BY <2>1, WriteHeadInv DEF Inv, TypeInv
  <2>2. ASSUME NEW h \in ErrorHandlings, NEW handled \in BOOLEAN, res.status >= 400,
               WriteHead(WithErrorHandler(h, handled))
        PROVE  Inv'
    <3> DEFINE r == WithErrorHandler(h, handled)
    <3>1. h.kind \in Kinds /\ h.size \in Nat
      BY RequestAssumption DEF RequestAssumption
    <3>2. r \in ResponseType /\ r.status = res.status
      BY <3>1 DEF WithErrorHandler, Inv, TypeInv, ResponseType
    <3> QED BY <2>2, <3>2, WriteHeadInv
  <2> QED BY <1>1, <2>1, <2>2 DEF Answer
<1>2. CASE WriteFails
  BY <1>2, CloseStep DEF WriteFails
<1>3. CASE /\ pc = "write" /\ pc' \in {"write", "done", "undefined"}
           /\ UNCHANGED <<network, buff, loop, req, res>>
           /\ "told" \in DOMAIN out' /\ out'.told = out.told
  <2>1. TypeInv'
    BY <1>3 DEF Inv, TypeInv, network, loop
  <2>2. CloseInv'
    BY <1>3 DEF Inv, CloseInv, Serving, Headed, TellsClose, loop
  <2>3. RangesFit'
    BY <1>3 DEF Inv, RangesFit
  <2> QED BY <2>1, <2>2, <2>3 DEF Inv
<1>4. \/ Answer \/ WriteFails
      \/ /\ pc = "write" /\ pc' \in {"write", "done", "undefined"}
         /\ UNCHANGED <<network, buff, loop, req, res>>
         /\ "told" \in DOMAIN out' /\ out'.told = out.told
  BY DEF WriteStep, WriteNothing, WriteBody, WriteBlock, NextPiece, WriteEnds,
         WriteUndefined, WriteChunk, ChunksEnd, Writing, Goto, Inv, TypeInv
<1> QED BY <1>1, <1>2, <1>3, <1>4

----------------------------------------------------------------------------
LEMMA InitInv ==
  ASSUME Init
  PROVE  Inv
<1>1. NoRequest \in RequestType /\ NoResponse \in ResponseType /\ <<>> \in Seq(Items)
  BY DEF NoRequest, NoResponse, RequestType, ResponseType, Methods, Traits, Kinds
<1>2. "told" \in DOMAIN NoOutput
  BY DEF NoOutput
<1> QED BY <1>1, <1>2 DEF Init, Inv, TypeInv, CloseInv, RangesFit, Serving, Headed

LEMMA NextInv ==
  ASSUME Inv, [Next]_vars
  PROVE  Inv'
<1>1. CASE UNCHANGED vars
  BY <1>1 DEF vars, network, loop, Inv, TypeInv, CloseInv, RangesFit, Serving, Headed, TellsClose
<1>2. CASE Next
  BY <1>1, <1>2, LoopInv, ReadInv, RouteInv, ReceiveInv, WriteInv, ClientInv
     DEF Next, ServerStep
<1> QED BY <1>1, <1>2

\* What a request, its answer and the flags of the loop have to do with each other, at
\* every stage of process_request() (httplib.h:9005-9277).
THEOREM Invariance == SafetySpec => []Inv
<1>1. Init => Inv
  BY InitInv
<1>2. Inv /\ [Next]_vars => Inv'
  BY NextInv
<1> QED BY <1>1, <1>2, PTL DEF SafetySpec

\* For any requests, handlers and limit: the server closes after an answer that says
\* so and, but for HTTP/1.0 and heads it did not read to the end, only after one.
THEOREM ClosesTold == SafetySpec => []ClosesAsTold
<1>1. Inv => ClosesAsTold
  BY DEF Inv, TypeInv, CloseInv, ClosesAsTold, Serving, Headed, TellsClose, RequestType
<1> QED BY <1>1, Invariance, PTL

\* Of an answer with status 206 every range lies in its content, whatever the
\* header said: the assertion on ranges can fail for other statuses only.
THEOREM PartialFits == SafetySpec => []RangesFit
<1>1. Inv => RangesFit
  BY DEF Inv
<1> QED BY <1>1, Invariance, PTL

----------------------------------------------------------------------------
(* What a client has sent and the server has not taken *)

Stream == buff \o flight

\* the items that follow the units of the content of a request, and its head
Ending(m) == IF m.framing # "chunked" THEN 0 ELSE IF m.trait = "unended" THEN 1 ELSE 2
Extent(m)  == m.units + Ending(m)

\* what the item is that has k more of them behind it
Part(m, k) == IF k >= Ending(m) THEN "data"
              ELSE IF k = 0 /\ m.trait # "unended" THEN "end" ELSE "last"

\* after position p of S come the last n items of the content of m, as far as they were
\* sent, and then a head; a client that has not left has sent all of them
HoldsRest(S, p, n, m, whole) ==
  /\ \A j \in 1..n : p + j <= Len(S) =>
        S[p + j].is = Part(m, n - j)
  /\ p + n + 1 <= Len(S) => S[p + n + 1].is = "head"
  /\ whole => p + n <= Len(S)

WellSent(S, whole) == \A i \in 1..Len(S) :
  S[i].is = "head" => HoldsRest(S, i, Extent(S[i].of), S[i].of, whole)

Before == {"idle", "head", "skim", "expect", "route", "receive", "trailer"}
After  == {"call", "answer", "write", "done"}

\* what of the content of a request is left when its handler is called
Settled == \/ HoldsRest(Stream, 0, 0, req, ~gone)
           \/ Skipped /\ req.framing = "chunked"
           \/ late /\ Ending(req) = 2 /\ HoldsRest(Stream, 0, 1, req, ~gone)
           \/ ~late /\ req.trait = "unended"

\* where the server is in what was sent, at each stage of a request
StreamInv ==
  /\ WellSent(Stream, ~gone)
  /\ pc \notin {"receive", "trailer"} => got = 0
  /\ pc \in Before \ {"idle"} => ~late
  /\ pc \in Before => res.by # "regular"
  /\ pc \in {"expect", "route", "receive"} =>
       /\ got \in 0..req.units
       /\ req.framing = "none" => req.units = 0 \/ Unbounded(req)
       /\ \/ pc = "receive" /\ req.framing = "none" /\ ~Skipped
          \/ HoldsRest(Stream, 0, Extent(req) - got, req, ~gone)
  /\ pc = "trailer" =>
       /\ req.framing = "chunked"
       /\ HoldsRest(Stream, 0, Ending(req) - 1, req, ~gone)
  /\ pc \in After /\ res.by = "regular" => Settled

(* Operations on what was sent *)

LEMMA ExtentType ==
  ASSUME NEW m \in RequestType PROVE Extent(m) \in Nat
BY DEF Extent, Ending, RequestType

LEMMA ItemOf ==
  ASSUME NEW S \in Seq(Items), NEW i \in 1..Len(S)
  PROVE  S[i].of \in RequestType /\ Extent(S[i].of) \in Nat
<1>1. NoRequest \in RequestType
  BY DEF NoRequest, RequestType, Methods, Traits
<1>2. Requests \subseteq RequestType
  BY RequestAssumption DEF RequestAssumption
<1>3. S[i] \in Items
  BY ElementOfSeq
<1>4. S[i].of \in RequestType
  BY <1>1, <1>2, <1>3 DEF Items
<1> QED BY <1>4, ExtentType

\* items are taken from the front
LEMMA FrontTaken ==
  ASSUME NEW S \in Seq(Items), NEW T \in Seq(Items), NEW d \in 0..Len(S), NEW whole,
         Len(T) = Len(S) - d, \A i \in 1..Len(T) : T[i] = S[i + d]
  PROVE  /\ \A n \in Nat, m \in RequestType : HoldsRest(S, d, n, m, whole) => HoldsRest(T, 0, n, m, whole)
         /\ WellSent(S, whole) => WellSent(T, whole)
<1>1. Len(S) \in Nat /\ Len(T) \in Nat
  BY LenProperties
<1>2. ASSUME NEW p \in Nat, NEW n \in Nat, NEW m \in RequestType, HoldsRest(S, p + d, n, m, whole)
      PROVE  HoldsRest(T, p, n, m, whole)
  <2>1. ASSUME NEW j \in 1..n, p + j <= Len(T)
        PROVE  T[p + j].is = Part(m, n - j)
    <3>1. p + j \in 1..Len(T) /\ (p + d) + j = (p + j) + d /\ (p + d) + j <= Len(S)
      BY <1>1, <2>1
    <3> QED BY <1>2, <3>1 DEF HoldsRest
  <2>2. ASSUME p + n + 1 <= Len(T) PROVE T[p + n + 1].is = "head"
    <3>1. /\ p + n + 1 \in 1..Len(T) /\ (p + d) + n + 1 = (p + n + 1) + d
          /\ (p + d) + n + 1 <= Len(S)
      BY <1>1, <2>2
    <3> QED BY <1>2, <3>1 DEF HoldsRest
  <2>3. whole => p + n <= Len(T)
    BY <1>1, <1>2 DEF HoldsRest
  <2> QED BY <2>1, <2>2, <2>3 DEF HoldsRest
<1>3. ASSUME NEW n \in Nat, NEW m \in RequestType, HoldsRest(S, d, n, m, whole) PROVE HoldsRest(T, 0, n, m, whole)
  <2>1. 0 + d = d /\ 0 \in Nat
    OBVIOUS
  <2> QED BY <1>2, <1>3, <2>1
<1>4. ASSUME WellSent(S, whole), NEW i \in 1..Len(T), T[i].is = "head"
      PROVE  HoldsRest(T, i, Extent(T[i].of), T[i].of, whole)
  <2>1. i + d \in 1..Len(S) /\ S[i + d] = T[i] /\ i \in Nat
    BY <1>1
  <2>2. HoldsRest(S, i + d, Extent(T[i].of), T[i].of, whole)
    BY <1>4, <2>1 DEF WellSent
  <2>3. T[i].of \in RequestType /\ Extent(T[i].of) \in Nat
    BY ItemOf
  <2> QED BY <1>2, <2>1, <2>2, <2>3
<1> QED BY <1>3, <1>4 DEF WellSent

\* a client that leaves does not send the rest
LEMMA EndCut ==
  ASSUME NEW S \in Seq(Items), NEW T \in Seq(Items), NEW whole,
         Len(T) <= Len(S), \A i \in 1..Len(T) : T[i] = S[i]
  PROVE  /\ \A n \in Nat, m \in RequestType : HoldsRest(S, 0, n, m, whole) => HoldsRest(T, 0, n, m, FALSE)
         /\ WellSent(S, whole) => WellSent(T, FALSE)
<1>1. Len(S) \in Nat /\ Len(T) \in Nat
  BY LenProperties
<1>2. ASSUME NEW p \in Nat, NEW n \in Nat, NEW m \in RequestType, HoldsRest(S, p, n, m, whole)
      PROVE  HoldsRest(T, p, n, m, FALSE)
  <2>1. ASSUME NEW j \in 1..n, p + j <= Len(T)
        PROVE  T[p + j].is = Part(m, n - j)
    <3>1. p + j \in 1..Len(T) /\ p + j <= Len(S)
      BY <1>1, <2>1
    <3> QED BY <1>2, <3>1 DEF HoldsRest
  <2>2. ASSUME p + n + 1 <= Len(T) PROVE T[p + n + 1].is = "head"
    <3>1. p + n + 1 \in 1..Len(T) /\ p + n + 1 <= Len(S)
      BY <1>1, <2>2
    <3> QED BY <1>2, <3>1 DEF HoldsRest
  <2> QED BY <2>1, <2>2 DEF HoldsRest
<1>3. ASSUME WellSent(S, whole), NEW i \in 1..Len(T), T[i].is = "head"
      PROVE  HoldsRest(T, i, Extent(T[i].of), T[i].of, FALSE)
  <2>1. i \in 1..Len(S) /\ S[i] = T[i] /\ i \in Nat
    BY <1>1
  <2>2. T[i].of \in RequestType /\ Extent(T[i].of) \in Nat
    BY ItemOf
  <2> QED BY <1>2, <1>3, <2>1, <2>2 DEF WellSent
<1> QED BY <1>2, <1>3 DEF WellSent

\* another request is sent
LEMMA RequestAdded ==
  ASSUME NEW S \in Seq(Items), NEW r \in Requests
  PROVE  /\ S \o Wire(r) \in Seq(Items)
         /\ \A n \in Nat, m \in RequestType : HoldsRest(S, 0, n, m, TRUE)
                                => HoldsRest(S \o Wire(r), 0, n, m, TRUE)
         /\ WellSent(S, TRUE) => WellSent(S \o Wire(r), TRUE)
<1> DEFINE W == Wire(r)
           T == S \o W
<1>0. W \in Seq(Items)
  BY WireType
<1>1. r \in RequestType /\ r.units \in Nat
  BY RequestAssumption DEF RequestType
<1>2. /\ Len(W) = 1 + Extent(r) /\ W[1] = [is |-> "head", of |-> r]
      /\ \A j \in 1..Extent(r) :
           W[1 + j].is = Part(r, Extent(r) - j)
  <2> DEFINE H == <<[is |-> "head", of |-> r]>>
             D == [k \in 1..r.units |-> Item("data")]
             L == IF r.framing = "chunked" THEN <<Item("last")>> ELSE <<>>
             N == IF r.framing = "chunked" /\ r.trait # "unended" THEN <<Item("end")>> ELSE <<>>
             E == L \o N
  <2>1. /\ [is |-> "head", of |-> r] \in Items
        /\ Item("data") \in Items /\ Item("last") \in Items /\ Item("end") \in Items
    BY DEF Items, Item
  <2>2. H \in Seq(Items) /\ Len(H) = 1 /\ H[1] = [is |-> "head", of |-> r]
    BY <2>1
  <2>3. D \in Seq(Items) /\ Len(D) = r.units /\ \A k \in 1..r.units : D[k].is = "data"
    <3>1. D \in [1..r.units -> Items]
      BY <2>1
    <3>2. D \in Seq(Items)
      BY <1>1, <3>1, SeqDef
    <3>3. Len(D) = r.units
      BY <1>1, <3>1, <3>2, LenProperties
    <3> QED BY <3>2, <3>3 DEF Item
  <2>4. /\ E \in Seq(Items) /\ Len(E) = Ending(r)
        /\ \A i \in 1..Ending(r) : E[i].is = Part(r, Ending(r) - i)
    <3>1. L \in Seq(Items) /\ N \in Seq(Items)
      BY <2>1
    <3>2. CASE Ending(r) = 0
      <4>1. L = <<>> /\ N = <<>>
        BY <3>2 DEF Ending
      <4>2. E = <<>> /\ Len(E) = 0
        BY ONLY <4>1, ConcatEmptySeq, EmptySeq
      <4>3. 1..0 = {}
        OBVIOUS
      <4> QED BY <3>1, <3>2, <4>2, <4>3, ConcatProperties
    <3>3. CASE Ending(r) = 1
      <4>1. L = <<Item("last")>> /\ N = <<>> /\ r.trait = "unended"
        BY <3>3 DEF Ending
      <4>2. E = <<Item("last")>>
        BY ONLY <3>1, <4>1, ConcatEmptySeq
      <4>3. Part(r, 0) = "last"
        BY <3>3, <4>1 DEF Part
      <4> HIDE DEF E
      <4> QED BY <2>1, <3>3, <4>2, <4>3 DEF Item
    <3>4. CASE Ending(r) = 2
      <4>1. L = <<Item("last")>> /\ N = <<Item("end")>> /\ r.trait # "unended"
        BY <3>4 DEF Ending
      <4>2. Len(E) = 2 /\ E[1] = Item("last") /\ E[2] = Item("end")
        <5>1. /\ Len(L) = 1 /\ L[1] = Item("last") /\ Len(N) = 1 /\ N[1] = Item("end")
          BY <4>1
        <5>2. /\ Len(E) = Len(L) + Len(N)
              /\ \A i \in 1..(Len(L) + Len(N)) : E[i] = IF i <= Len(L) THEN L[i] ELSE N[i - Len(L)]
          BY <3>1, ConcatProperties
        <5>3. 1 \in 1..2 /\ 2 \in 1..2 /\ 1 <= 1 /\ ~(2 <= 1) /\ 2 - 1 = 1 /\ 1 + 1 = 2
          OBVIOUS
        <5> HIDE DEF E, L, N
        <5> QED BY ONLY <5>1, <5>2, <5>3
      <4>3. Part(r, 0) = "end" /\ Part(r, 1) = "last"
        BY <3>4, <4>1 DEF Part
      <4>4. \A i \in 1..2 : i = 1 \/ i = 2
        OBVIOUS
      <4>5. E \in Seq(Items) /\ Len(E) = 2 /\ E[1].is = "last" /\ E[2].is = "end"
        BY <3>1, <4>2, ConcatProperties DEF Item
      <4> HIDE DEF E
      <4>6. 2 - 1 = 1 /\ 2 - 2 = 0
        OBVIOUS
      <4> QED BY <3>4, <4>3, <4>4, <4>5, <4>6
    <3> QED BY <3>2, <3>3, <3>4 DEF Ending
  <2>45. Ending(r) \in 0..2
    BY DEF Ending
  <2> HIDE DEF H, D, E
  <2>5. /\ H \o D \in Seq(Items) /\ Len(H \o D) = 1 + r.units
        /\ \A i \in 1..(1 + r.units) : (H \o D)[i] = IF i <= 1 THEN H[i] ELSE D[i - 1]
    <3>1. /\ H \o D \in Seq(Items) /\ Len(H \o D) = Len(H) + Len(D)
          /\ \A i \in 1..(Len(H) + Len(D)) :
               (H \o D)[i] = IF i <= Len(H) THEN H[i] ELSE D[i - Len(H)]
      BY <2>2, <2>3, ConcatProperties
    <3>2. Len(H) = 1 /\ Len(D) = r.units
      BY <2>2, <2>3
    <3> QED BY ONLY <3>1, <3>2
  <2>6. /\ Len((H \o D) \o E) = 1 + r.units + Len(E)
        /\ \A i \in 1..(1 + r.units + Len(E)) :
             ((H \o D) \o E)[i] = IF i <= 1 + r.units THEN (H \o D)[i] ELSE E[i - (1 + r.units)]
    <3>1. E \in Seq(Items) /\ H \o D \in Seq(Items) /\ Len(H \o D) = 1 + r.units
      BY <2>4, <2>5
    <3> HIDE DEF W, T
    <3> QED BY ONLY <3>1, ConcatProperties
  <2>7. W = (H \o D) \o E
    <3>1. W = ((H \o D) \o L) \o N
      BY DEF H, D, Wire
    <3>2. L \in Seq(Items) /\ N \in Seq(Items)
      BY <2>1
    <3>3. ((H \o D) \o L) \o N = (H \o D) \o (L \o N)
      <4> HIDE DEF L, N
      <4>1. H \o D \in Seq(Items)
        BY <2>5
      <4> QED BY ONLY <3>2, <4>1, ConcatAssociative, SMTT(30)
    <3> QED BY <3>1, <3>3 DEF E
  <2>8. Len(E) = Ending(r) /\ Ending(r) \in 0..2
    BY <2>4, <2>45
  <2>9. Len(W) = 1 + Extent(r)
    BY <1>1, <2>6, <2>7, <2>8 DEF Extent
  <2>10. W[1] = [is |-> "head", of |-> r]
    <3>1. 1 \in 1..(1 + r.units + Len(E)) /\ 1 <= 1 + r.units /\ 1 \in 1..(1 + r.units)
      BY <1>1, <2>8
    <3>2. W[1] = (H \o D)[1] /\ (H \o D)[1] = H[1]
      BY <2>5, <2>6, <2>7, <3>1
    <3> QED BY <2>2, <3>2
  <2>11. ASSUME NEW j \in 1..Extent(r)
         PROVE  W[1 + j].is = Part(r, Extent(r) - j)
    <3>1. CASE j <= r.units
      <4>1. 1 + j \in 1..(1 + r.units + Len(E)) /\ 1 + j <= 1 + r.units
        BY <1>1, <2>8, <3>1
      <4>4. W[1 + j] = (H \o D)[1 + j]
        BY <2>6, <2>7, <4>1
      <4>2. (H \o D)[1 + j] = D[j]
        BY <1>1, <2>5, <3>1
      <4>3. Part(r, Extent(r) - j) = "data"
        BY <1>1, <2>8, <3>1 DEF Extent, Part
      <4> QED BY <1>1, <2>3, <3>1, <4>2, <4>3, <4>4
    <3>2. CASE j > r.units
      <4> DEFINE i == j - r.units
      <4>1. i \in 1..Ending(r) /\ Ending(r) - i = Extent(r) - j
        BY <1>1, <2>8, <3>2 DEF Extent
      <4>2. W[1 + j] = E[i]
        <5>1. /\ 1 + j \in 1..(1 + r.units + Len(E)) /\ ~(1 + j <= 1 + r.units)
              /\ (1 + j) - (1 + r.units) = i
          BY <1>1, <2>8, <4>1
        <5> QED BY <2>6, <2>7, <5>1
      <4> HIDE DEF i
      <4> QED BY <2>4, <4>1, <4>2
    <3> QED BY <1>1, <3>1, <3>2
  <2> QED BY <2>9, <2>10, <2>11
<1> HIDE DEF W
<1>3. /\ T \in Seq(Items) /\ Len(T) = Len(S) + Len(W)
      /\ \A i \in 1..Len(T) : T[i] = IF i <= Len(S) THEN S[i] ELSE W[i - Len(S)]
  BY <1>0, ConcatProperties
<1>4. Len(S) \in Nat /\ Extent(r) \in Nat
  BY <1>1, LenProperties, ExtentType
<1> HIDE DEF T
<1>5. ASSUME NEW p \in Nat, NEW n \in Nat, NEW m \in RequestType, HoldsRest(S, p, n, m, TRUE)
      PROVE  HoldsRest(T, p, n, m, TRUE)
  <2>1. p + n <= Len(S) /\ p + n <= Len(T)
    BY <1>2, <1>3, <1>4, <1>5 DEF HoldsRest
  <2>2. ASSUME NEW j \in 1..n
        PROVE  T[p + j].is = Part(m, n - j)
    <3>1. p + j \in 1..Len(T) /\ p + j <= Len(S)
      BY <2>1, <1>4, <1>3, <1>2
    <3> QED BY <1>3, <1>5, <3>1 DEF HoldsRest
  <2>3. T[p + n + 1].is = "head"
    <3>1. p + n + 1 \in 1..Len(T)
      BY <1>2, <1>3, <1>4, <2>1
    <3>2. CASE p + n + 1 <= Len(S)
      BY <1>3, <1>5, <3>1, <3>2 DEF HoldsRest
    <3>3. CASE p + n + 1 > Len(S)
      <4>1. (p + n + 1) - Len(S) = 1
        BY <1>4, <2>1, <3>3
      <4>2. T[p + n + 1] = W[1]
        BY <1>3, <1>4, <3>1, <3>3, <4>1
      <4> QED BY <1>2, <4>2
    <3> QED BY <1>4, <3>2, <3>3
  <2> QED BY <2>1, <2>2, <2>3 DEF HoldsRest
<1>6. ASSUME WellSent(S, TRUE), NEW i \in 1..Len(T), T[i].is = "head"
      PROVE  HoldsRest(T, i, Extent(T[i].of), T[i].of, TRUE)
  <2>1. CASE i <= Len(S)
    <3>1. T[i] = S[i] /\ i \in 1..Len(S) /\ i \in Nat
      BY <1>3, <1>4, <2>1
    <3>2. T[i].of \in RequestType /\ Extent(T[i].of) \in Nat
      BY <1>3, ItemOf
    <3> QED BY <1>5, <1>6, <3>1, <3>2 DEF WellSent
  <2>2. CASE i > Len(S)
    <3>1. T[i] = W[i - Len(S)] /\ i - Len(S) \in 1..Len(W)
      BY <1>3, <1>4, <1>2, <2>2
    <3>2. i - Len(S) = 1
      <4>1. CASE i - Len(S) > 1
        <5>1. PICK j \in 1..Extent(r) : 1 + j = i - Len(S)
          <6>1. (i - Len(S)) - 1 \in 1..Extent(r)
            BY <1>2, <1>4, <3>1, <4>1
          <6> QED BY <6>1, <1>4
        <5>2. T[i].is \in {"data", "last", "end"}
          BY <1>2, <3>1, <5>1 DEF Part
        <5> QED BY <1>6, <5>2
      <4> QED BY <1>4, <3>1, <4>1
    <3>3. T[i].of = r /\ i = Len(S) + 1
      <4>1. T[i] = W[1] /\ W[1].of = r
        BY <1>2, <3>1, <3>2
      <4> QED BY <1>4, <3>2, <4>1
    <3>4. ASSUME NEW j \in 1..Extent(r)
          PROVE  T[i + j].is = Part(r, Extent(r) - j)
      <4>1. i + j \in 1..Len(T) /\ i + j > Len(S) /\ (i + j) - Len(S) = 1 + j
        BY <1>2, <1>3, <1>4, <3>3
      <4>2. T[i + j] = W[1 + j]
        BY <1>3, <4>1
      <4> QED BY <1>2, <4>2
    <3>5. i + Extent(r) = Len(T)
      BY <1>2, <1>3, <1>4, <3>3
    <3>6. /\ i + Extent(r) <= Len(T) /\ ~(i + Extent(r) + 1 <= Len(T))
      BY <1>2, <1>3, <1>4, <3>5
    <3> QED BY <3>3, <3>4, <3>6 DEF HoldsRest
  <2>3. i <= Len(S) \/ i > Len(S)
    BY <1>2, <1>3, <1>4
  <2> QED BY <2>1, <2>2, <2>3
<1>7. ASSUME NEW n \in Nat, NEW m \in RequestType, HoldsRest(S, 0, n, m, TRUE) PROVE HoldsRest(T, 0, n, m, TRUE)
  BY <1>5, <1>7
<1> QED BY <1>3, <1>6, <1>7 DEF WellSent, T, W

\* what is put back of a head is not a head
LEMMA RestPut ==
  ASSUME NEW S \in Seq(Items), NEW whole, WellSent(S, whole)
  PROVE  <<Rest>> \o S \in Seq(Items) /\ WellSent(<<Rest>> \o S, whole)
<1> DEFINE T == <<Rest>> \o S
<1>1. Rest \in Items /\ Rest.is = "data"
  BY DEF Rest, Item, Items
<1>2. <<Rest>> \in Seq(Items) /\ Len(<<Rest>>) = 1
  BY <1>1
<1>3. /\ T \in Seq(Items) /\ Len(T) = 1 + Len(S)
      /\ \A i \in 1..(1 + Len(S)) : T[i] = IF i <= 1 THEN <<Rest>>[i] ELSE S[i - 1]
  BY <1>2, ConcatProperties
<1> HIDE DEF T
<1>4. Len(S) \in Nat
  BY LenProperties
<1>5. ASSUME NEW i \in 1..Len(T), T[i].is = "head"
      PROVE  HoldsRest(T, i, Extent(T[i].of), T[i].of, whole)
  <2>1. i # 1
    <3>1. T[1] = Rest
      BY <1>3, <1>4
    <3> QED BY <1>1, <1>5, <3>1
  <2>2. i - 1 \in 1..Len(S) /\ T[i] = S[i - 1]
    BY <1>3, <1>4, <2>1
  <2> DEFINE m == T[i].of
             n == Extent(m)
  <2>3. HoldsRest(S, i - 1, n, m, whole)
    BY <1>5, <2>2 DEF WellSent
  <2>4. n \in Nat /\ m \in RequestType
    BY <1>3, ItemOf
  <2> HIDE DEF m, n
  <2>5. ASSUME NEW j \in 1..n, i + j <= Len(T)
        PROVE  T[i + j].is = Part(m, n - j)
    <3>1. i + j \in 1..(1 + Len(S)) /\ i + j > 1 /\ (i + j) - 1 = (i - 1) + j
          /\ (i - 1) + j <= Len(S)
      BY <1>3, <1>4, <2>4, <2>5
    <3>2. T[i + j] = S[(i - 1) + j]
      BY <1>3, <3>1
    <3> QED BY <2>3, <3>1, <3>2 DEF HoldsRest
  <2>6. ASSUME i + n + 1 <= Len(T) PROVE T[i + n + 1].is = "head"
    <3>1. /\ i + n + 1 \in 1..(1 + Len(S)) /\ i + n + 1 > 1
          /\ (i + n + 1) - 1 = (i - 1) + n + 1 /\ (i - 1) + n + 1 <= Len(S)
      BY <1>3, <1>4, <2>4, <2>6
    <3>2. T[i + n + 1] = S[(i - 1) + n + 1]
      BY <1>3, <3>1
    <3> QED BY <2>3, <3>1, <3>2 DEF HoldsRest
  <2>7. whole => i + n <= Len(T)
    BY <1>3, <1>4, <2>3, <2>4 DEF HoldsRest
  <2>8. HoldsRest(T, i, n, m, whole)
    BY <2>5, <2>6, <2>7 DEF HoldsRest
  <2> QED BY <2>8 DEF m, n
<1> QED BY <1>3, <1>5 DEF WellSent, T

\* one item of the content is taken
LEMMA ItemTaken ==
  ASSUME NEW S \in Seq(Items), NEW n \in Nat \ {0}, NEW m, NEW whole,
         HoldsRest(S, 0, n, m, whole)
  PROVE  HoldsRest(S, 1, n - 1, m, whole)
<1>1. Len(S) \in Nat
  BY LenProperties
<1>2. ASSUME NEW j \in 1..(n - 1), 1 + j <= Len(S)
      PROVE  S[1 + j].is = Part(m, (n - 1) - j)
  <2>1. 1 + j \in 1..n /\ 0 + (1 + j) = 1 + j /\ n - (1 + j) = (n - 1) - j
    OBVIOUS
  <2> QED BY <1>2, <2>1 DEF HoldsRest
<1>3. 1 + (n - 1) + 1 = 0 + n + 1 /\ 1 + (n - 1) = 0 + n
  OBVIOUS
<1> QED BY <1>2, <1>3 DEF HoldsRest

LEMMA HeadTaken ==
  ASSUME NEW b \in Seq(Items), NEW f \in Seq(Items), NEW whole, b # <<>>
  PROVE  /\ Tail(b) \o f \in Seq(Items)
         /\ WellSent(b \o f, whole) => WellSent(Tail(b) \o f, whole)
         /\ Head(b).is = "head" /\ WellSent(b \o f, whole)
              => HoldsRest(Tail(b) \o f, 0, Extent(Head(b).of), Head(b).of, whole)
         /\ \A n \in Nat \ {0}, m \in RequestType :
              HoldsRest(b \o f, 0, n, m, whole)
                => /\ HoldsRest(Tail(b) \o f, 0, n - 1, m, whole)
                   /\ Head(b).is = Part(m, n - 1)
<1> DEFINE S == b \o f
           T == Tail(b) \o f
<1>1. /\ Len(b) \in Nat \ {0} /\ Len(f) \in Nat /\ Tail(b) \in Seq(Items)
      /\ Len(Tail(b)) = Len(b) - 1 /\ \A i \in 1..(Len(b) - 1) : Tail(b)[i] = b[i + 1]
  BY EmptySeq, LenProperties, HeadTailProperties
<1>2. /\ S \in Seq(Items) /\ Len(S) = Len(b) + Len(f)
      /\ \A i \in 1..(Len(b) + Len(f)) : S[i] = IF i <= Len(b) THEN b[i] ELSE f[i - Len(b)]
  BY ConcatProperties
<1>3. /\ T \in Seq(Items) /\ Len(T) = Len(Tail(b)) + Len(f)
      /\ \A i \in 1..(Len(Tail(b)) + Len(f)) :
           T[i] = IF i <= Len(Tail(b)) THEN Tail(b)[i] ELSE f[i - Len(Tail(b))]
  BY <1>1, ConcatProperties
<1> HIDE DEF S, T
<1>4. 1 \in 0..Len(S) /\ Len(T) = Len(S) - 1 /\ 1 \in 1..Len(S)
  BY <1>1, <1>2, <1>3
<1>5. ASSUME NEW i \in 1..Len(T) PROVE T[i] = S[i + 1]
  <2>1. i \in 1..(Len(Tail(b)) + Len(f)) /\ i + 1 \in 1..(Len(b) + Len(f))
    BY <1>1, <1>3
  <2>2. CASE i <= Len(Tail(b))
    <3>1. i + 1 <= Len(b) /\ i \in 1..(Len(b) - 1)
      BY <1>1, <2>1, <2>2
    <3>2. T[i] = Tail(b)[i] /\ S[i + 1] = b[i + 1]
      BY <1>2, <1>3, <2>1, <2>2, <3>1
    <3> QED BY <1>1, <3>1, <3>2
  <2>3. CASE ~(i <= Len(Tail(b)))
    <3>1. ~(i + 1 <= Len(b)) /\ (i + 1) - Len(b) = i - Len(Tail(b))
      BY <1>1, <2>1, <2>3
    <3>2. T[i] = f[i - Len(Tail(b))] /\ S[i + 1] = f[(i + 1) - Len(b)]
      BY <1>2, <1>3, <2>1, <2>3, <3>1
    <3> QED BY <3>1, <3>2
  <2> QED BY <2>2, <2>3
<1>6. Head(b) = S[1]
  <2>1. 1 \in 1..(Len(b) + Len(f)) /\ 1 <= Len(b)
    BY <1>1
  <2>2. S[1] = b[1]
    BY <1>2, <2>1
  <2> QED BY <2>2
<1>7. /\ \A n \in Nat, m \in RequestType : HoldsRest(S, 1, n, m, whole) => HoldsRest(T, 0, n, m, whole)
      /\ WellSent(S, whole) => WellSent(T, whole)
  BY <1>2, <1>3, <1>4, <1>5, FrontTaken
<1>8. ASSUME Head(b).is = "head", WellSent(S, whole)
      PROVE  HoldsRest(T, 0, Extent(Head(b).of), Head(b).of, whole)
  <2>1. Head(b).of \in RequestType /\ Extent(Head(b).of) \in Nat
    BY <1>2, <1>4, <1>6, ItemOf
  <2>2. HoldsRest(S, 1, Extent(Head(b).of), Head(b).of, whole)
    BY <1>4, <1>6, <1>8 DEF WellSent
  <2> QED BY <1>7, <2>1, <2>2
<1>9. ASSUME NEW n \in Nat \ {0}, NEW m \in RequestType, HoldsRest(S, 0, n, m, whole)
      PROVE  /\ HoldsRest(T, 0, n - 1, m, whole)
             /\ Head(b).is = Part(m, n - 1)
  <2>1. HoldsRest(S, 1, n - 1, m, whole)
    BY <1>2, <1>9, ItemTaken
  <2>2. n - 1 \in Nat
    OBVIOUS
  <2>3. HoldsRest(T, 0, n - 1, m, whole)
    BY <1>7, <2>1, <2>2
  <2>4. 1 \in 1..n /\ 0 + 1 = 1 /\ 0 + 1 <= Len(S)
    BY <1>4, <1>2
  <2>5. S[0 + 1].is = Part(m, n - 1)
    BY <1>9, <2>4 DEF HoldsRest
  <2> QED BY <1>6, <2>3, <2>4, <2>5
<1> QED BY <1>3, <1>7, <1>8, <1>9 DEF S, T

\* an item of the content is read
LEMMA PartTaken ==
  ASSUME NEW b \in Seq(Items), NEW f \in Seq(Items), NEW whole, b # <<>>,
         NEW n \in Nat \ {0}, NEW m \in RequestType, HoldsRest(b \o f, 0, n, m, whole)
  PROVE  HoldsRest(Tail(b) \o f, 0, n - 1, m, whole) /\ Head(b).is = Part(m, n - 1)
<1>1. \A k \in Nat \ {0}, r \in RequestType :
        HoldsRest(b \o f, 0, k, r, whole)
          => /\ HoldsRest(Tail(b) \o f, 0, k - 1, r, whole)
             /\ Head(b).is = Part(r, k - 1)
  BY HeadTaken
<1> QED BY ONLY <1>1, n \in Nat \ {0}, m \in RequestType, HoldsRest(b \o f, 0, n, m, whole), Zenon

\* the buffer is given up with what is in it
LEMMA BufferLost ==
  ASSUME NEW b \in Seq(Items), NEW f \in Seq(Items), NEW whole
  PROVE  /\ WellSent(b \o f, whole) => WellSent(<<>> \o f, whole)
         /\ WellSent(<<>> \o <<>>, whole)
<1>1. Len(b) \in Nat /\ Len(f) \in Nat
  BY LenProperties
<1>2. /\ b \o f \in Seq(Items) /\ Len(b \o f) = Len(b) + Len(f)
      /\ \A i \in 1..(Len(b) + Len(f)) :
           (b \o f)[i] = IF i <= Len(b) THEN b[i] ELSE f[i - Len(b)]
  BY ConcatProperties
<1>3. <<>> \o f = f
  BY ConcatEmptySeq
<1>4. ASSUME NEW i \in 1..Len(f) PROVE f[i] = (b \o f)[i + Len(b)]
  <2>1. /\ i + Len(b) \in 1..(Len(b) + Len(f)) /\ ~(i + Len(b) <= Len(b))
        /\ (i + Len(b)) - Len(b) = i
    BY <1>1
  <2> QED BY <1>2, <2>1
<1>5. Len(b) \in 0..Len(b \o f) /\ Len(f) = Len(b \o f) - Len(b)
  BY <1>1, <1>2
<1>6. WellSent(b \o f, whole) => WellSent(f, whole)
  BY <1>2, <1>4, <1>5, FrontTaken
<1>7. WellSent(<<>> \o <<>>, whole)
  <2>1. <<>> \o <<>> = <<>>
    BY ConcatEmptySeq, EmptySeq
  <2>2. Len(<<>>) = 0
    BY EmptySeq
  <2>3. 1..0 = {}
    OBVIOUS
  <2> QED BY <2>1, <2>2, <2>3 DEF WellSent
<1> QED BY <1>3, <1>6, <1>7

----------------------------------------------------------------------------
(* The stages of a request and what was sent *)

SameContent == /\ req'.method = req.method /\ req'.framing = req.framing
               /\ req'.trait = req.trait

\* an answer to a request of which the content was not read, or nothing is said of it
LEMMA StreamLeft ==
  ASSUME WellSent(Stream', ~gone'), got' = 0, pc' \in After, res'.by # "regular"
  PROVE  StreamInv'
BY DEF StreamInv, After, Before

\* the stages after the content was read
LEMMA StreamKept ==
  ASSUME StreamInv, pc \in After, pc' \in After, SameContent, res'.by = res.by,
         UNCHANGED <<gone, flight, buff, late, got>>
  PROVE  StreamInv'
<1>1. Stream' = Stream
  BY DEF Stream
<1>2. Ending(req') = Ending(req)
  BY DEF Ending, SameContent
<1>3. \A n : HoldsRest(Stream, 0, n, req, ~gone) => HoldsRest(Stream, 0, n, req', ~gone)
  BY <1>2 DEF HoldsRest, Part, SameContent
<1>4. Skipped' <=> Skipped
  BY DEF Skipped, SameContent
<1>5. Settled => Settled'
  BY <1>1, <1>2, <1>3, <1>4 DEF Settled, SameContent
<1> QED BY <1>1, <1>5 DEF StreamInv, After, Before

LEMMA StreamClosed ==
  ASSUME Close PROVE StreamInv'
<1>1. buff' = <<>> /\ flight' = <<>> /\ got' = 0 /\ pc' = "closed"
  BY DEF Close, Forget
<1>2. Stream' = <<>> \o <<>>
  BY <1>1 DEF Stream
<1>3. WellSent(Stream', ~gone')
  <2>1. <<>> \in Seq(Items)
    OBVIOUS
  <2> QED BY <1>2, <2>1, BufferLost
<1> QED BY <1>1, <1>3 DEF StreamInv, After, Before

LEMMA RefuseBy ==
  ASSUME res \in ResponseType, NEW status, Refuse(status) PROVE res'.by = res.by
BY DEF Refuse, Answered, ResponseType

LEMMA HandledStep ==
  ASSUME req \in RequestType, res \in ResponseType, NEW h \in Handlings,
         \/ Returned(h) \/ Thrown(h) \/ Deliver(StatusOf(h), h.kind, h.size)
  PROVE  SameContent /\ res'.by = res.by /\ pc' = "answer"
<1>1. ASSUME NEW status, NEW kind, NEW size, Deliver(status, kind, size)
      PROVE  SameContent /\ res'.by = res.by /\ pc' = "answer"
  <2>1. CASE Refuse(416) /\ req' = [req EXCEPT !.ranges = <<>>]
    BY <2>1, RefuseBy DEF RequestType, SameContent, Refuse
  <2>2. CASE /\ res' = Answered(status, kind, size, "yes") /\ pc' = "answer"
             /\ \/ req' = req
                \/ req' = [req EXCEPT !.ranges = ResolvedAll(@, Measure(kind, size))]
    BY <2>2 DEF RequestType, ResponseType, SameContent, Answered
  <2> QED BY <1>1, <2>1, <2>2 DEF Deliver
<1>2. CASE Thrown(h)
  BY <1>2 DEF Thrown, RequestType, ResponseType, SameContent, Answered
<1>3. CASE Refuse(404) /\ req' = [req EXCEPT !.ranges = <<>>]
  BY <1>3, RefuseBy DEF RequestType, SameContent, Refuse
<1> QED BY <1>1, <1>2, <1>3 DEF Returned

LEMMA NotReceivedBy ==
  ASSUME res \in ResponseType, NEW status, NotReceived(status)
  PROVE  got' = 0 /\ pc' \in After /\ res'.by = res.by
<1>1. CASE res.by = "reader"
  BY <1>1 DEF NotReceived, ResponseType, After
<1>2. CASE res.by # "reader"
  BY <1>2, RefuseBy DEF NotReceived, Refuse, After
<1> QED BY <1>1, <1>2

LEMMA LoopStream ==
  ASSUME Inv, StreamInv, LoopStep
  PROVE  StreamInv'
<1>1. CASE Begin
  <2>1. Stream' = Stream /\ gone' = gone /\ got' = got /\ res' = res
        /\ pc = "idle" /\ pc' = "head" /\ ~late'
    BY <1>1 DEF Begin, Goto, network, Stream
  <2> QED BY <2>1 DEF StreamInv, Before, After
<1>2. CASE /\ pc = "done" /\ Forget /\ pc' = "idle"
           /\ UNCHANGED <<network, closing, hangup, late, got>>
  <2>1. Stream' = <<>> \o flight /\ gone' = gone /\ got' = got /\ res'.by = "nobody"
    BY <1>2 DEF network, Stream, Forget, NoResponse
  <2>2. WellSent(Stream', ~gone')
    BY <2>1, BufferLost DEF Inv, TypeInv, StreamInv, Stream
  <2> QED BY <1>2, <2>1, <2>2 DEF StreamInv, Before, After
<1>3. CASE Close
  BY <1>3, StreamClosed
<1> QED BY <1>1, <1>2, <1>3 DEF LoopStep, Again, Expire

LEMMA ClientStream ==
  ASSUME Inv, StreamInv, ClientStep
  PROVE  StreamInv'
<1>1. buff \in Seq(Items) /\ flight \in Seq(Items) /\ Stream \in Seq(Items)
  BY ConcatProperties DEF Inv, TypeInv, Stream
<1>2. UNCHANGED <<buff, pc, late, req, res, got>>
  BY DEF ClientStep, Send, LeaveWith, loop
<1>3. req \in RequestType /\ Extent(req) \in Nat
  BY ExtentType DEF Inv, TypeInv
<1>4. ASSUME WellSent(Stream', ~gone'),
             \A n \in Nat : HoldsRest(Stream, 0, n, req, ~gone)
                             => HoldsRest(Stream', 0, n, req, ~gone')
      PROVE  StreamInv'
  <2>1. /\ got' = got /\ pc' = pc /\ res' = res /\ req' = req /\ late' = late
        /\ (Skipped' <=> Skipped)
    BY <1>2 DEF Skipped
  <2>2. got \in 0..req.units => Extent(req) - got \in Nat
    BY <1>3 DEF Extent, Ending, RequestType
  <2>3. 0 \in Nat /\ 1 \in Nat
    OBVIOUS
  <2>4. req.framing = "chunked" => Ending(req) - 1 \in Nat
    BY DEF Ending
  <2>5. Settled => Settled'
    BY <1>4, <2>1, <2>3 DEF Settled, Ending
  <2>6. (\/ pc = "receive" /\ req.framing = "none" /\ ~Skipped
         \/ HoldsRest(Stream, 0, Extent(req) - got, req, ~gone)) =>
        (got \in 0..req.units =>
         (\/ pc = "receive" /\ req.framing = "none" /\ ~Skipped
          \/ HoldsRest(Stream', 0, Extent(req) - got, req, ~gone')))
    BY <1>4, <2>2
  <2>7. req.framing = "chunked" /\ HoldsRest(Stream, 0, Ending(req) - 1, req, ~gone)
          => HoldsRest(Stream', 0, Ending(req) - 1, req, ~gone')
    BY <1>4, <2>4
  <2> QED BY <1>4, <2>1, <2>5, <2>6, <2>7 DEF StreamInv
<1>5. ASSUME NEW m \in Requests, Send(m) PROVE StreamInv'
  <2>1. ~gone /\ gone' = gone /\ flight' = flight \o Wire(m)
    BY <1>5 DEF Send
  <2>2. Wire(m) \in Seq(Items)
    BY WireType
  <2>3. Stream' = Stream \o Wire(m)
    <3>1. buff \o (flight \o Wire(m)) = (buff \o flight) \o Wire(m)
      BY <1>1, <2>2, ConcatAssociative, SMTT(30)
    <3> QED BY <1>2, <2>1, <3>1 DEF Stream
  <2>4. (~gone) = TRUE /\ (~gone)' = TRUE
    BY <2>1
  <2>5. WellSent(Stream, TRUE)
    BY <2>4 DEF StreamInv
  <2>6. /\ WellSent(Stream', TRUE)
        /\ \A n \in Nat : HoldsRest(Stream, 0, n, req, TRUE) => HoldsRest(Stream', 0, n, req, TRUE)
    BY <1>1, <1>3, <2>3, <2>5, RequestAdded
  <2> QED BY <1>4, <2>4, <2>6
<1>6. ASSUME NEW k \in 0..Len(flight), LeaveWith(k) PROVE StreamInv'
  <2>1. gone' = TRUE /\ flight' = SubSeq(flight, 1, k)
    BY <1>6 DEF LeaveWith
  <2>2. /\ flight' \in Seq(Items) /\ Len(flight') = k /\ k \in Nat /\ k <= Len(flight)
        /\ Len(flight) \in Nat /\ Len(buff) \in Nat
        /\ \A i \in 1..k : flight'[i] = flight[i]
    BY <1>1, <2>1
  <2>3. /\ Stream' \in Seq(Items) /\ Len(Stream') = Len(buff) + k
        /\ \A i \in 1..(Len(buff) + k) :
             Stream'[i] = IF i <= Len(buff) THEN buff[i] ELSE flight'[i - Len(buff)]
    BY <1>1, <1>2, <2>2, ConcatProperties DEF Stream
  <2>4. /\ Len(Stream) = Len(buff) + Len(flight)
        /\ \A i \in 1..(Len(buff) + Len(flight)) :
             Stream[i] = IF i <= Len(buff) THEN buff[i] ELSE flight[i - Len(buff)]
    BY <1>1, ConcatProperties DEF Stream
  <2>5. ASSUME NEW i \in 1..Len(Stream') PROVE Stream'[i] = Stream[i]
    <3>1. i \in 1..(Len(buff) + k) /\ i \in 1..(Len(buff) + Len(flight))
          /\ (~(i <= Len(buff)) => i - Len(buff) \in 1..k)
      BY <2>2, <2>3
    <3> QED BY <2>2, <2>3, <2>4, <3>1
  <2>6. Len(Stream') <= Len(Stream)
    BY <2>2, <2>3, <2>4
  <2>7. (~gone)' = FALSE
    BY <2>1
  <2>8. /\ WellSent(Stream', FALSE)
        /\ \A n \in Nat : HoldsRest(Stream, 0, n, req, ~gone) => HoldsRest(Stream', 0, n, req, FALSE)
    BY <1>1, <1>3, <2>3, <2>5, <2>6, EndCut DEF StreamInv
  <2> QED BY <1>4, <2>7, <2>8
<1> QED BY <1>5, <1>6 DEF ClientStep

LEMMA RouteStream ==
  ASSUME Inv, StreamInv, RouteStep
  PROVE  StreamInv'
<1>1. req \in RequestType /\ res \in ResponseType
  BY DEF Inv, TypeInv
<1>2. Stream' = Stream /\ UNCHANGED <<gone, flight, buff, late, got>>
  BY DEF RouteStep, Continue, ReaderHandler, ReadContent, NoHandler, Decline, PreRouting,
         FileRequest, CallHandler, network, loop, Stream
<1>3. pc \in {"expect", "route"} => res.by # "regular" /\ got = 0 /\ ~late
  BY DEF StreamInv, Before
<1>4. WellSent(Stream', ~gone')
  BY <1>2 DEF StreamInv
<1>5. ASSUME pc \in {"expect", "route"}, pc' \in After, res'.by # "regular" PROVE StreamInv'
  BY <1>2, <1>3, <1>4, <1>5, StreamLeft
<1>6. CASE Continue
  <2>1. pc = "expect" /\ pc' = "route" /\ req' = req /\ res' = res
    BY <1>6 DEF Continue, Goto
  <2> QED BY <1>2, <2>1 DEF StreamInv, Before, After
<1>7. CASE ReaderHandler
  <2>1. pc = "route" /\ pc' \in {"receive", "call"} /\ req' = req /\ res'.by = "reader"
    BY <1>1, <1>7 DEF ReaderHandler, ResponseType
  <2> QED BY <1>2, <2>1 DEF StreamInv, Before, After
<1>8. CASE ReadContent
  <2>1. CASE ExpectContent
    <3>1. pc = "route" /\ pc' = "receive" /\ req' = req /\ res' = res
      BY <1>8, <2>1 DEF ReadContent
    <3> QED BY <1>2, <3>1 DEF StreamInv, Before, After
  <2>2. CASE ~ExpectContent
    <3>1. pc = "route" /\ pc' = "call" /\ req' = req
      BY <1>8, <2>2 DEF ReadContent
    <3>2. req.framing # "chunked" /\ req.units = 0
      BY <1>1, <2>2, <3>1 DEF ExpectContent, HasContent, Unbounded, StreamInv, RequestType
    <3>3. Extent(req) - got = 0 /\ got = 0
      BY <3>1, <3>2 DEF Extent, Ending, StreamInv
    <3>4. HoldsRest(Stream, 0, 0, req, ~gone)
      BY <3>1, <3>3 DEF StreamInv
    <3> QED BY <1>2, <3>1, <3>3, <3>4 DEF StreamInv, Settled, Before, After
  <2> QED BY <2>1, <2>2
<1>9. CASE NoHandler
  <2>1. pc = "call" /\ pc' = "answer" /\ res'.by = res.by /\ SameContent
    BY <1>1, <1>9, RefuseBy DEF NoHandler, Refuse, SameContent, RequestType
  <2> QED BY <1>2, <2>1, StreamKept DEF After
<1>10. ASSUME NEW h \in Handlings, Decline(h) PROVE StreamInv'
  <2>1. pc = "expect" /\ pc' = "answer" /\ res'.by = res.by
    BY <1>1, <1>10 DEF Decline, ResponseType
  <2> QED BY <1>3, <1>5, <2>1 DEF After
<1>11. ASSUME NEW h \in Handlings, PreRouting(h) \/ FileRequest(h) PROVE StreamInv'
  <2>1. pc = "route" /\ (Returned(h) \/ Thrown(h) \/ Deliver(StatusOf(h), h.kind, h.size))
    BY <1>11 DEF PreRouting, FileRequest
  <2>2. res'.by = res.by /\ pc' = "answer"
    BY <1>1, <2>1, HandledStep
  <2> QED BY <1>3, <1>5, <2>1, <2>2 DEF After
<1>12. ASSUME NEW h \in Handlings, CallHandler(h) PROVE StreamInv'
  <2>1. pc = "call" /\ (Returned(h) \/ Thrown(h))
    BY <1>12 DEF CallHandler
  <2>2. SameContent /\ res'.by = res.by /\ pc' = "answer"
    BY <1>1, <2>1, HandledStep
  <2> QED BY <1>2, <2>1, <2>2, StreamKept DEF After
<1> QED BY <1>6, <1>7, <1>8, <1>9, <1>10, <1>11, <1>12 DEF RouteStep

LEMMA WriteStream ==
  ASSUME Inv, StreamInv, WriteStep
  PROVE  StreamInv'
<1>1. res \in ResponseType
  BY DEF Inv, TypeInv
<1>2. CASE WriteFails
  BY <1>2, StreamClosed DEF WriteFails
<1>3. CASE Answer
  <2>1. PICK r : WriteHead(r) /\ r.by = res.by
    <3>1. ASSUME NEW h \in ErrorHandlings, NEW handled \in BOOLEAN
          PROVE  WithErrorHandler(h, handled).by = res.by
      BY <1>1 DEF WithErrorHandler, ResponseType
    <3> QED BY <1>3, <3>1 DEF Answer
  <2>2. /\ pc = "answer" /\ pc' = "write" /\ res'.by = res.by
        /\ UNCHANGED <<gone, flight, buff, late, req, got>>
    BY <2>1 DEF WriteHead, network, loop
  <2> QED BY <2>2, StreamKept DEF SameContent, After
<1>4. CASE WriteUndefined
  <2>1. pc = "write" /\ pc' = "undefined" /\ UNCHANGED <<gone, flight, buff, got>>
    BY <1>4 DEF WriteUndefined, Writing, network
  <2> QED BY <2>1 DEF StreamInv, Stream, Before, After
<1>5. CASE /\ pc = "write" /\ pc' \in {"write", "done"}
           /\ UNCHANGED <<network, buff, late, req, res, got>>
  BY <1>5, StreamKept DEF SameContent, After, network
<1>6. \/ WriteFails \/ Answer \/ WriteUndefined
      \/ /\ pc = "write" /\ pc' \in {"write", "done"}
         /\ UNCHANGED <<network, buff, late, req, res, got>>
  BY DEF WriteStep, WriteNothing, WriteBody, WriteBlock, NextPiece, WriteEnds,
         WriteChunk, ChunksEnd, Writing, Goto, loop
<1> QED BY <1>2, <1>3, <1>4, <1>5, <1>6

LEMMA ReadStream ==
  ASSUME Inv, StreamInv, ReadStep
  PROVE  StreamInv'
<1>1. req \in RequestType /\ res \in ResponseType /\ buff \in Seq(Items) /\ flight \in Seq(Items)
  BY DEF Inv, TypeInv
<1>2. WellSent(buff \o flight, ~gone)
  BY DEF StreamInv, Stream
<1>3. pc \in {"head", "skim"} => res.by # "regular" /\ got = 0 /\ ~late
  BY DEF StreamInv, Before
<1>4. CASE HeadFails
  BY <1>4, StreamClosed DEF HeadFails
<1>5. ASSUME buff # <<>>
      PROVE  /\ Tail(buff) \in Seq(Items) /\ Tail(buff) \o flight \in Seq(Items)
             /\ WellSent(Tail(buff) \o flight, ~gone)
             /\ WellSent((<<Rest>> \o Tail(buff)) \o flight, ~gone)
  <2>1. Tail(buff) \in Seq(Items)
    BY <1>1, <1>5, HeadTailProperties
  <2>2. Tail(buff) \o flight \in Seq(Items) /\ WellSent(Tail(buff) \o flight, ~gone)
    BY <1>1, <1>2, <1>5, HeadTaken
  <2>3. WellSent(<<Rest>> \o (Tail(buff) \o flight), ~gone)
    BY <2>2, RestPut
  <2>4. <<Rest>> \in Seq(Items)
    BY DEF Rest, Item, Items
  <2>5. (<<Rest>> \o Tail(buff)) \o flight = <<Rest>> \o (Tail(buff) \o flight)
    BY ONLY <1>1, <2>1, <2>4, ConcatAssociative
  <2> QED BY <2>1, <2>2, <2>3, <2>5
<1>6. CASE Garbage
  <2>1. /\ pc = "head" /\ buff # <<>> /\ Refuse(400) /\ buff' = Tail(buff)
        /\ gone' = gone /\ flight' = flight /\ got' = got
    BY <1>6 DEF Garbage, network
  <2>2. res'.by # "regular" /\ got' = 0 /\ pc' = "answer"
    BY <1>1, <1>3, <2>1, RefuseBy DEF Refuse
  <2>3. WellSent(Stream', ~gone')
    BY <1>5, <2>1 DEF Stream
  <2> QED BY <2>2, <2>3, StreamLeft DEF After
<1>7. CASE BadHead
  <2>1. /\ pc = "head" /\ buff # <<>> /\ Refuse(400) /\ buff' = <<Rest>> \o Tail(buff)
        /\ gone' = gone /\ flight' = flight /\ got' = got
    BY <1>7 DEF BadHead, Comes, network
  <2>2. res'.by # "regular" /\ got' = 0 /\ pc' = "answer"
    BY <1>1, <1>3, <2>1, RefuseBy DEF Refuse
  <2>3. WellSent(Stream', ~gone')
    BY <1>5, <2>1 DEF Stream
  <2> QED BY <2>2, <2>3, StreamLeft DEF After
<1>8. CASE GoodHead
  <2> DEFINE m == Head(buff).of
  <2>1. /\ pc = "head" /\ buff # <<>> /\ Head(buff).is = "head" /\ buff' = Tail(buff)
        /\ gone' = gone /\ flight' = flight /\ got' = got /\ late' = late
    BY <1>8 DEF GoodHead, Comes, network
  <2>2. WellSent(Stream', ~gone')
    BY <1>5, <2>1 DEF Stream
  <2>3. CASE Refuse(416)
    <3>1. res'.by # "regular" /\ got' = 0 /\ pc' = "answer"
      BY <1>1, <1>3, <2>1, <2>3, RefuseBy DEF Refuse
    <3> QED BY <2>2, <3>1, StreamLeft DEF After
  <2>4. CASE pc' = "skim" /\ UNCHANGED res
    BY <1>3, <2>1, <2>2, <2>4 DEF StreamInv, Before, After
  <2>5. CASE pc' \in {"expect", "route"} /\ UNCHANGED res /\ req' = m
    <3>1. HoldsRest(Stream', 0, Extent(m), m, ~gone)
      BY <1>1, <1>2, <2>1, HeadTaken DEF Stream
    <3>2. m \in Requests \cup {NoRequest} /\ m \in RequestType
      BY <2>1, HeadType DEF Inv, Items
    <3>3. m.framing = "none" => m.units = 0 \/ Unbounded(m)
      <4>1. NoRequest.units = 0
        BY DEF NoRequest
      <4>2. \A r \in Requests : r.framing = "none" => r.units = 0 \/ Unbounded(r)
        BY FramingAssumption DEF FramingAssumption
      <4> HIDE DEF m
      <4> QED BY ONLY <3>2, <4>1, <4>2
    <3>4. Extent(m) \in Nat /\ m.units \in Nat
      BY <3>2, ExtentType DEF RequestType
    <3> HIDE DEF m
    <3>5. got' = 0 /\ Extent(m) - 0 = Extent(m) /\ 0 \in 0..m.units
      BY <1>3, <2>1, <3>4
    <3>6. res'.by # "regular"
      BY <1>3, <2>1, <2>5
    <3> QED BY <2>1, <2>2, <2>5, <3>1, <3>3, <3>5, <3>6 DEF StreamInv, Before, After
  <2>6. \/ Refuse(416) \/ (pc' = "skim" /\ UNCHANGED res)
        \/ pc' \in {"expect", "route"} /\ UNCHANGED res /\ req' = m
    BY <1>8 DEF GoodHead
  <2> QED BY <2>3, <2>4, <2>5, <2>6
<1>9. CASE Skim
  <2>1. pc = "skim" /\ Refuse(414) /\ gone' = gone /\ flight' = flight /\ got' = got
    BY <1>9 DEF Skim, network
  <2>2. res'.by # "regular" /\ got' = 0 /\ pc' = "answer"
    BY <1>1, <1>3, <2>1, RefuseBy DEF Refuse
  <2>3. WellSent(Stream', ~gone')
    <3>1. CASE buff = <<>>
      BY <1>2, <1>9, <2>1, <3>1 DEF Skim, Stream
    <3>2. CASE buff # <<>>
      <4>1. buff' = <<Rest>> \o Tail(buff) \/ buff' = <<>> \o Tail(buff)
        BY <1>9, <3>2 DEF Skim
      <4>2. <<>> \o Tail(buff) = Tail(buff)
        BY <1>5, <3>2, ConcatEmptySeq
      <4> QED BY <1>5, <2>1, <3>2, <4>1, <4>2 DEF Stream
    <3> QED BY <3>1, <3>2
  <2> QED BY <2>2, <2>3, StreamLeft DEF After
<1>10. ASSUME NEW k \in 1..Len(flight), Fill(k) PROVE StreamInv'
  <2>1. /\ buff = <<>> /\ buff' = SubSeq(flight, 1, k)
        /\ flight' = SubSeq(flight, k + 1, Len(flight))
        /\ UNCHANGED <<gone, pc, late, req, res, got>>
    BY <1>10 DEF Fill, loop
  <2>2. Stream' = Stream
    <3>1. Len(flight) \in Nat /\ 1 \in 1..(Len(flight) + 1) /\ k \in 1..Len(flight)
          /\ k \in (1 - 1)..Len(flight) /\ Len(flight) \in k..Len(flight)
      BY <1>1, LenProperties
    <3>2. SubSeq(flight, 1, k) \o SubSeq(flight, k + 1, Len(flight)) = SubSeq(flight, 1, Len(flight))
      BY ONLY <1>1, <3>1, ConcatAdjacentSubSeq
    <3>3. SubSeq(flight, 1, Len(flight)) = flight /\ <<>> \o flight = flight
      BY <1>1, SubSeqFull, ConcatEmptySeq
    <3> QED BY <2>1, <3>2, <3>3 DEF Stream
  <2> QED BY <2>1, <2>2 DEF StreamInv, Settled, Skipped
<1> QED BY <1>4, <1>6, <1>7, <1>8, <1>9, <1>10 DEF ReadStep

\* the content was read: what is left of it is known
LEMMA ReceivedStream ==
  ASSUME res \in ResponseType, Received, WellSent(Stream', ~gone'),
         \/ HoldsRest(Stream', 0, 0, req, ~gone')
         \/ Skipped /\ req.framing = "chunked"
         \/ late' /\ Ending(req) = 2 /\ HoldsRest(Stream', 0, 1, req, ~gone')
         \/ ~late' /\ req.trait = "unended"
  PROVE  StreamInv'
<1>1. pc' = "call" /\ got' = 0 /\ req' = req
  BY DEF Received
<1>2. Settled'
  BY <1>1 DEF Settled, Skipped
<1> QED BY <1>1, <1>2 DEF StreamInv, Before, After

\* the content was read, or was not
LEMMA CompleteStream ==
  ASSUME res \in ResponseType, Complete, res.by # "regular", WellSent(Stream', ~gone'),
         \/ HoldsRest(Stream', 0, 0, req, ~gone')
         \/ late' /\ Ending(req) = 2 /\ HoldsRest(Stream', 0, 1, req, ~gone')
         \/ ~late' /\ req.trait = "unended"
  PROVE  StreamInv'
<1>1. CASE Received
  BY <1>1, ReceivedStream
<1>2. CASE \E status \in {400, 413} : NotReceived(status)
  BY <1>2, NotReceivedBy, StreamLeft
<1> QED BY <1>1, <1>2 DEF Complete

LEMMA ReceiveStream ==
  ASSUME Inv, StreamInv, ReceiveStep
  PROVE  StreamInv'
<1>1. req \in RequestType /\ res \in ResponseType /\ buff \in Seq(Items) /\ flight \in Seq(Items)
  BY DEF Inv, TypeInv
<1>2. pc \in {"receive", "trailer"} /\ gone' = gone /\ flight' = flight
  BY DEF ReceiveStep, ReceiveNothing, ReceiveUnit, ReceiveLength, ReceiveLast, ReceiveEnd,
         EndMissing, EndEaten, ReceiveAnything, ReceiveFails, Receiving, network
<1>21. WellSent(Stream, ~gone) /\ res.by # "regular" /\ ~late
  BY <1>2 DEF StreamInv, Before
<1>3. pc = "receive" =>
      /\ WellSent(Stream, ~gone) /\ res.by # "regular" /\ got \in 0..req.units
      /\ req.framing = "none" => req.units = 0 \/ Unbounded(req)
      /\ \/ req.framing = "none" /\ ~Skipped
         \/ HoldsRest(Stream, 0, Extent(req) - got, req, ~gone)
  BY <1>21 DEF StreamInv
<1>31. pc = "trailer" => /\ req.framing = "chunked" /\ Ending(req) \in {1, 2}
                        /\ HoldsRest(Stream, 0, Ending(req) - 1, req, ~gone)
  BY DEF StreamInv, Ending
<1>4. req.units \in Nat /\ (pc = "receive" => got \in Nat) /\ Extent(req) \in Nat
  BY <1>1, <1>3, ExtentType DEF RequestType
<1>5. buff' = buff => Stream' = Stream
  BY <1>2 DEF Stream
<1>6. ASSUME NEW status, NotReceived(status), WellSent(Stream', ~gone') PROVE StreamInv'
  BY <1>1, <1>21, <1>6, NotReceivedBy, StreamLeft
<1>7. CASE ReceiveNothing
  <2>1. buff' = buff /\ pc = "receive"
    BY <1>7 DEF ReceiveNothing
  <2>2. CASE Refusal # 0
    BY <1>2, <1>21, <1>5, <1>6, <1>7, <2>1, <2>2 DEF ReceiveNothing
  <2>3. CASE Refusal = 0
    <3>1. Skipped /\ Received /\ req.framing \in {"none", "chunked"}
      BY <1>1, <1>7, <2>3 DEF ReceiveNothing, Skipped, RequestType
    <3>2. req.framing = "none" => Extent(req) - got = 0
      BY <1>3, <1>4, <2>1, <3>1 DEF Extent, Ending, Skipped, Unbounded
    <3> QED BY <1>1, <1>2, <1>3, <1>5, <2>1, <3>1, <3>2, ReceivedStream
  <2> QED BY <2>2, <2>3
<1>8. CASE ReceiveUnit
  <2>1. /\ Receiving /\ req.framing # "none" /\ buff # <<>> /\ Head(buff).is = "data"
        /\ buff' = Tail(buff) /\ pc = "receive" /\ late' = late
    BY <1>8 DEF ReceiveUnit, Comes, Receiving, loop
  <2>2. WellSent(Stream', ~gone')
    BY <1>1, <1>2, <1>21, <2>1, HeadTaken DEF Stream
  <2>3. CASE NotReceived(400)
    BY <1>6, <2>2, <2>3
  <2>4. CASE got' = got + 1 /\ UNCHANGED <<pc, req, res>>
    <3> DEFINE n == Extent(req) - got
    <3>1. HoldsRest(buff \o flight, 0, n, req, ~gone)
      BY <1>3, <2>1 DEF Stream
    <3>2. n \in Nat \ {0} /\ (req.framing = "length" => got + 1 \in 0..req.units)
      <4>1. got \in 0..req.units /\ req.units \in Nat
        BY <1>3, <1>4, <2>1
      <4>2. CASE req.framing = "length"
        <5>1. got < req.units /\ Ending(req) = 0
          BY <2>1, <4>2 DEF Ending, Receiving
        <5> QED BY <4>1, <5>1 DEF Extent
      <4>3. CASE req.framing = "chunked"
        <5>1. Ending(req) \in {1, 2}
          BY <4>3 DEF Ending
        <5> QED BY <4>1, <4>3, <5>1 DEF Extent
      <4>4. req.framing \in {"none", "length", "chunked"}
        BY <1>1 DEF RequestType
      <4> QED BY <2>1, <4>2, <4>3, <4>4
    <3>3. /\ HoldsRest(Tail(buff) \o flight, 0, n - 1, req, ~gone)
          /\ Head(buff).is = Part(req, n - 1)
      BY ONLY <1>1, <2>1, <3>1, <3>2, PartTaken
    <3>4. req.framing = "chunked" => got + 1 \in 0..req.units
      <4>1. n - 1 >= Ending(req)
        BY <2>1, <3>3 DEF Part
      <4>2. Ending(req) \in 0..2 /\ Extent(req) = req.units + Ending(req)
        BY DEF Extent, Ending
      <4> QED BY <1>3, <1>4, <2>1, <3>2, <4>1, <4>2
    <3>5. got' \in 0..req.units /\ Extent(req) - got' = n - 1
      BY <1>1, <1>4, <2>1, <2>4, <3>2, <3>4 DEF RequestType
    <3>6. HoldsRest(Stream', 0, Extent(req) - got', req, ~gone')
      BY <1>2, <2>1, <3>3, <3>5 DEF Stream
    <3> HIDE DEF n
    <3>7. pc' = "receive" /\ res'.by # "regular" /\ ~late' /\ req' = req
      BY <1>21, <2>1, <2>4
    <3>8. req.framing = "none" => req.units = 0 \/ Unbounded(req)
      BY <1>3, <2>1
    <3> QED BY <2>2, <3>5, <3>6, <3>7, <3>8 DEF StreamInv, Before, After
  <2> QED BY <1>8, <2>3, <2>4 DEF ReceiveUnit
<1>9. CASE ReceiveLength
  <2>1. /\ buff' = buff /\ Complete /\ req.framing = "length" /\ got = req.units
        /\ pc = "receive"
    BY <1>9 DEF ReceiveLength
  <2>2. Extent(req) - got = 0
    BY <1>4, <2>1 DEF Extent, Ending
  <2> QED BY <1>1, <1>2, <1>3, <1>5, <2>1, <2>2, CompleteStream
<1>10. CASE ReceiveLast
  <2>1. /\ pc = "receive" /\ req.framing = "chunked" /\ buff # <<>> /\ Head(buff).is = "last"
        /\ buff' = Tail(buff) /\ pc' = "trailer" /\ UNCHANGED <<late, req, res>>
    BY <1>10 DEF ReceiveLast, Receiving, Comes, loop
  <2>2. WellSent(Stream', ~gone')
    BY <1>1, <1>2, <1>21, <2>1, HeadTaken DEF Stream
  <2> DEFINE n == Extent(req) - got
  <2>3. HoldsRest(buff \o flight, 0, n, req, ~gone) /\ got \in 0..req.units
    BY <1>3, <2>1 DEF Stream
  <2>4. Ending(req) \in {1, 2} /\ Extent(req) = req.units + Ending(req)
    BY <2>1 DEF Extent, Ending
  <2>5. n \in Nat \ {0}
    BY <1>4, <2>3, <2>4
  <2>6. /\ HoldsRest(Tail(buff) \o flight, 0, n - 1, req, ~gone)
        /\ Head(buff).is = Part(req, n - 1)
    BY ONLY <1>1, <2>1, <2>3, <2>5, PartTaken
  <2>7. n = Ending(req)
    <3>1. ~(n - 1 >= Ending(req))
      BY <2>1, <2>6 DEF Part
    <3>2. ~(n - 1 = 0 /\ req.trait # "unended")
      BY <2>1, <2>6, <3>1 DEF Part
    <3>3. req.trait # "unended" <=> Ending(req) = 2
      BY <2>1 DEF Ending
    <3> HIDE DEF n
    <3> QED BY <2>4, <2>5, <3>1, <3>2, <3>3
  <2>8. HoldsRest(Stream', 0, Ending(req) - 1, req, ~gone')
    BY <1>2, <2>1, <2>6, <2>7 DEF Stream
  <2> QED BY <1>21, <2>1, <2>2, <2>8 DEF StreamInv, Before, After
<1>13. ASSUME pc = "trailer", buff # <<>>
       PROVE  /\ Tail(buff) \in Seq(Items)
              /\ WellSent(Tail(buff) \o flight, ~gone)
              /\ WellSent((<<Rest>> \o Tail(buff)) \o flight, ~gone)
              /\ Ending(req) = 2 => /\ HoldsRest(Tail(buff) \o flight, 0, 0, req, ~gone)
                                    /\ Head(buff).is = "end"
  <2>1. Tail(buff) \in Seq(Items)
    BY <1>1, <1>13, HeadTailProperties
  <2>2. Tail(buff) \o flight \in Seq(Items) /\ WellSent(Tail(buff) \o flight, ~gone)
    BY <1>1, <1>13, <1>21, HeadTaken DEF Stream
  <2>3. WellSent(<<Rest>> \o (Tail(buff) \o flight), ~gone)
    BY <2>2, RestPut
  <2>4. <<Rest>> \in Seq(Items)
    BY DEF Rest, Item, Items
  <2>5. (<<Rest>> \o Tail(buff)) \o flight = <<Rest>> \o (Tail(buff) \o flight)
    BY ONLY <1>1, <2>1, <2>4, ConcatAssociative
  <2>6. ASSUME Ending(req) = 2
        PROVE  /\ HoldsRest(Tail(buff) \o flight, 0, 0, req, ~gone)
               /\ Head(buff).is = "end"
    <3>1. HoldsRest(buff \o flight, 0, 1, req, ~gone)
      BY <1>13, <1>31, <2>6 DEF Stream
    <3>2. 1 \in Nat \ {0} /\ 1 - 1 = 0
      OBVIOUS
    <3>3. HoldsRest(Tail(buff) \o flight, 0, 1 - 1, req, ~gone) /\ Head(buff).is = Part(req, 1 - 1)
      BY ONLY <1>1, <1>13, <3>1, <3>2, PartTaken
    <3>4. Part(req, 0) = "end"
      BY <2>6 DEF Part, Ending
    <3> QED BY <3>2, <3>3, <3>4
  <2> QED BY <2>1, <2>2, <2>3, <2>5, <2>6
<1>14. pc = "trailer" =>
         \/ Ending(req) = 2
         \/ req.trait = "unended" /\ HoldsRest(Stream, 0, 0, req, ~gone)
  <2>1. 1 - 1 = 0
    OBVIOUS
  <2> QED BY <1>31, <2>1 DEF Ending
<1>15. CASE ReceiveEnd
  <2>1. /\ pc = "trailer" /\ buff # <<>> /\ Complete /\ buff' = Tail(buff) /\ late' = late
    BY <1>15 DEF ReceiveEnd, Comes, loop
  <2>2. WellSent(Stream', ~gone')
    BY <1>2, <1>13, <2>1 DEF Stream
  <2>3. HoldsRest(Stream', 0, 0, req, ~gone') \/ req.trait = "unended"
    BY <1>2, <1>13, <1>14, <2>1 DEF Stream
  <2> QED BY <1>1, <1>21, <2>1, <2>2, <2>3, CompleteStream
<1>16. CASE EndMissing
  <2>1. pc = "trailer" /\ buff' = buff /\ Complete /\ late'
    BY <1>16 DEF EndMissing
  <2>2. \/ HoldsRest(Stream', 0, 0, req, ~gone')
        \/ Ending(req) = 2 /\ HoldsRest(Stream', 0, 1, req, ~gone')
    BY <1>2, <1>5, <1>14, <1>31, <2>1
  <2> QED BY <1>1, <1>2, <1>5, <1>21, <2>1, <2>2, CompleteStream
<1>17. CASE EndEaten
  <2>1. /\ pc = "trailer" /\ buff # <<>> /\ Head(buff).is = "head" /\ late' = late
        /\ \/ Complete /\ buff' = Tail(buff)
           \/ NotReceived(400) /\ buff' = <<Rest>> \o Tail(buff)
    BY <1>17 DEF EndEaten, Comes, loop
  <2>2. WellSent(Stream', ~gone')
    BY <1>2, <1>13, <2>1 DEF Stream
  <2>3. req.trait = "unended"
    BY <1>13, <1>14, <2>1
  <2>4. CASE NotReceived(400)
    BY <1>6, <2>2, <2>4
  <2> QED BY <1>1, <1>21, <2>1, <2>2, <2>3, <2>4, CompleteStream
<1>11. CASE ReceiveAnything
  <2>1. /\ ~Skipped /\ req.framing = "none" /\ buff' = <<>> /\ pc = "receive"
        /\ UNCHANGED <<pc, late, req, res, got>>
    BY <1>11 DEF ReceiveAnything, Receiving, loop
  <2>2. WellSent(Stream', ~gone')
    BY <1>1, <1>2, <1>21, <2>1, BufferLost DEF Stream
  <2>3. ~Skipped'
    BY <2>1 DEF Skipped
  <2> QED BY <1>2, <1>3, <1>21, <2>1, <2>2, <2>3 DEF StreamInv, Before, After
<1>12. CASE ReceiveFails
  <2>1. buff = <<>> /\ buff' = buff
    BY <1>12 DEF ReceiveFails
  <2>2. CASE \E status : NotReceived(status)
    BY <1>2, <1>21, <1>5, <1>6, <2>1, <2>2
  <2>3. CASE AtEnd /\ Complete
    <3>1. Stream' = <<>> /\ (~gone') = FALSE
      BY <1>2, <2>1, <2>3, ConcatEmptySeq, EmptySeq DEF Stream, AtEnd
    <3>2. Len(<<>>) = 0 /\ 1..0 = {} /\ ~(0 + 0 + 1 <= 0)
      BY EmptySeq
    <3>3. HoldsRest(Stream', 0, 0, req, ~gone')
      BY <3>1, <3>2 DEF HoldsRest
    <3>4. WellSent(Stream', ~gone')
      BY <3>1, <3>2 DEF WellSent
    <3> QED BY <1>1, <1>21, <2>3, <3>3, <3>4, CompleteStream
  <2> QED BY <1>12, <2>2, <2>3 DEF ReceiveFails
<1> QED BY <1>7, <1>8, <1>9, <1>10, <1>11, <1>12, <1>15, <1>16, <1>17 DEF ReceiveStep

LEMMA StreamInit ==
  ASSUME Init PROVE StreamInv
<1>1. pc = "idle" /\ got = 0 /\ res = NoResponse /\ Stream = <<>> \o <<>>
  BY DEF Init, Stream
<1>2. WellSent(Stream, ~gone)
  <2>1. <<>> \in Seq(Items)
    OBVIOUS
  <2> QED BY <1>1, <2>1, BufferLost
<1> QED BY <1>1, <1>2 DEF StreamInv, Before, After, NoResponse

LEMMA StreamNext ==
  ASSUME Inv, StreamInv, [Next]_vars
  PROVE  StreamInv'
<1>1. CASE UNCHANGED vars
  BY <1>1 DEF vars, network, loop, StreamInv, Settled, Stream, Skipped
<1> QED BY <1>1, LoopStream, ReadStream, RouteStream, ReceiveStream, WriteStream, ClientStream
        DEF Next, ServerStep

\* However the requests of a client are cut into packets, pipelined or left
\* unfinished: when a handler was called with the content of its request, the
\* connection goes on at the head of the next one; or with the empty line behind the
\* last chunk, if it came too late; not so after chunks whose client leaves that line
\* out, and after a DELETE with chunks.  StreamInv follows the content from the head it
\* was announced in, through the buffer, to its last item (httplib.h:5420-5520).
THEOREM StopsAtBoundary == SafetySpec => []AtBoundary
<1>1. Init => StreamInv
  BY StreamInit
<1>2. Inv /\ StreamInv /\ [Next]_vars => StreamInv'
  BY StreamNext
<1>3. Inv /\ StreamInv => AtBoundary
  <2>1. SUFFICES ASSUME Inv, StreamInv, pc = "done", res.by = "regular"
                 PROVE  \/ AtHead(Stream)
                        \/ Skipped /\ req.framing = "chunked"
                        \/ late /\ Head(Stream).is = "end" /\ AtHead(Tail(Stream))
                        \/ ~late /\ req.trait = "unended"
    BY DEF AtBoundary, Stream
  <2>2. Settled
    BY <2>1 DEF StreamInv, After
  <2>3. Stream \in Seq(Items)
    BY <2>1, ConcatProperties DEF Inv, TypeInv, Stream
  <2>4. SUFFICES ASSUME Stream # <<>> PROVE
          \/ AtHead(Stream)
          \/ Skipped /\ req.framing = "chunked"
          \/ late /\ Head(Stream).is = "end" /\ AtHead(Tail(Stream))
          \/ ~late /\ req.trait = "unended"
    BY DEF AtHead
  <2>5. Len(Stream) \in Nat \ {0} /\ Head(Stream) = Stream[1]
    BY <2>3, <2>4, EmptySeq, LenProperties
  <2>6. CASE HoldsRest(Stream, 0, 0, req, ~gone)
    <3>1. 0 + 0 + 1 <= Len(Stream) /\ 0 + 0 + 1 = 1
      BY <2>5
    <3> QED BY <2>5, <2>6, <3>1 DEF HoldsRest, AtHead
  <2>7. CASE late /\ Ending(req) = 2 /\ HoldsRest(Stream, 0, 1, req, ~gone)
    <3>1. 1 \in 1..1 /\ 0 + 1 <= Len(Stream) /\ 0 + 1 = 1 /\ 1 - 1 = 0
      BY <2>5
    <3>2. Stream[1].is = Part(req, 0)
      BY <2>7, <3>1 DEF HoldsRest
    <3>3. Part(req, 0) = "end"
      BY <2>7 DEF Part, Ending
    <3>4. /\ Tail(Stream) \in Seq(Items) /\ Len(Tail(Stream)) = Len(Stream) - 1
          /\ \A i \in 1..(Len(Stream) - 1) : Tail(Stream)[i] = Stream[i + 1]
      BY <2>3, <2>4, HeadTailProperties
    <3>5. ASSUME Tail(Stream) # <<>> PROVE Head(Tail(Stream)).is = "head"
      <4>1. Len(Tail(Stream)) \in Nat \ {0} /\ Head(Tail(Stream)) = Tail(Stream)[1]
        BY <3>4, <3>5, EmptySeq, LenProperties
      <4>2. 1 \in 1..(Len(Stream) - 1) /\ 0 + 1 + 1 <= Len(Stream) /\ 0 + 1 + 1 = 1 + 1
        BY <2>5, <3>4, <4>1
      <4>3. Stream[1 + 1].is = "head"
        BY <2>7, <4>2 DEF HoldsRest
      <4> QED BY <3>4, <4>1, <4>2, <4>3
    <3> QED BY <2>5, <2>7, <3>2, <3>3, <3>5 DEF AtHead
  <2> QED BY <2>2, <2>6, <2>7 DEF Settled
<1> QED BY <1>1, <1>2, <1>3, Invariance, PTL DEF SafetySpec

----------------------------------------------------------------------------
(* Induction, on sets of numbers, and the length of several pieces *)

LEMMA LeastNumber ==
  ASSUME NEW T \in SUBSET Nat, T # {}
  PROVE  \E x \in T : \A y \in T : x <= y
<1>1. PICK x \in T : \A y \in T : ~(<<y, x>> \in OpToRel(<, Nat))
  BY NatLessThanWellFounded, WFMin
<1>2. \A y \in T : ~(y < x)
  BY <1>1 DEF OpToRel
<1>3. \A y \in T : y \in Nat
  OBVIOUS
<1>4. \A y \in T : x <= y
  BY <1>2, <1>3
<1> QED BY <1>4

LEMMA AllNumbers ==
  ASSUME NEW T \in SUBSET Nat, 0 \in T, \A n \in T : n + 1 \in T
  PROVE  T = Nat
<1>1. SUFFICES ASSUME Nat \ T # {} PROVE FALSE
  OBVIOUS
<1>2. PICK x \in Nat \ T : \A y \in Nat \ T : x <= y
  BY <1>1, LeastNumber
<1>3. x # 0 /\ x - 1 \in Nat /\ (x - 1) + 1 = x /\ ~(x <= x - 1)
  BY <1>2
<1> QED BY <1>2, <1>3

\* f has the sums of the first pieces
SumsUp(f, s, n) == /\ f \in [0..n -> Int] /\ f[0] = 0
                   /\ \A i \in 1..n : f[i] = f[i - 1] + s[i]

LEMMA SumsExist ==
  ASSUME NEW s \in Seq(Int)
  PROVE  \E f : SumsUp(f, s, Len(s))
<1> DEFINE T == {n \in Nat : n <= Len(s) => \E f : SumsUp(f, s, n)}
<1>1. Len(s) \in Nat /\ \A i \in 1..Len(s) : s[i] \in Int
  BY LenProperties, ElementOfSeq
<1>2. 0 \in T
  <2>1. SumsUp([i \in 0..0 |-> 0], s, 0)
    BY DEF SumsUp
  <2> QED BY <2>1
<1>3. ASSUME NEW n \in T PROVE n + 1 \in T
  <2>1. SUFFICES ASSUME n + 1 <= Len(s) PROVE \E f : SumsUp(f, s, n + 1)
    OBVIOUS
  <2>2. n \in Nat /\ n <= Len(s) /\ n + 1 \in 1..Len(s)
    BY <1>1, <2>1
  <2>3. PICK f : SumsUp(f, s, n)
    BY <2>2
  <2> DEFINE g == [i \in 0..n + 1 |-> IF i <= n THEN f[i] ELSE f[n] + s[n + 1]]
  <2>4. f \in [0..n -> Int] /\ f[0] = 0 /\ s[n + 1] \in Int
        /\ \A i \in 1..n : f[i] = f[i - 1] + s[i]
    BY <1>1, <2>2, <2>3 DEF SumsUp
  <2>5. g \in [0..n + 1 -> Int]
    <3>1. \A i \in 0..n + 1 : i <= n => i \in 0..n
      BY <2>2
    <3>2. n \in 0..n
      BY <2>2
    <3> QED BY <2>4, <3>1, <3>2
  <2>6. g[0] = 0
    BY <2>2, <2>4
  <2>7. ASSUME NEW i \in 1..n + 1 PROVE g[i] = g[i - 1] + s[i]
    <3>1. i \in 0..n + 1 /\ i - 1 \in 0..n + 1 /\ i - 1 <= n
      BY <2>2
    <3>2. g[i - 1] = f[i - 1]
      BY <3>1
    <3>3. CASE i <= n
      <4>1. i \in 1..n /\ g[i] = f[i]
        BY <3>1, <3>3
      <4> QED BY <2>4, <3>2, <4>1
    <3>4. CASE ~(i <= n)
      <4>1. i = n + 1 /\ i - 1 = n
        BY <2>2, <3>4
      <4>2. g[i] = f[n] + s[n + 1]
        BY <3>1, <3>4
      <4> QED BY <3>2, <4>1, <4>2
    <3> QED BY <3>3, <3>4
  <2> HIDE DEF g
  <2> QED BY <2>5, <2>6, <2>7 DEF SumsUp
<1>4. T = Nat
  <2>1. T \in SUBSET Nat
    OBVIOUS
  <2> HIDE DEF T
  <2> QED BY <1>2, <1>3, <2>1, AllNumbers
<1> QED BY <1>1, <1>4

LEMMA SumsUnique ==
  ASSUME NEW s, NEW n \in Nat, NEW f, SumsUp(f, s, n),
         NEW g, g = [i \in 0..n |-> IF i = 0 THEN 0 ELSE g[i - 1] + s[i]]
  PROVE  g[n] = f[n]
<1> DEFINE T == {k \in Nat : k <= n => g[k] = f[k]}
<1>1. 0 \in T
  BY DEF SumsUp
<1>2. ASSUME NEW k \in T PROVE k + 1 \in T
  <2>1. SUFFICES ASSUME k + 1 <= n PROVE g[k + 1] = f[k + 1]
    OBVIOUS
  <2>2. k + 1 \in 1..n /\ k + 1 \in 0..n /\ k + 1 # 0 /\ (k + 1) - 1 = k /\ g[k] = f[k]
    BY <2>1
  <2>3. g[k + 1] = g[(k + 1) - 1] + s[k + 1]
    BY <2>2
  <2>4. f[k + 1] = f[(k + 1) - 1] + s[k + 1]
    BY <2>2 DEF SumsUp
  <2> QED BY <2>2, <2>3, <2>4
<1>3. T = Nat
  <2>1. T \in SUBSET Nat
    OBVIOUS
  <2> HIDE DEF T
  <2> QED BY <1>1, <1>2, <2>1, AllNumbers
<1>4. n \in T
  <2> HIDE DEF T
  <2> QED BY <1>3
<1> QED BY <1>4

LEMMA LengthSums ==
  ASSUME NEW s \in Seq(Int)
  PROVE  \E f : SumsUp(f, s, Len(s)) /\ LengthOf(s) = f[Len(s)]
<1> DEFINE n == Len(s)
           g == CHOOSE h : h = [i \in 0..n |-> IF i = 0 THEN 0 ELSE h[i - 1] + s[i]]
<1>1. n \in Nat
  BY LenProperties
<1>2. PICK f : SumsUp(f, s, n)
  BY SumsExist
<1>3. LengthOf(s) = g[n]
  BY DEF LengthOf
<1>4. f = [i \in 0..n |-> IF i = 0 THEN 0 ELSE f[i - 1] + s[i]]
  <2> HIDE DEF n
  <2>1. \A i \in 0..n : f[i] = IF i = 0 THEN 0 ELSE f[i - 1] + s[i]
    BY <1>1, <1>2 DEF SumsUp
  <2> QED BY <1>2, <2>1 DEF SumsUp
<1>5. g = [i \in 0..n |-> IF i = 0 THEN 0 ELSE g[i - 1] + s[i]]
  BY <1>4
<1> HIDE DEF n, g
<1>6. g[n] = f[n]
  BY <1>1, <1>2, <1>5, SumsUnique
<1> QED BY <1>2, <1>3, <1>6 DEF n

\* the first piece, and the others
LEMMA LengthOfParts ==
  ASSUME NEW s \in Seq(Int)
  PROVE  /\ LengthOf(s) \in Int
         /\ s = <<>> => LengthOf(s) = 0
         /\ s # <<>> => LengthOf(s) = Head(s) + LengthOf(Tail(s))
<1> DEFINE n == Len(s)
<1>1. n \in Nat
  BY LenProperties
<1>2. PICK f : SumsUp(f, s, n) /\ LengthOf(s) = f[n]
  BY LengthSums
<1>3. LengthOf(s) \in Int
  BY <1>1, <1>2 DEF SumsUp
<1>4. s = <<>> => LengthOf(s) = 0
  BY <1>2 DEF SumsUp
<1>5. ASSUME s # <<>> PROVE LengthOf(s) = Head(s) + LengthOf(Tail(s))
  <2> DEFINE t == Tail(s)
  <2>1. /\ t \in Seq(Int) /\ n # 0 /\ Len(t) = n - 1 /\ Head(s) = s[1]
        /\ \A i \in 1..(n - 1) : t[i] = s[i + 1]
    BY <1>5, EmptySeq, HeadTailProperties
  <2>2. \A i \in 1..n : s[i] \in Int
    BY ElementOfSeq
  <2> HIDE DEF t, n
  <2>3. PICK g : SumsUp(g, t, n - 1) /\ LengthOf(t) = g[n - 1]
    BY <2>1, LengthSums
  <2> DEFINE T == {k \in Nat : k <= n - 1 => f[k + 1] = s[1] + g[k]}
  <2>4. 0 \in T
    <3>1. 1 \in 1..n /\ 0 + 1 = 1 /\ 1 - 1 = 0
      BY <1>1, <2>1
    <3>2. f[1] = f[0] + s[1] /\ f[0] = 0 /\ g[0] = 0 /\ s[1] \in Int
      BY <1>2, <2>2, <2>3, <3>1 DEF SumsUp
    <3> QED BY <3>1, <3>2
  <2>5. ASSUME NEW k \in T PROVE k + 1 \in T
    <3>1. SUFFICES ASSUME k + 1 <= n - 1 PROVE f[(k + 1) + 1] = s[1] + g[k + 1]
      OBVIOUS
    <3>2. /\ (k + 1) + 1 \in 1..n /\ k + 1 \in 1..(n - 1) /\ k \in 0..(n - 1) /\ 1 \in 1..n
          /\ ((k + 1) + 1) - 1 = k + 1 /\ (k + 1) - 1 = k /\ k <= n - 1
      BY <1>1, <2>1, <3>1
    <3>3. f[(k + 1) + 1] = f[k + 1] + s[(k + 1) + 1]
      BY <1>2, <3>2 DEF SumsUp
    <3>4. g[k + 1] = g[k] + t[k + 1] /\ g[k] \in Int
      BY <2>3, <3>2 DEF SumsUp
    <3>5. t[k + 1] = s[(k + 1) + 1] /\ s[(k + 1) + 1] \in Int /\ s[1] \in Int
      BY <2>1, <2>2, <3>2
    <3>6. f[k + 1] = s[1] + g[k]
      BY <3>2
    <3> QED BY <3>3, <3>4, <3>5, <3>6
  <2>6. T = Nat
    <3>1. T \in SUBSET Nat
      OBVIOUS
    <3> HIDE DEF T
    <3> QED BY <2>4, <2>5, <3>1, AllNumbers
  <2>7. n - 1 \in Nat /\ (n - 1) + 1 = n
    BY <1>1, <2>1
  <2>8. f[n] = s[1] + g[n - 1]
    BY <2>6, <2>7
  <2> QED BY <1>2, <2>1, <2>3, <2>8 DEF t, n
<1> QED BY <1>3, <1>4, <1>5

----------------------------------------------------------------------------
(* What was announced and what is written *)

Fields == {"framing", "length", "written", "todo", "ended", "cut"}

\* the ranges a provider is asked for are those that were announced
AsAnnounced == res.status = 206 \/ req.ranges = <<>>

\* what was written and what is still to be written is what was announced
OnTheWay ==
  /\ out.length \in Int /\ out.written \in Int /\ out.todo \in Seq(Int)
  /\ out.ended \in {"no", "done", "blank"}
  /\ res.kind = "none" => out.framing = "length" /\ out.written = out.length
  /\ res.kind = "body" /\ res.apply = "yes" =>
       out.framing = "length" /\ out.written = 0 /\ out.todo = <<out.length>>
  /\ res.kind = "sized" /\ res.apply = "yes" =>
       /\ out.framing = "length"
       /\ AsAnnounced => out.cut \/ out.written + LengthOf(out.todo) = out.length
  /\ res.kind = "sized" /\ Sound => \A i \in 1..Len(out.todo) : out.todo[i] >= 0
  /\ res.kind = "chunked" /\ res.apply = "yes" => out.framing = "chunked"

Delivered == \/ out.framing = "length" /\ out.written = out.length
             \/ out.framing = "chunked" /\ out.ended \in {"done", "blank"}
             \/ res.apply = "no" /\ res.kind # "none"
             \/ res.kind = "stream"
             \/ res.kind = "sized" /\ ~AsAnnounced
             \/ out.cut

OutInv == /\ Fields \subseteq DOMAIN out
          /\ pc = "write" /\ req.method # "HEAD" => OnTheWay
          /\ pc = "done" /\ req.method # "HEAD" => Delivered

LEMMA PiecesType ==
  ASSUME NEW ranges \in Seq(RangeType), NEW size \in Nat
  PROVE  /\ Pieces(ranges, size) \in Seq(Int) /\ Frames(ranges) \in Nat
         /\ TotalLength(ranges, size) \in Int
         /\ TotalLength(ranges, size) = Frames(ranges) + LengthOf(Pieces(ranges, size))
<1>1. DOMAIN ranges = 1..Len(ranges) /\ Len(ranges) \in Nat
  OBVIOUS
<1>2. \A i \in DOMAIN ranges : PartLength(ranges[i]) \in Int
  <2>1. \A i \in DOMAIN ranges : ranges[i] \in RangeType
    OBVIOUS
  <2>2. \A r \in RangeType : PartLength(r) \in Int
    BY DEF PartLength, RangeType
  <2> QED BY <2>1, <2>2
<1>3. Pieces(ranges, size) \in Seq(Int)
  <2>1. CASE ranges = <<>>
    BY <2>1 DEF Pieces
  <2>2. CASE ranges # <<>>
    <3>1. [i \in DOMAIN ranges |-> PartLength(ranges[i])] \in [1..Len(ranges) -> Int]
      BY <1>1, <1>2
    <3> QED BY <1>1, <2>2, <3>1, SeqDef DEF Pieces
  <2> QED BY <2>1, <2>2
<1>4. Frames(ranges) \in Nat
  BY <1>1 DEF Frames
<1>5. LengthOf(Pieces(ranges, size)) \in Int
  BY <1>3, LengthOfParts
<1> QED BY <1>3, <1>4, <1>5 DEF TotalLength

\* a provider is never asked for less than nothing
LEMMA PiecesCount ==
  ASSUME NEW ranges \in Seq(RangeType), NEW size \in Nat,
         \A i \in DOMAIN ranges : InBounds(ranges[i], size)
  PROVE  \A i \in 1..Len(Pieces(ranges, size)) : Pieces(ranges, size)[i] >= 0
<1>1. DOMAIN ranges = 1..Len(ranges) /\ Len(ranges) \in Nat
  OBVIOUS
<1>2. CASE ranges = <<>>
  BY <1>2 DEF Pieces
<1>3. CASE ranges # <<>>
  <2>1. \A i \in DOMAIN ranges : PartLength(ranges[i]) >= 0
    <3>1. \A i \in DOMAIN ranges : ranges[i] \in RangeType
      OBVIOUS
    <3>2. \A r \in RangeType : InBounds(r, size) => PartLength(r) >= 0
      BY DEF PartLength, RangeType, InBounds
    <3> QED BY <3>1, <3>2
  <2> DEFINE P == [i \in DOMAIN ranges |-> PartLength(ranges[i])]
  <2>2. Pieces(ranges, size) = P
    BY <1>3 DEF Pieces
  <2>3. Pieces(ranges, size) \in Seq(Int)
    BY PiecesType
  <2>4. DOMAIN P = 1..Len(P)
    BY <2>2, <2>3
  <2>5. \A i \in DOMAIN P : P[i] >= 0
    BY <2>1
  <2> HIDE DEF P
  <2> QED BY <2>2, <2>4, <2>5
<1> QED BY <1>2, <1>3

\* the head of the answer announces what is then to be written
LEMMA HeadOut ==
  ASSUME req \in RequestType, NEW r \in ResponseType, WriteHead(r)
  PROVE  OutInv'
<1>1. /\ pc' = "write" /\ res' = r /\ req' = req
      /\ out' = [framing |-> Framing(r), length |-> Announced(r),
                 told |-> TellsClose, written |-> Content(r).frames,
                 todo |-> Content(r).todo, ended |-> "no", cut |-> FALSE]
  BY DEF WriteHead
<1>2. /\ Fields \subseteq DOMAIN out'
      /\ out'.framing = Framing(r) /\ out'.length = Announced(r)
      /\ out'.written = Content(r).frames /\ out'.todo = Content(r).todo
      /\ out'.ended = "no"
  BY <1>1 DEF Fields
<1>3. /\ r.kind \in Kinds /\ r.size \in Nat /\ r.apply \in {"yes", "no"}
      /\ req.ranges \in Seq(RangeType) /\ Applied(r) \in Seq(RangeType)
  <2>1. req.ranges \in Seq(RangeType) /\ <<>> \in Seq(RangeType)
    BY DEF RequestType
  <2> QED BY <2>1 DEF ResponseType, Applied
<1> DEFINE total == TotalLength(Applied(r), r.size)
<1>4. total \in Int
  BY <1>3, PiecesType
<1> HIDE DEF total
<1>5. Announced(r) \in Int
  BY <1>4 DEF Announced, total
<1>6. CASE r.kind = "body"
  <2>1. Content(r).todo = <<total>> /\ Content(r).frames = 0
    BY <1>6 DEF Content, total
  <2>2. r.apply = "yes" => Framing(r) = "length" /\ Announced(r) = total
    BY <1>6 DEF Framing, Announced, total
  <2> QED BY <1>1, <1>2, <1>4, <1>5, <1>6, <2>1, <2>2 DEF OutInv, OnTheWay
<1>7. CASE r.kind = "sized"
  <2> DEFINE P == Pieces(req.ranges, r.size)
             F == Frames(req.ranges)
  <2>1. Content(r).todo = P /\ Content(r).frames = F
    BY <1>7 DEF Content
  <2>2. P \in Seq(Int) /\ F \in Nat /\ TotalLength(req.ranges, r.size) = F + LengthOf(P)
    BY <1>3, PiecesType
  <2>3. (\A i \in DOMAIN req.ranges : InBounds(req.ranges[i], r.size))
           => \A i \in 1..Len(P) : P[i] >= 0
    BY <1>3, PiecesCount
  <2>4. r.apply = "yes" => Framing(r) = "length" /\ Announced(r) = total
    BY <1>7 DEF Framing, Announced, total
  <2>5. r.apply = "yes" /\ (r.status = 206 \/ req.ranges = <<>>) => Applied(r) = req.ranges
    BY DEF Applied
  <2>6. r.apply = "yes" /\ AsAnnounced' => out'.written + LengthOf(out'.todo) = out'.length
    BY <1>1, <1>2, <2>1, <2>2, <2>4, <2>5 DEF AsAnnounced, total
  <2>7. Sound' => \A i \in 1..Len(out'.todo) : out'.todo[i] >= 0
    BY <1>1, <1>2, <2>1, <2>3 DEF Sound
  <2>8. F \in Int
    BY <2>2
  <2> HIDE DEF P, F
  <2>9. out'.todo \in Seq(Int) /\ out'.written \in Int
    BY <1>2, <2>1, <2>2, <2>8
  <2> QED BY <1>1, <1>2, <1>5, <1>7, <2>4, <2>6, <2>7, <2>9 DEF OutInv, OnTheWay
<1>8. CASE r.kind \notin {"body", "sized"}
  <2>1. Content(r).todo = <<>> /\ Content(r).frames = 0
    BY <1>8 DEF Content
  <2>2. r.kind = "none" => Framing(r) = "length" /\ Announced(r) = 0
    BY DEF Framing, Announced
  <2>3. r.kind = "chunked" /\ r.apply = "yes" => Framing(r) = "chunked"
    BY DEF Framing
  <2> QED BY <1>1, <1>2, <1>5, <1>8, <2>1, <2>2, <2>3 DEF OutInv, OnTheWay
<1> QED BY <1>6, <1>7, <1>8

LEMMA AnswerOut ==
  ASSUME Inv, Answer
  PROVE  OutInv'
<1>1. req \in RequestType /\ res \in ResponseType
  BY DEF Inv, TypeInv
<1>2. CASE WriteHead(res)
  BY <1>1, <1>2, HeadOut
<1>3. ASSUME NEW h \in ErrorHandlings, NEW handled \in BOOLEAN,
             WriteHead(WithErrorHandler(h, handled))
      PROVE  OutInv'
  <2>1. h.kind \in Kinds /\ h.size \in Nat
    BY RequestAssumption DEF RequestAssumption
  <2>2. WithErrorHandler(h, handled) \in ResponseType
    BY <1>1, <2>1 DEF WithErrorHandler, ResponseType
  <2> QED BY <1>1, <1>3, <2>2, HeadOut
<1> QED BY <1>2, <1>3 DEF Answer

\* the pieces of an answer, as they are written
LEMMA PieceShorter ==
  ASSUME NEW s \in Seq(Int), s # <<>>, NEW t, t = [s EXCEPT ![1] = @ - 1]
  PROVE  /\ t \in Seq(Int) /\ Len(t) = Len(s) /\ LengthOf(t) = LengthOf(s) - 1
         /\ \A i \in 1..Len(s) : t[i] = IF i = 1 THEN Head(s) - 1 ELSE s[i]
<1>1. Len(s) \in Nat \ {0} /\ DOMAIN s = 1..Len(s) /\ Head(s) = s[1] /\ 1 \in 1..Len(s)
  BY EmptySeq, LenProperties
<1>2. \A i \in 1..Len(s) : s[i] \in Int
  BY ElementOfSeq
<1>3. t \in [1..Len(s) -> Int]
  BY <1>1, <1>2
<1>4. t \in Seq(Int) /\ Len(t) = Len(s) /\ t # <<>>
  BY <1>1, <1>3, SeqDef, EmptySeq, LenProperties
<1>5. \A i \in 1..Len(s) : t[i] = IF i = 1 THEN Head(s) - 1 ELSE s[i]
  BY <1>1
<1>6. Head(t) = Head(s) - 1 /\ Head(s) \in Int
  BY <1>1, <1>2, <1>4, <1>5
<1>7. Tail(t) = Tail(s)
  <2>1. /\ Tail(s) \in Seq(Int) /\ Len(Tail(s)) = Len(s) - 1
        /\ \A i \in 1..(Len(s) - 1) : Tail(s)[i] = s[i + 1]
    BY HeadTailProperties
  <2>2. /\ Tail(t) \in Seq(Int) /\ Len(Tail(t)) = Len(s) - 1
        /\ \A i \in 1..(Len(s) - 1) : Tail(t)[i] = t[i + 1]
    BY <1>4, HeadTailProperties
  <2>3. \A i \in 1..(Len(s) - 1) : i + 1 \in 1..Len(s) /\ i + 1 # 1
    BY <1>1
  <2>4. \A i \in 1..(Len(s) - 1) : Tail(t)[i] = Tail(s)[i]
    BY <1>5, <2>1, <2>2, <2>3
  <2> QED BY <2>1, <2>2, <2>4, SeqEqual
<1>8. LengthOf(s) = Head(s) + LengthOf(Tail(s)) /\ LengthOf(t) = Head(t) + LengthOf(Tail(t))
  BY <1>4, LengthOfParts
<1>9. LengthOf(Tail(s)) \in Int
  BY HeadTailProperties, LengthOfParts
<1>10. LengthOf(t) = (Head(s) - 1) + LengthOf(Tail(s))
  BY ONLY <1>6, <1>7, <1>8
<1>11. LengthOf(t) = LengthOf(s) - 1
  BY ONLY <1>6, <1>8, <1>9, <1>10
<1> QED BY ONLY <1>4, <1>5, <1>11

LEMMA WriteOut ==
  ASSUME Inv, OutInv, WriteStep
  PROVE  OutInv'
<1>1. pc = "write" => Fields \subseteq DOMAIN out /\ (req.method # "HEAD" => OnTheWay)
  BY DEF OutInv
<1>2. CASE WriteNothing
  <2>1. pc = "write" /\ pc' = "done" /\ UNCHANGED <<req, res, out>>
        /\ (req.method = "HEAD" \/ res.kind = "none")
    BY <1>2 DEF WriteNothing, Goto
  <2> QED BY <1>1, <2>1 DEF OutInv, OnTheWay, Delivered
<1>3. ASSUME NEW kinds, Writing(kinds)
      PROVE  pc = "write" /\ req.method # "HEAD" /\ res.kind \in kinds
             /\ UNCHANGED <<req, res>> /\ Fields \subseteq DOMAIN out /\ OnTheWay
  BY <1>1, <1>3 DEF Writing
<1>4. res.apply = "yes" \/ res.apply = "no"
  BY DEF Inv, TypeInv, ResponseType
<1>5. CASE WriteBody
  <2>1. /\ Writing({"body"}) /\ pc' = "done"
        /\ out' = [out EXCEPT !.written = @ + Head(out.todo), !.todo = <<>>]
    BY <1>5 DEF WriteBody
  <2>2. /\ pc = "write" /\ res.kind = "body" /\ UNCHANGED <<req, res>>
        /\ Fields \subseteq DOMAIN out /\ OnTheWay
    BY <1>3, <2>1
  <2>3. /\ Fields \subseteq DOMAIN out' /\ out'.framing = out.framing
        /\ out'.length = out.length /\ out'.written = out.written + Head(out.todo)
    BY <2>1, <2>2 DEF Fields
  <2>4. res.apply = "yes" => Head(out.todo) = out.length
    BY <2>2 DEF OnTheWay
  <2> QED BY <1>4, <2>1, <2>2, <2>3, <2>4 DEF OutInv, OnTheWay, Delivered
<1>6. CASE WriteBlock
  <2>1. /\ Writing({"sized"}) /\ Sound /\ out.todo # <<>> /\ Head(out.todo) > 0
        /\ out' = [out EXCEPT !.written = @ + 1, !.todo[1] = @ - 1] /\ pc' = pc
    BY <1>6 DEF WriteBlock
  <2>2. /\ pc = "write" /\ res.kind = "sized" /\ UNCHANGED <<req, res>>
        /\ Fields \subseteq DOMAIN out /\ OnTheWay
    BY <1>3, <2>1
  <2>3. /\ Fields \subseteq DOMAIN out' /\ out'.framing = out.framing
        /\ out'.length = out.length /\ out'.written = out.written + 1
        /\ out'.ended = out.ended /\ out'.cut = out.cut
        /\ out'.todo = [out.todo EXCEPT ![1] = @ - 1]
    BY <2>1, <2>2 DEF Fields
  <2>4. out.todo \in Seq(Int) /\ out.written \in Int /\ out.length \in Int
    BY <2>2 DEF OnTheWay
  <2>5. /\ out'.todo \in Seq(Int) /\ Len(out'.todo) = Len(out.todo)
        /\ LengthOf(out'.todo) = LengthOf(out.todo) - 1
        /\ \A i \in 1..Len(out.todo) :
              out'.todo[i] = IF i = 1 THEN Head(out.todo) - 1 ELSE out.todo[i]
    BY <2>1, <2>3, <2>4, PieceShorter
  <2>6. LengthOf(out.todo) \in Int /\ Head(out.todo) \in Int
    BY <2>1, <2>4, LengthOfParts
  <2>7. \A i \in 1..Len(out'.todo) : out'.todo[i] >= 0
    BY <2>1, <2>2, <2>5, <2>6 DEF OnTheWay
  <2>8. out.written + 1 + (LengthOf(out.todo) - 1) = out.written + LengthOf(out.todo)
    BY <2>4, <2>6
  <2>9. AsAnnounced' = AsAnnounced
    BY <2>2 DEF AsAnnounced
  <2>10. res.apply = "yes" =>
           /\ out'.framing = "length"
           /\ AsAnnounced' => out'.cut \/ out'.written + LengthOf(out'.todo) = out'.length
    BY <2>2, <2>3, <2>5, <2>8, <2>9 DEF OnTheWay
  <2>11. out'.written \in Int /\ out'.ended \in {"no", "done", "blank"}
    BY <2>2, <2>3, <2>4 DEF OnTheWay
  <2>12. OnTheWay'
    BY <2>2, <2>3, <2>4, <2>5, <2>7, <2>10, <2>11 DEF OnTheWay
  <2> QED BY <2>1, <2>2, <2>3, <2>12 DEF OutInv
<1>7. CASE NextPiece
  <2>1. /\ Writing({"sized"}) /\ Sound /\ out.todo # <<>> /\ pc' = pc
        /\ out' = [out EXCEPT !.todo = Tail(@), !.cut = @ \/ Head(out.todo) > 0]
    BY <1>7 DEF NextPiece
  <2>2. /\ pc = "write" /\ res.kind = "sized" /\ UNCHANGED <<req, res>>
        /\ Fields \subseteq DOMAIN out /\ OnTheWay
    BY <1>3, <2>1
  <2>3. /\ Fields \subseteq DOMAIN out' /\ out'.framing = out.framing
        /\ out'.length = out.length /\ out'.written = out.written
        /\ out'.ended = out.ended /\ out'.todo = Tail(out.todo)
        /\ out'.cut = (out.cut \/ Head(out.todo) > 0)
    BY <2>1, <2>2 DEF Fields
  <2>4. out.todo \in Seq(Int) /\ out.written \in Int /\ out.length \in Int
    BY <2>2 DEF OnTheWay
  <2>5. /\ out'.todo \in Seq(Int) /\ Len(out'.todo) = Len(out.todo) - 1
        /\ \A i \in 1..(Len(out.todo) - 1) : out'.todo[i] = out.todo[i + 1]
        /\ Head(out.todo) = out.todo[1] /\ Len(out.todo) \in Nat \ {0}
    BY <2>1, <2>3, <2>4, HeadTailProperties, EmptySeq, LenProperties
  <2>6. /\ LengthOf(out.todo) = Head(out.todo) + LengthOf(out'.todo)
        /\ LengthOf(out'.todo) \in Int /\ Head(out.todo) \in Int
    <3>1. LengthOf(out.todo) = Head(out.todo) + LengthOf(Tail(out.todo))
      BY <2>1, <2>4, LengthOfParts
    <3>2. LengthOf(out'.todo) \in Int
      BY <2>5, LengthOfParts
    <3>3. Head(out.todo) \in Int
      BY <2>4, <2>5, ElementOfSeq
    <3> QED BY ONLY <2>3, <3>1, <3>2, <3>3
  <2>7. \A i \in 1..Len(out.todo) : out.todo[i] >= 0
    BY <2>1, <2>2 DEF OnTheWay
  <2>8. \A i \in 1..Len(out'.todo) : out'.todo[i] >= 0
    <3>1. \A i \in 1..(Len(out.todo) - 1) : i + 1 \in 1..Len(out.todo)
      BY <2>5
    <3> QED BY <2>5, <2>7, <3>1
  <2>9. Head(out.todo) > 0 \/ LengthOf(out.todo) = LengthOf(out'.todo)
    <3>1. Head(out.todo) >= 0
      BY <2>5, <2>7
    <3> QED BY <2>6, <3>1
  <2>10. AsAnnounced' = AsAnnounced
    BY <2>2 DEF AsAnnounced
  <2>11. res.apply = "yes" =>
           /\ out'.framing = "length"
           /\ AsAnnounced' => out'.cut \/ out'.written + LengthOf(out'.todo) = out'.length
    BY <2>2, <2>3, <2>9, <2>10 DEF OnTheWay
  <2>12. OnTheWay'
    BY <2>2, <2>3, <2>4, <2>5, <2>8, <2>11 DEF OnTheWay
  <2> QED BY <2>1, <2>2, <2>3, <2>12 DEF OutInv
<1>8. CASE WriteEnds
  <2>1. Writing({"sized"}) /\ out.todo = <<>> /\ pc' = "done" /\ out' = out
    BY <1>8 DEF WriteEnds
  <2>2. /\ pc = "write" /\ res.kind = "sized" /\ UNCHANGED <<req, res>>
        /\ Fields \subseteq DOMAIN out /\ OnTheWay
    BY <1>3, <2>1
  <2>3. LengthOf(out.todo) = 0
    <3>1. out.todo \in Seq(Int)
      BY <2>2 DEF OnTheWay
    <3> QED BY <2>1, <3>1, LengthOfParts
  <2>4. out.written \in Int /\ out.written + 0 = out.written
    BY <2>2 DEF OnTheWay
  <2>5. Delivered
    BY <1>4, <2>2, <2>3, <2>4 DEF OnTheWay, Delivered
  <2>6. Delivered'
    BY <2>1, <2>2, <2>5 DEF Delivered, AsAnnounced
  <2> QED BY <2>1, <2>2, <2>6 DEF OutInv
<1>9. CASE WriteUndefined
  <2>1. Writing({"sized"}) /\ pc' = "undefined" /\ out' = out
    BY <1>9 DEF WriteUndefined
  <2> QED BY <1>3, <2>1 DEF OutInv
<1>10. CASE WriteChunk
  <2>1. /\ Writing({"chunked", "stream"}) /\ out.ended = "no" /\ pc' = pc
        /\ \/ out' = [out EXCEPT !.written = @ + 1]
           \/ out' = [out EXCEPT !.ended = "done"]
           \/ out' = [out EXCEPT !.ended = "blank"]
    BY <1>10 DEF WriteChunk
  <2>2. /\ pc = "write" /\ res.kind \in {"chunked", "stream"} /\ UNCHANGED <<req, res>>
        /\ Fields \subseteq DOMAIN out /\ OnTheWay
    BY <1>3, <2>1
  <2>3. /\ Fields \subseteq DOMAIN out' /\ out'.framing = out.framing
        /\ out'.length = out.length /\ out'.todo = out.todo
        /\ out'.ended \in {"no", "done", "blank"}
        /\ out'.written = out.written \/ out'.written = out.written + 1
    BY <2>1, <2>2 DEF Fields
  <2>4. out'.written \in Int
    BY <2>2, <2>3 DEF OnTheWay
  <2>5. OnTheWay'
    BY <2>2, <2>3, <2>4 DEF OnTheWay
  <2> QED BY <2>1, <2>2, <2>3, <2>5 DEF OutInv
<1>11. CASE ChunksEnd
  <2>1. /\ Writing({"chunked", "stream"}) /\ pc' = "done"
        /\ out' = [out EXCEPT !.cut = (out.ended = "no")]
    BY <1>11 DEF ChunksEnd
  <2>2. /\ pc = "write" /\ res.kind \in {"chunked", "stream"} /\ UNCHANGED <<req, res>>
        /\ Fields \subseteq DOMAIN out /\ OnTheWay
    BY <1>3, <2>1
  <2>3. /\ Fields \subseteq DOMAIN out' /\ out'.framing = out.framing
        /\ out'.ended = out.ended /\ out'.cut = (out.ended = "no")
    BY <2>1, <2>2 DEF Fields
  <2>4. Delivered'
    BY <1>4, <2>2, <2>3 DEF OnTheWay, Delivered
  <2> QED BY <2>1, <2>3, <2>4 DEF OutInv
<1>12. CASE WriteFails
  <2>1. out' = NoOutput /\ pc' = "closed"
    BY <1>12 DEF WriteFails, Close, Forget
  <2> QED BY <2>1 DEF OutInv, NoOutput, Fields
<1> QED BY <1>2, <1>5, <1>6, <1>7, <1>8, <1>9, <1>10, <1>11, <1>12, AnswerOut DEF WriteStep

\* the other steps write nothing
LEMMA OutOther ==
  ASSUME OutInv, out' = out \/ out' = NoOutput, pc' \notin {"write", "done"}
  PROVE  OutInv'
BY DEF OutInv, NoOutput, Fields

LEMMA OutNext ==
  ASSUME Inv, OutInv, [Next]_vars
  PROVE  OutInv'
<1>1. CASE LoopStep
  BY <1>1, OutOther DEF LoopStep, Begin, Goto, Expire, Again, Close, Forget
<1>2. CASE ReadStep
  <2>1. \A k : Fill(k) => UNCHANGED <<pc, req, res, out>>
    BY DEF Fill
  <2>2. ASSUME ~(\E k \in 1..Len(flight) : Fill(k)) PROVE OutInv'
    BY <1>2, <2>2, OutOther
       DEF ReadStep, HeadFails, Garbage, BadHead, GoodHead, Skim, Refuse, Close, Forget
  <2> QED BY <2>1, <2>2 DEF OutInv, OnTheWay, Delivered, Sound, AsAnnounced
<1>3. CASE RouteStep
  <2>1. \A h \in Handlings : Returned(h) \/ Thrown(h) => pc' = "answer"
    BY DEF Returned, Deliver, Refuse, Thrown
  <2>2. \A h \in Handlings : FileRequest(h) => pc' = "answer" /\ out' = out
    BY DEF FileRequest, Deliver, Refuse
  <2>3. pc' \notin {"write", "done"} /\ out' = out
    BY <1>3, <2>1, <2>2
       DEF RouteStep, Continue, Goto, ReaderHandler, ReadContent, NoHandler, Refuse, Decline,
           PreRouting, CallHandler
  <2> QED BY <2>3, OutOther
<1>4. CASE ReceiveStep
  <2>1. \A status : NotReceived(status) => pc' \in {"call", "answer"}
    BY DEF NotReceived, Refuse
  <2>2. Received \/ Complete => pc' \in {"call", "answer"}
    BY <2>1 DEF Received, Complete
  <2>3. pc' \in {"call", "answer", "receive", "trailer"} /\ out' = out
    BY <1>4, <2>1, <2>2
       DEF ReceiveStep, ReceiveNothing, ReceiveUnit, ReceiveLength, ReceiveLast, ReceiveEnd,
           EndMissing, EndEaten, ReceiveAnything, ReceiveFails, Receiving
  <2> QED BY <2>3, OutOther
<1>5. CASE ClientStep \/ UNCHANGED vars
  <2>1. UNCHANGED <<pc, req, res, out>>
    BY <1>5 DEF ClientStep, Send, LeaveWith, vars
  <2> QED BY <2>1 DEF OutInv, OnTheWay, Delivered, Sound, AsAnnounced
<1> QED BY <1>1, <1>2, <1>3, <1>4, <1>5, WriteOut DEF Next, ServerStep

\* Whatever handlers leave in the response and whatever ranges are asked for: an
\* answer after which the connection goes on has as many bytes as its head says, or
\* its last chunk.  OnTheWay counts what a provider has still to write, and
\* range_error() keeps the pieces it is asked for from being negative.
THEOREM AnswersDelimited == SafetySpec => []Delimited
<1>1. Init => OutInv
  BY DEF Init, OutInv, NoOutput, Fields
<1>2. Inv /\ OutInv /\ [Next]_vars => OutInv'
  BY OutNext
<1>3. OutInv => Delimited
  BY DEF OutInv, Delimited, GoesOn, Delivered, AsAnnounced
<1> QED BY <1>1, <1>2, <1>3, Invariance, PTL DEF SafetySpec
=============================================================================
