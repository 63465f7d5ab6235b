------------------------- MODULE HttplibClientProofs -------------------------
(***************************************************************************)
(* Proofs about HttplibClient, for every number of threads, calls,         *)
(* redirections and servers, from three inductive invariants.              *)
(*                                                                         *)
(* Inv: the thread inside send() only uses a socket that is open and its   *)
(* object's own.  The activation records of send_() of one object follow   *)
(* one another (Chain), so that socket_requests_in_flight_ of the object   *)
(* is their number (Counts), and is not 0 while stop() must not close.     *)
(* Fate: how the errors and the note that stop() leaves reach the end of   *)
(* the call.                                                               *)
(* Own: outside of the exchange at work, and of one that has failed and is *)
(* about to close its connection, nothing is left on a connection; on that *)
(* of the exchange at work is its answer, or answers of nobody.            *)
(***************************************************************************)
EXTENDS HttplibClient, SequenceTheorems, TLAPS

Active == 0..depth - 1

\* record i is the innermost one of its object
Innermost(i) == i = depth - 1 \/ frame[i + 1].obj # frame[i].obj

\* only the innermost record of all is at work; the records of an object, which made
\* the first of them, follow one another
Chain == /\ holder = Nobody <=> depth = 0
         /\ \A i \in Active : frame[i].pc = "wait" <=> i < depth - 1
         /\ \A i \in Active : frame[i].obj <= i
         /\ \A i, j \in Active : frame[i].obj <= j /\ j <= i => frame[j].obj = frame[i].obj

Entered(i) == IF frame[i].pc = "enter" THEN 0 ELSE 1

Unused(o) == \A i \in Active : frame[i].obj # o

Counts == /\ \A i \in Active : Innermost(i) =>
                in_flight[frame[i].obj] = i - frame[i].obj + Entered(i)
          /\ \A o \in Objects : Unused(o) => in_flight[o] = 0 /\ (o > 0 => sock[o] = 0)

\* the open sockets are those of the objects, each of which has one of its own
Sockets == /\ fds = {sock[o] : o \in Objects} \ {0}
           /\ \A o, p \in Objects : o # p /\ sock[o] = sock[p] => sock[o] = 0
           /\ \A o \in Objects : sock[o] <= opened

Using == {"write", "head", "body"}

Held == depth > 0 /\ current.pc \in Using => sock[current.obj] # 0 /\ current.fd = sock[current.obj]

\* the thread inside send(), and nobody after the end
Holding == /\ \A t \in Threads : tpc[t] = "sending" <=> t = holder
           /\ gone => sock[0] = 0 /\ \A t \in Threads : tpc[t] = "idle"

Inv == TypeOK /\ Chain /\ Counts /\ Sockets /\ Held /\ Holding

----------------------------------------------------------------------------
(* Types of the data *)

LEMMA NoFrameType == NoFrame \in Frame /\ NoRequest \in RequestType /\ NoAnswer \in AnswerType
<1>1. NoRequest \in RequestType
  BY DEF NoRequest, RequestType, Methods, Contents
<1>2. NoAnswer \in AnswerType
  BY DEF NoAnswer, AnswerType
<1>3. 0 \in Objects /\ "enter" \in Stages
  BY ClientAssumption DEF ClientAssumption, Objects, Stages
<1> QED BY <1>1, <1>2, <1>3 DEF NoFrame, Frame

LEMMA CallsTyped == Calls \subseteq RequestType
<1>1. \A m \in Methods, c \in SUBSET Contents, k \in SUBSET {"body", "checked"} :
         Makes(m, c, k) \subseteq RequestType
  BY DEF Makes, RequestType
<1>2. AllCalls \subseteq RequestType
  BY <1>1 DEF AllCalls, GetCalls, HeadCalls, PostCalls, PutCalls, PatchCalls, DeleteCalls,
              OptionsCalls, Uploads, Forms, Methods, Contents
<1> QED BY <1>2, ClientAssumption DEF ClientAssumption

\* a redirected request is one; what 303 makes of it has a method and a content
LEMMA RedirectedType ==
  ASSUME NEW r \in RequestType, NEW status
  PROVE  Redirected(r, status) \in RequestType
<1> DEFINE c == CASE r.content = "body" -> "none" [] r.content = "chunked" -> "bare"
                  [] OTHER -> r.content
<1>1. c \in Contents /\ "GET" \in Methods
  BY DEF RequestType, Contents, Methods
<1>2. [r EXCEPT !.method = "GET", !.content = c] \in RequestType
  <2> HIDE DEF c
  <2> QED BY <1>1 DEF RequestType
<1> QED BY <1>2 DEF Redirected

LEMMA EnteringType ==
  ASSUME NEW o \in Objects, NEW r \in RequestType
  PROVE  /\ Entering(o, r) \in Frame
         /\ Entering(o, r).obj = o /\ Entering(o, r).pc = "enter"
  BY NoFrameType DEF Entering, Frame, NoFrame

LEMMA ConnectErrorType == \A as : ConnectError(as) \in Errors
  BY DEF ConnectError, Errors

LEMMA LostErrorType == error \in Errors => LostError \in Errors
  BY DEF LostError, Errors

----------------------------------------------------------------------------
(* What the parts of the actions do *)

\* the innermost record
LEMMA TopType ==
  ASSUME TypeOK, depth > 0
  PROVE  /\ top \in Hops /\ top \in Active /\ current \in Frame
         /\ current.obj \in Objects /\ current.req \in RequestType
         /\ current.ans \in AnswerType /\ depth \in Nat \ {0}
<1>1. depth \in 0..MaxHops + 1 /\ MaxHops \in Nat
  BY ClientAssumption DEF TypeOK, ClientAssumption
<1>2. top \in Hops /\ top \in Active /\ depth \in Nat \ {0}
  BY <1>1 DEF top, Hops, Active
<1>3. current \in Frame
  BY <1>2 DEF TypeOK, current
<1> QED BY <1>2, <1>3 DEF Frame

LEMMA ActiveTypes ==
  ASSUME TypeOK
  PROVE  /\ Active \subseteq Hops /\ Active \subseteq Nat /\ depth \in Nat /\ MaxHops \in Nat
         /\ depth <= MaxHops + 1 /\ frame \in [Hops -> Frame]
         /\ \A i \in Active : frame[i] \in Frame /\ frame[i].obj \in Objects
<1>1. depth \in 0..MaxHops + 1 /\ MaxHops \in Nat /\ frame \in [Hops -> Frame]
  BY ClientAssumption DEF TypeOK, ClientAssumption
<1>2. Active \subseteq Hops /\ Active \subseteq Nat /\ depth \in Nat /\ depth <= MaxHops + 1
  BY <1>1 DEF Active, Hops
<1>3. \A i \in Active : frame[i] \in Frame
  BY <1>1, <1>2
<1>4. \A f \in Frame : f.obj \in Objects
  BY DEF Frame
<1> QED BY <1>1, <1>2, <1>3, <1>4

LEMMA BecomesType ==
  ASSUME TypeOK, depth > 0, NEW f \in Frame, Becomes(f)
  PROVE  /\ frame' \in [Hops -> Frame] /\ frame'[top] = f
         /\ \A i \in Hops : i # top => frame'[i] = frame[i]
<1>1. top \in Hops /\ frame \in [Hops -> Frame]
  BY TopType DEF TypeOK
<1> HIDE DEF top
<1> QED BY <1>1 DEF Becomes

LEMMA GotoType ==
  ASSUME TypeOK, depth > 0, NEW s \in Stages, Goto(s)
  PROVE  /\ frame' \in [Hops -> Frame] /\ frame'[top].pc = s
         /\ frame'[top].obj = current.obj
         /\ \A i \in Hops : i # top => frame'[i] = frame[i]
<1> DEFINE f == [current EXCEPT !.pc = s]
<1>1. f \in Frame /\ f.pc = s /\ f.obj = current.obj
  <2>1. current \in Frame
    BY TopType
  <2> HIDE DEF current
  <2> QED BY <2>1 DEF Frame
<1>2. Becomes(f)
  BY DEF Goto
<1> HIDE DEF f
<1> QED BY <1>1, <1>2, BecomesType

\* the innermost record changes and stays at work, of the same object
Stays == /\ depth > 0 /\ depth' = depth /\ holder' = holder
         /\ frame' \in [Hops -> Frame]
         /\ frame'[top].obj = current.obj /\ frame'[top].pc # "wait"
         /\ \A i \in Hops : i # top => frame'[i] = frame[i]

LEMMA StaysChain ==
  ASSUME TypeOK, Chain, Stays
  PROVE  /\ Chain' /\ Active' = Active
         /\ \A i \in Active : frame'[i].obj = frame[i].obj
         /\ \A i \in Active : i # top => frame'[i] = frame[i]
<1>1. Active \subseteq Hops /\ top \in Active /\ Active' = Active /\ Active \subseteq Int
  BY ActiveTypes, TopType DEF Stays, Active
<1>2. \A i \in Active : frame'[i].obj = frame[i].obj
  BY <1>1 DEF Stays, current
<1>3. \A i \in Active : i # top => frame'[i] = frame[i]
  BY <1>1 DEF Stays
<1>4. \A i \in Active : frame'[i].pc = "wait" <=> i < depth - 1
  <2>1. \A i \in Active : i # top => (frame'[i].pc = "wait" <=> i < depth - 1)
    BY <1>3 DEF Chain
  <2>2. ~(top < depth - 1)
    BY TopType DEF Stays, top
  <2> QED BY <2>1, <2>2 DEF Stays
<1>5. \A i \in Active' : frame'[i].obj <= i
  BY <1>1, <1>2 DEF Chain
<1>6. \A i, j \in Active' : frame'[i].obj <= j /\ j <= i => frame'[j].obj = frame'[i].obj
  BY <1>1, <1>2 DEF Chain
<1>7. Chain'
  BY <1>1, <1>4, <1>5, <1>6 DEF Chain, Stays
<1> QED BY <1>1, <1>2, <1>3, <1>7

\* the count of the object at work follows the record, other objects stay or close
LEMMA StaysCounts ==
  ASSUME TypeOK, Chain, Counts, Stays,
         in_flight' \in [Objects -> Int],
         in_flight'[current.obj] = in_flight[current.obj] + Entered(top)' - Entered(top),
         \A o \in Objects : o # current.obj => in_flight'[o] = in_flight[o]
                                               /\ sock'[o] = sock[o]
  PROVE  Counts'
<1>1. /\ Active' = Active /\ top' = top /\ depth' = depth
      /\ \A i \in Active : frame'[i].obj = frame[i].obj
      /\ \A i \in Active : i # top => frame'[i] = frame[i]
  BY StaysChain DEF Stays, top
<1>2. top \in Active /\ current.obj \in Objects /\ top \in Int /\ Active \subseteq Int
  BY TopType DEF Stays, Active
<1>3. \A i \in Active : Innermost(i)' => Innermost(i)
  <2> SUFFICES ASSUME NEW i \in Active, Innermost(i)', ~(i = depth - 1) PROVE Innermost(i)
    BY DEF Innermost
  <2>1. i + 1 \in Active
    BY TopType DEF Active, Stays
  <2> QED BY <1>1, <2>1 DEF Innermost
<1>4. ASSUME NEW i \in Active, Innermost(i)'
      PROVE  in_flight'[frame'[i].obj] = i - frame'[i].obj + Entered(i)'
  <2>1. in_flight[frame[i].obj] = i - frame[i].obj + Entered(i)
    BY <1>3, <1>4 DEF Counts
  <2>2. CASE i = top
    <3>1. frame[i].obj = current.obj /\ frame'[i].obj = current.obj
      BY <1>1, <1>2, <2>2 DEF current
    <3>2. Entered(top) \in {0, 1} /\ Entered(top)' \in {0, 1} /\ current.obj \in Int
      BY TopType DEF Entered, Stays, Objects
    <3>3. Entered(i)' = Entered(top)'
      BY <1>1, <2>2 DEF Entered
    <3> QED BY <1>2, <2>1, <2>2, <3>1, <3>2, <3>3
  <2>3. CASE i # top
    <3>1. i + 1 \in Active /\ i + 1 <= top /\ i < top
      BY <2>3, TopType DEF Active, Stays, top
    <3>2. frame[i].obj # current.obj
      <4> SUFFICES ASSUME frame[i].obj = current.obj PROVE FALSE
        OBVIOUS
      <4>1. frame[i].obj <= i
        BY DEF Chain
      <4>2. frame[i].obj <= i + 1
        BY <4>1, TopType, <1>2 DEF Stays, Objects
      <4>3. frame[i + 1].obj = frame[top].obj
        BY <1>2, <3>1, <4>2 DEF Chain, current
      <4> QED BY <1>3, <1>4, <2>3, <4>3 DEF Innermost, current, top
    <3>3. frame[i].obj \in Objects
      BY ActiveTypes
    <3>4. in_flight'[frame[i].obj] = in_flight[frame[i].obj]
      BY <3>2, <3>3
    <3>5. Entered(i)' = Entered(i)
      BY <1>1, <2>3 DEF Entered
    <3> QED BY <1>1, <2>1, <3>4, <3>5
  <2> QED BY <2>2, <2>3
<1>5. ASSUME NEW o \in Objects, Unused(o)'
      PROVE  in_flight'[o] = 0 /\ (o > 0 => sock'[o] = 0)
  <2>1. Unused(o)
    BY <1>1, <1>5 DEF Unused
  <2>2. o # current.obj
    BY <1>2, <2>1 DEF Unused, current
  <2> QED BY <2>1, <2>2 DEF Counts
<1> QED BY <1>1, <1>4, <1>5 DEF Counts

----------------------------------------------------------------------------
(* send() returns *)

LEMMA ResumedType ==
  ASSUME NEW f \in Frame, NEW end \in {"won", "lost"}, current \in Frame
  PROVE  /\ Resumed(f, end) \in Frame /\ Resumed(f, end).obj = f.obj
         /\ Resumed(f, end).pc \in {"won", "lost"}
<1>1. "won" \in Stages /\ "lost" \in Stages
  BY DEF Stages
<1> HIDE DEF current
<1>2. CASE end = "won"
  <2>1. Resumed(f, end) = [f EXCEPT !.pc = "won", !.id = current.id,
                                    !.got = current.got, !.ans = current.ans]
    BY <1>2 DEF Resumed
  <2> QED BY <1>1, <2>1 DEF Frame
<1>3. CASE end = "lost"
  <2>1. Resumed(f, end) = [f EXCEPT !.pc = "lost"]
    BY <1>3 DEF Resumed
  <2> QED BY <1>1, <2>1 DEF Frame
<1> QED BY <1>2, <1>3

\* the innermost record is gone, and the one below it is about to return too
Drops == /\ depth > 0 /\ depth' = depth - 1
         /\ frame' \in [Hops -> Frame]
         /\ \A i \in 0..depth - 2 : frame'[i].obj = frame[i].obj
         /\ \A i \in 0..depth - 3 : frame'[i] = frame[i]
         /\ depth > 1 => frame'[depth - 2].pc \in {"won", "lost"}

LEMMA ReturnDrops ==
  ASSUME TypeOK, Chain, depth > 0, NEW end \in {"won", "lost"}, NEW e, Return(end, e)
  PROVE  Drops /\ (depth = 1 => holder' = Nobody) /\ (depth > 1 => holder' = holder)
<1>1. depth \in Nat /\ top = depth - 1 /\ top \in Hops /\ current \in Frame
      /\ MaxHops \in Nat /\ depth <= MaxHops + 1 /\ frame \in [Hops -> Frame]
  BY ActiveTypes, TopType DEF top
<1>2. CASE depth = 1
  <2>1. depth' = 0 /\ holder' = Nobody /\ frame' = [frame EXCEPT ![0] = NoFrame]
    BY <1>2 DEF Return, Deliver
  <2>2. frame' \in [Hops -> Frame]
    BY <1>1, <2>1, NoFrameType
  <2> QED BY <1>2, <2>1, <2>2 DEF Drops
<1>3. CASE depth > 1
  <2> DEFINE f == Resumed(frame[top - 1], end)
  <2>1. top - 1 \in Hops /\ top - 1 = depth - 2 /\ top # top - 1
    BY <1>1, <1>3 DEF Hops
  <2>2. frame[top - 1] \in Frame
    BY <1>1, <2>1
  <2>3. f \in Frame /\ f.obj = frame[top - 1].obj /\ f.pc \in {"won", "lost"}
    BY <1>1, <2>2, ResumedType
  <2>4. depth' = top /\ holder' = holder
        /\ frame' = [frame EXCEPT ![top] = NoFrame, ![top - 1] = f]
    BY <1>3 DEF Return, Resume
  <2> HIDE DEF f, top
  <2>5. /\ frame' \in [Hops -> Frame] /\ frame'[top - 1] = f
        /\ \A i \in Hops : i # top /\ i # top - 1 => frame'[i] = frame[i]
    BY <1>1, <2>1, <2>3, <2>4, NoFrameType
  <2>6. \A i \in 0..depth - 2 : i \in Hops /\ i # top /\ (i # top - 1 => i \in 0..depth - 3)
    BY <1>1, <2>1 DEF Hops
  <2>7. \A i \in 0..depth - 3 : i \in 0..depth - 2 /\ i # top - 1
    BY <1>1, <2>1
  <2> QED BY <1>1, <1>3, <2>1, <2>3, <2>4, <2>5, <2>6, <2>7 DEF Drops
<1> QED BY <1>1, <1>2, <1>3

LEMMA DropsChain ==
  ASSUME TypeOK, Chain, Drops, depth = 1 => holder' = Nobody, depth > 1 => holder' = holder
  PROVE  Chain'
<1>1. depth \in Nat \ {0} /\ Active = 0..depth - 1 /\ Active' = 0..depth - 2
  BY ActiveTypes DEF Drops, Active
<1>2. \A i \in Active' : i \in Active /\ frame'[i].obj = frame[i].obj
  BY <1>1 DEF Drops
<1>3. \A i \in Active' : frame'[i].pc = "wait" <=> i < depth' - 1
  <2>1. \A i \in 0..depth - 3 : frame'[i].pc = "wait" /\ i < depth - 2
    BY <1>1 DEF Chain, Drops
  <2>2. depth > 1 => frame'[depth - 2].pc # "wait" /\ ~(depth - 2 < depth - 2)
    BY <1>1 DEF Drops
  <2>3. \A i \in Active' : i \in 0..depth - 3 \/ (depth > 1 /\ i = depth - 2)
    BY <1>1
  <2> QED BY <1>1, <2>1, <2>2, <2>3 DEF Drops
<1>4. holder' = Nobody <=> depth' = 0
  BY <1>1 DEF Chain, Drops
<1> QED BY <1>2, <1>3, <1>4 DEF Chain

\* the count of the object of the record that is gone no longer has it
LEMMA DropsCounts ==
  ASSUME TypeOK, Chain, Counts, Drops,
         in_flight' \in [Objects -> Int],
         in_flight'[current.obj] = in_flight[current.obj] - Entered(top),
         \A o \in Objects : o # current.obj => in_flight'[o] = in_flight[o]
                                               /\ sock'[o] = sock[o],
         Local => sock'[current.obj] = 0
  PROVE  Counts'
<1>1. depth \in Nat \ {0} /\ Active = 0..depth - 1 /\ Active' = 0..depth - 2
      /\ top = depth - 1 /\ top \in Active /\ depth' = depth - 1
  BY ActiveTypes DEF Drops, Active, top
<1>2. \A i \in Active' : i \in Active /\ frame'[i].obj = frame[i].obj
  BY <1>1 DEF Drops
<1>3. current.obj \in Objects /\ current.obj \in Nat /\ current.obj \in Int /\ \A i \in Active : frame[i].obj \in Int
  BY ActiveTypes, TopType DEF Drops, Objects
<1>4. in_flight'[current.obj] = top - current.obj
  <2>1. Innermost(top) /\ frame[top].obj = current.obj
    BY <1>1 DEF Innermost, current
  <2>2. in_flight[current.obj] = top - current.obj + Entered(top) /\ Entered(top) \in {0, 1}
    BY <1>1, <2>1 DEF Counts, Entered
  <2> QED BY <1>1, <1>3, <2>2
<1>5. ASSUME NEW i \in Active', Innermost(i)'
      PROVE  in_flight'[frame'[i].obj] = i - frame'[i].obj + Entered(i)'
  <2>1. frame'[i].obj = frame[i].obj /\ i \in Active /\ i \in Int /\ frame[i].obj \in Objects
    BY <1>1, <1>2, ActiveTypes
  <2>2. CASE i = depth - 2
    <3>1. Entered(i)' = 1
      BY <1>1, <2>2 DEF Entered, Drops
    <3>2. CASE frame[i].obj = current.obj
      <4>1. frame'[i].obj = current.obj /\ in_flight'[frame'[i].obj] = top - current.obj
        BY <1>4, <2>1, <3>2
      <4>2. i = top - 1 /\ top \in Int /\ current.obj \in Int
        BY <1>1, <1>3, <2>2
      <4>3. top - current.obj = (top - 1) - current.obj + 1
        BY ONLY <4>2
      <4> QED BY ONLY <3>1, <4>1, <4>2, <4>3
    <3>3. CASE frame[i].obj # current.obj
      <4>1. i + 1 = top /\ i < depth - 1
        BY <1>1, <2>2
      <4>2. Innermost(i) /\ Entered(i) = 1
        BY <2>1, <3>3, <4>1 DEF Innermost, current, Chain, Entered
      <4>3. in_flight[frame[i].obj] = i - frame[i].obj + 1
        BY <2>1, <4>2 DEF Counts
      <4> QED BY <2>1, <3>1, <3>3, <4>3
    <3> QED BY <3>2, <3>3
  <2>3. CASE i # depth - 2
    <3>1. i \in 0..depth - 3 /\ i + 1 \in Active' /\ i + 1 \in Active /\ i < top /\ i + 1 <= top
      BY <1>1, <2>3
    <3>2. frame'[i] = frame[i] /\ frame[i + 1].obj # frame[i].obj
      BY <1>1, <1>2, <1>5, <2>3, <3>1 DEF Drops, Innermost
    <3>3. frame[i].obj # current.obj
      <4>1. frame[i].obj <= i
        BY <2>1 DEF Chain
      <4>2. frame[i].obj <= i + 1
        BY <1>3, <2>1, <4>1
      <4> QED BY <1>1, <3>1, <3>2, <4>2 DEF Chain, current
    <3>4. in_flight[frame[i].obj] = i - frame[i].obj + Entered(i)
      BY <2>1, <3>2 DEF Counts, Innermost
    <3> QED BY <2>1, <3>2, <3>3, <3>4 DEF Entered
  <2> QED BY <2>2, <2>3
<1>6. ASSUME NEW o \in Objects, Unused(o)'
      PROVE  in_flight'[o] = 0 /\ (o > 0 => sock'[o] = 0)
  <2>1. CASE o = current.obj
    <3>1. frame[top].obj <= top
      BY <1>1 DEF Chain
    <3>2. o = top
      <4> SUFFICES ASSUME o # top PROVE FALSE
        OBVIOUS
      <4>1. top - 1 \in Active' /\ o <= top - 1 /\ top - 1 <= top
        <5>1. o \in Nat /\ o <= top
          BY <1>3, <2>1, <3>1 DEF current
        <5> QED BY ONLY <1>1, <5>1, o # top
      <4>2. frame[top - 1].obj = o
        BY <1>1, <1>2, <2>1, <4>1 DEF Chain, current
      <4> QED BY <1>2, <1>6, <4>1, <4>2 DEF Unused
    <3> QED BY <1>1, <1>4, <2>1, <3>2 DEF Local
  <2>2. CASE o # current.obj
    <3>1. Unused(o)
      BY <1>1, <1>2, <1>6, <2>2 DEF Unused, current
    <3> QED BY <2>2, <3>1 DEF Counts
  <2> QED BY <2>1, <2>2
<1> QED BY <1>5, <1>6 DEF Counts

----------------------------------------------------------------------------
(* The sockets and the connections *)

LinesTyped == /\ owes \in [Objects -> Seq(Debt)]
              /\ inbox \in [Objects -> Seq(Item)]
              /\ due \subseteq Objects /\ down \subseteq Objects /\ stray \subseteq Objects

SocketsTyped == /\ sock \in [Objects -> Nat] /\ fds \subseteq 1..opened /\ opened \in Nat

LEMMA BlankTyped ==
  ASSUME LinesTyped, NEW o \in Objects, Blank(o)
  PROVE  LinesTyped'
<1>1. <<>> \in Seq(Item) /\ <<>> \in Seq(Debt)
  OBVIOUS
<1> QED BY <1>1 DEF LinesTyped, Blank

LEMMA CloseSockets ==
  ASSUME LinesTyped, SocketsTyped, Sockets, NEW o \in Objects, CloseSocket(o), opened' = opened
  PROVE  /\ LinesTyped' /\ SocketsTyped' /\ Sockets' /\ sock'[o] = 0
         /\ \A p \in Objects : p # o => sock'[p] = sock[p]
<1>1. LinesTyped'
  BY BlankTyped DEF CloseSocket
<1>2. sock' = [sock EXCEPT ![o] = 0] /\ fds' = fds \ {sock[o]} /\ sock \in [Objects -> Nat]
  BY DEF CloseSocket, SocketsTyped
<1>3. sock'[o] = 0 /\ \A p \in Objects : p # o => sock'[p] = sock[p]
  BY <1>2
<1>4. SocketsTyped'
  BY <1>2 DEF SocketsTyped
<1>5. fds' = {sock'[p] : p \in Objects} \ {0}
  BY <1>2, <1>3 DEF Sockets
<1>6. \A p, q \in Objects : p # q /\ sock'[p] = sock'[q] => sock'[p] = 0
  BY <1>3 DEF Sockets
<1>7. \A p \in Objects : sock'[p] <= opened'
  BY <1>3 DEF Sockets, SocketsTyped
<1> QED BY <1>1, <1>3, <1>4, <1>5, <1>6, <1>7 DEF Sockets

LEMMA OpenSockets ==
  ASSUME SocketsTyped, Sockets, NEW o \in Objects,
         opened' = opened + 1, sock' = [sock EXCEPT ![o] = opened + 1],
         fds' = (fds \ {sock[o]}) \cup {opened + 1}
  PROVE  /\ SocketsTyped' /\ Sockets' /\ sock'[o] = opened + 1 /\ sock'[o] # 0
         /\ \A p \in Objects : p # o => sock'[p] = sock[p]
<1>1. sock \in [Objects -> Nat] /\ opened \in Nat /\ fds \subseteq 1..opened
  BY DEF SocketsTyped
<1>2. sock'[o] = opened + 1 /\ \A p \in Objects : p # o => sock'[p] = sock[p]
  BY <1>1
<1>3. SocketsTyped' /\ sock'[o] # 0
  <2>1. opened + 1 \in Nat /\ opened + 1 # 0 /\ sock' \in [Objects -> Nat]
    BY <1>1
  <2>2. fds' \subseteq 1..opened + 1
    <3>1. \A x \in 1..opened : x \in 1..opened + 1
      BY ONLY <1>1
    <3>2. opened + 1 \in 1..opened + 1
      BY ONLY <1>1
    <3> QED BY <1>1, <3>1, <3>2
  <2> QED BY <1>2, <2>1, <2>2 DEF SocketsTyped
<1>4. \A p \in Objects : sock[p] # opened + 1 /\ sock[p] \in Nat /\ sock[p] <= opened
  BY <1>1 DEF Sockets
<1>5. fds' = {sock'[p] : p \in Objects} \ {0}
  BY <1>1, <1>2, <1>3, <1>4 DEF Sockets
<1>6. \A p, q \in Objects : p # q /\ sock'[p] = sock'[q] => sock'[p] = 0
  BY <1>2, <1>4 DEF Sockets
<1>7. \A p \in Objects : sock'[p] <= opened'
  BY <1>1, <1>2, <1>4
<1> QED BY <1>2, <1>3, <1>5, <1>6, <1>7 DEF Sockets

\* reading an item, and writing a request
LEMMA ConsumeTyped ==
  ASSUME LinesTyped, current.obj \in Objects, NEW kind, Comes(kind), Consume
  PROVE  LinesTyped' /\ Head(inbox[current.obj]) \in Item
<1> DEFINE o == current.obj
<1>1. inbox[o] \in Seq(Item) /\ inbox[o] # <<>>
  BY DEF Comes, LinesTyped
<1> HIDE DEF o
<1>2. Head(inbox[o]) \in Item /\ Tail(inbox[o]) \in Seq(Item)
  BY ONLY <1>1
<1>3. LinesTyped'
  BY <1>2 DEF LinesTyped, Consume, o
<1> QED BY <1>2, <1>3 DEF o

LEMMA OweTyped ==
  ASSUME LinesTyped, NEW o \in Objects, NEW r \in RequestType, serial \in Nat, Owe(o, r)
  PROVE  LinesTyped'
<1> DEFINE n == IF o \in stray THEN 0 ELSE serial + 1
           x == [id |-> n, method |-> r.method]
           y == [id |-> 0, method |-> "GET"]
<1>1. n \in Nat /\ r.method \in Methods /\ "GET" \in Methods /\ 0 \in Nat
  BY DEF RequestType, Methods
<1>2. x \in Debt /\ y \in Debt
  BY ONLY <1>1 DEF Debt
<1>3. Pending(o, r) = <<x>> \o (IF r.content = "bare" THEN <<y>> ELSE <<>>)
  BY DEF Pending
<1> HIDE DEF x, y
<1>4. Pending(o, r) \in Seq(Debt)
  BY ONLY <1>2, <1>3
<1>5. owes[o] \o Pending(o, r) \in Seq(Debt)
  BY <1>4 DEF LinesTyped
<1>6. owes' \in [Objects -> Seq(Debt)]
  BY <1>5 DEF LinesTyped, Owe
<1> QED BY <1>6 DEF LinesTyped, Owe

LEMMA AnswerTyped ==
  ASSUME LinesTyped, NEW o \in Objects, NEW a \in Answers, Answer(o, a)
  PROVE  LinesTyped'
<1> DEFINE m == Head(owes[o])
           i(kind) == [is |-> kind, id |-> m.id, ans |-> a]
           early == [j \in 1..a.interims |-> i("interim")]
<1>1. owes[o] \in Seq(Debt) /\ owes[o] # <<>>
  BY DEF Answer, LinesTyped
<1>2. m \in Debt /\ Tail(owes[o]) \in Seq(Debt)
  BY ONLY <1>1
<1>3. m.id \in Nat /\ a \in AnswerType /\ a.interims \in Nat
  BY <1>2, ClientAssumption DEF ClientAssumption, AnswerType, Debt
<1>4. i("interim") \in Item /\ i("head") \in Item
  BY <1>3 DEF Item
<1>5. owes' = [owes EXCEPT ![o] = Tail(owes[o])]
      /\ inbox' = [inbox EXCEPT ![o] = inbox[o] \o early \o <<i("head")>>]
      /\ due' \subseteq due \cup {o} /\ UNCHANGED <<down, stray>>
  BY DEF Answer
<1> HIDE DEF m, i
<1>6. early \in Seq(Item)
  BY ONLY <1>3, <1>4
<1> HIDE DEF early
<1>7. inbox[o] \o early \o <<i("head")>> \in Seq(Item)
  BY <1>4, <1>6 DEF LinesTyped
<1> QED BY <1>2, <1>5, <1>7 DEF LinesTyped

LEMMA ServerTyped ==
  ASSUME LinesTyped, Server
  PROVE  LinesTyped'
<1>1. ASSUME NEW o \in Objects, SendContent(o) PROVE LinesTyped'
  <2> DEFINE x == [is |-> "tail", id |-> 0, ans |-> NoAnswer]
  <2>1. x \in Item
    BY NoFrameType DEF Item
  <2>2. inbox' = [inbox EXCEPT ![o] = Append(inbox[o], x)] /\ due' = due \ {o}
        /\ UNCHANGED <<owes, down, stray>>
    BY <1>1 DEF SendContent
  <2> HIDE DEF x
  <2>3. Append(inbox[o], x) \in Seq(Item)
    BY <2>1 DEF LinesTyped
  <2> QED BY <2>2, <2>3 DEF LinesTyped
<1>2. ASSUME NEW o \in Objects, PeerCloses(o) PROVE LinesTyped'
  BY <1>2 DEF PeerCloses, LinesTyped
<1> QED BY <1>1, <1>2, AnswerTyped DEF Server

----------------------------------------------------------------------------
(* Writing a request and reading its answer *)

RestTyped == /\ keep_alive_ \in BOOLEAN /\ follow_location_ \in BOOLEAN
             /\ todo \in [Threads -> 0..PerThread]
             /\ tpc \in [Threads -> {"idle", "waiting", "sending"}]
             /\ call \in [Threads -> RequestType]
             /\ result \in [end : {"won", "lost"}, error : Errors, id : Nat, got : Nat]
             /\ holder \in Threads \cup {Nobody}
             /\ asked \in BOOLEAN /\ stops \in 0..MaxStops /\ gone \in BOOLEAN
             /\ noted \subseteq Objects /\ serial \in Nat /\ error \in Errors

FramesTyped == /\ depth \in 0..MaxHops + 1 /\ frame \in [Hops -> Frame]
               /\ in_flight \in [Objects -> Nat]

LEMMA TypeParts == TypeOK <=> RestTyped /\ FramesTyped /\ SocketsTyped /\ LinesTyped
  BY DEF TypeOK, RestTyped, FramesTyped, SocketsTyped, LinesTyped

LEMMA TypePartsNext == RestTyped' /\ FramesTyped' /\ SocketsTyped' /\ LinesTyped' => TypeOK'
  BY DEF TypeOK, RestTyped, FramesTyped, SocketsTyped, LinesTyped

\* the record at work stays entered, and if it uses a socket then it did before
Proceeds == /\ Stays /\ current.pc # "enter" /\ frame'[top].pc # "enter"
            /\ frame'[top].pc \in Using => current.pc \in Using /\ frame'[top].fd = current.fd

LEMMA ProceedStep ==
  ASSUME Inv, Proceeds, UNCHANGED <<settings, threads, sockets, stopping>>,
         error' \in Errors, serial' \in Nat, LinesTyped'
  PROVE  Inv'
<1>1. TypeOK /\ Chain /\ Counts /\ Stays /\ depth > 0 /\ depth' = depth
  BY DEF Inv, Proceeds, Stays
<1>2. /\ UNCHANGED <<keep_alive_, follow_location_, todo, tpc, call, result, holder, asked,
                     stops, gone, noted, sock, fds, opened, in_flight>>
  BY <1>1 DEF Stays, settings, threads, sockets, stopping
<1>3. TypeOK'
  <2>1. RestTyped' /\ SocketsTyped'
    BY <1>1, <1>2, TypeParts DEF RestTyped, SocketsTyped
  <2>2. FramesTyped'
    BY <1>1, <1>2, TypeParts DEF FramesTyped, Stays
  <2> QED BY <2>1, <2>2, TypePartsNext
<1>4. Chain'
  BY <1>1, StaysChain
<1>5. Counts'
  <2>1. in_flight \in [Objects -> Int]
    BY <1>1 DEF TypeOK
  <2>2. Entered(top) = 1 /\ Entered(top)' = 1
    BY <1>1 DEF Proceeds, Entered, current, top
  <2>3. current.obj \in Objects /\ in_flight[current.obj] \in Int
    BY <1>1, <2>1, TopType
  <2>4. in_flight'[current.obj] = in_flight[current.obj] + Entered(top)' - Entered(top)
    BY <1>2, <2>2, <2>3
  <2> QED BY <1>1, <1>2, <2>1, <2>4, StaysCounts
<1>6. Sockets' /\ Holding'
  BY <1>2 DEF Inv, Sockets, Holding
<1>7. Held'
  <2>1. top' = top /\ current' = frame'[top]
    BY <1>1 DEF top, current
  <2> QED BY <1>1, <1>2, <2>1 DEF Inv, Held, Proceeds, Stays
<1> QED BY <1>3, <1>4, <1>5, <1>6, <1>7 DEF Inv

\* a stage of the request fails, or a step to a stage where no socket is used
LEMMA GotoStep ==
  ASSUME Inv, depth > 0, current.pc # "enter", NEW s \in {"handle", "follow", "won", "lost"},
         Goto(s), UNCHANGED <<settings, threads, holder, depth, sockets, stopping>>,
         error' \in Errors, serial' \in Nat, LinesTyped'
  PROVE  Inv'
<1>1. s \in Stages /\ s \notin Using /\ s # "wait" /\ s # "enter"
  BY DEF Stages, Using
<1>2. Proceeds
  BY <1>1, GotoType DEF Inv, Proceeds, Stays
<1> QED BY <1>2, ProceedStep

\* a record that changes, in a stage and other fields, keeps its object
LEMMA WriteStep == Inv /\ Write => Inv'
<1> SUFFICES ASSUME Inv, Write PROVE Inv'
  OBVIOUS
<1> DEFINE f == [current EXCEPT !.pc = "head", !.id = serial + 1]
<1>1. TypeOK /\ depth > 0 /\ serial \in Nat /\ error \in Errors /\ current.pc = "write"
  BY DEF Inv, TypeOK, Write, At
<1>2. f \in Frame /\ f.pc = "head" /\ f.obj = current.obj /\ f.fd = current.fd
  <2>1. current \in Frame /\ "head" \in Stages /\ serial + 1 \in Nat
    BY <1>1, TopType DEF Stages
  <2> HIDE DEF current
  <2> QED BY <2>1 DEF Frame
<1>3. Becomes(f) /\ UNCHANGED <<settings, threads, holder, depth, sockets, stopping, error>>
      /\ serial' = serial + 1
  BY DEF Write, exchange
<1>4. LinesTyped'
  <2>1. LinesTyped /\ current.obj \in Objects /\ current.req \in RequestType
    BY <1>1, TypeParts, TopType
  <2>2. CASE Owe(current.obj, current.req)
    BY <1>1, <2>1, <2>2, OweTyped
  <2>3. CASE UNCHANGED lines
    BY <2>1, <2>3 DEF lines, LinesTyped
  <2> QED BY <2>2, <2>3 DEF Write
<1> HIDE DEF f
<1>5. Proceeds
  BY <1>1, <1>2, <1>3, BecomesType DEF Proceeds, Stays, Using
<1> QED BY <1>1, <1>3, <1>4, <1>5, ProceedStep

LEMMA ReadHeadStep == Inv /\ ReadHead => Inv'
<1> SUFFICES ASSUME Inv, ReadHead PROVE Inv'
  OBVIOUS
<1> DEFINE m == Head(inbox[current.obj])
           f == [current EXCEPT !.pc = "body", !.got = m.id, !.ans = m.ans]
<1>1. TypeOK /\ depth > 0 /\ serial \in Nat /\ error \in Errors /\ current.pc = "head"
  BY DEF Inv, TypeOK, ReadHead, At
<1>2. LinesTyped' /\ m \in Item
  <2>1. LinesTyped /\ current.obj \in Objects
    BY <1>1, TypeParts, TopType
  <2> QED BY <2>1, ConsumeTyped DEF ReadHead
<1>3. Becomes(f) /\ UNCHANGED <<settings, threads, holder, depth, sockets, stopping, error,
                                serial>>
  BY DEF ReadHead, exchange
<1>4. f \in Frame /\ f.pc = "body" /\ f.obj = current.obj /\ f.fd = current.fd
  <2>1. current \in Frame /\ "body" \in Stages
    BY <1>1, TopType DEF Stages
  <2>2. m.id \in Nat /\ m.ans \in AnswerType
    BY <1>2 DEF Item
  <2> HIDE DEF current, m
  <2> QED BY <2>1, <2>2 DEF Frame
<1> HIDE DEF f
<1>5. Proceeds
  BY <1>1, <1>3, <1>4, BecomesType DEF Proceeds, Stays, Using
<1> QED BY <1>1, <1>2, <1>3, <1>5, ProceedStep

\* the steps of a request between those that take and leave the socket
Working == \/ Write \/ ReadInterim \/ ReadHead \/ ReadFails \/ ReadBody \/ RedirectFails
           \/ \E e \in Errors : WriteFails(e) \/ BodyFails(e)

LEMMA WorkingStep == Inv /\ Working => Inv'
<1> SUFFICES ASSUME Inv, Working PROVE Inv'
  OBVIOUS
<1>1. TypeOK /\ LinesTyped /\ serial \in Nat /\ error \in Errors
  BY TypeParts DEF Inv, TypeOK
<1>2. LinesTyped /\ UNCHANGED lines => LinesTyped'
  BY DEF LinesTyped, lines
<1>3. CASE ReadInterim
  <2>1. depth > 0 /\ current.pc = "head" /\ Comes("interim") /\ Consume
        /\ UNCHANGED <<settings, threads, holder, depth, sockets, stopping, frame, error,
                       serial>>
    BY <1>3 DEF ReadInterim, At, exchange
  <2>2. LinesTyped'
    BY <1>1, <2>1, TopType, ConsumeTyped
  <2>3. frame \in [Hops -> Frame] /\ frame[top] = current
    BY <1>1, ActiveTypes DEF current
  <2>4. Proceeds
    BY <2>1, <2>3 DEF Proceeds, Stays, Using
  <2> QED BY <1>1, <2>1, <2>2, <2>4, ProceedStep
<1>4. CASE ReadBody
  <2>1. depth > 0 /\ current.pc = "body" /\ Goto("handle")
        /\ UNCHANGED <<settings, threads, holder, depth, sockets, stopping, error, serial>>
    BY <1>4 DEF ReadBody, At, exchange
  <2>2. UNCHANGED lines \/ (Comes("tail") /\ Consume)
    BY <1>4 DEF ReadBody
  <2>3. LinesTyped'
    BY <1>1, <1>2, <2>1, <2>2, TopType, ConsumeTyped
  <2> QED BY <1>1, <2>1, <2>3, GotoStep
<1>5. CASE RedirectFails
  <2>1. depth > 0 /\ current.pc = "follow" /\ Goto("lost") /\ UNCHANGED lines
        /\ UNCHANGED <<settings, threads, holder, depth, sockets, stopping, serial>>
    BY <1>5 DEF RedirectFails, At, exchange
  <2>2. error' \in Errors
    BY <1>1, <1>5 DEF RedirectFails, Errors
  <2> QED BY <1>1, <1>2, <2>1, <2>2, GotoStep
<1>6. ASSUME NEW e \in Errors, WriteFails(e) \/ BodyFails(e) \/ (e = "Read" /\ ReadFails)
      PROVE  Inv'
  <2>1. depth > 0 /\ current.pc \in Using /\ Goto("lost") /\ error' = e /\ UNCHANGED lines
        /\ UNCHANGED <<settings, threads, holder, depth, sockets, stopping, serial>>
    BY <1>6 DEF WriteFails, BodyFails, ReadFails, Fail, At, exchange, Using
  <2>2. current.pc # "enter"
    BY <2>1 DEF Using
  <2> QED BY <1>1, <1>2, <2>1, <2>2, GotoStep
<1>7. "Read" \in Errors
  BY DEF Errors
<1> QED BY <1>3, <1>4, <1>5, <1>6, <1>7, WriteStep, ReadHeadStep DEF Working

----------------------------------------------------------------------------
(* Taking the socket, and closing it in handle_request() *)

\* sockets of other objects, and those of objects not in use, do not change
LEMMA TakenStep ==
  ASSUME Inv, depth > 0, current.pc = "enter", NEW fd \in Nat, fd # 0,
         Becomes([current EXCEPT !.pc = "write", !.fd = fd]),
         in_flight' = [in_flight EXCEPT ![current.obj] = @ + 1],
         noted' = noted \ {current.obj},
         UNCHANGED <<settings, threads, holder, depth, serial, stopping>>,
         error' \in Errors, LinesTyped', SocketsTyped', Sockets', sock'[current.obj] = fd,
         \A o \in Objects : o # current.obj => sock'[o] = sock[o]
  PROVE  Inv'
<1> DEFINE f == [current EXCEPT !.pc = "write", !.fd = fd]
<1>1. TypeOK /\ Chain /\ Counts /\ top' = top /\ current.obj \in Objects
      /\ in_flight \in [Objects -> Nat]
  BY TopType DEF Inv, TypeOK, top
<1>2. f \in Frame /\ f.pc = "write" /\ f.obj = current.obj /\ f.fd = fd
  <2>1. current \in Frame /\ "write" \in Stages
    BY <1>1, TopType DEF Stages
  <2> HIDE DEF current
  <2> QED BY <2>1 DEF Frame
<1> HIDE DEF f
<1>3. frame' \in [Hops -> Frame] /\ frame'[top] = f
      /\ \A i \in Hops : i # top => frame'[i] = frame[i]
  BY <1>1, <1>2, BecomesType DEF f
<1>4. Stays
  BY <1>2, <1>3 DEF Stays
<1>5. in_flight' \in [Objects -> Nat] /\ in_flight'[current.obj] = in_flight[current.obj] + 1
      /\ \A o \in Objects : o # current.obj => in_flight'[o] = in_flight[o]
  BY <1>1
<1>6. Counts'
  <2>1. Entered(top) = 0 /\ Entered(top)' = 1
    BY <1>1, <1>2, <1>3 DEF Entered, current
  <2>2. in_flight'[current.obj] = in_flight[current.obj] + Entered(top)' - Entered(top)
    BY <1>1, <1>5, <2>1
  <2>3. in_flight' \in [Objects -> Int]
    BY <1>5
  <2> QED BY <1>1, <1>4, <1>5, <2>2, <2>3, StaysCounts
<1>7. TypeOK'
  <2>1. UNCHANGED <<keep_alive_, follow_location_, todo, tpc, call, result, holder, asked,
                    stops, gone, serial, depth>>
    BY DEF settings, threads, stopping
  <2>2. RestTyped'
    BY <1>1, <2>1, TypeParts DEF RestTyped
  <2>3. FramesTyped'
    BY <1>1, <1>3, <1>5, <2>1, TypeParts DEF FramesTyped
  <2> QED BY <2>2, <2>3, TypePartsNext
<1>8. Held'
  <2>1. current' = f
    BY <1>1, <1>3 DEF current
  <2> QED BY <1>2, <2>1 DEF Held
<1>9. Holding'
  <2>1. ~gone
    <3>1. holder \in Threads /\ tpc[holder] = "sending"
      BY <1>1 DEF Inv, Chain, Holding, TypeOK
    <3> QED BY <3>1 DEF Inv, Holding
  <2> QED BY <2>1 DEF Inv, Holding, threads, stopping
<1> QED BY <1>1, <1>4, <1>6, <1>7, <1>8, <1>9, StaysChain DEF Inv

LEMMA ReuseStep == Inv /\ Reuse => Inv'
<1> SUFFICES ASSUME Inv, Reuse PROVE Inv'
  OBVIOUS
<1> DEFINE o == current.obj
           fd == sock[o]
<1>1. TypeOK /\ depth > 0 /\ current.pc = "enter" /\ Sockets
  BY DEF Inv, Reuse, At
<1>2. SocketsTyped /\ LinesTyped /\ error \in Errors /\ o \in Objects
  BY <1>1, TypeParts, TopType DEF TypeOK
<1>3. fd \in Nat /\ fd # 0
  BY <1>2 DEF Reuse, Usable, SocketsTyped
<1>4. /\ noted' = noted \ {o} /\ in_flight' = [in_flight EXCEPT ![o] = @ + 1]
      /\ Becomes([current EXCEPT !.pc = "write", !.fd = fd])
      /\ UNCHANGED <<settings, threads, holder, depth, serial, stopping>>
      /\ UNCHANGED <<error, sock, fds, opened, lines>>
  BY DEF Reuse
<1>5. LinesTyped' /\ SocketsTyped' /\ Sockets'
  BY <1>1, <1>2, <1>4 DEF LinesTyped, SocketsTyped, Sockets, lines
<1>6. sock'[o] = fd /\ error' \in Errors
  BY <1>2, <1>4
<1> HIDE DEF fd
<1> QED BY <1>1, <1>3, <1>4, <1>5, <1>6, TakenStep

LEMMA ConnectStep ==
  ASSUME NEW as
  PROVE  Inv /\ Connect(as) => Inv'
<1> SUFFICES ASSUME Inv, Connect(as) PROVE Inv'
  OBVIOUS
<1> DEFINE o == current.obj
           fd == opened + 1
<1>1. TypeOK /\ depth > 0 /\ current.pc = "enter" /\ Sockets
  BY DEF Inv, Connect, At
<1>2. SocketsTyped /\ LinesTyped /\ o \in Objects
  BY <1>1, TypeParts, TopType DEF TypeOK
<1>3. /\ noted' = noted \ {o} /\ in_flight' = [in_flight EXCEPT ![o] = @ + 1]
      /\ Becomes([current EXCEPT !.pc = "write", !.fd = fd]) /\ Blank(o)
      /\ UNCHANGED <<settings, threads, holder, depth, serial, stopping>>
      /\ error' = "Success" /\ opened' = fd /\ sock' = [sock EXCEPT ![o] = fd]
      /\ fds' = (fds \ {sock[o]}) \cup {fd}
  BY DEF Connect
<1>4. fd \in Nat /\ fd # 0
  BY <1>2 DEF SocketsTyped
<1>5. /\ SocketsTyped' /\ Sockets' /\ sock'[o] = fd
      /\ \A p \in Objects : p # o => sock'[p] = sock[p]
  BY <1>1, <1>2, <1>3, OpenSockets
<1>6. LinesTyped'
  BY <1>2, <1>3, BlankTyped
<1>7. error' \in Errors
  BY <1>3 DEF Errors
<1> HIDE DEF fd
<1> QED BY <1>1, <1>3, <1>4, <1>5, <1>6, <1>7, TakenStep

\* the destructor waits until no thread is inside send()
LEMMA NotGone ==
  ASSUME Inv, depth > 0
  PROVE  ~gone /\ holder \in Threads /\ tpc[holder] = "sending"
<1>1. holder \in Threads /\ tpc[holder] = "sending"
  BY DEF Inv, Chain, Holding, TypeOK
<1> QED BY <1>1 DEF Inv, Holding

LEMMA HandleStep == Inv /\ Handle => Inv'
<1> SUFFICES ASSUME Inv, Handle PROVE Inv'
  OBVIOUS
<1> DEFINE o == current.obj
<1>1. TypeOK /\ Chain /\ Counts /\ Sockets /\ depth > 0 /\ current.pc = "handle"
  BY DEF Inv, Handle, At
<1>2. SocketsTyped /\ LinesTyped /\ o \in Objects /\ RestTyped /\ FramesTyped
  BY <1>1, TypeParts, TopType
<1>3. UNCHANGED <<settings, threads, holder, depth, error, in_flight, noted, opened, serial,
                  stopping>>
  BY DEF Handle
<1>4. PICK s \in {"follow", "won"} : Goto(s)
  BY DEF Handle
<1>5. s \in Stages /\ s \notin {"wait", "enter"} /\ s \notin Using
  BY DEF Stages, Using
<1>6. Stays /\ frame'[top].pc = s
  BY <1>1, <1>3, <1>4, <1>5, GotoType DEF Stays
<1>7. /\ LinesTyped' /\ SocketsTyped' /\ Sockets'
      /\ \A p \in Objects : p # o => sock'[p] = sock[p]
  <2>1. CASE CloseSocket(o)
    BY <1>1, <1>2, <1>3, <2>1, CloseSockets
  <2>2. CASE UNCHANGED <<sock, fds, lines>>
    BY <1>1, <1>2, <1>3, <2>2 DEF LinesTyped, SocketsTyped, Sockets, lines
  <2> QED BY <2>1, <2>2 DEF Handle
<1>8. TypeOK'
  <2>1. RestTyped'
    BY <1>2, <1>3 DEF RestTyped, settings, threads, stopping
  <2>2. FramesTyped'
    BY <1>2, <1>3, <1>6 DEF FramesTyped, Stays
  <2> QED BY <1>7, <2>1, <2>2, TypePartsNext
<1>9. Counts'
  <2>1. Entered(top) = 1 /\ Entered(top)' = 1
    BY <1>1, <1>3, <1>5, <1>6 DEF Entered, current, top
  <2>2. in_flight' \in [Objects -> Int] /\ in_flight[o] \in Int
    BY <1>2, <1>3 DEF FramesTyped
  <2>3. in_flight'[o] = in_flight[o] + Entered(top)' - Entered(top)
    BY <1>3, <2>1, <2>2
  <2> QED BY <1>1, <1>3, <1>6, <1>7, <2>2, <2>3, StaysCounts
<1>10. Held'
  BY <1>3, <1>5, <1>6 DEF Held, current, top
<1>11. Holding'
  BY <1>1, <1>3, NotGone DEF Inv, Holding, threads, stopping
<1> QED BY <1>1, <1>6, <1>7, <1>8, <1>9, <1>10, <1>11, StaysChain DEF Inv

----------------------------------------------------------------------------
(* Returns *)

\* the threads after send() returned; while an outer record of it remains they stay
LEMMA ReturnThreads ==
  ASSUME Inv, depth > 0, NEW end \in {"won", "lost"}, NEW e \in Errors, Return(end, e),
         UNCHANGED stopping
  PROVE  /\ todo' \in [Threads -> 0..PerThread]
         /\ tpc' \in [Threads -> {"idle", "waiting", "sending"}]
         /\ call' \in [Threads -> RequestType]
         /\ result' \in [end : {"won", "lost"}, error : Errors, id : Nat, got : Nat]
         /\ holder' \in Threads \cup {Nobody}
         /\ \A t \in Threads : tpc'[t] = "sending" <=> t = holder'
         /\ ~gone'
<1>1. TypeOK /\ ~gone /\ holder \in Threads /\ current \in Frame
      /\ \A t \in Threads : tpc[t] = "sending" <=> t = holder
  BY NotGone, TopType DEF Inv, Holding
<1>2. ~gone'
  BY <1>1 DEF stopping
<1>3. CASE depth = 1
  <2>1. /\ result' = [end |-> end, error |-> e, id |-> current.id, got |-> current.got]
        /\ call' = [call EXCEPT ![holder] = NoRequest]
        /\ tpc' = [tpc EXCEPT ![holder] = "idle"]
        /\ holder' = Nobody /\ todo' = todo
    BY <1>3 DEF Return, Deliver
  <2>2. current.id \in Nat /\ current.got \in Nat
    BY <1>1 DEF Frame
  <2>3. result' \in [end : {"won", "lost"}, error : Errors, id : Nat, got : Nat]
    BY <2>1, <2>2
  <2>4. /\ call \in [Threads -> RequestType] /\ todo \in [Threads -> 0..PerThread]
        /\ tpc \in [Threads -> {"idle", "waiting", "sending"}]
    BY <1>1 DEF TypeOK
  <2>5. call' \in [Threads -> RequestType]
    BY <1>1, <2>1, <2>4, NoFrameType
  <2>6. tpc' \in [Threads -> {"idle", "waiting", "sending"}]
        /\ \A t \in Threads : tpc'[t] # "sending"
    BY <1>1, <2>1, <2>4
  <2>7. \A t \in Threads : t # holder'
    BY <2>1, ClientAssumption DEF ClientAssumption
  <2> QED BY <1>2, <2>1, <2>3, <2>4, <2>5, <2>6, <2>7
<1>4. CASE depth # 1
  <2>1. UNCHANGED <<todo, tpc, call, result, holder>>
    BY <1>4 DEF Return, Resume, threads
  <2> QED BY <1>1, <1>2, <2>1 DEF TypeOK
<1> QED BY <1>3, <1>4

LEMMA ReturnStep ==
  ASSUME Inv, depth > 0, NEW end \in {"won", "lost"}, NEW e \in Errors, Return(end, e),
         error' = e, in_flight' \in [Objects -> Nat],
         in_flight'[current.obj] = in_flight[current.obj] - Entered(top),
         \A o \in Objects : o # current.obj => in_flight'[o] = in_flight[o],
         CloseSocket(current.obj) \/ (~Local /\ UNCHANGED <<sock, fds, lines>>),
         noted' \subseteq noted, UNCHANGED <<settings, opened, serial, stopping>>
  PROVE  Inv'
<1> DEFINE o == current.obj
<1>1. TypeOK /\ Chain /\ Counts /\ Sockets
  BY DEF Inv
<1>2. SocketsTyped /\ LinesTyped /\ o \in Objects /\ RestTyped /\ depth \in Nat
  BY <1>1, TypeParts, TopType
<1>3. Drops /\ (depth = 1 => holder' = Nobody) /\ (depth > 1 => holder' = holder)
  BY <1>1, ReturnDrops
<1>4. /\ LinesTyped' /\ SocketsTyped' /\ Sockets' /\ (Local => sock'[o] = 0)
      /\ \A p \in Objects : p # o => sock'[p] = sock[p]
  <2>1. CASE CloseSocket(o)
    BY <1>1, <1>2, <2>1, CloseSockets
  <2>2. CASE ~Local /\ UNCHANGED <<sock, fds, lines>>
    BY <1>1, <1>2, <2>2 DEF LinesTyped, SocketsTyped, Sockets, lines
  <2> QED BY <2>1, <2>2
<1>5. Chain'
  BY <1>1, <1>3, DropsChain
<1>6. Counts'
  <2>1. in_flight' \in [Objects -> Int]
    OBVIOUS
  <2> QED BY <1>1, <1>3, <1>4, <2>1, DropsCounts
<1>7. TypeOK'
  <2>1. RestTyped'
    <3>1. UNCHANGED <<keep_alive_, follow_location_, asked, stops, gone, serial>>
      BY DEF settings, stopping
    <3> QED BY <1>2, <3>1, ReturnThreads DEF RestTyped
  <2>2. FramesTyped'
    <3>1. depth' \in 0..MaxHops + 1
      BY <1>1, <1>3, ActiveTypes DEF Drops
    <3> QED BY <1>3, <3>1 DEF FramesTyped, Drops
  <2> QED BY <1>4, <2>1, <2>2, TypePartsNext
<1>8. Held'
  <2>1. depth' > 0 => current'.pc \in {"won", "lost"}
    <3>1. depth' > 0 => depth > 1 /\ depth' - 1 = depth - 2
      BY <1>2, <1>3 DEF Drops
    <3> QED BY <1>3, <3>1 DEF Drops, current, top
  <2> QED BY <2>1 DEF Held, Using
<1>9. Holding'
  BY ReturnThreads DEF Holding
<1> QED BY <1>4, <1>5, <1>6, <1>7, <1>8, <1>9 DEF Inv

LEMMA ConnectFailsStep ==
  ASSUME NEW as
  PROVE  Inv /\ ConnectFails(as) => Inv'
<1> SUFFICES ASSUME Inv, ConnectFails(as) PROVE Inv'
  OBVIOUS
<1> DEFINE e == ConnectError(as)
<1>1. depth > 0 /\ current.pc = "enter" /\ e \in Errors
  BY ConnectErrorType DEF ConnectFails, At
<1>2. /\ CloseSocket(current.obj) /\ noted' \subseteq noted /\ error' = e /\ Return("lost", e)
      /\ UNCHANGED <<settings, in_flight, opened, serial, stopping>>
  BY DEF ConnectFails
<1>3. Entered(top) = 0
  BY <1>1 DEF Entered, current
<1>4. in_flight \in [Objects -> Nat] /\ in_flight[current.obj] \in Nat
  BY <1>1, TopType DEF Inv, TypeOK
<1>5. in_flight' \in [Objects -> Nat]
      /\ in_flight'[current.obj] = in_flight[current.obj] - Entered(top)
  BY <1>2, <1>3, <1>4
<1> HIDE DEF e
<1> QED BY <1>1, <1>2, <1>5, ReturnStep

LEMMA LeavesStep ==
  ASSUME NEW end \in {"won", "lost"}, NEW e \in Errors, NEW closes \in BOOLEAN,
         Local => closes
  PROVE  Inv /\ Leaves(end, e, closes) => Inv'
<1> SUFFICES ASSUME Inv, Leaves(end, e, closes) PROVE Inv'
  OBVIOUS
<1> DEFINE o == current.obj
<1>1. depth > 0 /\ current.pc \in {"won", "lost"} /\ TypeOK
  BY DEF Inv, Leaves, At
<1>2. /\ error' = e /\ Return(end, e) /\ in_flight' = [in_flight EXCEPT ![o] = @ - 1]
      /\ UNCHANGED <<settings, opened, serial, stopping>> /\ noted' = noted
  BY DEF Leaves
<1>3. CloseSocket(o) \/ (~Local /\ UNCHANGED <<sock, fds, lines>>)
  BY DEF Leaves
<1>4. o \in Objects /\ o \in Nat /\ top \in Active /\ top \in Nat /\ top = depth - 1 /\ in_flight \in [Objects -> Nat]
  BY <1>1, TopType DEF TypeOK, Objects, Hops, top
<1>5. Entered(top) = 1 /\ in_flight[o] >= 1
  <2>1. Entered(top) = 1 /\ o <= top
    BY <1>1, <1>4 DEF Entered, current, Inv, Chain
  <2>2. in_flight[o] = top - o + 1
    BY <1>4, <2>1 DEF Inv, Counts, Innermost, current
  <2> QED BY <1>4, <2>1, <2>2
<1>6. /\ in_flight' \in [Objects -> Nat] /\ in_flight'[o] = in_flight[o] - Entered(top)
      /\ \A p \in Objects : p # o => in_flight'[p] = in_flight[p]
  <2>1. in_flight[o] - 1 \in Nat
    BY <1>4, <1>5
  <2> QED BY <1>2, <1>4, <1>5, <2>1
<1> QED BY <1>1, <1>2, <1>3, <1>6, ReturnStep

LEMMA LeaveStep == Inv /\ Leave => Inv'
<1>1. Inv => error \in Errors /\ LostError \in Errors
  BY LostErrorType DEF Inv, TypeOK
<1>2. (Noted \/ ~keep_alive_ \/ Local) \in BOOLEAN
  BY DEF Noted, Local
<1> QED BY <1>1, <1>2, LeavesStep DEF Leave

----------------------------------------------------------------------------
(* Redirections, and the calls *)

LEMMA RedirectStep == Inv /\ Redirect => Inv'
<1> SUFFICES ASSUME Inv, Redirect PROVE Inv'
  OBVIOUS
<1> DEFINE o == IF current.ans.to = "here" THEN current.obj ELSE depth
           f == [current EXCEPT !.pc = "wait"]
           g == Entering(o, Redirected(current.req, current.ans.status))
<1>1. TypeOK /\ Chain /\ Counts /\ Sockets /\ depth > 0 /\ current.pc = "follow"
  BY DEF Inv, Redirect, At
<1>2. depth \in Nat /\ top = depth - 1 /\ top \in Hops /\ top \in Active /\ depth \in Objects
      /\ depth \in Hops /\ current.obj \in Objects /\ MaxHops \in Nat /\ depth <= MaxHops
      /\ Active = 0..depth - 1 /\ frame \in [Hops -> Frame]
  BY <1>1, TopType, ActiveTypes DEF Redirect, top, Hops, Objects, Active
<1>3. /\ UNCHANGED <<settings, threads, holder, error, sockets, lines, serial, stopping>>
      /\ frame' = [frame EXCEPT ![top] = f, ![depth] = g] /\ depth' = depth + 1
  BY DEF Redirect, Enters
<1>4. g \in Frame /\ g.obj = o /\ g.pc = "enter"
  <2>1. o \in Objects
    BY <1>2
  <2>2. Redirected(current.req, current.ans.status) \in RequestType
    BY <1>1, TopType, RedirectedType
  <2> QED BY <2>1, <2>2, EnteringType
<1>5. f \in Frame /\ f.obj = current.obj /\ f.pc = "wait"
  <2>1. current \in Frame /\ "wait" \in Stages
    BY <1>1, TopType DEF Stages
  <2> HIDE DEF current
  <2> QED BY <2>1 DEF Frame
<1>6. o = current.obj \/ o = depth
  OBVIOUS
<1> HIDE DEF o, f, g
<1>7. /\ frame' \in [Hops -> Frame] /\ frame'[depth] = g /\ frame'[top] = f
      /\ \A i \in Hops : i # top /\ i # depth => frame'[i] = frame[i]
  <2>1. top # depth
    BY <1>2
  <2> HIDE DEF top
  <2> QED BY <1>2, <1>3, <1>4, <1>5, <2>1
<1>8. /\ Active' = 0..depth /\ Active \subseteq Hops
      /\ \A i \in Active' : i \in Active \/ i = depth
      /\ \A i \in Active : i \in Nat /\ i <= top /\ i # depth /\ (i # top => frame'[i] = frame[i])
      /\ \A i \in Active : frame'[i].obj = frame[i].obj /\ frame[i].obj \in Objects
  <2>1. Active' = 0..depth /\ Active \subseteq Hops
    BY <1>2, <1>3, ActiveTypes DEF Active, Hops
  <2>2. \A i \in Active' : i \in Active \/ i = depth
    BY <1>2, <2>1
  <2>3. \A i \in Active : i \in Nat /\ i <= top /\ i # depth /\ (i # top => frame'[i] = frame[i])
    BY <1>2, <1>7, <2>1
  <2>4. \A i \in Active : frame'[i].obj = frame[i].obj /\ frame[i].obj \in Objects
    BY <1>1, <1>5, <1>7, <2>3, ActiveTypes DEF current
  <2> QED BY <2>1, <2>2, <2>3, <2>4
<1>9. current.obj <= top /\ current.obj \in Nat
      /\ \A j \in Active : current.obj <= j => frame[j].obj = current.obj
  BY <1>1, <1>2, <1>8 DEF Chain, current, Objects
<1>10. TypeOK'
  <2>1. UNCHANGED <<keep_alive_, follow_location_, todo, tpc, call, result, holder, asked,
                    stops, gone, serial, noted, error, sock, fds, opened, in_flight, owes,
                    inbox, due, down, stray>>
    BY <1>3 DEF settings, threads, stopping, sockets, lines
  <2>2. RestTyped' /\ SocketsTyped' /\ LinesTyped'
    BY <1>1, <2>1, TypeParts DEF RestTyped, SocketsTyped, LinesTyped
  <2>3. FramesTyped'
    <3>1. depth' \in 0..MaxHops + 1
      BY <1>2, <1>3
    <3> QED BY <1>1, <1>7, <2>1, <3>1, TypeParts DEF FramesTyped
  <2> QED BY <2>2, <2>3, TypePartsNext
<1>11. Chain'
  <2>1. \A i \in Active' : frame'[i].pc = "wait" <=> i < depth' - 1
    <3>1. \A i \in Active : i # top => (frame'[i].pc = "wait" /\ i < depth)
      BY <1>1, <1>2, <1>8 DEF Chain
    <3>2. frame'[top].pc = "wait" /\ top < depth /\ frame'[depth].pc # "wait" /\ ~(depth < depth)
          /\ depth' - 1 = depth
      BY <1>2, <1>3, <1>4, <1>5, <1>7
    <3> QED BY <1>8, <3>1, <3>2
  <2>2. \A i \in Active' : frame'[i].obj <= i
    <3>1. \A i \in Active : frame'[i].obj <= i
      BY <1>1, <1>8 DEF Chain
    <3>2. o <= depth
      BY <1>2, <1>6, <1>9
    <3> QED BY <1>4, <1>7, <1>8, <3>1, <3>2
  <2>3. ASSUME NEW i \in Active', NEW j \in Active', frame'[i].obj <= j, j <= i
        PROVE  frame'[j].obj = frame'[i].obj
    <3>1. CASE i \in Active
      <4>1. j \in Active
        BY <1>2, <1>8, <2>3, <3>1
      <4> QED BY <1>1, <1>8, <2>3, <3>1, <4>1 DEF Chain
    <3>2. CASE i = depth /\ j \in Active
      <4>1. o <= j /\ j <= top
        BY <1>4, <1>7, <1>8, <2>3, <3>2
      <4>2. o = current.obj
        BY <1>2, <1>6, <1>8, <3>2, <4>1
      <4> QED BY <1>4, <1>7, <1>8, <1>9, <3>2, <4>1, <4>2
    <3> QED BY <1>8, <3>1, <3>2
  <2>4. holder' = Nobody <=> depth' = 0
    BY <1>1, <1>2, <1>3 DEF Chain
  <2> QED BY <2>1, <2>2, <2>3, <2>4 DEF Chain
<1>12. Counts'
  <2>1. UNCHANGED <<sock, in_flight>>
    BY <1>3 DEF sockets
  <2>2. in_flight[current.obj] = top - current.obj + 1
    BY <1>1, <1>2 DEF Counts, Innermost, Entered, current
  <2>3. Unused(depth)
    <3>1. \A i \in Active : frame[i].obj <= i
      BY <1>1 DEF Chain
    <3>2. \A i \in Active : frame[i].obj \in Nat
      BY <1>8 DEF Objects
    <3> QED BY <1>2, <1>8, <3>1, <3>2 DEF Unused
  <2>4. ASSUME NEW i \in Active', Innermost(i)'
        PROVE  in_flight[frame'[i].obj] = i - frame'[i].obj + Entered(i)'
    <3>1. CASE i = depth
      <4>1. frame'[i].obj = o /\ Entered(i)' = 0
        BY <1>4, <1>7, <3>1 DEF Entered
      <4>2. CASE o = current.obj
        BY <1>2, <1>9, <2>2, <3>1, <4>1, <4>2
      <4>3. CASE o = depth
        BY <1>1, <1>2, <2>3, <3>1, <4>1, <4>3 DEF Counts
      <4> QED BY <1>6, <4>2, <4>3
    <3>2. CASE i = top
      <4>1. Entered(i)' = 1 /\ frame'[i].obj = current.obj
        BY <1>5, <1>7, <3>2 DEF Entered
      <4> QED BY <2>2, <3>2, <4>1
    <3>3. CASE i \in Active /\ i # top
      <4>1. i + 1 \in Active /\ i # depth
        BY <1>2, <1>8, <3>3
      <4>2. Innermost(i)
        BY <1>2, <1>3, <1>8, <2>4, <3>3, <4>1 DEF Innermost
      <4>3. in_flight[frame[i].obj] = i - frame[i].obj + Entered(i)
        BY <1>1, <3>3, <4>2 DEF Counts
      <4> QED BY <1>8, <3>3, <4>3 DEF Entered
    <3> QED BY <1>8, <3>1, <3>2, <3>3
  <2>5. ASSUME NEW p \in Objects, Unused(p)'
        PROVE  in_flight[p] = 0 /\ (p > 0 => sock[p] = 0)
    <3>1. Unused(p)
      <4>1. \A i \in Active : i \in Active'
        BY <1>2, <1>8
      <4> QED BY <1>8, <2>5, <4>1 DEF Unused
    <3> QED BY <1>1, <3>1 DEF Counts
  <2> QED BY <2>1, <2>4, <2>5 DEF Counts
<1>13. Sockets' /\ Holding'
  BY <1>1, <1>3 DEF Inv, Sockets, Holding, sockets, threads, stopping
<1>14. Held'
  <2>1. depth' - 1 = depth /\ "enter" \notin Using
    BY <1>2, <1>3 DEF Using
  <2>2. current'.pc = "enter"
    BY <1>4, <1>7, <2>1 DEF current, top
  <2> QED BY <2>1, <2>2 DEF Held
<1> QED BY <1>10, <1>11, <1>12, <1>13, <1>14 DEF Inv

\* send() is entered with no record of send_() left
LEMMA LockStep ==
  ASSUME NEW t \in Threads
  PROVE  Inv /\ Lock(t) => Inv'
<1> SUFFICES ASSUME Inv, Lock(t) PROVE Inv'
  OBVIOUS
<1> DEFINE f == Entering(0, call[t])
<1>1. TypeOK /\ Counts /\ Sockets /\ depth = 0 /\ Active = {} /\ MaxHops \in Nat
      /\ 0 \in Hops /\ 0 \in Objects
  BY ClientAssumption DEF Inv, Lock, Chain, Active, ClientAssumption, Hops, Objects
<1>2. /\ holder' = t /\ tpc' = [tpc EXCEPT ![t] = "sending"] /\ depth' = 1
      /\ frame' = [frame EXCEPT ![0] = f] /\ error' = "Success" /\ result' = NoResult
      /\ asked' = FALSE
      /\ UNCHANGED <<settings, todo, call, sockets, lines, serial, stops, gone>>
  BY DEF Lock
<1>3. f \in Frame /\ f.obj = 0 /\ f.pc = "enter"
  <2>1. call[t] \in RequestType
    BY <1>1 DEF TypeOK
  <2> QED BY <1>1, <2>1, EnteringType
<1> HIDE DEF f
<1>4. frame' \in [Hops -> Frame] /\ frame'[0] = f /\ Active' = {0}
  BY <1>1, <1>2, <1>3 DEF TypeOK, Active
<1>5. /\ UNCHANGED <<keep_alive_, follow_location_, todo, call, stops, gone, serial, noted,
                     sock, fds, opened, in_flight, owes, inbox, due, down, stray>>
  BY <1>2 DEF settings, sockets, lines
<1>6. TypeOK'
  <2>1. SocketsTyped' /\ LinesTyped'
    BY <1>1, <1>5, TypeParts DEF SocketsTyped, LinesTyped
  <2>2. NoResult \in [end : {"won", "lost"}, error : Errors, id : Nat, got : Nat]
        /\ "Success" \in Errors
    BY DEF NoResult, Errors
  <2>3. tpc' \in [Threads -> {"idle", "waiting", "sending"}]
    BY <1>1, <1>2 DEF TypeOK
  <2>4. RestTyped'
    BY <1>1, <1>2, <1>5, <2>2, <2>3, TypeParts DEF RestTyped
  <2>5. FramesTyped'
    <3>1. 1 \in 0..MaxHops + 1
      BY <1>1
    <3> QED BY <1>1, <1>2, <1>4, <1>5, <3>1, TypeParts DEF FramesTyped
  <2> QED BY <2>1, <2>4, <2>5, TypePartsNext
<1>7. Chain'
  <2>1. holder' # Nobody
    BY <1>2, ClientAssumption DEF ClientAssumption
  <2> QED BY <1>2, <1>3, <1>4, <2>1 DEF Chain
<1>8. Counts'
  <2>1. \A o \in Objects : in_flight[o] = 0 /\ (o > 0 => sock[o] = 0)
    BY <1>1 DEF Counts, Unused
  <2>2. Entered(0)' = 0
    BY <1>3, <1>4 DEF Entered
  <2> QED BY <1>1, <1>3, <1>4, <1>5, <2>1, <2>2 DEF Counts
<1>9. Held'
  BY <1>2, <1>3, <1>4 DEF Held, current, top, Using
<1>10. Holding'
  <2>1. \A u \in Threads : tpc[u] # "sending"
    BY ClientAssumption DEF Inv, Holding, Lock, ClientAssumption
  <2>2. tpc \in [Threads -> {"idle", "waiting", "sending"}] /\ tpc[t] = "waiting"
    BY <1>1 DEF TypeOK, Lock
  <2>3. \A u \in Threads : tpc'[u] = "sending" <=> u = t
    BY <1>2, <2>1, <2>2
  <2>4. ~gone
    BY <2>2 DEF Inv, Holding
  <2> QED BY <1>2, <1>5, <2>3, <2>4 DEF Holding
<1> QED BY <1>1, <1>5, <1>6, <1>7, <1>8, <1>9, <1>10 DEF Inv, Sockets

\* what leaves send() and the sockets alone
LEMMA OutsideStep ==
  ASSUME Inv, UNCHANGED <<holder, depth, frame, in_flight>>, TypeOK', Sockets', Holding',
         \A o \in Objects : o > 0 /\ sock[o] = 0 => sock'[o] = 0,
         \/ UNCHANGED sock
         \/ in_flight[0] = 0 /\ \A o \in Objects : o # 0 => sock'[o] = sock[o]
  PROVE  Inv'
<1>1. Chain'
  BY DEF Inv, Chain, Active
<1>2. Counts'
  BY DEF Inv, Counts, Active, Innermost, Entered, Unused
<1>3. Held'
  <2> SUFFICES ASSUME depth > 0, current.pc \in Using PROVE sock'[current.obj] = sock[current.obj]
    BY DEF Inv, Held, current, top
  <2>1. current.obj \in Objects /\ top \in Active /\ top \in Nat /\ current.obj <= top
    BY TopType DEF Inv, Chain, current, Hops
  <2>2. in_flight[current.obj] = top - current.obj + 1
    BY <2>1 DEF Inv, Counts, Innermost, Entered, current, top, Using
  <2>3. in_flight[current.obj] # 0
    BY <2>1, <2>2 DEF Objects
  <2> QED BY <2>1, <2>3
<1> QED BY <1>1, <1>2, <1>3 DEF Inv

LEMMA CallStep ==
  ASSUME NEW t \in Threads, NEW c \in Calls
  PROVE  Inv /\ Call(t, c) => Inv'
<1> SUFFICES ASSUME Inv, Call(t, c) PROVE Inv'
  OBVIOUS
<1>1. TypeOK /\ ~gone /\ tpc[t] = "idle" /\ todo[t] > 0 /\ todo' = [todo EXCEPT ![t] = @ - 1]
      /\ UNCHANGED <<settings, holder, depth, frame, error, sockets, lines, serial, stopping>>
  BY DEF Inv, Call
<1>2. /\ UNCHANGED <<keep_alive_, follow_location_, holder, depth, frame, error, sock,
                     in_flight, noted, fds, opened, owes, due, inbox, down, stray, serial,
                     asked, stops, gone>>
  BY <1>1 DEF settings, sockets, lines, stopping
<1>3. /\ tpc \in [Threads -> {"idle", "waiting", "sending"}] /\ call \in [Threads -> RequestType]
      /\ todo \in [Threads -> 0..PerThread] /\ PerThread \in Nat
      /\ result \in [end : {"won", "lost"}, error : Errors, id : Nat, got : Nat]
  BY <1>1, ClientAssumption DEF TypeOK, ClientAssumption
<1>4. todo' \in [Threads -> 0..PerThread]
  <2>1. todo[t] - 1 \in 0..PerThread
    BY <1>1, <1>3
  <2> QED BY <1>1, <1>3, <2>1
<1>5. /\ tpc' \in [Threads -> {"idle", "waiting", "sending"}]
      /\ call' \in [Threads -> RequestType]
      /\ result' \in [end : {"won", "lost"}, error : Errors, id : Nat, got : Nat]
      /\ \A u \in Threads : tpc'[u] = "sending" <=> tpc[u] = "sending"
  <2>1. CASE c.content = "badform"
    <3>1. result' = [NoResult EXCEPT !.error = "UnsupportedMultipartBoundaryChars"]
          /\ UNCHANGED <<tpc, call>>
      BY <2>1 DEF Call
    <3>2. result' \in [end : {"won", "lost"}, error : Errors, id : Nat, got : Nat]
      BY <3>1 DEF NoResult, Errors
    <3> QED BY <1>3, <3>1, <3>2
  <2>2. CASE c.content # "badform"
    <3>1. tpc' = [tpc EXCEPT ![t] = "waiting"] /\ call' = [call EXCEPT ![t] = c]
          /\ UNCHANGED result
      BY <2>2 DEF Call
    <3>2. c \in RequestType
      BY CallsTyped
    <3> QED BY <1>1, <1>3, <3>1, <3>2
  <2> QED BY <2>1, <2>2
<1>6. TypeOK'
  <2>1. RestTyped'
    BY <1>1, <1>2, <1>4, <1>5, TypeParts DEF RestTyped
  <2>2. FramesTyped' /\ SocketsTyped' /\ LinesTyped'
    BY <1>1, <1>2, TypeParts DEF FramesTyped, SocketsTyped, LinesTyped
  <2> QED BY <2>1, <2>2, TypePartsNext
<1>7. Sockets'
  BY <1>2 DEF Inv, Sockets
<1>8. Holding'
  BY <1>1, <1>2, <1>5 DEF Inv, Holding
<1> QED BY <1>2, <1>6, <1>7, <1>8, OutsideStep

LEMMA StopStep == Inv /\ Stop => Inv'
<1> SUFFICES ASSUME Inv, Stop PROVE Inv'
  OBVIOUS
<1>1. TypeOK /\ ~gone /\ Sockets /\ 0 \in Objects
      /\ UNCHANGED <<settings, threads, holder, depth, frame, error, in_flight, opened,
                     serial, gone>>
  BY ClientAssumption DEF Inv, Stop, Objects, ClientAssumption
<1>2. /\ UNCHANGED <<keep_alive_, follow_location_, todo, tpc, call, result, holder, depth,
                     frame, error, in_flight, opened, serial, gone>>
  BY <1>1 DEF settings, threads
<1>3. LinesTyped /\ SocketsTyped /\ RestTyped /\ FramesTyped
  BY <1>1, TypeParts
<1>4. stops' \in 0..MaxStops /\ asked' \in BOOLEAN
  <2>1. stops \in 0..MaxStops /\ stops < MaxStops /\ stops' = stops + 1 /\ MaxStops \in Nat
    BY <1>1, ClientAssumption DEF TypeOK, Stop, ClientAssumption
  <2>2. asked' \in BOOLEAN
    BY <1>1 DEF TypeOK, Stop
  <2> QED BY <2>1, <2>2
<1>5. CASE in_flight[0] > 0
  <2>1. /\ UNCHANGED <<sock, fds, owes, due, inbox, stray>> /\ noted' = noted \cup {0}
        /\ down' \subseteq down \cup {0}
    BY <1>5 DEF Stop
  <2>2. TypeOK'
    <3>1. RestTyped'
      BY <1>1, <1>2, <1>3, <1>4, <2>1 DEF RestTyped
    <3>2. FramesTyped' /\ SocketsTyped' /\ LinesTyped'
      BY <1>1, <1>2, <1>3, <2>1 DEF FramesTyped, SocketsTyped, LinesTyped
    <3> QED BY <3>1, <3>2, TypePartsNext
  <2>3. Sockets' /\ Holding'
    BY <1>2, <2>1 DEF Inv, Sockets, Holding
  <2> QED BY <1>2, <2>1, <2>2, <2>3, OutsideStep
<1>6. CASE ~(in_flight[0] > 0)
  <2>1. CloseSocket(0) /\ noted' = noted /\ in_flight[0] = 0
    BY <1>1, <1>3, <1>6 DEF Stop, FramesTyped
  <2>2. /\ LinesTyped' /\ SocketsTyped' /\ Sockets' /\ sock'[0] = 0
        /\ \A p \in Objects : p # 0 => sock'[p] = sock[p]
    BY <1>1, <1>2, <1>3, <2>1, CloseSockets
  <2>3. TypeOK'
    <3>1. RestTyped' /\ FramesTyped'
      BY <1>2, <1>3, <1>4, <2>1 DEF RestTyped, FramesTyped
    <3> QED BY <2>2, <3>1, TypePartsNext
  <2>4. Holding'
    BY <1>1, <1>2 DEF Inv, Holding
  <2> QED BY <1>2, <2>1, <2>2, <2>3, <2>4, OutsideStep
<1> QED BY <1>5, <1>6

LEMMA DestroyStep == Inv /\ Destroy => Inv'
<1> SUFFICES ASSUME Inv, Destroy PROVE Inv'
  OBVIOUS
<1>1. TypeOK /\ Sockets /\ Counts /\ 0 \in Objects /\ CloseSocket(0) /\ gone' = TRUE
      /\ (\A t \in Threads : tpc[t] = "idle")
      /\ UNCHANGED <<settings, threads, holder, depth, frame, error, in_flight, noted,
                     opened, serial, asked, stops>>
  BY ClientAssumption DEF Inv, Destroy, Objects, ClientAssumption
<1>2. /\ UNCHANGED <<keep_alive_, follow_location_, todo, tpc, call, result, holder, depth,
                     frame, error, in_flight, noted, opened, serial, asked, stops>>
  BY <1>1 DEF settings, threads
<1>3. LinesTyped /\ SocketsTyped /\ RestTyped /\ FramesTyped
  BY <1>1, TypeParts
<1>4. depth = 0
  <2>1. depth > 0 => FALSE
    <3> SUFFICES ASSUME depth > 0 PROVE FALSE
      OBVIOUS
    <3> QED BY <1>1, NotGone
  <2> QED BY <1>3, <2>1 DEF FramesTyped
<1>5. in_flight[0] = 0
  <2>1. Unused(0)
    BY <1>4 DEF Unused, Active
  <2> QED BY <1>1, <2>1 DEF Counts
<1>6. /\ LinesTyped' /\ SocketsTyped' /\ Sockets' /\ sock'[0] = 0
      /\ \A p \in Objects : p # 0 => sock'[p] = sock[p]
  BY <1>1, <1>2, <1>3, CloseSockets
<1>7. TypeOK'
  <2>1. RestTyped' /\ FramesTyped'
    BY <1>1, <1>2, <1>3 DEF RestTyped, FramesTyped
  <2> QED BY <1>6, <2>1, TypePartsNext
<1>8. Holding'
  BY <1>1, <1>2, <1>6 DEF Inv, Holding
<1> QED BY <1>2, <1>5, <1>6, <1>7, <1>8, OutsideStep

LEMMA ServerStep == Inv /\ Server => Inv'
<1> SUFFICES ASSUME Inv, Server PROVE Inv'
  OBVIOUS
<1>1. TypeOK /\ LinesTyped /\ SocketsTyped /\ RestTyped /\ FramesTyped
  BY TypeParts DEF Inv
<1>2. UNCHANGED others
  BY DEF Server, Answer, SendContent, PeerCloses
<1>3. /\ UNCHANGED <<keep_alive_, follow_location_, todo, tpc, call, result, holder, depth,
                     frame, error, sock, in_flight, noted, fds, opened, serial, asked, stops,
                     gone>>
  BY <1>2 DEF others, settings, threads, sockets, stopping
<1>4. TypeOK'
  <2>1. LinesTyped'
    BY <1>1, ServerTyped
  <2>2. RestTyped' /\ FramesTyped' /\ SocketsTyped'
    BY <1>1, <1>3 DEF RestTyped, FramesTyped, SocketsTyped
  <2> QED BY <2>1, <2>2, TypePartsNext
<1>5. Sockets' /\ Holding'
  BY <1>3 DEF Inv, Sockets, Holding
<1> QED BY <1>3, <1>4, <1>5, OutsideStep

----------------------------------------------------------------------------
(* The theorems *)

LEMMA InitInv == Init => Inv
<1> SUFFICES ASSUME Init PROVE Inv
  OBVIOUS
<1>1. PerThread \in Nat /\ MaxHops \in Nat /\ MaxStops \in Nat /\ Nobody \notin Threads
  BY ClientAssumption DEF ClientAssumption
<1>2. TypeOK
  <2>1. RestTyped
    <3>1. NoResult \in [end : {"won", "lost"}, error : Errors, id : Nat, got : Nat]
          /\ "Success" \in Errors
      BY DEF NoResult, Errors
    <3>2. 0 \in 0..MaxStops /\ PerThread \in 0..PerThread
      BY <1>1
    <3> QED BY <1>1, <3>1, <3>2, NoFrameType DEF Init, RestTyped
  <2>2. FramesTyped
    <3>1. 0 \in 0..MaxHops + 1
      BY <1>1
    <3> QED BY <3>1, NoFrameType DEF Init, FramesTyped
  <2>3. SocketsTyped
    BY DEF Init, SocketsTyped
  <2>4. LinesTyped
    <3>1. <<>> \in Seq(Item) /\ <<>> \in Seq(Debt)
      OBVIOUS
    <3> QED BY <3>1 DEF Init, LinesTyped
  <2> QED BY <2>1, <2>2, <2>3, <2>4, TypeParts
<1>3. depth = 0 /\ Active = {} /\ holder = Nobody
  BY DEF Init, Active
<1>4. Chain
  BY <1>3 DEF Chain
<1>5. Counts
  BY <1>3 DEF Init, Counts, Unused
<1>6. Sockets
  BY DEF Init, Sockets
<1>7. Held
  BY <1>3 DEF Held
<1>8. Holding
  BY <1>1 DEF Init, Holding
<1> QED BY <1>2, <1>4, <1>5, <1>6, <1>7, <1>8 DEF Inv

LEMMA NextInv == Inv /\ [Next]_vars => Inv'
<1> SUFFICES ASSUME Inv, [Next]_vars PROVE Inv'
  OBVIOUS
<1>1. CASE Sending
  <2>1. CASE \E as \in AddressLists : Connect(as) \/ ConnectFails(as)
    BY <2>1, ConnectStep, ConnectFailsStep
  <2>2. CASE Working
    BY <2>2, WorkingStep
  <2>3. CASE Reuse \/ Handle \/ Redirect \/ Leave
    BY <2>3, ReuseStep, HandleStep, RedirectStep, LeaveStep
  <2> QED BY <1>1, <2>1, <2>2, <2>3 DEF Sending, Working
<1>2. CASE \E t \in Threads : Lock(t) \/ \E c \in Calls : Call(t, c)
  BY <1>2, LockStep, CallStep
<1>3. CASE Server \/ Stop \/ Destroy
  BY <1>3, ServerStep, StopStep, DestroyStep
<1>4. CASE UNCHANGED vars
  <2>1. /\ UNCHANGED <<keep_alive_, follow_location_, todo, tpc, call, result, holder, depth,
                       frame, error, sock, in_flight, noted, fds, opened, owes, due, inbox,
                       down, stray, serial, asked, stops, gone>>
    BY <1>4 DEF vars, settings, threads, sockets, lines, stopping
  <2>2. RestTyped' /\ FramesTyped' /\ SocketsTyped' /\ LinesTyped'
    BY <2>1, TypeParts DEF Inv, RestTyped, FramesTyped, SocketsTyped, LinesTyped
  <2>3. TypeOK' /\ Sockets' /\ Holding'
    BY <2>1, <2>2, TypePartsNext DEF Inv, Sockets, Holding
  <2> QED BY <2>1, <2>3, OutsideStep
<1> QED BY <1>1, <1>2, <1>3, <1>4 DEF Next

\* Redirections, failures and stop() leave one record of the calls in progress and
\* one socket at most for every object, whose requests in flight are counted right.
THEOREM ClientInvariant == SafetySpec => []Inv
  BY InitInv, NextInv, PTL DEF SafetySpec

\* The variables keep their types: redirections never nest deeper than
\* redirect_count_ allows (ClientImpl::send_, redirect).
THEOREM ClientTypes == SafetySpec => []TypeOK
<1>1. Inv => TypeOK
  BY DEF Inv
<1> QED BY <1>1, ClientInvariant, PTL

\* stop() on any thread, redirections and peers that close never take the socket from
\* the thread that writes a request or reads its answer (ClientImpl::send_, stop).
THEOREM ClientHoldsDescriptor == SafetySpec => []DescriptorHeld
<1>1. Inv => DescriptorHeld
  <2> SUFFICES ASSUME Inv, depth > 0, current.pc \in Using
      PROVE  current.fd \in fds /\ current.fd = sock[current.obj]
    BY DEF DescriptorHeld, Using
  <2>1. current.obj \in Objects
    BY TopType DEF Inv
  <2> QED BY <2>1 DEF Inv, Held, Sockets
<1> QED BY <1>1, ClientInvariant, PTL

\* Between two calls at most one socket is open, that of the client, and none after
\* ~ClientImpl: those of redirections to other hosts are closed (ClientImpl::send_).
THEOREM ClientLeaksNothing == SafetySpec => []NoLeak
<1>1. Inv => NoLeak
  <2> SUFFICES ASSUME Inv, holder = Nobody PROVE fds \subseteq {sock[0]} /\ (gone => fds = {})
    BY DEF NoLeak
  <2>1. depth = 0 /\ 0 \in Objects
    BY ClientAssumption DEF Inv, Chain, Objects, ClientAssumption
  <2>2. \A o \in Objects : Unused(o) /\ (o = 0 \/ o > 0)
    BY <2>1 DEF Unused, Active, Objects
  <2>3. \A o \in Objects : o # 0 => sock[o] = 0
    BY <2>2 DEF Inv, Counts
  <2> QED BY <2>1, <2>3 DEF Inv, Sockets, Holding
<1> QED BY <1>1, ClientInvariant, PTL

----------------------------------------------------------------------------
(* Results and stop() *)

\* the variable error is that of a failure from when it is noticed until the call ends
NoFault == depth > 0 /\ current.pc # "lost" => error = "Success"

\* a note of stop() stays until the connection is closed, if there is no redirection
\* that takes it away with a record of its own
StopKept == ~follow_location_ =>
               /\ depth <= 1
               /\ depth = 1 => /\ current.pc # "follow"
                               /\ asked => current.pc # "enter" /\ 0 \in noted
               /\ depth = 0 /\ asked => sock[0] = 0

Fate == NoFault /\ ResultTrue /\ StopKept

LEMMA BecomesCurrent ==
  ASSUME TypeOK, depth > 0, depth' = depth, NEW f, Becomes(f)
  PROVE  current' = f
<1>1. top \in Hops /\ frame \in [Hops -> Frame] /\ top' = top
  BY TopType DEF TypeOK, top
<1>2. frame' = [frame EXCEPT ![top] = f]
  BY DEF Becomes
<1> HIDE DEF top
<1> QED BY <1>1, <1>2 DEF current

LEMMA GotoCurrent ==
  ASSUME TypeOK, depth > 0, depth' = depth, NEW s, Goto(s)
  PROVE  /\ current'.pc = s /\ current'.obj = current.obj /\ current'.fd = current.fd
         /\ current'.req = current.req /\ current'.id = current.id
         /\ current'.got = current.got /\ current'.ans = current.ans
<1>1. current' = [current EXCEPT !.pc = s]
  BY BecomesCurrent DEF Goto
<1>2. current \in Frame
  BY TopType
<1> HIDE DEF current
<1> QED BY <1>1, <1>2 DEF Frame

LEMMA ReturnCurrent ==
  ASSUME TypeOK, depth > 0, NEW end \in {"won", "lost"}, NEW e, Return(end, e)
  PROVE  /\ depth' = depth - 1
         /\ depth = 1 => result' = [end |-> end, error |-> e, id |-> current.id,
                                     got |-> current.got]
         /\ depth > 1 => /\ result' = result
                         /\ current'.pc = end /\ current'.obj = frame[depth - 2].obj
                         /\ end = "won" => current'.id = current.id /\ current'.got = current.got
<1>1. /\ depth \in Nat /\ top = depth - 1 /\ top \in Hops /\ current \in Frame
      /\ frame \in [Hops -> Frame] /\ MaxHops \in Nat /\ depth <= MaxHops + 1
  BY ActiveTypes, TopType DEF top
<1>2. CASE depth = 1
  BY <1>2 DEF Return, Deliver
<1>3. CASE depth > 1
  <2> DEFINE f == Resumed(frame[top - 1], end)
  <2>1. top - 1 \in Hops /\ top - 1 = depth - 2 /\ top # top - 1
    BY <1>1, <1>3 DEF Hops
  <2>2. depth' = top /\ frame' = [frame EXCEPT ![top] = NoFrame, ![top - 1] = f] /\ result' = result
    BY <1>3 DEF Return, Resume, threads
  <2>3. frame[top - 1] \in Frame
    BY <1>1, <2>1
  <2>4. /\ f.obj = frame[top - 1].obj /\ f.pc = end
        /\ end = "won" => f.id = current.id /\ f.got = current.got
    <3> DEFINE g == frame[top - 1]
    <3>1. g \in Frame
      BY <2>3
    <3> HIDE DEF g, current
    <3>2. CASE end = "won"
      <4>1. Resumed(g, end) = [g EXCEPT !.pc = "won", !.id = current.id,
                                        !.got = current.got, !.ans = current.ans]
        BY <3>2 DEF Resumed
      <4> QED BY <3>1, <3>2, <4>1 DEF Frame, g
    <3>3. CASE end = "lost"
      <4>1. Resumed(g, end) = [g EXCEPT !.pc = "lost"]
        BY <3>3 DEF Resumed
      <4> QED BY <3>1, <3>3, <4>1 DEF Frame, g
    <3> QED BY <3>2, <3>3
  <2> HIDE DEF f, top
  <2>5. frame'[top - 1] = f
    BY <1>1, <2>1, <2>2
  <2>6. top' = top - 1
    BY <1>1, <2>2 DEF top
  <2>7. current' = f
    BY <2>5, <2>6 DEF current
  <2> QED BY <1>1, <1>3, <2>1, <2>2, <2>4, <2>7
<1> QED BY <1>1, <1>2, <1>3

\* the only record is that of the call, and of the client
LEMMA OutermostRecord ==
  ASSUME Inv, depth = 1
  PROVE  /\ top = 0 /\ current.obj = 0
         /\ in_flight[0] = IF current.pc = "enter" THEN 0 ELSE 1
<1>1. top = 0 /\ 0 \in Active /\ current = frame[0]
  BY DEF top, Active, current
<1>2. current.obj = 0
  <2>1. frame[0].obj <= 0 /\ frame[0].obj \in Objects
    BY <1>1, ActiveTypes DEF Inv, Chain
  <2> QED BY <1>1, <2>1 DEF Objects
<1>3. in_flight[0] = Entered(0)
  <2>1. Innermost(0)
    BY DEF Innermost
  <2>2. in_flight[frame[0].obj] = 0 - frame[0].obj + Entered(0)
    BY <1>1, <2>1 DEF Inv, Counts
  <2> QED BY <1>1, <1>2, <2>2 DEF Entered
<1> QED BY <1>1, <1>2, <1>3 DEF Entered

\* the record at work goes from one stage to the next
LEMMA StageFate ==
  ASSUME Inv, Fate, depth > 0, depth' = depth, UNCHANGED <<result, follow_location_, asked>>,
         current'.pc # "lost" => error' = "Success",
         ~follow_location_ => current'.pc # "follow",
         current'.pc # "enter", noted' = noted \/ current.pc = "enter"
  PROVE  Fate'
<1>1. NoFault' /\ ResultTrue'
  BY DEF Fate, NoFault, ResultTrue
<1>2. depth \in Nat
  BY ActiveTypes DEF Inv
<1> QED BY <1>1, <1>2 DEF Fate, StopKept

LEMMA ReturnFate ==
  ASSUME Inv, Fate, depth > 0, NEW end \in {"won", "lost"}, NEW e, Return(end, e), error' = e,
         end = "won" <=> e = "Success",
         depth = 1 /\ asked /\ ~follow_location_ => sock'[0] = 0,
         UNCHANGED <<follow_location_, asked>>
  PROVE  Fate'
<1>1. depth \in Nat /\ TypeOK
  BY ActiveTypes DEF Inv
<1>2. /\ depth' = depth - 1
      /\ depth = 1 => result'.end = end /\ result'.error = e
      /\ depth > 1 => result' = result /\ current'.pc = end
  BY <1>1, ReturnCurrent
<1>3. NoFault'
  BY <1>1, <1>2 DEF NoFault
<1>4. ResultTrue'
  BY <1>1, <1>2 DEF Fate, ResultTrue
<1>5. StopKept'
  BY <1>1, <1>2 DEF Fate, StopKept
<1> QED BY <1>3, <1>4, <1>5 DEF Fate

LEMMA SendingFate ==
  ASSUME Inv, Fate, Sending
  PROVE  Fate'
<1>1. depth > 0 /\ TypeOK /\ depth \in Nat /\ current \in Frame
  <2>1. depth > 0
    BY DEF Sending, Reuse, Write, ReadInterim, ReadHead, ReadFails, ReadBody, Handle, Redirect,
           RedirectFails, Leave, Leaves, Connect, ConnectFails, WriteFails, BodyFails, At
  <2> QED BY <2>1, ActiveTypes, TopType DEF Inv
<1>2. current.pc # "lost" => error = "Success"
  BY <1>1 DEF Fate, NoFault
<1>3. CASE Reuse \/ \E as \in AddressLists : Connect(as)
  <2>1. /\ current.pc = "enter" /\ depth' = depth
        /\ UNCHANGED <<result, follow_location_, asked>> /\ error' = "Success"
    BY <1>2, <1>3 DEF Reuse, Connect, At, settings, threads, stopping
  <2>2. PICK fd : Becomes([current EXCEPT !.pc = "write", !.fd = fd])
    BY <1>3 DEF Reuse, Connect
  <2>3. current' = [current EXCEPT !.pc = "write", !.fd = fd]
    BY <1>1, <2>1, <2>2, BecomesCurrent
  <2>4. current'.pc = "write"
    <3> HIDE DEF current
    <3> QED BY <1>1, <2>3 DEF Frame
  <2> QED BY <1>1, <2>1, <2>4, StageFate
<1>4. CASE Write
  <2>1. /\ current.pc = "write" /\ depth' = depth /\ noted' = noted
        /\ UNCHANGED <<result, follow_location_, asked>> /\ error' = error
    BY <1>4 DEF Write, At, exchange, settings, threads, stopping, sockets
  <2>2. current' = [current EXCEPT !.pc = "head", !.id = serial + 1]
    BY <1>1, <1>4, <2>1, BecomesCurrent DEF Write
  <2>3. current'.pc = "head"
    <3> HIDE DEF current
    <3> QED BY <1>1, <2>2 DEF Frame
  <2> QED BY <1>1, <1>2, <2>1, <2>3, StageFate
<1>5. CASE ReadHead
  <2>1. /\ current.pc = "head" /\ depth' = depth /\ noted' = noted
        /\ UNCHANGED <<result, follow_location_, asked>> /\ error' = error
    BY <1>5 DEF ReadHead, At, exchange, settings, threads, stopping, sockets
  <2>2. PICK g, a : Becomes([current EXCEPT !.pc = "body", !.got = g, !.ans = a])
    BY <1>5 DEF ReadHead
  <2>3. current' = [current EXCEPT !.pc = "body", !.got = g, !.ans = a]
    BY <1>1, <2>1, <2>2, BecomesCurrent
  <2>4. current'.pc = "body"
    <3> HIDE DEF current
    <3> QED BY <1>1, <2>3 DEF Frame
  <2> QED BY <1>1, <1>2, <2>1, <2>4, StageFate
<1>6. CASE ReadInterim
  <2>1. /\ current.pc = "head" /\ depth' = depth /\ noted' = noted /\ frame' = frame
        /\ UNCHANGED <<result, follow_location_, asked>> /\ error' = error
    BY <1>6 DEF ReadInterim, At, exchange, settings, threads, stopping, sockets
  <2>2. current'.pc = "head"
    BY <2>1 DEF current, top
  <2> QED BY <1>1, <1>2, <2>1, <2>2, StageFate
<1>7. CASE \/ ReadFails \/ RedirectFails
           \/ \E e \in Errors : WriteFails(e) \/ BodyFails(e)
  <2>1. /\ Goto("lost") /\ depth' = depth /\ noted' = noted
        /\ UNCHANGED <<result, follow_location_, asked>>
    BY <1>7 DEF ReadFails, RedirectFails, WriteFails, BodyFails, Fail, exchange, settings,
                threads, stopping, sockets
  <2>2. current'.pc = "lost"
    BY <1>1, <2>1, GotoCurrent
  <2> QED BY <1>1, <2>1, <2>2, StageFate
<1>8. CASE ReadBody \/ Handle
  <2>1. /\ current.pc \in {"body", "handle"} /\ depth' = depth /\ noted' = noted
        /\ UNCHANGED <<result, follow_location_, asked>> /\ error' = error
    BY <1>8 DEF ReadBody, Handle, At, exchange, settings, threads, stopping, sockets
  <2>2. PICK s \in {"handle", "follow", "won"} :
           Goto(s) /\ (~follow_location_ => s # "follow")
    BY <1>8 DEF ReadBody, Handle
  <2>3. current'.pc = s
    BY <1>1, <2>1, <2>2, GotoCurrent
  <2> QED BY <1>1, <1>2, <2>1, <2>2, <2>3, StageFate
<1>9. CASE Redirect
  <2>1. /\ current.pc = "follow" /\ depth' = depth + 1 /\ depth \in Hops
        /\ UNCHANGED <<result, follow_location_, asked, error>>
    <3>1. top < MaxHops /\ MaxHops \in Nat
      BY <1>9, ClientAssumption DEF Redirect, ClientAssumption
    <3> QED BY <1>1, <1>9, <3>1 DEF Redirect, Enters, At, settings, threads, stopping, top, Hops
  <2>2. error' = "Success"
    BY <1>2, <2>1
  <2>3. follow_location_
    BY <1>1, <2>1 DEF Fate, StopKept, Inv, TypeOK
  <2> QED BY <2>1, <2>2, <2>3 DEF Fate, NoFault, ResultTrue, StopKept
<1>10. CASE \E as \in AddressLists : ConnectFails(as)
  <2>1. PICK as \in AddressLists : ConnectFails(as)
    BY <1>10
  <2>2. /\ current.pc = "enter" /\ Return("lost", ConnectError(as)) /\ error' = ConnectError(as)
        /\ ConnectError(as) # "Success"
        /\ UNCHANGED <<follow_location_, asked>>
    BY <2>1 DEF ConnectFails, At, settings, stopping
  <2>3. depth = 1 /\ ~follow_location_ => ~asked
    BY <2>2 DEF Fate, StopKept
  <2> QED BY <1>1, <2>2, <2>3, ReturnFate
<1>11. CASE Leave
  <2>1. ASSUME NEW end \in {"won", "lost"}, NEW e, NEW closes, Leaves(end, e, closes),
               Noted \/ end = "lost" => closes, end = "won" <=> e = "Success"
        PROVE  Fate'
    <3>1. current.pc = end /\ Return(end, e) /\ error' = e /\ UNCHANGED <<follow_location_, asked>>
          /\ (closes => CloseSocket(current.obj))
      BY <2>1 DEF Leaves, At, settings, stopping
    <3>2. ASSUME depth = 1, asked, ~follow_location_ PROVE sock'[0] = 0
      <4>1. current.obj = 0 /\ 0 \in noted
        BY <2>1, <3>1, <3>2, OutermostRecord DEF Fate, StopKept
      <4>2. CloseSocket(0) /\ 0 \in Objects /\ sock \in [Objects -> Nat]
        BY <1>1, <2>1, <3>1, <4>1, TopType DEF Noted, TypeOK
      <4> QED BY <4>2 DEF CloseSocket
    <3> QED BY <1>1, <2>1, <3>1, <3>2, ReturnFate
  <2>2. CASE Leaves("won", error, Noted \/ ~keep_alive_ \/ Local)
    <3>1. error = "Success"
      BY <1>2, <2>2 DEF Leaves, At
    <3> QED BY <2>1, <2>2, <3>1
  <2>3. CASE Leaves("lost", LostError, TRUE)
    <3>1. LostError # "Success"
      BY DEF LostError
    <3> QED BY <2>1, <2>3, <3>1
  <2> QED BY <1>11, <2>2, <2>3 DEF Leave
<1> QED BY <1>3, <1>4, <1>5, <1>6, <1>7, <1>8, <1>9, <1>10, <1>11 DEF Sending

LEMMA LockFate ==
  ASSUME Inv, Fate, NEW t \in Threads, Lock(t)
  PROVE  Fate'
<1>1. /\ depth' = 1 /\ frame' = [frame EXCEPT ![0] = Entering(0, call[t])]
      /\ error' = "Success" /\ result' = NoResult /\ asked' = FALSE
  BY DEF Lock
<1>2. current'.pc = "enter"
  <2>1. 0 \in Hops /\ frame \in [Hops -> Frame]
    BY ClientAssumption DEF Inv, TypeOK, Hops, ClientAssumption
  <2>2. top' = 0
    BY <1>1 DEF top
  <2>3. current' = Entering(0, call[t])
    BY <1>1, <2>1, <2>2 DEF current
  <2> QED BY <2>3 DEF Entering, NoFrame
<1> QED BY <1>1, <1>2 DEF Fate, NoFault, ResultTrue, StopKept, NoResult

LEMMA StopFate ==
  ASSUME Inv, Fate, Stop
  PROVE  Fate'
<1>1. UNCHANGED <<depth, frame, error, result, follow_location_>>
  BY DEF Stop, settings, threads
<1>2. NoFault' /\ ResultTrue' /\ current' = current
  BY <1>1 DEF Fate, NoFault, ResultTrue, current, top
<1>3. ASSUME ~follow_location_, depth = 1, asked'
      PROVE  current.pc # "enter" /\ 0 \in noted'
  <2>1. CASE in_flight[0] > 0
    BY <1>3, <2>1, OutermostRecord DEF Stop
  <2>2. CASE ~(in_flight[0] > 0)
    BY <1>3, <2>2, OutermostRecord DEF Stop, Fate, StopKept
  <2> QED BY <2>1, <2>2
<1>4. ASSUME depth = 0 PROVE sock'[0] = 0
  <2>1. 0 \in Objects /\ sock \in [Objects -> Nat]
    BY ClientAssumption DEF Inv, TypeOK, Objects, ClientAssumption
  <2>2. in_flight[0] = 0
    BY <1>4, <2>1 DEF Inv, Counts, Unused, Active
  <2>3. CloseSocket(0)
    BY <2>2 DEF Stop
  <2> QED BY <2>1, <2>3 DEF CloseSocket
<1> QED BY <1>1, <1>2, <1>3, <1>4 DEF Fate, StopKept

LEMMA NextFate ==
  ASSUME Inv, Fate, [Next]_vars
  PROVE  Fate'
<1>1. CASE \/ Server \/ Destroy \/ UNCHANGED vars
           \/ \E t \in Threads, c \in Calls : Call(t, c)
  <2>1. UNCHANGED <<depth, frame, error, follow_location_, asked, noted>>
        /\ (sock[0] = 0 => sock'[0] = 0)
    <3>1. 0 \in Objects /\ sock \in [Objects -> Nat]
      BY ClientAssumption DEF Inv, TypeOK, Objects, ClientAssumption
    <3> QED BY <1>1, <3>1 DEF Server, Answer, SendContent, PeerCloses, others, Destroy, CloseSocket,
                         Call, vars, settings, sockets, stopping
  <2>2. result' = result \/ result' = [NoResult EXCEPT !.error = "UnsupportedMultipartBoundaryChars"]
    BY <1>1 DEF Server, Answer, SendContent, PeerCloses, others, Destroy, Call, vars, threads
  <2>3. ResultTrue'
    BY <2>2 DEF Fate, ResultTrue, NoResult
  <2>4. current' = current
    BY <2>1 DEF current, top
  <2> QED BY <2>1, <2>3, <2>4 DEF Fate, NoFault, StopKept
<1> QED BY <1>1, SendingFate, LockFate, StopFate DEF Next

LEMMA InitFate ==
  ASSUME Init PROVE Fate
BY DEF Init, Fate, NoFault, ResultTrue, StopKept, NoResult

LEMMA FateInvariant == SafetySpec => []Fate
  BY InitFate, NextFate, ClientInvariant, PTL DEF SafetySpec

\* A Result has a response if and only if its error is Success, through every failure
\* and redirection (ClientImpl::send_, handle_request, redirect).
THEOREM ClientResultTrue == SafetySpec => []ResultTrue
<1>1. Fate => ResultTrue
  BY DEF Fate
<1> QED BY <1>1, FateInvariant, PTL

\* stop() while a request is in flight that follows no redirection: its note stays
\* until the call ends, and the connection ends with it (ClientImpl::stop, send_).
THEOREM ClientObeysStop == SafetySpec => []StopObeyed
<1>1. Inv /\ Fate => StopObeyed
  BY DEF Inv, Chain, Fate, StopKept, StopObeyed
<1> QED BY <1>1, FateInvariant, ClientInvariant, PTL

----------------------------------------------------------------------------
(* Whose answers are on a connection.  An operator is given the object o, the requests
   owed by its peer, what has arrived, and the sets due and stray.                      *)

Nameless(s) == \A i \in 1..Len(s) : s[i].id = 0

NeedsTail(method, a) == HasContent(method, a.status) /\ a.status # 304

\* all that comes is of nobody
Astray(o, owed, in, S) == o \in S /\ Nameless(owed) /\ Nameless(in)

\* nothing is left of an earlier exchange
Clean(o, owed, in, D, S) == \/ Astray(o, owed, in, S)
                            \/ o \notin S /\ owed = <<>> /\ in = <<>> /\ o \notin D

\* after n items comes the content of the answer a, and that is all
Content(o, in, D, n, method, a) ==
  IF NeedsTail(method, a)
  THEN \/ o \in D /\ Len(in) = n
       \/ o \notin D /\ Len(in) = n + 1 /\ in[n + 1].is = "tail"
  ELSE o \notin D /\ Len(in) = n

\* the peer owes the answer to the request of f first
Awaited(o, owed, in, D, S, f) ==
  /\ in = <<>> /\ o \notin D
  /\ Len(owed) > 0 /\ owed[1].id = f.id
  /\ \A i \in 2..Len(owed) : owed[i].id = 0
  /\ o \notin S => Len(owed) = 1 /\ owed[1].method = f.req.method

\* its head is the n-th item, after answers 100
Arrives(o, owed, in, D, S, f, n) ==
  /\ \A i \in 1..(n - 1) : in[i].is = "interim"
  /\ in[n].is = "head" /\ in[n].id = f.id
  /\ \A i \in (n + 1)..Len(in) : in[i].id = 0
  /\ Nameless(owed)
  /\ o \notin S => owed = <<>> /\ Content(o, in, D, n, f.req.method, in[n].ans)

AtHead(o, owed, in, D, S, f) == \/ Astray(o, owed, in, S)
                                \/ Awaited(o, owed, in, D, S, f)
                                \/ \E n \in 1..Len(in) : Arrives(o, owed, in, D, S, f, n)

AtBody(o, owed, in, D, S, method, a) ==
  \/ Astray(o, owed, in, S)
  \/ o \notin S /\ owed = <<>> /\ Content(o, in, D, 0, method, a)

LEMMA TailKeeps ==
  ASSUME NEW X, NEW s \in Seq(X), s # <<>>
  PROVE  /\ Tail(s) \in Seq(X) /\ Head(s) = s[1] /\ Len(s) \in Nat \ {0}
         /\ Len(Tail(s)) = Len(s) - 1
         /\ \A i \in 1..(Len(s) - 1) : Tail(s)[i] = s[i + 1]
         /\ Nameless(s) => Nameless(Tail(s)) /\ Head(s).id = 0
<1>1. /\ Len(s) \in Nat \ {0} /\ Tail(s) \in Seq(X) /\ Len(Tail(s)) = Len(s) - 1
      /\ \A i \in 1..(Len(s) - 1) : Tail(s)[i] = s[i + 1]
  BY EmptySeq, LenProperties, HeadTailProperties
<1>2. Head(s) = s[1]
  OBVIOUS
<1>3. ASSUME Nameless(s) PROVE Nameless(Tail(s)) /\ Head(s).id = 0
  <2>1. ASSUME NEW i \in 1..Len(Tail(s)) PROVE Tail(s)[i].id = 0
    <3>1. i \in 1..(Len(s) - 1) /\ i + 1 \in 1..Len(s)
      BY <1>1
    <3> QED BY <1>1, <1>3, <3>1 DEF Nameless
  <2>2. 1 \in 1..Len(s)
    BY <1>1
  <2> QED BY <1>2, <1>3, <2>1, <2>2 DEF Nameless
<1> QED BY <1>1, <1>2, <1>3

LEMMA NamelessConcat ==
  ASSUME NEW X, NEW s \in Seq(X), NEW t \in Seq(X), Nameless(s), Nameless(t)
  PROVE  Nameless(s \o t)
<1>1. /\ Len(s \o t) = Len(s) + Len(t) /\ Len(s) \in Nat /\ Len(t) \in Nat
      /\ \A i \in 1..(Len(s) + Len(t)) : (s \o t)[i] = IF i <= Len(s) THEN s[i] ELSE t[i - Len(s)]
  BY ConcatProperties, LenProperties
<1>2. ASSUME NEW i \in 1..Len(s \o t) PROVE (s \o t)[i].id = 0
  <2>1. i \in 1..(Len(s) + Len(t)) /\ (i <= Len(s) => i \in 1..Len(s))
        /\ (~(i <= Len(s)) => i - Len(s) \in 1..Len(t))
    BY <1>1
  <2> QED BY <1>1, <2>1 DEF Nameless
<1> QED BY <1>2 DEF Nameless

\* a request is written to a connection on which nothing is left
LEMMA CleanOwed ==
  ASSUME NEW o, NEW owed \in Seq(Debt), NEW in, NEW D, NEW S, NEW S2, NEW f, NEW k \in Nat,
         Clean(o, owed, in, D, S), f.id = k, f.req.method \in Methods,
         NEW more \in Seq(Debt),
         more = <<[id |-> IF o \in S THEN 0 ELSE k, method |-> f.req.method]>>
                \o IF f.req.content = "bare" THEN <<[id |-> 0, method |-> "GET"]>> ELSE <<>>,
         f.req.content = "bare" => o \in S2, o \in S => o \in S2
  PROVE  AtHead(o, owed \o more, in, D, S2, f)
<1> DEFINE x == [id |-> IF o \in S THEN 0 ELSE k, method |-> f.req.method]
           y == [id |-> 0, method |-> "GET"]
<1>1. /\ more[1] = x /\ Len(more) = (IF f.req.content = "bare" THEN 2 ELSE 1)
      /\ f.req.content = "bare" => more[2] = y
  <2>1. x \in Debt /\ y \in Debt
    BY DEF Debt, Methods
  <2> HIDE DEF x, y
  <2>2. more = IF f.req.content = "bare" THEN <<x>> \o <<y>> ELSE <<x>> \o <<>>
    BY DEF x, y
  <2>3. <<x>> \in Seq(Debt) /\ Len(<<x>>) = 1 /\ <<x>>[1] = x
    BY <2>1
  <2>4. <<y>> \in Seq(Debt) /\ Len(<<y>>) = 1 /\ <<y>>[1] = y
    BY <2>1
  <2>5. <<x>> \o <<>> = <<x>>
    BY ONLY <2>3, ConcatEmptySeq
  <2>6. /\ Len(<<x>> \o <<y>>) = Len(<<x>>) + Len(<<y>>)
        /\ \A i \in 1..(Len(<<x>>) + Len(<<y>>)) :
             (<<x>> \o <<y>>)[i] = IF i <= Len(<<x>>) THEN <<x>>[i] ELSE <<y>>[i - Len(<<x>>)]
    BY ONLY <2>3, <2>4, ConcatProperties
  <2>7. Len(<<x>> \o <<y>>) = 2 /\ (<<x>> \o <<y>>)[1] = x /\ (<<x>> \o <<y>>)[2] = y
    <3>1. 1 \in 1..(1 + 1) /\ 2 \in 1..(1 + 1) /\ 1 <= 1 /\ ~(2 <= 1) /\ 2 - 1 = 1
      OBVIOUS
    <3> QED BY ONLY <2>3, <2>4, <2>6, <3>1
  <2> QED BY ONLY <2>2, <2>3, <2>5, <2>7
<1>2. x.method = f.req.method /\ y.id = 0 /\ (o \in S => x.id = 0) /\ (o \notin S => x.id = k)
  OBVIOUS
<1> HIDE DEF x, y
<1>3. CASE Astray(o, owed, in, S)
  <2>1. Nameless(more)
    BY <1>1, <1>2, <1>3 DEF Nameless, Astray
  <2>2. Nameless(owed \o more)
    BY <1>3, <2>1, NamelessConcat DEF Astray
  <2> QED BY <1>3, <2>2 DEF AtHead, Astray
<1>4. CASE o \notin S /\ owed = <<>> /\ in = <<>> /\ o \notin D
  <2>1. owed \o more = more
    BY <1>4
  <2>2. Awaited(o, more, in, D, S2, f)
    BY <1>1, <1>2, <1>4 DEF Awaited
  <2> QED BY <2>1, <2>2 DEF AtHead
<1> QED BY <1>3, <1>4 DEF Clean

\* what an answer adds to what has arrived
Added(in, m, a) == (in \o [j \in 1..a.interims |-> [is |-> "interim", id |-> m.id, ans |-> a]])
                   \o <<[is |-> "head", id |-> m.id, ans |-> a]>>

LEMMA AddedItems ==
  ASSUME NEW in \in Seq(Item), NEW m \in Debt, NEW a \in AnswerType
  PROVE  /\ Added(in, m, a) \in Seq(Item) /\ Len(in) \in Nat /\ a.interims \in Nat
         /\ Len(Added(in, m, a)) = Len(in) + a.interims + 1
         /\ \A i \in 1..Len(in) : Added(in, m, a)[i] = in[i]
         /\ \A i \in (Len(in) + 1)..(Len(in) + a.interims) :
               Added(in, m, a)[i].is = "interim" /\ Added(in, m, a)[i].id = m.id
         /\ Added(in, m, a)[Len(in) + a.interims + 1].is = "head"
         /\ Added(in, m, a)[Len(in) + a.interims + 1].id = m.id
         /\ Added(in, m, a)[Len(in) + a.interims + 1].ans = a
<1> DEFINE x == [is |-> "interim", id |-> m.id, ans |-> a]
           h == [is |-> "head", id |-> m.id, ans |-> a]
           e == [j \in 1..a.interims |-> x]
           l == Len(in)
           k == a.interims
<1>1. x \in Item /\ h \in Item /\ k \in Nat /\ l \in Nat
  BY LenProperties DEF Item, Debt, AnswerType
<1>2. x.is = "interim" /\ x.id = m.id /\ h.is = "head" /\ h.id = m.id /\ h.ans = a
  OBVIOUS
<1>3. Added(in, m, a) = (in \o e) \o <<h>>
  BY DEF Added
<1> HIDE DEF x, h, k, l
<1>4. e \in Seq(Item) /\ Len(e) = k /\ \A j \in 1..k : e[j] = x
  <2>1. e \in [1..k -> Item]
    BY <1>1 DEF k
  <2>2. e \in Seq(Item)
    BY <1>1, <2>1, SeqDef
  <2>3. \A j \in 1..k : e[j] = x
    BY DEF k
  <2> HIDE DEF e
  <2>4. DOMAIN e = 1..k /\ DOMAIN e = 1..Len(e) /\ Len(e) \in Nat
    BY <2>1, <2>2, LenProperties
  <2>5. Len(e) = k
    BY ONLY <1>1, <2>4
  <2> QED BY <2>2, <2>3, <2>5
<1> HIDE DEF e
<1>5. /\ in \o e \in Seq(Item) /\ Len(in \o e) = l + k
      /\ \A i \in 1..(l + k) : (in \o e)[i] = IF i <= l THEN in[i] ELSE e[i - l]
  BY <1>4, ConcatProperties DEF l
<1>6. <<h>> \in Seq(Item) /\ Len(<<h>>) = 1 /\ <<h>>[1] = h
  BY <1>1
<1>7. /\ (in \o e) \o <<h>> \in Seq(Item) /\ Len((in \o e) \o <<h>>) = l + k + 1
      /\ \A i \in 1..(l + k + 1) :
            ((in \o e) \o <<h>>)[i] = IF i <= l + k THEN (in \o e)[i] ELSE <<h>>[i - (l + k)]
  BY <1>5, <1>6, ConcatProperties
<1>8. ASSUME NEW i \in 1..l PROVE ((in \o e) \o <<h>>)[i] = in[i]
  <2>1. i \in 1..(l + k + 1) /\ i \in 1..(l + k) /\ i <= l + k /\ i <= l
    BY <1>1
  <2> QED BY <1>5, <1>7, <2>1
<1>9. ASSUME NEW i \in (l + 1)..(l + k) PROVE ((in \o e) \o <<h>>)[i] = x
  <2>1. i \in 1..(l + k + 1) /\ i \in 1..(l + k) /\ i <= l + k /\ ~(i <= l) /\ i - l \in 1..k
    BY <1>1
  <2> QED BY <1>4, <1>5, <1>7, <2>1
<1>10. ((in \o e) \o <<h>>)[l + k + 1] = h
  <2>1. l + k + 1 \in 1..(l + k + 1) /\ ~(l + k + 1 <= l + k) /\ (l + k + 1) - (l + k) = 1
    BY <1>1
  <2> QED BY <1>6, <1>7, <2>1
<1> QED BY <1>1, <1>2, <1>3, <1>7, <1>8, <1>9, <1>10 DEF l, k

\* the peer answers the first request it owes
LEMMA PeerAnswers ==
  ASSUME NEW o, NEW owed \in Seq(Debt), NEW in \in Seq(Item), NEW D, NEW D2, NEW S, NEW f,
         NEW a \in AnswerType, owed # <<>>, o \notin D,
         NeedsTail(Head(owed).method, a) => o \in D2,
         ~NeedsTail(Head(owed).method, a) => o \notin D2
  PROVE  /\ \A method, b : AtBody(o, owed, in, D, S, method, b)
                    => AtBody(o, Tail(owed), Added(in, Head(owed), a), D2, S, method, b)
         /\ Clean(o, owed, in, D, S) => Clean(o, Tail(owed), Added(in, Head(owed), a), D2, S)
         /\ AtHead(o, owed, in, D, S, f)
              => AtHead(o, Tail(owed), Added(in, Head(owed), a), D2, S, f)
<1> DEFINE m == Head(owed)
           new == Added(in, m, a)
           l == Len(in)
           k == a.interims
<1>1. /\ Tail(owed) \in Seq(Debt) /\ m = owed[1] /\ Len(owed) \in Nat \ {0}
      /\ Len(Tail(owed)) = Len(owed) - 1
      /\ \A i \in 1..(Len(owed) - 1) : Tail(owed)[i] = owed[i + 1]
      /\ Nameless(owed) => Nameless(Tail(owed)) /\ m.id = 0
  BY TailKeeps
<1>2. m \in Debt
  <2>1. 1 \in 1..Len(owed)
    BY <1>1
  <2> QED BY <1>1, <2>1, ElementOfSeq
<1>3. /\ new \in Seq(Item) /\ l \in Nat /\ k \in Nat /\ Len(new) = l + k + 1
      /\ \A i \in 1..l : new[i] = in[i]
      /\ \A i \in (l + 1)..(l + k) : new[i].is = "interim" /\ new[i].id = m.id
      /\ new[l + k + 1].is = "head" /\ new[l + k + 1].id = m.id /\ new[l + k + 1].ans = a
  <2> HIDE DEF m
  <2>1. in \in Seq(Item) /\ a \in AnswerType
    OBVIOUS
  <2> QED BY ONLY <1>2, <2>1, AddedItems
<1> HIDE DEF m, new, k
<1>4. ASSUME NEW i \in (l + 1)..(l + k + 1) PROVE new[i].id = m.id
  <2>1. i \in (l + 1)..(l + k) \/ i = l + k + 1
    BY <1>3
  <2> QED BY <1>3, <2>1
<1>5. ASSUME Astray(o, owed, in, S) PROVE Astray(o, Tail(owed), new, S)
  <2>1. ASSUME NEW i \in 1..Len(new) PROVE new[i].id = 0
    <3>1. i \in 1..l \/ i \in (l + 1)..(l + k + 1)
      BY <1>3
    <3> QED BY <1>1, <1>3, <1>4, <1>5, <3>1 DEF Astray, Nameless
  <2> QED BY <1>1, <1>5, <2>1 DEF Astray, Nameless
<1>6. owed # <<>>
  OBVIOUS
<1>7. ASSUME Awaited(o, owed, in, D, S, f) PROVE Arrives(o, Tail(owed), new, D2, S, f, k + 1)
  <2>1. l = 0
    BY <1>7, EmptySeq DEF Awaited
  <2>2. \A i \in 1..((k + 1) - 1) : new[i].is = "interim"
    <3>1. \A i \in 1..((k + 1) - 1) : i \in (l + 1)..(l + k)
      BY <1>3, <2>1
    <3> QED BY <1>3, <3>1
  <2>3. new[k + 1].is = "head" /\ new[k + 1].id = f.id /\ new[k + 1].ans = a
    <3>1. l + k + 1 = k + 1
      BY <1>3, <2>1
    <3>2. new[k + 1].is = "head" /\ new[k + 1].id = m.id /\ new[k + 1].ans = a
      BY <1>3, <3>1
    <3>3. m.id = f.id
      BY <1>1, <1>7 DEF Awaited
    <3> QED BY <3>2, <3>3
  <2>4. ((k + 1) + 1)..Len(new) = {}
    BY <1>3, <2>1
  <2>5. Nameless(Tail(owed))
    <3>1. ASSUME NEW i \in 1..Len(Tail(owed)) PROVE Tail(owed)[i].id = 0
      <4>1. i \in 1..(Len(owed) - 1) /\ i + 1 \in 2..Len(owed)
        BY <1>1
      <4> QED BY <1>1, <1>7, <4>1 DEF Awaited
    <3> QED BY <3>1 DEF Nameless
  <2>6. ASSUME o \notin S
        PROVE  Tail(owed) = <<>> /\ Content(o, new, D2, k + 1, f.req.method, new[k + 1].ans)
    <3>1. Len(owed) = 1 /\ m.method = f.req.method
      BY <1>1, <1>7, <2>6 DEF Awaited
    <3>2. Tail(owed) = <<>>
      <4>1. Len(Tail(owed)) = 0
        BY <1>1, <3>1
      <4> QED BY <1>1, <4>1, EmptySeq
    <3>3. new[k + 1].ans = a
      BY <2>3
    <3>4. Len(new) = k + 1
      BY <1>3, <2>1
    <3> QED BY <3>1, <3>2, <3>3, <3>4 DEF Content, m
  <2>7. \A i \in ((k + 1) + 1)..Len(new) : new[i].id = 0
    BY ONLY <2>4
  <2> QED BY ONLY <2>2, <2>3, <2>5, <2>6, <2>7 DEF Arrives
<1>8. ASSUME NEW n \in 1..l, Arrives(o, owed, in, D, S, f, n)
      PROVE  Arrives(o, Tail(owed), new, D2, S, f, n)
  <2>1. o \in S /\ Nameless(owed)
    BY <1>6, <1>8 DEF Arrives
  <2>2. new[n] = in[n] /\ \A i \in 1..(n - 1) : new[i] = in[i]
    <3>1. \A i \in 1..(n - 1) : i \in 1..l
      BY <1>3
    <3> QED BY <1>3, <3>1
  <2>3. ASSUME NEW i \in (n + 1)..Len(new) PROVE new[i].id = 0
    <3>1. (i \in (n + 1)..l /\ i \in 1..l) \/ i \in (l + 1)..(l + k + 1)
      BY <1>3
    <3>2. CASE i \in (n + 1)..l /\ i \in 1..l
      BY <1>3, <1>8, <3>2 DEF Arrives
    <3>3. CASE i \in (l + 1)..(l + k + 1)
      BY <1>1, <1>4, <2>1, <3>3
    <3> QED BY <3>1, <3>2, <3>3
  <2> QED BY <1>1, <1>8, <2>1, <2>2, <2>3 DEF Arrives
<1>9. AtHead(o, owed, in, D, S, f) => AtHead(o, Tail(owed), new, D2, S, f)
  <2>1. k + 1 \in 1..Len(new) /\ \A n \in 1..l : n \in 1..Len(new)
    BY <1>3
  <2> QED BY <1>5, <1>7, <1>8, <2>1 DEF AtHead
<1>10. Clean(o, owed, in, D, S) => Clean(o, Tail(owed), new, D2, S)
  BY <1>5, <1>6 DEF Clean
<1>11. ASSUME NEW method, NEW b, AtBody(o, owed, in, D, S, method, b)
       PROVE  AtBody(o, Tail(owed), new, D2, S, method, b)
  BY <1>5, <1>6, <1>11 DEF AtBody
<1> QED BY <1>9, <1>10, <1>11 DEF new, m

\* the content that was due arrives
LEMMA PeerSendsContent ==
  ASSUME NEW o, NEW owed, NEW in \in Seq(Item), NEW D, NEW S, NEW f, o \in D,
         NEW x \in Item, x.is = "tail", x.id = 0
  PROVE  /\ \A method, b : AtBody(o, owed, in, D, S, method, b)
                    => AtBody(o, owed, Append(in, x), D \ {o}, S, method, b)
         /\ Clean(o, owed, in, D, S) => Clean(o, owed, Append(in, x), D \ {o}, S)
         /\ AtHead(o, owed, in, D, S, f) => AtHead(o, owed, Append(in, x), D \ {o}, S, f)
<1> DEFINE new == Append(in, x)
           l == Len(in)
<1>1. /\ new \in Seq(Item) /\ l \in Nat /\ Len(new) = l + 1 /\ new[l + 1] = x
      /\ \A i \in 1..l : new[i] = in[i]
  BY AppendProperties, LenProperties
<1> HIDE DEF new
<1>2. \A i \in 1..Len(new) : i \in 1..l \/ i = l + 1
  BY <1>1
<1>3. ASSUME Astray(o, owed, in, S) PROVE Astray(o, owed, new, S)
  BY <1>1, <1>2, <1>3 DEF Astray, Nameless
<1>4. ASSUME NEW n \in Nat, n <= l, NEW method, NEW b, Content(o, in, D, n, method, b)
      PROVE  Content(o, new, D \ {o}, n, method, b)
  <2>1. NeedsTail(method, b) /\ l = n
    BY <1>4 DEF Content
  <2>2. Len(new) = n + 1 /\ new[n + 1] = x
    BY <1>1, <2>1
  <2> QED BY <2>1, <2>2 DEF Content
<1>5. ASSUME NEW n \in 1..l, Arrives(o, owed, in, D, S, f, n)
      PROVE  Arrives(o, owed, new, D \ {o}, S, f, n)
  <2>1. new[n] = in[n] /\ n \in Nat /\ n <= l /\ \A i \in 1..(n - 1) : new[i] = in[i]
    <3>1. \A i \in 1..(n - 1) : i \in 1..l
      BY <1>1
    <3> QED BY <1>1, <3>1
  <2>2. ASSUME NEW i \in (n + 1)..Len(new) PROVE new[i].id = 0
    <3>1. (i \in (n + 1)..l /\ i \in 1..l) \/ i = l + 1
      BY <1>1
    <3> QED BY <1>1, <1>5, <3>1 DEF Arrives
  <2> QED BY <1>4, <1>5, <2>1, <2>2 DEF Arrives
<1>6. ASSUME NEW method, NEW b, AtBody(o, owed, in, D, S, method, b)
      PROVE  AtBody(o, owed, new, D \ {o}, S, method, b)
  <2>1. 0 \in Nat /\ 0 <= l
    BY <1>1
  <2> QED BY <1>3, <1>4, <1>6, <2>1 DEF AtBody
<1>7. AtHead(o, owed, in, D, S, f) => AtHead(o, owed, new, D \ {o}, S, f)
  <2>1. \A n \in 1..l : n \in 1..Len(new)
    BY <1>1
  <2> QED BY <1>3, <1>5, <2>1 DEF AtHead, Awaited
<1> QED BY <1>3, <1>6, <1>7 DEF Clean, new

\* an answer 100 is skipped
LEMMA InterimSkipped ==
  ASSUME NEW o, NEW owed, NEW in \in Seq(Item), NEW D, NEW S, NEW f,
         in # <<>>, Head(in).is = "interim", AtHead(o, owed, in, D, S, f)
  PROVE  AtHead(o, owed, Tail(in), D, S, f)
<1> DEFINE l == Len(in)
<1>1. /\ Tail(in) \in Seq(Item) /\ l \in Nat \ {0} /\ Len(Tail(in)) = l - 1 /\ Head(in) = in[1]
      /\ \A i \in 1..(l - 1) : Tail(in)[i] = in[i + 1]
      /\ Nameless(in) => Nameless(Tail(in))
  BY TailKeeps
<1> HIDE DEF l
<1>2. CASE Astray(o, owed, in, S)
  BY <1>1, <1>2 DEF AtHead, Astray
<1>3. ASSUME NEW n \in 1..l, Arrives(o, owed, in, D, S, f, n)
      PROVE  n - 1 \in 1..Len(Tail(in)) /\ Arrives(o, owed, Tail(in), D, S, f, n - 1)
  <2>1. n # 1
    BY <1>1, <1>3 DEF Arrives
  <2>2. /\ n - 1 \in 1..Len(Tail(in)) /\ n - 1 \in 1..(l - 1) /\ (n - 1) + 1 = n
        /\ \A i \in 1..((n - 1) - 1) : i \in 1..(l - 1) /\ i + 1 \in 1..(n - 1)
        /\ \A i \in n..Len(Tail(in)) : i \in 1..(l - 1) /\ i + 1 \in (n + 1)..l
    BY <1>1, <2>1
  <2>3. Tail(in)[n - 1] = in[n]
    BY <1>1, <2>2
  <2>4. \A i \in 1..((n - 1) - 1) : Tail(in)[i].is = "interim"
    BY <1>1, <1>3, <2>2 DEF Arrives, l
  <2>5. \A i \in ((n - 1) + 1)..Len(Tail(in)) : Tail(in)[i].id = 0
    BY <1>1, <1>3, <2>2 DEF Arrives, l
  <2>6. ASSUME NEW method, NEW b, Content(o, in, D, n, method, b)
        PROVE  Content(o, Tail(in), D, n - 1, method, b)
    <3>1. /\ (l = n <=> Len(Tail(in)) = n - 1) /\ (l = n + 1 <=> Len(Tail(in)) = (n - 1) + 1)
          /\ l = n + 1 => n \in 1..(l - 1)
      BY <1>1
    <3>2. l = n + 1 => Tail(in)[(n - 1) + 1] = in[n + 1]
      BY <1>1, <2>2, <3>1
    <3> QED BY <2>6, <3>1, <3>2 DEF Content, l
  <2> QED BY <1>3, <2>2, <2>3, <2>4, <2>5, <2>6 DEF Arrives, l
<1> QED BY <1>2, <1>3 DEF AtHead, Awaited, l

\* the head that is read is that of the answer to the request, or of nobody's
LEMMA HeadOwn ==
  ASSUME NEW o, NEW owed, NEW in \in Seq(Item), NEW D, NEW S, NEW f,
         in # <<>>, Head(in).is = "head", AtHead(o, owed, in, D, S, f)
  PROVE  /\ Head(in).id \in {0, f.id}
         /\ AtBody(o, owed, Tail(in), D, S, f.req.method, Head(in).ans)
<1> DEFINE l == Len(in)
<1>1. /\ Tail(in) \in Seq(Item) /\ l \in Nat \ {0} /\ Len(Tail(in)) = l - 1 /\ Head(in) = in[1]
      /\ \A i \in 1..(l - 1) : Tail(in)[i] = in[i + 1]
      /\ Nameless(in) => Nameless(Tail(in)) /\ Head(in).id = 0
  BY TailKeeps
<1> HIDE DEF l
<1>2. CASE Astray(o, owed, in, S)
  BY <1>1, <1>2 DEF AtBody, Astray
<1>3. ASSUME NEW n \in 1..l, Arrives(o, owed, in, D, S, f, n)
      PROVE  /\ Head(in).id = f.id
             /\ AtBody(o, owed, Tail(in), D, S, f.req.method, Head(in).ans)
  <2>1. n = 1
    <3> SUFFICES ASSUME n # 1 PROVE FALSE
      OBVIOUS
    <3>1. 1 \in 1..(n - 1)
      OBVIOUS
    <3> QED BY <1>1, <1>3, <3>1 DEF Arrives
  <2>2. Nameless(Tail(in))
    <3>1. \A i \in 1..Len(Tail(in)) : i \in 1..(l - 1) /\ i + 1 \in (1 + 1)..l
      BY <1>1
    <3> QED BY <1>1, <1>3, <2>1, <3>1 DEF Arrives, Nameless, l
  <2>3. ASSUME NEW method, NEW b, Content(o, in, D, 1, method, b)
        PROVE  Content(o, Tail(in), D, 0, method, b)
    <3>1. /\ (l = 1 <=> Len(Tail(in)) = 0) /\ (l = 1 + 1 <=> Len(Tail(in)) = 0 + 1)
          /\ l = 1 + 1 => 1 \in 1..(l - 1)
      BY <1>1
    <3>2. l = 1 + 1 => Tail(in)[0 + 1] = in[1 + 1]
      BY <1>1, <3>1
    <3> QED BY <2>3, <3>1, <3>2 DEF Content, l
  <2> QED BY <1>1, <1>3, <2>1, <2>2, <2>3 DEF Arrives, AtBody, Astray
<1> QED BY <1>2, <1>3, <1>1 DEF AtHead, Awaited, Astray, l

\* after the content of the answer nothing is left of it
LEMMA BodyTaken ==
  ASSUME NEW o, NEW owed, NEW in \in Seq(Item), NEW D, NEW S, NEW method, NEW a,
         AtBody(o, owed, in, D, S, method, a)
  PROVE  /\ NeedsTail(method, a) /\ in # <<>> => Clean(o, owed, Tail(in), D, S)
         /\ ~NeedsTail(method, a) => Clean(o, owed, in, D, S)
<1>1. Len(in) \in Nat
  BY LenProperties
<1>2. ASSUME NeedsTail(method, a), in # <<>> PROVE Clean(o, owed, Tail(in), D, S)
  <2>1. /\ Tail(in) \in Seq(Item) /\ Len(Tail(in)) = Len(in) - 1 /\ Len(in) # 0
        /\ Nameless(in) => Nameless(Tail(in))
    BY <1>2, TailKeeps
  <2>2. ASSUME Len(in) = 1 PROVE Tail(in) = <<>>
    <3>1. Len(Tail(in)) = 0
      BY <2>1, <2>2
    <3> QED BY <2>1, <3>1, EmptySeq
  <2> QED BY <1>2, <2>1, <2>2 DEF AtBody, Astray, Clean, Content
<1>3. ASSUME ~NeedsTail(method, a) PROVE Clean(o, owed, in, D, S)
  <2>1. Len(in) = 0 => in = <<>>
    BY EmptySeq
  <2> QED BY <1>3, <2>1 DEF AtBody, Clean, Content
<1> QED BY <1>2, <1>3

\* only the request that is at work has an exchange open, or failed in it; then what its
\* peer owes or has sent is its answer, and on any other connection nothing is left
Open == depth > 0 /\ current.pc \in {"head", "body", "lost"}

Cleaned(o) == Clean(o, owes[o], inbox[o], due, stray)

Own == /\ \A o \in Objects : Cleaned(o) \/ (Open /\ o = current.obj)
       /\ depth > 0 /\ current.pc = "head" =>
            AtHead(current.obj, owes[current.obj], inbox[current.obj], due, stray, current)
       /\ depth > 0 /\ current.pc = "body" =>
            AtBody(current.obj, owes[current.obj], inbox[current.obj], due, stray,
                   current.req.method, current.ans)
       /\ depth > 0 /\ current.pc \in {"body", "handle", "follow", "won"} =>
            current.got \in {0, current.id}
       /\ AnswerIsOwn

LEMMA BlankClean ==
  ASSUME TypeOK, NEW o \in Objects, Blank(o)
  PROVE  Cleaned(o)' /\ \A p \in Objects : p # o /\ Cleaned(p) => Cleaned(p)'
<1>1. owes \in [Objects -> Seq(Debt)] /\ inbox \in [Objects -> Seq(Item)]
  BY DEF TypeOK
<1>2. /\ owes'[o] = <<>> /\ inbox'[o] = <<>> /\ o \notin due' /\ o \notin stray'
      /\ \A p \in Objects : p # o => /\ owes'[p] = owes[p] /\ inbox'[p] = inbox[p]
                                     /\ (p \in due' <=> p \in due) /\ (p \in stray' <=> p \in stray)
  BY <1>1 DEF Blank
<1>3. Cleaned(o)'
  BY <1>2 DEF Cleaned, Clean
<1>4. ASSUME NEW p \in Objects, p # o, Cleaned(p) PROVE Cleaned(p)'
  BY <1>2, <1>4 DEF Cleaned, Clean, Astray
<1> QED BY <1>3, <1>4

\* the record at work has no exchange open any more, or not yet
LEMMA StageOwn ==
  ASSUME Own, depth' > 0, result' = result, current'.pc \notin {"head", "body"},
         \A o \in Objects : Cleaned(o)' \/ (current'.pc = "lost" /\ o = current'.obj),
         current'.pc \in {"handle", "follow", "won"} => current'.got \in {0, current'.id}
  PROVE  Own'
BY DEF Own, Open, AnswerIsOwn

LEMMA WriteOwn ==
  ASSUME Inv, Own, Write
  PROVE  Own'
<1> DEFINE o == current.obj
           r == current.req
<1>1. /\ depth > 0 /\ current.pc = "write" /\ Alive(o) /\ depth' = depth /\ result' = result
      /\ Becomes([current EXCEPT !.pc = "head", !.id = serial + 1])
  BY DEF Write, At, exchange, threads
<1>2. TypeOK /\ current \in Frame /\ o \in Objects /\ r \in RequestType /\ serial + 1 \in Nat
  BY <1>1, TopType, SMTT(30) DEF Inv, TypeOK
<1>3. current' = [current EXCEPT !.pc = "head", !.id = serial + 1]
  BY <1>1, <1>2, BecomesCurrent
<1>4. /\ current'.pc = "head" /\ current'.id = serial + 1 /\ current'.obj = o /\ current'.req = r
  <2> HIDE DEF current
  <2> QED BY <1>2, <1>3 DEF Frame
<1>5. /\ owes \in [Objects -> Seq(Debt)] /\ inbox \in [Objects -> Seq(Item)]
      /\ owes[o] \in Seq(Debt) /\ inbox[o] \in Seq(Item)
  BY <1>2 DEF TypeOK
<1>6. \A p \in Objects : Cleaned(p)
  BY <1>1 DEF Own, Open
<1>7. ASSUME \A p \in Objects : p # o => Cleaned(p)',
             AtHead(o, owes'[o], inbox'[o], due', stray', current')
      PROVE  Own'
  BY <1>1, <1>4, <1>7 DEF Own, Open, AnswerIsOwn
<1> HIDE DEF o, r
<1>8. CASE o \in down
  <2>1. UNCHANGED lines
    BY <1>8 DEF Write, o
  <2>2. inbox[o] # <<>>
    BY <1>1, <1>8 DEF Alive
  <2>3. AtHead(o, owes[o], inbox[o], due, stray, current')
    BY <1>2, <1>6, <2>2 DEF Cleaned, Clean, AtHead
  <2> QED BY <1>6, <1>7, <2>1, <2>3 DEF Cleaned, lines
<1>9. CASE o \notin down
  <2> DEFINE more == Pending(o, r)
  <2>1. Owe(o, r)
    BY <1>9 DEF Write, o, r
  <2>2. r.method \in Methods
    BY <1>2 DEF RequestType
  <2>3. more \in Seq(Debt)
    <3> DEFINE x == [id |-> IF o \in stray THEN 0 ELSE serial + 1, method |-> r.method]
               y == [id |-> 0, method |-> "GET"]
    <3>1. x \in Debt /\ y \in Debt
      BY <1>2, <2>2 DEF Debt, Methods
    <3>2. more = <<x>> \o IF r.content = "bare" THEN <<y>> ELSE <<>>
      BY DEF Pending
    <3> HIDE DEF x, y, more
    <3>3. <<x>> \in Seq(Debt) /\ (IF r.content = "bare" THEN <<y>> ELSE <<>>) \in Seq(Debt)
      BY ONLY <3>1
    <3> QED BY ONLY <3>2, <3>3, ConcatProperties
  <2>4. /\ owes' = [owes EXCEPT ![o] = @ \o more] /\ UNCHANGED <<due, inbox>>
        /\ stray' = IF r.content = "bare" THEN stray \cup {o} ELSE stray
    BY <2>1 DEF Owe
  <2>5. owes'[o] = owes[o] \o more
    BY <1>2, <1>5, <2>4
  <2>6. Clean(o, owes[o], inbox[o], due, stray)
    BY <1>2, <1>6 DEF Cleaned
  <2>7. more = <<[id |-> IF o \in stray THEN 0 ELSE serial + 1, method |-> r.method]>>
               \o IF r.content = "bare" THEN <<[id |-> 0, method |-> "GET"]>> ELSE <<>>
    BY DEF Pending
  <2>8. (r.content = "bare" => o \in stray') /\ (o \in stray => o \in stray')
    BY <2>4
  <2> HIDE DEF more
  <2> DEFINE f == current'
  <2>9. f.id = serial + 1 /\ f.req = r
    BY <1>4
  <2>10. AtHead(o, owes[o] \o more, inbox[o], due, stray', f)
    <3> DEFINE S2 == stray'
               k == serial + 1
               g == current'
    <3>1. /\ k \in Nat /\ g.id = k /\ g.req = r
          /\ more = <<[id |-> IF o \in stray THEN 0 ELSE k, method |-> g.req.method]>>
               \o IF g.req.content = "bare" THEN <<[id |-> 0, method |-> "GET"]>> ELSE <<>>
          /\ (g.req.content = "bare" => o \in S2) /\ (o \in stray => o \in S2)
          /\ g.req.method \in Methods
      BY <1>2, <2>2, <2>7, <2>8, <2>9
    <3> HIDE DEF S2, k, g
    <3>2. AtHead(o, owes[o] \o more, inbox[o], due, S2, g)
      BY ONLY <1>5, <2>3, <2>6, <3>1, CleanOwed
    <3> QED BY <3>2 DEF S2, g
  <2>11. AtHead(o, owes'[o], inbox'[o], due', stray', current')
    BY <2>4, <2>5, <2>10
  <2>12. ASSUME NEW p \in Objects, p # o PROVE Cleaned(p)'
    <3>1. owes'[p] = owes[p] /\ (p \in stray' <=> p \in stray)
      BY <1>5, <2>4, <2>12
    <3>2. Cleaned(p)
      BY <1>6
    <3> QED BY <2>4, <3>1, <3>2 DEF Cleaned, Clean, Astray
  <2> QED BY <1>7, <2>11, <2>12
<1> QED BY <1>8, <1>9

\* an item is read; other objects have their own
LEMMA ConsumeOwn ==
  ASSUME Inv, depth > 0, Comes("interim") \/ Comes("head") \/ Comes("tail"), Consume
  PROVE  /\ inbox[current.obj] \in Seq(Item) /\ inbox[current.obj] # <<>>
         /\ inbox'[current.obj] = Tail(inbox[current.obj])
         /\ UNCHANGED <<owes, due, stray>>
         /\ \A p \in Objects : p # current.obj /\ Cleaned(p) => Cleaned(p)'
<1>1. inbox \in [Objects -> Seq(Item)] /\ current.obj \in Objects
  BY TopType DEF Inv, TypeOK
<1>2. /\ inbox' = [inbox EXCEPT ![current.obj] = Tail(@)] /\ UNCHANGED <<owes, due, stray>>
      /\ inbox[current.obj] # <<>>
  BY DEF Consume, Comes
<1> HIDE DEF current
<1> QED BY <1>1, <1>2 DEF Cleaned

LEMMA ReadOwn ==
  ASSUME Inv, Own, ReadInterim \/ ReadHead \/ ReadBody
  PROVE  Own'
<1> DEFINE o == current.obj
<1>1. depth > 0 /\ depth' = depth /\ result' = result
  BY DEF ReadInterim, ReadHead, ReadBody, At, exchange, threads
<1>2. TypeOK /\ current \in Frame /\ o \in Objects
  BY <1>1, TopType DEF Inv
<1>3. CASE ReadInterim
  <2>1. current.pc = "head" /\ Comes("interim") /\ Consume /\ frame' = frame
    BY <1>3 DEF ReadInterim, At
  <2>2. current' = current
    BY <1>1, <2>1 DEF current, top
  <2>3. /\ inbox[o] \in Seq(Item) /\ inbox[o] # <<>> /\ inbox'[o] = Tail(inbox[o])
        /\ UNCHANGED <<owes, due, stray>>
        /\ \A p \in Objects : p # o /\ Cleaned(p) => Cleaned(p)'
    BY <1>1, <2>1, ConsumeOwn
  <2>4. AtHead(o, owes[o], inbox[o], due, stray, current)
    BY <1>1, <2>1 DEF Own
  <2>5. Head(inbox[o]).is = "interim"
    BY <2>1 DEF Comes
  <2>6. AtHead(o, owes[o], Tail(inbox[o]), due, stray, current)
    <3> HIDE DEF o
    <3> QED BY ONLY <2>3, <2>4, <2>5, InterimSkipped
  <2> QED BY <1>1, <2>1, <2>2, <2>3, <2>6 DEF Own, Open, AnswerIsOwn
<1>4. CASE ReadHead
  <2> DEFINE m == Head(inbox[o])
  <2>1. current.pc = "head" /\ Comes("head") /\ Consume
        /\ Becomes([current EXCEPT !.pc = "body", !.got = m.id, !.ans = m.ans])
    BY <1>4 DEF ReadHead, At
  <2>2. current' = [current EXCEPT !.pc = "body", !.got = m.id, !.ans = m.ans]
    BY <1>1, <1>2, <2>1, BecomesCurrent
  <2>3. /\ current'.pc = "body" /\ current'.got = m.id /\ current'.ans = m.ans
        /\ current'.obj = o /\ current'.req = current.req /\ current'.id = current.id
    <3> HIDE DEF current, m
    <3> QED BY <1>2, <2>2 DEF Frame
  <2>4. /\ inbox[o] \in Seq(Item) /\ inbox[o] # <<>> /\ inbox'[o] = Tail(inbox[o])
        /\ UNCHANGED <<owes, due, stray>>
        /\ \A p \in Objects : p # o /\ Cleaned(p) => Cleaned(p)'
    BY <1>1, <2>1, ConsumeOwn
  <2>5. AtHead(o, owes[o], inbox[o], due, stray, current) /\ m.is = "head"
    BY <1>1, <2>1 DEF Own, Comes
  <2>6. /\ m.id \in {0, current.id}
        /\ AtBody(o, owes[o], Tail(inbox[o]), due, stray, current.req.method, m.ans)
    <3> HIDE DEF o
    <3> QED BY ONLY <2>4, <2>5, HeadOwn
  <2> HIDE DEF m
  <2> QED BY <1>1, <2>1, <2>3, <2>4, <2>6 DEF Own, Open, AnswerIsOwn
<1>5. CASE ReadBody
  <2>1. current.pc = "body" /\ Goto("handle")
        /\ IF NeedsTail(current.req.method, current.ans) THEN Comes("tail") /\ Consume
           ELSE UNCHANGED lines
    BY <1>5 DEF ReadBody, At, NeedsTail
  <2>2. /\ current'.pc = "handle" /\ current'.got = current.got /\ current'.id = current.id
        /\ current'.obj = o
    BY <1>1, <1>2, <2>1, GotoCurrent
  <2>3. AtBody(o, owes[o], inbox[o], due, stray, current.req.method, current.ans)
        /\ current.got \in {0, current.id}
    BY <1>1, <2>1 DEF Own
  <2>4. inbox[o] \in Seq(Item)
    BY <1>2 DEF TypeOK
  <2>5. \A p \in Objects : p # o => Cleaned(p)
    BY DEF Own
  <2>6. \A p \in Objects : Cleaned(p)'
    <3>1. CASE NeedsTail(current.req.method, current.ans)
      <4>1. /\ inbox[o] # <<>> /\ inbox'[o] = Tail(inbox[o]) /\ UNCHANGED <<owes, due, stray>>
            /\ \A p \in Objects : p # o /\ Cleaned(p) => Cleaned(p)'
        BY <1>1, <2>1, <3>1, ConsumeOwn
      <4>2. Clean(o, owes[o], Tail(inbox[o]), due, stray)
        BY <2>3, <2>4, <3>1, <4>1, BodyTaken
      <4> HIDE DEF o
      <4> QED BY <2>5, <4>1, <4>2 DEF Cleaned
    <3>2. CASE ~NeedsTail(current.req.method, current.ans)
      <4>1. Clean(o, owes[o], inbox[o], due, stray)
        BY <2>3, <2>4, <3>2, BodyTaken
      <4>2. UNCHANGED <<owes, inbox, due, stray>>
        BY <2>1, <3>2 DEF lines
      <4> QED BY <2>5, <4>1, <4>2 DEF Cleaned
    <3> QED BY <3>1, <3>2
  <2> QED BY <1>1, <2>2, <2>3, <2>6, StageOwn
<1> QED BY <1>3, <1>4, <1>5

LEMMA SendingParts ==
  ASSUME Inv, Sending
  PROVE  depth > 0 /\ TypeOK /\ depth \in Nat /\ current \in Frame /\ current.obj \in Objects
<1>1. depth > 0
  BY DEF Sending, Reuse, Write, ReadInterim, ReadHead, ReadFails, ReadBody, Handle, Redirect,
         RedirectFails, Leave, Leaves, Connect, ConnectFails, WriteFails, BodyFails, At
<1> QED BY <1>1, ActiveTypes, TopType DEF Inv

\* the lines of an object at most are those of a new connection, or of none
LEMMA KeepsClean ==
  ASSUME TypeOK, \A p \in Objects : Cleaned(p), NEW o \in Objects, UNCHANGED lines \/ Blank(o)
  PROVE  \A p \in Objects : Cleaned(p)'
<1>1. CASE UNCHANGED lines
  BY <1>1 DEF lines, Cleaned
<1>2. CASE Blank(o)
  BY <1>2, BlankClean
<1> QED BY <1>1, <1>2

LEMMA FailOwn ==
  ASSUME Inv, Own, depth > 0,
         ReadFails \/ RedirectFails \/ \E e \in Errors : WriteFails(e) \/ BodyFails(e)
  PROVE  Own'
<1>1. /\ Goto("lost") /\ depth' = depth /\ result' = result
      /\ UNCHANGED lines
  BY DEF ReadFails, RedirectFails, WriteFails, BodyFails, Fail, exchange, threads
<1>2. current'.pc = "lost" /\ current'.obj = current.obj
  BY <1>1, GotoCurrent DEF Inv
<1>3. \A o \in Objects : Cleaned(o)' \/ o = current.obj
  BY <1>1 DEF Own, lines, Cleaned
<1> QED BY <1>1, <1>2, <1>3, StageOwn

LEMMA TakeOwn ==
  ASSUME Inv, Own, depth > 0, Reuse \/ \E as \in AddressLists : Connect(as)
  PROVE  Own'
<1>1. TypeOK /\ current \in Frame /\ current.obj \in Objects
  BY TopType DEF Inv
<1>2. /\ current.pc = "enter" /\ depth' = depth /\ result' = result
      /\ UNCHANGED lines \/ Blank(current.obj)
  BY DEF Reuse, Connect, At, threads
<1>3. PICK fd : Becomes([current EXCEPT !.pc = "write", !.fd = fd])
  BY DEF Reuse, Connect
<1>4. current' = [current EXCEPT !.pc = "write", !.fd = fd]
  BY <1>1, <1>2, <1>3, BecomesCurrent
<1>5. current'.pc = "write"
  <2> HIDE DEF current
  <2> QED BY <1>1, <1>4 DEF Frame
<1>6. \A o \in Objects : Cleaned(o)
  BY <1>2 DEF Own, Open
<1>7. \A o \in Objects : Cleaned(o)'
  BY <1>1, <1>2, <1>6, KeepsClean
<1> QED BY <1>2, <1>5, <1>7, StageOwn

LEMMA HandleOwn ==
  ASSUME Inv, Own, Handle
  PROVE  Own'
<1>1. /\ depth > 0 /\ current.pc = "handle" /\ depth' = depth /\ result' = result
      /\ UNCHANGED lines \/ Blank(current.obj)
  BY DEF Handle, At, threads, CloseSocket
<1>2. TypeOK /\ current.obj \in Objects
  BY <1>1, TopType DEF Inv
<1>3. PICK s \in {"follow", "won"} : Goto(s)
  BY DEF Handle
<1>4. current'.pc = s /\ current'.got = current.got /\ current'.id = current.id
  BY <1>1, <1>2, <1>3, GotoCurrent
<1>5. \A o \in Objects : Cleaned(o)
  BY <1>1 DEF Own, Open
<1>6. \A o \in Objects : Cleaned(o)'
  BY <1>1, <1>2, <1>5, KeepsClean
<1>7. current.got \in {0, current.id}
  BY <1>1 DEF Own
<1> QED BY <1>1, <1>4, <1>6, <1>7, StageOwn

LEMMA RedirectOwn ==
  ASSUME Inv, Own, Redirect
  PROVE  Own'
<1> DEFINE o == IF current.ans.to = "here" THEN current.obj ELSE depth
           r == Redirected(current.req, current.ans.status)
<1>1. depth > 0 /\ current.pc = "follow" /\ UNCHANGED lines /\ result' = result /\ top < MaxHops
      /\ depth' = depth + 1
      /\ frame' = [frame EXCEPT ![top] = [current EXCEPT !.pc = "wait"], ![depth] = Entering(o, r)]
  BY DEF Redirect, At, threads, Enters
<1>2. /\ TypeOK /\ depth \in Hops /\ depth \in Nat /\ top # depth /\ frame \in [Hops -> Frame]
      /\ top' = depth
  <2>1. depth \in Nat /\ MaxHops \in Nat /\ top = depth - 1 /\ frame \in [Hops -> Frame]
    BY <1>1, ActiveTypes DEF Inv, top
  <2>2. top' = depth' - 1
    BY DEF top
  <2> QED BY <1>1, <2>1, <2>2 DEF Hops, Inv
<1> DEFINE g == Entering(o, r)
<1>3. g.pc = "enter"
  BY DEF Entering, NoFrame
<1> HIDE DEF g, top
<1>4. frame'[depth] = g
  BY <1>1, <1>2 DEF g
<1>5. current' = g
  BY <1>2, <1>4 DEF current
<1>6. current'.pc = "enter" /\ depth' > 0
  BY <1>1, <1>2, <1>3, <1>5
<1>7. \A p \in Objects : Cleaned(p)'
  BY <1>1 DEF Own, Open, lines, Cleaned
<1> QED BY <1>1, <1>6, <1>7, StageOwn

\* a call, or a redirection, is over: whatever was left of its exchange is closed
LEMMA ReturnOwn ==
  ASSUME Inv, Own, depth > 0, NEW end \in {"won", "lost"}, NEW e, Return(end, e),
         end = "won" => current.got \in {0, current.id},
         \A o \in Objects : Cleaned(o)'
  PROVE  Own'
<1>1. depth \in Nat /\ TypeOK
  BY ActiveTypes DEF Inv
<1>2. /\ depth' = depth - 1
      /\ depth = 1 => result' = [end |-> end, error |-> e, id |-> current.id,
                                  got |-> current.got]
      /\ depth > 1 => /\ result' = result
                      /\ current'.pc = end
                      /\ end = "won" => current'.id = current.id /\ current'.got = current.got
  BY <1>1, ReturnCurrent
<1>3. AnswerIsOwn'
  BY <1>1, <1>2 DEF Own, AnswerIsOwn
<1>4. CASE depth = 1
  BY <1>1, <1>2, <1>3, <1>4 DEF Own
<1>5. CASE depth > 1
  BY <1>1, <1>2, <1>3, <1>5 DEF Own
<1> QED BY <1>1, <1>4, <1>5

LEMMA ConnectFailsOwn ==
  ASSUME Inv, Own, depth > 0, NEW as \in AddressLists, ConnectFails(as)
  PROVE  Own'
<1>1. current.pc = "enter" /\ Return("lost", ConnectError(as)) /\ Blank(current.obj)
  BY DEF ConnectFails, At, CloseSocket
<1>2. TypeOK /\ current.obj \in Objects
  BY TopType DEF Inv
<1>3. \A o \in Objects : Cleaned(o)
  BY <1>1 DEF Own, Open
<1>4. \A o \in Objects : Cleaned(o)'
  BY <1>1, <1>2, <1>3, KeepsClean
<1> QED BY <1>1, <1>4, ReturnOwn

LEMMA LeaveOwn ==
  ASSUME Inv, Own, depth > 0, Leave
  PROVE  Own'
<1>1. TypeOK /\ current.obj \in Objects
  BY TopType DEF Inv
<1>2. ASSUME NEW end \in {"won", "lost"}, NEW e, NEW closes, Leaves(end, e, closes),
             end = "lost" => closes
      PROVE  Own'
  <2>1. /\ current.pc = end /\ Return(end, e)
        /\ closes => Blank(current.obj)
        /\ ~closes => UNCHANGED lines
    BY <1>2 DEF Leaves, At, CloseSocket
  <2>2. end = "won" => current.got \in {0, current.id}
    BY <2>1 DEF Own
  <2>3. \A o \in Objects : Cleaned(o)'
    <3>1. CASE end = "won"
      <4>1. \A o \in Objects : Cleaned(o)
        BY <2>1, <3>1 DEF Own, Open
      <4> QED BY <1>1, <2>1, <4>1, KeepsClean
    <3>2. CASE end = "lost"
      <4>1. \A o \in Objects : o # current.obj => Cleaned(o)
        BY DEF Own
      <4> QED BY <1>1, <1>2, <2>1, <3>2, <4>1, BlankClean
    <3> QED BY <3>1, <3>2
  <2> QED BY <2>1, <2>2, <2>3, ReturnOwn
<1> QED BY <1>2 DEF Leave

LEMMA SendingOwn ==
  ASSUME Inv, Own, Sending
  PROVE  Own'
<1>1. depth > 0
  BY SendingParts
<1> QED BY <1>1, TakeOwn, WriteOwn, ReadOwn, FailOwn, HandleOwn, RedirectOwn, ConnectFailsOwn,
           LeaveOwn DEF Sending

\* between two calls nothing is left of an exchange on any connection
LEMMA LockOwn ==
  ASSUME Inv, Own, NEW t \in Threads, Lock(t)
  PROVE  Own'
<1>1. /\ depth = 0 /\ depth' = 1 /\ frame' = [frame EXCEPT ![0] = Entering(0, call[t])]
      /\ result' = NoResult /\ UNCHANGED lines
  BY DEF Lock, Inv, Chain
<1>2. current'.pc = "enter"
  <2>1. 0 \in Hops /\ frame \in [Hops -> Frame]
    BY ClientAssumption DEF Inv, TypeOK, Hops, ClientAssumption
  <2>2. top' = 0
    BY <1>1 DEF top
  <2>3. current' = Entering(0, call[t])
    BY <1>1, <2>1, <2>2 DEF current
  <2> QED BY <2>3 DEF Entering, NoFrame
<1>3. \A o \in Objects : Cleaned(o)'
  BY <1>1 DEF Own, Open, lines, Cleaned
<1> QED BY <1>1, <1>2, <1>3 DEF Own, Open, AnswerIsOwn, NoResult

\* no exchange is open on a connection that stop() or the destructor closes
LEMMA IdleClosed ==
  ASSUME Inv, Own, in_flight[0] = 0, Blank(0),
         UNCHANGED <<depth, frame, result>>
  PROVE  Own'
<1>1. TypeOK /\ 0 \in Objects /\ current' = current
  BY ClientAssumption DEF Inv, ClientAssumption, Objects, current, top
<1>2. ASSUME depth > 0, current.pc # "enter" PROVE current.obj # 0
  <2>1. current.obj \in Objects /\ top \in Active /\ top \in Nat /\ current.obj <= top
    BY <1>2, TopType DEF Inv, Chain, current, Hops
  <2>2. in_flight[current.obj] = top - current.obj + 1
    BY <1>2, <2>1 DEF Inv, Counts, Innermost, Entered, current, top
  <2> QED BY <2>1, <2>2 DEF Objects
<1>3. \A p \in Objects : Cleaned(p)' \/ (Open /\ p = current.obj)
  BY <1>1, BlankClean DEF Own
<1>4. ASSUME depth > 0, current.pc # "enter"
      PROVE  /\ owes'[current.obj] = owes[current.obj] /\ inbox'[current.obj] = inbox[current.obj]
             /\ current.obj \in due' <=> current.obj \in due
             /\ current.obj \in stray' <=> current.obj \in stray
  <2>1. current.obj # 0 /\ current.obj \in Objects
    BY <1>1, <1>2, <1>4, TopType
  <2>2. owes \in [Objects -> Seq(Debt)] /\ inbox \in [Objects -> Seq(Item)]
    BY <1>1 DEF TypeOK
  <2> HIDE DEF current
  <2> QED BY <1>1, <2>1, <2>2 DEF Blank
<1>5. ASSUME depth > 0, current.pc = "head"
      PROVE  AtHead(current.obj, owes[current.obj], inbox[current.obj], due, stray, current)'
  <2>1. AtHead(current.obj, owes[current.obj], inbox[current.obj], due, stray, current)
    BY <1>5 DEF Own
  <2> QED BY <1>1, <1>4, <1>5, <2>1 DEF AtHead, Astray, Awaited, Arrives, Content
<1>6. ASSUME depth > 0, current.pc = "body"
      PROVE  AtBody(current.obj, owes[current.obj], inbox[current.obj], due, stray,
                    current.req.method, current.ans)'
  <2>1. AtBody(current.obj, owes[current.obj], inbox[current.obj], due, stray,
               current.req.method, current.ans)
    BY <1>6 DEF Own
  <2> QED BY <1>1, <1>4, <1>6, <2>1 DEF AtBody, Astray, Content
<1> QED BY <1>1, <1>3, <1>5, <1>6 DEF Own, Open, AnswerIsOwn

LEMMA StopOwn ==
  ASSUME Inv, Own, Stop
  PROVE  Own'
<1>1. UNCHANGED <<depth, frame, result>> /\ in_flight[0] \in Nat
  BY ClientAssumption DEF Stop, threads, Inv, TypeOK, Objects, ClientAssumption
<1>2. CASE in_flight[0] > 0
  <2>1. UNCHANGED <<owes, due, inbox, stray>> /\ current' = current
    BY <1>1, <1>2 DEF Stop, current, top
  <2> QED BY <1>1, <2>1 DEF Own, Open, Cleaned, AnswerIsOwn
<1>3. CASE ~(in_flight[0] > 0)
  <2>1. in_flight[0] = 0 /\ Blank(0)
    BY <1>1, <1>3 DEF Stop, CloseSocket
  <2> QED BY <1>1, <2>1, IdleClosed
<1> QED BY <1>2, <1>3

LEMMA DestroyOwn ==
  ASSUME Inv, Own, Destroy
  PROVE  Own'
<1>1. UNCHANGED <<depth, frame, result>> /\ Blank(0) /\ 0 \in Objects /\ depth \in Nat
  BY ClientAssumption, ActiveTypes DEF Destroy, threads, CloseSocket, Objects, ClientAssumption,
                                       Inv
<1>2. depth = 0
  <2>1. depth > 0 => FALSE
    <3> SUFFICES ASSUME depth > 0 PROVE FALSE
      OBVIOUS
    <3> QED BY NotGone DEF Destroy
  <2> QED BY <1>1, <2>1
<1>3. in_flight[0] = 0
  BY <1>1, <1>2 DEF Inv, Counts, Unused, Active
<1> QED BY <1>1, <1>3, IdleClosed

\* what its peer does to the lines of one object, keeps what is known of them
LEMMA PeerOwn ==
  ASSUME Inv, Own, NEW o \in Objects, UNCHANGED others, UNCHANGED stray,
         \A p \in Objects : p # o => /\ owes'[p] = owes[p] /\ inbox'[p] = inbox[p]
                                     /\ (p \in due' <=> p \in due),
         \A method, b : AtBody(o, owes[o], inbox[o], due, stray, method, b)
                          => AtBody(o, owes'[o], inbox'[o], due', stray, method, b),
         Cleaned(o) => Cleaned(o)',
         AtHead(o, owes[o], inbox[o], due, stray, current)
            => AtHead(o, owes'[o], inbox'[o], due', stray, current)
  PROVE  Own'
<1>1. UNCHANGED <<depth, frame, result>> /\ current' = current
  BY DEF others, threads, current, top
<1>2. \A p \in Objects : Cleaned(p) => Cleaned(p)'
  BY DEF Cleaned, Clean, Astray
<1>3. depth > 0 => current.obj \in Objects
  BY TopType DEF Inv
<1>4. ASSUME depth > 0, current.pc = "head"
      PROVE  AtHead(current.obj, owes[current.obj], inbox[current.obj], due, stray, current)'
  <2>1. AtHead(current.obj, owes[current.obj], inbox[current.obj], due, stray, current)
    BY <1>4 DEF Own
  <2>2. CASE current.obj = o
    BY <1>1, <2>1, <2>2
  <2>3. CASE current.obj # o
    <3>1. /\ owes'[current.obj] = owes[current.obj] /\ inbox'[current.obj] = inbox[current.obj]
          /\ current.obj \in due' <=> current.obj \in due
      BY <1>3, <1>4, <2>3
    <3> QED BY <1>1, <2>1, <3>1, SMTT(30) DEF AtHead, Astray, Awaited, Arrives, Content
  <2> QED BY <2>2, <2>3
<1>5. ASSUME depth > 0, current.pc = "body"
      PROVE  AtBody(current.obj, owes[current.obj], inbox[current.obj], due, stray,
                    current.req.method, current.ans)'
  <2>1. AtBody(current.obj, owes[current.obj], inbox[current.obj], due, stray,
               current.req.method, current.ans)
    BY <1>5 DEF Own
  <2>2. CASE current.obj = o
    BY <1>1, <2>1, <2>2
  <2>3. CASE current.obj # o
    BY <1>1, <1>3, <1>5, <2>1, <2>3 DEF AtBody, Astray, Content
  <2> QED BY <2>2, <2>3
<1> QED BY <1>1, <1>2, <1>4, <1>5 DEF Own, Open, AnswerIsOwn

LEMMA ServerOwn ==
  ASSUME Inv, Own, Server
  PROVE  Own'
<1>1. owes \in [Objects -> Seq(Debt)] /\ inbox \in [Objects -> Seq(Item)] /\ due \subseteq Objects
  BY DEF Inv, TypeOK
<1>2. ASSUME NEW o \in Objects, NEW a \in Answers, Answer(o, a)
      PROVE  Own'
  <2> DEFINE m == Head(owes[o])
             owed == Tail(owes[o])
             new == Added(inbox[o], m, a)
             D2 == IF NeedsTail(m.method, a) THEN due \cup {o} ELSE due
  <2>1. a \in AnswerType
    BY ClientAssumption DEF ClientAssumption
  <2>2. /\ owes[o] \in Seq(Debt) /\ inbox[o] \in Seq(Item) /\ owes[o] # <<>> /\ o \notin due
        /\ owes' = [owes EXCEPT ![o] = owed] /\ due' = D2
        /\ inbox' = [inbox EXCEPT ![o] = new]
        /\ UNCHANGED others /\ UNCHANGED stray
    BY <1>1, <1>2 DEF Answer, Added, NeedsTail
  <2>3. /\ NeedsTail(m.method, a) => o \in D2
        /\ ~NeedsTail(m.method, a) => o \notin D2
    BY <2>2
  <2>4. /\ \A method, b : AtBody(o, owes[o], inbox[o], due, stray, method, b)
                    => AtBody(o, owed, new, D2, stray, method, b)
        /\ Clean(o, owes[o], inbox[o], due, stray) => Clean(o, owed, new, D2, stray)
        /\ AtHead(o, owes[o], inbox[o], due, stray, current)
              => AtHead(o, owed, new, D2, stray, current)
    <3> HIDE DEF D2
    <3> QED BY ONLY <2>1, <2>2, <2>3, PeerAnswers
  <2>5. \A p \in Objects : p # o => (p \in D2 <=> p \in due)
    OBVIOUS
  <2> HIDE DEF owed, new, D2
  <2>6. /\ owes'[o] = owed /\ inbox'[o] = new
        /\ \A p \in Objects : p # o => owes'[p] = owes[p] /\ inbox'[p] = inbox[p]
    BY <1>1, <2>2
  <2> QED BY <2>2, <2>4, <2>5, <2>6, PeerOwn DEF Cleaned
<1>3. ASSUME NEW o \in Objects, SendContent(o)
      PROVE  Own'
  <2> DEFINE x == [is |-> "tail", id |-> 0, ans |-> NoAnswer]
             new == Append(inbox[o], x)
             D2 == due \ {o}
  <2>1. x \in Item /\ x.is = "tail" /\ x.id = 0
    BY NoFrameType DEF Item
  <2>2. /\ inbox[o] \in Seq(Item) /\ o \in due
        /\ owes' = owes /\ due' = D2 /\ inbox' = [inbox EXCEPT ![o] = new]
        /\ UNCHANGED others /\ UNCHANGED stray
    BY <1>1, <1>3 DEF SendContent
  <2> HIDE DEF x
  <2>3. /\ \A method, b : AtBody(o, owes[o], inbox[o], due, stray, method, b)
                    => AtBody(o, owes[o], new, D2, stray, method, b)
        /\ Clean(o, owes[o], inbox[o], due, stray) => Clean(o, owes[o], new, D2, stray)
        /\ AtHead(o, owes[o], inbox[o], due, stray, current)
              => AtHead(o, owes[o], new, D2, stray, current)
    BY ONLY <2>1, <2>2, PeerSendsContent
  <2>4. \A p \in Objects : p # o => (p \in D2 <=> p \in due)
    OBVIOUS
  <2> HIDE DEF new, D2
  <2>5. /\ inbox'[o] = new
        /\ \A p \in Objects : p # o => inbox'[p] = inbox[p]
    BY <1>1, <2>2
  <2> QED BY <2>2, <2>3, <2>4, <2>5, PeerOwn DEF Cleaned
<1>4. ASSUME NEW o \in Objects, PeerCloses(o)
      PROVE  Own'
  <2>1. UNCHANGED others /\ UNCHANGED <<owes, due, inbox, stray>>
    BY <1>4 DEF PeerCloses
  <2> QED BY <2>1, PeerOwn DEF Cleaned
<1> QED BY <1>2, <1>3, <1>4 DEF Server

LEMMA NextOwn ==
  ASSUME Inv, Own, [Next]_vars
  PROVE  Own'
<1>1. CASE UNCHANGED vars \/ \E t \in Threads, c \in Calls : Call(t, c)
  <2>1. UNCHANGED <<depth, frame, owes, due, inbox, stray>>
    BY <1>1 DEF Call, vars, lines
  <2>2. result' = result \/ result' = [NoResult EXCEPT !.error = "UnsupportedMultipartBoundaryChars"]
    BY <1>1 DEF Call, vars, threads
  <2>3. AnswerIsOwn'
    BY <2>2 DEF Own, AnswerIsOwn, NoResult
  <2>4. current' = current
    BY <2>1 DEF current, top
  <2> QED BY <2>1, <2>3, <2>4 DEF Own, Open, Cleaned
<1> QED BY <1>1, SendingOwn, LockOwn, StopOwn, DestroyOwn, ServerOwn DEF Next

LEMMA InitOwn ==
  ASSUME Init PROVE Own
<1>1. \A o \in Objects : owes[o] = <<>> /\ inbox[o] = <<>> /\ o \notin due /\ o \notin stray
  BY DEF Init
<1>2. depth = 0 /\ result.end = "lost"
  BY DEF Init, NoResult
<1> QED BY <1>1, <1>2 DEF Own, Cleaned, Clean, AnswerIsOwn

\* A Result with a response answers the request of its call or of its last redirection,
\* whatever was given up on the connection before (ClientImpl::send_, process_request,
\* close_socket): what a failed exchange leaves unread is closed before the next one.
THEOREM ClientAnswerIsOwn == SafetySpec => []AnswerIsOwn
<1>1. Own => AnswerIsOwn
  BY DEF Own
<1> QED BY <1>1, InitOwn, NextOwn, ClientInvariant, PTL DEF SafetySpec
=============================================================================
