------------------------- MODULE RegularBenchProofs -------------------------
(***************************************************************************)
(* Proofs about the two benchmarks whose client has one thread.            *)
(*                                                                         *)
(* The regular httplib benchmark, for any number of requests: the failures *)
(* and bytes that the client prints are true of it, and the bytes never    *)
(* more than the server has (what it prints as its successes is not        *)
(* true), and the two numbers of an undisturbed /request_stats fit.        *)
(*                                                                         *)
(* The seastar transfer, for any number of clients, any amount of data and *)
(* any buffers.  Its type invariant alone is not inductive: a handler that *)
(* still writes must have something left to write, and what a client can   *)
(* read is bounded by what was written (NothingLost).                      *)
(***************************************************************************)
EXTENDS RegularHttplibBench, SeastarTransfer, TLAPS, FiniteSetTheorems

Counted == {r \in Requests : handler[r] \in {"counted", "added", "answered"}}
Added   == {r \in Requests : handler[r] \in {"added", "answered"}}

Pcs      == {"next", "waiting", "success", "failure", "settled", "exited"}
Outcomes == {"pending", "ok", "failed"}
Places   == {"none", "read", "counted", "added", "dropped", "answered"}
Polls    == {"idle", "none", "count", "bytes", "both"}

RegularTypes == /\ upload \in BOOLEAN
          /\ pc \in Pcs /\ i \in 0..N
          /\ completed_requests \in Nat /\ failed_requests \in Nat /\ total_bytes_sent \in Nat
          /\ outcome \in [Requests -> Outcomes] /\ handler \in [Requests -> Places]
          /\ request_count \in Nat /\ total_received_bytes \in Nat
          /\ poll \in Polls /\ seenCount \in Nat /\ seenBytes \in Nat /\ disturbed \in BOOLEAN

Busy == {"waiting", "success", "failure"}

\* the request at work is the last one begun, and each success was answered
ClientInv == /\ \A r \in Requests : r > i => outcome[r] = "pending" /\ handler[r] = "none"
             /\ pc \in Busy => i \in Requests /\ outcome[i] = "pending"
             /\ pc = "success" => handler[i] = "answered"
             /\ pc = "settled" => i \in Requests
             /\ \A r \in Requests : outcome[r] = "ok" => handler[r] = "answered"

Unfinished == IF pc = "settled" THEN 1 ELSE 0

\* each counter counts what its name says; completed_requests has both outcomes
ClientCounts == /\ failed_requests = Cardinality(With("failed"))
                /\ completed_requests + Unfinished
                     = Cardinality(With("ok")) + Cardinality(With("failed"))
                /\ total_bytes_sent = Size * Cardinality(With("ok"))
ServerCounts == upload => /\ request_count = Cardinality(Counted)
                          /\ total_received_bytes = Size * Cardinality(Added)

Printed == summary # NoSummary =>
             /\ pc = "exited"
             /\ summary.failed = Cardinality(With("failed"))
             /\ summary.ok = Cardinality(With("ok")) + summary.failed
             /\ summary.bytes = Size * Cardinality(With("ok"))

\* nothing was counted since an undisturbed poll began: a counter it has read is still
\* what it was, and those it will read fit to it
PollInv == upload =>
  /\ seenBytes <= Size * request_count
  /\ ~disturbed /\ poll \in {"none", "count", "bytes"} => ~HalfCounted
  /\ ~disturbed /\ poll = "count" => seenCount = request_count
  /\ ~disturbed /\ poll = "bytes" => seenBytes = total_received_bytes
  /\ ~disturbed /\ poll = "both" => seenBytes = Size * seenCount

RegularInv == RegularTypes /\ ClientInv /\ ClientCounts /\ ServerCounts /\ Printed /\ PollInv

serverVars == <<handler, request_count, total_received_bytes>>

----------------------------------------------------------------------------
(* Sets of requests *)

LEMMA RequestSets ==
  ASSUME NEW S \in SUBSET Requests
  PROVE  /\ IsFiniteSet(S) /\ Cardinality(S) \in Nat
         /\ \A r \in Requests : r \notin S => Cardinality(S \cup {r}) = Cardinality(S) + 1
         /\ \A T \in SUBSET S : Cardinality(T) <= Cardinality(S)
<1>1. IsFiniteSet(Requests)
  BY RegularAssumption, FS_Interval DEF Requests
<1>2. IsFiniteSet(S)
  BY <1>1, FS_Subset
<1>3. Cardinality(S) \in Nat
  BY <1>2, FS_CardinalityType
<1>4. \A r \in Requests : r \notin S => Cardinality(S \cup {r}) = Cardinality(S) + 1
  BY <1>2, FS_AddElement
<1>5. \A T \in SUBSET S : Cardinality(T) <= Cardinality(S)
  BY <1>2, FS_Subset
<1> QED BY <1>2, <1>3, <1>4, <1>5

LEMMA TimesSize ==
  ASSUME NEW a \in Nat, NEW b \in Nat
  PROVE  /\ Size * a \in Nat
         /\ Size * (a + 1) = Size * a + Size
         /\ a <= b => Size * a <= Size * b
<1>1. Size \in Nat
  BY RegularAssumption
<1> QED BY <1>1, SMT

LEMMA NoneYet == Cardinality({}) = 0 /\ Size * 0 = 0
<1>1. Cardinality({}) = 0
  BY FS_EmptySet
<1>2. Size * 0 = 0
  BY RegularAssumption, SMT
<1> QED BY <1>1, <1>2

----------------------------------------------------------------------------
(* Types and the path of a request *)

LEMMA TypeInit == Init => RegularTypes
<1> SUFFICES ASSUME Init PROVE RegularTypes
  OBVIOUS
<1>1. i \in 0..N /\ pc \in Pcs /\ poll \in Polls
  BY RegularAssumption DEF Init, Pcs, Polls
<1>2. outcome \in [Requests -> Outcomes] /\ handler \in [Requests -> Places]
  BY DEF Init, Outcomes, Places
<1> QED BY <1>1, <1>2 DEF Init, RegularTypes

LEMMA ClientTypes == RegularTypes /\ ClientNext => RegularTypes'
<1> SUFFICES ASSUME RegularTypes, ClientNext PROVE RegularTypes'
  OBVIOUS
<1> USE RegularAssumption DEF RegularTypes, pollVars
<1>1. CASE Send
  <2>1. i' = i + 1 /\ i + 1 \in 0..N /\ pc' \in Pcs
    BY <1>1 DEF Send, Pcs
  <2>2. handler' \in [Requests -> Places]
    BY <1>1 DEF Send, Places
  <2> QED BY <1>1, <2>1, <2>2 DEF Send
<1>2. CASE Receive \/ GiveUp
  BY <1>2 DEF Receive, GiveUp, Pcs
<1>3. CASE AddBytes
  <2>1. outcome' \in [Requests -> Outcomes] /\ pc' \in Pcs
    BY <1>3 DEF AddBytes, Outcomes, Pcs
  <2> QED BY <1>3, <2>1 DEF AddBytes
<1>4. CASE CountFailed
  <2>1. outcome' \in [Requests -> Outcomes] /\ pc' \in Pcs
    BY <1>4 DEF CountFailed, Outcomes, Pcs
  <2> QED BY <1>4, <2>1 DEF CountFailed
<1>5. CASE CountCompleted \/ Report
  BY <1>5 DEF CountCompleted, Report, Pcs
<1> QED BY <1>1, <1>2, <1>3, <1>4, <1>5 DEF ClientNext

\* a step of a handler moves it from one place to the next
Moves(r) == \E from, to \in Places : At(r, from, to) /\ from \notin {"none", "answered"}

LEMMA HandlerMoves ==
  ASSUME NEW r \in Requests, Serve(r) \/ Count(r) \/ AddTotal(r) \/ Answer(r)
  PROVE  Moves(r) /\ UNCHANGED <<upload, clientVars>>
BY DEF Serve, Count, AddTotal, Answer, Moves, Places

LEMMA ServerTypes == RegularTypes /\ ServerNext => RegularTypes'
<1> SUFFICES ASSUME RegularTypes, ServerNext PROVE RegularTypes'
  OBVIOUS
<1>1. ASSUME NEW r \in Requests, Serve(r) \/ Count(r) \/ AddTotal(r) \/ Answer(r)
      PROVE  RegularTypes'
  <2>1. UNCHANGED <<upload, pc, i, completed_requests, failed_requests, total_bytes_sent,
                    outcome, poll, seenCount, seenBytes>>
    BY <1>1 DEF Serve, Count, AddTotal, Answer, clientVars, pollVars
  <2>2. handler' \in [Requests -> Places]
    BY <1>1, HandlerMoves DEF RegularTypes, Moves, At
  <2>3. request_count' \in Nat /\ total_received_bytes' \in Nat /\ disturbed' \in BOOLEAN
    BY <1>1, RegularAssumption
       DEF RegularTypes, Serve, Count, AddTotal, Answer, pollVars, Disturb
  <2> QED BY <2>1, <2>2, <2>3 DEF RegularTypes
<1>2. CASE PollBegin \/ PollCount \/ PollBytes
  <2>1. UNCHANGED <<upload, pc, i, completed_requests, failed_requests, total_bytes_sent,
                    outcome, handler, request_count, total_received_bytes>>
    BY <1>2 DEF PollBegin, PollCount, PollBytes, clientVars
  <2>2. poll' \in Polls /\ seenCount' \in Nat /\ seenBytes' \in Nat /\ disturbed' \in BOOLEAN
    BY <1>2 DEF RegularTypes, PollBegin, PollCount, PollBytes, Polls, HalfCounted
  <2> QED BY <2>1, <2>2 DEF RegularTypes
<1> QED BY <1>1, <1>2 DEF ServerNext

LEMMA TypeStep == RegularTypes /\ [Next]_vars => RegularTypes'
<1>1. RegularTypes /\ UNCHANGED vars => RegularTypes'
  BY DEF RegularTypes, vars, clientVars, pollVars
<1> QED BY <1>1, ClientTypes, ServerTypes DEF Next

LEMMA PathInit == Init => ClientInv
BY DEF Init, ClientInv, Busy

LEMMA PathStep == RegularTypes /\ ClientInv /\ [Next]_vars => ClientInv'
<1> SUFFICES ASSUME RegularTypes, ClientInv, [Next]_vars PROVE ClientInv'
  OBVIOUS
<1> USE RegularAssumption DEF Busy
<1>1. i \in 0..N /\ outcome \in [Requests -> Outcomes] /\ handler \in [Requests -> Places]
  BY DEF RegularTypes
<1>2. CASE Send
  <2>1. /\ i' = i + 1 /\ i + 1 \in Requests /\ pc' \in {"waiting", "failure"}
        /\ outcome' = outcome
    BY <1>1, <1>2 DEF Send, Requests
  <2>2. outcome[i + 1] = "pending"
    BY <1>1, <2>1 DEF ClientInv
  <2>3. \A r \in Requests : outcome[r] = "ok" => handler'[r] = "answered"
    BY <1>1, <1>2, <2>1, <2>2 DEF Send, ClientInv
  <2>4. \A r \in Requests : r > i + 1 => r > i /\ handler'[r] = handler[r]
    <3>1. \A r \in Requests : r > i + 1 => r > i /\ r # i + 1
      BY <1>1 DEF Requests
    <3> QED BY <1>1, <1>2, <3>1 DEF Send
  <2> QED BY <2>1, <2>2, <2>3, <2>4 DEF ClientInv
<1>3. CASE Receive \/ GiveUp \/ CountCompleted \/ Report
  BY <1>3 DEF Receive, GiveUp, CountCompleted, Report, ClientInv
<1>4. CASE AddBytes \/ CountFailed
  <2>1. /\ pc \in Busy /\ pc' = "settled" /\ UNCHANGED <<i, handler>>
    BY <1>4 DEF AddBytes, CountFailed
  <2>2. PICK o \in {"ok", "failed"} : /\ outcome' = [outcome EXCEPT ![i] = o]
                                      /\ o = "ok" => pc = "success"
    BY <1>4 DEF AddBytes, CountFailed
  <2>3. i \in Requests /\ (o = "ok" => handler[i] = "answered")
    BY <2>1, <2>2 DEF ClientInv
  <2>4. \A r \in Requests : outcome'[r] = IF r = i THEN o ELSE outcome[r]
    BY <1>1, <2>2
  <2>5. ~(i > i)
    BY <1>1
  <2> QED BY <2>1, <2>3, <2>4, <2>5 DEF ClientInv
<1>5. CASE ServerNext
  <2>1. UNCHANGED <<pc, i, outcome>>
    BY <1>5 DEF ServerNext, Serve, Count, AddTotal, Answer, PollBegin, PollCount, PollBytes,
                clientVars
  <2>2. \A r \in Requests : handler[r] \in {"none", "answered"} => handler'[r] = handler[r]
    <3>1. ASSUME NEW s \in Requests, Moves(s)
          PROVE  \A r \in Requests : handler[r] \in {"none", "answered"}
                                       => handler'[r] = handler[r]
      BY <1>1, <3>1 DEF Moves, At
    <3>2. CASE PollBegin \/ PollCount \/ PollBytes
      BY <3>2 DEF PollBegin, PollCount, PollBytes
    <3> QED BY <1>5, <3>1, <3>2, HandlerMoves DEF ServerNext
  <2> QED BY <2>1, <2>2 DEF ClientInv
<1>6. CASE UNCHANGED vars
  BY <1>6 DEF vars, clientVars, ClientInv
<1> QED BY <1>2, <1>3, <1>4, <1>5, <1>6 DEF Next, ClientNext

----------------------------------------------------------------------------
(* The counters *)

LEMMA CountsInit == Init => ClientCounts /\ ServerCounts /\ Printed /\ PollInv
<1> SUFFICES ASSUME Init PROVE ClientCounts /\ ServerCounts /\ Printed /\ PollInv
  OBVIOUS
<1>1. With("ok") = {} /\ With("failed") = {} /\ Counted = {} /\ Added = {}
  BY DEF Init, With, Counted, Added
<1>2. ClientCounts /\ ServerCounts
  BY <1>1, NoneYet DEF Init, ClientCounts, ServerCounts, Unfinished
<1>3. Printed /\ PollInv
  BY NoneYet DEF Init, Printed, PollInv
<1> QED BY <1>2, <1>3

\* a request that is settled is one more of its outcome, and none less of the other
LEMMA Settles ==
  ASSUME RegularTypes, i \in Requests, outcome[i] = "pending", NEW o \in {"ok", "failed"},
         NEW p \in {"ok", "failed"}, p # o, outcome' = [outcome EXCEPT ![i] = o]
  PROVE  /\ Cardinality(With(o)') = Cardinality(With(o)) + 1
         /\ With(p)' = With(p)
<1>1. With(o)' = With(o) \cup {i} /\ i \notin With(o) /\ With(p)' = With(p)
  BY DEF RegularTypes, With
<1>2. With(o) \in SUBSET Requests
  BY DEF With
<1> QED BY <1>1, <1>2, RequestSets

LEMMA Countable ==
  \A o : With(o) \in SUBSET Requests /\ Cardinality(With(o)) \in Nat
<1>1. \A o : With(o) \in SUBSET Requests
  BY DEF With
<1> QED BY <1>1, RequestSets

LEMMA ClientCountsStep ==
  RegularTypes /\ ClientInv /\ ClientCounts /\ [Next]_vars => ClientCounts'
<1> SUFFICES ASSUME RegularTypes, ClientInv, ClientCounts, [Next]_vars PROVE ClientCounts'
  OBVIOUS
<1>1. /\ completed_requests \in Nat /\ failed_requests \in Nat /\ total_bytes_sent \in Nat
      /\ Size \in Nat
  BY RegularAssumption DEF RegularTypes
<1>2. CASE AddBytes
  <2>1. i \in Requests /\ outcome[i] = "pending" /\ outcome' = [outcome EXCEPT ![i] = "ok"]
    BY <1>2 DEF AddBytes, ClientInv, Busy
  <2>2. Cardinality(With("ok")') = Cardinality(With("ok")) + 1 /\ With("failed")' = With("failed")
    BY <2>1, Settles
  <2>3. Unfinished = 0 /\ Unfinished' = 1 /\ total_bytes_sent' = total_bytes_sent + Size
        /\ UNCHANGED <<completed_requests, failed_requests>>
    BY <1>2 DEF AddBytes, Unfinished
  <2>4. Size * (Cardinality(With("ok")) + 1) = Size * Cardinality(With("ok")) + Size
    BY Countable, TimesSize
  <2>5. total_bytes_sent' = Size * Cardinality(With("ok")')
    BY <2>2, <2>3, <2>4 DEF ClientCounts
  <2>6. completed_requests' + Unfinished' = Cardinality(With("ok")') + Cardinality(With("failed")')
    BY <1>1, <2>2, <2>3, Countable DEF ClientCounts
  <2> QED BY <2>2, <2>3, <2>5, <2>6 DEF ClientCounts
<1>3. CASE CountFailed
  <2>1. i \in Requests /\ outcome[i] = "pending" /\ outcome' = [outcome EXCEPT ![i] = "failed"]
    BY <1>3 DEF CountFailed, ClientInv, Busy
  <2>2. Cardinality(With("failed")') = Cardinality(With("failed")) + 1 /\ With("ok")' = With("ok")
    BY <2>1, Settles
  <2>3. Unfinished = 0 /\ Unfinished' = 1 /\ failed_requests' = failed_requests + 1
        /\ UNCHANGED <<completed_requests, total_bytes_sent>>
    BY <1>3 DEF CountFailed, Unfinished
  <2>4. completed_requests' + Unfinished' = Cardinality(With("ok")') + Cardinality(With("failed")')
    BY <1>1, <2>2, <2>3, Countable DEF ClientCounts
  <2> QED BY <2>2, <2>3, <2>4 DEF ClientCounts
<1>4. CASE CountCompleted
  <2>1. Unfinished = 1 /\ Unfinished' = 0 /\ completed_requests' = completed_requests + 1
        /\ UNCHANGED <<failed_requests, total_bytes_sent, outcome>>
    BY <1>4 DEF CountCompleted, Unfinished
  <2>2. completed_requests' + Unfinished' = completed_requests + Unfinished
    BY <1>1, <2>1
  <2> QED BY <2>1, <2>2 DEF ClientCounts, With
<1>5. ASSUME UNCHANGED <<outcome, failed_requests, completed_requests, total_bytes_sent>>,
             Unfinished' = Unfinished
      PROVE  ClientCounts'
  BY <1>5 DEF ClientCounts, With
<1>6. CASE Send \/ Receive \/ GiveUp \/ Report
  BY <1>5, <1>6 DEF Send, Receive, GiveUp, Report, Unfinished
<1>7. CASE ServerNext
  BY <1>5, <1>7 DEF ServerNext, Serve, Count, AddTotal, Answer, PollBegin, PollCount, PollBytes,
                    clientVars, Unfinished
<1>8. CASE UNCHANGED vars
  BY <1>5, <1>8 DEF vars, clientVars, Unfinished
<1> QED BY <1>2, <1>3, <1>4, <1>6, <1>7, <1>8 DEF Next, ClientNext

LEMMA ServerCountsStep == RegularTypes /\ ClientInv /\ ServerCounts /\ [Next]_vars => ServerCounts'
<1> SUFFICES ASSUME RegularTypes, ClientInv, ServerCounts, [Next]_vars, upload' PROVE ServerCounts'
  BY DEF ServerCounts
<1>1. upload' = upload /\ handler \in [Requests -> Places]
  BY DEF RegularTypes, Next, ClientNext, ServerNext, Send, Receive, GiveUp, AddBytes, CountFailed,
         CountCompleted, Report, Serve, Count, AddTotal, Answer, PollBegin, PollCount, PollBytes,
         vars
<1>2. /\ Counted \in SUBSET Requests /\ Added \in SUBSET Requests
      /\ Cardinality(Added) \in Nat
  <2>1. Counted \in SUBSET Requests /\ Added \in SUBSET Requests
    BY DEF Counted, Added
  <2> QED BY <2>1, RequestSets
<1>3. request_count = Cardinality(Counted) /\ total_received_bytes = Size * Cardinality(Added)
  BY <1>1 DEF ServerCounts
<1>4. ASSUME Counted' = Counted, Added' = Added, UNCHANGED <<request_count, total_received_bytes>>
      PROVE  ServerCounts'
  BY <1>1, <1>3, <1>4 DEF ServerCounts
<1>5. CASE Send
  <2>1. i + 1 \in Requests /\ i + 1 > i
    BY <1>5, RegularAssumption DEF Send, RegularTypes, Requests
  <2>2. handler[i + 1] = "none" /\ (handler' = handler \/ handler' = [handler EXCEPT ![i + 1] = "read"])
    BY <1>5, <2>1 DEF Send, ClientInv
  <2>3. Counted' = Counted /\ Added' = Added
    BY <1>1, <2>1, <2>2 DEF Counted, Added
  <2> QED BY <1>4, <1>5, <2>3 DEF Send
<1>6. ASSUME NEW r \in Requests, Count(r) PROVE ServerCounts'
  <2>1. Counted' = Counted \cup {r} /\ r \notin Counted /\ Added' = Added
    BY <1>1, <1>6 DEF Count, At, Counted, Added
  <2>2. request_count' = request_count + 1 /\ total_received_bytes' = total_received_bytes
    BY <1>6 DEF Count
  <2>3. Cardinality(Counted \cup {r}) = Cardinality(Counted) + 1
    BY <1>2, <2>1, RequestSets
  <2> QED BY <1>3, <2>1, <2>2, <2>3 DEF ServerCounts
<1>7. ASSUME NEW r \in Requests, AddTotal(r) PROVE ServerCounts'
  <2>1. Added' = Added \cup {r} /\ r \notin Added /\ Counted' = Counted
    BY <1>1, <1>7 DEF AddTotal, At, Counted, Added
  <2>2. request_count' = request_count /\ total_received_bytes' = total_received_bytes + Size
    BY <1>7 DEF AddTotal
  <2>3. Cardinality(Added \cup {r}) = Cardinality(Added) + 1
    BY <1>2, <2>1, RequestSets
  <2>4. Size * (Cardinality(Added) + 1) = Size * Cardinality(Added) + Size
    BY <1>2, TimesSize
  <2> QED BY <1>3, <2>1, <2>2, <2>3, <2>4 DEF ServerCounts
<1>8. ASSUME NEW r \in Requests, Serve(r) \/ Answer(r) PROVE ServerCounts'
  <2>1. Counted' = Counted /\ Added' = Added
    BY <1>1, <1>8 DEF Serve, Answer, At, Counted, Added
  <2> QED BY <1>4, <1>8, <2>1 DEF Serve, Answer
<1>9. ASSUME UNCHANGED serverVars PROVE ServerCounts'
  BY <1>4, <1>9 DEF serverVars, Counted, Added
<1>10. CASE \/ Receive \/ GiveUp \/ AddBytes \/ CountFailed \/ CountCompleted \/ Report
            \/ PollBegin \/ PollCount \/ PollBytes \/ UNCHANGED vars
  BY <1>9, <1>10 DEF Receive, GiveUp, AddBytes, CountFailed, CountCompleted, Report, PollBegin,
                     PollCount, PollBytes, vars, serverVars
<1> QED BY <1>5, <1>6, <1>7, <1>8, <1>10 DEF Next, ClientNext, ServerNext

LEMMA PrintedStep == RegularTypes /\ ClientCounts /\ Printed /\ [Next]_vars => Printed'
<1> SUFFICES ASSUME RegularTypes, ClientCounts, Printed, [Next]_vars PROVE Printed'
  OBVIOUS
<1>1. CASE Report
  <2>1. Unfinished = 0 /\ With("ok")' = With("ok") /\ With("failed")' = With("failed")
    BY <1>1 DEF Report, Unfinished, With
  <2>2. /\ summary' = [ok |-> completed_requests, failed |-> failed_requests,
                       bytes |-> total_bytes_sent]
        /\ pc' = "exited" /\ completed_requests \in Nat /\ failed_requests \in Nat
    BY <1>1 DEF Report, RegularTypes
  <2>3. completed_requests = Cardinality(With("ok")) + failed_requests
    BY <2>1, <2>2 DEF ClientCounts
  <2> QED BY <2>1, <2>2, <2>3 DEF ClientCounts, Printed
<1>2. CASE pc = "exited"
  <2>1. UNCHANGED <<pc, outcome, summary>>
    BY <1>2 DEF Next, ClientNext, ServerNext, Send, Receive, GiveUp, AddBytes, CountFailed,
                CountCompleted, Report, Serve, Count, AddTotal, Answer, PollBegin, PollCount,
                PollBytes, clientVars, vars
  <2> QED BY <2>1 DEF Printed, With
<1>3. CASE pc # "exited" /\ ~Report
  <2>1. summary' = summary
    BY <1>3 DEF Next, ClientNext, ServerNext, Send, Receive, GiveUp, AddBytes, CountFailed,
                CountCompleted, Serve, Count, AddTotal, Answer, PollBegin, PollCount,
                PollBytes, clientVars, vars
  <2> QED BY <1>3, <2>1 DEF Printed
<1> QED BY <1>1, <1>2, <1>3

----------------------------------------------------------------------------
(* /request_stats *)

\* the totals of the server grow, and fit together when no upload is half counted
LEMMA TotalsFit ==
  ASSUME RegularTypes, ServerCounts, upload
  PROVE  /\ total_received_bytes <= Size * request_count
         /\ ~HalfCounted => total_received_bytes = Size * request_count
<1>1. Counted \in SUBSET Requests /\ Added \in SUBSET Counted
  BY DEF Counted, Added
<1>2. Cardinality(Counted) \in Nat /\ Cardinality(Added) \in Nat
  BY <1>1, RequestSets
<1>3. Cardinality(Added) <= Cardinality(Counted)
  BY <1>1, RequestSets
<1>4. ~HalfCounted => Counted = Added
  BY DEF HalfCounted, Counted, Added
<1>5. Size * Cardinality(Added) <= Size * Cardinality(Counted)
  BY <1>2, <1>3, TimesSize
<1> QED BY <1>4, <1>5 DEF ServerCounts

LEMMA PollStep == RegularTypes /\ ServerCounts /\ PollInv /\ [Next]_vars => PollInv'
<1> SUFFICES ASSUME RegularTypes, ServerCounts, PollInv, [Next]_vars, upload' PROVE PollInv'
  BY DEF PollInv
<1>1. upload' = upload /\ handler \in [Requests -> Places] /\ request_count \in Nat
      /\ total_received_bytes \in Nat /\ seenBytes \in Nat /\ Size \in Nat /\ poll \in Polls
  BY RegularAssumption
     DEF RegularTypes, Next, ClientNext, ServerNext, Send, Receive, GiveUp, AddBytes, CountFailed,
         CountCompleted, Report, Serve, Count, AddTotal, Answer, PollBegin, PollCount, PollBytes,
         vars
<1>2. /\ total_received_bytes <= Size * request_count
      /\ ~HalfCounted => total_received_bytes = Size * request_count
  BY <1>1, TotalsFit
<1>3. ASSUME UNCHANGED <<pollVars, request_count, total_received_bytes>>,
             HalfCounted' => HalfCounted
      PROVE  PollInv'
  BY <1>1, <1>3 DEF PollInv, pollVars
<1>4. ASSUME NEW r \in Requests, Count(r) PROVE PollInv'
  <2>1. HalfCounted'
    BY <1>1, <1>4 DEF Count, At, HalfCounted
  <2>2. /\ UNCHANGED <<poll, seenCount, seenBytes, total_received_bytes>>
        /\ request_count' = request_count + 1
        /\ disturbed' = (disturbed \/ poll \notin {"idle", "both"})
    BY <1>4, <2>1 DEF Count, Disturb
  <2>3. Size * request_count <= Size * (request_count + 1)
        /\ Size * request_count \in Nat /\ Size * (request_count + 1) \in Nat
    BY <1>1, TimesSize
  <2>4. seenBytes' <= Size * request_count'
    BY <1>1, <2>2, <2>3 DEF PollInv
  <2>5. poll' \in {"none", "count", "bytes"} => disturbed'
    BY <2>2
  <2> QED BY <1>1, <2>2, <2>4, <2>5 DEF PollInv
<1>5. ASSUME NEW r \in Requests, AddTotal(r) PROVE PollInv'
  <2>1. HalfCounted
    BY <1>5 DEF AddTotal, At, HalfCounted
  <2>2. UNCHANGED <<pollVars, request_count>>
    BY <1>5 DEF AddTotal
  <2> QED BY <1>1, <2>1, <2>2 DEF PollInv, pollVars
<1>6. ASSUME NEW r \in Requests, Serve(r) \/ Answer(r) PROVE PollInv'
  <2>1. HalfCounted' => HalfCounted
    BY <1>1, <1>6 DEF Serve, Answer, At, HalfCounted
  <2> QED BY <1>3, <1>6, <2>1 DEF Serve, Answer
<1>7. CASE Send
  <2>1. HalfCounted' => HalfCounted
    BY <1>1, <1>7 DEF Send, HalfCounted
  <2> QED BY <1>3, <1>7, <2>1 DEF Send
<1>8. CASE PollBegin
  <2>1. /\ poll' = "none" /\ disturbed' = HalfCounted
        /\ UNCHANGED <<handler, request_count, seenBytes>>
    BY <1>8 DEF PollBegin
  <2> QED BY <1>1, <2>1 DEF PollInv, HalfCounted
<1>9. CASE PollCount
  <2>1. /\ poll \in {"none", "bytes"} /\ seenCount' = request_count
        /\ poll' = IF poll = "none" THEN "count" ELSE "both"
        /\ UNCHANGED <<handler, request_count, total_received_bytes, seenBytes, disturbed>>
    BY <1>9 DEF PollCount
  <2>2. HalfCounted' = HalfCounted
    BY <2>1 DEF HalfCounted
  <2> QED BY <1>1, <1>2, <2>1, <2>2 DEF PollInv
<1>10. CASE PollBytes
  <2>1. /\ poll \in {"none", "count"} /\ seenBytes' = total_received_bytes
        /\ poll' = IF poll = "none" THEN "bytes" ELSE "both"
        /\ UNCHANGED <<handler, request_count, total_received_bytes, seenCount, disturbed>>
    BY <1>10 DEF PollBytes
  <2>2. HalfCounted' = HalfCounted
    BY <2>1 DEF HalfCounted
  <2> QED BY <1>1, <1>2, <2>1, <2>2 DEF PollInv
<1>11. CASE \/ Receive \/ GiveUp \/ AddBytes \/ CountFailed \/ CountCompleted \/ Report
            \/ UNCHANGED vars
  BY <1>3, <1>11 DEF Receive, GiveUp, AddBytes, CountFailed, CountCompleted, Report, vars,
                     HalfCounted
<1> QED BY <1>4, <1>5, <1>6, <1>7, <1>8, <1>9, <1>10, <1>11 DEF Next, ClientNext, ServerNext

----------------------------------------------------------------------------
(* The theorems *)

LEMMA RegularAlways == Spec => []RegularInv
<1>1. Init => RegularInv
  BY TypeInit, PathInit, CountsInit DEF RegularInv
<1>2. RegularInv /\ [Next]_vars => RegularInv'
  BY TypeStep, PathStep, ClientCountsStep, ServerCountsStep, PrintedStep, PollStep
     DEF RegularInv
<1> QED BY <1>1, <1>2, PTL DEF Spec

\* The failures and the bytes that regular_httplib_client.cpp prints are those of its
\* requests, and the bytes it claims were added by the server's handler of
\* /receive_data, which also ends what the client gave up.
THEOREM PrintsTruth == Spec => []BytesTrue
<1>1. RegularInv => BytesTrue
  <2> SUFFICES ASSUME RegularInv, upload PROVE total_bytes_sent <= total_received_bytes
    BY DEF RegularInv, Printed, BytesTrue
  <2>1. With("ok") \in SUBSET Added /\ Added \in SUBSET Requests
    BY DEF RegularInv, ClientInv, With, Added
  <2>2. Cardinality(With("ok")) <= Cardinality(Added) /\ Cardinality(Added) \in Nat
    BY <2>1, RequestSets
  <2>3. Size * Cardinality(With("ok")) <= Size * Cardinality(Added)
    BY <2>2, Countable, TimesSize
  <2> QED BY <2>3 DEF RegularInv, ClientCounts, ServerCounts
<1> QED BY <1>1, RegularAlways, PTL

\* The two counters that the handler of /request_stats reads one after the other fit
\* together unless an upload stood between its own two additions meanwhile, and the
\* bytes are never more than those of the uploads counted.
THEOREM StatsAreFit == Spec => []StatsFit
<1>1. RegularInv => StatsFit
  BY DEF RegularInv, PollInv, StatsFit
<1> QED BY <1>1, RegularAlways, PTL

----------------------------------------------------------------------------
(* The seastar transfer *)

\* handle_connection() comes to out.write() and stays in it only while data is left
WritesRest == \A c \in Clients : handling[c] \in {"none", "writing"} => written[c] < Blocks

TransferInv == TypeOK /\ NothingLost /\ WritesRest

LEMMA BlocksNat == Blocks \in Nat \ {0} /\ Room \in Nat \ {0}
  BY TransferAssumption

----------------------------------------------------------------------------
LEMMA TransferStarts == TransferInit => TransferInv
  BY BlocksNat DEF TransferInit, TransferInv, TypeOK, NothingLost, WritesRest, HandlerPC, ClientPC

\* The data part: one step per action of the handler, the client, the network.
LEMMA TransferKeeps == TransferInv /\ [TransferNext]_transferVars => TransferInv'
<1> SUFFICES ASSUME TransferInv, [TransferNext]_transferVars PROVE TransferInv'
  OBVIOUS
<1> USE BlocksNat DEF TransferInv, TypeOK, NothingLost, WritesRest, HandlerPC, ClientPC
<1>1. ASSUME NEW c \in Clients, Accept(c) PROVE TransferInv'
  BY <1>1 DEF Accept, Accepts, connection
<1>2. ASSUME NEW c \in Clients, Write(c) PROVE TransferInv'
  BY <1>2 DEF Write, Move
<1>3. ASSUME NEW c \in Clients, Flush(c) PROVE TransferInv'
  BY <1>3 DEF Flush, Move, connection
<1>4. ASSUME NEW c \in Clients, CloseOut(c) PROVE TransferInv'
  BY <1>4 DEF CloseOut, Move
<1>5. ASSUME NEW c \in Clients, CloseIn(c) PROVE TransferInv'
  BY <1>5 DEF CloseIn, Move, connection
<1>6. ASSUME NEW c \in Clients, Fail(c) PROVE TransferInv'
  BY <1>6 DEF Fail
<1>7. ASSUME NEW c \in Clients, Connect(c) PROVE TransferInv'
  BY <1>7 DEF Connect, connection
<1>8. ASSUME NEW c \in Clients, TransferEnds(c) PROVE TransferInv'
  BY <1>8 DEF TransferEnds, connection
<1>9. ASSUME NEW c \in Clients, Read(c) PROVE TransferInv'
  BY <1>9 DEF Read
<1>10. ASSUME NEW c \in Clients, ReadFails(c) PROVE TransferInv'
  BY <1>10 DEF ReadFails, connection
<1>11. ASSUME NEW c \in Clients, CloseStreams(c) PROVE TransferInv'
  BY <1>11 DEF CloseStreams, connection
<1>12. ASSUME NEW c \in Clients, Lose(c) PROVE TransferInv'
  BY <1>12 DEF Lose
<1>13. ASSUME UNCHANGED transferVars PROVE TransferInv'
  BY <1>13 DEF transferVars, connection
<1> QED
  BY <1>1, <1>2, <1>3, <1>4, <1>5, <1>6, <1>7, <1>8, <1>9, <1>10, <1>11, <1>12, <1>13
  DEF TransferNext, HandlerStep, ClientStep, ReadEof, Idle

\* Every reachable state is well typed: no counter leaves its range, so neither
\* end moves more than DATA_SIZE (regular_seastar_client.cpp:25-48).
THEOREM TransferTypes == TransferSafety => []TypeOK
<1>1. TransferInv => TypeOK
  BY DEF TransferInv
<1> QED BY TransferStarts, TransferKeeps, <1>1, PTL DEF TransferSafety

\* What the server wrote was read or is in the channel, and a client that says
\* "Transfer complete" has all of it (regular_seastar_client.cpp:46-54).
THEOREM TransferWhole == TransferSafety => []NothingLost
<1>1. TransferInv => NothingLost
  BY DEF TransferInv
<1> QED BY TransferStarts, TransferKeeps, <1>1, PTL DEF TransferSafety

----------------------------------------------------------------------------
(* One connection at a time: the accept loop is busy while a handler is active *)

LEMMA BufferStep == TypeOK /\ OneBuffer /\ [TransferNext]_transferVars => OneBuffer'
<1> SUFFICES ASSUME TypeOK, OneBuffer, [TransferNext]_transferVars PROVE OneBuffer'
  OBVIOUS
<1> USE DEF TypeOK, OneBuffer, Active, HandlerPC
<1>1. ASSUME NEW c \in Clients, Accept(c) PROVE OneBuffer'
  BY <1>1 DEF Accept, Accepts
<1>2. ASSUME NEW c \in Clients, Write(c) \/ Flush(c) \/ CloseOut(c) PROVE OneBuffer'
  BY <1>2 DEF Write, Flush, CloseOut, Move
<1>3. ASSUME NEW c \in Clients, CloseIn(c) \/ Fail(c) PROVE OneBuffer'
  BY <1>3 DEF CloseIn, Fail, Move
<1>4. ASSUME UNCHANGED <<loop, handling>> PROVE OneBuffer'
  BY <1>4
<1> QED
  BY <1>1, <1>2, <1>3, <1>4
  DEF TransferNext, HandlerStep, ClientStep, Connect, TransferEnds, Read, ReadEof, ReadFails,
      CloseStreams, Lose, Idle, transferVars

\* The server holds one buffer of DATA_SIZE at most, however many clients
\* connect: service_loop() waits for handle_connection()
\* (regular_seastar_server.cpp:51-66).
THEOREM OneAtATime == TransferSafety => []OneBuffer
<1>1. TransferInit => OneBuffer
  BY DEF TransferInit, OneBuffer, Active
<1>2. TransferInv => TypeOK
  BY DEF TransferInv
<1> QED BY TransferStarts, TransferKeeps, BufferStep, <1>1, <1>2, PTL DEF TransferSafety
=============================================================================
