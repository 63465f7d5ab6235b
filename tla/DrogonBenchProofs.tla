------------------------- MODULE DrogonBenchProofs -------------------------
(***************************************************************************)
(* Proofs about the drogon clients and their server for any number of      *)
(* threads and requests: the loop is stopped by the last callback, the two *)
(* programs agree, and each client keeps the benchmark's tally.            *)
(***************************************************************************)
EXTENDS DrogonBench, TLAPS, FiniteSetTheorems

Completed == {r \in Requests : callback[r] \in {"completed", "done"}}
Counted   == {r \in Requests : handler[r] # "none"}
Added     == {r \in Requests : handler[r] \in {"added", "answered"}}

ControlTypes == /\ main \in {"spawn", "run", "join", "printed"}
                /\ thread \in [Threads -> {"none", "posting", "returned"}]
                /\ posted \in [Threads -> 0..PerThread]
RequestTypes == /\ request \in [Requests -> {"none", "sent", "ok", "failed"}]
                /\ handler \in [Requests -> {"none", "counted", "added", "answered"}]
                /\ callback \in [Requests -> {"none", "counted", "completed", "done"}]
                /\ outcome \in [Requests -> {"pending", "ok", "failed"}]
CounterTypes == /\ request_count \in Nat /\ total_received_bytes \in Nat
                /\ total_bytes_sent \in Nat
                /\ completed_requests \in Nat /\ failed_requests \in Nat

TypeOK == ControlTypes /\ RequestTypes /\ CounterTypes

\* what a request has been through, at the client and at the server
PathInv == \A r \in Requests :
             /\ callback[r] = "none" <=> outcome[r] = "pending"
             /\ outcome[r] # "pending" => request[r] = outcome[r]
             /\ request[r] = "ok" => handler[r] = "answered"
             /\ request[r] # "none" => r[2] <= posted[r[1]]

\* each counter counts what its name says
ClientCounts == /\ completed_requests = Cardinality(Completed)
                /\ failed_requests = Cardinality(With("failed"))
                /\ ~concurrent => total_bytes_sent = Size * Cardinality(With("ok"))
ServerCounts == /\ request_count = Cardinality(Counted)
                /\ total_received_bytes = Size * Cardinality(Added)

\* the loop is stopped by its last callback and main() prints after it
QuitInv == quit => Completed = Requests
MainInv == /\ main \in {"join", "printed"} => quit
           /\ main # "printed" => summary = NoSummary
           /\ main = "printed" =>
                summary = [ok |-> total_requests - failed_requests, failed |-> failed_requests,
                           bytes |-> total_bytes_sent]

DrogonInv == TypeOK /\ PathInv /\ ClientCounts /\ ServerCounts /\ QuitInv /\ MainInv

----------------------------------------------------------------------------
(* Sets of requests *)

LEMMA RequestsFinite == IsFiniteSet(Requests)
<1>1. IsFiniteSet(1..PerThread)
  BY DrogonAssumption, FS_Interval
<1> QED BY <1>1, DrogonAssumption, FS_Product DEF Requests

\* a set of requests is finite, one more request is one more element, and a
\* set of as many requests as there are is all of them
LEMMA RequestSets ==
  ASSUME NEW S \in SUBSET Requests
  PROVE  /\ IsFiniteSet(S) /\ Cardinality(S) \in Nat
         /\ \A r \in Requests : r \notin S => Cardinality(S \cup {r}) = Cardinality(S) + 1
         /\ \A T \in SUBSET S : Cardinality(T) <= Cardinality(S)
         /\ Cardinality(S) = total_requests => S = Requests
<1>1. IsFiniteSet(S)
  BY RequestsFinite, FS_Subset
<1>2. Cardinality(S) \in Nat
  BY <1>1, FS_CardinalityType
<1>3. \A r \in Requests : r \notin S => Cardinality(S \cup {r}) = Cardinality(S) + 1
  BY <1>1, FS_AddElement
<1>4. \A T \in SUBSET S : Cardinality(T) <= Cardinality(S)
  BY <1>1, FS_Subset
<1>5. Cardinality(S) = total_requests => S = Requests
  BY RequestsFinite, FS_Subset DEF total_requests
<1> QED BY <1>1, <1>2, <1>3, <1>4, <1>5

LEMMA TimesSize ==
  ASSUME NEW a \in Nat, NEW b \in Nat
  PROVE  /\ Size * a \in Nat
         /\ Size * (a + 1) = Size * a + Size
         /\ a <= b => Size * a <= Size * b
<1>1. Size \in Nat
  BY DrogonAssumption
<1> QED BY <1>1, SMT

\* when nothing is pending each request is a success or a failure
LEMMA Partition ==
  ASSUME RequestTypes, With("pending") = {}
  PROVE  total_requests = Cardinality(With("ok")) + Cardinality(With("failed"))
<1>1. With("ok") \cup With("failed") = Requests /\ With("ok") \cap With("failed") = {}
  BY DEF RequestTypes, With
<1>2. With("ok") \in SUBSET Requests /\ With("failed") \in SUBSET Requests
  BY DEF With
<1>3. IsFiniteSet(With("ok")) /\ IsFiniteSet(With("failed"))
  BY <1>2, RequestSets
<1>4. Cardinality(Requests)
        = Cardinality(With("ok")) + Cardinality(With("failed"))
          - Cardinality(With("ok") \cap With("failed"))
  BY ONLY <1>1, <1>3, FS_Union
<1>5. Cardinality(With("ok") \cap With("failed")) = 0
  BY <1>1, FS_EmptySet
<1>6. Cardinality(With("ok")) \in Nat /\ Cardinality(With("failed")) \in Nat
  BY <1>2, RequestSets
<1> QED BY <1>4, <1>5, <1>6 DEF total_requests

----------------------------------------------------------------------------
(* Types *)

LEMMA TypeInit == Init => TypeOK
BY DrogonAssumption DEF Init, TypeOK, ControlTypes, RequestTypes, CounterTypes

LEMMA ControlTypesStep == TypeOK /\ [Next]_vars => ControlTypes'
<1> SUFFICES ASSUME TypeOK, [Next]_vars PROVE ControlTypes'
  OBVIOUS
<1> USE DrogonAssumption DEF TypeOK, ControlTypes
<1>1. ASSUME NEW t \in Threads, ThreadStep(t) PROVE ControlTypes'
  BY <1>1 DEF ThreadStep, Spawn, Post, Return
<1>2. CASE MainStep
  BY <1>2 DEF MainStep, RunLoop, LoopReturns, Report
<1>3. ASSUME UNCHANGED <<main, thread, posted>> PROVE ControlTypes'
  BY <1>3
<1> QED BY <1>1, <1>2, <1>3
        DEF Next, LoopStep, CallbackStep, CountOk, CountFailed, Complete, QuitIfLast, Answer,
            HandlerStep, Count, AddTotal, Respond, clientVars, Stopped, vars

LEMMA RequestTypesStep == TypeOK /\ [Next]_vars => RequestTypes'
<1> SUFFICES ASSUME TypeOK, [Next]_vars PROVE RequestTypes'
  OBVIOUS
<1> USE DEF TypeOK, RequestTypes
<1>1. ASSUME NEW t \in Threads, ThreadStep(t) PROVE RequestTypes'
  BY <1>1 DEF ThreadStep, Spawn, Post, Return, serverVars
<1>2. ASSUME NEW r \in Requests, CallbackStep(r) PROVE RequestTypes'
  BY <1>2 DEF CallbackStep, CountOk, CountFailed, Complete, QuitIfLast, serverVars
<1>3. ASSUME NEW r \in Requests, Answer(r) PROVE RequestTypes'
  BY <1>3 DEF Answer, serverVars
<1>4. ASSUME NEW r \in Requests, HandlerStep(r) PROVE RequestTypes'
  BY <1>4 DEF HandlerStep, Count, AddTotal, Respond, Moves, clientVars
<1>5. ASSUME UNCHANGED <<request, handler, callback, outcome>> PROVE RequestTypes'
  BY <1>5
<1> QED BY <1>1, <1>2, <1>3, <1>4, <1>5
        DEF Next, LoopStep, MainStep, RunLoop, LoopReturns, Report, serverVars, Stopped, vars

LEMMA CounterTypesStep == TypeOK /\ [Next]_vars => CounterTypes'
<1> SUFFICES ASSUME TypeOK, [Next]_vars PROVE CounterTypes'
  OBVIOUS
<1> USE DrogonAssumption DEF TypeOK, CounterTypes
<1>1. ASSUME NEW r \in Requests, CallbackStep(r) PROVE CounterTypes'
  BY <1>1 DEF CallbackStep, CountOk, DataSize, CountFailed, Complete, QuitIfLast, counters,
              serverVars
<1>2. ASSUME NEW r \in Requests, HandlerStep(r) PROVE CounterTypes'
  BY <1>2 DEF HandlerStep, Count, AddTotal, Respond, clientVars, counters
<1>3. ASSUME UNCHANGED <<counters, serverVars>> PROVE CounterTypes'
  BY <1>3 DEF counters, serverVars
<1> QED BY <1>1, <1>2, <1>3
        DEF Next, LoopStep, ThreadStep, Spawn, Post, Return, MainStep, RunLoop, LoopReturns,
            Report, Answer, Stopped, vars, counters

LEMMA TypeStep == TypeOK /\ [Next]_vars => TypeOK'
BY ControlTypesStep, RequestTypesStep, CounterTypesStep DEF TypeOK

----------------------------------------------------------------------------
(* The way of a request *)

LEMMA PathInit == Init => PathInv
BY DEF Init, PathInv

LEMMA PathStep == TypeOK /\ PathInv /\ [Next]_vars => PathInv'
<1> SUFFICES ASSUME TypeOK, PathInv, [Next]_vars PROVE PathInv'
  OBVIOUS
<1> USE DEF TypeOK, ControlTypes, RequestTypes, PathInv
<1>1. ASSUME NEW t \in Threads, Post(t) PROVE PathInv'
  <2>1. /\ request' = [request EXCEPT ![<<t, posted[t] + 1>>] = "sent"]
        /\ posted' = [posted EXCEPT ![t] = @ + 1]
        /\ UNCHANGED <<callback, outcome, handler>>
    BY <1>1 DEF Post, serverVars
  <2>2. ASSUME NEW r \in Requests
        PROVE  /\ outcome[r] # "pending" => request'[r] = outcome[r]
               /\ request'[r] = "ok" => handler[r] = "answered"
               /\ request'[r] # "none" => r[2] <= posted'[r[1]]
    <3>1. PICK u \in Threads, i \in 1..PerThread : r = <<u, i>>
      BY DEF Requests
    <3>2. posted'[u] = (IF u = t THEN posted[u] + 1 ELSE posted[u]) /\ posted[u] \in Nat
          /\ posted[t] \in Nat
      BY <2>1
    <3>3. CASE u = t /\ i = posted[t] + 1
      <4>1. request[r] = "none"
        BY <3>1, <3>2, <3>3
      <4>2. outcome[r] = "pending"
        BY <4>1
      <4>3. request'[r] = "sent"
        BY <2>1, <3>1, <3>3
      <4> QED BY <3>1, <3>2, <3>3, <4>2, <4>3
    <3>4. CASE ~(u = t /\ i = posted[t] + 1)
      <4>1. request'[r] = request[r]
        BY <2>1, <3>1, <3>4
      <4> QED BY <3>1, <3>2, <4>1
    <3> QED BY <3>3, <3>4
  <2> QED BY <2>1, <2>2
<1>2. ASSUME NEW q \in Requests, Answer(q) PROVE PathInv'
  <2>1. PICK a \in {"ok", "failed"} : /\ a = "ok" => handler[q] = "answered"
                                      /\ request' = [request EXCEPT ![q] = a]
    BY <1>2 DEF Answer
  <2>2. UNCHANGED <<posted, callback, outcome, handler>> /\ request[q] = "sent"
    BY <1>2 DEF Answer, serverVars
  <2>3. outcome[q] = "pending"
    BY <2>2
  <2> QED BY <2>1, <2>2, <2>3
<1>3. ASSUME NEW q \in Requests, CallbackStep(q) PROVE PathInv'
  <2>1. UNCHANGED <<request, posted, handler>>
    BY <1>3 DEF CallbackStep, CountOk, CountFailed, Complete, QuitIfLast, serverVars
  <2>2. CASE CountOk(q)
    BY <2>1, <2>2 DEF CountOk
  <2>3. CASE CountFailed(q)
    BY <2>1, <2>3 DEF CountFailed
  <2>4. CASE Complete(q)
    BY <2>1, <2>4 DEF Complete
  <2>5. CASE QuitIfLast(q)
    BY <2>1, <2>5 DEF QuitIfLast
  <2> QED BY <1>3, <2>2, <2>3, <2>4, <2>5 DEF CallbackStep
<1>4. ASSUME NEW q \in Requests, HandlerStep(q) PROVE PathInv'
  <2>1. UNCHANGED <<request, posted, callback, outcome>>
    BY <1>4 DEF HandlerStep, Count, AddTotal, Respond, clientVars
  <2>2. \A r \in Requests : handler[r] = "answered" => handler'[r] = "answered"
    BY <1>4 DEF HandlerStep, Count, AddTotal, Respond, Moves
  <2> QED BY <2>1, <2>2
<1>5. ASSUME UNCHANGED <<request, posted, callback, outcome, handler>> PROVE PathInv'
  BY <1>5
<1> QED BY <1>1, <1>2, <1>3, <1>4, <1>5
        DEF Next, LoopStep, ThreadStep, Spawn, Return, MainStep, RunLoop, LoopReturns, Report,
            Stopped, vars, serverVars

----------------------------------------------------------------------------
(* The counters *)

LEMMA CountsInit == Init => ClientCounts /\ ServerCounts
<1> SUFFICES ASSUME Init PROVE ClientCounts /\ ServerCounts
  OBVIOUS
<1>1. /\ Completed = {} /\ With("failed") = {} /\ With("ok") = {}
      /\ Counted = {} /\ Added = {}
  BY DEF Init, Completed, With, Counted, Added
<1>2. Size * 0 = 0
  BY DrogonAssumption
<1> QED BY <1>1, <1>2, FS_EmptySet DEF Init, ClientCounts, ServerCounts

LEMMA ClientCountsStep == TypeOK /\ PathInv /\ ClientCounts /\ [Next]_vars => ClientCounts'
<1> SUFFICES ASSUME TypeOK, PathInv, ClientCounts, [Next]_vars PROVE ClientCounts'
  OBVIOUS
<1> USE DEF TypeOK, RequestTypes
<1>0. /\ Completed \in SUBSET Requests /\ With("ok") \in SUBSET Requests
      /\ With("failed") \in SUBSET Requests
  BY DEF Completed, With
<1>1. ASSUME NEW r \in Requests, CountOk(r) PROVE ClientCounts'
  <2>1. /\ callback[r] = "none" /\ callback' = [callback EXCEPT ![r] = "counted"]
        /\ outcome' = [outcome EXCEPT ![r] = "ok"] /\ outcome[r] = "pending"
        /\ UNCHANGED <<completed_requests, failed_requests, concurrent>>
    BY <1>1 DEF CountOk, Called, PathInv
  <2>2. Completed' = Completed /\ With("failed")' = With("failed")
    BY <2>1 DEF Completed, With
  <2>3. With("ok")' = With("ok") \cup {r} /\ r \notin With("ok")
    BY <2>1 DEF With
  <2>4. Cardinality(With("ok")') = Cardinality(With("ok")) + 1
        /\ Cardinality(With("ok")) \in Nat
    BY <1>0, <2>3, RequestSets
  <2>5. Size * Cardinality(With("ok")') = Size * Cardinality(With("ok")) + Size
    BY <2>4, TimesSize
  <2>6. ~concurrent => total_bytes_sent' = total_bytes_sent + Size
    BY <1>1 DEF CountOk, DataSize
  <2> QED BY <2>1, <2>2, <2>5, <2>6 DEF ClientCounts
<1>2. ASSUME NEW r \in Requests, CountFailed(r) PROVE ClientCounts'
  <2>1. /\ callback[r] = "none" /\ callback' = [callback EXCEPT ![r] = "counted"]
        /\ outcome' = [outcome EXCEPT ![r] = "failed"] /\ outcome[r] = "pending"
        /\ failed_requests' = failed_requests + 1
        /\ UNCHANGED <<completed_requests, total_bytes_sent, concurrent>>
    BY <1>2 DEF CountFailed, Called, PathInv
  <2>2. Completed' = Completed /\ With("ok")' = With("ok")
    BY <2>1 DEF Completed, With
  <2>3. With("failed")' = With("failed") \cup {r} /\ r \notin With("failed")
    BY <2>1 DEF With
  <2>4. Cardinality(With("failed")') = Cardinality(With("failed")) + 1
    BY <1>0, <2>3, RequestSets
  <2> QED BY <2>1, <2>2, <2>4 DEF ClientCounts
<1>3. ASSUME NEW r \in Requests, Complete(r) PROVE ClientCounts'
  <2>1. /\ callback[r] = "counted" /\ callback' = [callback EXCEPT ![r] = "completed"]
        /\ completed_requests' = completed_requests + 1
        /\ UNCHANGED <<outcome, failed_requests, total_bytes_sent, concurrent>>
    BY <1>3 DEF Complete
  <2>2. With("ok")' = With("ok") /\ With("failed")' = With("failed")
    BY <2>1 DEF With
  <2>3. Completed' = Completed \cup {r} /\ r \notin Completed
    BY <2>1 DEF Completed
  <2>4. Cardinality(Completed') = Cardinality(Completed) + 1
    BY <1>0, <2>3, RequestSets
  <2> QED BY <2>1, <2>2, <2>4 DEF ClientCounts
<1>4. ASSUME /\ UNCHANGED <<outcome, counters, concurrent>>
             /\ \A r \in Requests : callback'[r] \in {"completed", "done"}
                                      <=> callback[r] \in {"completed", "done"}
      PROVE  ClientCounts'
  <2>1. /\ Completed' = Completed /\ With("ok")' = With("ok")
        /\ With("failed")' = With("failed")
    BY <1>4 DEF Completed, With
  <2> QED BY <1>4, <2>1 DEF ClientCounts, counters
<1>5. ASSUME NEW r \in Requests, QuitIfLast(r) PROVE ClientCounts'
  BY <1>4, <1>5 DEF QuitIfLast
<1>6. ASSUME UNCHANGED <<outcome, counters, concurrent, callback>> PROVE ClientCounts'
  BY <1>4, <1>6
<1> QED BY <1>1, <1>2, <1>3, <1>5, <1>6
        DEF Next, LoopStep, CallbackStep, ThreadStep, Spawn, Post, Return, MainStep, RunLoop,
            LoopReturns, Report, Answer, HandlerStep, Count, AddTotal, Respond, clientVars,
            counters, Stopped, vars

LEMMA ServerCountsStep == TypeOK /\ ServerCounts /\ [Next]_vars => ServerCounts'
<1> SUFFICES ASSUME TypeOK, ServerCounts, [Next]_vars PROVE ServerCounts'
  OBVIOUS
<1> USE DEF TypeOK, RequestTypes, Moves
<1>0. Counted \in SUBSET Requests /\ Added \in SUBSET Requests
  BY DEF Counted, Added
<1>1. ASSUME NEW r \in Requests, Count(r) PROVE ServerCounts'
  <2>1. /\ handler[r] = "none" /\ handler' = [handler EXCEPT ![r] = "counted"]
        /\ request_count' = request_count + 1
        /\ total_received_bytes' = total_received_bytes
    BY <1>1 DEF Count
  <2>2. Counted' = Counted \cup {r} /\ r \notin Counted /\ Added' = Added
    BY <2>1 DEF Counted, Added
  <2>3. Cardinality(Counted') = Cardinality(Counted) + 1
    BY <1>0, <2>2, RequestSets
  <2> QED BY <2>1, <2>2, <2>3 DEF ServerCounts
<1>2. ASSUME NEW r \in Requests, AddTotal(r) PROVE ServerCounts'
  <2>1. /\ handler[r] = "counted" /\ handler' = [handler EXCEPT ![r] = "added"]
        /\ total_received_bytes' = total_received_bytes + Size
        /\ request_count' = request_count
    BY <1>2 DEF AddTotal
  <2>2. Added' = Added \cup {r} /\ r \notin Added /\ Counted' = Counted
    BY <2>1 DEF Counted, Added
  <2>3. Cardinality(Added') = Cardinality(Added) + 1 /\ Cardinality(Added) \in Nat
    BY <1>0, <2>2, RequestSets
  <2>4. Size * Cardinality(Added') = Size * Cardinality(Added) + Size
    BY <2>3, TimesSize
  <2> QED BY <2>1, <2>2, <2>4 DEF ServerCounts
<1>3. ASSUME NEW r \in Requests, Respond(r) PROVE ServerCounts'
  <2>1. Added' = Added /\ Counted' = Counted
    BY <1>3 DEF Respond, Counted, Added
  <2> QED BY <1>3, <2>1 DEF Respond, ServerCounts
<1>4. ASSUME UNCHANGED serverVars PROVE ServerCounts'
  BY <1>4 DEF serverVars, ServerCounts, Counted, Added
<1> QED BY <1>1, <1>2, <1>3, <1>4
        DEF Next, LoopStep, CallbackStep, CountOk, CountFailed, Complete, QuitIfLast,
            ThreadStep, Spawn, Post, Return, MainStep, RunLoop, LoopReturns, Report, Answer,
            HandlerStep, Stopped, vars

----------------------------------------------------------------------------
(* The end of the loop, and of main() *)

LEMMA QuitStep == TypeOK /\ ClientCounts /\ QuitInv /\ [Next]_vars => QuitInv'
<1> SUFFICES ASSUME TypeOK, ClientCounts, QuitInv, [Next]_vars PROVE QuitInv'
  OBVIOUS
<1> USE DEF TypeOK, RequestTypes
<1>1. Completed \subseteq Completed' /\ Completed' \in SUBSET Requests
  <2>1. ASSUME NEW r \in Requests, CallbackStep(r) PROVE Completed \subseteq Completed'
    BY <2>1 DEF CallbackStep, CountOk, CountFailed, Complete, QuitIfLast, Called, Completed
  <2>2. ASSUME UNCHANGED callback PROVE Completed \subseteq Completed'
    BY <2>2 DEF Completed
  <2>3. Completed \subseteq Completed'
    BY <2>1, <2>2
       DEF Next, LoopStep, ThreadStep, Spawn, Post, Return, MainStep, RunLoop, LoopReturns,
           Report, Answer, HandlerStep, Count, AddTotal, Respond, clientVars, Stopped, vars
  <2> QED BY <2>3 DEF Completed
<1>2. ASSUME quit' = quit PROVE QuitInv'
  BY <1>1, <1>2 DEF QuitInv
<1>3. ASSUME NEW r \in Requests, QuitIfLast(r) PROVE QuitInv'
  <2>1. quit' = (quit \/ completed_requests = total_requests)
    BY <1>3 DEF QuitIfLast
  <2>2. completed_requests = total_requests => Completed = Requests
    BY RequestSets DEF ClientCounts, Completed
  <2> QED BY <1>1, <2>1, <2>2 DEF QuitInv
<1> QED BY <1>2, <1>3
        DEF Next, LoopStep, CallbackStep, CountOk, CountFailed, Complete, ThreadStep, Spawn,
            Post, Return, MainStep, RunLoop, LoopReturns, Report, Answer, HandlerStep, Count,
            AddTotal, Respond, clientVars, Stopped, vars

\* when the loop has been stopped nothing is pending
LEMMA QuitSettles ==
  ASSUME TypeOK, PathInv, QuitInv, quit PROVE With("pending") = {}
BY DEF PathInv, QuitInv, Completed, With, TypeOK, RequestTypes

LEMMA MainInit == Init => QuitInv /\ MainInv
BY DEF Init, QuitInv, MainInv

LEMMA MainStepInv == TypeOK /\ MainInv /\ [Next]_vars => MainInv'
<1> SUFFICES ASSUME TypeOK, MainInv, [Next]_vars PROVE MainInv'
  OBVIOUS
<1>1. CASE RunLoop
  BY <1>1 DEF RunLoop, MainInv
<1>2. CASE LoopReturns
  BY <1>2 DEF LoopReturns, MainInv
<1>3. CASE Report
  BY <1>3 DEF Report, MainInv, counters
<1>4. ASSUME NEW r \in Requests, QuitIfLast(r) PROVE MainInv'
  BY <1>4 DEF QuitIfLast, MainInv, counters
<1>5. ASSUME NEW r \in Requests, CountOk(r) \/ CountFailed(r) PROVE MainInv'
  BY <1>5 DEF CountOk, CountFailed, Called, MainInv
<1>6. ASSUME NEW r \in Requests, Complete(r) PROVE MainInv'
  BY <1>6 DEF Complete, MainInv
<1>7. ASSUME UNCHANGED <<main, quit, counters, summary>> PROVE MainInv'
  BY <1>7 DEF MainInv, counters
<1> QED BY <1>1, <1>2, <1>3, <1>4, <1>5, <1>6, <1>7
        DEF Next, MainStep, LoopStep, CallbackStep, ThreadStep, Spawn, Post, Return, Answer,
            HandlerStep, Count, AddTotal, Respond, clientVars, counters, Stopped, vars

LEMMA DrogonAlways == Spec => []DrogonInv
<1>1. Init => DrogonInv
  BY TypeInit, PathInit, CountsInit, MainInit DEF DrogonInv
<1>2. DrogonInv /\ [Next]_vars => DrogonInv'
  BY TypeStep, PathStep, ClientCountsStep, ServerCountsStep, QuitStep, MainStepInv
     DEF DrogonInv
<1> QED BY <1>1, <1>2, PTL DEF Spec

----------------------------------------------------------------------------
(* The theorems *)

\* The callback that stops the event loop is the last one: by then every request
\* is settled, so no callback uses the counters of main() after app().run(), and
\* every thread has posted all its requests, so the join does not wait
\* (concurrent_drogon_client.cpp:37-61, 101-105).
THEOREM LoopStoppedLast == Spec => []QuitLast
<1>1. DrogonInv => QuitLast
  <2> SUFFICES ASSUME DrogonInv, quit
               PROVE  With("pending") = {} /\ \A t \in Threads : posted[t] = PerThread
    BY DEF QuitLast
  <2>1. With("pending") = {}
    BY QuitSettles DEF DrogonInv
  <2>2. ASSUME NEW t \in Threads PROVE posted[t] = PerThread
    <3>1. <<t, PerThread>> \in Requests
      BY DrogonAssumption DEF Requests
    <3>2. outcome[<<t, PerThread>>] # "pending"
      BY <2>1, <3>1 DEF With
    <3>3. request[<<t, PerThread>>] # "none"
      BY <3>1, <3>2 DEF DrogonInv, PathInv, TypeOK, RequestTypes
    <3>4. PerThread <= posted[t]
      BY <3>1, <3>3 DEF DrogonInv, PathInv
    <3> QED BY <3>4, DrogonAssumption DEF DrogonInv, TypeOK, ControlTypes
  <2> QED BY <2>1, <2>2
<1> QED BY <1>1, DrogonAlways, PTL

\* The client's successes and their bytes never exceed what the server has counted
\* and added, and when it has printed and no upload is half handled the server's
\* bytes are one body for each request it counted, of which there are no more than
\* the client reports (regular_drogon_server.cpp:18-47).
THEOREM TwoSidesAgree == Spec => []ServerAgrees
<1>1. DrogonInv => ServerAgrees
  <2> SUFFICES ASSUME DrogonInv PROVE ServerAgrees
    OBVIOUS
  <2>1. With("ok") \in SUBSET Counted /\ With("ok") \in SUBSET Added
    BY DEF DrogonInv, PathInv, With, Counted, Added
  <2>2. Counted \in SUBSET Requests /\ Added \in SUBSET Requests
        /\ With("ok") \in SUBSET Requests /\ With("failed") \in SUBSET Requests
        /\ Requests \in SUBSET Requests
    BY DEF Counted, Added, With
  <2>3. /\ Cardinality(With("ok")) \in Nat /\ Cardinality(Counted) \in Nat
        /\ Cardinality(Added) \in Nat /\ Cardinality(With("failed")) \in Nat
        /\ Cardinality(With("ok")) <= Cardinality(Counted)
        /\ Cardinality(With("ok")) <= Cardinality(Added)
        /\ Cardinality(Counted) <= total_requests
        /\ total_requests \in Nat
    BY <2>1, <2>2, RequestSets DEF total_requests
  <2>4. /\ Cardinality(With("ok")) <= request_count
        /\ Size * Cardinality(With("ok")) <= total_received_bytes
    BY <2>3, TimesSize DEF DrogonInv, ServerCounts
  <2>5. ASSUME main = "printed", \A r \in Requests : handler[r] \in {"none", "answered"}
        PROVE  /\ total_received_bytes = Size * request_count
               /\ request_count <= summary.ok + summary.failed
    <3>1. Added = Counted
      BY <2>5 DEF Added, Counted
    <3>2. summary.ok = total_requests - failed_requests /\ summary.failed = failed_requests
      BY <2>5 DEF DrogonInv, MainInv
    <3>3. summary.ok + summary.failed = total_requests
      BY <2>3, <3>2 DEF DrogonInv, TypeOK, CounterTypes
    <3> QED BY <2>3, <3>1, <3>3 DEF DrogonInv, ServerCounts
  <2> QED BY <2>4, <2>5 DEF ServerAgrees
<1> QED BY <1>1, DrogonAlways, PTL

\* The Cardinality of the abstract module is the one of this module.
LEMMA SameCardinality == \A S : Tally!Cardinality(S) = Cardinality(S)
BY DEF Tally!Cardinality, Cardinality

\* what the abstract module sees of the summary
Shown == IF concurrent /\ summary # NoSummary
         THEN [summary EXCEPT !.bytes = Size * Cardinality(With("ok"))]
         ELSE summary

LEMMA TallyStep ==
  ASSUME DrogonInv, DrogonInv', [Next]_vars
  PROVE  [Tally!TallyNext]_Tally!tallyVars
<1> USE DEF Tally!tallyVars
<1>1. ASSUME NEW r \in Requests, CountOk(r) \/ CountFailed(r)
      PROVE  Tally!TallyNext
  <2>1. PICK o \in {"ok", "failed"} : outcome' = [outcome EXCEPT ![r] = o]
    BY <1>1 DEF CountOk, CountFailed
  <2>2. outcome[r] = "pending"
    BY <1>1 DEF CountOk, CountFailed, Called, DrogonInv, PathInv
  <2>3. summary = NoSummary /\ summary' = summary
    BY <1>1 DEF CountOk, CountFailed, Called, DrogonInv, MainInv
  <2>4. Tally!Settle(r, o)
    BY <2>1, <2>2, <2>3 DEF Tally!Settle
  <2> QED BY <2>1, <2>4 DEF Tally!TallyNext
<1>2. CASE Report
  <2>1. summary = NoSummary /\ outcome' = outcome /\ concurrent' = concurrent
    BY <1>2 DEF Report, DrogonInv, MainInv
  <2>2. With("pending") = {}
    BY <1>2, QuitSettles DEF Report, DrogonInv, MainInv
  <2>3. total_requests = Cardinality(With("ok")) + Cardinality(With("failed"))
    BY <2>2, Partition DEF DrogonInv, TypeOK
  <2>4. /\ Cardinality(With("ok")) \in Nat /\ Cardinality(With("failed")) \in Nat
        /\ Size * Cardinality(With("ok")) \in Nat
    BY RequestSets, TimesSize DEF With
  <2>5. total_requests - failed_requests = Cardinality(With("ok"))
        /\ failed_requests = Cardinality(With("failed"))
    BY <2>3, <2>4 DEF DrogonInv, ClientCounts
  <2>6. summary' = [ok |-> Cardinality(With("ok")), failed |-> Cardinality(With("failed")),
                    bytes |-> total_bytes_sent]
    BY <1>2, <2>5 DEF Report
  <2>7. summary' # NoSummary
    BY <2>4, <2>6, SummaryAssumption DEF DrogonInv, TypeOK, CounterTypes
  <2>8. With("ok")' = With("ok")
    BY <2>1 DEF With
  <2>9. Shown' = [ok |-> Cardinality(With("ok")), failed |-> Cardinality(With("failed")),
                  bytes |-> Size * Cardinality(With("ok"))]
    <3>1. CASE concurrent
      <4>1. Shown' = [summary' EXCEPT !.bytes = Size * Cardinality(With("ok"))]
        BY <2>1, <2>7, <2>8, <3>1 DEF Shown
      <4> QED BY <2>6, <4>1
    <3>2. CASE ~concurrent
      <4>1. Shown' = summary'
        BY <2>1, <3>2 DEF Shown
      <4>2. total_bytes_sent = Size * Cardinality(With("ok"))
        BY <3>2 DEF DrogonInv, ClientCounts
      <4> QED BY <2>6, <4>1, <4>2
    <3> QED BY <3>1, <3>2
  <2>10. Shown = NoSummary
    BY <2>1 DEF Shown
  <2>11. /\ Tally!With("ok") = With("ok") /\ Tally!With("failed") = With("failed")
         /\ Tally!With("pending") = With("pending")
    BY DEF Tally!With, With
  <2>12. Shown' = Tally!Truth
    BY <2>9, <2>11, SameCardinality DEF Tally!Truth
  <2>13. Tally!Summarise
    BY <2>1, <2>2, <2>10, <2>11, <2>12 DEF Tally!Summarise, Shown
  <2> QED BY <2>13 DEF Tally!TallyNext
<1>3. ASSUME UNCHANGED <<outcome, summary, concurrent>>
      PROVE  UNCHANGED Tally!tallyVars
  BY <1>3 DEF With
<1> QED BY <1>1, <1>2, <1>3
        DEF Next, MainStep, RunLoop, LoopReturns, LoopStep, CallbackStep, Complete, QuitIfLast,
            ThreadStep, Spawn, Post, Return, Answer, HandlerStep, Count, AddTotal, Respond,
            clientVars, Stopped, vars

\* Both clients keep the tally of a benchmark: each request is settled once, the
\* summary is printed once and after all of them, and tells their number, with the
\* bytes of the successes in the regular client (regular_drogon_client.cpp:48-88,
\* concurrent_drogon_client.cpp:37-61, 110-124); the concurrent one's may be spoilt.
THEOREM KeepsTally == Spec => Tally!TallySafety
<1>1. Init => Tally!TallyInit
  BY DEF Init, Tally!TallyInit
<1>2. DrogonInv /\ DrogonInv' /\ [Next]_vars => [Tally!TallyNext]_Tally!tallyVars
  BY TallyStep
<1> QED BY <1>1, <1>2, DrogonAlways, PTL DEF Spec, Tally!TallySafety
=============================================================================
