------------------------- MODULE HttplibBenchProofs -------------------------
(***************************************************************************)
(* Proofs about the concurrent httplib benchmark for any number of client  *)
(* threads, requests and server threads: the client never credits a        *)
(* request or a byte that the server has not accounted for, the two agree  *)
(* at the end, the server's log tells what it counted, and the client      *)
(* keeps the benchmark's tally.                                            *)
(***************************************************************************)
EXTENDS HttplibBench, TLAPS, FiniteSetTheorems, SequenceTheorems

Ok      == {r \in Requests : outcome[r] = "ok"}
Counted == {r \in Requests : handler[r] \in {"counted", "added", "printed", "answered"}}
Added   == {r \in Requests : handler[r] \in {"added", "printed", "answered"}}
Owing   == {t \in Threads : pc[t] = "bytes"}

\* where a client thread stands with the request it is in
ThreadInv ==
  \A t \in Threads :
    /\ pc[t] \in {"waiting", "bytes"} => sent[t] \in 1..PerThread
    /\ pc[t] = "waiting" => outcome[Current(t)] = "pending"
    /\ \A i \in 1..PerThread : i > sent[t] => outcome[<<t, i>>] = "pending"

OkAnswered == \A r \in Requests : outcome[r] = "ok" => handler[r] = "answered"

\* each shared counter counts what its name says
ClientCounts == /\ completed_requests = Cardinality(Ok)
                /\ total_bytes_transferred + Size * Cardinality(Owing) = Size * Cardinality(Ok)
ServerCounts == /\ request_count = Cardinality(Counted)
                /\ upload => total_received_bytes = Size * Cardinality(Added)

----------------------------------------------------------------------------
\* a function updated with a value of its range keeps its type
LEMMA ExceptType ==
  ASSUME NEW S, NEW T, NEW f \in [S -> T], NEW a, NEW v \in T
  PROVE  [f EXCEPT ![a] = v] \in [S -> T]
OBVIOUS

LEMMA TypeInit == Init => TypeOK
<1> SUFFICES ASSUME Init PROVE TypeOK
  OBVIOUS
<1>1. accepted \in Seq(Requests) /\ started \in Nat /\ finished \subseteq Requests
      /\ closed \in BOOLEAN
  BY EmptySeq DEF Init, Pool!ExecInit
<1>2. log \in Seq([n : Nat, total : Nat])
  BY EmptySeq DEF Init
<1>3. sent \in [Threads -> 0..PerThread]
  BY BenchAssumption DEF Init
<1> QED BY <1>1, <1>2, <1>3 DEF Init, TypeOK, ClientPC, HandlerPC

LEMMA TypeStep == TypeOK /\ [Next]_vars => TypeOK'
<1> SUFFICES ASSUME TypeOK, [Next]_vars PROVE TypeOK'
  OBVIOUS
<1> USE BenchAssumption DEF TypeOK, ClientPC, HandlerPC, Goto, At
<1>1. ASSUME NEW t \in Threads, Send(t) PROVE TypeOK'
  <2>1. <<t, sent[t] + 1>> \in Requests
    BY <1>1 DEF Send, Requests
  <2>2. accepted' \in Seq(Requests)
    BY <1>1, <2>1, AppendProperties DEF Send, Pool!Submit
  <2> QED BY <1>1, <2>2 DEF Send, Pool!Submit, serverVars
<1>2. ASSUME NEW t \in Threads, SendFails(t) PROVE TypeOK'
  <2>1. outcome' \in [Requests -> {"pending", "ok", "failed"}]
    BY <1>2, ExceptType DEF SendFails
  <2> QED BY <1>2, <2>1 DEF SendFails, serverVars, poolVars
<1>3. ASSUME NEW t \in Threads, ThreadExit(t) PROVE TypeOK'
  BY <1>3 DEF ThreadExit, serverVars, poolVars
<1>4. ASSUME NEW t \in Threads, CountCompleted(t) PROVE TypeOK'
  <2>1. outcome' \in [Requests -> {"pending", "ok", "failed"}]
    BY <1>4, ExceptType DEF CountCompleted
  <2> QED BY <1>4, <2>1 DEF CountCompleted, serverVars, poolVars
<1>5. ASSUME NEW t \in Threads, AddBytes(t) PROVE TypeOK'
  BY <1>5 DEF AddBytes, serverVars, poolVars
<1>6. ASSUME NEW t \in Threads, GiveUp(t) PROVE TypeOK'
  <2>1. outcome' \in [Requests -> {"pending", "ok", "failed"}]
    BY <1>6, ExceptType DEF GiveUp
  <2> QED BY <1>6, <2>1 DEF GiveUp, serverVars, poolVars
<1>7. CASE Report
  BY <1>7 DEF Report, Printed, serverVars, poolVars
<1>8. CASE Begin
  BY <1>8 DEF Begin, Pool!Start, clientVars
<1>9. ASSUME NEW r \in Requests, ReadFails(r) \/ Answer(r) PROVE TypeOK'
  BY <1>9 DEF ReadFails, Answer, Pool!Finish, clientVars
<1>10. ASSUME NEW r \in Requests, Count(r) PROVE TypeOK'
  BY <1>10 DEF Count, clientVars, poolVars
<1>11. ASSUME NEW r \in Requests, AddTotal(r) PROVE TypeOK'
  BY <1>11 DEF AddTotal, clientVars, poolVars
<1>12. ASSUME NEW r \in Requests, LogLine(r) PROVE TypeOK'
  <2>1. log' \in Seq([n : Nat, total : Nat])
    BY <1>12, AppendProperties DEF LogLine
  <2> QED BY <1>12, <2>1 DEF LogLine, clientVars, poolVars
<1>13. CASE UNCHANGED vars
  BY <1>13 DEF vars, clientVars, poolVars, serverVars
<1> QED BY <1>1, <1>2, <1>3, <1>4, <1>5, <1>6, <1>7, <1>8, <1>9, <1>10, <1>11, <1>12, <1>13
        DEF Next, ThreadStep, HandlerStep, Idle

\* Every variable keeps its type, for any number of threads and requests.
THEOREM TypeCorrect == SafetySpec => []TypeOK
BY TypeInit, TypeStep, PTL DEF SafetySpec

----------------------------------------------------------------------------
(* Client threads and the requests they are in *)

LEMMA ThreadInit == Init => ThreadInv /\ OkAnswered
  BY DEF Init, ThreadInv, OkAnswered, Requests

\* the current request of a thread is one of the benchmark's, and its own
LEMMA CurrentOwn ==
  ASSUME TypeOK, ThreadInv, NEW t \in Threads,
         pc[t] \in {"waiting", "bytes"}
  PROVE  /\ Current(t) \in Requests
         /\ \A u \in Threads, i \in Nat : <<u, i>> = Current(t) => u = t /\ i = sent[t]
  BY DEF TypeOK, ThreadInv, Current, Requests

\* answered is for ever
LEMMA AnsweredStays ==
  ASSUME TypeOK, [Next]_vars, NEW r \in Requests, handler[r] = "answered"
  PROVE  handler'[r] = "answered"
<1>1. ASSUME NEW t \in Threads, ThreadStep(t) PROVE handler' = handler
  BY <1>1 DEF ThreadStep, Send, SendFails, CountCompleted, GiveUp, AddBytes, ThreadExit,
              serverVars
<1>2. CASE Report
  BY <1>2 DEF Report, serverVars
<1>3. CASE Begin
  BY <1>3 DEF Begin, At, TypeOK
<1>4. ASSUME NEW q \in Requests, HandlerStep(q) PROVE handler'[r] = "answered"
  BY <1>4 DEF HandlerStep, ReadFails, Count, AddTotal, LogLine, Answer, At, TypeOK
<1>5. CASE UNCHANGED vars
  BY <1>5 DEF vars, serverVars
<1> QED BY <1>1, <1>2, <1>3, <1>4, <1>5 DEF Next, Idle

LEMMA ThreadInvStep ==
  ASSUME TypeOK, ThreadInv, OkAnswered, [Next]_vars
  PROVE  ThreadInv' /\ OkAnswered'
<1> USE BenchAssumption DEF TypeOK, Goto
<1>0. \A r \in Requests : handler[r] = "answered" => handler'[r] = "answered"
  BY AnsweredStays
<1>1. ASSUME UNCHANGED <<pc, sent, outcome>> PROVE ThreadInv' /\ OkAnswered'
  BY <1>0, <1>1 DEF ThreadInv, OkAnswered, Current
<1>2. ASSUME NEW t \in Threads, Send(t) PROVE ThreadInv' /\ OkAnswered'
  <2>1. /\ sent[t] < PerThread /\ sent' = [sent EXCEPT ![t] = @ + 1]
        /\ outcome' = outcome /\ pc' = [pc EXCEPT ![t] = "waiting"]
    BY <1>2 DEF Send
  <2>2. sent'[t] \in 1..PerThread /\ sent'[t] > sent[t]
    BY <2>1
  <2>3. outcome[<<t, sent'[t]>>] = "pending"
    BY <2>2 DEF ThreadInv
  <2>4. ASSUME NEW u \in Threads
        PROVE  /\ pc'[u] \in {"waiting", "bytes"} => sent'[u] \in 1..PerThread
               /\ pc'[u] = "waiting" => outcome[<<u, sent'[u]>>] = "pending"
               /\ \A i \in 1..PerThread : i > sent'[u] => outcome[<<u, i>>] = "pending"
    <3>1. CASE u = t
      <4>1. \A i \in 1..PerThread : i > sent'[t] => i > sent[t]
        BY <2>1, <2>2
      <4> QED BY <2>2, <2>3, <3>1, <4>1 DEF ThreadInv
    <3>2. CASE u # t
      BY <2>1, <3>2 DEF ThreadInv, Current
    <3> QED BY <3>1, <3>2
  <2>5. ThreadInv'
    BY <2>1, <2>4 DEF ThreadInv, Current
  <2> QED BY <1>0, <2>1, <2>5 DEF OkAnswered
<1>3. ASSUME NEW t \in Threads, AddBytes(t) \/ ThreadExit(t) PROVE ThreadInv' /\ OkAnswered'
  <2>1. /\ sent' = sent /\ outcome' = outcome
        /\ \E l \in {"next", "exited"} : pc' = [pc EXCEPT ![t] = l]
    BY <1>3 DEF AddBytes, ThreadExit
  <2> QED BY <1>0, <2>1 DEF ThreadInv, OkAnswered, Current
\* a request is settled: the one its thread is in, or the next one of the thread
<1>4. ASSUME NEW t \in Threads, CountCompleted(t) \/ GiveUp(t) \/ SendFails(t)
      PROVE  ThreadInv' /\ OkAnswered'
  <2>1. PICK n \in 1..PerThread, o \in {"ok", "failed"}, l \in {"bytes", "next"} :
          /\ n = sent'[t] /\ n >= sent[t]
          /\ outcome' = [outcome EXCEPT ![<<t, n>>] = o]
          /\ o = "ok" => handler[<<t, n>>] = "answered"
          /\ pc' = [pc EXCEPT ![t] = l]
          /\ sent' = [sent EXCEPT ![t] = n]
    <3>1. CASE SendFails(t)
      <4>1. sent[t] + 1 \in 1..PerThread /\ pc' = [pc EXCEPT ![t] = "next"]
            /\ sent' = [sent EXCEPT ![t] = sent[t] + 1]
        BY <3>1 DEF SendFails
      <4> QED BY <3>1, <4>1 DEF SendFails
    <3>2. CASE CountCompleted(t) \/ GiveUp(t)
      <4>1. sent[t] \in 1..PerThread /\ sent' = sent /\ sent = [sent EXCEPT ![t] = sent[t]]
        BY <3>2 DEF CountCompleted, GiveUp, ThreadInv
      <4>2. \/ /\ outcome' = [outcome EXCEPT ![<<t, sent[t]>>] = "ok"]
               /\ handler[<<t, sent[t]>>] = "answered"
               /\ pc' = [pc EXCEPT ![t] = "bytes"]
            \/ /\ outcome' = [outcome EXCEPT ![<<t, sent[t]>>] = "failed"]
               /\ pc' = [pc EXCEPT ![t] = "next"]
        BY <3>2 DEF CountCompleted, GiveUp, Current
      <4>3. PICK n \in 1..PerThread : n = sent[t]
        BY <4>1
      <4>4. PICK o \in {"ok", "failed"}, l \in {"bytes", "next"} :
              /\ outcome' = [outcome EXCEPT ![<<t, n>>] = o]
              /\ o = "ok" => handler[<<t, n>>] = "answered"
              /\ pc' = [pc EXCEPT ![t] = l]
        BY <4>2, <4>3
      <4>5. n = sent'[t] /\ n >= sent[t] /\ sent' = [sent EXCEPT ![t] = n]
        BY <4>1, <4>3
      <4> QED BY <4>4, <4>5
    <3> QED BY <1>4, <3>1, <3>2
  <2>2. <<t, n>> \in Requests
    BY <2>1 DEF Requests
  <2>3. OkAnswered'
    <3>1. ASSUME NEW r \in Requests, outcome'[r] = "ok" PROVE handler[r] = "answered"
      BY <2>1, <2>2, <3>1 DEF OkAnswered
    <3> QED BY <1>0, <3>1 DEF OkAnswered
  <2>4. ASSUME NEW u \in Threads, NEW i \in 1..PerThread, u # t \/ i # n
        PROVE  outcome'[<<u, i>>] = outcome[<<u, i>>]
    <3>1. <<u, i>> \in Requests /\ <<u, i>> # <<t, n>>
      BY <2>4 DEF Requests
    <3> QED BY <2>1, <2>2, <3>1
  <2>5. ASSUME NEW u \in Threads
        PROVE  /\ pc'[u] \in {"waiting", "bytes"} => sent'[u] \in 1..PerThread
               /\ pc'[u] = "waiting" => outcome'[<<u, sent'[u]>>] = "pending"
               /\ \A i \in 1..PerThread : i > sent'[u] => outcome'[<<u, i>>] = "pending"
    <3>1. CASE u = t
      <4>1. pc'[u] # "waiting" /\ sent'[u] = n
        BY <2>1, <3>1
      <4>2. ASSUME NEW i \in 1..PerThread, i > n PROVE outcome'[<<u, i>>] = "pending"
        <5>1. outcome'[<<u, i>>] = outcome[<<u, i>>] /\ i > sent[t]
          BY <2>1, <2>4, <4>2
        <5> QED BY <3>1, <5>1 DEF ThreadInv
      <4> QED BY <4>1, <4>2
    <3>2. CASE u # t
      <4>1. pc'[u] = pc[u] /\ sent'[u] = sent[u]
        BY <2>1, <3>2
      <4>2. \A i \in 1..PerThread : outcome'[<<u, i>>] = outcome[<<u, i>>]
        BY <2>4, <3>2
      <4> QED BY <4>1, <4>2 DEF ThreadInv, Current
    <3> QED BY <3>1, <3>2
  <2>6. ThreadInv'
    BY <2>5 DEF ThreadInv, Current
  <2> QED BY <2>3, <2>6
<1> QED BY <1>1, <1>2, <1>3, <1>4
        DEF Next, ThreadStep, HandlerStep, Idle, Report, Begin, ReadFails, Count, AddTotal,
            LogLine, Answer, vars, clientVars

----------------------------------------------------------------------------
(* The shared counters *)

LEMMA RequestsFinite == IsFiniteSet(Requests)
<1>1. IsFiniteSet(1..PerThread)
  BY BenchAssumption, FS_Interval
<1> QED BY <1>1, BenchAssumption, FS_Product DEF Requests

LEMMA SetsFinite ==
  /\ IsFiniteSet(Ok) /\ IsFiniteSet(Counted) /\ IsFiniteSet(Added) /\ IsFiniteSet(Owing)
  /\ Cardinality(Ok) \in Nat /\ Cardinality(Counted) \in Nat
  /\ Cardinality(Added) \in Nat /\ Cardinality(Owing) \in Nat
<1>1. /\ Ok \in SUBSET Requests /\ Counted \in SUBSET Requests /\ Added \in SUBSET Requests
      /\ Owing \in SUBSET Threads
  BY DEF Ok, Counted, Added, Owing
<1>2. IsFiniteSet(Ok) /\ IsFiniteSet(Counted) /\ IsFiniteSet(Added) /\ IsFiniteSet(Owing)
  BY <1>1, RequestsFinite, BenchAssumption, FS_Subset
<1> QED BY <1>2, FS_CardinalityType

LEMMA TimesSize ==
  ASSUME NEW a \in Nat, NEW b \in Nat
  PROVE  /\ Size * a \in Nat
         /\ Size * (a + 1) = Size * a + Size
         /\ a <= b => Size * a <= Size * b
<1>1. Size \in Nat
  BY BenchAssumption
<1> QED BY <1>1, SMT

LEMMA ClientCountsInit == Init => ClientCounts
<1> SUFFICES ASSUME Init PROVE ClientCounts
  OBVIOUS
<1>1. Ok = {} /\ Owing = {}
  BY DEF Init, Ok, Owing
<1>2. Cardinality(Ok) = 0 /\ Cardinality(Owing) = 0
  BY <1>1, FS_EmptySet
<1>3. Size * 0 = 0
  BY BenchAssumption
<1> QED BY <1>2, <1>3 DEF Init, ClientCounts

LEMMA ServerCountsInit == Init => ServerCounts
<1> SUFFICES ASSUME Init PROVE ServerCounts
  OBVIOUS
<1>1. Counted = {} /\ Added = {}
  BY DEF Init, Counted, Added
<1> QED BY <1>1, FS_EmptySet, BenchAssumption DEF Init, ServerCounts

LEMMA ClientCountsStep ==
  ASSUME TypeOK, ThreadInv, ClientCounts, [Next]_vars PROVE ClientCounts'
<1> USE DEF TypeOK, Goto
<1>1. ASSUME NEW t \in Threads, CountCompleted(t) PROVE ClientCounts'
  <2>1. PICK c \in Requests : /\ c = Current(t) /\ outcome[c] = "pending"
                              /\ outcome' = [outcome EXCEPT ![c] = "ok"]
    BY <1>1, CurrentOwn DEF CountCompleted, ThreadInv
  <2>2. Ok' = Ok \cup {c} /\ c \notin Ok
    BY <2>1 DEF Ok
  <2>3. Owing' = Owing \cup {t} /\ t \notin Owing
    BY <1>1 DEF CountCompleted, Owing
  <2>4. Cardinality(Ok') = Cardinality(Ok) + 1 /\ Cardinality(Owing') = Cardinality(Owing) + 1
    BY <2>2, <2>3, SetsFinite, FS_AddElement
  <2>5. /\ completed_requests' = completed_requests + 1
        /\ total_bytes_transferred' = total_bytes_transferred
    BY <1>1 DEF CountCompleted
  <2>6. /\ Size * Cardinality(Ok') = Size * Cardinality(Ok) + Size
        /\ Size * Cardinality(Owing') = Size * Cardinality(Owing) + Size
    BY <2>4, SetsFinite, TimesSize
  <2>7. /\ Size * Cardinality(Ok) \in Nat /\ Size * Cardinality(Owing) \in Nat
        /\ Size \in Nat
    BY SetsFinite, TimesSize, BenchAssumption
  <2>8. total_bytes_transferred' + Size * Cardinality(Owing') = Size * Cardinality(Ok')
    BY <2>5, <2>6, <2>7 DEF ClientCounts
  <2> QED BY <2>4, <2>5, <2>8 DEF ClientCounts
<1>2. ASSUME NEW t \in Threads, AddBytes(t) PROVE ClientCounts'
  <2>1. /\ outcome' = outcome /\ completed_requests' = completed_requests
        /\ total_bytes_transferred' = total_bytes_transferred + Size
    BY <1>2 DEF AddBytes
  <2>2. Owing' = Owing \ {t} /\ t \in Owing
    BY <1>2 DEF AddBytes, Owing
  <2>3. IsFiniteSet(Owing') /\ Cardinality(Owing') = Cardinality(Owing) - 1
    <3> HIDE DEF TypeOK
    <3> QED BY <2>2, SetsFinite, FS_RemoveElement
  <2>4. Cardinality(Owing') \in Nat /\ Cardinality(Owing) = Cardinality(Owing') + 1
    <3>1. Cardinality(Owing') \in Nat
      BY ONLY <2>3, FS_CardinalityType
    <3>2. Cardinality(Owing) \in Nat
      BY ONLY SetsFinite
    <3> QED BY ONLY <2>3, <3>1, <3>2
  <2>5. Size * Cardinality(Owing) = Size * Cardinality(Owing') + Size
    BY <2>4, TimesSize
  <2>6. Ok' = Ok
    BY <2>1 DEF Ok
  <2>7. Size * Cardinality(Owing') \in Nat
    BY <2>4, TimesSize
  <2> QED BY <2>1, <2>5, <2>6, <2>7, BenchAssumption DEF ClientCounts
<1>3. ASSUME NEW t \in Threads, GiveUp(t) \/ SendFails(t) PROVE ClientCounts'
  <2>1. PICK c \in Requests : /\ outcome[c] = "pending"
                              /\ outcome' = [outcome EXCEPT ![c] = "failed"]
    <3>1. CASE GiveUp(t)
      BY <3>1, CurrentOwn DEF GiveUp, ThreadInv
    <3>2. CASE SendFails(t)
      <4>1. sent[t] + 1 \in 1..PerThread /\ sent[t] + 1 > sent[t]
        BY <3>2, BenchAssumption DEF SendFails
      <4>2. <<t, sent[t] + 1>> \in Requests /\ outcome[<<t, sent[t] + 1>>] = "pending"
        BY <4>1 DEF Requests, ThreadInv
      <4> QED BY <3>2, <4>2 DEF SendFails
    <3> QED BY <1>3, <3>1, <3>2
  <2>2. Ok' = Ok
    BY <2>1 DEF Ok
  <2>3. Owing' = Owing
    BY <1>3 DEF GiveUp, SendFails, Owing
  <2> QED BY <1>3, <2>2, <2>3 DEF GiveUp, SendFails, ClientCounts
<1>4. ASSUME /\ UNCHANGED <<outcome, completed_requests, total_bytes_transferred>>
             /\ \A t \in Threads : pc'[t] = "bytes" <=> pc[t] = "bytes"
      PROVE  ClientCounts'
  <2>1. Ok' = Ok /\ Owing' = Owing
    BY <1>4 DEF Ok, Owing
  <2> QED BY <1>4, <2>1 DEF ClientCounts
<1>5. ASSUME NEW t \in Threads, Send(t) \/ ThreadExit(t) PROVE ClientCounts'
  BY <1>4, <1>5 DEF Send, ThreadExit
<1>6. ASSUME (UNCHANGED clientVars) \/ Report PROVE ClientCounts'
  <2>1. UNCHANGED <<pc, outcome, completed_requests, total_bytes_transferred>>
    BY <1>6 DEF clientVars, Report
  <2> QED BY <1>4, <2>1
<1> QED BY <1>1, <1>2, <1>3, <1>5, <1>6
        DEF Next, ThreadStep, HandlerStep, Idle, Begin, ReadFails, Count, AddTotal, LogLine,
            Answer, vars

LEMMA ServerCountsStep ==
  ASSUME TypeOK, ServerCounts, [Next]_vars PROVE ServerCounts'
<1> USE DEF TypeOK, At
<1>1. ASSUME NEW r \in Requests, Count(r) PROVE ServerCounts'
  <2>1. /\ handler[r] = "read" /\ request_count' = request_count + 1 /\ upload' = upload
        /\ handler' = [handler EXCEPT ![r] = IF upload THEN "counted" ELSE "added"]
        /\ total_received_bytes' = total_received_bytes
    BY <1>1 DEF Count
  <2>2. Counted' = Counted \cup {r} /\ r \notin Counted
    BY <2>1 DEF Counted
  <2>3. Cardinality(Counted') = Cardinality(Counted) + 1
    BY <2>2, SetsFinite, FS_AddElement
  <2>4. upload => Added' = Added
    BY <2>1 DEF Added
  <2> QED BY <2>1, <2>3, <2>4 DEF ServerCounts
<1>2. ASSUME NEW r \in Requests, AddTotal(r) PROVE ServerCounts'
  <2>1. /\ handler[r] = "counted" /\ handler' = [handler EXCEPT ![r] = "added"]
        /\ request_count' = request_count /\ upload' = upload
        /\ total_received_bytes' = total_received_bytes + Size
    BY <1>2 DEF AddTotal
  <2>2. Counted' = Counted /\ Added' = Added \cup {r} /\ r \notin Added
    BY <2>1 DEF Counted, Added
  <2>3. Cardinality(Added') = Cardinality(Added) + 1
    BY <2>2, SetsFinite, FS_AddElement
  <2>4. Size * Cardinality(Added') = Size * Cardinality(Added) + Size
    BY <2>3, SetsFinite, TimesSize
  <2> QED BY <2>1, <2>2, <2>4 DEF ServerCounts
<1>3. ASSUME /\ UNCHANGED <<upload, request_count, total_received_bytes>>
             /\ \A r \in Requests :
                  /\ handler'[r] \in {"counted", "added", "printed", "answered"}
                       <=> handler[r] \in {"counted", "added", "printed", "answered"}
                  /\ handler'[r] \in {"added", "printed", "answered"}
                       <=> handler[r] \in {"added", "printed", "answered"}
      PROVE  ServerCounts'
  <2>1. Counted' = Counted /\ Added' = Added
    BY <1>3 DEF Counted, Added
  <2> QED BY <1>3, <2>1 DEF ServerCounts
<1>4. ASSUME NEW r \in Requests, ReadFails(r) \/ LogLine(r) \/ Answer(r) PROVE ServerCounts'
  BY <1>3, <1>4 DEF ReadFails, LogLine, Answer
<1>5. CASE Begin
  BY <1>3, <1>5 DEF Begin
<1>6. ASSUME UNCHANGED <<upload, serverVars>> PROVE ServerCounts'
  BY <1>3, <1>6 DEF serverVars
<1> QED BY <1>1, <1>2, <1>4, <1>5, <1>6
        DEF Next, ThreadStep, HandlerStep, Idle, Report, Send, SendFails, GiveUp,
            CountCompleted, AddBytes, ThreadExit, vars

LEMMA CountsBackCredit ==
  ASSUME TypeOK, OkAnswered, ClientCounts, ServerCounts PROVE CreditBacked
<1>1. Ok \in SUBSET Counted /\ Ok \in SUBSET Added
  BY DEF Ok, Counted, Added, OkAnswered
<1>2. Cardinality(Ok) <= Cardinality(Counted) /\ Cardinality(Ok) <= Cardinality(Added)
  BY <1>1, SetsFinite, FS_Subset
<1>3. Size * Cardinality(Ok) <= Size * Cardinality(Added) /\ Size * Cardinality(Owing) \in Nat
      /\ Size * Cardinality(Ok) \in Nat /\ Size * Cardinality(Added) \in Nat
  BY <1>2, SetsFinite, TimesSize
<1>4. completed_requests <= request_count
  BY <1>2 DEF ClientCounts, ServerCounts
<1>5. total_bytes_transferred <= Size * Cardinality(Ok)
  BY <1>3 DEF ClientCounts, TypeOK
<1>6. upload => total_bytes_transferred <= total_received_bytes
  BY <1>3, <1>5 DEF ServerCounts, TypeOK
<1> QED BY <1>4, <1>6 DEF CreditBacked, OkAnswered

\* At every moment each success the client has counted belongs to a request the
\* server answered, its successes never outnumber the server's request_count
\* and its bytes never exceed total_received_bytes, whatever is lost or times
\* out (concurrent_httplib_client.cpp:65-70, concurrent_httplib_server.cpp:23-37).
THEOREM Credit == SafetySpec => []CreditBacked
<1>1. TypeOK /\ ThreadInv /\ OkAnswered /\ [Next]_vars => ThreadInv' /\ OkAnswered'
  BY ThreadInvStep
<1>2. TypeOK /\ ThreadInv /\ ClientCounts /\ [Next]_vars => ClientCounts'
  BY ClientCountsStep
<1>3. TypeOK /\ ServerCounts /\ [Next]_vars => ServerCounts'
  BY ServerCountsStep
<1>4. TypeOK /\ OkAnswered /\ ClientCounts /\ ServerCounts => CreditBacked
  BY CountsBackCredit
<1> QED BY TypeInit, TypeStep, ThreadInit, ClientCountsInit, ServerCountsInit,
           <1>1, <1>2, <1>3, <1>4, PTL DEF SafetySpec

----------------------------------------------------------------------------
(* Every request is settled, and the summary is printed after the last *)

Failed == {r \in Requests : outcome[r] = "failed"}

\* a pending request is the one its thread waits for, or not yet begun
SettledInv ==
  \A t \in Threads :
    /\ pc[t] = "exited" => sent[t] = PerThread
    /\ \A i \in 1..PerThread :
         outcome[<<t, i>>] = "pending" => i > sent[t] \/ (i = sent[t] /\ pc[t] = "waiting")

FailedCount == failed_requests = Cardinality(Failed)
ReportInv   == summary # NoSummary => /\ \A t \in Threads : pc[t] = "exited"
                                      /\ summary = Printed

LEMMA SettledInit == Init => SettledInv /\ FailedCount /\ ReportInv
<1> SUFFICES ASSUME Init PROVE SettledInv /\ FailedCount /\ ReportInv
  OBVIOUS
<1>1. Failed = {}
  BY DEF Init, Failed
<1> QED BY <1>1, FS_EmptySet DEF Init, SettledInv, FailedCount, ReportInv

LEMMA SettledStep ==
  ASSUME TypeOK, ThreadInv, SettledInv, [Next]_vars PROVE SettledInv'
<1> USE BenchAssumption DEF TypeOK, Goto
<1>1. ASSUME NEW t \in Threads, NEW n \in 1..PerThread,
             \/ outcome' = outcome
             \/ \E o \in {"ok", "failed"} : outcome' = [outcome EXCEPT ![<<t, n>>] = o],
             sent' = [sent EXCEPT ![t] = n], \A u \in Threads \ {t} : pc'[u] = pc[u],
             \A i \in 1..PerThread :
               outcome'[<<t, i>>] = "pending" => i > n \/ (i = n /\ pc'[t] = "waiting"),
             pc'[t] = "exited" => n = PerThread
      PROVE  SettledInv'
  <2>1. ASSUME NEW u \in Threads, NEW i \in 1..PerThread, u # t
        PROVE  outcome'[<<u, i>>] = outcome[<<u, i>>]
    <3>1. <<u, i>> \in Requests /\ <<u, i>> # <<t, n>> /\ <<t, n>> \in Requests
      BY <2>1 DEF Requests
    <3> QED BY <1>1, <3>1
  <2>2. ASSUME NEW u \in Threads
        PROVE  /\ pc'[u] = "exited" => sent'[u] = PerThread
               /\ \A i \in 1..PerThread :
                    outcome'[<<u, i>>] = "pending" =>
                      i > sent'[u] \/ (i = sent'[u] /\ pc'[u] = "waiting")
    <3>1. CASE u = t
      BY <1>1, <3>1
    <3>2. CASE u # t
      BY <1>1, <2>1, <3>2 DEF SettledInv
    <3> QED BY <3>1, <3>2
  <2> QED BY <2>2 DEF SettledInv
<1>2. ASSUME NEW t \in Threads, Send(t) PROVE SettledInv'
  <2>1. /\ sent[t] + 1 \in 1..PerThread /\ sent' = [sent EXCEPT ![t] = sent[t] + 1]
        /\ outcome' = outcome /\ pc' = [pc EXCEPT ![t] = "waiting"] /\ pc[t] = "next"
    BY <1>2 DEF Send
  <2>2. \A i \in 1..PerThread :
          outcome[<<t, i>>] = "pending" => i > sent[t] + 1 \/ i = sent[t] + 1
    <3>1. ASSUME NEW i \in 1..PerThread, outcome[<<t, i>>] = "pending" PROVE i > sent[t]
      BY <2>1, <3>1 DEF SettledInv
    <3>2. sent[t] \in Nat
      OBVIOUS
    <3> QED BY <3>1, <3>2
  <2> QED BY <1>1, <2>1, <2>2
<1>3. ASSUME NEW t \in Threads, SendFails(t) PROVE SettledInv'
  <2>1. PICK n \in 1..PerThread : n = sent[t] + 1
    BY <1>3 DEF SendFails
  <2>2. /\ sent' = [sent EXCEPT ![t] = n] /\ pc' = pc /\ pc[t] = "next"
        /\ outcome' = [outcome EXCEPT ![<<t, n>>] = "failed"]
    BY <1>3, <2>1 DEF SendFails
  <2>3. ASSUME NEW i \in 1..PerThread, outcome'[<<t, i>>] = "pending" PROVE i > n
    <3>1. <<t, n>> \in Requests /\ <<t, i>> \in Requests
      BY DEF Requests
    <3>2. i # n /\ outcome[<<t, i>>] = "pending"
      BY <2>2, <2>3, <3>1
    <3>3. i > sent[t]
      BY <2>2, <3>2 DEF SettledInv
    <3>4. sent[t] \in Nat
      OBVIOUS
    <3> QED BY <2>1, <3>2, <3>3, <3>4
  <2> QED BY <1>1, <2>2, <2>3
<1>4. ASSUME NEW t \in Threads, CountCompleted(t) \/ GiveUp(t) PROVE SettledInv'
  <2>1. PICK n \in 1..PerThread : n = sent[t]
    BY <1>4 DEF ThreadInv, CountCompleted, GiveUp
  <2>2. PICK o \in {"ok", "failed"}, l \in {"bytes", "next"} :
          /\ outcome' = [outcome EXCEPT ![<<t, n>>] = o] /\ pc' = [pc EXCEPT ![t] = l]
    BY <1>4, <2>1 DEF CountCompleted, GiveUp, Current
  <2>3. sent' = [sent EXCEPT ![t] = n]
    BY <1>4, <2>1 DEF CountCompleted, GiveUp
  <2>4. ASSUME NEW i \in 1..PerThread, outcome'[<<t, i>>] = "pending" PROVE i > n
    <3>1. <<t, n>> \in Requests /\ <<t, i>> \in Requests
      BY DEF Requests
    <3>2. i # n /\ outcome[<<t, i>>] = "pending"
      BY <2>2, <2>4, <3>1
    <3> QED BY <2>1, <3>2 DEF SettledInv
  <2> QED BY <1>1, <2>2, <2>3, <2>4
<1>5. ASSUME NEW t \in Threads, AddBytes(t) \/ ThreadExit(t) PROVE SettledInv'
  <2>1. /\ UNCHANGED <<sent, outcome>> /\ pc[t] # "waiting"
        /\ \/ pc' = [pc EXCEPT ![t] = "next"]
           \/ pc' = [pc EXCEPT ![t] = "exited"] /\ sent[t] = PerThread
    BY <1>5 DEF AddBytes, ThreadExit
  <2> QED BY <2>1 DEF SettledInv
<1>6. ASSUME UNCHANGED <<pc, sent, outcome>> PROVE SettledInv'
  BY <1>6 DEF SettledInv
<1> QED BY <1>2, <1>3, <1>4, <1>5, <1>6
        DEF Next, ThreadStep, HandlerStep, Idle, Report, Begin, ReadFails, Count, AddTotal,
            LogLine, Answer, vars, clientVars

\* the request a thread fails or completes is pending until then
LEMMA SettlesPending ==
  ASSUME TypeOK, ThreadInv, NEW t \in Threads,
         SendFails(t) \/ CountCompleted(t) \/ GiveUp(t)
  PROVE  \E r \in Requests, o \in {"ok", "failed"} :
           /\ outcome[r] = "pending" /\ outcome' = [outcome EXCEPT ![r] = o]
           /\ o = "failed" <=> ~CountCompleted(t)
<1> USE BenchAssumption DEF TypeOK
<1>1. CASE SendFails(t)
  <2>1. sent[t] + 1 \in 1..PerThread /\ sent[t] + 1 > sent[t]
    BY <1>1 DEF SendFails
  <2>2. <<t, sent[t] + 1>> \in Requests /\ outcome[<<t, sent[t] + 1>>] = "pending"
    BY <2>1 DEF Requests, ThreadInv
  <2>3. ~CountCompleted(t) /\ outcome' = [outcome EXCEPT ![<<t, sent[t] + 1>>] = "failed"]
    BY <1>1 DEF SendFails, CountCompleted
  <2> QED BY <2>2, <2>3
<1>2. CASE CountCompleted(t) \/ GiveUp(t)
  <2>1. Current(t) \in Requests /\ outcome[Current(t)] = "pending"
    BY <1>2, CurrentOwn DEF ThreadInv, CountCompleted, GiveUp
  <2>2. CASE CountCompleted(t)
    BY <2>1, <2>2 DEF CountCompleted
  <2>3. CASE ~CountCompleted(t)
    <3>1. outcome' = [outcome EXCEPT ![Current(t)] = "failed"]
      BY <1>2, <2>3 DEF GiveUp
    <3> QED BY <2>1, <2>3, <3>1
  <2> QED BY <2>2, <2>3
<1> QED BY <1>1, <1>2

LEMMA FailedCountStep ==
  ASSUME TypeOK, ThreadInv, FailedCount, [Next]_vars PROVE FailedCount'
<1> USE DEF TypeOK
<1>0. Failed \in SUBSET Requests /\ IsFiniteSet(Failed)
  BY RequestsFinite, FS_Subset DEF Failed
<1>1. ASSUME NEW t \in Threads, SendFails(t) \/ GiveUp(t) PROVE FailedCount'
  <2>1. PICK r \in Requests : /\ outcome[r] = "pending"
                              /\ outcome' = [outcome EXCEPT ![r] = "failed"]
    <3>1. ~CountCompleted(t)
      <4>1. CASE pc[t] = "next"
        BY <4>1 DEF CountCompleted
      <4>2. CASE pc[t] # "next"
        BY <1>1, <4>2 DEF SendFails, GiveUp, CountCompleted, Goto
      <4> QED BY <4>1, <4>2
    <3> QED BY <1>1, <3>1, SettlesPending
  <2>2. Failed' = Failed \cup {r} /\ r \notin Failed
    BY <2>1 DEF Failed
  <2>3. Cardinality(Failed') = Cardinality(Failed) + 1
    BY <1>0, <2>2, FS_AddElement
  <2>4. failed_requests' = failed_requests + 1
    BY <1>1 DEF SendFails, GiveUp
  <2> QED BY <2>3, <2>4 DEF FailedCount
<1>2. ASSUME NEW t \in Threads, CountCompleted(t) PROVE FailedCount'
  <2>1. PICK r \in Requests : /\ outcome[r] = "pending"
                              /\ outcome' = [outcome EXCEPT ![r] = "ok"]
    BY <1>2, SettlesPending
  <2>2. Failed' = Failed
    BY <2>1 DEF Failed
  <2> QED BY <1>2, <2>2 DEF FailedCount, CountCompleted
<1>3. ASSUME UNCHANGED <<outcome, failed_requests>> PROVE FailedCount'
  BY <1>3 DEF FailedCount, Failed
<1> QED BY <1>1, <1>2, <1>3
        DEF Next, ThreadStep, Send, AddBytes, ThreadExit, HandlerStep, Idle, Report, Begin,
            ReadFails, Count, AddTotal, LogLine, Answer, vars, clientVars

LEMMA ReportStep == TypeOK /\ ReportInv /\ [Next]_vars => ReportInv'
<1> SUFFICES ASSUME TypeOK, ReportInv, [Next]_vars PROVE ReportInv'
  OBVIOUS
<1>1. CASE Report
  BY <1>1 DEF Report, ReportInv, Printed
<1>2. ASSUME NEW t \in Threads, ThreadStep(t) PROVE ReportInv'
  BY <1>2 DEF ThreadStep, Send, SendFails, CountCompleted, GiveUp, AddBytes, ThreadExit,
              ReportInv
<1>3. ASSUME UNCHANGED clientVars PROVE ReportInv'
  BY <1>3 DEF clientVars, ReportInv, Printed
<1> QED BY <1>1, <1>2, <1>3
        DEF Next, HandlerStep, Idle, Begin, ReadFails, Count, AddTotal, LogLine, Answer, vars

\* when all threads have exited nothing is pending, and nobody owes bytes
LEMMA AllSettled ==
  ASSUME TypeOK, SettledInv, \A t \in Threads : pc[t] = "exited"
  PROVE  /\ \A r \in Requests : outcome[r] # "pending"
         /\ Owing = {}
         /\ Cardinality(Requests) = Cardinality(Ok) + Cardinality(Failed)
<1>1. ASSUME NEW r \in Requests PROVE outcome[r] # "pending"
  <2>1. PICK t \in Threads, i \in 1..PerThread : r = <<t, i>>
    BY DEF Requests
  <2>2. sent[t] = PerThread /\ pc[t] = "exited"
    BY DEF SettledInv
  <2> QED BY <2>1, <2>2, BenchAssumption DEF SettledInv
<1>2. Owing = {}
  BY DEF Owing
<1>3. Ok \cup Failed = Requests /\ Ok \cap Failed = {}
  BY <1>1 DEF Ok, Failed, TypeOK
<1>4. IsFiniteSet(Ok) /\ IsFiniteSet(Failed)
  BY RequestsFinite, FS_Subset DEF Ok, Failed
<1>5. Cardinality(Requests) = Cardinality(Ok) + Cardinality(Failed) - Cardinality(Ok \cap Failed)
  BY ONLY <1>3, <1>4, FS_Union
<1>6. Cardinality(Ok \cap Failed) = 0
  BY <1>3, FS_EmptySet
<1>7. Cardinality(Ok) \in Nat /\ Cardinality(Failed) \in Nat
  BY <1>4, FS_CardinalityType
<1> QED BY <1>1, <1>2, <1>5, <1>6, <1>7

----------------------------------------------------------------------------
(* The handlers and the pool's jobs *)

HandlerInv ==
  /\ \A r \in Requests : /\ handler[r] # "none" => r \in Pool!Submitted
                         /\ r \in finished <=> handler[r] \in {"dropped", "answered"}
  /\ ~upload => total_received_bytes = 0 /\ \A r \in Requests : handler[r] # "counted"

LEMMA HandlerInit == Init => HandlerInv
  BY DEF Init, HandlerInv, Pool!ExecInit

LEMMA HandlerInvStep == TypeOK /\ HandlerInv /\ [Next]_vars => HandlerInv'
<1> SUFFICES ASSUME TypeOK, HandlerInv, [Next]_vars PROVE HandlerInv'
  OBVIOUS
<1> USE DEF At
<1>1. ASSUME NEW t \in Threads, Send(t) PROVE HandlerInv'
  <2>1. PICK r : accepted' = Append(accepted, r) /\ r \in Requests
    <3>1. sent[t] + 1 \in 1..PerThread
      BY <1>1, BenchAssumption DEF Send, TypeOK
    <3>2. <<t, sent[t] + 1>> \in Requests
      BY <3>1 DEF Requests
    <3> QED BY <1>1, <3>2 DEF Send, Pool!Submit
  <2>2. accepted \in Seq(Requests)
    BY DEF TypeOK
  <2>3. /\ Len(accepted') = Len(accepted) + 1 /\ Len(accepted) \in Nat
        /\ \A i \in 1..Len(accepted) : accepted'[i] = accepted[i]
    BY <2>1, <2>2, AppendProperties
  <2>4. DOMAIN accepted = 1..Len(accepted) /\ DOMAIN accepted' = 1..Len(accepted')
    BY <2>1, <2>2, AppendProperties, LenProperties
  <2>5. Pool!Submitted \subseteq (Pool!Submitted)'
    BY <2>3, <2>4 DEF Pool!Submitted
  <2>6. UNCHANGED <<handler, finished, upload, total_received_bytes>>
    BY <1>1 DEF Send, Pool!Submit, serverVars
  <2> QED BY <2>5, <2>6 DEF HandlerInv
<1>2. ASSUME UNCHANGED accepted PROVE (Pool!Submitted)' = Pool!Submitted
  BY <1>2 DEF Pool!Submitted
<1>3. CASE Begin
  <2>1. started + 1 \in DOMAIN accepted /\ UNCHANGED <<accepted, finished>>
    BY <1>3, LenProperties DEF Begin, Pool!Start, TypeOK
  <2>2. accepted[started + 1] \in Pool!Submitted
    BY <2>1 DEF Pool!Submitted
  <2>3. PICK b \in Requests : b = accepted[started + 1]
    BY <2>1, ElementOfSeq DEF TypeOK
  <2>4. /\ handler[b] = "none" /\ handler' = [handler EXCEPT ![b] = "read"]
        /\ UNCHANGED <<upload, total_received_bytes>>
    BY <1>3, <2>3 DEF Begin
  <2> QED BY <1>2, <2>1, <2>2, <2>3, <2>4 DEF HandlerInv, TypeOK
<1>4. ASSUME NEW r \in Requests, ReadFails(r) \/ Answer(r) PROVE HandlerInv'
  <2>1. /\ finished' = finished \cup {r} /\ UNCHANGED <<accepted, upload, total_received_bytes>>
        /\ handler[r] # "none"
        /\ \E h \in {"dropped", "answered"} : handler' = [handler EXCEPT ![r] = h]
    BY <1>4 DEF ReadFails, Answer, Pool!Finish
  <2> QED BY <1>2, <2>1 DEF HandlerInv, TypeOK
<1>5. ASSUME NEW r \in Requests, Count(r) \/ AddTotal(r) \/ LogLine(r) PROVE HandlerInv'
  <2>1. /\ UNCHANGED <<accepted, finished, upload>>
        /\ handler[r] \notin {"none", "dropped", "answered"}
        /\ \E h \in {"counted", "added", "printed"} : /\ handler' = [handler EXCEPT ![r] = h]
                                                      /\ ~upload => h # "counted"
    BY <1>5 DEF Count, AddTotal, LogLine, poolVars
  <2>2. ~upload => total_received_bytes' = total_received_bytes
    BY <1>5 DEF Count, AddTotal, LogLine, HandlerInv
  <2> QED BY <1>2, <2>1, <2>2 DEF HandlerInv, TypeOK
<1>6. ASSUME UNCHANGED <<upload, accepted, finished, serverVars>> PROVE HandlerInv'
  BY <1>2, <1>6 DEF HandlerInv, serverVars
<1> QED BY <1>1, <1>3, <1>4, <1>5, <1>6
        DEF Next, ThreadStep, SendFails, CountCompleted, GiveUp, AddBytes, ThreadExit,
            HandlerStep, Idle, Report, poolVars, vars

----------------------------------------------------------------------------
(* The lines of the server's log *)

Logged == {r \in Requests : handler[r] \in {"printed", "answered"}}

\* count, the handler's local, is a number of its own
NumberInv == \A r \in Counted : /\ number[r] <= request_count
                                /\ \A q \in Counted : number[q] = number[r] => q = r

LogInv == /\ Len(log) = Cardinality(Logged)
          /\ \A i \in 1..Len(log) : /\ \E r \in Logged : number[r] = log[i].n
                                    /\ log[i].total <= total_received_bytes
          /\ \A i, k \in 1..Len(log) : log[i].n = log[k].n => i = k
          /\ upload => \A i \in 1..Len(log) : /\ log[i].total >= Size * i
                                              /\ \A k \in 1..i : log[k].total <= log[i].total

LEMMA LogInit == Init => NumberInv /\ LogInv
<1> SUFFICES ASSUME Init PROVE NumberInv /\ LogInv
  OBVIOUS
<1>1. Counted = {} /\ Logged = {} /\ Len(log) = 0
  BY EmptySeq DEF Init, Counted, Logged
<1> QED BY <1>1, FS_EmptySet DEF NumberInv, LogInv

LEMMA NumberStep == TypeOK /\ NumberInv /\ [Next]_vars => NumberInv'
<1> SUFFICES ASSUME TypeOK, NumberInv, [Next]_vars PROVE NumberInv'
  OBVIOUS
<1> USE DEF At
<1>1. ASSUME NEW r \in Requests, Count(r) PROVE NumberInv'
  <2>1. /\ Counted' = Counted \cup {r} /\ r \notin Counted
        /\ request_count' = request_count + 1 /\ request_count \in Nat
        /\ number' = [number EXCEPT ![r] = request_count + 1] /\ number \in [Requests -> Nat]
    BY <1>1 DEF Count, Counted, TypeOK
  <2>2. number'[r] = request_count + 1 /\ \A q \in Counted : number'[q] = number[q]
    BY <2>1 DEF Counted
  <2>3. \A q \in Counted : number[q] \in Nat /\ number[q] <= request_count
    BY <2>1 DEF NumberInv, Counted
  <2> QED BY <2>1, <2>2, <2>3 DEF NumberInv
<1>2. ASSUME UNCHANGED <<number, request_count>>,
             \A r \in Requests :
               handler'[r] \in {"counted", "added", "printed", "answered"}
                 <=> handler[r] \in {"counted", "added", "printed", "answered"}
      PROVE  NumberInv'
  <2>1. Counted' = Counted
    BY <1>2 DEF Counted
  <2> QED BY <1>2, <2>1 DEF NumberInv
<1>3. ASSUME NEW r \in Requests, ReadFails(r) \/ AddTotal(r) \/ LogLine(r) \/ Answer(r)
      PROVE  NumberInv'
  BY <1>2, <1>3 DEF ReadFails, AddTotal, LogLine, Answer, TypeOK
<1>4. CASE Begin
  BY <1>2, <1>4 DEF Begin, TypeOK
<1>5. ASSUME UNCHANGED serverVars PROVE NumberInv'
  BY <1>2, <1>5 DEF serverVars
<1> QED BY <1>1, <1>3, <1>4, <1>5
        DEF Next, ThreadStep, Send, SendFails, CountCompleted, GiveUp, AddBytes, ThreadExit,
            HandlerStep, Idle, Report, vars

\* a line is printed: its number is new, and its total covers one body more
LEMMA LineStep ==
  ASSUME TypeOK, NumberInv, LogInv, ServerCounts, NEW r \in Requests, LogLine(r)
  PROVE  LogInv'
<1> DEFINE n == Len(log)
           new == [n |-> number[r], total |-> total_received_bytes]
<1>1. /\ handler[r] = "added" /\ handler' = [handler EXCEPT ![r] = "printed"]
      /\ log' = Append(log, new)
      /\ UNCHANGED <<number, total_received_bytes, upload>>
  BY DEF LogLine, At
<1>2. /\ log \in Seq([n : Nat, total : Nat]) /\ new \in [n : Nat, total : Nat]
      /\ total_received_bytes \in Nat
  BY DEF TypeOK
<1>3. /\ Len(log') = n + 1 /\ n \in Nat /\ log'[n + 1] = new
      /\ \A i \in 1..n : log'[i] = log[i] /\ log[i] \in [n : Nat, total : Nat]
  <2>1. /\ Len(log') = n + 1 /\ log'[n + 1] = new /\ \A i \in 1..n : log'[i] = log[i]
    BY <1>1, <1>2, AppendProperties
  <2>2. n \in Nat /\ \A i \in 1..n : log[i] \in [n : Nat, total : Nat]
    BY <1>2, LenProperties, ElementOfSeq
  <2> QED BY <2>1, <2>2
<1>4. Logged' = Logged \cup {r} /\ r \notin Logged /\ Logged \in SUBSET Requests
      /\ r \in Counted /\ Logged \subseteq Counted
  BY <1>1 DEF Logged, Counted, TypeOK
<1>5. IsFiniteSet(Logged) /\ Cardinality(Logged') = Cardinality(Logged) + 1
  BY <1>4, RequestsFinite, FS_Subset, FS_AddElement
<1>6. Len(log') = Cardinality(Logged')
  BY <1>3, <1>5 DEF LogInv
<1>7. upload => total_received_bytes >= Size * (n + 1)
  <2>1. Logged' \in SUBSET Added
    BY <1>1, <1>4 DEF Logged, Added
  <2>2. Cardinality(Logged') <= Cardinality(Added)
    BY <2>1, SetsFinite, FS_Subset
  <2>3. Size * (n + 1) <= Size * Cardinality(Added)
    BY <1>3, <1>6, <2>2, SetsFinite, TimesSize
  <2> QED BY <2>3 DEF ServerCounts
<1>8. ASSUME NEW i \in 1..n PROVE log[i].n # number[r]
  <2>1. PICK q \in Logged : number[q] = log[i].n
    BY DEF LogInv
  <2>2. q # r
    BY <1>4
  <2> QED BY <1>4, <2>1, <2>2 DEF NumberInv
<1>9. ASSUME NEW i \in 1..Len(log')
      PROVE  /\ \E q \in Logged' : number'[q] = log'[i].n
             /\ log'[i].total <= total_received_bytes'
             /\ upload => log'[i].total >= Size * i
  <2>1. CASE i = n + 1
    <3>1. log'[i] = new
      BY <1>3, <2>1
    <3> QED BY <1>1, <1>2, <1>4, <1>7, <2>1, <3>1
  <2>2. CASE i \in 1..n
    <3>1. log'[i] = log[i]
      BY <1>3, <2>2
    <3> QED BY <1>1, <1>4, <2>2, <3>1 DEF LogInv
  <2> QED BY <1>3, <2>1, <2>2
<1>10. ASSUME NEW i \in 1..Len(log'), NEW k \in 1..Len(log')
       PROVE  /\ log'[i].n = log'[k].n => i = k
              /\ upload /\ k <= i => log'[k].total <= log'[i].total
  <2>1. CASE i \in 1..n /\ k \in 1..n
    <3>1. log'[i] = log[i] /\ log'[k] = log[k]
      BY <1>3, <2>1
    <3>2. k <= i => k \in 1..i
      BY <2>1
    <3> QED BY <2>1, <3>1, <3>2 DEF LogInv
  <2>2. CASE i = n + 1
    <3>1. log'[i] = new
      BY <1>3, <2>2
    <3>2. log'[k].total <= total_received_bytes
      BY <1>1, <1>9
    <3>3. CASE k = n + 1
      <4>1. log'[k] = log'[i] /\ log'[i].total \in Nat
        BY <1>2, <2>2, <3>1, <3>3
      <4> QED BY <2>2, <3>3, <4>1
    <3>4. CASE k \in 1..n
      <4>1. log'[k].n # number[r]
        BY <1>3, <1>8, <3>4
      <4> QED BY <3>1, <3>2, <4>1
    <3> QED BY <1>3, <3>3, <3>4
  <2>3. CASE k = n + 1 /\ i \in 1..n
    <3>1. log'[k] = new /\ log'[i] = log[i]
      BY <1>3, <2>3
    <3> QED BY <1>3, <1>8, <2>3, <3>1
  <2> QED BY <1>3, <2>1, <2>2, <2>3
<1>11. ASSUME upload', NEW i \in 1..Len(log'), NEW k \in 1..i
       PROVE  log'[k].total <= log'[i].total
  <2>1. k \in 1..Len(log') /\ k <= i
    BY <1>3
  <2> QED BY <1>1, <1>10, <1>11, <2>1
<1> QED BY <1>1, <1>6, <1>9, <1>10, <1>11 DEF LogInv

LEMMA LogStep == TypeOK /\ NumberInv /\ LogInv /\ ServerCounts /\ [Next]_vars => LogInv'
<1> SUFFICES ASSUME TypeOK, NumberInv, LogInv, ServerCounts, [Next]_vars PROVE LogInv'
  OBVIOUS
<1> USE DEF At
<1>1. ASSUME UNCHANGED <<upload, log>>, total_received_bytes' >= total_received_bytes,
             \A r \in Logged : number'[r] = number[r],
             \A r \in Requests : handler'[r] \in {"printed", "answered"}
                                   <=> handler[r] \in {"printed", "answered"}
      PROVE  LogInv'
  <2>1. Logged' = Logged
    BY <1>1 DEF Logged
  <2>2. \A i \in 1..Len(log) : log[i].total \in Nat
    <3>1. log \in Seq([n : Nat, total : Nat])
      BY DEF TypeOK
    <3>2. \A i \in 1..Len(log) : log[i] \in [n : Nat, total : Nat]
      BY <3>1, ElementOfSeq
    <3> QED BY <3>2
  <2>3. total_received_bytes \in Nat /\ total_received_bytes' \in Nat
    BY TypeStep DEF TypeOK
  <2>4. \A i \in 1..Len(log) : log[i].total <= total_received_bytes'
    BY <1>1, <2>2, <2>3 DEF LogInv
  <2> QED BY <1>1, <2>1, <2>4 DEF LogInv
<1>2. ASSUME NEW r \in Requests, Count(r) PROVE LogInv'
  BY <1>1, <1>2 DEF Count, Logged, TypeOK
<1>3. ASSUME NEW r \in Requests, AddTotal(r) PROVE LogInv'
  BY <1>1, <1>3, BenchAssumption DEF AddTotal, TypeOK
<1>4. ASSUME NEW r \in Requests, ReadFails(r) \/ Answer(r) PROVE LogInv'
  BY <1>1, <1>4 DEF ReadFails, Answer, TypeOK
<1>5. CASE Begin
  BY <1>1, <1>5 DEF Begin, TypeOK
<1>6. ASSUME UNCHANGED <<upload, serverVars>> PROVE LogInv'
  BY <1>1, <1>6 DEF serverVars, TypeOK
<1> QED BY <1>2, <1>3, <1>4, <1>5, <1>6, LineStep
        DEF Next, ThreadStep, Send, SendFails, CountCompleted, GiveUp, AddBytes, ThreadExit,
            HandlerStep, Idle, Report, vars

----------------------------------------------------------------------------
(* Agreement of the two programs, the log, and the tally *)

BenchInv == /\ TypeOK /\ ThreadInv /\ OkAnswered /\ ClientCounts /\ ServerCounts
            /\ SettledInv /\ FailedCount /\ ReportInv
            /\ HandlerInv /\ NumberInv /\ LogInv

LEMMA BenchAlways == SafetySpec => []BenchInv
<1>1. Init => BenchInv
  BY TypeInit, ThreadInit, ClientCountsInit, ServerCountsInit, SettledInit, HandlerInit, LogInit
     DEF BenchInv
<1>2. BenchInv /\ [Next]_vars => BenchInv'
  <2> SUFFICES ASSUME BenchInv, [Next]_vars PROVE BenchInv'
    OBVIOUS
  <2>1. TypeOK' /\ ReportInv' /\ HandlerInv' /\ NumberInv' /\ LogInv'
    BY TypeStep, ReportStep, HandlerInvStep, NumberStep, LogStep DEF BenchInv
  <2>2. ThreadInv' /\ OkAnswered' /\ ClientCounts' /\ ServerCounts'
    BY ThreadInvStep, ClientCountsStep, ServerCountsStep DEF BenchInv
  <2>3. SettledInv' /\ FailedCount'
    BY SettledStep, FailedCountStep DEF BenchInv
  <2> QED BY <2>1, <2>2, <2>3 DEF BenchInv
<1> QED BY <1>1, <1>2, PTL DEF SafetySpec

\* When the client has printed its summary and every connection the server took is
\* finished, the server's count lies between the client's successes and all its
\* requests, and each counted upload was added once
\* (concurrent_httplib_server.cpp:23-49, concurrent_httplib_client.cpp:25-71).
THEOREM TwoSidesAgree == SafetySpec => []ServerAgrees
<1>1. BenchInv => ServerAgrees
  <2> SUFFICES ASSUME BenchInv, Quiet
               PROVE  /\ completed_requests <= request_count
                      /\ request_count <= completed_requests + failed_requests
                      /\ total_received_bytes = IF upload THEN Size * request_count ELSE 0
    BY DEF ServerAgrees
  <2>1. completed_requests <= request_count
    BY CountsBackCredit DEF BenchInv, CreditBacked
  <2>2. Cardinality(Requests) = completed_requests + failed_requests
    BY AllSettled DEF BenchInv, ReportInv, Quiet, ClientCounts, FailedCount
  <2>3. Cardinality(Counted) <= Cardinality(Requests)
    <3>1. Counted \in SUBSET Requests
      BY DEF Counted
    <3> QED BY <3>1, RequestsFinite, FS_Subset
  <2>4. request_count <= completed_requests + failed_requests
    BY <2>2, <2>3 DEF BenchInv, ServerCounts
  <2>5. \A r \in Requests : handler[r] \in {"none", "dropped", "answered"}
    BY DEF Quiet, BenchInv, HandlerInv
  <2>6. Counted = Added
    BY <2>5 DEF Counted, Added
  <2>7. total_received_bytes = IF upload THEN Size * request_count ELSE 0
    BY <2>6 DEF BenchInv, ServerCounts, HandlerInv
  <2> QED BY <2>1, <2>4, <2>7
<1> QED BY <1>1, BenchAlways, PTL

\* No two lines of the server's output bear the same request number, and for
\* uploads the printed totals never decrease and the i-th line accounts for i
\* bodies at least (concurrent_httplib_server.cpp:23-47).
THEOREM LogIsTrue == SafetySpec => []LogTrue
<1>1. BenchInv => LogTrue
  <2> SUFFICES ASSUME BenchInv PROVE LogTrue
    OBVIOUS
  <2>1. DOMAIN log = 1..Len(log)
    BY LenProperties DEF BenchInv, TypeOK
  <2> QED BY <2>1 DEF BenchInv, LogInv, LogTrue
<1> QED BY <1>1, BenchAlways, PTL

\* The Cardinality of the abstract module is the one of this module.
LEMMA SameCardinality == \A S : Tally!Cardinality(S) = Cardinality(S)
BY DEF Tally!Cardinality, Cardinality

LEMMA TallyStep ==
  ASSUME BenchInv, [Next]_vars
  PROVE  [Tally!TallyNext]_Tally!tallyVars
<1> USE DEF Tally!tallyVars
<1>1. ASSUME NEW t \in Threads, SendFails(t) \/ CountCompleted(t) \/ GiveUp(t)
      PROVE  Tally!TallyNext
  <2>1. PICK r \in Requests, o \in {"ok", "failed"} :
          outcome[r] = "pending" /\ outcome' = [outcome EXCEPT ![r] = o]
    BY <1>1, SettlesPending DEF BenchInv
  <2>2. summary' = summary
    BY <1>1 DEF SendFails, CountCompleted, GiveUp
  <2> QED BY <2>1, <2>2 DEF Tally!TallyNext, Tally!Settle
<1>2. CASE Report
  <2>1. summary = NoSummary /\ summary' = Printed /\ outcome' = outcome
    BY <1>2 DEF Report
  <2>2. /\ \A r \in Requests : outcome[r] # "pending"
        /\ Owing = {}
    BY <1>2, AllSettled DEF Report, BenchInv
  <2>3. Cardinality(Owing) = 0
    BY <2>2, FS_EmptySet
  <2>4. Size * 0 = 0 /\ total_bytes_transferred \in Nat
    BY BenchAssumption DEF BenchInv, TypeOK
  <2>5. /\ completed_requests = Cardinality(Ok) /\ failed_requests = Cardinality(Failed)
        /\ total_bytes_transferred = Size * Cardinality(Ok)
    BY <2>3, <2>4 DEF BenchInv, ClientCounts, FailedCount
  <2>6. Tally!With("ok") = Ok /\ Tally!With("failed") = Failed /\ Tally!With("pending") = {}
    BY <2>2 DEF Tally!With, Ok, Failed
  <2>7. Printed = Tally!Truth
    BY <2>5, <2>6, SameCardinality DEF Printed, Tally!Truth
  <2> QED BY <2>1, <2>6, <2>7 DEF Tally!TallyNext, Tally!Summarise
<1>3. ASSUME UNCHANGED <<outcome, summary>> PROVE UNCHANGED Tally!tallyVars
  BY <1>3
<1> QED BY <1>1, <1>2, <1>3
        DEF Next, ThreadStep, Send, AddBytes, ThreadExit, HandlerStep, Idle, Begin, ReadFails,
            Count, AddTotal, LogLine, Answer, vars, clientVars

\* The client settles each request once and prints, once and after the last of them,
\* how many succeeded and failed and the bytes of the successes
\* (concurrent_httplib_client.cpp:25-71, 107-122).
THEOREM KeepsTally == SafetySpec => Tally!TallySafety
<1>1. Init => Tally!TallyInit
  BY DEF Init, Tally!TallyInit
<1>2. BenchInv /\ [Next]_vars => [Tally!TallyNext]_Tally!tallyVars
  BY TallyStep
<1> QED BY <1>1, <1>2, BenchAlways, PTL DEF SafetySpec, Tally!TallySafety
=============================================================================
