--------------------------- MODULE BenchmarkTally ---------------------------
(***************************************************************************)
(* What every benchmark client of this repository is for: it performs a    *)
(* set of requests, settles each one once, as a success or a failure, and  *)
(* when all are settled prints one summary that tells the truth.           *)
(***************************************************************************)
EXTENDS Naturals, FiniteSets

CONSTANTS Requests,   \* the requests of one benchmark
          Size,       \* the bytes one successful request moves
          NoSummary   \* nothing is printed yet

VARIABLES outcome,    \* "pending", "ok" or "failed" for each request
          summary     \* the printed numbers

tallyVars == <<outcome, summary>>

With(o) == {r \in Requests : outcome[r] = o}

Truth == [ok     |-> Cardinality(With("ok")),
          failed |-> Cardinality(With("failed")),
          bytes  |-> Size * Cardinality(With("ok"))]

TallyInit == outcome = [r \in Requests |-> "pending"] /\ summary = NoSummary

Settle(r, o) == /\ outcome[r] = "pending"
                /\ outcome' = [outcome EXCEPT ![r] = o]
                /\ UNCHANGED summary

Summarise == /\ summary = NoSummary
             /\ With("pending") = {}
             /\ summary' = Truth
             /\ UNCHANGED outcome

TallyNext == Summarise \/ \E r \in Requests, o \in {"ok", "failed"} : Settle(r, o)

TallySafety == TallyInit /\ [][TallyNext]_tallyVars

\* a benchmark ends: it prints its summary, and has settled every request by then
TallySpec == TallySafety /\ <>(summary # NoSummary)
=============================================================================
