--------------------------- MODULE MCRegularBench ---------------------------
(* The two benchmarks whose client has one thread.  They share nothing: the one that
   makes the first step is the one that is run, and the other stays as it began, where
   no fairness asks a step of it. *)
EXTENDS RegularHttplibBench, SeastarTransfer

CONSTANTS c1, c2

MCClients == {c1, c2}

EitherInit == Init /\ TransferInit
EitherNext == \/ Next /\ TransferInit /\ UNCHANGED transferVars
              \/ TransferNext /\ Init /\ UNCHANGED vars

EitherSpec == EitherInit /\ [][EitherNext]_<<vars, transferVars>> /\ TransferFairness
=============================================================================
