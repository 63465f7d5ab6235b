-------------------------- MODULE SeastarTransfer --------------------------
(***************************************************************************)
(* regular_seastar_server.cpp and its clients, regular_seastar_client.cpp: *)
(* the server accepts one connection after the other and sends a fixed     *)
(* amount of data on each; a client reads until it has it all.  Seastar's  *)
(* streams and the network between them are external: a connection holds   *)
(* at most Room blocks that were written and not yet read.                 *)
(***************************************************************************)
EXTENDS Naturals, FiniteSets

CONSTANTS Clients,    \* the clients, one connection each
          Blocks,     \* DATA_SIZE, in blocks
          Room        \* what the two ends of a connection buffer, in blocks

ASSUME TransferAssumption == /\ IsFiniteSet(Clients)
                             /\ Blocks \in Nat \ {0} /\ Room \in Nat \ {0}

VARIABLES
  loop,             \* service_loop(): "accepting", "busy", or "undefined"
  handling,         \* handle_connection() of each client
  written,          \* blocks the server has written to each client
  channel,          \* blocks written and not yet read
  eof,              \* the server's end of the connection is closed
  broken,           \* the connection is lost: both ends get errors
  client,           \* client_connect() of each client
  total_received

transferVars == <<loop, handling, written, channel, eof, broken, client, total_received>>
connection == <<written, channel, eof, broken>>

HandlerPC == {"none", "writing", "flushing", "closing", "closingIn", "closed", "failed"}
ClientPC  == {"new", "reading", "complete", "ended", "failed"}
Active    == {"writing", "flushing", "closing", "closingIn"}

TransferInit ==
        /\ loop = "accepting"
        /\ handling = [c \in Clients |-> "none"]
        /\ written = [c \in Clients |-> 0] /\ channel = [c \in Clients |-> 0]
        /\ eof = [c \in Clients |-> FALSE] /\ broken = [c \in Clients |-> FALSE]
        /\ client = [c \in Clients |-> "new"]
        /\ total_received = [c \in Clients |-> 0]

----------------------------------------------------------------------------
(* service_loop(); an accept() that fails is logged and tried again *)

Accepts(c, next) == /\ loop = "accepting"
                    /\ client[c] # "new" /\ handling[c] = "none"
                    /\ loop' = next
                    /\ handling' = [handling EXCEPT ![c] = "writing"]
                    /\ UNCHANGED <<connection, client, total_received>>

\* mutant: the future of handle_connection() is dropped, not returned
AcceptBackground(c) == Accepts(c, "accepting")

\* the next accept() waits for the future of handle_connection()
Accept(c) == Accepts(c, "busy")

(* handle_connection() *)

Move(c, from, to) == handling[c] = from /\ handling' = [handling EXCEPT ![c] = to]

\* mutant: a block that finds no room is dropped
WriteDrops(c) == /\ Move(c, "writing", IF written[c] + 1 = Blocks THEN "flushing" ELSE "writing")
                 /\ ~broken[c]
                 /\ written' = [written EXCEPT ![c] = @ + 1]
                 /\ channel' = [channel EXCEPT ![c] = IF @ < Room THEN @ + 1 ELSE @]
                 /\ UNCHANGED <<loop, eof, broken, client, total_received>>

\* co_await out.write() goes on as the client reads
Write(c) == /\ Move(c, "writing", IF written[c] + 1 = Blocks THEN "flushing" ELSE "writing")
            /\ ~broken[c] /\ channel[c] < Room
            /\ written' = [written EXCEPT ![c] = @ + 1]
            /\ channel' = [channel EXCEPT ![c] = @ + 1]
            /\ UNCHANGED <<loop, eof, broken, client, total_received>>

Flush(c) == /\ Move(c, "flushing", "closing") /\ ~broken[c]
            /\ UNCHANGED <<loop, connection, client, total_received>>

CloseOut(c) == /\ Move(c, "closing", "closingIn") /\ ~broken[c]
               /\ eof' = [eof EXCEPT ![c] = TRUE]
               /\ UNCHANGED <<loop, written, channel, broken, client, total_received>>

\* mutant: the loop is not told that the connection is done
CloseInSilent(c) == /\ Move(c, "closingIn", "closed")
                    /\ UNCHANGED <<loop, connection, client, total_received>>

CloseIn(c) == /\ Move(c, "closingIn", "closed")
              /\ loop' = "accepting"
              /\ UNCHANGED <<connection, client, total_received>>

\* an exception, of a lost connection or any other: the coroutine ends and its
\* socket is closed.  The handler of the exception flows off the end of a
\* function that returns a future, so the loop goes on or does not.
Fail(c) == /\ handling[c] \in Active
           /\ handling' = [handling EXCEPT ![c] = "failed"]
           /\ eof' = [eof EXCEPT ![c] = TRUE]
           /\ loop' \in {"accepting", "undefined"}
           /\ UNCHANGED <<written, channel, broken, client, total_received>>

----------------------------------------------------------------------------
(* client_connect() *)

\* the connection stands when the kernel has it in the backlog
Connect(c) == /\ client[c] = "new"
              /\ client' = [client EXCEPT ![c] = "reading"]
              /\ UNCHANGED <<loop, handling, connection, total_received>>

\* do_until: total_received >= DATA_SIZE
TransferEnds(c) == /\ client[c] = "reading" /\ total_received[c] >= Blocks
                   /\ client' = [client EXCEPT ![c] = "complete"]
                   /\ UNCHANGED <<loop, handling, connection, total_received>>

\* in.read() returns what is there
Read(c) == /\ client[c] = "reading" /\ total_received[c] < Blocks
           /\ \E n \in 1..channel[c] :
                 /\ total_received' = [total_received EXCEPT ![c] = @ + n]
                 /\ channel' = [channel EXCEPT ![c] = @ - n]
           /\ UNCHANGED <<loop, handling, written, eof, broken, client>>

\* an empty buffer: "Connection closed by server", and the loop goes on
ReadEof(c) == /\ client[c] = "reading" /\ total_received[c] < Blocks
              /\ channel[c] = 0 /\ eof[c] /\ ~broken[c]
              /\ UNCHANGED transferVars

\* an exception ends the client
ReadFails(c) == /\ client[c] \in {"reading", "complete"} /\ broken[c]
                /\ client' = [client EXCEPT ![c] = "failed"]
                /\ UNCHANGED <<loop, handling, connection, total_received>>

\* out.close() and in.close()
CloseStreams(c) == /\ client[c] = "complete" /\ ~broken[c]
                   /\ client' = [client EXCEPT ![c] = "ended"]
                   /\ UNCHANGED <<loop, handling, connection, total_received>>

\* the network loses a connection that is in use
Lose(c) == /\ client[c] = "reading" /\ ~broken[c]
           /\ broken' = [broken EXCEPT ![c] = TRUE]
           /\ UNCHANGED <<loop, handling, written, channel, eof, client, total_received>>

----------------------------------------------------------------------------
HandlerStep(c) == \/ Write(c) \/ Flush(c) \/ CloseOut(c) \/ CloseIn(c)
                  \/ (Fail(c) /\ broken[c])
ClientStep(c)  == TransferEnds(c) \/ Read(c) \/ ReadEof(c) \/ ReadFails(c) \/ CloseStreams(c)

\* every client has ended, or waits for a server that is no longer there
Idle == /\ \A c \in Clients : \/ client[c] \in {"ended", "failed"}
                              \/ client[c] = "reading" /\ loop = "undefined"
        /\ UNCHANGED transferVars

TransferNext == \/ \E c \in Clients : \/ Accept(c) \/ HandlerStep(c) \/ Fail(c)
                                      \/ Connect(c) \/ ClientStep(c) \/ Lose(c)
                \/ Idle

TransferSafety == TransferInit /\ [][TransferNext]_transferVars

\* the reactors run what is ready: the loop accepts, the handler and the
\* clients go on; nobody need connect, nothing need break
TransferFairness ==
        /\ WF_transferVars(\E c \in Clients : Accept(c))
        /\ \A c \in Clients : WF_transferVars(HandlerStep(c)) /\ WF_transferVars(ClientStep(c))

TransferSpec == TransferSafety /\ TransferFairness

----------------------------------------------------------------------------
(* Properties *)

\* Every variable has its type.
TypeOK == /\ loop \in {"accepting", "busy", "undefined"}
          /\ handling \in [Clients -> HandlerPC]
          /\ written \in [Clients -> 0..Blocks] /\ channel \in [Clients -> 0..Room]
          /\ eof \in [Clients -> BOOLEAN] /\ broken \in [Clients -> BOOLEAN]
          /\ client \in [Clients -> ClientPC]
          /\ total_received \in [Clients -> 0..Blocks]

\* The server serves one connection at a time, so one buffer of DATA_SIZE is
\* the most it ever holds, however many clients connect.
OneBuffer == /\ \A c, d \in Clients : handling[c] \in Active /\ handling[d] \in Active => c = d
             /\ (\E c \in Clients : handling[c] \in Active) => loop # "accepting"

\* Nothing the server has written is lost or read twice, and a client that
\* reports "Transfer complete" has all of it.
NothingLost == \A c \in Clients :
                 /\ written[c] = total_received[c] + channel[c]
                 /\ client[c] \in {"complete", "ended"} => written[c] = Blocks /\ channel[c] = 0

\* A client whose handler has failed before the end: it reads nothing for ever.
CutOff(c) == handling[c] = "failed" /\ written[c] < Blocks

\* A client that connects ends, whoever else has connected before it: a handler that has
\* not failed closes after the last block and lets the next one in.  Excused are a
\* client whose own handler failed, and all of them once the loop is undefined.
ConnectedEnds == \A c \in Clients :
                   client[c] = "reading" ~> \/ client[c] \in {"ended", "failed"}
                                            \/ CutOff(c) \/ loop = "undefined"
=============================================================================
