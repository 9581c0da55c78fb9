--------------------------- MODULE EmbeddedServer ---------------------------
(***************************************************************************)
(* The TCP server embedded in run_cross_host_validation.py and             *)
(* run_netem_validation.py, one thread per connection, and the client of   *)
(* the first, run_one_experiment.  Several clients, of one program or of   *)
(* several, use one server at the same time, each with a session of its    *)
(* own.                                                                    *)
(*                                                                         *)
(* The registry of verifiers is read and written under _lock; the verifier *)
(* itself, and the ticket the last HELLO issued, are used without it.      *)
(***************************************************************************)
EXTENDS BaselineProtocols

CONSTANTS
  Clients,       \* the connections; each has one session, named like it
  ProtocolOf,    \* the protocol of each
  MessageCount,
  MayFail        \* may a socket operation of the client fail or time out?

\* Of the constants; MC modules state them (ASSUME) for their instances.
ProtocolAssumption == ProtocolOf \in [Clients -> Protocols]
CountAssumption == MessageCount \in Nat \ {0}
FaultAssumption == MayFail \in BOOLEAN

CLIENT_ID == "client"
EPOCH == 1
Payload(n) == <<"cross", n>>

VARIABLES
  (* EmbeddedTCPServer *)
  verifiers,       \* _verifiers: the state of each session's verifier, or NoVerifier
  current_ticket,  \* _current_ticket
  line, answer,    \* what is on its way to and from each client, or Nothing
  thread, verdict, \* each thread: what it does next, and what it found
  (* run_one_experiment *)
  pc, ticket, seq, last_seq, client_state, server_state, counts, sent,
  failure_type,
  rows             \* the result of each client's run, or NoRow

server == <<verifiers, current_ticket, thread, verdict>>
adapter == <<last_seq, client_state, server_state>>
client == <<pc, ticket, seq, adapter, counts, sent, failure_type, rows>>
vars == <<server, line, answer, client>>

NoVerifier == [none |-> TRUE]
Nothing == [type |-> "nothing"]
NoRow == [none |-> TRUE]
NoTicket == <<>>

Init ==
  /\ verifiers = [c \in Clients |-> NoVerifier]
  /\ current_ticket = NoTicket
  /\ line = [c \in Clients |-> Nothing] /\ answer = [c \in Clients |-> Nothing]
  /\ thread = [c \in Clients |-> "read"]
  /\ verdict = [c \in Clients |-> "none"]
  /\ pc = [c \in Clients |-> "connect"]
  /\ ticket = [c \in Clients |-> NoTicket]
  /\ seq = [c \in Clients |-> 0]
  /\ last_seq = [c \in Clients |-> 0]
  /\ client_state = [c \in Clients |-> <<c>>]
  /\ server_state = [c \in Clients |-> [last_seq |-> 0, last |-> <<>>]]
  /\ counts = [c \in Clients |->
                 [accepted |-> 0, rejected |-> 0, timeouts |-> 0, errors |-> 0]]
  /\ sent = [c \in Clients |-> 0]
  /\ failure_type = [c \in Clients |-> ""]
  /\ rows = [c \in Clients |-> NoRow]

-----------------------------------------------------------------------------
(* The server *)

Issued(c) == TicketOnlyTag(InitialState(c, CLIENT_ID, EPOCH))

\* _handle_hello, up to the release of the lock: a verifier for a new session.
Hello(c) ==
  /\ thread[c] = "read" /\ line[c].type = "HELLO"
  /\ verifiers' = [verifiers EXCEPT ![c] = InitialState(c, CLIENT_ID, EPOCH)]
  /\ current_ticket' = IF ProtocolOf[c] = "ticket_only" THEN Issued(c)
                       ELSE current_ticket
  /\ line' = [line EXCEPT ![c] = Nothing]
  /\ thread' = [thread EXCEPT ![c] = "ack"]
  /\ UNCHANGED <<verdict, answer, client>>

\* The rest of it: the answer takes the ticket that was issued last.
HelloAck(c) ==
  /\ thread[c] = "ack"
  /\ answer' = [answer EXCEPT ![c] =
       [type |-> "HELLO_ACK",
        ticket |-> IF ProtocolOf[c] = "ticket_only" THEN current_ticket
                   ELSE NoTicket]]
  /\ thread' = [thread EXCEPT ![c] = "read"]
  /\ UNCHANGED <<verifiers, current_ticket, verdict, line, client>>

\* _handle_data: verify_data_packet compares ...
Verify(c) ==
  /\ thread[c] = "read" /\ line[c].type = "DATA"
  /\ verdict' = [verdict EXCEPT ![c] =
                   Verdict(ProtocolOf[c], verifiers[c], line[c].packet)]
  /\ thread' = [thread EXCEPT ![c] = "apply"]
  /\ UNCHANGED <<verifiers, current_ticket, line, answer, client>>

\* ... and updates the state.
Apply(c) ==
  /\ thread[c] = "apply"
  /\ verifiers' = IF verdict[c] = "ok"
                  THEN [verifiers EXCEPT ![c] =
                          Verified(ProtocolOf[c], @, line[c].packet)]
                  ELSE verifiers
  /\ line' = [line EXCEPT ![c] = Nothing]
  /\ thread' = [thread EXCEPT ![c] = "respond"]
  /\ UNCHANGED <<current_ticket, verdict, answer, client>>

\* Mutant: the thread ends with its first answer.
RespondOnce(c) ==
  /\ thread[c] = "respond"
  /\ answer' = [answer EXCEPT ![c] =
       [type |-> "DATA", ok |-> verdict[c] = "ok",
        last_seq |-> verifiers[c].last_seq, last |-> verifiers[c].last]]
  /\ thread' = [thread EXCEPT ![c] = "ended"]
  /\ UNCHANGED <<verifiers, current_ticket, verdict, line, client>>

Respond(c) ==
  /\ thread[c] = "respond"
  /\ answer' = [answer EXCEPT ![c] =
       [type |-> "DATA", ok |-> verdict[c] = "ok",
        last_seq |-> verifiers[c].last_seq, last |-> verifiers[c].last]]
  /\ thread' = [thread EXCEPT ![c] = "read"]
  /\ UNCHANGED <<verifiers, current_ticket, verdict, line, client>>

\* A PING, on a connection of its own: ping_server and measure_baseline_rtt.
Ping == UNCHANGED vars

-----------------------------------------------------------------------------
(* The client: how a run fails *)

Failed(c, type, counted) ==
  /\ failure_type' = [failure_type EXCEPT ![c] = type]
  /\ counts' = [counts EXCEPT ![c] = counted]
  /\ pc' = [pc EXCEPT ![c] = "over"]

AtLeastOneError(c) ==
  [counts[c] EXCEPT !.errors = IF @ = 0 THEN 1 ELSE @]

\* The clause for OSError: what was refused, reset or closed.
RaisesOSError(c) == Failed(c, "connection_error", AtLeastOneError(c))

\* The clause for socket.timeout, and those after OSError.
RaisesOther(c, otherwise) ==
  Failed(c, IF failure_type[c] # "" THEN failure_type[c] ELSE otherwise,
         AtLeastOneError(c))

Connect(c) ==
  /\ pc[c] = "connect"
  /\ \/ /\ pc' = [pc EXCEPT ![c] = "hello"]
        /\ line' = [line EXCEPT ![c] = [type |-> "HELLO"]]
        /\ UNCHANGED <<counts, failure_type>>
     \/ /\ MayFail
        /\ RaisesOSError(c)
        /\ UNCHANGED line
  /\ UNCHANGED <<server, answer, ticket, seq, adapter, sent, rows>>

\* send_hello returns: an adapter for the session, with the ticket it was given.
Welcome(c) ==
  /\ pc[c] = "hello" /\ answer[c].type = "HELLO_ACK"
  /\ ticket' = [ticket EXCEPT ![c] = answer[c].ticket]
  /\ answer' = [answer EXCEPT ![c] = Nothing]
  /\ pc' = [pc EXCEPT ![c] = "send"]
  /\ UNCHANGED <<server, line, seq, adapter, counts, sent, failure_type, rows>>

\* send_hello raises: the inner clause names the failure, then the outer ones
\* see an OSError or a timeout.
HelloFails(c) ==
  /\ MayFail /\ pc[c] = "hello"
  /\ \/ RaisesOSError(c)
     \/ Failed(c, "hello_error", AtLeastOneError(c))
  /\ UNCHANGED <<server, line, answer, ticket, seq, adapter, sent, rows>>

\* build_packet.
Packet(c) ==
  LET built == Build(ProtocolOf[c], c, CLIENT_ID, EPOCH, seq[c] + 1,
                     client_state[c], Payload(seq[c] + 1))
  IN  IF ProtocolOf[c] = "ticket_only" THEN [built EXCEPT !.tag = ticket[c]]
      ELSE built

Send(c) ==
  /\ pc[c] = "send" /\ seq[c] < MessageCount
  /\ seq' = [seq EXCEPT ![c] = @ + 1]
  /\ line' = [line EXCEPT ![c] = [type |-> "DATA", packet |-> Packet(c)]]
  /\ sent' = [sent EXCEPT ![c] = @ + 1]
  /\ pc' = [pc EXCEPT ![c] = "recv"]
  /\ UNCHANGED <<server, answer, ticket, adapter, counts, failure_type, rows>>

\* sendall raises in the loop: no inner clause sees it.
SendFails(c) ==
  /\ MayFail /\ pc[c] = "send" /\ seq[c] < MessageCount
  /\ seq' = [seq EXCEPT ![c] = @ + 1]
  /\ RaisesOSError(c) \/ RaisesOther(c, "connection_error")
  /\ UNCHANGED <<server, line, answer, ticket, adapter, sent, rows>>

\* Mutant: the hash in the answer is not kept.
UpdateSeqOnly(c) ==
  /\ last_seq' = [last_seq EXCEPT ![c] = seq[c]]
  /\ client_state' = [client_state EXCEPT ![c] =
       IF ProtocolOf[c] \in Linked THEN Link(@, Payload(seq[c])) ELSE @]
  /\ server_state' = [server_state EXCEPT ![c].last_seq = answer[c].last_seq]

\* update_after_accept: the client's state from its packet, the server's from
\* its answer.
UpdateAfterAccept(c) ==
  /\ last_seq' = [last_seq EXCEPT ![c] = seq[c]]
  /\ client_state' = [client_state EXCEPT ![c] =
       IF ProtocolOf[c] \in Linked THEN Link(@, Payload(seq[c])) ELSE @]
  /\ server_state' = [server_state EXCEPT ![c] =
                        [last_seq |-> answer[c].last_seq, last |-> answer[c].last]]

Receive(c) ==
  /\ pc[c] = "recv" /\ answer[c].type = "DATA"
  /\ answer' = [answer EXCEPT ![c] = Nothing]
  /\ IF answer[c].ok
     THEN /\ counts' = [counts EXCEPT ![c].accepted = @ + 1]
          /\ UpdateAfterAccept(c)
     ELSE /\ counts' = [counts EXCEPT ![c].rejected = @ + 1]
          /\ UNCHANGED adapter
  /\ pc' = [pc EXCEPT ![c] = "send"]
  /\ UNCHANGED <<server, line, ticket, seq, sent, failure_type, rows>>

\* Mutant: the next message is sent after a timeout.
ReceiveGoesOn(c) ==
  /\ MayFail /\ pc[c] = "recv"
  /\ counts' = [counts EXCEPT ![c].timeouts = @ + 1]
  /\ pc' = [pc EXCEPT ![c] = "send"]
  /\ UNCHANGED <<server, line, answer, ticket, seq, adapter, sent, failure_type,
                 rows>>

\* Mutant: an answer that cannot be read is counted, and not named.
ReceiveFailsUnnamed(c) ==
  /\ MayFail /\ pc[c] = "recv"
  /\ \/ Failed(c, "socket_timeout", [counts[c] EXCEPT !.timeouts = @ + 1])
     \/ Failed(c, "", [counts[c] EXCEPT !.errors = @ + 1])
  /\ UNCHANGED <<server, line, answer, ticket, seq, adapter, sent, rows>>

\* The answer does not come in time, or cannot be read: the loop is left.
ReceiveFails(c) ==
  /\ MayFail /\ pc[c] = "recv"
  /\ \/ Failed(c, "socket_timeout", [counts[c] EXCEPT !.timeouts = @ + 1])
     \/ Failed(c, "recv_error", [counts[c] EXCEPT !.errors = @ + 1])
  /\ UNCHANGED <<server, line, answer, ticket, seq, adapter, sent, rows>>

-----------------------------------------------------------------------------
(* The client: the result of a run *)

\* check_state_match.
StateMatch(c) ==
  /\ last_seq[c] = server_state[c].last_seq
  /\ ProtocolOf[c] \in Linked => client_state[c] = server_state[c].last

Unrecovered(c) == counts[c].rejected + counts[c].timeouts + counts[c].errors

\* Mutant: a run is valid when nothing went wrong.
RunValidIfQuiet(c) == Unrecovered(c) = 0 \/ counts[c].accepted > 0

RunValid(c) ==
  /\ counts[c].accepted = MessageCount
  /\ Unrecovered(c) = 0
  /\ last_seq[c] = MessageCount /\ StateMatch(c)

EndRun(c) ==
  /\ \/ pc[c] = "over"
     \/ pc[c] = "send" /\ seq[c] = MessageCount
  /\ rows' = [rows EXCEPT ![c] =
       [run_valid |-> RunValid(c), state_match |-> StateMatch(c),
        accepted |-> counts[c].accepted, failure_type |-> failure_type[c]]]
  /\ pc' = [pc EXCEPT ![c] = "done"]
  /\ UNCHANGED <<server, line, answer, ticket, seq, adapter, counts, sent,
                 failure_type>>

ServerStep(c) == Hello(c) \/ HelloAck(c) \/ Verify(c) \/ Apply(c) \/ Respond(c)
ClientStep(c) ==
  \/ Connect(c) \/ Welcome(c) \/ HelloFails(c) \/ Send(c) \/ SendFails(c)
  \/ Receive(c) \/ ReceiveFails(c) \/ EndRun(c)

Next == (\E c \in Clients : ServerStep(c) \/ ClientStep(c)) \/ Ping

Spec == Init /\ [][Next]_vars

-----------------------------------------------------------------------------
(* Properties *)

\* TypeOK: the variables stay in their domains.
TypeOK ==
  /\ \A c \in Clients : verifiers[c] # NoVerifier =>
       verifiers[c].session = c /\ verifiers[c].last_seq \in 0..MessageCount
  /\ thread \in [Clients -> {"read", "ack", "apply", "respond"}]
  /\ pc \in [Clients -> {"connect", "hello", "send", "recv", "over", "done"}]
  /\ seq \in [Clients -> 0..MessageCount] /\ sent \in [Clients -> 0..MessageCount]
  /\ last_seq \in [Clients -> 0..MessageCount]
  /\ failure_type \in [Clients -> {"", "connection_error", "hello_error",
                                   "socket_timeout", "recv_error"}]

\* ValidRunsAreWhole: a run is valid only when the server's verifier of its
\* session has taken all its messages, once, in order, in spite of the other
\* sessions' threads and of what failed.
ValidRunsAreWhole ==
  \A c \in Clients :
    rows[c] # NoRow /\ rows[c].run_valid =>
      /\ verifiers[c].last_seq = MessageCount
      /\ ProtocolOf[c] \in Linked =>
           verifiers[c].last = <<c>> \o [n \in 1..MessageCount |-> Payload(n)]

\* CompleteRunsMatch: the two ends' states, computed apart, agree in every run
\* all of whose messages were accepted: the comparison is no hidden failure.
CompleteRunsMatch ==
  \A c \in Clients :
    rows[c] # NoRow /\ rows[c].accepted = MessageCount =>
      rows[c].state_match /\ (MayFail \/ rows[c].run_valid)

\* ClientOneBehind: the client's state is the server's, or lacks the one packet
\* whose answer is under way or was lost.
ClientOneBehind ==
  \A c \in Clients :
    verifiers[c] # NoVerifier =>
      verifiers[c].last_seq \in {last_seq[c], last_seq[c] + 1}

\* NamedFailures: a run that is not valid, though no message was refused, says
\* why; one that says why is not valid.
NamedFailures ==
  \A c \in Clients :
    rows[c] # NoRow /\ counts[c].rejected = 0 =>
      (rows[c].run_valid <=> rows[c].failure_type = "")

\* RunsEnd: every run ends with a row, and nobody waits for an answer that the
\* server does not send.
Over == \A c \in Clients : rows[c] # NoRow

\* TicketsAreTheirs: the ticket a HELLO is answered with is that of its
\* session.  Another HELLO may have been handled before the answer is built.
TicketsAreTheirs ==
  \A c \in Clients : ticket[c] \in {NoTicket, Issued(c)}

=============================================================================
