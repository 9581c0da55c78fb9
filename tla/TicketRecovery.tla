--------------------------- MODULE TicketRecovery ---------------------------
(***************************************************************************)
(* One session of the ticket server (real_tcp_server_with_ticket.py) and   *)
(* the client role of the experiment drivers, over connections that the    *)
(* client may abandon at any moment.                                       *)
(*                                                                         *)
(* The server runs one thread per connection.  A thread reads one line,    *)
(* handles it while holding the session's lock, and sends the response     *)
(* after releasing the lock.  Here one action is one critical section, and *)
(* the response then sits in its connection until the client reads it: two *)
(* connections may therefore deliver their responses in either order.      *)
(*                                                                         *)
(* Memory.  last_mem is a hash chain over the accepted payloads            *)
(* (memory.update_memory).  With a collision-free hash a chain value       *)
(* identifies the payloads it was built from, so a memory is modelled as   *)
(* that sequence of payloads.                                              *)
(*                                                                         *)
(* Tickets.  The HMAC makes tickets unforgeable, so a client only holds    *)
(* tickets the server issued.  The random ticket_nonce is the ticket's     *)
(* position in the order of issue.                                         *)
(***************************************************************************)
EXTENDS Integers, Sequences, FiniteSetsExt, SequencesExt

CONSTANTS
  Payloads,           \* the payloads a client may send
  NoPayload,          \* the client waits for no DATA response
  Conns,              \* connection slots (a slot is reused once it is empty)
  Intervals,          \* checkpoint_interval values a first packet carries
  DefaultInterval,    \* config.CHECKPOINT_INTERVAL, used when a packet has none
  TicketInterval,     \* TICKET_INTERVAL
  SavesReplacement,   \* does the client keep the ticket of a recovery response?
  MaxSeq,             \* bound: messages a client sends
  MaxTickets          \* bound: tickets the server issues

ASSUME IntervalsAssumption ==
  /\ Intervals \subseteq Nat \ {0}
  /\ DefaultInterval \in Intervals
  /\ TicketInterval \in Nat \ {0}
ASSUME NoPayloadAssumption == NoPayload \notin Payloads
ASSUME BoundsAssumption == MaxSeq \in Nat /\ MaxTickets \in Nat
ASSUME SavesReplacementAssumption == SavesReplacement \in BOOLEAN

VARIABLES
  (* The session context, guarded by ctx.lock. *)
  checkpoint_interval,  \* 0 until get_or_create has made the context
  last_seq, last_mem,   \* GMCPState
  checkpoints,          \* CheckpointManager.checkpoints
  used_nonces,          \* TicketNonceStore._used
  issued,               \* the tickets issued so far, in order
  expired,              \* tickets with a nonce up to this one have expired
  (* The connections. *)
  request,              \* what the server has yet to read on a connection
  response,             \* what the client has yet to read on a connection
  (* The client. *)
  waiting,              \* the connections the client waits on
  client_seq, client_mem, \* its own view of the history
  pending,              \* the payload of its unanswered DATA packet
  synced,               \* FALSE when it must recover before it sends DATA
  held                  \* the tickets it has saved

serverVars  == <<checkpoint_interval, last_seq, last_mem, checkpoints,
                 used_nonces, issued>>
clientVars  == <<client_seq, client_mem, pending, synced, held>>
vars == <<serverVars, expired, request, response, waiting, clientVars>>

-----------------------------------------------------------------------------
(* Types *)

Memory == Seq(Payloads)

Checkpoint == [seq : Nat, memory : Memory]

Ticket == [nonce : Nat \ {0}, last_seq : Nat, last_mem : Memory,
           checkpoint_seq : Nat, checkpoint_mem : Memory]

NoTicket == [nonce |-> 0, last_seq |-> 0, last_mem |-> <<>>,
             checkpoint_seq |-> 0, checkpoint_mem |-> <<>>]

DataPacket == [type : {"DATA"}, seq : Nat, prev_mem : Memory,
               payload : Payloads, checkpoint_interval : Intervals]

RecoveryRequest == [type : {"RECOVERY_REQUEST"},
                    memory_ticket : Ticket \union {NoTicket},
                    checkpoint_interval : Intervals]

Response == [type : {"DATA", "RECOVERY_RESPONSE"}, ok : BOOLEAN,
             last_seq : Nat, last_mem : Memory,
             memory_ticket : Ticket \union {NoTicket}]

Nothing == [type |-> "nothing"]

TypeOK ==
  /\ checkpoint_interval \in Intervals \union {0}
  /\ last_seq \in Nat /\ last_mem \in Memory
  /\ checkpoints \in Seq(Checkpoint)
  /\ used_nonces \subseteq Nat
  /\ issued \in Seq(Ticket)
  /\ expired \in Nat
  /\ request \in [Conns -> DataPacket \union RecoveryRequest \union {Nothing}]
  /\ response \in [Conns -> Response \union {Nothing}]
  /\ waiting \subseteq Conns
  /\ client_seq \in Nat /\ client_mem \in Memory
  /\ pending \in Payloads \union {NoPayload}
  /\ synced \in BOOLEAN
  /\ held \subseteq Ticket

Init ==
  /\ checkpoint_interval = 0
  /\ last_seq = 0 /\ last_mem = <<>>
  /\ checkpoints = <<>>
  /\ used_nonces = {}
  /\ issued = <<>>
  /\ expired = 0
  /\ request = [c \in Conns |-> Nothing]
  /\ response = [c \in Conns |-> Nothing]
  /\ waiting = {}
  /\ client_seq = 0 /\ client_mem = <<>>
  /\ pending = NoPayload
  /\ synced = TRUE
  /\ held = {}

-----------------------------------------------------------------------------
(* Server: the parts of a critical section *)

\* SessionRegistry.get_or_create: only the call that creates the context
\* decides its checkpoint interval.
GetOrCreate(interval) ==
  IF checkpoint_interval = 0 THEN interval ELSE checkpoint_interval

\* GMCPVerifier.verify_data_packet, the checks an authentic packet can fail:
\* neither a replay nor a gap, and built on the server's own history.
InOrder(packet)    == packet.seq = last_seq + 1
Continuous(packet) == packet.prev_mem = last_mem

\* The lower bound a recovery ticket must reach: the latest checkpoint.
RecoveryFloor == IF checkpoints = <<>> THEN 0 ELSE Last(checkpoints).seq

\* Mutant: the nonce store is not asked.
TicketValidIfReused(ticket) ==
  /\ ticket # NoTicket
  /\ ticket.nonce > expired
  /\ ticket.checkpoint_seq <= ticket.last_seq
  /\ ticket.last_seq >= RecoveryFloor

\* validate_memory_ticket: the checks on the ticket itself.  The nonce is
\* looked up, not consumed.
TicketValid(ticket) ==
  /\ ticket # NoTicket
  /\ ticket.nonce > expired
  /\ ticket.checkpoint_seq <= ticket.last_seq
  /\ ticket.last_seq >= RecoveryFloor
  /\ ticket.nonce \notin used_nonces

\* Mutant: the search starts from the oldest checkpoint.
CheckpointValidOldest(ticket) ==
  LET notAfter == {i \in DOMAIN checkpoints :
                     checkpoints[i].seq <= ticket.checkpoint_seq}
  IN  /\ notAfter # {}
      /\ checkpoints[Min(notAfter)] = [seq    |-> ticket.checkpoint_seq,
                                       memory |-> ticket.checkpoint_mem]
      /\ ticket.last_seq <= last_seq

\* get_checkpoint_for_seq finds the last stored checkpoint that is not after
\* the ticket's; handle_recovery_request wants it to be the ticket's own.
CheckpointValid(ticket) ==
  LET notAfter == {i \in DOMAIN checkpoints :
                     checkpoints[i].seq <= ticket.checkpoint_seq}
  IN  /\ notAfter # {}
      /\ checkpoints[Max(notAfter)] = [seq    |-> ticket.checkpoint_seq,
                                       memory |-> ticket.checkpoint_mem]
      /\ ticket.last_seq <= last_seq

\* Mutant: a session that has a checkpoint makes no further one.
CheckpointDueOnce(seq, interval) ==
  /\ seq % interval = 0 \/ seq % TicketInterval = 0
  /\ checkpoints = <<>>

\* should_checkpoint; and since a ticket has to name a checkpoint, the first
\* one is made early if a ticket is due before it.
CheckpointDue(seq, interval) ==
  \/ seq % interval = 0
  \/ seq % TicketInterval = 0 /\ checkpoints = <<>>

\* Mutant: the checkpoint is taken before the memory is updated.
NewCheckpointTooEarly(seq, mem) == [seq |-> seq, memory |-> last_mem]

\* Mutants: the ticket is bound to the memory before the update; nonces start
\* at the value that stands for no nonce.
NewTicketTooEarly(seq, mem, checkpoint) ==
  [nonce |-> Len(issued) + 1, last_seq |-> seq, last_mem |-> last_mem,
   checkpoint_seq |-> checkpoint.seq, checkpoint_mem |-> checkpoint.memory]
NewTicketEmptyNonce(seq, mem, checkpoint) ==
  [nonce |-> Len(issued), last_seq |-> seq, last_mem |-> mem,
   checkpoint_seq |-> checkpoint.seq, checkpoint_mem |-> checkpoint.memory]

\* create_checkpoint and build_memory_ticket.  The ticket has a fresh nonce
\* and is bound to a state and to a stored checkpoint.
NewCheckpoint(seq, mem) == [seq |-> seq, memory |-> mem]

NewTicket(seq, mem, checkpoint) ==
  [nonce |-> Len(issued) + 1, last_seq |-> seq, last_mem |-> mem,
   checkpoint_seq |-> checkpoint.seq, checkpoint_mem |-> checkpoint.memory]

\* Mutant: the server hands back the state the ticket was issued for.
RecoveredStateOfTicket(ticket) ==
  [seq |-> ticket.last_seq, mem |-> ticket.last_mem]

\* What a successful recovery hands back: always the server's present state,
\* however old the ticket.
RecoveredState(ticket) == [seq |-> last_seq, mem |-> last_mem]

\* Reading a request empties its slot; the response is dropped if the client
\* has closed the connection in the meantime.
Answer(c, answer) ==
  /\ request' = [request EXCEPT ![c] = Nothing]
  /\ response' = IF c \in waiting THEN [response EXCEPT ![c] = answer]
                                  ELSE response

-----------------------------------------------------------------------------
(* Server: handle_client, a DATA packet *)

AcceptData(c) ==
  /\ request[c].type = "DATA"
  /\ InOrder(request[c])
  /\ Continuous(request[c])
  /\ LET seq          == request[c].seq
         mem          == Append(last_mem, request[c].payload)
         interval     == GetOrCreate(request[c].checkpoint_interval)
         ticketDue    == seq % interval = 0 \/ seq % TicketInterval = 0
         stored       == IF CheckpointDue(seq, interval)
                         THEN Append(checkpoints, NewCheckpoint(seq, mem))
                         ELSE checkpoints
         ticket       == IF ticketDue THEN NewTicket(seq, mem, Last(stored))
                                      ELSE NoTicket
     IN  /\ ticketDue => Len(issued) < MaxTickets
         /\ checkpoint_interval' = interval
         /\ last_seq' = seq
         /\ last_mem' = mem
         /\ checkpoints' = stored
         /\ issued' = IF ticketDue THEN Append(issued, ticket) ELSE issued
         /\ Answer(c, [type |-> "DATA", ok |-> TRUE, last_seq |-> seq,
                       last_mem |-> mem, memory_ticket |-> ticket])
  /\ UNCHANGED <<used_nonces, expired, waiting, clientVars>>

\* A rejected packet still creates the session's context.
RejectData(c) ==
  /\ request[c].type = "DATA"
  /\ ~(InOrder(request[c]) /\ Continuous(request[c]))
  /\ checkpoint_interval' = GetOrCreate(request[c].checkpoint_interval)
  /\ Answer(c, [type |-> "DATA", ok |-> FALSE, last_seq |-> last_seq,
                last_mem |-> last_mem, memory_ticket |-> NoTicket])
  /\ UNCHANGED <<last_seq, last_mem, checkpoints, used_nonces, issued,
                 expired, waiting, clientVars>>

-----------------------------------------------------------------------------
(* Server: handle_recovery_request *)

\* Every check passed: the nonce is consumed, then a replacement ticket is
\* built for the server's current state, which does not change.
AcceptRecovery(c) ==
  /\ request[c].type = "RECOVERY_REQUEST"
  /\ TicketValid(request[c].memory_ticket)
  /\ CheckpointValid(request[c].memory_ticket)
  /\ Len(issued) < MaxTickets
  /\ LET state       == RecoveredState(request[c].memory_ticket)
         replacement == NewTicket(state.seq, state.mem, Last(checkpoints))
     IN  /\ issued' = Append(issued, replacement)
         /\ Answer(c, [type |-> "RECOVERY_RESPONSE", ok |-> TRUE,
                       last_seq |-> state.seq, last_mem |-> state.mem,
                       memory_ticket |-> replacement])
  /\ used_nonces' = used_nonces \union {request[c].memory_ticket.nonce}
  /\ checkpoint_interval' = GetOrCreate(request[c].checkpoint_interval)
  /\ UNCHANGED <<last_seq, last_mem, checkpoints, expired, waiting, clientVars>>

\* Any failed check: no state changes, but the context now exists.
RejectRecovery(c) ==
  /\ request[c].type = "RECOVERY_REQUEST"
  /\ ~ /\ TicketValid(request[c].memory_ticket)
       /\ CheckpointValid(request[c].memory_ticket)
  /\ checkpoint_interval' = GetOrCreate(request[c].checkpoint_interval)
  /\ Answer(c, [type |-> "RECOVERY_RESPONSE", ok |-> FALSE,
                last_seq |-> last_seq, last_mem |-> last_mem,
                memory_ticket |-> NoTicket])
  /\ UNCHANGED <<last_seq, last_mem, checkpoints, used_nonces, issued,
                 expired, waiting, clientVars>>

-----------------------------------------------------------------------------
(* Client *)

\* Mutant: every answer counts as an acknowledgement.
AcknowledgedAlways(answer) == TRUE

\* The client goes by the ok flag of a DATA response and by nothing else in it.
Acknowledged(answer) == answer.ok

Free(c) == request[c] = Nothing /\ response[c] = Nothing

\* Only a packet that may be the first of its session carries an interval of
\* its own: later ones change nothing.
SendData(c) ==
  /\ waiting = {} /\ synced /\ Free(c)
  /\ client_seq < MaxSeq
  /\ \E payload \in Payloads, interval \in Intervals :
       /\ client_seq > 0 => interval = DefaultInterval
       /\ request' = [request EXCEPT ![c] =
            [type |-> "DATA", seq |-> client_seq + 1, prev_mem |-> client_mem,
             payload |-> payload, checkpoint_interval |-> interval]]
       /\ pending' = payload
  /\ waiting' = {c}
  /\ UNCHANGED <<serverVars, expired, response,
                 client_seq, client_mem, synced, held>>

\* The client presents one saved ticket, or none if it has none, on one
\* connection or on several at once (the nonce_race scenario).
SendRecovery(conns) ==
  /\ waiting = {} /\ conns # {} /\ \A c \in conns : Free(c)
  /\ \E ticket \in held \union {NoTicket}, interval \in Intervals :
       /\ ticket = NoTicket => held = {}
       /\ client_seq > 0 => interval = DefaultInterval
       /\ request' = [c \in Conns |->
            IF c \in conns
            THEN [type |-> "RECOVERY_REQUEST", memory_ticket |-> ticket,
                  checkpoint_interval |-> interval]
            ELSE request[c]]
  /\ waiting' = conns
  /\ UNCHANGED <<serverVars, expired, response, clientVars>>

\* On an acknowledgement the client extends its own memory with the payload
\* it sent; after a rejection it has to recover.
ReceiveDataResponse(c) ==
  /\ c \in waiting
  /\ response[c].type = "DATA"
  /\ IF Acknowledged(response[c])
     THEN /\ client_seq' = client_seq + 1
          /\ client_mem' = Append(client_mem, pending)
          /\ synced' = synced
     ELSE /\ synced' = FALSE
          /\ UNCHANGED <<client_seq, client_mem>>
  /\ held' = IF response[c].memory_ticket = NoTicket
             THEN held ELSE held \union {response[c].memory_ticket}
  /\ pending' = NoPayload
  /\ response' = [response EXCEPT ![c] = Nothing]
  /\ waiting' = waiting \ {c}
  /\ UNCHANGED <<serverVars, expired, request>>

\* On success the client adopts the server's state; a refusal is only recorded.
ReceiveRecoveryResponse(c) ==
  /\ c \in waiting
  /\ response[c].type = "RECOVERY_RESPONSE"
  /\ IF response[c].ok
     THEN /\ client_seq' = response[c].last_seq
          /\ client_mem' = response[c].last_mem
          /\ synced' = TRUE
          /\ held' = IF SavesReplacement
                     THEN held \union {response[c].memory_ticket} ELSE held
     ELSE UNCHANGED <<client_seq, client_mem, synced, held>>
  /\ response' = [response EXCEPT ![c] = Nothing]
  /\ waiting' = waiting \ {c}
  /\ UNCHANGED <<serverVars, expired, request, pending>>

\* The client times out on a connection or loses it.  The server may still
\* read the request; its response, read or not, is gone.  After an unanswered
\* DATA packet the client has to recover.
Abandon(c) ==
  /\ c \in waiting
  /\ waiting' = waiting \ {c}
  /\ response' = [response EXCEPT ![c] = Nothing]
  /\ pending' = NoPayload
  /\ synced' = (synced /\ pending = NoPayload)
  /\ UNCHANGED <<serverVars, expired, request, client_seq, client_mem, held>>

-----------------------------------------------------------------------------
(* Environment *)

\* A request on a closed connection may never be read.
LoseRequest(c) ==
  /\ c \notin waiting
  /\ request[c] # Nothing
  /\ request' = [request EXCEPT ![c] = Nothing]
  /\ UNCHANGED <<serverVars, expired, response, waiting, clientVars>>

\* Tickets expire in the order they were issued (a fixed ttl_seconds).
ExpireTicket ==
  /\ expired < Len(issued)
  /\ expired' = expired + 1
  /\ UNCHANGED <<serverVars, request, response, waiting, clientVars>>

Next ==
  \/ \E c \in Conns :
       \/ AcceptData(c)
       \/ RejectData(c)
       \/ AcceptRecovery(c)
       \/ RejectRecovery(c)
       \/ SendData(c)
       \/ ReceiveDataResponse(c)
       \/ ReceiveRecoveryResponse(c)
       \/ Abandon(c)
       \/ LoseRequest(c)
  \/ \E conns \in SUBSET Conns : SendRecovery(conns)
  \/ ExpireTicket

Spec == Init /\ [][Next]_vars

-----------------------------------------------------------------------------
(* Properties *)

\* The stored checkpoints are in strictly ascending order, none lies ahead of
\* the server, and each holds the memory the server had at that message
\* (create_checkpoint, also when the first one is made early for a ticket).
CheckpointsOnHistory ==
  \A i \in DOMAIN checkpoints :
    /\ checkpoints[i].seq \in 1..last_seq
    /\ checkpoints[i].memory = SubSeq(last_mem, 1, checkpoints[i].seq)
    /\ \A j \in 1..(i - 1) : checkpoints[j].seq < checkpoints[i].seq

\* checkpoint_seq <= ticket_seq <= server_seq for every ticket ever issued,
\* and both memories a ticket is bound to lie on the server's history.
TicketsOnHistory ==
  \A i \in DOMAIN issued :
    LET t == issued[i] IN
    /\ t.nonce = i
    /\ t.checkpoint_seq \in 1..t.last_seq /\ t.last_seq <= last_seq
    /\ t.last_mem = SubSeq(last_mem, 1, t.last_seq)
    /\ t.checkpoint_mem = SubSeq(last_mem, 1, t.checkpoint_seq)

\* The checkpoint comparison of handle_recovery_request never turns away a
\* ticket the server issued, whatever checkpoints were made since: only age,
\* expiry and reuse can cost a client its recovery.
CheckpointComparisonNeverFails ==
  \A i \in DOMAIN issued : CheckpointValid(issued[i])

\* Between two checkpoints there are at most checkpoint_interval messages, so a
\* recovery ticket stays usable for less than one interval of new messages
\* and a reconstruction from the floor replays fewer than one interval.
RecoveryWindowBounded ==
  IF checkpoints = <<>>
  THEN checkpoint_interval > 0 =>
         last_seq < Min({checkpoint_interval, TicketInterval})
  ELSE last_seq - RecoveryFloor < checkpoint_interval

\* The client's view is always a beginning of the server's history: neither a
\* late packet of an abandoned connection nor an old ticket makes them fork.
ClientOnHistory ==
  /\ client_seq = Len(client_mem)
  /\ IsPrefix(client_mem, last_mem)

\* However many requests the client abandons, at most one message is in doubt.
AtMostOneInDoubt == last_seq <= client_seq + 1

\* No packet of an honest client is refused as "history is not continuous",
\* however late the server reads it: that reason always means tampering.
NoFalseDiscontinuity ==
  \A c \in Conns :
    request[c].type = "DATA" /\ InOrder(request[c]) => Continuous(request[c])

\* A response a client still waits for never shows it a history behind its
\* own or off the server's; an acknowledgement shows exactly what the client
\* computes for itself (check_state_match).
ResponsesAgreeWithClient ==
  \A c \in waiting : response[c] # Nothing =>
    /\ IsPrefix(client_mem, response[c].last_mem)
    /\ IsPrefix(response[c].last_mem, last_mem)
    /\ response[c].type = "DATA" /\ response[c].ok =>
         response[c].last_mem = Append(client_mem, pending)

\* One ticket presented on several connections at once wins on at most one.
RaceHasOneWinner ==
  \A c, d \in waiting :
    /\ response[c].type = "RECOVERY_RESPONSE" /\ response[c].ok
    /\ response[d].type = "RECOVERY_RESPONSE" /\ response[d].ok
    => c = d

\* A spent ticket stays spent: the server never answers yes to a ticket whose
\* nonce a previous recovery consumed, and no other step frees a nonce.
SpentTicketsStaySpent ==
  [][/\ used_nonces \subseteq used_nonces'
     /\ \A c \in Conns :
          /\ response'[c] # response[c]
          /\ response'[c] # Nothing
          /\ response'[c].type = "RECOVERY_RESPONSE" /\ response'[c].ok
          => request[c].memory_ticket.nonce \in used_nonces' \ used_nonces]_vars

\* The design keeps the replacement ticket of every accepted recovery
\* (experiment revision design, 3.4 step 5).
ReplacementTicketSaved ==
  [][\A c \in Conns :
       ReceiveRecoveryResponse(c) /\ response[c].ok
       => response[c].memory_ticket \in held']_vars

\* Seen from outside, server and client share one append-only history of which
\* the client learns ever longer beginnings.
History == INSTANCE SharedHistory WITH log <- last_mem, view <- client_mem
ImplementsSharedHistory == History!Spec

=============================================================================
