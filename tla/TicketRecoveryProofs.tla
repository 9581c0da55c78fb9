------------------------ MODULE TicketRecoveryProofs ------------------------
(***************************************************************************)
(* Theorems about TicketRecovery, for every set of payloads and            *)
(* connections, every checkpoint and ticket interval, and without any use  *)
(* of the bounds.                                                          *)
(*                                                                         *)
(* The inductive invariant has a server half, about the history, the       *)
(* checkpoints and the tickets alone, and a client half, about what is in  *)
(* the connections and what the client believes.  The server half is       *)
(* preserved by whatever fits ServerStep; each action fits it.             *)
(*                                                                         *)
(* The last part is about RecoveryWindow, the experiment that measures how *)
(* long a ticket of this server stays good.                                *)
(***************************************************************************)
EXTENDS TicketRecovery, CollectionLemmas

-----------------------------------------------------------------------------
(* The inductive invariant *)

Issued == {issued[i] : i \in DOMAIN issued}

\* The tickets a recovery request could still use.
Valid == {t \in Ticket : TicketValid(t)}

\* The checkpoint a ticket names is one the server stores.
IsStored(t) == \E i \in DOMAIN checkpoints :
                 checkpoints[i] = [seq    |-> t.checkpoint_seq,
                                   memory |-> t.checkpoint_mem]

ServerInv ==
  /\ last_seq = Len(last_mem)
  /\ CheckpointsOnHistory
  /\ TicketsOnHistory
  /\ \A i \in DOMAIN issued : IsStored(issued[i])

\* A packet in flight was built on a beginning of the history, and its number
\* is at most the next one the client would use.  A recovery request carries
\* a ticket the server issued.
RequestsInv ==
  \A c \in Conns :
    /\ request[c].type = "DATA" =>
         /\ request[c].seq = Len(request[c].prev_mem) + 1
         /\ IsPrefix(request[c].prev_mem, last_mem)
         /\ request[c].seq <= client_seq + 1
    /\ request[c].type = "RECOVERY_REQUEST" =>
         request[c].memory_ticket \in Issued \union {NoTicket}

\* The client has at most one DATA exchange, alone, and its packet is built on
\* what the client still believes.
PendingInv ==
  \A c \in waiting :
    /\ request[c].type = "DATA" =>
         /\ waiting = {c}
         /\ request[c].prev_mem = client_mem
         /\ request[c].payload = pending
    /\ response[c].type = "DATA" => waiting = {c} /\ pending \in Payloads

ResponsesInv ==
  \A c \in Conns : response[c] # Nothing =>
    /\ c \in waiting
    /\ request[c] = Nothing
    /\ response[c].last_seq = Len(response[c].last_mem)
    /\ response[c].memory_ticket \in Issued \union {NoTicket}
    /\ response[c].type = "RECOVERY_RESPONSE" /\ response[c].ok =>
         response[c].memory_ticket \in Issued

Accepted(c) == response[c].type = "RECOVERY_RESPONSE" /\ response[c].ok
Refused(c)  == response[c].type = "RECOVERY_RESPONSE" /\ ~response[c].ok

\* Recovery requests waited for together carry one ticket.  As soon as one was
\* accepted the others cannot be; once one was refused, none can be accepted
\* (what makes a ticket invalid is permanent).
RaceInv ==
  \A c, d \in waiting :
    /\ request[c].type = "RECOVERY_REQUEST" =>
         /\ request[d].type = "RECOVERY_REQUEST" =>
              request[c].memory_ticket = request[d].memory_ticket
         /\ Accepted(d) => request[c].memory_ticket.nonce \in used_nonces
         /\ Refused(d) => request[c].memory_ticket \notin Valid
    /\ Accepted(c) /\ Refused(d) =>
         IsPrefix(response[c].last_mem, response[d].last_mem)

ClientInv ==
  /\ ClientOnHistory
  /\ AtMostOneInDoubt
  /\ held \subseteq Issued
  /\ RequestsInv
  /\ PendingInv
  /\ ResponsesInv
  /\ ResponsesAgreeWithClient
  /\ RaceInv
  /\ RaceHasOneWinner

IInv == TypeOK /\ ServerInv /\ ClientInv

-----------------------------------------------------------------------------
(* Type correctness *)

\* Reading an answer keeps the connections well formed.
LEMMA AnswerType ==
  ASSUME TypeOK, NEW c \in Conns, NEW answer \in Response, Answer(c, answer)
  PROVE  /\ request' \in [Conns -> DataPacket \union RecoveryRequest \union {Nothing}]
         /\ response' \in [Conns -> Response \union {Nothing}]
BY DEF TypeOK, Answer

LEMMA LastInSeq ==
  ASSUME NEW S, NEW s \in Seq(S), s # <<>>
  PROVE  Last(s) \in S
BY DEF Last

LEMMA GetOrCreateType ==
  ASSUME TypeOK, NEW interval \in Intervals
  PROVE  GetOrCreate(interval) \in Intervals
BY DEF TypeOK, GetOrCreate

\* A ticket for a state with a stored checkpoint is a ticket.
LEMMA NewTicketType ==
  ASSUME TypeOK, NEW seq \in Nat, NEW mem \in Memory, NEW cp \in Checkpoint
  PROVE  NewTicket(seq, mem, cp) \in Ticket
BY DEF TypeOK, NewTicket, Ticket, Checkpoint

\* Every operation keeps the variables within their types.
LEMMA TypeStep ==
  ASSUME TypeOK, PendingInv, ResponsesInv, [Next]_vars
  PROVE  TypeOK'
<1>1. ASSUME NEW c \in Conns, AcceptData(c)
      PROVE  TypeOK'
  <2> DEFINE packet == request[c]
             mem    == Append(last_mem, packet.payload)
             k      == GetOrCreate(packet.checkpoint_interval)
             cp     == NewCheckpoint(packet.seq, mem)
             stored == IF CheckpointDue(packet.seq, k)
                       THEN Append(checkpoints, cp) ELSE checkpoints
             due    == packet.seq % k = 0 \/ packet.seq % TicketInterval = 0
             ticket == NewTicket(packet.seq, mem, Last(stored))
  <2>1. packet \in DataPacket
    BY <1>1 DEF TypeOK, AcceptData, RecoveryRequest, Nothing
  <2>2. packet.seq \in Nat /\ packet.payload \in Payloads /\ mem \in Memory
    BY <2>1 DEF TypeOK, DataPacket, Memory
  <2>3. k \in Intervals
    BY <2>1, GetOrCreateType DEF DataPacket
  <2>4. stored \in Seq(Checkpoint)
    <3>1. cp \in Checkpoint
      BY <2>2 DEF NewCheckpoint, Checkpoint
    <3>2. QED
      BY <3>1 DEF TypeOK
  <2>5. due => stored # <<>>
    BY <2>4 DEF CheckpointDue, TypeOK
  <2>6. due => ticket \in Ticket
    BY <2>2, <2>4, <2>5, NewTicketType, LastInSeq
  <2>7. PICK answer \in Response : Answer(c, answer)
    BY <1>1, <2>2, <2>6 DEF AcceptData, Response
  <2>8. /\ checkpoint_interval' = k
        /\ last_seq' = packet.seq
        /\ last_mem' = mem
        /\ checkpoints' = stored
        /\ issued' = IF due THEN Append(issued, ticket) ELSE issued
    BY <1>1 DEF AcceptData
  <2>9. issued' \in Seq(Ticket)
    BY <2>6, <2>8 DEF TypeOK
  <2>10. QED
    BY <1>1, <2>2, <2>3, <2>4, <2>7, <2>8, <2>9, AnswerType
    DEF AcceptData, TypeOK, clientVars
<1>2. ASSUME NEW c \in Conns, RejectData(c)
      PROVE  TypeOK'
  <2>1. request[c] \in DataPacket
    BY <1>2 DEF TypeOK, RejectData, RecoveryRequest, Nothing
  <2>2. checkpoint_interval' \in Intervals
    BY <1>2, <2>1, GetOrCreateType DEF RejectData, DataPacket
  <2>3. PICK answer \in Response : Answer(c, answer)
    BY <1>2 DEF RejectData, Response, TypeOK
  <2>4. QED
    BY <1>2, <2>2, <2>3, AnswerType DEF RejectData, TypeOK, clientVars
<1>3. ASSUME NEW c \in Conns, AcceptRecovery(c)
      PROVE  TypeOK'
  <2> DEFINE t == request[c].memory_ticket
             replacement == NewTicket(last_seq, last_mem, Last(checkpoints))
  <2>1. request[c] \in RecoveryRequest /\ t \in Ticket
    BY <1>3 DEF TypeOK, AcceptRecovery, DataPacket, RecoveryRequest, Nothing,
                TicketValid
  <2>2. t.nonce \in Nat
    BY <2>1 DEF Ticket
  <2>3. checkpoints # <<>>
    BY <1>3 DEF AcceptRecovery, CheckpointValid, TypeOK
  <2>4. replacement \in Ticket
    BY <2>3, NewTicketType, LastInSeq DEF TypeOK
  <2>5. issued' = Append(issued, replacement)
    BY <1>3 DEF AcceptRecovery, RecoveredState
  <2>6. PICK answer \in Response : Answer(c, answer)
    BY <1>3, <2>4 DEF AcceptRecovery, RecoveredState, Response, TypeOK
  <2>7. checkpoint_interval' \in Intervals
    BY <1>3, <2>1, GetOrCreateType DEF AcceptRecovery, RecoveryRequest
  <2>8. issued' \in Seq(Ticket)
    BY <2>4, <2>5 DEF TypeOK
  <2>9. used_nonces' \subseteq Nat
    BY <1>3, <2>2 DEF AcceptRecovery, TypeOK
  <2>10. QED
    BY <1>3, <2>6, <2>7, <2>8, <2>9, AnswerType
    DEF AcceptRecovery, TypeOK, clientVars
<1>4. ASSUME NEW c \in Conns, RejectRecovery(c)
      PROVE  TypeOK'
  <2>1. checkpoint_interval' \in Intervals
    <3>1. request[c] \in RecoveryRequest
      BY <1>4 DEF TypeOK, RejectRecovery, DataPacket, Nothing
    <3>2. QED
      BY <1>4, <3>1, GetOrCreateType DEF RejectRecovery, RecoveryRequest
  <2>2. PICK answer \in Response : Answer(c, answer)
    BY <1>4 DEF RejectRecovery, Response, TypeOK
  <2>3. QED
    BY <1>4, <2>1, <2>2, AnswerType DEF RejectRecovery, TypeOK, clientVars
<1>5. ASSUME NEW c \in Conns, SendData(c)
      PROVE  TypeOK'
  <2>1. PICK payload \in Payloads, interval \in Intervals :
          /\ request' = [request EXCEPT ![c] =
               [type |-> "DATA", seq |-> client_seq + 1,
                prev_mem |-> client_mem, payload |-> payload,
                checkpoint_interval |-> interval]]
          /\ pending' = payload
    BY <1>5 DEF SendData
  <2>2. [type |-> "DATA", seq |-> client_seq + 1, prev_mem |-> client_mem,
         payload |-> payload, checkpoint_interval |-> interval] \in DataPacket
    BY DEF TypeOK, DataPacket
  <2>3. QED
    BY <1>5, <2>1, <2>2 DEF SendData, TypeOK, serverVars
<1>6. ASSUME NEW conns \in SUBSET Conns, SendRecovery(conns)
      PROVE  TypeOK'
  <2>1. PICK ticket \in held \union {NoTicket}, interval \in Intervals :
          request' = [c \in Conns |->
            IF c \in conns
            THEN [type |-> "RECOVERY_REQUEST", memory_ticket |-> ticket,
                  checkpoint_interval |-> interval]
            ELSE request[c]]
    BY <1>6 DEF SendRecovery
  <2>2. [type |-> "RECOVERY_REQUEST", memory_ticket |-> ticket,
         checkpoint_interval |-> interval] \in RecoveryRequest
    BY DEF TypeOK, RecoveryRequest
  <2>3. QED
    BY <1>6, <2>1, <2>2 DEF SendRecovery, TypeOK, serverVars, clientVars
<1>7. ASSUME NEW c \in Conns, ReceiveDataResponse(c)
      PROVE  TypeOK'
  <2>1. response[c] \in Response
    BY <1>7 DEF TypeOK, ReceiveDataResponse, Nothing
  <2>2. held' \subseteq Ticket
    BY <1>7, <2>1 DEF TypeOK, ReceiveDataResponse, Response
  <2>3. pending \in Payloads
    BY <1>7 DEF ReceiveDataResponse, PendingInv
  <2>4. Append(client_mem, pending) \in Memory
    BY <2>3 DEF TypeOK, Memory
  <2>5. client_seq' \in Nat /\ client_mem' \in Memory
    <3>1. client_seq \in Nat /\ client_mem \in Memory
      BY DEF TypeOK
    <3>2. CASE Acknowledged(response[c])
      <4>1. client_seq' = client_seq + 1 /\ client_mem' = Append(client_mem, pending)
        BY <1>7, <3>2 DEF ReceiveDataResponse
      <4>2. QED
        BY <2>4, <3>1, <4>1
    <3>3. CASE ~Acknowledged(response[c])
      BY <1>7, <3>1, <3>3 DEF ReceiveDataResponse
    <3>4. QED
      BY <3>2, <3>3
  <2>6. synced' \in BOOLEAN
    BY <1>7, Zenon DEF TypeOK, ReceiveDataResponse
  <2>7. response' \in [Conns -> Response \union {Nothing}]
    BY <1>7 DEF TypeOK, ReceiveDataResponse
  <2>8. waiting' \subseteq Conns /\ pending' \in Payloads \union {NoPayload}
    BY <1>7 DEF TypeOK, ReceiveDataResponse
  <2>9. UNCHANGED <<serverVars, expired, request>>
    BY <1>7 DEF ReceiveDataResponse
  <2>10. QED
    BY <2>2, <2>5, <2>6, <2>7, <2>8, <2>9 DEF TypeOK, serverVars
<1>8. ASSUME NEW c \in Conns, ReceiveRecoveryResponse(c)
      PROVE  TypeOK'
  <2>1. response[c] \in Response
    BY <1>8 DEF TypeOK, ReceiveRecoveryResponse, Nothing
  <2>2. client_seq' \in Nat /\ client_mem' \in Memory /\ synced' \in BOOLEAN
    BY <1>8, <2>1 DEF TypeOK, ReceiveRecoveryResponse, Response
  <2>3. response[c].ok => response[c].memory_ticket \in Ticket
    BY <1>8, <2>1 DEF TypeOK, ResponsesInv, Issued, ReceiveRecoveryResponse,
                      Nothing
  <2>4. held' \subseteq Ticket
    BY <1>8, <2>3 DEF TypeOK, ReceiveRecoveryResponse
  <2>5. QED
    BY <1>8, <2>2, <2>4 DEF TypeOK, ReceiveRecoveryResponse, serverVars
<1>9. ASSUME NEW c \in Conns, Abandon(c)
      PROVE  TypeOK'
  BY <1>9 DEF TypeOK, Abandon, serverVars
<1>10. ASSUME NEW c \in Conns, LoseRequest(c)
       PROVE  TypeOK'
  BY <1>10 DEF TypeOK, LoseRequest, serverVars, clientVars
<1>11. CASE ExpireTicket
  BY <1>11 DEF TypeOK, ExpireTicket, serverVars, clientVars
<1>12. CASE UNCHANGED vars
  BY <1>12 DEF TypeOK, vars, serverVars, clientVars
<1>13. QED
  BY <1>1, <1>2, <1>3, <1>4, <1>5, <1>6, <1>7, <1>8, <1>9, <1>10, <1>11,
     <1>12 DEF Next

-----------------------------------------------------------------------------
(* The server half *)

\* What a step may do to the history: nothing, or accept one payload and
\* perhaps store a checkpoint of the result.
HistoryStep ==
  \/ UNCHANGED <<last_seq, last_mem, checkpoints>>
  \/ /\ last_seq' = last_seq + 1
     /\ \E payload \in Payloads : last_mem' = Append(last_mem, payload)
     /\ \/ UNCHANGED checkpoints
        \/ checkpoints' = Append(checkpoints, NewCheckpoint(last_seq', last_mem'))

\* What it may do to the tickets: nothing, or issue one for the state after it.
TicketStep ==
  \/ UNCHANGED issued
  \/ /\ checkpoints' # <<>>
     /\ issued' = Append(issued, NewTicket(last_seq', last_mem', Last(checkpoints')))

LEMMA StepsFit ==
  ASSUME TypeOK, [Next]_vars
  PROVE  HistoryStep /\ TicketStep
<1>1. ASSUME NEW c \in Conns, AcceptData(c)
      PROVE  HistoryStep /\ TicketStep
  <2> DEFINE packet == request[c]
             mem    == Append(last_mem, packet.payload)
             k      == GetOrCreate(packet.checkpoint_interval)
             stored == IF CheckpointDue(packet.seq, k)
                       THEN Append(checkpoints, NewCheckpoint(packet.seq, mem))
                       ELSE checkpoints
             due    == packet.seq % k = 0 \/ packet.seq % TicketInterval = 0
  <2>1. packet.payload \in Payloads /\ packet.seq = last_seq + 1
    BY <1>1 DEF TypeOK, AcceptData, DataPacket, RecoveryRequest, Nothing, InOrder
  <2>2. /\ last_seq' = packet.seq
        /\ last_mem' = mem
        /\ checkpoints' = stored
        /\ issued' = IF due
                     THEN Append(issued, NewTicket(packet.seq, mem, Last(stored)))
                     ELSE issued
    BY <1>1 DEF AcceptData
  <2>3. HistoryStep
    BY <2>1, <2>2 DEF HistoryStep
  <2>4. due => checkpoints' # <<>>
    <3>1. Append(checkpoints, NewCheckpoint(packet.seq, mem)) # <<>>
      BY DEF TypeOK
    <3>2. QED
      BY <2>2, <3>1 DEF CheckpointDue
  <2>5. TicketStep
    BY <2>2, <2>4 DEF TicketStep
  <2>6. QED
    BY <2>3, <2>5
<1>2. ASSUME NEW c \in Conns, AcceptRecovery(c)
      PROVE  HistoryStep /\ TicketStep
  <2>1. UNCHANGED <<last_seq, last_mem, checkpoints>>
    BY <1>2 DEF AcceptRecovery
  <2>2. checkpoints # <<>>
    BY <1>2 DEF AcceptRecovery, CheckpointValid, TypeOK
  <2>3. issued' = Append(issued, NewTicket(last_seq, last_mem, Last(checkpoints)))
    BY <1>2 DEF AcceptRecovery, RecoveredState
  <2>4. QED
    BY <2>1, <2>2, <2>3 DEF HistoryStep, TicketStep
<1>3. ASSUME UNCHANGED <<last_seq, last_mem, checkpoints, issued>>
      PROVE  HistoryStep /\ TicketStep
  BY <1>3 DEF HistoryStep, TicketStep
<1>4. QED
  BY <1>1, <1>2, <1>3
  DEF Next, vars, serverVars, RejectData, RejectRecovery, SendData, SendRecovery,
      ReceiveDataResponse, ReceiveRecoveryResponse, Abandon, LoseRequest,
      ExpireTicket

\* The past does not change: every beginning of the history and every stored
\* checkpoint stays what it was.
LEMMA HistoryKept ==
  ASSUME TypeOK, ServerInv, HistoryStep
  PROVE  /\ last_seq <= last_seq'
         /\ last_seq' = Len(last_mem')
         /\ \A n \in 0..last_seq : SubSeq(last_mem', 1, n) = SubSeq(last_mem, 1, n)
         /\ \A i \in DOMAIN checkpoints :
              i \in DOMAIN checkpoints' /\ checkpoints'[i] = checkpoints[i]
<1>1. CASE UNCHANGED <<last_seq, last_mem, checkpoints>>
  BY <1>1 DEF TypeOK, ServerInv
<1>2. ASSUME NEW payload \in Payloads,
             last_seq' = last_seq + 1, last_mem' = Append(last_mem, payload)
      PROVE  /\ last_seq <= last_seq'
             /\ last_seq' = Len(last_mem')
             /\ \A n \in 0..last_seq :
                  SubSeq(last_mem', 1, n) = SubSeq(last_mem, 1, n)
  <2>1. last_mem \in Seq(Payloads) /\ last_seq = Len(last_mem)
    BY DEF TypeOK, Memory, ServerInv
  <2>2. QED
    BY <1>2, <2>1, SubSeqOfAppend
<1>3. ASSUME \/ UNCHANGED checkpoints
             \/ checkpoints' = Append(checkpoints,
                                      NewCheckpoint(last_seq', last_mem'))
      PROVE  \A i \in DOMAIN checkpoints :
               i \in DOMAIN checkpoints' /\ checkpoints'[i] = checkpoints[i]
  BY <1>3 DEF TypeOK
<1>4. QED
  BY <1>1, <1>2, <1>3 DEF HistoryStep

\* New checkpoints are taken at the end of the history, so the ascending order
\* and the memories of the stored ones are kept.
LEMMA CheckpointsStep ==
  ASSUME TypeOK, TypeOK', ServerInv, HistoryStep
  PROVE  CheckpointsOnHistory'
<1> SUFFICES ASSUME NEW i \in DOMAIN checkpoints'
             PROVE  /\ checkpoints'[i].seq \in 1..last_seq'
                    /\ checkpoints'[i].memory
                         = SubSeq(last_mem', 1, checkpoints'[i].seq)
                    /\ \A j \in 1..(i - 1) :
                         checkpoints'[j].seq < checkpoints'[i].seq
  BY DEF CheckpointsOnHistory
<1>1. CASE i \in DOMAIN checkpoints
  <2>1. /\ checkpoints[i].seq \in 1..last_seq
        /\ checkpoints[i].memory = SubSeq(last_mem, 1, checkpoints[i].seq)
        /\ \A j \in 1..(i - 1) : checkpoints[j].seq < checkpoints[i].seq
    BY <1>1 DEF ServerInv, CheckpointsOnHistory
  <2>2. checkpoints[i].seq \in 0..last_seq /\ checkpoints[i].seq \in 1..last_seq'
    BY <2>1, HistoryKept DEF TypeOK
  <2>3. checkpoints'[i] = checkpoints[i]
    BY <1>1, HistoryKept
  <2>4. \A j \in 1..(i - 1) :
          j \in DOMAIN checkpoints /\ checkpoints'[j] = checkpoints[j]
    BY <1>1, HistoryKept DEF TypeOK
  <2>5. checkpoints'[i].memory = SubSeq(last_mem', 1, checkpoints'[i].seq)
    BY <2>1, <2>2, <2>3, HistoryKept
  <2>6. QED
    BY <2>1, <2>2, <2>3, <2>4, <2>5
<1>2. CASE i \notin DOMAIN checkpoints
  <2>1. /\ last_seq' = last_seq + 1
        /\ checkpoints' = Append(checkpoints, NewCheckpoint(last_seq', last_mem'))
    BY <1>2 DEF HistoryStep
  <2>2. i = Len(checkpoints) + 1
    BY <1>2, <2>1 DEF TypeOK
  <2>3. checkpoints'[i] = [seq |-> last_seq', memory |-> last_mem']
    BY <2>1, <2>2 DEF TypeOK, NewCheckpoint
  <2>4. last_mem' = SubSeq(last_mem', 1, last_seq')
    BY HistoryKept, SubSeqWhole DEF TypeOK, Memory
  <2>5. \A j \in 1..(i - 1) : checkpoints'[j].seq < last_seq'
    <3>1. TAKE j \in 1..(i - 1)
    <3>2. j \in DOMAIN checkpoints
      BY <2>2 DEF TypeOK
    <3>3. checkpoints[j].seq \in 1..last_seq /\ checkpoints'[j] = checkpoints[j]
      BY <3>2, HistoryKept DEF ServerInv, CheckpointsOnHistory
    <3>4. QED
      BY <2>1, <3>3 DEF TypeOK
  <2>6. QED
    BY <2>1, <2>3, <2>4, <2>5 DEF TypeOK
<1>3. QED
  BY <1>1, <1>2

\* A new ticket is bound to the present state and to the latest checkpoint;
\* the old ones stay on the history.
LEMMA TicketsStep ==
  ASSUME TypeOK, TypeOK', ServerInv, HistoryStep, TicketStep
  PROVE  /\ TicketsOnHistory'
         /\ (\A i \in DOMAIN issued : IsStored(issued[i]))'
<1> DEFINE Good(t, i) ==
             /\ t.nonce = i
             /\ t.checkpoint_seq \in 1..t.last_seq /\ t.last_seq <= last_seq'
             /\ t.last_mem = SubSeq(last_mem', 1, t.last_seq)
             /\ t.checkpoint_mem = SubSeq(last_mem', 1, t.checkpoint_seq)
             /\ \E j \in DOMAIN checkpoints' :
                  checkpoints'[j] = [seq    |-> t.checkpoint_seq,
                                     memory |-> t.checkpoint_mem]
<1>1. ASSUME NEW i \in DOMAIN issued
      PROVE  Good(issued[i], i)
  <2> DEFINE t == issued[i]
  <2>1. t \in Ticket
    BY DEF TypeOK
  <2>2. /\ t.nonce = i
        /\ t.checkpoint_seq \in 1..t.last_seq /\ t.last_seq <= last_seq
        /\ t.last_mem = SubSeq(last_mem, 1, t.last_seq)
        /\ t.checkpoint_mem = SubSeq(last_mem, 1, t.checkpoint_seq)
    BY DEF ServerInv, TicketsOnHistory
  <2>3. t.last_seq \in 0..last_seq /\ t.checkpoint_seq \in 0..last_seq
    BY <2>1, <2>2 DEF Ticket, TypeOK
  <2>4. /\ t.last_seq <= last_seq'
        /\ t.last_mem = SubSeq(last_mem', 1, t.last_seq)
        /\ t.checkpoint_mem = SubSeq(last_mem', 1, t.checkpoint_seq)
    <3>1. last_seq \in Nat /\ last_seq' \in Nat /\ last_seq <= last_seq'
      BY HistoryKept DEF TypeOK
    <3>2. \A n \in 0..last_seq :
            SubSeq(last_mem', 1, n) = SubSeq(last_mem, 1, n)
      BY HistoryKept
    <3>3. t.last_seq <= last_seq'
      BY <2>2, <2>3, <3>1
    <3>4. QED
      BY <2>2, <2>3, <3>2, <3>3
  <2>5. PICK j \in DOMAIN checkpoints :
          checkpoints[j] = [seq |-> t.checkpoint_seq, memory |-> t.checkpoint_mem]
    BY DEF ServerInv, IsStored
  <2>6. j \in DOMAIN checkpoints' /\ checkpoints'[j] = checkpoints[j]
    BY HistoryKept
  <2>7. QED
    BY <2>2, <2>4, <2>5, <2>6
<1>2. ASSUME checkpoints' # <<>>
      PROVE  Good(NewTicket(last_seq', last_mem', Last(checkpoints')),
                  Len(issued) + 1)
  <2> DEFINE n == Len(checkpoints')
             t == NewTicket(last_seq', last_mem', Last(checkpoints'))
  <2>1. n \in DOMAIN checkpoints' /\ Last(checkpoints') = checkpoints'[n]
    BY <1>2 DEF TypeOK, Last
  <2>2. checkpoints'[n] \in Checkpoint
    BY <2>1 DEF TypeOK
  <2>3. /\ checkpoints'[n].seq \in 1..last_seq'
        /\ checkpoints'[n].memory = SubSeq(last_mem', 1, checkpoints'[n].seq)
    BY <2>1, CheckpointsStep DEF CheckpointsOnHistory
  <2>4. /\ t.nonce = Len(issued) + 1
        /\ t.last_seq = last_seq' /\ t.last_mem = last_mem'
        /\ t.checkpoint_seq = checkpoints'[n].seq
        /\ t.checkpoint_mem = checkpoints'[n].memory
    BY <2>1 DEF NewTicket
  <2>5. last_mem' = SubSeq(last_mem', 1, last_seq')
    BY HistoryKept, SubSeqWhole DEF TypeOK, Memory
  <2>6. checkpoints'[n] = [seq    |-> checkpoints'[n].seq,
                           memory |-> checkpoints'[n].memory]
    BY <2>2 DEF Checkpoint
  <2>7. last_seq' <= last_seq'
    BY DEF TypeOK
  <2>8. QED
    BY <2>1, <2>3, <2>4, <2>5, <2>6, <2>7
<1>3. \A i \in DOMAIN issued' : Good(issued'[i], i)
  <2>1. CASE UNCHANGED issued
    BY <1>1, <2>1
  <2>2. CASE /\ checkpoints' # <<>>
             /\ issued' = Append(issued, NewTicket(last_seq', last_mem',
                                                   Last(checkpoints')))
    <3>1. ASSUME NEW i \in DOMAIN issued'
          PROVE  \/ i \in DOMAIN issued /\ issued'[i] = issued[i]
                 \/ /\ i = Len(issued) + 1
                    /\ issued'[i] = NewTicket(last_seq', last_mem',
                                              Last(checkpoints'))
      BY <2>2 DEF TypeOK
    <3>2. QED
      BY <1>1, <1>2, <2>2, <3>1
  <2>3. QED
    BY <2>1, <2>2 DEF TicketStep
<1>4. QED
  BY <1>3 DEF TicketsOnHistory, IsStored

LEMMA ServerInvStep ==
  ASSUME TypeOK, TypeOK', ServerInv, [Next]_vars
  PROVE  ServerInv'
BY StepsFit, HistoryKept, CheckpointsStep, TicketsStep DEF ServerInv

\* The search for the last checkpoint not after the ticket's finds the
\* ticket's own, because it is stored and the order is strict.
LEMMA StoredCheckpointIsFound ==
  ASSUME TypeOK, CheckpointsOnHistory, NEW t \in Ticket, IsStored(t),
         t.last_seq <= last_seq
  PROVE  CheckpointValid(t)
<1> DEFINE notAfter == {i \in DOMAIN checkpoints :
                          checkpoints[i].seq <= t.checkpoint_seq}
<1>1. PICK n \in DOMAIN checkpoints :
        checkpoints[n] = [seq |-> t.checkpoint_seq, memory |-> t.checkpoint_mem]
  BY DEF IsStored
<1>2. n \in notAfter
  BY <1>1 DEF Ticket
<1>3. \A i \in notAfter : i <= n
  <2>1. SUFFICES ASSUME NEW i \in DOMAIN checkpoints, i > n
                 PROVE  ~(checkpoints[i].seq <= t.checkpoint_seq)
    BY <1>1 DEF TypeOK
  <2>2. n \in 1..(i - 1)
    BY <2>1 DEF TypeOK
  <2>3. checkpoints[n].seq < checkpoints[i].seq
    BY <2>2 DEF CheckpointsOnHistory
  <2>4. checkpoints[i] \in Checkpoint
    BY DEF TypeOK
  <2>5. QED
    BY <1>1, <2>3, <2>4 DEF Checkpoint, Ticket
<1>4. Max(notAfter) = n
  <2>1. notAfter \subseteq Int
    BY DEF TypeOK
  <2>2. QED
    BY <1>2, <1>3, <2>1 DEF Max
<1>5. QED
  BY <1>1, <1>2, <1>4 DEF CheckpointValid

-----------------------------------------------------------------------------
(* The client half *)

\* Whatever lay on the history still does, issued tickets stay issued, spent
\* ones spent, and a ticket that cannot be used never becomes usable.
LEMMA ServerMonotone ==
  ASSUME TypeOK, TypeOK', ServerInv, [Next]_vars
  PROVE  /\ \A m \in Memory : IsPrefix(m, last_mem) => IsPrefix(m, last_mem')
         /\ Issued \subseteq Issued'
         /\ used_nonces \subseteq used_nonces'
         /\ Valid' \subseteq Valid
<1>1. HistoryStep /\ TicketStep
  BY StepsFit
<1>2. \A m \in Memory : IsPrefix(m, last_mem) => IsPrefix(m, last_mem')
  BY <1>1, PrefixOfAppend DEF HistoryStep, TypeOK, Memory
<1>3. Issued \subseteq Issued'
  <2>1. \A i \in DOMAIN issued : i \in DOMAIN issued' /\ issued'[i] = issued[i]
    <3>1. CASE UNCHANGED issued
      BY <3>1
    <3>2. ASSUME NEW e, issued' = Append(issued, e)
          PROVE  \A i \in DOMAIN issued :
                   i \in DOMAIN issued' /\ issued'[i] = issued[i]
      BY <3>2 DEF TypeOK
    <3>3. QED
      BY <1>1, <3>1, <3>2 DEF TicketStep
  <2>2. QED
    BY <2>1 DEF Issued
<1>4. used_nonces \subseteq used_nonces' /\ expired <= expired'
  <2>1. CASE UNCHANGED <<used_nonces, expired>>
    BY <2>1 DEF TypeOK
  <2>2. ASSUME NEW c \in Conns, AcceptRecovery(c)
        PROVE  used_nonces \subseteq used_nonces' /\ expired <= expired'
    BY <2>2 DEF AcceptRecovery, TypeOK
  <2>3. CASE ExpireTicket
    BY <2>3 DEF ExpireTicket, serverVars, TypeOK
  <2>4. QED
    BY <2>1, <2>2, <2>3
    DEF Next, vars, serverVars, AcceptData, RejectData, SendData, SendRecovery,
        RejectRecovery, ReceiveDataResponse, ReceiveRecoveryResponse, Abandon,
        LoseRequest
<1>5. RecoveryFloor \in Nat /\ RecoveryFloor' \in Nat /\ RecoveryFloor <= RecoveryFloor'
  <2>1. CASE UNCHANGED checkpoints
    <3>1. checkpoints # <<>> => Last(checkpoints) \in Checkpoint
      BY LastInSeq DEF TypeOK
    <3>2. RecoveryFloor' = RecoveryFloor
      BY <2>1 DEF RecoveryFloor
    <3>3. QED
      BY <3>1, <3>2 DEF RecoveryFloor, Checkpoint
  <2>2. CASE /\ last_seq' = last_seq + 1
             /\ checkpoints' = Append(checkpoints,
                                      NewCheckpoint(last_seq', last_mem'))
    <3>1. checkpoints' # <<>> /\ Last(checkpoints').seq = last_seq + 1
      BY <2>2 DEF TypeOK, Last, NewCheckpoint
    <3>2. checkpoints # <<>> => Last(checkpoints).seq \in 1..last_seq
      BY DEF ServerInv, CheckpointsOnHistory, TypeOK, Last
    <3>3. QED
      BY <3>1, <3>2 DEF RecoveryFloor, TypeOK
  <2>3. QED
    BY <1>1, <2>1, <2>2 DEF HistoryStep
<1>6. Valid' \subseteq Valid
  <2>1. SUFFICES ASSUME NEW t \in Ticket, t \in Valid'
                 PROVE  TicketValid(t)
    BY DEF Valid
  <2>2. /\ t # NoTicket
        /\ t.nonce > expired'
        /\ t.checkpoint_seq <= t.last_seq
        /\ t.last_seq >= RecoveryFloor'
        /\ t.nonce \notin used_nonces'
    BY <2>1 DEF Valid, TicketValid
  <2>3. t.nonce \in Nat /\ t.last_seq \in Nat /\ expired \in Nat /\ expired' \in Nat
    BY DEF Ticket, TypeOK
  <2>4. t.nonce > expired /\ t.last_seq >= RecoveryFloor
    BY <1>4, <1>5, <2>2, <2>3
  <2>5. QED
    BY <1>4, <2>2, <2>4 DEF TicketValid
<1>7. QED
  BY <1>2, <1>3, <1>4, <1>6

\* An issued ticket passes the checkpoint comparison.
LEMMA IssuedCheckpointValid ==
  ASSUME TypeOK, ServerInv, NEW t \in Issued
  PROVE  t \in Ticket /\ t # NoTicket /\ CheckpointValid(t)
<1>1. PICK i \in DOMAIN issued : t = issued[i]
  BY DEF Issued
<1>2. t \in Ticket /\ IsStored(t) /\ t.last_seq <= last_seq
  BY <1>1 DEF TypeOK, ServerInv, TicketsOnHistory
<1>3. t # NoTicket
  BY <1>2 DEF Ticket, NoTicket
<1>4. QED
  BY <1>2, <1>3, StoredCheckpointIsFound DEF ServerInv

\* The server and the environment leave the client alone and add no request:
\* the client's view stays a beginning of the history, and what is in flight
\* stays what it was.
LEMMA ClientUntouched ==
  ASSUME TypeOK, TypeOK', ServerInv, ClientInv, [Next]_vars,
         UNCHANGED <<clientVars, waiting>>,
         \A c \in Conns : request'[c] = request[c] \/ request'[c] = Nothing
  PROVE  ClientOnHistory' /\ (held \subseteq Issued)' /\ RequestsInv'
<1>1. UNCHANGED <<client_seq, client_mem, held>>
  BY DEF clientVars
<1>2. ClientOnHistory'
  <2>1. client_mem \in Memory /\ IsPrefix(client_mem, last_mem)
    BY DEF TypeOK, ClientInv, ClientOnHistory
  <2>2. IsPrefix(client_mem, last_mem')
    BY <2>1, ServerMonotone
  <2>3. QED
    BY <1>1, <2>2 DEF ClientOnHistory, ClientInv
<1>3. (held \subseteq Issued)'
  BY <1>1, ServerMonotone DEF ClientInv
<1>4. RequestsInv'
  <2>1. SUFFICES ASSUME NEW c \in Conns, request'[c] = request[c]
        PROVE
          /\ request[c].type = "DATA" =>
               /\ request[c].seq = Len(request[c].prev_mem) + 1
               /\ IsPrefix(request[c].prev_mem, last_mem')
               /\ request[c].seq <= client_seq + 1
          /\ request[c].type = "RECOVERY_REQUEST" =>
               request[c].memory_ticket \in Issued' \union {NoTicket}
    BY <1>1 DEF RequestsInv, Nothing
  <2>2. CASE request[c].type = "DATA"
    <3>1. request[c].prev_mem \in Memory
      BY <2>2 DEF TypeOK, DataPacket, RecoveryRequest, Nothing
    <3>2. IsPrefix(request[c].prev_mem, last_mem')
      BY <2>2, <3>1, ServerMonotone DEF ClientInv, RequestsInv
    <3>3. QED
      BY <2>2, <3>2 DEF ClientInv, RequestsInv
  <2>3. CASE request[c].type = "RECOVERY_REQUEST"
    BY <2>3, ServerMonotone DEF ClientInv, RequestsInv
  <2>4. QED
    BY <2>2, <2>3
<1>5. QED
  BY <1>2, <1>3, <1>4

\* What an answer given on a connection has to be for the client to be able to
\* rely on it.
GoodAnswer(c, answer) ==
  /\ answer.last_seq = last_seq' /\ answer.last_mem = last_mem'
  /\ answer.memory_ticket \in Issued' \union {NoTicket}
  /\ answer.type = "DATA" =>
       /\ request[c].type = "DATA"
       /\ answer.ok /\ c \in waiting => last_mem' = Append(client_mem, pending)
  /\ answer.type = "RECOVERY_RESPONSE" =>
       request[c].type = "RECOVERY_REQUEST"
  /\ answer.type = "RECOVERY_RESPONSE" /\ answer.ok =>
       /\ answer.memory_ticket \in Issued'
       /\ request[c].memory_ticket \in Valid
       /\ request[c].memory_ticket.nonce \in used_nonces'
  /\ answer.type = "RECOVERY_RESPONSE" /\ ~answer.ok =>
       request[c].memory_ticket \notin Valid

\* A good answer keeps everything the client relies on.
LEMMA AnswerStep ==
  ASSUME TypeOK, TypeOK', ServerInv, ServerInv', ClientInv, [Next]_vars,
         UNCHANGED <<clientVars, waiting>>,
         NEW c \in Conns, NEW answer \in Response,
         Answer(c, answer), GoodAnswer(c, answer)
  PROVE  /\ PendingInv' /\ ResponsesInv' /\ ResponsesAgreeWithClient'
         /\ RaceInv' /\ RaceHasOneWinner'
<1>1. UNCHANGED <<client_seq, client_mem, pending, held, waiting>>
  BY DEF clientVars
<1>2. ASSUME NEW d \in Conns
      PROVE  /\ request'[d] = IF d = c THEN Nothing ELSE request[d]
             /\ response'[d] = IF d = c /\ c \in waiting THEN answer ELSE response[d]
  BY DEF Answer, TypeOK
<1>3. ASSUME NEW d \in Conns
      PROVE  /\ request[d] \in DataPacket \union RecoveryRequest \union {Nothing}
             /\ response[d] \in Response \union {Nothing}
  BY DEF TypeOK
<1>4. waiting \subseteq Conns
  BY DEF TypeOK
<1>5. PendingInv'
  <2>1. SUFFICES ASSUME NEW d \in waiting
        PROVE  /\ request'[d].type = "DATA" =>
                    /\ waiting = {d}
                    /\ request'[d].prev_mem = client_mem
                    /\ request'[d].payload = pending
               /\ response'[d].type = "DATA" => waiting = {d} /\ pending \in Payloads
    BY <1>1 DEF PendingInv
  <2>2. request[c].type = "DATA" => request[c].payload \in Payloads
    BY <1>3 DEF DataPacket, RecoveryRequest, Nothing
  <2>3. QED
    BY <1>2, <1>4, <2>2 DEF PendingInv, ClientInv, GoodAnswer, Nothing
<1>6. ResponsesInv'
  <2>1. SUFFICES ASSUME NEW d \in Conns, response'[d] # Nothing
        PROVE  /\ d \in waiting
               /\ request'[d] = Nothing
               /\ response'[d].last_seq = Len(response'[d].last_mem)
               /\ response'[d].memory_ticket \in Issued' \union {NoTicket}
               /\ response'[d].type = "RECOVERY_RESPONSE" /\ response'[d].ok =>
                    response'[d].memory_ticket \in Issued'
    BY <1>1 DEF ResponsesInv
  <2>2. CASE response'[d] = response[d]
    BY <1>2, <2>1, <2>2, ServerMonotone DEF ResponsesInv, ClientInv
  <2>3. CASE d = c /\ c \in waiting /\ response'[d] = answer
    BY <1>2, <2>3 DEF GoodAnswer, ServerInv
  <2>4. QED
    BY <1>2, <2>2, <2>3
<1>7. ResponsesAgreeWithClient'
  <2>1. SUFFICES ASSUME NEW d \in waiting, response'[d] # Nothing
        PROVE  /\ IsPrefix(client_mem, response'[d].last_mem)
               /\ IsPrefix(response'[d].last_mem, last_mem')
               /\ response'[d].type = "DATA" /\ response'[d].ok =>
                    response'[d].last_mem = Append(client_mem, pending)
    BY <1>1 DEF ResponsesAgreeWithClient
  <2>2. CASE response'[d] = response[d]
    <3>1. response[d].last_mem \in Memory
      BY <1>3, <1>4, <2>1, <2>2 DEF Response
    <3>2. IsPrefix(response[d].last_mem, last_mem')
      BY <2>1, <2>2, <3>1, ServerMonotone DEF ResponsesAgreeWithClient, ClientInv
    <3>3. QED
      BY <2>1, <2>2, <3>2 DEF ResponsesAgreeWithClient, ClientInv
  <2>3. CASE d = c /\ c \in waiting /\ response'[d] = answer
    <3>1. client_mem \in Memory /\ IsPrefix(client_mem, last_mem)
      BY DEF TypeOK, ClientInv, ClientOnHistory
    <3>2. IsPrefix(client_mem, last_mem') /\ IsPrefix(last_mem', last_mem')
      BY <3>1, ServerMonotone, PrefixReflexive DEF TypeOK, Memory
    <3>3. QED
      BY <2>3, <3>2 DEF GoodAnswer
  <2>4. QED
    BY <1>2, <1>4, <2>2, <2>3
<1>8. RaceInv'
  <2>1. SUFFICES ASSUME NEW d \in waiting, NEW e \in waiting
        PROVE
          /\ request'[d].type = "RECOVERY_REQUEST" =>
               /\ request'[e].type = "RECOVERY_REQUEST" =>
                    request'[d].memory_ticket = request'[e].memory_ticket
               /\ Accepted(e)' => request'[d].memory_ticket.nonce \in used_nonces'
               /\ Refused(e)' => request'[d].memory_ticket \notin Valid'
          /\ Accepted(d)' /\ Refused(e)' =>
               IsPrefix(response'[d].last_mem, response'[e].last_mem)
    BY <1>1 DEF RaceInv
  <2>2. CASE request'[d].type = "RECOVERY_REQUEST"
    <3>1. d # c /\ request'[d] = request[d] /\ response'[d] = Nothing
      BY <1>2, <1>4, <2>2 DEF Nothing, ResponsesInv, ClientInv
    <3>2. ~Accepted(d)'
      BY <3>1 DEF Accepted, Nothing
    <3>3. request'[e].type = "RECOVERY_REQUEST" =>
            request'[d].memory_ticket = request'[e].memory_ticket
      BY <1>2, <1>4, <2>2, <3>1 DEF RaceInv, ClientInv, Nothing
    <3>4. CASE e = c
      <4>1. response'[e] = answer
        BY <1>2, <3>4
      <4>2. answer.type = "RECOVERY_RESPONSE" =>
              request[d].memory_ticket = request[c].memory_ticket
        BY <2>2, <3>1, <3>4 DEF GoodAnswer, RaceInv, ClientInv
      <4>3. QED
        BY <3>1, <3>2, <3>3, <4>1, <4>2, ServerMonotone
        DEF Accepted, Refused, GoodAnswer
    <3>5. CASE e # c
      <4>1. response'[e] = response[e]
        BY <1>2, <1>4, <3>5
      <4>2. /\ Accepted(e) => request[d].memory_ticket.nonce \in used_nonces
            /\ Refused(e) => request[d].memory_ticket \notin Valid
        BY <2>2, <3>1 DEF RaceInv, ClientInv
      <4>3. QED
        BY <3>1, <3>2, <3>3, <4>1, <4>2, ServerMonotone DEF Accepted, Refused
    <3>6. QED
      BY <3>4, <3>5
  <2>3. ASSUME Accepted(d)', Refused(e)'
        PROVE  IsPrefix(response'[d].last_mem, response'[e].last_mem)
    <3>1. CASE d = c
      <4>1. e # c /\ response'[d] = answer /\ response'[e] = response[e]
        BY <1>2, <1>4, <2>3, <3>1 DEF Accepted, Refused
      <4>2. /\ request[d].type = "RECOVERY_REQUEST"
            /\ request[d].memory_ticket \in Valid
        BY <2>3, <3>1, <4>1 DEF Accepted, GoodAnswer
      <4>3. Refused(e)
        BY <2>3, <4>1 DEF Refused
      <4>4. QED
        BY <4>2, <4>3 DEF RaceInv, ClientInv
    <3>2. CASE d # c /\ e = c
      <4>1. response'[d] = response[d] /\ response'[e] = answer
        BY <1>2, <1>4, <3>2
      <4>2. response[d] # Nothing /\ response[d].last_mem \in Memory
        BY <1>3, <1>4, <2>3, <4>1 DEF Accepted, Response, Nothing
      <4>3. IsPrefix(response[d].last_mem, last_mem)
        BY <4>2 DEF ResponsesAgreeWithClient, ClientInv
      <4>4. IsPrefix(response[d].last_mem, last_mem')
        BY <4>2, <4>3, ServerMonotone
      <4>5. QED
        BY <4>1, <4>4 DEF GoodAnswer
    <3>3. CASE d # c /\ e # c
      <4>1. response'[d] = response[d] /\ response'[e] = response[e]
        BY <1>2, <1>4, <3>3
      <4>2. QED
        BY <2>3, <4>1 DEF Accepted, Refused, RaceInv, ClientInv
    <3>4. QED
      BY <3>1, <3>2, <3>3
  <2>4. QED
    BY <2>2, <2>3
<1>9. RaceHasOneWinner'
  <2>1. SUFFICES ASSUME NEW d \in waiting, NEW e \in waiting,
                        Accepted(d)', Accepted(e)'
                 PROVE  d = e
    BY <1>1 DEF RaceHasOneWinner, Accepted
  <2>2. ASSUME NEW f \in waiting, f # c, Accepted(f)', Accepted(c)', c \in waiting
        PROVE  FALSE
    <3>1. response'[f] = response[f] /\ response'[c] = answer
      BY <1>2, <1>4, <2>2
    <3>2. Accepted(f) /\ request[c].type = "RECOVERY_REQUEST"
      BY <2>2, <3>1 DEF Accepted, GoodAnswer
    <3>3. request[c].memory_ticket.nonce \in used_nonces
      BY <2>2, <3>2 DEF RaceInv, ClientInv
    <3>4. request[c].memory_ticket \in Valid
      BY <2>2, <3>1 DEF Accepted, GoodAnswer
    <3>5. QED
      BY <3>3, <3>4 DEF Valid, TicketValid
  <2>3. CASE d # c /\ e # c
    <3>1. response'[d] = response[d] /\ response'[e] = response[e]
      BY <1>2, <1>4, <2>3
    <3>2. QED
      BY <2>1, <3>1 DEF Accepted, RaceHasOneWinner, ClientInv
  <2>4. QED
    BY <2>1, <2>2, <2>3
<1>10. QED
  BY <1>5, <1>6, <1>7, <1>8, <1>9

LEMMA AcceptDataStep ==
  ASSUME TypeOK, TypeOK', ServerInv, ServerInv', ClientInv, [Next]_vars,
         NEW c \in Conns, AcceptData(c)
  PROVE  ClientInv'
<1> DEFINE packet == request[c]
           mem    == Append(last_mem, packet.payload)
           k      == GetOrCreate(packet.checkpoint_interval)
           due    == packet.seq % k = 0 \/ packet.seq % TicketInterval = 0
           stored == IF CheckpointDue(packet.seq, k)
                     THEN Append(checkpoints, NewCheckpoint(packet.seq, mem))
                     ELSE checkpoints
           ticket == IF due THEN NewTicket(packet.seq, mem, Last(stored))
                     ELSE NoTicket
           answer == [type |-> "DATA", ok |-> TRUE, last_seq |-> packet.seq,
                      last_mem |-> mem, memory_ticket |-> ticket]
<1>1. packet \in DataPacket /\ packet.type = "DATA"
  BY DEF TypeOK, AcceptData, RecoveryRequest, Nothing
<1>2. /\ last_seq' = packet.seq
      /\ last_mem' = mem
      /\ issued' = IF due THEN Append(issued, ticket) ELSE issued
      /\ Answer(c, answer)
  BY DEF AcceptData
<1>3. UNCHANGED <<clientVars, waiting>>
  BY DEF AcceptData
<1>4. /\ packet.prev_mem = last_mem /\ packet.seq = last_seq + 1
      /\ packet.seq <= client_seq + 1
  BY <1>1 DEF AcceptData, Continuous, InOrder, ClientInv, RequestsInv
\* The packet is the newest the client can have sent, so the client was not
\* behind the server.
<1>5. client_mem = last_mem
  <2>1. /\ client_seq = Len(client_mem) /\ last_seq = Len(last_mem)
        /\ IsPrefix(client_mem, last_mem)
        /\ client_mem \in Seq(Payloads) /\ last_mem \in Seq(Payloads)
        /\ client_seq \in Nat /\ last_seq \in Nat
    BY DEF TypeOK, Memory, ClientInv, ClientOnHistory, ServerInv
  <2>2. last_seq <= client_seq
    BY <1>4, <2>1
  <2>3. QED
    BY <2>1, <2>2, PrefixLength
<1>6. due => ticket \in Issued'
  <2>1. ASSUME due
        PROVE  ticket \in Issued'
    <3>1. issued' = Append(issued, ticket)
      BY <1>2, <2>1
    <3>2. Len(issued) + 1 \in DOMAIN issued' /\ issued'[Len(issued) + 1] = ticket
      BY <3>1 DEF TypeOK
    <3>3. QED
      BY <3>2 DEF Issued
  <2>2. QED
    BY <2>1
<1>7. ticket \in Issued' \union {NoTicket}
  BY <1>6
<1>8. answer \in Response
  <2>1. ticket \in Ticket \union {NoTicket}
    BY <1>7 DEF Issued, TypeOK
  <2>2. packet.seq \in Nat /\ mem \in Memory
    BY <1>2 DEF TypeOK
  <2>3. QED
    BY <2>1, <2>2 DEF Response
<1>9. GoodAnswer(c, answer)
  <2>1. c \in waiting => packet.payload = pending
    BY <1>1 DEF ClientInv, PendingInv
  <2>2. c \in waiting => last_mem' = Append(client_mem, pending)
    BY <1>2, <1>5, <2>1
  <2>3. QED
    BY <1>1, <1>2, <1>7, <2>2 DEF GoodAnswer
<1>10. AtMostOneInDoubt'
  <2>1. client_seq = last_seq
    BY <1>5 DEF ClientInv, ClientOnHistory, ServerInv
  <2>2. QED
    BY <1>2, <1>3, <1>4, <2>1 DEF AtMostOneInDoubt, clientVars, TypeOK
<1>11. \A d \in Conns : request'[d] = request[d] \/ request'[d] = Nothing
  BY <1>2 DEF Answer, TypeOK
<1>12. ClientOnHistory' /\ (held \subseteq Issued)' /\ RequestsInv'
  BY <1>3, <1>11, ClientUntouched
<1>13. /\ PendingInv' /\ ResponsesInv' /\ ResponsesAgreeWithClient'
       /\ RaceInv' /\ RaceHasOneWinner'
  BY <1>2, <1>3, <1>8, <1>9, AnswerStep
<1>14. QED
  BY <1>10, <1>12, <1>13 DEF ClientInv

LEMMA RejectDataStep ==
  ASSUME TypeOK, TypeOK', ServerInv, ServerInv', ClientInv, [Next]_vars,
         NEW c \in Conns, RejectData(c)
  PROVE  ClientInv'
<1> DEFINE answer == [type |-> "DATA", ok |-> FALSE, last_seq |-> last_seq,
                      last_mem |-> last_mem, memory_ticket |-> NoTicket]
<1>1. request[c].type = "DATA" /\ Answer(c, answer)
  BY DEF RejectData
<1>2. UNCHANGED <<clientVars, waiting>> /\ UNCHANGED <<last_seq, last_mem>>
  BY DEF RejectData
<1>3. answer \in Response
  BY DEF Response, TypeOK
<1>4. GoodAnswer(c, answer)
  BY <1>1, <1>2 DEF GoodAnswer
<1>5. \A d \in Conns : request'[d] = request[d] \/ request'[d] = Nothing
  BY <1>1 DEF Answer, TypeOK
<1>6. ClientOnHistory' /\ (held \subseteq Issued)' /\ RequestsInv'
  BY <1>2, <1>5, ClientUntouched
<1>7. /\ PendingInv' /\ ResponsesInv' /\ ResponsesAgreeWithClient'
      /\ RaceInv' /\ RaceHasOneWinner'
  BY <1>1, <1>2, <1>3, <1>4, AnswerStep
<1>8. AtMostOneInDoubt'
  BY <1>2 DEF AtMostOneInDoubt, ClientInv, clientVars
<1>9. QED
  BY <1>6, <1>7, <1>8 DEF ClientInv

LEMMA AcceptRecoveryStep ==
  ASSUME TypeOK, TypeOK', ServerInv, ServerInv', ClientInv, [Next]_vars,
         NEW c \in Conns, AcceptRecovery(c)
  PROVE  ClientInv'
<1> DEFINE t == request[c].memory_ticket
           ticket == NewTicket(last_seq, last_mem, Last(checkpoints))
           answer == [type |-> "RECOVERY_RESPONSE", ok |-> TRUE,
                      last_seq |-> last_seq, last_mem |-> last_mem,
                      memory_ticket |-> ticket]
<1>1. /\ request[c].type = "RECOVERY_REQUEST" /\ TicketValid(t)
      /\ issued' = Append(issued, ticket) /\ Answer(c, answer)
      /\ used_nonces' = used_nonces \union {t.nonce}
  BY DEF AcceptRecovery, RecoveredState
<1>2. UNCHANGED <<clientVars, waiting>> /\ UNCHANGED <<last_seq, last_mem>>
  BY DEF AcceptRecovery
<1>3. t \in Valid
  <2>1. t \in Ticket \union {NoTicket}
    BY <1>1 DEF TypeOK, DataPacket, RecoveryRequest, Nothing
  <2>2. QED
    BY <1>1, <2>1 DEF Valid, TicketValid
<1>4. ticket \in Issued'
  <2>1. Len(issued) + 1 \in DOMAIN issued' /\ issued'[Len(issued) + 1] = ticket
    BY <1>1 DEF TypeOK
  <2>2. QED
    BY <2>1 DEF Issued
<1>5. answer \in Response
  <2>1. ticket \in Ticket
    BY <1>4 DEF Issued, TypeOK
  <2>2. QED
    BY <2>1 DEF Response, TypeOK
<1>6. GoodAnswer(c, answer)
  BY <1>1, <1>2, <1>3, <1>4 DEF GoodAnswer
<1>7. \A d \in Conns : request'[d] = request[d] \/ request'[d] = Nothing
  BY <1>1 DEF Answer, TypeOK
<1>8. ClientOnHistory' /\ (held \subseteq Issued)' /\ RequestsInv'
  BY <1>2, <1>7, ClientUntouched
<1>9. /\ PendingInv' /\ ResponsesInv' /\ ResponsesAgreeWithClient'
      /\ RaceInv' /\ RaceHasOneWinner'
  BY <1>1, <1>2, <1>5, <1>6, AnswerStep
<1>10. AtMostOneInDoubt'
  BY <1>2 DEF AtMostOneInDoubt, ClientInv, clientVars
<1>11. QED
  BY <1>8, <1>9, <1>10 DEF ClientInv

\* A refused ticket is invalid for good: the comparison with the checkpoints
\* cannot have been what refused it.
LEMMA RejectRecoveryStep ==
  ASSUME TypeOK, TypeOK', ServerInv, ServerInv', ClientInv, [Next]_vars,
         NEW c \in Conns, RejectRecovery(c)
  PROVE  ClientInv'
<1> DEFINE t == request[c].memory_ticket
           answer == [type |-> "RECOVERY_RESPONSE", ok |-> FALSE,
                      last_seq |-> last_seq, last_mem |-> last_mem,
                      memory_ticket |-> NoTicket]
<1>1. /\ request[c].type = "RECOVERY_REQUEST" /\ Answer(c, answer)
      /\ ~(TicketValid(t) /\ CheckpointValid(t))
  BY DEF RejectRecovery
<1>2. UNCHANGED <<clientVars, waiting>> /\ UNCHANGED <<last_seq, last_mem>>
  BY DEF RejectRecovery
<1>3. t \notin Valid
  <2>1. t \in Issued \union {NoTicket}
    BY <1>1 DEF ClientInv, RequestsInv
  <2>2. CASE t \in Issued
    BY <1>1, <2>2, IssuedCheckpointValid DEF Valid
  <2>3. CASE t = NoTicket
    BY <2>3 DEF Valid, TicketValid
  <2>4. QED
    BY <2>1, <2>2, <2>3
<1>4. answer \in Response
  BY DEF Response, TypeOK
<1>5. GoodAnswer(c, answer)
  BY <1>1, <1>2, <1>3 DEF GoodAnswer
<1>6. \A d \in Conns : request'[d] = request[d] \/ request'[d] = Nothing
  BY <1>1 DEF Answer, TypeOK
<1>7. ClientOnHistory' /\ (held \subseteq Issued)' /\ RequestsInv'
  BY <1>2, <1>6, ClientUntouched
<1>8. /\ PendingInv' /\ ResponsesInv' /\ ResponsesAgreeWithClient'
      /\ RaceInv' /\ RaceHasOneWinner'
  BY <1>1, <1>2, <1>4, <1>5, AnswerStep
<1>9. AtMostOneInDoubt'
  BY <1>2 DEF AtMostOneInDoubt, ClientInv, clientVars
<1>10. QED
  BY <1>7, <1>8, <1>9 DEF ClientInv

\* A request is lost, a ticket expires, or nothing happens.
LEMMA QuietStep ==
  ASSUME TypeOK, TypeOK', ServerInv, ServerInv', ClientInv, [Next]_vars,
         UNCHANGED <<clientVars, waiting, response, last_seq, last_mem,
                     used_nonces, issued>>,
         \A c \in Conns : request'[c] = request[c] \/ request'[c] = Nothing
  PROVE  ClientInv'
<1>1. UNCHANGED <<client_seq, client_mem, pending, held, waiting, response>>
  BY DEF clientVars
<1>2. ClientOnHistory' /\ (held \subseteq Issued)' /\ RequestsInv'
  BY ClientUntouched
<1>3. AtMostOneInDoubt'
  BY <1>1 DEF AtMostOneInDoubt, ClientInv
<1>4. PendingInv'
  BY <1>1 DEF PendingInv, ClientInv, Nothing, TypeOK
<1>5. ResponsesInv'
  BY <1>1 DEF ResponsesInv, ClientInv, Issued
<1>6. ResponsesAgreeWithClient'
  BY <1>1 DEF ResponsesAgreeWithClient, ClientInv
<1>7. RaceInv'
  <2>1. SUFFICES ASSUME NEW d \in waiting, NEW e \in waiting,
                        request'[d].type = "RECOVERY_REQUEST"
        PROVE
          /\ request'[e].type = "RECOVERY_REQUEST" =>
               request'[d].memory_ticket = request'[e].memory_ticket
          /\ Accepted(e) => request'[d].memory_ticket.nonce \in used_nonces'
          /\ Refused(e) => request'[d].memory_ticket \notin Valid'
    BY <1>1 DEF RaceInv, ClientInv, Accepted, Refused
  <2>2. request'[d] = request[d] /\ d \in Conns /\ e \in Conns
    BY <2>1 DEF Nothing, TypeOK
  <2>3. request'[e].type = "RECOVERY_REQUEST" => request'[e] = request[e]
    BY <2>2 DEF Nothing
  <2>4. Valid' \subseteq Valid /\ used_nonces \subseteq used_nonces'
    BY ServerMonotone
  <2>5. QED
    BY <2>1, <2>2, <2>3, <2>4 DEF RaceInv, ClientInv
<1>8. RaceHasOneWinner'
  BY <1>1 DEF RaceHasOneWinner, ClientInv
<1>9. QED
  BY <1>2, <1>3, <1>4, <1>5, <1>6, <1>7, <1>8 DEF ClientInv

\* When the client waits for nothing, nothing is there to be read.
LEMMA NothingToRead ==
  ASSUME TypeOK, ClientInv, waiting = {}
  PROVE  \A c \in Conns : response[c] = Nothing
BY DEF ClientInv, ResponsesInv

LEMMA SendDataStep ==
  ASSUME TypeOK, TypeOK', ServerInv, ClientInv,
         NEW c \in Conns, SendData(c)
  PROVE  ClientInv'
<1>1. PICK payload \in Payloads, interval \in Intervals :
        /\ request' = [request EXCEPT ![c] =
             [type |-> "DATA", seq |-> client_seq + 1, prev_mem |-> client_mem,
              payload |-> payload, checkpoint_interval |-> interval]]
        /\ pending' = payload
  BY DEF SendData
<1>2. /\ waiting = {} /\ waiting' = {c}
      /\ UNCHANGED <<serverVars, response, client_seq, client_mem, held>>
  BY DEF SendData
<1>3. UNCHANGED <<last_seq, last_mem, used_nonces, issued>>
  BY <1>2 DEF serverVars
<1>4. \A d \in Conns : response'[d] = Nothing
  BY <1>2, NothingToRead
<1>5. ClientOnHistory' /\ AtMostOneInDoubt' /\ (held \subseteq Issued)'
  BY <1>2, <1>3 DEF ClientInv, ClientOnHistory, AtMostOneInDoubt, Issued
<1>6. /\ request'[c].type = "DATA" /\ request'[c].seq = client_seq + 1
      /\ request'[c].prev_mem = client_mem /\ request'[c].payload = payload
      /\ \A d \in Conns : d # c => request'[d] = request[d]
  BY <1>1 DEF TypeOK
<1>7. RequestsInv'
  <2>1. client_seq = Len(client_mem) /\ IsPrefix(client_mem, last_mem)
    BY DEF ClientInv, ClientOnHistory
  <2>2. client_seq + 1 <= client_seq + 1
    BY DEF TypeOK
  <2>3. QED
    BY <1>2, <1>3, <1>6, <2>1, <2>2 DEF RequestsInv, ClientInv, Issued
<1>8. PendingInv'
  BY <1>1, <1>2, <1>4, <1>6 DEF PendingInv, Nothing
<1>9. /\ ResponsesInv' /\ ResponsesAgreeWithClient'
  BY <1>2, <1>4 DEF ResponsesInv, ResponsesAgreeWithClient
<1>10. RaceInv' /\ RaceHasOneWinner'
  BY <1>2, <1>4, <1>6 DEF RaceInv, RaceHasOneWinner, Accepted, Refused, Nothing
<1>11. QED
  BY <1>5, <1>7, <1>8, <1>9, <1>10 DEF ClientInv

LEMMA SendRecoveryStep ==
  ASSUME TypeOK, TypeOK', ServerInv, ClientInv,
         NEW conns \in SUBSET Conns, SendRecovery(conns)
  PROVE  ClientInv'
<1>1. PICK ticket \in held \union {NoTicket}, interval \in Intervals :
        request' = [c \in Conns |->
          IF c \in conns
          THEN [type |-> "RECOVERY_REQUEST", memory_ticket |-> ticket,
                checkpoint_interval |-> interval]
          ELSE request[c]]
  BY DEF SendRecovery
<1>2. /\ waiting = {} /\ waiting' = conns
      /\ UNCHANGED <<serverVars, response, clientVars>>
  BY DEF SendRecovery
<1>3. UNCHANGED <<last_seq, last_mem, used_nonces, issued>>
  BY <1>2 DEF serverVars
<1>4. UNCHANGED <<client_seq, client_mem, pending, held>>
  BY <1>2 DEF clientVars
<1>5. \A d \in Conns : response'[d] = Nothing
  BY <1>2, NothingToRead
<1>6. ClientOnHistory' /\ AtMostOneInDoubt' /\ (held \subseteq Issued)'
  BY <1>3, <1>4 DEF ClientInv, ClientOnHistory, AtMostOneInDoubt, Issued
<1>7. /\ \A d \in conns : /\ request'[d].type = "RECOVERY_REQUEST"
                          /\ request'[d].memory_ticket = ticket
      /\ \A d \in Conns \ conns : request'[d] = request[d]
  BY <1>1
<1>8. RequestsInv'
  <2>1. ticket \in Issued \union {NoTicket}
    BY DEF ClientInv
  <2>2. Issued' = Issued
    BY <1>3 DEF Issued
  <2>3. QED
    BY <1>3, <1>4, <1>7, <2>1, <2>2 DEF RequestsInv, ClientInv
<1>9. PendingInv'
  BY <1>2, <1>5, <1>7 DEF PendingInv, Nothing
<1>10. ResponsesInv' /\ ResponsesAgreeWithClient'
  BY <1>2, <1>5 DEF ResponsesInv, ResponsesAgreeWithClient
<1>11. RaceInv' /\ RaceHasOneWinner'
  BY <1>2, <1>5, <1>7 DEF RaceInv, RaceHasOneWinner, Accepted, Refused, Nothing
<1>12. QED
  BY <1>6, <1>8, <1>9, <1>10, <1>11 DEF ClientInv

\* An acknowledgement shows exactly the memory the client computes.
LEMMA ReceiveDataResponseStep ==
  ASSUME TypeOK, TypeOK', ServerInv, ClientInv,
         NEW c \in Conns, ReceiveDataResponse(c)
  PROVE  ClientInv'
<1>1. /\ c \in waiting /\ response[c].type = "DATA"
      /\ response' = [response EXCEPT ![c] = Nothing]
      /\ waiting' = waiting \ {c}
      /\ UNCHANGED <<serverVars, request>>
  BY DEF ReceiveDataResponse
<1>2. UNCHANGED <<last_seq, last_mem, used_nonces, issued>>
  BY <1>1 DEF serverVars
<1>3. waiting = {c} /\ waiting' = {}
  BY <1>1 DEF ClientInv, PendingInv
<1>4. response[c] # Nothing
  BY <1>1 DEF Nothing
<1>5. \/ /\ response[c].ok
         /\ client_seq' = client_seq + 1
         /\ client_mem' = Append(client_mem, pending)
      \/ UNCHANGED <<client_seq, client_mem>>
  BY DEF ReceiveDataResponse, Acknowledged
<1>6. ClientOnHistory' /\ client_seq <= client_seq'
  <2>1. CASE UNCHANGED <<client_seq, client_mem>>
    BY <1>2, <2>1 DEF ClientInv, ClientOnHistory, TypeOK
  <2>2. CASE /\ response[c].ok
             /\ client_seq' = client_seq + 1
             /\ client_mem' = Append(client_mem, pending)
    <3>1. response[c].last_mem = client_mem' /\ IsPrefix(client_mem', last_mem)
      BY <1>1, <1>4, <2>2 DEF ClientInv, ResponsesAgreeWithClient
    <3>2. pending \in Payloads
      BY <1>1 DEF ClientInv, PendingInv
    <3>3. Len(client_mem') = Len(client_mem) + 1
      BY <2>2, <3>2 DEF TypeOK, Memory
    <3>4. QED
      BY <1>2, <2>2, <3>1, <3>3 DEF ClientInv, ClientOnHistory, TypeOK
  <2>3. QED
    BY <1>5, <2>1, <2>2
<1>7. AtMostOneInDoubt'
  <2>1. last_seq \in Nat /\ client_seq \in Nat /\ client_seq' \in Nat
    BY DEF TypeOK
  <2>2. last_seq <= client_seq + 1 /\ last_seq' = last_seq
    BY <1>2 DEF ClientInv, AtMostOneInDoubt
  <2>3. client_seq <= client_seq'
    BY <1>6
  <2>4. \A l, m, n \in Nat : l <= m + 1 /\ m <= n => l <= n + 1
    OBVIOUS
  <2>5. QED
    BY <2>1, <2>2, <2>3, <2>4 DEF AtMostOneInDoubt
<1>8. (held \subseteq Issued)'
  <2>1. response[c].memory_ticket \in Issued \union {NoTicket}
    BY <1>1, <1>4 DEF ClientInv, ResponsesInv, TypeOK
  <2>2. held' \subseteq Issued
    BY <2>1 DEF ReceiveDataResponse, ClientInv
  <2>3. QED
    BY <1>2, <2>2 DEF Issued
<1>9. RequestsInv'
  <2>1. ASSUME NEW d \in Conns, request[d].type = "DATA"
        PROVE  request[d].seq <= client_seq' + 1
    <3>1. request[d].seq \in Nat /\ request[d].seq <= client_seq + 1
      BY <2>1 DEF ClientInv, RequestsInv, TypeOK, DataPacket, RecoveryRequest,
                  Nothing
    <3>2. QED
      BY <1>6, <3>1 DEF TypeOK
  <2>2. QED
    BY <1>1, <1>2, <2>1 DEF ClientInv, RequestsInv, Issued
<1>10. \A d \in Conns : response'[d] = Nothing
  BY <1>1, <1>3 DEF ClientInv, ResponsesInv, TypeOK
<1>11. /\ PendingInv' /\ ResponsesInv' /\ ResponsesAgreeWithClient'
       /\ RaceInv' /\ RaceHasOneWinner'
  BY <1>3, <1>10 DEF PendingInv, ResponsesInv, ResponsesAgreeWithClient,
                     RaceInv, RaceHasOneWinner
<1>12. QED
  BY <1>6, <1>7, <1>8, <1>9, <1>11 DEF ClientInv

\* A recovery moves the client forward; responses it still waits for in the
\* same race are refusals, and show at least the history it just adopted.
LEMMA ReceiveRecoveryResponseStep ==
  ASSUME TypeOK, TypeOK', ServerInv, ClientInv,
         NEW c \in Conns, ReceiveRecoveryResponse(c)
  PROVE  ClientInv'
<1>1. /\ c \in waiting /\ response[c].type = "RECOVERY_RESPONSE"
      /\ response' = [response EXCEPT ![c] = Nothing]
      /\ waiting' = waiting \ {c}
      /\ UNCHANGED <<serverVars, request, pending>>
  BY DEF ReceiveRecoveryResponse
<1>2. UNCHANGED <<last_seq, last_mem, used_nonces, issued>>
  BY <1>1 DEF serverVars
<1>3. response[c] # Nothing /\ response[c] \in Response
  BY <1>1 DEF Nothing, TypeOK
<1>4. \/ /\ response[c].ok
         /\ client_seq' = response[c].last_seq
         /\ client_mem' = response[c].last_mem
         /\ held' \subseteq held \union {response[c].memory_ticket}
      \/ UNCHANGED <<client_seq, client_mem, held>>
  BY DEF ReceiveRecoveryResponse
<1>5. ClientOnHistory' /\ client_seq <= client_seq'
  <2>1. CASE UNCHANGED <<client_seq, client_mem, held>>
    BY <1>2, <2>1 DEF ClientInv, ClientOnHistory, TypeOK
  <2>2. CASE /\ response[c].ok
             /\ client_seq' = response[c].last_seq
             /\ client_mem' = response[c].last_mem
    <3>1. IsPrefix(client_mem, client_mem') /\ IsPrefix(client_mem', last_mem)
      BY <1>1, <1>3, <2>2 DEF ClientInv, ResponsesAgreeWithClient
    <3>2. client_seq' = Len(client_mem')
      BY <1>1, <1>3, <2>2 DEF ClientInv, ResponsesInv
    <3>3. Len(client_mem) <= Len(client_mem')
      BY <3>1, PrefixLength DEF TypeOK, Memory
    <3>4. QED
      BY <1>2, <3>1, <3>2, <3>3 DEF ClientInv, ClientOnHistory
  <2>3. QED
    BY <1>4, <2>1, <2>2
<1>6. AtMostOneInDoubt'
  <2>1. last_seq \in Nat /\ client_seq \in Nat /\ client_seq' \in Nat
    BY DEF TypeOK
  <2>2. last_seq <= client_seq + 1 /\ last_seq' = last_seq
    BY <1>2 DEF ClientInv, AtMostOneInDoubt
  <2>3. client_seq <= client_seq'
    BY <1>5
  <2>4. \A l, m, n \in Nat : l <= m + 1 /\ m <= n => l <= n + 1
    OBVIOUS
  <2>5. QED
    BY <2>1, <2>2, <2>3, <2>4 DEF AtMostOneInDoubt
<1>7. (held \subseteq Issued)'
  <2>1. response[c].ok => response[c].memory_ticket \in Issued
    BY <1>1, <1>3 DEF ClientInv, ResponsesInv
  <2>2. held' \subseteq Issued
    BY <1>4, <2>1 DEF ClientInv
  <2>3. QED
    BY <1>2, <2>2 DEF Issued
<1>8. RequestsInv'
  <2>1. ASSUME NEW d \in Conns, request[d].type = "DATA"
        PROVE  request[d].seq <= client_seq' + 1
    <3>1. request[d].seq \in Nat /\ request[d].seq <= client_seq + 1
      BY <2>1 DEF ClientInv, RequestsInv, TypeOK, DataPacket, RecoveryRequest,
                  Nothing
    <3>2. QED
      BY <1>5, <3>1 DEF TypeOK
  <2>2. QED
    BY <1>1, <1>2, <2>1 DEF ClientInv, RequestsInv, Issued
<1>9. /\ response'[c] = Nothing
      /\ \A d \in waiting' : d \in waiting /\ d \in Conns /\ d # c
      /\ \A d \in Conns : d # c => response'[d] = response[d]
  BY <1>1 DEF TypeOK
<1>10. \A d \in waiting' : request[d].type # "DATA" /\ response[d].type # "DATA"
  BY <1>1, <1>9 DEF ClientInv, PendingInv
<1>11. PendingInv'
  BY <1>1, <1>9, <1>10 DEF PendingInv
<1>12. ResponsesInv'
  BY <1>1, <1>2, <1>9 DEF ResponsesInv, ClientInv, Issued
<1>13. ResponsesAgreeWithClient'
  <2>1. SUFFICES ASSUME NEW d \in waiting', response[d] # Nothing
                 PROVE  /\ IsPrefix(client_mem', response[d].last_mem)
                        /\ IsPrefix(response[d].last_mem, last_mem)
    BY <1>2, <1>9, <1>10 DEF ResponsesAgreeWithClient
  <2>2. /\ IsPrefix(client_mem, response[d].last_mem)
        /\ IsPrefix(response[d].last_mem, last_mem)
    BY <1>9, <2>1 DEF ClientInv, ResponsesAgreeWithClient
  <2>3. CASE response[c].ok /\ client_mem' = response[c].last_mem
    <3>1. response[d] \in Response /\ response[d].type = "RECOVERY_RESPONSE"
      BY <1>9, <1>10, <2>1 DEF TypeOK, Response
    <3>2. Accepted(c) /\ ~Accepted(d)
      BY <1>1, <1>9, <2>3 DEF ClientInv, RaceHasOneWinner, Accepted
    <3>3. Refused(d)
      BY <3>1, <3>2 DEF Accepted, Refused
    <3>4. QED
      BY <1>1, <1>9, <2>2, <2>3, <3>2, <3>3 DEF ClientInv, RaceInv
  <2>4. QED
    BY <1>4, <2>2, <2>3
<1>14. RaceInv' /\ RaceHasOneWinner'
  <2>1. Valid' = Valid
    <3>1. UNCHANGED <<checkpoints, used_nonces, expired>>
      BY <1>1 DEF ReceiveRecoveryResponse, serverVars
    <3>2. QED
      BY <3>1 DEF Valid, TicketValid, RecoveryFloor
  <2>2. RaceInv'
    BY <1>1, <1>2, <1>9, <2>1 DEF ClientInv, RaceInv, Accepted, Refused
  <2>3. RaceHasOneWinner'
    BY <1>9 DEF ClientInv, RaceHasOneWinner
  <2>4. QED
    BY <2>2, <2>3
<1>15. QED
  BY <1>5, <1>6, <1>7, <1>8, <1>11, <1>12, <1>13, <1>14 DEF ClientInv

LEMMA AbandonStep ==
  ASSUME TypeOK, TypeOK', ServerInv, ClientInv, NEW c \in Conns, Abandon(c)
  PROVE  ClientInv'
<1>1. /\ c \in waiting
      /\ response' = [response EXCEPT ![c] = Nothing]
      /\ waiting' = waiting \ {c}
      /\ UNCHANGED <<serverVars, expired, request, client_seq, client_mem, held>>
  BY DEF Abandon
<1>2. UNCHANGED <<last_seq, last_mem, used_nonces, issued, checkpoints>>
  BY <1>1 DEF serverVars
<1>3. /\ ClientOnHistory' /\ AtMostOneInDoubt' /\ (held \subseteq Issued)'
      /\ RequestsInv'
  BY <1>1, <1>2 DEF ClientInv, ClientOnHistory, AtMostOneInDoubt, RequestsInv,
                    Issued
<1>4. /\ response'[c] = Nothing
      /\ \A d \in waiting' : d \in waiting /\ d \in Conns /\ d # c
      /\ \A d \in Conns : d # c => response'[d] = response[d]
  BY <1>1 DEF TypeOK
<1>5. \A d \in waiting' : request[d].type # "DATA" /\ response[d].type # "DATA"
  BY <1>1, <1>4 DEF ClientInv, PendingInv
<1>6. PendingInv'
  BY <1>1, <1>4, <1>5 DEF PendingInv
<1>7. ResponsesInv'
  BY <1>1, <1>2, <1>4 DEF ResponsesInv, ClientInv, Issued
<1>8. ResponsesAgreeWithClient'
  BY <1>1, <1>2, <1>4, <1>5 DEF ResponsesAgreeWithClient, ClientInv
<1>9. Valid' = Valid
  BY <1>1, <1>2 DEF Valid, TicketValid, RecoveryFloor
<1>10. RaceInv'
  BY <1>1, <1>2, <1>4, <1>9 DEF ClientInv, RaceInv, Accepted, Refused
<1>11. RaceHasOneWinner'
  BY <1>4 DEF ClientInv, RaceHasOneWinner
<1>12. QED
  BY <1>3, <1>6, <1>7, <1>8, <1>10, <1>11 DEF ClientInv

-----------------------------------------------------------------------------
(* The invariant of the specification *)

LEMMA InitIInv == Init => IInv
<1> SUFFICES ASSUME Init
             PROVE  IInv
  OBVIOUS
<1>1. <<>> \in Seq(Payloads) /\ Len(<<>>) = 0
  OBVIOUS
<1>2. TypeOK
  BY DEF Init, TypeOK, Memory
<1>3. ServerInv
  BY <1>1 DEF Init, ServerInv, CheckpointsOnHistory, TicketsOnHistory
<1>4. ClientOnHistory /\ AtMostOneInDoubt
  <2>1. IsPrefix(<<>>, <<>>)
    BY <1>1, PrefixReflexive
  <2>2. QED
    BY <1>1, <2>1 DEF Init, ClientOnHistory, AtMostOneInDoubt
<1>5. /\ held \subseteq Issued
      /\ RequestsInv /\ PendingInv /\ ResponsesInv /\ ResponsesAgreeWithClient
      /\ RaceInv /\ RaceHasOneWinner
  BY DEF Init, RequestsInv, PendingInv, ResponsesInv, ResponsesAgreeWithClient,
         RaceInv, RaceHasOneWinner, Nothing
<1>6. QED
  BY <1>2, <1>3, <1>4, <1>5 DEF IInv, ClientInv

\* Every step preserves the invariant: one case for each action.
LEMMA IInvStep ==
  ASSUME IInv, [Next]_vars
  PROVE  IInv'
<1>1. TypeOK /\ ServerInv /\ ClientInv
  BY DEF IInv
<1>2. TypeOK'
  BY <1>1, TypeStep DEF ClientInv
<1>3. ServerInv'
  BY <1>1, <1>2, ServerInvStep
<1>4. ASSUME NEW c \in Conns, AcceptData(c) PROVE ClientInv'
  BY <1>1, <1>2, <1>3, <1>4, AcceptDataStep
<1>5. ASSUME NEW c \in Conns, RejectData(c) PROVE ClientInv'
  BY <1>1, <1>2, <1>3, <1>5, RejectDataStep
<1>6. ASSUME NEW c \in Conns, AcceptRecovery(c) PROVE ClientInv'
  BY <1>1, <1>2, <1>3, <1>6, AcceptRecoveryStep
<1>7. ASSUME NEW c \in Conns, RejectRecovery(c) PROVE ClientInv'
  BY <1>1, <1>2, <1>3, <1>7, RejectRecoveryStep
<1>8. ASSUME NEW c \in Conns, SendData(c) PROVE ClientInv'
  BY <1>1, <1>2, <1>8, SendDataStep
<1>9. ASSUME NEW conns \in SUBSET Conns, SendRecovery(conns) PROVE ClientInv'
  BY <1>1, <1>2, <1>9, SendRecoveryStep
<1>10. ASSUME NEW c \in Conns, ReceiveDataResponse(c) PROVE ClientInv'
  BY <1>1, <1>2, <1>10, ReceiveDataResponseStep
<1>11. ASSUME NEW c \in Conns, ReceiveRecoveryResponse(c) PROVE ClientInv'
  BY <1>1, <1>2, <1>11, ReceiveRecoveryResponseStep
<1>12. ASSUME NEW c \in Conns, Abandon(c) PROVE ClientInv'
  BY <1>1, <1>2, <1>12, AbandonStep
<1>13. ASSUME NEW c \in Conns, LoseRequest(c) PROVE ClientInv'
  BY <1>1, <1>2, <1>3, <1>13, QuietStep DEF LoseRequest, serverVars, TypeOK
<1>14. ASSUME UNCHANGED <<clientVars, waiting, response, last_seq, last_mem,
                          used_nonces, issued>>,
              UNCHANGED request
       PROVE  ClientInv'
  BY <1>1, <1>2, <1>3, <1>14, QuietStep
<1>15. ASSUME ExpireTicket PROVE ClientInv'
  BY <1>14, <1>15 DEF ExpireTicket, serverVars
<1>16. ASSUME UNCHANGED vars PROVE ClientInv'
  BY <1>14, <1>16 DEF vars, serverVars
<1>17. ClientInv'
  BY <1>4, <1>5, <1>6, <1>7, <1>8, <1>9, <1>10, <1>11, <1>12, <1>13, <1>15,
     <1>16 DEF Next
<1>18. QED
  BY <1>2, <1>3, <1>17 DEF IInv

LEMMA Invariance == Spec => []IInv
BY InitIInv, IInvStep, PTL DEF Spec

-----------------------------------------------------------------------------
(* Theorems *)

\* Every variable keeps its type, for all values of the constants.
THEOREM TypeCorrect == Spec => []TypeOK
BY Invariance, PTL DEF IInv

\* The stored checkpoints ascend and lie on the server's history.
THEOREM CheckpointsCorrect == Spec => []CheckpointsOnHistory
<1>1. IInv => CheckpointsOnHistory
  BY DEF IInv, ServerInv
<1>2. QED
  BY <1>1, Invariance, PTL

\* Every issued ticket is bound to memories on the server's history, with
\* checkpoint_seq <= ticket_seq <= server_seq.
THEOREM TicketsCorrect == Spec => []TicketsOnHistory
<1>1. IInv => TicketsOnHistory
  BY DEF IInv, ServerInv
<1>2. QED
  BY <1>1, Invariance, PTL

\* handle_recovery_request never turns away an issued ticket because of its
\* checkpoint.
THEOREM CheckpointComparison == Spec => []CheckpointComparisonNeverFails
<1>1. IInv => CheckpointComparisonNeverFails
  <2>1. SUFFICES ASSUME IInv, NEW i \in DOMAIN issued
                 PROVE  CheckpointValid(issued[i])
    BY DEF CheckpointComparisonNeverFails
  <2>2. issued[i] \in Issued
    BY DEF Issued
  <2>3. QED
    BY <2>1, <2>2, IssuedCheckpointValid DEF IInv
<1>2. QED
  BY <1>1, Invariance, PTL

\* The client's view is always a beginning of the server's history.
THEOREM ClientCorrect == Spec => []ClientOnHistory
<1>1. IInv => ClientOnHistory
  BY DEF IInv, ClientInv
<1>2. QED
  BY <1>1, Invariance, PTL

\* At most one message is in doubt.
THEOREM OneInDoubt == Spec => []AtMostOneInDoubt
<1>1. IInv => AtMostOneInDoubt
  BY DEF IInv, ClientInv
<1>2. QED
  BY <1>1, Invariance, PTL

\* An honest packet is never refused as "history is not continuous": one that
\* is in order was built on a prefix of full length.
THEOREM HonestPacketsContinuous == Spec => []NoFalseDiscontinuity
<1>1. IInv => NoFalseDiscontinuity
  <2>1. SUFFICES ASSUME IInv, NEW c \in Conns,
                        request[c].type = "DATA", InOrder(request[c])
                 PROVE  Continuous(request[c])
    BY DEF NoFalseDiscontinuity
  <2>2. request[c].prev_mem \in Seq(Payloads) /\ last_mem \in Seq(Payloads)
    BY <2>1 DEF IInv, TypeOK, DataPacket, RecoveryRequest, Nothing, Memory
  <2>3. /\ request[c].seq = Len(request[c].prev_mem) + 1
        /\ IsPrefix(request[c].prev_mem, last_mem)
        /\ request[c].seq = last_seq + 1 /\ last_seq = Len(last_mem)
    BY <2>1 DEF IInv, ServerInv, ClientInv, RequestsInv, InOrder
  <2>4. Len(request[c].prev_mem) = Len(last_mem)
    BY <2>2, <2>3
  <2>5. QED
    BY <2>2, <2>3, <2>4, PrefixLength DEF Continuous
<1>2. QED
  BY <1>1, Invariance, PTL

\* A response a client waits for is never behind it, and an acknowledgement
\* shows the memory the client computes.
THEOREM ResponsesCorrect == Spec => []ResponsesAgreeWithClient
<1>1. IInv => ResponsesAgreeWithClient
  BY DEF IInv, ClientInv
<1>2. QED
  BY <1>1, Invariance, PTL

\* At most one of the recoveries racing with one ticket wins, for any number
\* of connections.
THEOREM OneWinner == Spec => []RaceHasOneWinner
<1>1. IInv => RaceHasOneWinner
  BY DEF IInv, ClientInv
<1>2. QED
  BY <1>1, Invariance, PTL

\* Only AcceptRecovery puts an accepted recovery into a connection.
LEMMA AcceptedByServer ==
  ASSUME TypeOK, [Next]_vars, NEW c \in Conns,
         response'[c] # response[c], response'[c] # Nothing,
         response'[c].type = "RECOVERY_RESPONSE", response'[c].ok
  PROVE  AcceptRecovery(c)
<1>1. ASSUME NEW d \in Conns, NEW answer, Answer(d, answer)
      PROVE  c = d /\ response'[c] = answer
  BY <1>1 DEF Answer, TypeOK
<1>2. ASSUME NEW d \in Conns, AcceptData(d) \/ RejectData(d) \/ RejectRecovery(d)
      PROVE  FALSE
  <2>1. PICK answer : /\ Answer(d, answer)
                      /\ answer.type = "DATA" \/ ~answer.ok
    BY <1>2 DEF AcceptData, RejectData, RejectRecovery
  <2>2. QED
    BY <1>1, <2>1
<1>3. ASSUME NEW d \in Conns, AcceptRecovery(d)
      PROVE  c = d
  <2>1. PICK answer : Answer(d, answer)
    BY <1>3 DEF AcceptRecovery
  <2>2. QED
    BY <1>1, <2>1
<1>4. ASSUME NEW d \in Conns, response' = [response EXCEPT ![d] = Nothing]
      PROVE  FALSE
  BY <1>4 DEF TypeOK
<1>5. QED
  BY <1>2, <1>3, <1>4
  DEF Next, vars, SendData, SendRecovery, ReceiveDataResponse,
      ReceiveRecoveryResponse, Abandon, LoseRequest, ExpireTicket

\* The server never answers yes to a spent ticket, and no nonce is freed.
THEOREM SpentStaySpent == Spec => SpentTicketsStaySpent
<1>1. ASSUME IInv, IInv', [Next]_vars
      PROVE  [/\ used_nonces \subseteq used_nonces'
              /\ \A c \in Conns :
                   /\ response'[c] # response[c]
                   /\ response'[c] # Nothing
                   /\ response'[c].type = "RECOVERY_RESPONSE" /\ response'[c].ok
                   => request[c].memory_ticket.nonce
                        \in used_nonces' \ used_nonces]_vars
  <2>1. used_nonces \subseteq used_nonces'
    BY <1>1, ServerMonotone DEF IInv
  <2>2. ASSUME NEW c \in Conns,
               response'[c] # response[c], response'[c] # Nothing,
               response'[c].type = "RECOVERY_RESPONSE", response'[c].ok
        PROVE  request[c].memory_ticket.nonce \in used_nonces' \ used_nonces
    <3>1. AcceptRecovery(c)
      BY <1>1, <2>2, AcceptedByServer DEF IInv
    <3>2. QED
      BY <3>1 DEF AcceptRecovery, TicketValid
  <2>3. QED
    BY <2>1, <2>2
<1>2. QED
  BY <1>1, Invariance, PTL DEF Spec, SpentTicketsStaySpent

\* A step either leaves the client's view alone, or leaves the server's
\* history alone and lengthens that view.
LEMMA HistoryOrView ==
  ASSUME IInv, IInv', [Next]_vars
  PROVE  \/ /\ UNCHANGED client_mem
            /\ \/ UNCHANGED last_mem
               \/ \E payload \in Payloads : last_mem' = Append(last_mem, payload)
         \/ /\ UNCHANGED last_mem
            /\ Len(client_mem) <= Len(client_mem')
<1>1. CASE UNCHANGED client_mem
  BY <1>1, StepsFit DEF HistoryStep, IInv
<1>2. ASSUME NEW c \in Conns, ReceiveDataResponse(c)
      PROVE  UNCHANGED last_mem /\ Len(client_mem) <= Len(client_mem')
  <2>1. UNCHANGED last_mem
    BY <1>2 DEF ReceiveDataResponse, serverVars
  <2>2. CASE UNCHANGED client_mem
    BY <2>1, <2>2 DEF IInv, TypeOK, Memory
  <2>3. CASE client_mem' = Append(client_mem, pending)
    <3>1. pending \in Payloads
      BY <1>2 DEF IInv, ClientInv, PendingInv, ReceiveDataResponse
    <3>2. QED
      BY <2>1, <2>3, <3>1 DEF IInv, TypeOK, Memory
  <2>4. QED
    BY <1>2, <2>2, <2>3 DEF ReceiveDataResponse
<1>3. ASSUME NEW c \in Conns, ReceiveRecoveryResponse(c)
      PROVE  UNCHANGED last_mem /\ Len(client_mem) <= Len(client_mem')
  <2>1. UNCHANGED last_mem
    BY <1>3 DEF ReceiveRecoveryResponse, serverVars
  <2>2. CASE UNCHANGED client_mem
    BY <2>1, <2>2 DEF IInv, TypeOK, Memory
  <2>3. CASE client_mem' = response[c].last_mem
    <3>1. c \in waiting /\ response[c] # Nothing
      BY <1>3 DEF ReceiveRecoveryResponse, Nothing
    <3>2. IsPrefix(client_mem, client_mem')
      BY <2>3, <3>1 DEF IInv, ClientInv, ResponsesAgreeWithClient
    <3>3. QED
      BY <2>1, <3>2, PrefixLength DEF IInv, TypeOK, Memory
  <2>4. QED
    BY <1>3, <2>2, <2>3 DEF ReceiveRecoveryResponse
<1>4. QED
  BY <1>1, <1>2, <1>3
  DEF Next, vars, clientVars, AcceptData, RejectData, AcceptRecovery,
      RejectRecovery, SendData, SendRecovery, Abandon, LoseRequest, ExpireTicket

\* TicketRecovery implements SharedHistory: accepting DATA extends the
\* history, acknowledgements and recoveries are catching up with it, and every
\* other step stutters.
THEOREM Refinement == Spec => ImplementsSharedHistory
<1>1. Init => History!Init
  BY DEF Init, History!Init
<1>2. ASSUME IInv, IInv', [Next]_vars
      PROVE  [History!Next]_<<last_mem, client_mem>>
  <2>1. CASE UNCHANGED last_mem /\ UNCHANGED client_mem
    BY <2>1
  <2>2. CASE /\ UNCHANGED client_mem
             /\ \E payload \in Payloads : last_mem' = Append(last_mem, payload)
    BY <2>2 DEF History!Next, History!Extend
  <2>3. CASE UNCHANGED last_mem /\ Len(client_mem) <= Len(client_mem')
    <3>1. /\ client_mem \in Seq(Payloads) /\ client_mem' \in Seq(Payloads)
          /\ last_mem \in Seq(Payloads) /\ IsPrefix(client_mem', last_mem)
      BY <1>2, <2>3 DEF IInv, TypeOK, Memory, ClientInv, ClientOnHistory
    <3>2. /\ client_mem' = SubSeq(last_mem, 1, Len(client_mem'))
          /\ Len(client_mem') <= Len(last_mem)
      BY <3>1, PrefixIsSubSeq, PrefixLength
    <3>3. Len(client_mem') \in Len(client_mem)..Len(last_mem)
      BY <2>3, <3>1, <3>2
    <3>4. History!CatchUp
      BY <2>3, <3>2, <3>3 DEF History!CatchUp
    <3>5. QED
      BY <3>4 DEF History!Next
  <2>4. QED
    BY <1>2, <2>1, <2>2, <2>3, HistoryOrView
<1>3. QED
  BY <1>1, <1>2, Invariance, PTL DEF Spec, ImplementsSharedHistory, History!Spec

-----------------------------------------------------------------------------
(* The recovery window *)

\* RecoveryWindowBounded is not inductive: what bounds the distance from the
\* latest checkpoint is how far the server is past a multiple of the interval.
WindowInv ==
  /\ checkpoint_interval = 0 => last_seq = 0 /\ checkpoints = <<>>
  /\ checkpoint_interval > 0 /\ checkpoints = <<>> =>
       last_seq < checkpoint_interval /\ last_seq < TicketInterval
  /\ checkpoint_interval > 0 /\ checkpoints # <<>> =>
       last_seq - RecoveryFloor <= last_seq % checkpoint_interval

\* With n accepted messages and no checkpoint yet, or one in the window, the
\* next message either makes a checkpoint or stays within the window.
LEMMA AcceptDataWindow ==
  ASSUME IInv, IInv', WindowInv, NEW c \in Conns, AcceptData(c)
  PROVE  WindowInv'
<1> DEFINE packet == request[c]
           k      == GetOrCreate(packet.checkpoint_interval)
           n      == last_seq
           cp     == NewCheckpoint(packet.seq, Append(last_mem, packet.payload))
<1>1. /\ packet.seq = n + 1 /\ last_seq' = n + 1 /\ checkpoint_interval' = k
      /\ checkpoints' = IF CheckpointDue(n + 1, k)
                        THEN Append(checkpoints, cp) ELSE checkpoints
  BY DEF AcceptData, InOrder
<1>2. k \in Nat \ {0} /\ n \in Nat /\ n + 1 \in Nat /\ TicketInterval \in Nat \ {0}
  <2>1. packet \in DataPacket
    BY DEF AcceptData, IInv, TypeOK, RecoveryRequest, Nothing
  <2>2. k \in Intervals
    BY <2>1, GetOrCreateType DEF IInv, DataPacket
  <2>3. k \in Nat \ {0} /\ TicketInterval \in Nat \ {0}
    BY <2>2, IntervalsAssumption
  <2>4. n \in Nat
    BY DEF IInv, TypeOK
  <2>5. QED
    BY <2>3, <2>4
<1> HIDE DEF k
<1>3. checkpoints \in Seq(Checkpoint)
  BY DEF IInv, TypeOK
<1>4. CASE CheckpointDue(n + 1, k)
  <2>1. cp \in Checkpoint
    BY <1>1, <1>2, Zenon DEF NewCheckpoint, Checkpoint, IInv, TypeOK, AcceptData
  <2>2. checkpoints' # <<>> /\ Last(checkpoints') = cp
    BY <1>1, <1>3, <1>4, <2>1 DEF Last
  <2>3. RecoveryFloor' = n + 1
    BY <1>1, <2>2 DEF RecoveryFloor, NewCheckpoint
  <2>4. (n + 1) % k \in 0..(k - 1)
    BY <1>2, RemainderRange
  <2>5. QED
    BY <1>1, <1>2, <2>2, <2>3, <2>4 DEF WindowInv
<1>5. CASE ~CheckpointDue(n + 1, k) /\ checkpoints = <<>>
  <2>1. (n + 1) % k # 0 /\ (n + 1) % TicketInterval # 0
    BY <1>5 DEF CheckpointDue
  <2>2. n + 1 # k /\ n + 1 # TicketInterval
    BY <1>2, <2>1, RemainderRange
  <2>3. n < k /\ n < TicketInterval
    <3>1. CASE checkpoint_interval = 0
      BY <1>2, <3>1 DEF WindowInv
    <3>2. CASE checkpoint_interval # 0
      <4>1. checkpoint_interval \in Nat \ {0} /\ k = checkpoint_interval
        BY <3>2, IntervalsAssumption DEF k, GetOrCreate, IInv, TypeOK
      <4>2. QED
        BY <1>5, <4>1 DEF WindowInv
    <3>3. QED
      BY <3>1, <3>2
  <2>4. n + 1 < k /\ n + 1 < TicketInterval
    BY <1>2, <2>2, <2>3
  <2>5. checkpoints' = <<>>
    BY <1>1, <1>5
  <2>6. QED
    BY <1>1, <1>2, <2>4, <2>5 DEF WindowInv
<1>6. CASE ~CheckpointDue(n + 1, k) /\ checkpoints # <<>>
  <2>1. (n + 1) % k # 0
    BY <1>6 DEF CheckpointDue
  <2>2. (n + 1) % k = (n % k) + 1
    BY <1>2, <2>1, RemainderCountsUp
  <2>3. checkpoint_interval = k /\ n - RecoveryFloor <= n % k
    BY <1>2, <1>6 DEF WindowInv, k, GetOrCreate, IInv, TypeOK
  <2>4. checkpoints' = checkpoints /\ RecoveryFloor' = RecoveryFloor
    BY <1>1, <1>6 DEF RecoveryFloor
  <2>5. RecoveryFloor \in Nat /\ n % k \in Nat
    <3>1. Last(checkpoints) \in Checkpoint
      BY <1>3, <1>6, LastInSeq
    <3>2. n % k \in 0..(k - 1)
      BY <1>2, RemainderRange
    <3>3. QED
      BY <1>2, <3>1, <3>2 DEF RecoveryFloor, Checkpoint
  <2>6. (n + 1) - RecoveryFloor <= (n + 1) % k
    BY <1>2, <2>2, <2>3, <2>5
  <2>7. QED
    BY <1>1, <1>2, <1>6, <2>4, <2>6 DEF WindowInv
<1>7. QED
  BY <1>4, <1>5, <1>6

LEMMA WindowStep ==
  ASSUME IInv, IInv', WindowInv, [Next]_vars
  PROVE  WindowInv'
<1>1. ASSUME NEW k \in Intervals, checkpoint_interval' = GetOrCreate(k),
             UNCHANGED <<last_seq, checkpoints>>
      PROVE  WindowInv'
  <2>1. k \in Nat \ {0} /\ TicketInterval \in Nat \ {0}
    BY IntervalsAssumption
  <2>2. RecoveryFloor' = RecoveryFloor
    BY <1>1 DEF RecoveryFloor
  <2>3. CASE checkpoint_interval = 0
    BY <1>1, <2>1, <2>2, <2>3 DEF WindowInv, GetOrCreate
  <2>4. CASE checkpoint_interval # 0
    BY <1>1, <2>1, <2>2, <2>4 DEF WindowInv, GetOrCreate
  <2>5. QED
    BY <2>3, <2>4
<1>2. ASSUME UNCHANGED <<checkpoint_interval, last_seq, checkpoints>>
      PROVE  WindowInv'
  BY <1>2 DEF WindowInv, RecoveryFloor
<1>3. ASSUME NEW c \in Conns, RejectData(c)
      PROVE  WindowInv'
  <2>1. request[c] \in DataPacket
    BY <1>3 DEF RejectData, IInv, TypeOK, RecoveryRequest, Nothing
  <2>2. QED
    BY <1>1, <1>3, <2>1 DEF RejectData, DataPacket
<1>4. ASSUME NEW c \in Conns, AcceptRecovery(c) \/ RejectRecovery(c)
      PROVE  WindowInv'
  <2>1. request[c] \in RecoveryRequest
    BY <1>4 DEF AcceptRecovery, RejectRecovery, IInv, TypeOK, DataPacket, Nothing
  <2>2. QED
    BY <1>1, <1>4, <2>1 DEF AcceptRecovery, RejectRecovery, RecoveryRequest
<1>5. QED
  BY <1>2, <1>3, <1>4, AcceptDataWindow
  DEF Next, vars, serverVars, SendData, SendRecovery, ReceiveDataResponse,
      ReceiveRecoveryResponse, Abandon, LoseRequest, ExpireTicket

\* A recovery ticket stays usable for less than one checkpoint interval of new
\* messages, whatever the intervals and however unaligned they are.
THEOREM WindowBounded == Spec => []RecoveryWindowBounded
<1>1. Init => WindowInv
  BY IntervalsAssumption DEF Init, WindowInv
<1>2. IInv /\ IInv' /\ WindowInv /\ [Next]_vars => WindowInv'
  BY WindowStep
<1>3. IInv /\ WindowInv => RecoveryWindowBounded
  <2>1. SUFFICES ASSUME IInv, WindowInv
                 PROVE  RecoveryWindowBounded
    OBVIOUS
  <2>2. /\ checkpoint_interval \in Nat /\ TicketInterval \in Nat /\ last_seq \in Nat
        /\ checkpoints # <<>> => Last(checkpoints) \in Checkpoint
    BY <2>1, IntervalsAssumption, LastInSeq DEF IInv, TypeOK
  <2>3. CASE checkpoints = <<>> /\ checkpoint_interval > 0
    <3>1. /\ last_seq < checkpoint_interval /\ last_seq < TicketInterval
      BY <2>1, <2>3 DEF WindowInv
    <3>2. Min({checkpoint_interval, TicketInterval})
            \in {checkpoint_interval, TicketInterval}
      BY <2>2 DEF Min
    <3>3. QED
      BY <2>3, <3>1, <3>2 DEF RecoveryWindowBounded
  <2>4. CASE checkpoints # <<>>
    <3>1. checkpoint_interval > 0
      BY <2>1, <2>2, <2>4 DEF WindowInv
    <3>2. /\ last_seq - RecoveryFloor <= last_seq % checkpoint_interval
          /\ last_seq % checkpoint_interval \in 0..(checkpoint_interval - 1)
      BY <2>1, <2>2, <2>4, <3>1, RemainderRange DEF WindowInv
    <3>3. RecoveryFloor \in Nat
      BY <2>2, <2>4 DEF RecoveryFloor, Checkpoint
    <3>4. QED
      BY <2>2, <2>4, <3>2, <3>3 DEF RecoveryWindowBounded
  <2>5. QED
    BY <2>2, <2>3, <2>4 DEF RecoveryWindowBounded
<1>4. QED
  BY <1>1, <1>2, <1>3, Invariance, PTL DEF Spec

-----------------------------------------------------------------------------
(* The recovery window experiment (RecoveryWindow), with the same ticket and  *)
(* checkpoint intervals, any number of rows and a pipe of any capacity.       *)
(*                                                                            *)
(* The inductive invariant has a part for each place of main: it says what    *)
(* the connections may hold there, what the row already says, and how both    *)
(* stand to the session's checkpoints and its nonce.                          *)

CONSTANTS RaceIntervals, Rows, Drained, PipeCapacity, Faults
VARIABLES pc, count, scenario, interval, seq, saved_ticket, row, invalid,
          session_last_seq, session_checkpoints, nonce_used, pipe, call, results

Window == INSTANCE RecoveryWindow
  WITH last_seq <- session_last_seq, checkpoints <- session_checkpoints

\* What the scenario sends, and the floor of the session.
Target == Window!Plan.target
Floor == Window!RecoveryFloor

\* The row's checkpoints: in order, one at each multiple of the interval, and one
\* at TICKET_INTERVAL when there was none for its ticket.
RowCheckpoints ==
  /\ session_last_seq \in Nat /\ session_checkpoints \in Seq(Nat)
  /\ \A i \in 1..Len(session_checkpoints) :
       /\ session_checkpoints[i] \in 1..session_last_seq
       /\ session_checkpoints[i] % interval = 0 \/ session_checkpoints[i] = TicketInterval
  /\ \A i, j \in 1..Len(session_checkpoints) :
       i < j => session_checkpoints[i] < session_checkpoints[j]
  /\ \A m \in 1..session_last_seq : m % interval = 0 =>
       \E i \in 1..Len(session_checkpoints) : session_checkpoints[i] = m
  /\ session_last_seq >= TicketInterval => session_checkpoints # <<>>

\* The ticket of TICKET_INTERVAL, on a checkpoint that is stored.
HasTicket ==
  /\ session_last_seq >= TicketInterval
  /\ \E i \in 1..Len(session_checkpoints) :
       saved_ticket = [last_seq |-> TicketInterval, checkpoint_seq |-> session_checkpoints[i]]

NoRace == call[1] = Window!Nothing /\ \A c \in {0, 1} : results[c] = Window!Nothing

\* An answer to a recovery request.
RecoveryAnswered(c, ok, reason) ==
  call[c] = [kind |-> "answer", ok |-> ok, reason |-> reason,
             server_last_seq |-> Target, recovery_floor |-> Floor,
             ticket_last_seq |-> TicketInterval]

WindowTypes ==
  /\ pc \in {"row", "hello", "data", "recover", "resubmit", "race", "judge", "end"}
  /\ count \in 0..Rows /\ (pc \notin {"row", "end"} => count < Rows)
  /\ scenario \in Window!Scenarios /\ interval \in Intervals
  /\ invalid \in BOOLEAN /\ nonce_used \in BOOLEAN /\ pipe \in 0..PipeCapacity
  /\ DOMAIN call = {0, 1} /\ DOMAIN results = {0, 1}
  /\ pc \in {"row", "end"} => \A c \in {0, 1} : call[c] = Window!Nothing
  /\ pc \notin {"row", "hello", "end"} => session_last_seq <= Target

\* The next message is the client's last one, on its only connection.
DataInOrder ==
  /\ call[1].kind # "data"
  /\ call[0].kind = "data" =>
       /\ pc \in {"data", "judge"} /\ call[0].seq = session_last_seq + 1
       /\ session_last_seq < Target

InHello ==
  pc = "hello" =>
    /\ session_last_seq = 0 /\ session_checkpoints = <<>> /\ ~nonce_used /\ NoRace
    /\ row = Window!ErrorRow /\ call[0].kind \in {"hello", "answer", "stuck"}

InData ==
  pc = "data" =>
    /\ ~nonce_used /\ NoRace /\ row = Window!ErrorRow /\ seq \in 1..Target
    /\ seq > TicketInterval => HasTicket
    /\ \/ call[0] = Window!Stuck
       \/ call[0] = Window!Data(seq)
       \/ /\ session_last_seq = seq /\ call[0].kind = "answer" /\ call[0].last_seq = seq
          /\ seq = TicketInterval =>
               \E i \in 1..Len(session_checkpoints) :
                 call[0].memory_ticket =
                   [last_seq |-> TicketInterval, checkpoint_seq |-> session_checkpoints[i]]

\* The first presentation of the ticket.
InRecover ==
  pc = "recover" =>
    /\ NoRace /\ HasTicket /\ session_last_seq = Target /\ scenario # "nonce_race"
    /\ row = [Window!ErrorRow EXCEPT !.server_last_seq_before = Target]
    /\ \/ call[0] = Window!Stuck
       \/ call[0] = Window!Recovery(saved_ticket) /\ ~nonce_used
       \/ RecoveryAnswered(0, TRUE, "ok") /\ nonce_used /\ TicketInterval >= Floor
       \/ RecoveryAnswered(0, FALSE, "rollback") /\ ~nonce_used /\ TicketInterval < Floor

\* What the row says of the first presentation.
RowOf(consumed) ==
  /\ row = [server_last_seq_before |-> Target, server_last_seq_after |-> Target,
            recovery_floor |-> Floor, ticket_last_seq |-> TicketInterval,
            auth_ok |-> TRUE, nonce_consumed |-> consumed, race_winner_count |-> 0,
            state_unchanged |-> TRUE, success |-> nonce_used, error |-> FALSE]
  /\ nonce_used <=> TicketInterval >= Floor
  /\ NoRace /\ HasTicket /\ session_last_seq = Target /\ scenario # "nonce_race"

InResubmit ==
  pc = "resubmit" =>
    /\ RowOf(FALSE)
    /\ \/ call[0] = Window!Stuck
       \/ call[0] = Window!Recovery(saved_ticket)
       \/ RecoveryAnswered(0, FALSE, IF nonce_used THEN "replay" ELSE "rollback")

Granted(c) == call[c].kind = "answer" /\ "ok" \in DOMAIN call[c] /\ call[c].ok

\* A worker, and its connection.
Racing(c) ==
  /\ \/ call[c] \in {Window!Stuck, Window!Hello, [kind |-> "answer"],
                     Window!Recovery(saved_ticket)}
     \/ RecoveryAnswered(c, TRUE, "ok") /\ nonce_used
     \/ RecoveryAnswered(c, FALSE, "replay") /\ nonce_used
  /\ \/ results[c] = Window!Nothing
     \/ results[c] = [kind |-> "result", ok |-> FALSE, auth |-> FALSE,
                      response |-> Window!Nothing]
     \/ /\ results[c] = [kind |-> "result", ok |-> call[c].ok, auth |-> TRUE,
                         response |-> call[c]]
        /\ call[c].kind = "answer" /\ "ok" \in DOMAIN call[c]

InRace ==
  pc = "race" =>
    /\ HasTicket /\ session_last_seq = Target /\ scenario = "nonce_race"
    /\ row = Window!ErrorRow
    /\ \A c \in {0, 1} : Racing(c)
    /\ \A c, d \in {0, 1} : Granted(c) /\ Granted(d) => c = d

Won(c) == results[c] # Window!Nothing /\ results[c].ok
OneRaceWinner == \A c, d \in {0, 1} : Won(c) /\ Won(d) => c = d

InJudge ==
  pc = "judge" /\ ~row.error =>
    \/ scenario = "nonce_race"
         /\ (row.race_winner_count = 1 => nonce_used /\ row.ticket_last_seq >= row.recovery_floor)
    \/ RowOf(nonce_used) /\ call[0].kind = "answer"

WindowRunInv ==
  /\ WindowTypes /\ RowCheckpoints /\ DataInOrder /\ InHello /\ InData /\ InRecover
  /\ InResubmit /\ InRace /\ OneRaceWinner /\ InJudge

\* Of the intervals: none has a multiple between phase 1 and the end
\* of the lost acknowledgements, each has one before the ticket is two old.
IntervalsFit ==
  \A k \in Intervals :
    /\ k <= 2 * TicketInterval
    /\ \A m \in (TicketInterval + 1)..(TicketInterval + TicketInterval \div 2 - 1) :
         m % k # 0

\* When nothing disturbs the run.
Undisturbed ==
  /\ \A c \in {0, 1} : call[c] # Window!Stuck
  /\ pc = "race" =>
       /\ nonce_used => \E c \in {0, 1} : Granted(c)
       /\ \A c \in {0, 1} : results[c] # Window!Nothing => results[c].auth
  /\ pc = "judge" => ~row.error
  /\ pc = "judge" /\ scenario = "nonce_race" => row.auth_ok /\ row.race_winner_count = 1

\* With a ticket at every message the ack_loss scenario would send less than phase 1
\* does; TICKET_INTERVAL is a hundred.
WindowParameters == Window!WindowAssumption /\ TicketInterval > 1

\* What each scenario sends, and when it presents the ticket again.
LEMMA Scenario ==
  ASSUME WindowParameters, interval \in Intervals, scenario \in Window!Scenarios
  PROVE  /\ Target \in Nat /\ Target >= TicketInterval
         /\ scenario \in {"control", "nonce_race"} => Target = TicketInterval
         /\ scenario = "ack_loss" => Target = TicketInterval + TicketInterval \div 2 - 1
         /\ scenario = "old_ticket_within_window" =>
              Target = (TicketInterval \div interval + 1) * interval - 1
         /\ scenario = "below_floor" => Target = 2 * TicketInterval
         /\ scenario \in {"control", "ack_loss", "old_ticket_within_window"} =>
              Window!Plan.resubmits = {TRUE}
         /\ scenario = "below_floor" => Window!Plan.resubmits = {TRUE, FALSE}
<1>1. TicketInterval \in Nat /\ TicketInterval > 1 /\ interval \in Nat \ {0}
  BY DEF WindowParameters, Window!WindowAssumption
<1>2. CASE scenario = "control"
  <2>1. Target = TicketInterval /\ Window!Plan.resubmits = {TRUE}
    BY <1>2 DEF Target, Window!Plan, Window!run_control
  <2>2. QED
    BY <1>1, <1>2, <2>1
<1>3. CASE scenario = "ack_loss"
  <2>1. /\ Target = TicketInterval + TicketInterval \div 2 - 1
        /\ Window!Plan.resubmits = {TRUE}
    BY <1>3 DEF Target, Window!Plan, Window!run_ack_loss
  <2>2. TicketInterval \div 2 \in Nat /\ TicketInterval \div 2 >= 1
    BY <1>1
  <2>3. QED
    BY <1>1, <1>3, <2>1, <2>2
<1>4. CASE scenario = "old_ticket_within_window"
  <2>1. /\ Target = (TicketInterval \div interval + 1) * interval - 1
        /\ Window!Plan.resubmits = {TRUE}
    BY <1>4 DEF Target, Window!Plan, Window!run_old_ticket_within_window
  <2> DEFINE q == TicketInterval \div interval
             r == TicketInterval % interval
  <2>2. /\ q \in Nat /\ r \in 0..(interval - 1) /\ TicketInterval = interval * q + r
        /\ interval * q \in Nat /\ (q + 1) * interval = interval * q + interval
    <3>1. q \in Nat /\ r \in 0..(interval - 1) /\ TicketInterval = interval * q + r
      BY <1>1, QuotientRemainder, RemainderRange
    <3> HIDE DEF q, r
    <3>2. interval * q \in Nat
      BY <1>1, <3>1
    <3>3. (q + 1) * interval = interval * q + interval
      BY <1>1, <3>1
    <3>4. QED
      BY <3>1, <3>2, <3>3
  <2>3. Target = (q + 1) * interval - 1
    BY <2>1
  <2> HIDE DEF q, r
  <2>4. Target \in Nat /\ Target >= TicketInterval
    BY <1>1, <2>2, <2>3
  <2>5. QED
    BY <1>4, <2>1, <2>4
<1>5. CASE scenario = "below_floor"
  <2>1. Target = 2 * TicketInterval /\ Window!Plan.resubmits = {TRUE, FALSE}
    BY <1>5 DEF Target, Window!Plan, Window!run_below_floor
  <2>2. QED
    BY <1>1, <1>5, <2>1
<1>6. CASE scenario = "nonce_race"
  <2>1. Window!Plan = Window!run_nonce_race
    BY <1>6 DEF Window!Plan
  <2>2. Target = TicketInterval
    BY <2>1 DEF Target, Window!run_nonce_race
  <2>3. QED
    BY <1>1, <1>6, <2>2
<1>7. QED
  BY <1>2, <1>3, <1>4, <1>5, <1>6 DEF Window!Scenarios

\* The floor is the greatest checkpoint.
LEMMA FloorIsLast ==
  ASSUME RowCheckpoints
  PROVE  /\ Floor \in 0..session_last_seq
         /\ \A i \in 1..Len(session_checkpoints) : session_checkpoints[i] <= Floor
         /\ session_checkpoints # <<>> =>
              \E i \in 1..Len(session_checkpoints) : session_checkpoints[i] = Floor
<1> DEFINE k == Len(session_checkpoints)
<1>1. k \in Nat /\ session_last_seq \in Nat
  BY DEF RowCheckpoints
<1>2. CASE session_checkpoints = <<>>
  <2>1. Floor = 0
    BY <1>2 DEF Floor, Window!RecoveryFloor
  <2>2. k = 0
    BY <1>2
  <2>3. QED
    BY <1>1, <1>2, <2>1, <2>2
<1>3. CASE session_checkpoints # <<>>
  <2>1. Floor = session_checkpoints[k] /\ k \in 1..k
    BY <1>1, <1>3 DEF Floor, Window!RecoveryFloor, Window!Last, RowCheckpoints
  <2>2. \A i \in 1..k : session_checkpoints[i] \in 1..session_last_seq
    BY DEF RowCheckpoints
  <2>3. ASSUME NEW i \in 1..k PROVE session_checkpoints[i] <= session_checkpoints[k]
    <3>1. i < k => session_checkpoints[i] < session_checkpoints[k]
      BY <2>1 DEF RowCheckpoints
    <3>2. session_checkpoints[i] \in Int /\ session_checkpoints[k] \in Int
      BY <1>1, <2>1, <2>2
    <3>3. QED
      BY <1>1, <3>1, <3>2
  <2>4. QED
    BY <1>1, <2>1, <2>2, <2>3
<1>4. QED
  BY <1>2, <1>3

\* How the server answers the ticket of TICKET_INTERVAL.
LEMMA RefusalOfTicket ==
  ASSUME WindowParameters, RowCheckpoints, HasTicket
  PROVE  Window!Refusal(saved_ticket) =
           IF TicketInterval < Floor THEN "rollback"
           ELSE IF nonce_used THEN "replay" ELSE "none"
<1>1. TicketInterval \in Nat
  BY DEF WindowParameters, Window!WindowAssumption
<1>2. PICK i \in 1..Len(session_checkpoints) :
        saved_ticket = [last_seq |-> TicketInterval, checkpoint_seq |-> session_checkpoints[i]]
  BY DEF HasTicket
<1>3. saved_ticket.last_seq = TicketInterval
      /\ saved_ticket.checkpoint_seq = session_checkpoints[i]
  BY <1>2
<1>4. saved_ticket.checkpoint_seq \in Window!Range(session_checkpoints)
  <2>1. DOMAIN session_checkpoints = 1..Len(session_checkpoints)
    BY DEF RowCheckpoints
  <2>2. QED
    BY <1>3, <2>1 DEF Window!Range
<1>5. session_last_seq \in Nat /\ session_last_seq >= TicketInterval
  BY DEF RowCheckpoints, HasTicket
<1>6. ~(saved_ticket.last_seq > session_last_seq)
  BY <1>1, <1>3, <1>5
<1>7. QED
  BY <1>3, <1>4, <1>6 DEF Window!Refusal, Floor

\* What the printing leaves in the pipe.
LEMMA PipeHolds ==
  ASSUME WindowParameters, WindowTypes, NEW n \in Nat, Window!Output(n)
  PROVE  pipe' \in 0..PipeCapacity
<1>1. pipe \in 0..PipeCapacity /\ PipeCapacity \in Nat
  BY DEF WindowParameters, WindowTypes, Window!WindowAssumption
<1>2. QED
  BY <1>1 DEF Window!Output, Window!Room

LEMMA WindowInit ==
  ASSUME WindowParameters, Window!Init
  PROVE  WindowRunInv
<1>1. /\ pc = "row" /\ count = 0 /\ scenario = "control" /\ interval \in Intervals
      /\ invalid = FALSE /\ session_last_seq = 0 /\ session_checkpoints = <<>>
      /\ nonce_used = FALSE /\ pipe = 0
      /\ call = [c \in {0, 1} |-> Window!Nothing] /\ results = [c \in {0, 1} |-> Window!Nothing]
  BY DEF Window!Init, Window!Conns
<1>2. Rows \in Nat /\ PipeCapacity \in Nat /\ TicketInterval \in Nat /\ TicketInterval > 1
  BY DEF WindowParameters, Window!WindowAssumption
<1>3. WindowTypes
  BY <1>1, <1>2 DEF WindowTypes, Window!Scenarios
<1>4. RowCheckpoints
  <2>1. Len(session_checkpoints) = 0 /\ session_checkpoints \in Seq(Nat)
    BY <1>1
  <2>2. QED
    BY <1>1, <1>2, <2>1 DEF RowCheckpoints
<1>5. DataInOrder
  <2>1. call[0].kind = "nothing" /\ call[1].kind = "nothing"
    BY <1>1 DEF Window!Nothing
  <2>2. QED
    BY <2>1 DEF DataInOrder
<1>6. InHello /\ InData /\ InRecover /\ InResubmit /\ InRace /\ InJudge
  BY <1>1 DEF InHello, InData, InRecover, InResubmit, InRace, InJudge
<1>7. OneRaceWinner
  BY <1>1 DEF OneRaceWinner, Won
<1>8. QED
  BY <1>3, <1>4, <1>5, <1>6, <1>7 DEF WindowRunInv

(* The server's threads *)
\* What a race's connection may hold after its thread has answered.
RaceAnswer(c) ==
  \/ call[c] \in {Window!Stuck, [kind |-> "answer"]}
  \/ RecoveryAnswered(c, TRUE, "ok") /\ nonce_used
  \/ RecoveryAnswered(c, FALSE, "replay") /\ nonce_used

\* What none of the server's steps changes.
ClientWaits == UNCHANGED <<pc, count, Window!config, seq, saved_ticket, row, invalid, results>>

\* A thread answers a HELLO or a recovery request, or stops: what the client's
\* place says of the answer is left to show.
Answers(c, a) ==
  /\ ClientWaits /\ UNCHANGED <<session_last_seq, session_checkpoints>>
  /\ call[c].kind \in {"hello", "recovery"} /\ call' = [call EXCEPT ![c] = a]
  /\ a.kind \in {"answer", "stuck"} /\ pipe' \in 0..PipeCapacity
  /\ nonce_used' \in BOOLEAN /\ (nonce_used => nonce_used')
  /\ pc = "hello" => nonce_used' = nonce_used
  /\ InRecover' /\ InResubmit'
  /\ pc = "race" => RaceAnswer(c)' /\ (Granted(c)' => ~nonce_used)

LEMMA AnswerKeeps ==
  ASSUME WindowParameters, WindowRunInv, NEW c \in {0, 1}, NEW a, Answers(c, a)
  PROVE  WindowRunInv'
<1> USE DEF Answers
<1>1. /\ session_last_seq' = session_last_seq /\ session_checkpoints' = session_checkpoints
      /\ pc' = pc /\ count' = count /\ scenario' = scenario /\ interval' = interval
      /\ seq' = seq /\ saved_ticket' = saved_ticket /\ row' = row /\ invalid' = invalid
      /\ results' = results
  BY DEF ClientWaits, Window!config
<1>2. /\ DOMAIN call = {0, 1} /\ DOMAIN call' = {0, 1} /\ call'[c] = a
      /\ \A d \in {0, 1} : d # c => call'[d] = call[d]
  BY DEF WindowRunInv, WindowTypes
<1>3. Target' = Target /\ Floor' = Floor
  BY <1>1 DEF Target, Window!Plan, Window!run_old_ticket_within_window, Floor,
       Window!RecoveryFloor
<1>4. WindowTypes'
  <2>1. pc \notin {"row", "end"}
    BY DEF WindowRunInv, WindowTypes, Window!Nothing
  <2>2. QED
    BY <1>1, <1>2, <1>3, <2>1 DEF WindowRunInv, WindowTypes
<1>5. RowCheckpoints' /\ (HasTicket' <=> HasTicket)
  BY <1>1 DEF WindowRunInv, RowCheckpoints, HasTicket
<1>6. DataInOrder'
  <2>1. \A d \in {0, 1} : call'[d].kind = "data" => call'[d] = call[d]
    BY <1>2
  <2>2. QED
    BY <1>1, <1>3, <2>1 DEF WindowRunInv, DataInOrder
<1>7. pc \in {"hello", "data"} => c = 0
  BY DEF WindowRunInv, InHello, InData, NoRace, Window!Nothing
<1>8. InHello'
  <2>1. SUFFICES ASSUME pc = "hello" PROVE InHello'
    BY <1>1 DEF InHello
  <2>2. QED
    BY <1>1, <1>2, <1>7, <2>1 DEF WindowRunInv, InHello, NoRace
<1>9. InData'
  <2>1. pc # "data"
    <3>1. SUFFICES ASSUME pc = "data" PROVE FALSE
      OBVIOUS
    <3>2. call[0].kind \in {"hello", "recovery"}
      BY <1>7, <3>1
    <3>3. QED
      BY <3>1, <3>2 DEF WindowRunInv, InData, Window!Stuck, Window!Data
  <2>2. QED
    BY <1>1, <2>1 DEF InData
<1>10. InRace'
  <2>1. SUFFICES ASSUME pc = "race" PROVE InRace'
    BY <1>1 DEF InRace
  <2>2. /\ HasTicket /\ session_last_seq = Target /\ scenario = "nonce_race"
        /\ row = Window!ErrorRow
    BY <2>1 DEF WindowRunInv, InRace
  <2>3. ASSUME NEW d \in {0, 1}
        PROVE  Racing(d)'
    <3>1. Racing(d)
      BY <2>1 DEF WindowRunInv, InRace
    <3>2. CASE d = c
      BY <1>1, <1>7, <2>1, <3>1, <3>2
         DEF Racing, RaceAnswer, Window!Stuck
    <3>3. CASE d # c
      <4>1. call'[d] = call[d]
        BY <1>2, <3>3
      <4>2. \A ok, reason : RecoveryAnswered(d, ok, reason)' <=> RecoveryAnswered(d, ok, reason)
        BY <1>3, <4>1 DEF RecoveryAnswered
      <4>3. QED
        BY <1>1, <1>5, <3>1, <4>1, <4>2 DEF Racing
    <3>4. QED
      BY <3>2, <3>3
  <2>4. ASSUME NEW d \in {0, 1}, d # c, Granted(d)' PROVE ~Granted(c)'
    <3>1. call'[d] = call[d]
      BY <1>2, <2>4
    <3>2. Granted(d)
      BY <2>4, <3>1 DEF Granted
    <3>3. nonce_used
      <4>1. \/ call[d] \in {Window!Stuck, Window!Hello, [kind |-> "answer"],
                            Window!Recovery(saved_ticket)}
            \/ nonce_used
        BY <2>1 DEF WindowRunInv, InRace, Racing
      <4>2. QED
        BY <3>2, <4>1 DEF Granted, Window!Stuck, Window!Hello, Window!Recovery
    <3>4. QED
      BY <2>1, <3>3
  <2>5. \A d, e \in {0, 1} : Granted(d)' /\ Granted(e)' => d = e
    BY <2>4
  <2>6. QED
    BY <1>1, <1>3, <1>5, <2>2, <2>3, <2>5 DEF InRace
<1>11. OneRaceWinner'
  BY <1>1 DEF WindowRunInv, OneRaceWinner, Won
<1>12. InJudge'
  <2>1. SUFFICES ASSUME pc = "judge", ~row.error PROVE InJudge'
    BY <1>1 DEF InJudge
  <2>2. scenario = "nonce_race"
         /\ (row.race_winner_count = 1 => nonce_used /\ row.ticket_last_seq >= row.recovery_floor)
    <3>1. ~(RowOf(nonce_used) /\ call[0].kind = "answer")
      BY DEF RowOf, NoRace, Window!Nothing
    <3>2. QED
      BY <2>1, <3>1 DEF WindowRunInv, InJudge
  <2>3. QED
    BY <1>1, <2>2 DEF InJudge
<1>13. QED
  BY <1>4, <1>5, <1>6, <1>8, <1>9, <1>10, <1>11, <1>12 DEF WindowRunInv

LEMMA HelloKeeps ==
  ASSUME WindowParameters, WindowRunInv, NEW c \in {0, 1}, Window!ServeHello(c), ClientWaits
  PROVE  WindowRunInv'
<1> DEFINE a == IF Window!Room(1) THEN [kind |-> "answer"] ELSE Window!Stuck
<1>1. /\ call[c].kind = "hello" /\ Window!Output(1) /\ call' = [call EXCEPT ![c] = a]
      /\ UNCHANGED <<session_last_seq, session_checkpoints>> /\ nonce_used' = nonce_used
  BY DEF Window!ServeHello, Window!AnswerAfter, Window!session
<1>2. pipe' \in 0..PipeCapacity
  BY <1>1, PipeHolds DEF WindowRunInv
<1>3. a \in {[kind |-> "answer"], Window!Stuck}
  OBVIOUS
<1>4. a.kind \in {"answer", "stuck"} /\ "ok" \notin DOMAIN a
  BY <1>3 DEF Window!Stuck
<1> HIDE DEF a
<1>5. call'[c] = a
  BY <1>1 DEF WindowRunInv, WindowTypes
<1>6. pc' = pc
  BY DEF ClientWaits
<1>7. pc \notin {"recover", "resubmit"}
  BY <1>1 DEF WindowRunInv, InRecover, InResubmit, RowOf, NoRace, RecoveryAnswered,
       Window!Nothing, Window!Stuck, Window!Recovery
<1>8. InRecover' /\ InResubmit'
  BY <1>6, <1>7 DEF InRecover, InResubmit
<1>9. RaceAnswer(c)' /\ ~Granted(c)'
  BY <1>3, <1>4, <1>5 DEF RaceAnswer, Granted
<1>10. nonce_used' \in BOOLEAN
  BY <1>1 DEF WindowRunInv, WindowTypes
<1>11. Answers(c, a)
  BY <1>1, <1>2, <1>4, <1>8, <1>9, <1>10 DEF Answers
<1>12. QED
  BY <1>11, AnswerKeeps

\* A recovery request is the ticket of TICKET_INTERVAL's, unless the row has failed.
LEMMA RequestIsTicket ==
  ASSUME WindowParameters, WindowRunInv, NEW c \in {0, 1}, call[c].kind = "recovery"
  PROVE  /\ pc \in {"recover", "resubmit", "race", "judge"}
         /\ pc \in {"recover", "resubmit"} => c = 0
         /\ pc # "judge" =>
              /\ call[c].ticket = saved_ticket /\ saved_ticket.last_seq = TicketInterval
              /\ HasTicket /\ session_last_seq = Target
              /\ Window!Refusal(call[c].ticket) =
                   IF TicketInterval < Floor THEN "rollback"
                   ELSE IF nonce_used THEN "replay" ELSE "none"
<1>1. pc \in {"recover", "resubmit", "race", "judge"}
  <2>1. pc \notin {"row", "end"}
    BY DEF WindowRunInv, WindowTypes, Window!Nothing
  <2>2. pc # "hello"
    BY DEF WindowRunInv, InHello, NoRace, Window!Nothing
  <2>3. pc # "data"
    BY DEF WindowRunInv, InData, NoRace, Window!Nothing, Window!Stuck, Window!Data
  <2>4. QED
    BY <2>1, <2>2, <2>3 DEF WindowRunInv, WindowTypes
<1>2. pc \in {"recover", "resubmit"} => c = 0
  <2>1. call[1].kind = "nothing" => c = 0
    OBVIOUS
  <2>2. pc \in {"recover", "resubmit"} => NoRace
    BY DEF WindowRunInv, InRecover, InResubmit, RowOf
  <2>3. NoRace => call[1].kind = "nothing"
    BY DEF NoRace, Window!Nothing
  <2>4. QED
    BY <2>1, <2>2, <2>3
<1>3. ASSUME pc # "judge"
      PROVE  call[c] = Window!Recovery(saved_ticket) /\ HasTicket /\ session_last_seq = Target
  <2>1. CASE pc = "recover"
    BY <1>2, <2>1 DEF WindowRunInv, InRecover, RecoveryAnswered, Window!Stuck
  <2>2. CASE pc = "resubmit"
    BY <1>2, <2>2 DEF WindowRunInv, InResubmit, RowOf, RecoveryAnswered, Window!Stuck
  <2>3. CASE pc = "race"
    BY <2>3 DEF WindowRunInv, InRace, Racing, RecoveryAnswered, Window!Stuck, Window!Hello
  <2>4. QED
    BY <1>1, <1>3, <2>1, <2>2, <2>3
<1>4. ASSUME pc # "judge"
      PROVE  call[c].ticket = saved_ticket /\ saved_ticket.last_seq = TicketInterval
  BY <1>3, <1>4 DEF HasTicket, Window!Recovery
<1>5. ASSUME pc # "judge"
      PROVE  Window!Refusal(call[c].ticket) =
               IF TicketInterval < Floor THEN "rollback"
               ELSE IF nonce_used THEN "replay" ELSE "none"
  BY <1>3, <1>4, <1>5, RefusalOfTicket DEF WindowRunInv
<1>6. QED
  BY <1>1, <1>2, <1>3, <1>4, <1>5

LEMMA RefuseKeeps ==
  ASSUME WindowParameters, WindowRunInv, NEW c \in {0, 1}, Window!RefuseRecovery(c), ClientWaits
  PROVE  WindowRunInv'
<1> DEFINE refusal == Window!Refusal(call[c].ticket)
           answer == Window!RecoveryAnswer(FALSE, refusal, call[c].ticket)
           a == IF Window!Room(1) THEN answer ELSE Window!Stuck
<1>1. /\ call[c].kind = "recovery" /\ refusal # "none"
      /\ Window!Output(1) /\ call' = [call EXCEPT ![c] = a]
      /\ UNCHANGED <<session_last_seq, session_checkpoints>> /\ nonce_used' = nonce_used
  BY DEF Window!RefuseRecovery, Window!AnswerAfter, Window!session
<1>2. pipe' \in 0..PipeCapacity
  BY <1>1, PipeHolds DEF WindowRunInv
<1>3. a.kind \in {"answer", "stuck"} /\ (a = Window!Stuck \/ a = answer)
  BY DEF Window!Stuck, Window!RecoveryAnswer
<1>4. ~("ok" \in DOMAIN a /\ a.ok)
  BY <1>3 DEF Window!Stuck, Window!RecoveryAnswer
<1>5. pc # "judge" =>
        /\ answer = [kind |-> "answer", ok |-> FALSE, reason |-> refusal,
                     server_last_seq |-> Target, recovery_floor |-> Floor,
                     ticket_last_seq |-> TicketInterval]
        /\ refusal = IF TicketInterval < Floor THEN "rollback"
                     ELSE IF nonce_used THEN "replay" ELSE "none"
        /\ HasTicket /\ session_last_seq = Target
  BY <1>1, RequestIsTicket DEF Window!RecoveryAnswer, Floor
<1>6. /\ pc \in {"recover", "resubmit", "race", "judge"}
      /\ pc \in {"recover", "resubmit"} => c = 0
  BY <1>1, RequestIsTicket
<1> HIDE DEF answer, a, refusal
<1>7. call'[c] = a
  BY <1>1 DEF WindowRunInv, WindowTypes
<1>8. /\ pc' = pc /\ row' = row /\ scenario' = scenario /\ interval' = interval
      /\ saved_ticket' = saved_ticket /\ results' = results
  BY DEF ClientWaits, Window!config
<1>9. Target' = Target /\ Floor' = Floor /\ (HasTicket' <=> HasTicket)
  BY <1>1, <1>8 DEF Target, Window!Plan, Window!run_old_ticket_within_window, Floor,
       Window!RecoveryFloor, HasTicket
<1>10. c = 0 => (NoRace' <=> NoRace)
  BY <1>1, <1>8 DEF NoRace
<1>11. pc # "judge" =>
         \/ call'[c] = Window!Stuck
         \/ call'[c] = [kind |-> "answer", ok |-> FALSE, reason |-> refusal,
                        server_last_seq |-> Target', recovery_floor |-> Floor',
                        ticket_last_seq |-> TicketInterval]
  BY <1>3, <1>5, <1>7, <1>9
<1>12. InRecover'
  <2>1. SUFFICES ASSUME pc = "recover" PROVE InRecover'
    BY <1>8 DEF InRecover
  <2>2. /\ NoRace /\ HasTicket /\ session_last_seq = Target /\ scenario # "nonce_race"
        /\ row = [Window!ErrorRow EXCEPT !.server_last_seq_before = Target]
        /\ ~nonce_used
    <3>1. c = 0
      BY <1>6, <2>1
    <3>2. QED
      BY <1>1, <2>1, <3>1 DEF WindowRunInv, InRecover, RecoveryAnswered, Window!Stuck
  <2>3. refusal = "rollback" /\ TicketInterval < Floor
    BY <1>1, <1>5, <2>1, <2>2
  <2>4. QED
    BY <1>1, <1>6, <1>8, <1>9, <1>10, <1>11, <2>1, <2>2, <2>3
       DEF InRecover, RecoveryAnswered
<1>13. InResubmit'
  <2>1. SUFFICES ASSUME pc = "resubmit" PROVE InResubmit'
    BY <1>8 DEF InResubmit
  <2>2. RowOf(FALSE)
    BY <2>1 DEF WindowRunInv, InResubmit
  <2>3. refusal = IF nonce_used THEN "replay" ELSE "rollback"
    <3>1. TicketInterval \in Nat /\ Floor \in Nat
      BY FloorIsLast DEF WindowRunInv, RowCheckpoints, WindowParameters, Window!WindowAssumption
    <3>2. QED
      BY <1>5, <2>1, <2>2, <3>1 DEF RowOf
  <2>4. RowOf(FALSE)'
    BY <1>1, <1>6, <1>8, <1>9, <1>10, <2>1, <2>2 DEF RowOf
  <2>5. QED
    BY <1>1, <1>6, <1>8, <1>11, <2>1, <2>3, <2>4 DEF InResubmit, RecoveryAnswered
<1>14. ASSUME pc = "race" PROVE RaceAnswer(c)' /\ ~Granted(c)'
  <2>1. ~(TicketInterval < Floor)
    <3>1. Target = TicketInterval
      BY <1>14, Scenario DEF WindowRunInv, WindowTypes, InRace
    <3>2. Floor \in 0..TicketInterval /\ TicketInterval \in Nat
      BY <1>5, <1>14, <3>1, FloorIsLast DEF WindowRunInv, WindowParameters, Window!WindowAssumption
    <3>3. QED
      BY <3>2
  <2>2. refusal = "replay" /\ nonce_used
    BY <1>1, <1>5, <1>14, <2>1
  <2>3. RaceAnswer(c)'
    BY <1>1, <1>11, <1>14, <2>2 DEF RaceAnswer, RecoveryAnswered
  <2>4. ~Granted(c)'
    BY <1>4, <1>7 DEF Granted
  <2>5. QED
    BY <2>3, <2>4
<1>15. nonce_used' \in BOOLEAN
  BY <1>1 DEF WindowRunInv, WindowTypes
<1>16. Answers(c, a)
  BY <1>1, <1>2, <1>3, <1>12, <1>13, <1>14, <1>15 DEF Answers
<1>17. QED
  BY <1>16, AnswerKeeps

LEMMA AcceptKeeps ==
  ASSUME WindowParameters, WindowRunInv, NEW c \in {0, 1}, Window!AcceptRecovery(c), ClientWaits
  PROVE  WindowRunInv'
<1> DEFINE answer == Window!RecoveryAnswer(TRUE, "ok", call[c].ticket)
           a == IF Window!Room(3) THEN answer ELSE Window!Stuck
<1>1. /\ call[c].kind = "recovery" /\ Window!Refusal(call[c].ticket) = "none"
      /\ Window!Output(3) /\ call' = [call EXCEPT ![c] = a]
      /\ UNCHANGED <<session_last_seq, session_checkpoints>>
      /\ nonce_used' = (nonce_used \/ Window!Room(2))
  BY DEF Window!AcceptRecovery, Window!AnswerAfter, Window!session
<1>2. pipe' \in 0..PipeCapacity
  BY <1>1, PipeHolds DEF WindowRunInv
<1>3. a.kind \in {"answer", "stuck"} /\ (a = Window!Stuck \/ (a = answer /\ nonce_used'))
  <2>1. Window!Room(3) => Window!Room(2)
    BY DEF Window!Room, WindowRunInv, WindowTypes, WindowParameters, Window!WindowAssumption
  <2>2. QED
    BY <1>1, <2>1 DEF Window!Stuck, Window!RecoveryAnswer
<1>4. pc # "judge" =>
        /\ answer = [kind |-> "answer", ok |-> TRUE, reason |-> "ok",
                     server_last_seq |-> Target, recovery_floor |-> Floor,
                     ticket_last_seq |-> TicketInterval]
        /\ ~(TicketInterval < Floor) /\ ~nonce_used
        /\ HasTicket /\ session_last_seq = Target
  BY <1>1, RequestIsTicket DEF Window!RecoveryAnswer, Floor
<1>5. /\ pc \in {"recover", "resubmit", "race", "judge"}
      /\ pc \in {"recover", "resubmit"} => c = 0
  BY <1>1, RequestIsTicket
<1> HIDE DEF answer, a
<1>6. call'[c] = a
  BY <1>1 DEF WindowRunInv, WindowTypes
<1>7. /\ pc' = pc /\ row' = row /\ scenario' = scenario /\ interval' = interval
      /\ saved_ticket' = saved_ticket /\ results' = results
  BY DEF ClientWaits, Window!config
<1>8. Target' = Target /\ Floor' = Floor /\ (HasTicket' <=> HasTicket)
  BY <1>1, <1>7 DEF Target, Window!Plan, Window!run_old_ticket_within_window, Floor,
       Window!RecoveryFloor, HasTicket
<1>9. c = 0 => (NoRace' <=> NoRace)
  BY <1>1, <1>7 DEF NoRace
<1>10. pc # "judge" =>
         call'[c] = Window!Stuck \/ (RecoveryAnswered(c, TRUE, "ok")' /\ nonce_used')
  BY <1>3, <1>4, <1>6, <1>8 DEF RecoveryAnswered
<1>11. TicketInterval \in Nat /\ Floor \in Nat
  BY FloorIsLast DEF WindowRunInv, RowCheckpoints, WindowParameters, Window!WindowAssumption
<1>12. InRecover'
  <2>1. SUFFICES ASSUME pc = "recover" PROVE InRecover'
    BY <1>7 DEF InRecover
  <2>2. /\ NoRace /\ HasTicket /\ session_last_seq = Target /\ scenario # "nonce_race"
        /\ row = [Window!ErrorRow EXCEPT !.server_last_seq_before = Target]
    BY <2>1 DEF WindowRunInv, InRecover
  <2>3. TicketInterval >= Floor
    BY <1>4, <1>11, <2>1
  <2>4. QED
    BY <1>1, <1>5, <1>7, <1>8, <1>9, <1>10, <2>1, <2>2, <2>3 DEF InRecover
<1>13. pc # "resubmit"
  <2>1. SUFFICES ASSUME pc = "resubmit" PROVE FALSE
    OBVIOUS
  <2>2. RowOf(FALSE)
    BY <2>1 DEF WindowRunInv, InResubmit
  <2>3. QED
    BY <1>4, <1>11, <2>1, <2>2 DEF RowOf
<1>14. InResubmit'
  BY <1>7, <1>13 DEF InResubmit
<1>15. pc = "race" => RaceAnswer(c)' /\ ~nonce_used
  BY <1>4, <1>10 DEF RaceAnswer, Window!Stuck
<1>16. nonce_used' \in BOOLEAN /\ (nonce_used => nonce_used')
  BY <1>1 DEF WindowRunInv, WindowTypes
<1>17. Answers(c, a)
  BY <1>1, <1>2, <1>3, <1>5, <1>12, <1>14, <1>15, <1>16 DEF Answers
<1>18. QED
  BY <1>17, AnswerKeeps
\* A DATA packet: what it adds to the checkpoints.
LEMMA DataStores ==
  ASSUME WindowParameters, WindowRunInv, NEW c \in {0, 1}, Window!ServeData(c)
  PROVE  /\ c = 0 /\ pc \in {"data", "judge"} /\ call[0].kind = "data"
         /\ call[0].seq = session_last_seq + 1 /\ session_last_seq' = call[0].seq
         /\ session_last_seq < Target /\ nonce_used' = nonce_used
         /\ \/ /\ session_checkpoints' = session_checkpoints
               /\ call[0].seq % interval # 0
               /\ call[0].seq % TicketInterval = 0 => session_checkpoints # <<>>
            \/ /\ session_checkpoints' = Append(session_checkpoints, call[0].seq)
               /\ call[0].seq % interval = 0 \/ call[0].seq = TicketInterval
<1>1. /\ c = 0 /\ pc \in {"data", "judge"} /\ call[0].kind = "data"
      /\ call[0].seq = session_last_seq + 1 /\ session_last_seq < Target
  BY DEF WindowRunInv, DataInOrder, Window!ServeData
<1> DEFINE n == call[0].seq
<1>2. /\ session_last_seq' = n /\ nonce_used' = nonce_used
      /\ session_checkpoints' =
           IF n % interval = 0 \/ (n % TicketInterval = 0 /\ session_checkpoints = <<>>)
           THEN Append(session_checkpoints, n) ELSE session_checkpoints
  BY <1>1 DEF Window!ServeData
<1>3. (n % TicketInterval = 0 /\ session_checkpoints = <<>>) => n = TicketInterval
  <2>1. TicketInterval \in Nat \ {0} /\ session_last_seq \in Nat
    BY DEF WindowParameters, Window!WindowAssumption, WindowRunInv, RowCheckpoints
  <2>2. SUFFICES ASSUME n % TicketInterval = 0, session_checkpoints = <<>>
                 PROVE  n = TicketInterval
    OBVIOUS
  <2>3. session_last_seq < TicketInterval
    BY <2>1, <2>2 DEF WindowRunInv, RowCheckpoints
  <2>4. n \in Nat \ {0} /\ n = session_last_seq + 1
    BY <1>1, <2>1
  <2> HIDE DEF n
  <2>5. n >= TicketInterval
    BY <2>1, <2>2, <2>4, FirstDue
  <2>6. QED
    BY <2>1, <2>3, <2>4, <2>5
<1>4. QED
  BY <1>1, <1>2, <1>3

LEMMA DataKeepsCheckpoints ==
  ASSUME WindowParameters, WindowRunInv, NEW c \in {0, 1}, Window!ServeData(c),
         interval' = interval
  PROVE  /\ RowCheckpoints'
         /\ \A i \in 1..Len(session_checkpoints) :
              /\ i \in 1..Len(session_checkpoints')
              /\ session_checkpoints'[i] = session_checkpoints[i]
<1> DEFINE n == session_last_seq + 1
           k == Len(session_checkpoints)
<1>1. /\ session_last_seq' = n
      /\ \/ /\ session_checkpoints' = session_checkpoints
            /\ n % interval # 0 /\ (n % TicketInterval = 0 => session_checkpoints # <<>>)
         \/ /\ session_checkpoints' = Append(session_checkpoints, n)
            /\ (n % interval = 0 \/ n = TicketInterval)
  <2>1. call[0].seq = n
    BY DataStores
  <2>2. /\ session_last_seq' = call[0].seq
        /\ \/ /\ session_checkpoints' = session_checkpoints
              /\ call[0].seq % interval # 0
              /\ call[0].seq % TicketInterval = 0 => session_checkpoints # <<>>
           \/ /\ session_checkpoints' = Append(session_checkpoints, call[0].seq)
              /\ call[0].seq % interval = 0 \/ call[0].seq = TicketInterval
    BY DataStores
  <2> HIDE DEF n
  <2>3. QED
    BY <2>1, <2>2, Zenon
<1>2. /\ session_last_seq \in Nat /\ session_checkpoints \in Seq(Nat) /\ k \in Nat
      /\ TicketInterval \in Nat /\ TicketInterval > 1 /\ interval \in Nat \ {0}
  BY DEF WindowParameters, Window!WindowAssumption, WindowRunInv, WindowTypes, RowCheckpoints
<1>3. RowCheckpoints
  BY DEF WindowRunInv
<1>4. n \in Nat /\ n > session_last_seq
  BY <1>2
<1>5. CASE /\ session_checkpoints' = session_checkpoints
           /\ n % interval # 0 /\ (n % TicketInterval = 0 => session_checkpoints # <<>>)
  <2>1. n >= TicketInterval => session_checkpoints # <<>>
    <3>1. n = TicketInterval => n % TicketInterval = 0
      BY <1>2
    <3>2. n > TicketInterval => session_last_seq >= TicketInterval
      BY <1>2
    <3>3. n >= TicketInterval => n = TicketInterval \/ n > TicketInterval
      BY <1>2
    <3>4. QED
      BY <1>3, <1>5, <3>1, <3>2, <3>3 DEF RowCheckpoints
  <2>2. \A m \in 1..n : m % interval = 0 =>
          \E i \in 1..k : session_checkpoints[i] = m
    <3>1. SUFFICES ASSUME NEW m \in 1..n, m % interval = 0
                   PROVE  \E i \in 1..k : session_checkpoints[i] = m
      OBVIOUS
    <3>2. m # n
      BY <1>5, <3>1
    <3>3. m \in 1..session_last_seq
      BY <1>2, <3>2
    <3>4. QED
      BY <1>3, <3>1, <3>3 DEF RowCheckpoints
  <2>3. \A i \in 1..k : session_checkpoints[i] \in 1..n
    BY <1>2, <1>3 DEF RowCheckpoints
  <2> HIDE DEF n
  <2>4. QED
    BY <1>1, <1>3, <1>4, <1>5, <2>1, <2>2, <2>3 DEF RowCheckpoints
<1>6. CASE /\ session_checkpoints' = Append(session_checkpoints, n)
           /\ (n % interval = 0 \/ n = TicketInterval)
  <2> HIDE DEF n
  <2>1. /\ Len(session_checkpoints') = k + 1 /\ session_checkpoints' \in Seq(Nat)
        /\ \A i \in 1..k : session_checkpoints'[i] = session_checkpoints[i]
        /\ session_checkpoints'[k + 1] = n
        /\ session_checkpoints' # <<>>
    BY <1>2, <1>4, <1>6
  <2>2. \A i \in 1..(k + 1) : i \in 1..k \/ i = k + 1
    BY <1>2
  <2>3. \A i \in 1..k : i \in 1..(k + 1)
    BY <1>2
  <2>4. \A i \in 1..k : session_checkpoints[i] \in 1..session_last_seq
    BY <1>3 DEF RowCheckpoints
  <2>5. \A i \in 1..(k + 1) :
          /\ session_checkpoints'[i] \in 1..n
          /\ session_checkpoints'[i] % interval = 0 \/ session_checkpoints'[i] = TicketInterval
    <3>1. ASSUME NEW i \in 1..k
          PROVE  /\ session_checkpoints'[i] \in 1..n
                 /\ session_checkpoints'[i] % interval = 0
                      \/ session_checkpoints'[i] = TicketInterval
      <4>1. session_checkpoints[i] \in 1..n
        BY <1>2, <1>4, <2>4
      <4>2. QED
        BY <1>3, <2>1, <4>1 DEF RowCheckpoints
    <3>2. n \in 1..n
      BY <1>2, <1>4
    <3>3. QED
      BY <1>6, <2>1, <2>2, <3>1, <3>2
  <2>6. ASSUME NEW i \in 1..(k + 1), NEW j \in 1..(k + 1), i < j
        PROVE  session_checkpoints'[i] < session_checkpoints'[j]
    <3>1. i \in 1..k
      BY <1>2, <2>6
    <3>2. CASE j = k + 1
      <4>1. session_checkpoints[i] <= session_last_seq /\ session_checkpoints[i] \in Nat
        BY <1>2, <2>4, <3>1
      <4>2. session_checkpoints[i] < n
        BY <1>2, <1>4, <4>1
      <4>3. QED
        BY <2>1, <3>1, <3>2, <4>2
    <3>3. CASE j \in 1..k
      BY <1>3, <2>1, <2>6, <3>1, <3>3 DEF RowCheckpoints
    <3>4. QED
      BY <2>2, <3>2, <3>3
  <2>7. ASSUME NEW m \in 1..n, m % interval = 0
        PROVE  \E i \in 1..(k + 1) : session_checkpoints'[i] = m
    <3>1. CASE m = n
      BY <1>2, <2>1, <3>1
    <3>2. CASE m # n
      <4>1. m \in 1..session_last_seq
        BY <1>2, <3>2 DEF n
      <4>2. PICK i \in 1..k : session_checkpoints[i] = m
        BY <1>3, <2>7, <4>1 DEF RowCheckpoints
      <4>3. QED
        BY <2>1, <2>3, <4>2
    <3>3. QED
      BY <3>1, <3>2
  <2>8. RowCheckpoints'
    BY <1>1, <1>4, <2>1, <2>5, <2>6, <2>7 DEF RowCheckpoints
  <2>9. QED
    BY <2>1, <2>3, <2>8
<1>7. QED
  BY <1>1, <1>5, <1>6

LEMMA DataKeeps ==
  ASSUME WindowParameters, WindowRunInv, NEW c \in {0, 1}, Window!ServeData(c), ClientWaits
  PROVE  WindowRunInv'
<1> DEFINE n == call[0].seq
<1>1. /\ c = 0 /\ pc \in {"data", "judge"} /\ call[0].kind = "data" /\ n \in Nat
      /\ n = session_last_seq + 1 /\ session_last_seq' = n /\ session_last_seq < Target
      /\ nonce_used' = nonce_used
  BY DataStores DEF WindowRunInv, RowCheckpoints
<1>2. /\ pc' = pc /\ count' = count /\ scenario' = scenario /\ interval' = interval
      /\ seq' = seq /\ saved_ticket' = saved_ticket /\ row' = row /\ invalid' = invalid
      /\ results' = results
  BY DEF ClientWaits, Window!config
<1>3. /\ RowCheckpoints'
      /\ \A i \in 1..Len(session_checkpoints) :
           /\ i \in 1..Len(session_checkpoints')
           /\ session_checkpoints'[i] = session_checkpoints[i]
  BY <1>2, DataKeepsCheckpoints
<1>4. PICK lines, a :
        /\ lines \in {0, 1, 2, 3} /\ Window!Output(lines)
        /\ a.kind = "answer" /\ a.last_seq = n
        /\ n % TicketInterval = 0 =>
             a.memory_ticket =
               [last_seq |-> n, checkpoint_seq |-> Window!Last(session_checkpoints')]
        /\ call' = [call EXCEPT ![0] = IF Window!Room(lines) THEN a ELSE Window!Stuck]
  <2> DEFINE due == n % interval = 0
             ticketDue == due \/ n % TicketInterval = 0
             created == due \/ (ticketDue /\ session_checkpoints = <<>>)
             stored == IF created THEN Append(session_checkpoints, n) ELSE session_checkpoints
             lines == (IF created THEN 1 ELSE 0) + (IF ticketDue THEN 1 ELSE 0)
                        + (IF due THEN 1 ELSE 0)
             answer == [kind |-> "answer", last_seq |-> n,
                        memory_ticket |->
                          IF ticketDue
                          THEN [last_seq |-> n, checkpoint_seq |-> Window!Last(stored)]
                          ELSE Window!NoTicket]
  <2>1. /\ session_checkpoints' = stored /\ Window!Output(lines)
        /\ call' = [call EXCEPT ![0] = IF Window!Room(lines) THEN answer ELSE Window!Stuck]
    BY <1>1 DEF Window!ServeData, Window!AnswerAfter
  <2>2. lines \in {0, 1, 2, 3}
    OBVIOUS
  <2>3. /\ answer.kind = "answer" /\ answer.last_seq = n
        /\ n % TicketInterval = 0 =>
             answer.memory_ticket =
               [last_seq |-> n, checkpoint_seq |-> Window!Last(session_checkpoints')]
    BY <2>1
  <2> HIDE DEF lines, answer
  <2>4. QED
    BY <2>1, <2>2, <2>3
<1>5. pipe' \in 0..PipeCapacity
  <2>1. lines \in Nat
    BY <1>4
  <2>2. QED
    BY <1>4, <2>1, PipeHolds DEF WindowRunInv
<1>6. /\ DOMAIN call' = {0, 1} /\ call'[1] = call[1]
      /\ call'[0] = Window!Stuck \/ call'[0] = a
  BY <1>4 DEF WindowRunInv, WindowTypes
<1>7. call'[0].kind \in {"answer", "stuck"}
  BY <1>4, <1>6 DEF Window!Stuck
<1>8. Target' = Target
  BY <1>2 DEF Target, Window!Plan, Window!run_old_ticket_within_window
<1>9. WindowTypes'
  <2>1. Target \in Nat /\ session_last_seq \in Nat
    BY Scenario DEF WindowRunInv, WindowTypes, RowCheckpoints
  <2>2. session_last_seq' <= Target
    BY <1>1, <2>1
  <2> HIDE DEF n
  <2>3. QED
    BY <1>1, <1>2, <1>5, <1>6, <1>8, <2>2 DEF WindowRunInv, WindowTypes
<1>10. DataInOrder'
  BY <1>6, <1>7 DEF WindowRunInv, DataInOrder
<1>11. InHello' /\ InRecover' /\ InResubmit' /\ InRace' /\ OneRaceWinner'
  BY <1>1, <1>2 DEF WindowRunInv, InHello, InRecover, InResubmit, InRace, OneRaceWinner, Won
<1>12. InData'
  <2>1. SUFFICES ASSUME pc = "data" PROVE InData'
    BY <1>2 DEF InData
  <2>2. /\ ~nonce_used /\ NoRace /\ row = Window!ErrorRow /\ seq \in 1..Target
        /\ seq > TicketInterval => HasTicket
        /\ n = seq
    BY <1>1, <2>1 DEF WindowRunInv, InData, Window!Stuck, Window!Data
  <2>3. NoRace'
    BY <1>2, <1>6, <2>2 DEF NoRace
  <2>4. HasTicket => HasTicket'
    <3>1. SUFFICES ASSUME HasTicket PROVE HasTicket'
      OBVIOUS
    <3>2. PICK i \in 1..Len(session_checkpoints) :
            saved_ticket = [last_seq |-> TicketInterval,
                            checkpoint_seq |-> session_checkpoints[i]]
      BY <3>1 DEF HasTicket
    <3>3. session_last_seq' >= TicketInterval
      <4>1. session_last_seq >= TicketInterval /\ session_last_seq \in Nat
            /\ TicketInterval \in Nat
        BY <3>1 DEF HasTicket, WindowRunInv, RowCheckpoints, WindowParameters,
             Window!WindowAssumption
      <4>2. QED
        BY <1>1, <4>1
    <3>4. QED
      BY <1>2, <1>3, <3>2, <3>3 DEF HasTicket
  <2>5. seq = TicketInterval /\ call'[0] = a =>
          \E i \in 1..Len(session_checkpoints') :
            call'[0].memory_ticket =
              [last_seq |-> TicketInterval, checkpoint_seq |-> session_checkpoints'[i]]
    <3>1. SUFFICES ASSUME seq = TicketInterval, call'[0] = a
                   PROVE  \E i \in 1..Len(session_checkpoints') :
                            call'[0].memory_ticket =
                              [last_seq |-> TicketInterval,
                               checkpoint_seq |-> session_checkpoints'[i]]
      OBVIOUS
    <3>2. n = TicketInterval /\ n % TicketInterval = 0
      BY <2>2, <3>1 DEF WindowParameters, Window!WindowAssumption
    <3>3. session_checkpoints' # <<>> /\ session_checkpoints' \in Seq(Nat)
      BY <1>1, <1>3, <3>2 DEF RowCheckpoints
    <3>4. /\ Window!Last(session_checkpoints') = session_checkpoints'[Len(session_checkpoints')]
          /\ Len(session_checkpoints') \in 1..Len(session_checkpoints')
      BY <3>3 DEF Window!Last
    <3>5. QED
      BY <1>4, <3>1, <3>2, <3>4
  <2> HIDE DEF n
  <2>6. \/ call'[0] = Window!Stuck
        \/ /\ session_last_seq' = seq /\ call'[0].kind = "answer" /\ call'[0].last_seq = seq
           /\ seq = TicketInterval =>
                \E i \in 1..Len(session_checkpoints') :
                  call'[0].memory_ticket =
                    [last_seq |-> TicketInterval, checkpoint_seq |-> session_checkpoints'[i]]
    BY <1>1, <1>4, <1>6, <2>2, <2>5
  <2>7. QED
    BY <1>1, <1>2, <1>8, <2>2, <2>3, <2>4, <2>6 DEF InData
<1>13. InJudge'
  <2>1. SUFFICES ASSUME pc = "judge", ~row.error PROVE InJudge'
    BY <1>2 DEF InJudge
  <2>2. scenario = "nonce_race"
         /\ (row.race_winner_count = 1 => nonce_used /\ row.ticket_last_seq >= row.recovery_floor)
    BY <1>1, <2>1 DEF WindowRunInv, InJudge
  <2>3. QED
    BY <1>1, <1>2, <2>2 DEF InJudge
<1>14. QED
  BY <1>3, <1>9, <1>10, <1>11, <1>12, <1>13 DEF WindowRunInv

(* The client *)
LEMMA StartKeeps ==
  ASSUME WindowParameters, WindowRunInv, Window!Start
  PROVE  WindowRunInv'
<1>1. /\ pc = "row" /\ count < Rows /\ pc' = "hello" /\ count' = count
      /\ scenario' \in Window!Scenarios /\ interval' \in Intervals
      /\ session_last_seq' = 0 /\ session_checkpoints' = <<>> /\ nonce_used' = FALSE
      /\ row' = Window!ErrorRow /\ results' = [c \in {0, 1} |-> Window!Nothing]
      /\ call' = [call EXCEPT ![0] = Window!Hello]
      /\ invalid' = invalid /\ pipe' = pipe
  BY DEF Window!Start, Window!Conns, Window!Ask, WindowParameters, Window!WindowAssumption
<1>2. /\ DOMAIN call' = {0, 1} /\ call'[0] = Window!Hello /\ call'[1] = Window!Nothing
  BY <1>1 DEF WindowRunInv, WindowTypes
<1>3. TicketInterval \in Nat /\ TicketInterval > 1
  BY DEF WindowParameters, Window!WindowAssumption
<1>4. WindowTypes'
  BY <1>1, <1>2 DEF WindowRunInv, WindowTypes
<1>5. RowCheckpoints'
  <2>1. Len(session_checkpoints') = 0 /\ session_checkpoints' \in Seq(Nat)
    BY <1>1
  <2>2. QED
    BY <1>1, <1>3, <2>1 DEF RowCheckpoints
<1>6. DataInOrder'
  BY <1>2 DEF DataInOrder, Window!Hello, Window!Nothing
<1>7. InHello'
  BY <1>1, <1>2 DEF InHello, NoRace, Window!Hello
<1>8. InData' /\ InRecover' /\ InResubmit' /\ InRace' /\ InJudge'
  BY <1>1 DEF InData, InRecover, InResubmit, InRace, InJudge
<1>9. OneRaceWinner'
  BY <1>1 DEF OneRaceWinner, Won
<1>10. QED
  BY <1>4, <1>5, <1>6, <1>7, <1>8, <1>9 DEF WindowRunInv

LEMMA FirstDataKeeps ==
  ASSUME WindowParameters, WindowRunInv, Window!FirstData
  PROVE  WindowRunInv'
<1>1. /\ pc = "hello" /\ pc' = "data" /\ seq' = 1
      /\ call' = [call EXCEPT ![0] = Window!Data(1)]
      /\ count' = count /\ scenario' = scenario /\ interval' = interval
      /\ saved_ticket' = saved_ticket /\ row' = row /\ invalid' = invalid /\ pipe' = pipe
      /\ session_last_seq' = session_last_seq /\ session_checkpoints' = session_checkpoints
      /\ nonce_used' = nonce_used /\ results' = results
  BY DEF Window!FirstData, Window!Ask, Window!config, Window!session
<1>2. /\ session_last_seq = 0 /\ ~nonce_used /\ NoRace /\ row = Window!ErrorRow
  BY <1>1 DEF WindowRunInv, InHello
<1>3. DOMAIN call' = {0, 1} /\ call'[0] = Window!Data(1) /\ call'[1] = call[1]
  BY <1>1 DEF WindowRunInv, WindowTypes
<1>4. Target' = Target
  BY <1>1 DEF Target, Window!Plan, Window!run_old_ticket_within_window
<1>5. Target \in Nat /\ Target > 0 /\ TicketInterval \in Nat /\ TicketInterval > 1
  <2>1. /\ Target \in Nat /\ Target >= TicketInterval
        /\ TicketInterval \in Nat /\ TicketInterval > 1
    BY Scenario DEF WindowRunInv, WindowTypes, WindowParameters, Window!WindowAssumption
  <2>2. QED
    BY <2>1
<1>6. WindowTypes'
  BY <1>1, <1>2, <1>3, <1>4, <1>5 DEF WindowRunInv, WindowTypes
<1>7. RowCheckpoints'
  BY <1>1 DEF WindowRunInv, RowCheckpoints
<1>8. NoRace'
  BY <1>1, <1>2, <1>3 DEF NoRace
<1>9. DataInOrder'
  <2>1. call'[1].kind # "data"
    BY <1>3 DEF WindowRunInv, DataInOrder
  <2>2. QED
    BY <1>1, <1>2, <1>3, <1>4, <1>5, <2>1 DEF DataInOrder, Window!Data
<1>10. InData'
  BY <1>1, <1>2, <1>3, <1>4, <1>5, <1>8 DEF InData
<1>11. InHello' /\ InRecover' /\ InResubmit' /\ InRace' /\ InJudge'
  BY <1>1 DEF InHello, InRecover, InResubmit, InRace, InJudge
<1>12. OneRaceWinner'
  BY <1>1 DEF WindowRunInv, OneRaceWinner, Won
<1>13. QED
  BY <1>6, <1>7, <1>9, <1>10, <1>11, <1>12 DEF WindowRunInv

\* The ticket kept when the data of phase 1 is answered, and afterwards.
LEMMA KeptIsTicket ==
  ASSUME WindowParameters, WindowRunInv, pc = "data", Window!Answered(0)
  PROVE  /\ session_last_seq = seq /\ call[0].last_seq = seq /\ seq \in 1..Target
         /\ ~nonce_used /\ NoRace /\ row = Window!ErrorRow
         /\ seq >= TicketInterval =>
              \E i \in 1..Len(session_checkpoints) :
                Window!Kept = [last_seq |-> TicketInterval,
                               checkpoint_seq |-> session_checkpoints[i]]
<1>1. /\ session_last_seq = seq /\ call[0].last_seq = seq /\ seq \in 1..Target
      /\ ~nonce_used /\ NoRace /\ row = Window!ErrorRow
      /\ seq > TicketInterval => HasTicket
      /\ seq = TicketInterval =>
           \E i \in 1..Len(session_checkpoints) :
             call[0].memory_ticket =
               [last_seq |-> TicketInterval, checkpoint_seq |-> session_checkpoints[i]]
  BY DEF WindowRunInv, InData, Window!Answered, Window!Stuck, Window!Data
<1>2. TicketInterval \in Nat /\ TicketInterval > 1 /\ Target \in Nat
  BY Scenario DEF WindowRunInv, WindowTypes, WindowParameters, Window!WindowAssumption
<1>3. CASE seq > TicketInterval
  <2>1. Window!Kept = saved_ticket
    BY <1>1, <1>2, <1>3 DEF Window!Kept
  <2>2. QED
    BY <1>1, <1>3, <2>1 DEF HasTicket
<1>4. CASE seq = TicketInterval
  <2>1. PICK i \in 1..Len(session_checkpoints) :
          call[0].memory_ticket =
            [last_seq |-> TicketInterval, checkpoint_seq |-> session_checkpoints[i]]
    BY <1>1, <1>4
  <2>2. call[0].memory_ticket.last_seq # 0
    BY <1>2, <2>1
  <2>3. call[0].memory_ticket # Window!NoTicket
    BY <2>2 DEF Window!NoTicket
  <2>4. Window!Kept = call[0].memory_ticket
    BY <1>2, <1>4, <2>3 DEF Window!Kept
  <2>5. QED
    BY <1>1, <2>1, <2>4
<1>5. QED
  BY <1>1, <1>2, <1>3, <1>4

LEMMA NextDataKeeps ==
  ASSUME WindowParameters, WindowRunInv, Window!NextData
  PROVE  WindowRunInv'
<1>1. /\ pc = "data" /\ Window!Answered(0) /\ seq < Target
      /\ saved_ticket' = Window!Kept /\ seq' = seq + 1
      /\ call' = [call EXCEPT ![0] = Window!Data(seq + 1)]
      /\ pc' = pc /\ count' = count /\ scenario' = scenario /\ interval' = interval
      /\ row' = row /\ invalid' = invalid /\ pipe' = pipe
      /\ session_last_seq' = session_last_seq /\ session_checkpoints' = session_checkpoints
      /\ nonce_used' = nonce_used /\ results' = results
  BY DEF Window!NextData, Window!Ask, Window!config, Window!session, Target
<1>2. /\ session_last_seq = seq /\ call[0].last_seq = seq /\ seq \in 1..Target
      /\ ~nonce_used /\ NoRace /\ row = Window!ErrorRow
      /\ seq >= TicketInterval =>
           \E i \in 1..Len(session_checkpoints) :
             Window!Kept = [last_seq |-> TicketInterval,
                            checkpoint_seq |-> session_checkpoints[i]]
  BY <1>1, KeptIsTicket
<1>3. DOMAIN call' = {0, 1} /\ call'[0] = Window!Data(seq + 1) /\ call'[1] = call[1]
  BY <1>1 DEF WindowRunInv, WindowTypes
<1>4. Target' = Target
  BY <1>1 DEF Target, Window!Plan, Window!run_old_ticket_within_window
<1>5. Target \in Nat /\ TicketInterval \in Nat
  BY Scenario DEF WindowRunInv, WindowTypes, WindowParameters, Window!WindowAssumption
<1>6. WindowTypes'
  BY <1>1, <1>2, <1>3, <1>4, <1>5 DEF WindowRunInv, WindowTypes
<1>7. RowCheckpoints'
  BY <1>1 DEF WindowRunInv, RowCheckpoints
<1>8. NoRace'
  BY <1>1, <1>2, <1>3 DEF NoRace
<1>9. DataInOrder'
  <2>1. call'[1].kind # "data"
    BY <1>3 DEF WindowRunInv, DataInOrder
  <2>2. QED
    BY <1>1, <1>2, <1>3, <1>4, <1>5, <2>1 DEF DataInOrder, Window!Data
<1>10. seq' > TicketInterval => HasTicket'
  <2>1. SUFFICES ASSUME seq' > TicketInterval PROVE HasTicket'
    OBVIOUS
  <2>2. seq >= TicketInterval
    BY <1>1, <1>2, <1>5, <2>1
  <2>3. QED
    BY <1>1, <1>2, <2>2 DEF HasTicket
<1>11. seq' \in 1..Target
  BY <1>1, <1>2, <1>5
<1>12. InData'
  BY <1>1, <1>2, <1>3, <1>4, <1>8, <1>10, <1>11 DEF InData
<1>13. InHello' /\ InRecover' /\ InResubmit' /\ InRace' /\ InJudge'
  BY <1>1 DEF InHello, InRecover, InResubmit, InRace, InJudge
<1>14. OneRaceWinner'
  BY <1>1 DEF WindowRunInv, OneRaceWinner, Won
<1>15. QED
  BY <1>6, <1>7, <1>9, <1>12, <1>13, <1>14 DEF WindowRunInv

LEMMA SendRecoveryKeeps ==
  ASSUME WindowParameters, WindowRunInv, Window!SendRecovery
  PROVE  WindowRunInv'
<1>1. /\ pc = "data" /\ Window!Answered(0) /\ seq = Target /\ scenario # "nonce_race"
      /\ saved_ticket' = Window!Kept /\ pc' = "recover" /\ seq' = seq
      /\ call' = [call EXCEPT ![0] = Window!Recovery(Window!Kept)]
      /\ row' = [row EXCEPT !.server_last_seq_before = call[0].last_seq]
      /\ count' = count /\ scenario' = scenario /\ interval' = interval
      /\ invalid' = invalid /\ pipe' = pipe
      /\ session_last_seq' = session_last_seq /\ session_checkpoints' = session_checkpoints
      /\ nonce_used' = nonce_used /\ results' = results
  BY DEF Window!SendRecovery, Window!Ask, Window!config, Window!session, Target
<1>2. Target \in Nat /\ TicketInterval \in Nat /\ Target >= TicketInterval
  BY Scenario DEF WindowRunInv, WindowTypes, WindowParameters, Window!WindowAssumption
<1>3. /\ session_last_seq = seq /\ call[0].last_seq = seq
      /\ ~nonce_used /\ NoRace /\ row = Window!ErrorRow
      /\ \E i \in 1..Len(session_checkpoints) :
           Window!Kept = [last_seq |-> TicketInterval,
                          checkpoint_seq |-> session_checkpoints[i]]
  BY <1>1, <1>2, KeptIsTicket
<1>4. /\ DOMAIN call' = {0, 1} /\ call'[0] = Window!Recovery(Window!Kept)
      /\ call'[1] = call[1]
  BY <1>1 DEF WindowRunInv, WindowTypes
<1>5. Target' = Target
  BY <1>1 DEF Target, Window!Plan, Window!run_old_ticket_within_window
<1>6. WindowTypes'
  BY <1>1, <1>2, <1>3, <1>4, <1>5 DEF WindowRunInv, WindowTypes
<1>7. RowCheckpoints'
  BY <1>1 DEF WindowRunInv, RowCheckpoints
<1>8. NoRace'
  BY <1>1, <1>3, <1>4 DEF NoRace
<1>9. DataInOrder'
  BY <1>4 DEF WindowRunInv, DataInOrder, Window!Recovery
<1>10. HasTicket'
  BY <1>1, <1>2, <1>3 DEF HasTicket
<1>11. InRecover'
  BY <1>1, <1>3, <1>4, <1>5, <1>8, <1>10 DEF InRecover
<1>12. InHello' /\ InData' /\ InResubmit' /\ InRace' /\ InJudge'
  BY <1>1 DEF InHello, InData, InResubmit, InRace, InJudge
<1>13. OneRaceWinner'
  BY <1>1 DEF WindowRunInv, OneRaceWinner, Won
<1>14. QED
  BY <1>6, <1>7, <1>9, <1>11, <1>12, <1>13 DEF WindowRunInv

LEMMA RecoveredKeeps ==
  ASSUME WindowParameters, WindowRunInv, Window!Recovered
  PROVE  WindowRunInv'
<1> DEFINE ok == call[0].ok
<1>1. /\ pc = "recover" /\ Window!Answered(0)
      /\ row' = [row EXCEPT
           !.server_last_seq_after = call[0].server_last_seq,
           !.recovery_floor = call[0].recovery_floor,
           !.ticket_last_seq = call[0].ticket_last_seq,
           !.auth_ok = TRUE, !.error = FALSE, !.success = ok,
           !.state_unchanged = (row.server_last_seq_before = call[0].server_last_seq)]
      /\ IF ok \in Window!Plan.resubmits
         THEN pc' = "resubmit" /\ call' = [call EXCEPT ![0] = Window!Recovery(saved_ticket)]
         ELSE pc' = "judge" /\ call' = call
      /\ count' = count /\ scenario' = scenario /\ interval' = interval /\ seq' = seq
      /\ saved_ticket' = saved_ticket /\ invalid' = invalid /\ pipe' = pipe
      /\ session_last_seq' = session_last_seq /\ session_checkpoints' = session_checkpoints
      /\ nonce_used' = nonce_used /\ results' = results
  BY DEF Window!Recovered, Window!Ask, Window!config, Window!session
<1>2. /\ NoRace /\ HasTicket /\ session_last_seq = Target /\ scenario # "nonce_race"
      /\ row = [Window!ErrorRow EXCEPT !.server_last_seq_before = Target]
      /\ \/ RecoveryAnswered(0, TRUE, "ok") /\ nonce_used /\ TicketInterval >= Floor
         \/ RecoveryAnswered(0, FALSE, "rollback") /\ ~nonce_used /\ TicketInterval < Floor
  <2>1. call[0].kind = "answer"
    BY <1>1 DEF Window!Answered
  <2>2. call[0] # Window!Stuck /\ call[0] # Window!Recovery(saved_ticket)
    BY <2>1 DEF Window!Stuck, Window!Recovery
  <2>3. InRecover /\ pc = "recover"
    BY <1>1 DEF WindowRunInv
  <2>4. QED
    BY <2>2, <2>3 DEF InRecover
<1>3. /\ call[0].server_last_seq = Target /\ call[0].recovery_floor = Floor
      /\ call[0].ticket_last_seq = TicketInterval /\ ok = nonce_used
      /\ call[0].kind = "answer"
  <2>1. nonce_used \in BOOLEAN
    BY DEF WindowRunInv, WindowTypes
  <2>2. CASE RecoveryAnswered(0, TRUE, "ok") /\ nonce_used
    <3>1. call[0] = [kind |-> "answer", ok |-> TRUE, reason |-> "ok",
                     server_last_seq |-> Target, recovery_floor |-> Floor,
                     ticket_last_seq |-> TicketInterval]
      BY <2>2 DEF RecoveryAnswered
    <3>2. nonce_used = TRUE
      BY <2>1, <2>2
    <3>3. ok = TRUE
      BY <3>1
    <3>4. ok = nonce_used
      BY <3>2, <3>3
    <3>5. /\ call[0].server_last_seq = Target /\ call[0].recovery_floor = Floor
          /\ call[0].ticket_last_seq = TicketInterval /\ call[0].kind = "answer"
      BY <3>1
    <3>6. QED
      BY <3>4, <3>5, Zenon
  <2>3. CASE RecoveryAnswered(0, FALSE, "rollback") /\ ~nonce_used
    <3>1. call[0] = [kind |-> "answer", ok |-> FALSE, reason |-> "rollback",
                     server_last_seq |-> Target, recovery_floor |-> Floor,
                     ticket_last_seq |-> TicketInterval]
      BY <2>3 DEF RecoveryAnswered
    <3>2. nonce_used = FALSE
      BY <2>1, <2>3
    <3>3. ok = FALSE
      BY <3>1
    <3>4. ok = nonce_used
      BY <3>2, <3>3
    <3>5. /\ call[0].server_last_seq = Target /\ call[0].recovery_floor = Floor
          /\ call[0].ticket_last_seq = TicketInterval /\ call[0].kind = "answer"
      BY <3>1
    <3>6. QED
      BY <3>4, <3>5, Zenon
  <2>4. QED
    BY <1>2, <2>2, <2>3
<1>4. Floor \in Nat /\ TicketInterval \in Nat
  BY FloorIsLast DEF WindowRunInv, RowCheckpoints, WindowParameters, Window!WindowAssumption
<1>5. nonce_used <=> TicketInterval >= Floor
  <2>1. ~(TicketInterval >= Floor /\ TicketInterval < Floor)
    BY <1>4
  <2>2. QED
    BY <1>2, <2>1, Zenon
<1>6. row' = [server_last_seq_before |-> Target, server_last_seq_after |-> Target,
              recovery_floor |-> Floor, ticket_last_seq |-> TicketInterval,
              auth_ok |-> TRUE, nonce_consumed |-> FALSE, race_winner_count |-> 0,
              state_unchanged |-> TRUE, success |-> nonce_used, error |-> FALSE]
  <2>1. row.server_last_seq_before = call[0].server_last_seq
    BY <1>2, <1>3 DEF Window!ErrorRow
  <2>2. row' = [row EXCEPT
                  !.server_last_seq_after = Target, !.recovery_floor = Floor,
                  !.ticket_last_seq = TicketInterval, !.auth_ok = TRUE, !.error = FALSE,
                  !.success = nonce_used, !.state_unchanged = TRUE]
    BY <1>1, <1>3, <2>1
  <2>3. row = [server_last_seq_before |-> Target, server_last_seq_after |-> 0,
               recovery_floor |-> 0, ticket_last_seq |-> 0, auth_ok |-> FALSE,
               nonce_consumed |-> FALSE, race_winner_count |-> 0,
               state_unchanged |-> FALSE, success |-> FALSE, error |-> TRUE]
    BY <1>2 DEF Window!ErrorRow
  <2>4. QED
    BY <2>2, <2>3
<1>7. Target' = Target /\ Floor' = Floor /\ (HasTicket' <=> HasTicket)
  BY <1>1 DEF Target, Window!Plan, Window!run_old_ticket_within_window, Floor,
       Window!RecoveryFloor, HasTicket
<1>8. /\ DOMAIN call' = {0, 1} /\ call'[1] = call[1]
      /\ call'[0].kind # "data" /\ call'[1].kind # "data"
  <2>1. call[1].kind # "data" /\ DOMAIN call = {0, 1}
    BY DEF WindowRunInv, DataInOrder, WindowTypes
  <2>2. QED
    BY <1>1, <1>3, <2>1 DEF Window!Recovery
<1>9. NoRace'
  BY <1>1, <1>2, <1>8 DEF NoRace
<1>10. RowOf(FALSE)'
  BY <1>1, <1>2, <1>5, <1>6, <1>7, <1>9 DEF RowOf
<1>11. pc' \in {"resubmit", "judge"}
  BY <1>1
<1> HIDE DEF ok
<1>12. WindowTypes'
  BY <1>1, <1>7, <1>8, <1>11 DEF WindowRunInv, WindowTypes
<1>13. RowCheckpoints'
  BY <1>1 DEF WindowRunInv, RowCheckpoints
<1>14. DataInOrder'
  BY <1>8 DEF DataInOrder
<1>15. InResubmit'
  <2>1. SUFFICES ASSUME pc' = "resubmit" PROVE InResubmit'
    BY DEF InResubmit
  <2>2. call'[0] = Window!Recovery(saved_ticket')
    BY <1>1, <2>1 DEF WindowRunInv, WindowTypes
  <2>3. QED
    BY <1>10, <2>2 DEF InResubmit
<1>16. InJudge'
  <2>1. SUFFICES ASSUME pc' = "judge" PROVE InJudge'
    BY DEF InJudge
  <2>2. ok \notin Window!Plan.resubmits /\ call' = call
    BY <1>1, <2>1
  <2>3. /\ scenario \in Window!Scenarios
        /\ scenario \in {"control", "ack_loss", "old_ticket_within_window"} =>
             Window!Plan.resubmits = {TRUE}
        /\ scenario = "below_floor" => Window!Plan.resubmits = {TRUE, FALSE}
    BY Scenario DEF WindowRunInv, WindowTypes
  <2>4. ok = FALSE /\ ~nonce_used
    <3>1. nonce_used \in BOOLEAN
      BY DEF WindowRunInv, WindowTypes
    <3>2. ok \in BOOLEAN
      BY <1>3, <3>1
    <3>3. TRUE \in Window!Plan.resubmits
      BY <1>2, <2>3 DEF Window!Scenarios
    <3>4. QED
      BY <1>3, <2>2, <3>2, <3>3
  <2>5. RowOf(nonce_used)'
    <3>1. nonce_used' = FALSE
      BY <1>1, <2>4
    <3>2. QED
      BY <1>10, <3>1
  <2>6. QED
    BY <1>3, <2>2, <2>5 DEF InJudge
<1>17. InHello' /\ InData' /\ InRecover' /\ InRace'
  BY <1>11 DEF InHello, InData, InRecover, InRace
<1>18. OneRaceWinner'
  BY <1>1 DEF WindowRunInv, OneRaceWinner, Won
<1>19. QED
  BY <1>12, <1>13, <1>14, <1>15, <1>16, <1>17, <1>18 DEF WindowRunInv

LEMMA ResubmittedKeeps ==
  ASSUME WindowParameters, WindowRunInv, Window!Resubmitted
  PROVE  WindowRunInv'
<1>1. /\ pc = "resubmit" /\ Window!Answered(0) /\ pc' = "judge"
      /\ row' = [row EXCEPT !.nonce_consumed = Window!NonceConsumed(call[0])]
      /\ count' = count /\ scenario' = scenario /\ interval' = interval /\ seq' = seq
      /\ saved_ticket' = saved_ticket /\ invalid' = invalid /\ pipe' = pipe
      /\ session_last_seq' = session_last_seq /\ session_checkpoints' = session_checkpoints
      /\ nonce_used' = nonce_used /\ results' = results /\ call' = call
  BY DEF Window!Resubmitted, Window!config, Window!session
<1>2. /\ RowOf(FALSE)
      /\ RecoveryAnswered(0, FALSE, IF nonce_used THEN "replay" ELSE "rollback")
  <2>1. call[0].kind = "answer"
    BY <1>1 DEF Window!Answered
  <2>2. call[0] # Window!Stuck /\ call[0] # Window!Recovery(saved_ticket)
    BY <2>1 DEF Window!Stuck, Window!Recovery
  <2>3. InResubmit /\ pc = "resubmit"
    BY <1>1 DEF WindowRunInv
  <2>4. QED
    BY <2>2, <2>3 DEF InResubmit
<1>3. Window!NonceConsumed(call[0]) = nonce_used
  <2>1. nonce_used \in BOOLEAN
    BY DEF WindowRunInv, WindowTypes
  <2>2. QED
    BY <1>2, <2>1 DEF RecoveryAnswered, Window!NonceConsumed
<1>4. Target' = Target /\ Floor' = Floor /\ (HasTicket' <=> HasTicket) /\ (NoRace' <=> NoRace)
  BY <1>1 DEF Target, Window!Plan, Window!run_old_ticket_within_window, Floor,
       Window!RecoveryFloor, HasTicket, NoRace
<1>5. row' = [server_last_seq_before |-> Target, server_last_seq_after |-> Target,
              recovery_floor |-> Floor, ticket_last_seq |-> TicketInterval,
              auth_ok |-> TRUE, nonce_consumed |-> nonce_used, race_winner_count |-> 0,
              state_unchanged |-> TRUE, success |-> nonce_used, error |-> FALSE]
  BY <1>1, <1>2, <1>3 DEF RowOf
<1>6. RowOf(nonce_used)'
  BY <1>1, <1>2, <1>4, <1>5 DEF RowOf
<1>7. WindowTypes' /\ RowCheckpoints' /\ DataInOrder' /\ OneRaceWinner'
  <2>1. WindowTypes'
    BY <1>1, <1>4 DEF WindowRunInv, WindowTypes
  <2>2. RowCheckpoints' /\ OneRaceWinner'
    BY <1>1 DEF WindowRunInv, RowCheckpoints, OneRaceWinner, Won
  <2>3. call[0].kind # "data"
    BY <1>2 DEF RecoveryAnswered
  <2>4. DataInOrder'
    BY <1>1, <2>3 DEF WindowRunInv, DataInOrder
  <2>5. QED
    BY <2>1, <2>2, <2>4
<1>8. InJudge'
  BY <1>1, <1>2, <1>6 DEF InJudge, RecoveryAnswered
<1>9. InHello' /\ InData' /\ InRecover' /\ InResubmit' /\ InRace'
  BY <1>1 DEF InHello, InData, InRecover, InResubmit, InRace
<1>10. QED
  BY <1>7, <1>8, <1>9 DEF WindowRunInv

(* The race *)
LEMMA StartRaceKeeps ==
  ASSUME WindowParameters, WindowRunInv, Window!StartRace
  PROVE  WindowRunInv'
<1>1. /\ pc = "data" /\ Window!Answered(0) /\ seq = Target /\ scenario = "nonce_race"
      /\ saved_ticket' = Window!Kept /\ pc' = "race" /\ Window!Output(1)
      /\ call' = [c \in {0, 1} |-> Window!Hello]
      /\ count' = count /\ scenario' = scenario /\ interval' = interval
      /\ row' = row /\ invalid' = invalid
      /\ session_last_seq' = session_last_seq /\ session_checkpoints' = session_checkpoints
      /\ nonce_used' = nonce_used /\ results' = results
  BY DEF Window!StartRace, Window!Conns, Window!config, Window!session, Target
<1>2. Target \in Nat /\ TicketInterval \in Nat /\ Target >= TicketInterval
  BY Scenario DEF WindowRunInv, WindowTypes, WindowParameters, Window!WindowAssumption
<1>3. /\ session_last_seq = seq /\ NoRace /\ row = Window!ErrorRow
      /\ \E i \in 1..Len(session_checkpoints) :
           Window!Kept = [last_seq |-> TicketInterval,
                          checkpoint_seq |-> session_checkpoints[i]]
  BY <1>1, <1>2, KeptIsTicket
<1>4. pipe' \in 0..PipeCapacity
  BY <1>1, PipeHolds DEF WindowRunInv
<1>5. Target' = Target
  BY <1>1 DEF Target, Window!Plan, Window!run_old_ticket_within_window
<1>6. WindowTypes'
  BY <1>1, <1>2, <1>3, <1>4, <1>5 DEF WindowRunInv, WindowTypes
<1>7. RowCheckpoints'
  BY <1>1 DEF WindowRunInv, RowCheckpoints
<1>8. DataInOrder'
  BY <1>1 DEF DataInOrder, Window!Hello
<1>9. HasTicket'
  BY <1>1, <1>2, <1>3 DEF HasTicket
<1>10. \A c \in {0, 1} : call'[c] = Window!Hello /\ results'[c] = Window!Nothing /\ ~Granted(c)'
  BY <1>1, <1>3 DEF NoRace, Granted, Window!Hello
<1>11. InRace'
  BY <1>1, <1>3, <1>5, <1>9, <1>10 DEF InRace, Racing
<1>12. InHello' /\ InData' /\ InRecover' /\ InResubmit' /\ InJudge'
  BY <1>1 DEF InHello, InData, InRecover, InResubmit, InJudge
<1>13. OneRaceWinner'
  BY <1>1 DEF WindowRunInv, OneRaceWinner, Won
<1>14. QED
  BY <1>6, <1>7, <1>8, <1>11, <1>12, <1>13 DEF WindowRunInv

LEMMA WonIsGranted ==
  ASSUME NEW c \in {0, 1}, Racing(c), Won(c)
  PROVE  Granted(c) /\ results[c].response = call[c] /\ results[c].ok = call[c].ok
<1>1. results[c] # [kind |-> "result", ok |-> FALSE, auth |-> FALSE,
                    response |-> Window!Nothing]
  BY DEF Won
<1>2. /\ results[c] = [kind |-> "result", ok |-> call[c].ok, auth |-> TRUE,
                       response |-> call[c]]
      /\ call[c].kind = "answer" /\ "ok" \in DOMAIN call[c]
  BY <1>1 DEF Racing, Won
<1>3. results[c].ok = call[c].ok /\ results[c].response = call[c]
  BY <1>2
<1>4. QED
  BY <1>2, <1>3 DEF Granted, Won

\* A step of one worker.
WorkerSteps(c) ==
  /\ pc = "race" /\ UNCHANGED <<pc, count, Window!config, seq, saved_ticket, row, invalid,
                                Window!session, pipe>>
  /\ DOMAIN call' = {0, 1} /\ DOMAIN results' = {0, 1}
  /\ \A d \in {0, 1} : d # c => call'[d] = call[d] /\ results'[d] = results[d]
  /\ call'[c].kind # "data" /\ Racing(c)' /\ (Granted(c)' => Granted(c))

LEMMA WorkerKeeps ==
  ASSUME WindowParameters, WindowRunInv, NEW c \in {0, 1}, WorkerSteps(c)
  PROVE  WindowRunInv'
<1>1. /\ pc = "race" /\ pc' = pc /\ count' = count /\ scenario' = scenario
      /\ interval' = interval /\ saved_ticket' = saved_ticket /\ row' = row
      /\ invalid' = invalid /\ pipe' = pipe /\ nonce_used' = nonce_used
      /\ session_last_seq' = session_last_seq /\ session_checkpoints' = session_checkpoints
  BY DEF WorkerSteps, Window!config, Window!session
<1>2. Target' = Target /\ Floor' = Floor /\ (HasTicket' <=> HasTicket)
  BY <1>1 DEF Target, Window!Plan, Window!run_old_ticket_within_window, Floor,
       Window!RecoveryFloor, HasTicket
<1>3. /\ DOMAIN call' = {0, 1} /\ DOMAIN results' = {0, 1}
      /\ \A d \in {0, 1} : d # c => call'[d] = call[d] /\ results'[d] = results[d]
      /\ call'[c].kind # "data" /\ Racing(c)' /\ (Granted(c)' => Granted(c))
  BY DEF WorkerSteps
<1>4. WindowTypes'
  BY <1>1, <1>2, <1>3 DEF WindowRunInv, WindowTypes
<1>5. RowCheckpoints'
  BY <1>1 DEF WindowRunInv, RowCheckpoints
<1>6. DataInOrder'
  <2>1. \A d \in {0, 1} : call'[d].kind # "data"
    <3>1. \A d \in {0, 1} : call[d].kind # "data"
      BY <1>1 DEF WindowRunInv, DataInOrder
    <3>2. QED
      BY <1>3, <3>1
  <2>2. QED
    BY <2>1 DEF DataInOrder
<1>7. \A d \in {0, 1} : Racing(d)'
  <2>1. ASSUME NEW d \in {0, 1}, d # c PROVE Racing(d)'
    <3>1. Racing(d)
      BY <1>1 DEF WindowRunInv, InRace
    <3>2. call'[d] = call[d] /\ results'[d] = results[d]
      BY <1>3, <2>1
    <3>3. \A ok, reason : RecoveryAnswered(d, ok, reason)' <=> RecoveryAnswered(d, ok, reason)
      BY <1>2, <3>2 DEF RecoveryAnswered
    <3>4. QED
      BY <1>1, <3>1, <3>2, <3>3 DEF Racing
  <2>2. QED
    BY <1>3, <2>1
<1>8. \A d, e \in {0, 1} : Granted(d)' /\ Granted(e)' => d = e
  <2>1. \A d \in {0, 1} : Granted(d)' => Granted(d)
    BY <1>3 DEF Granted
  <2>2. \A d, e \in {0, 1} : Granted(d) /\ Granted(e) => d = e
    BY <1>1 DEF WindowRunInv, InRace
  <2>3. QED
    BY <2>1, <2>2
<1>9. InRace'
  <2>1. HasTicket /\ session_last_seq = Target /\ scenario = "nonce_race" /\ row = Window!ErrorRow
    BY <1>1 DEF WindowRunInv, InRace
  <2>2. QED
    BY <1>1, <1>2, <1>7, <1>8, <2>1 DEF InRace
<1>10. OneRaceWinner'
  <2>1. ASSUME NEW d \in {0, 1}, Won(d)' PROVE Granted(d)'
    <3>1. Racing(d)'
      BY <1>7
    <3>2. results'[d] # [kind |-> "result", ok |-> FALSE, auth |-> FALSE,
                         response |-> Window!Nothing]
      BY <2>1 DEF Won
    <3>3. /\ results'[d] = [kind |-> "result", ok |-> call'[d].ok, auth |-> TRUE,
                            response |-> call'[d]]
          /\ call'[d].kind = "answer" /\ "ok" \in DOMAIN call'[d]
      BY <2>1, <3>1, <3>2 DEF Racing, Won
    <3>4. results'[d].ok = call'[d].ok
      BY <3>3
    <3>5. QED
      BY <2>1, <3>3, <3>4 DEF Granted, Won
  <2>2. QED
    BY <1>8, <2>1 DEF OneRaceWinner
<1>11. InHello' /\ InData' /\ InRecover' /\ InResubmit' /\ InJudge'
  BY <1>1 DEF InHello, InData, InRecover, InResubmit, InJudge
<1>12. QED
  BY <1>4, <1>5, <1>6, <1>9, <1>10, <1>11 DEF WindowRunInv

LEMMA RacingWorker ==
  ASSUME WindowParameters, WindowRunInv, NEW c \in {0, 1},
         Window!WorkerHello(c) \/ Window!WorkerEnds(c) \/ Window!WorkerFails(c)
  PROVE  WorkerSteps(c)
<1>1. /\ pc = "race" /\ results[c] = Window!Nothing
      /\ UNCHANGED <<pc, count, Window!config, seq, saved_ticket, row, invalid,
                     Window!session, pipe>>
  BY DEF Window!WorkerHello, Window!WorkerEnds, Window!WorkerFails
<1>2. DOMAIN call = {0, 1} /\ DOMAIN results = {0, 1} /\ Racing(c) /\ call[c].kind # "data"
  BY <1>1 DEF WindowRunInv, WindowTypes, InRace, DataInOrder
<1>3. saved_ticket' = saved_ticket /\ nonce_used' = nonce_used
  BY <1>1 DEF Window!session
<1>4. CASE Window!WorkerHello(c)
  <2>1. call' = [call EXCEPT ![c] = Window!Recovery(saved_ticket)] /\ results' = results
    BY <1>4 DEF Window!WorkerHello, Window!Ask
  <2>2. call'[c] = Window!Recovery(saved_ticket) /\ call'[c].kind = "recovery"
    BY <1>2, <2>1 DEF Window!Recovery
  <2>3. Racing(c)'
    BY <1>1, <1>3, <2>1, <2>2 DEF Racing
  <2>4. ~Granted(c)'
    BY <2>2 DEF Granted
  <2>5. QED
    BY <1>1, <1>2, <2>1, <2>2, <2>3, <2>4 DEF WorkerSteps
<1>5. ASSUME NEW r, results' = [results EXCEPT ![c] = r], call' = call,
             \/ r = [kind |-> "result", ok |-> FALSE, auth |-> FALSE,
                     response |-> Window!Nothing]
             \/ /\ r = [kind |-> "result", ok |-> call[c].ok, auth |-> TRUE,
                        response |-> call[c]]
                /\ call[c].kind = "answer" /\ "ok" \in DOMAIN call[c]
      PROVE  WorkerSteps(c)
  <2>1. results'[c] = r /\ DOMAIN results' = {0, 1}
        /\ \A d \in {0, 1} : d # c => results'[d] = results[d]
    BY <1>2, <1>5
  <2>2. \A ok, reason : RecoveryAnswered(c, ok, reason)' <=> RecoveryAnswered(c, ok, reason)
    BY <1>1, <1>5 DEF RecoveryAnswered, Target, Floor, Window!Plan, Window!RecoveryFloor,
         Window!run_old_ticket_within_window, Window!config, Window!session
  <2>3. Racing(c)'
    BY <1>2, <1>3, <1>5, <2>1, <2>2 DEF Racing
  <2>4. Granted(c)' => Granted(c)
    BY <1>5 DEF Granted
  <2>5. QED
    BY <1>1, <1>2, <1>5, <2>1, <2>3, <2>4 DEF WorkerSteps
<1>6. CASE Window!WorkerEnds(c)
  BY <1>5, <1>6 DEF Window!WorkerEnds, Window!Answered
<1>7. CASE Window!WorkerFails(c)
  BY <1>5, <1>7 DEF Window!WorkerFails
<1>8. QED
  BY <1>4, <1>6, <1>7

LEMMA WinnersCount ==
  ASSUME OneRaceWinner
  PROVE  \/ Window!winners = {} /\ Window!Cardinality(Window!winners) = 0
         \/ \E c \in {0, 1} : /\ Won(c) /\ Window!winners = {c}
                              /\ Window!Cardinality(Window!winners) = 1
<1>1. Window!Cardinality(Window!winners) = Cardinality(Window!winners)
  BY DEF Window!Cardinality, Cardinality
<1>2. Window!winners = {c \in {0, 1} : Won(c)}
  BY DEF Window!winners, Window!Conns, Won
<1>3. CASE Window!winners = {}
  BY <1>1, <1>3, FS_EmptySet
<1>4. CASE Window!winners # {}
  <2>1. PICK c \in {0, 1} : Won(c)
    BY <1>2, <1>4
  <2>2. Window!winners = {c}
    BY <1>2, <2>1 DEF OneRaceWinner
  <2>3. Cardinality({c}) = 1
    BY FS_Singleton
  <2>4. QED
    BY <1>1, <2>1, <2>2, <2>3
<1>5. QED
  BY <1>3, <1>4

\* What the row of a race says of its winner.
LEMMA RaceRowIsTrue ==
  ASSUME WindowParameters, WindowRunInv, pc = "race"
  PROVE  /\ Window!RaceRow.error = FALSE
         /\ Window!RaceRow.race_winner_count = Window!Cardinality(Window!winners)
         /\ Window!RaceRow.race_winner_count = 1 =>
              /\ nonce_used /\ Window!RaceRow.ticket_last_seq >= Window!RaceRow.recovery_floor
<1>1. /\ Window!RaceRow.error = FALSE
      /\ Window!RaceRow.race_winner_count = Window!Cardinality(Window!winners)
  BY DEF Window!RaceRow
<1>2. CASE Window!winners = {} /\ Window!Cardinality(Window!winners) = 0
  BY <1>1, <1>2
<1>3. ASSUME NEW c \in {0, 1}, Won(c), Window!winners = {c}
      PROVE  nonce_used /\ Window!RaceRow.ticket_last_seq >= Window!RaceRow.recovery_floor
  <2>1. Racing(c) /\ scenario = "nonce_race"
    BY DEF WindowRunInv, InRace
  <2>2. Granted(c) /\ results[c].response = call[c]
    BY <1>3, <2>1, WonIsGranted
  <2>3. RecoveryAnswered(c, TRUE, "ok") /\ nonce_used
    BY <2>1, <2>2 DEF Racing, Granted, RecoveryAnswered, Window!Stuck, Window!Hello,
       Window!Recovery
  <2>4. call[c].recovery_floor = Floor /\ call[c].ticket_last_seq = TicketInterval
    BY <2>3 DEF RecoveryAnswered
  <2>5. (CHOOSE d \in Window!winners : TRUE) = c /\ Window!winners # {}
    BY <1>3
  <2>6. /\ Window!RaceRow.recovery_floor = call[c].recovery_floor
        /\ Window!RaceRow.ticket_last_seq = call[c].ticket_last_seq
    BY <2>2, <2>5 DEF Window!RaceRow
  <2>7. Target = TicketInterval /\ session_last_seq = Target /\ TicketInterval \in Nat
    BY Scenario DEF WindowRunInv, WindowTypes, InRace, WindowParameters, Window!WindowAssumption
  <2>8. Floor \in 0..TicketInterval
    BY <2>7, FloorIsLast DEF WindowRunInv
  <2>9. TicketInterval >= Floor
    BY <2>7, <2>8
  <2>10. QED
    BY <2>3, <2>4, <2>6, <2>9
<1>4. QED
  BY <1>1, <1>2, <1>3, WinnersCount DEF WindowRunInv

LEMMA JoinKeeps ==
  ASSUME WindowParameters, WindowRunInv, Window!Join
  PROVE  WindowRunInv'
<1>1. /\ pc = "race" /\ pc' = "judge" /\ (row' = Window!ErrorRow \/ row' = Window!RaceRow)
      /\ count' = count /\ scenario' = scenario /\ interval' = interval
      /\ invalid' = invalid /\ pipe' = pipe /\ nonce_used' = nonce_used
      /\ session_last_seq' = session_last_seq /\ session_checkpoints' = session_checkpoints
      /\ call' = call /\ results' = results
  BY DEF Window!Join, Window!config, Window!session
<1>2. Target' = Target
  BY <1>1 DEF Target, Window!Plan, Window!run_old_ticket_within_window
<1>3. WindowTypes'
  BY <1>1, <1>2 DEF WindowRunInv, WindowTypes
<1>4. RowCheckpoints' /\ OneRaceWinner'
  BY <1>1 DEF WindowRunInv, RowCheckpoints, OneRaceWinner, Won
<1>5. DataInOrder'
  BY <1>1, <1>2 DEF WindowRunInv, DataInOrder
<1>6. InJudge'
  <2>1. SUFFICES ASSUME ~row'.error PROVE InJudge'
    BY DEF InJudge
  <2>2. row' = Window!RaceRow
    BY <1>1, <2>1 DEF Window!ErrorRow
  <2>3. scenario = "nonce_race"
    BY <1>1 DEF WindowRunInv, InRace
  <2>4. row'.race_winner_count = 1 => nonce_used /\ row'.ticket_last_seq >= row'.recovery_floor
    BY <1>1, <2>2, RaceRowIsTrue
  <2>5. QED
    BY <1>1, <2>3, <2>4 DEF InJudge
<1>7. InHello' /\ InData' /\ InRecover' /\ InResubmit' /\ InRace'
  BY <1>1 DEF InHello, InData, InRecover, InResubmit, InRace
<1>8. QED
  BY <1>3, <1>4, <1>5, <1>6, <1>7 DEF WindowRunInv

(* The judgement *)
LEMMA RowFailsKeeps ==
  ASSUME WindowParameters, WindowRunInv, Window!RowFails
  PROVE  WindowRunInv'
<1>1. /\ pc \in {"hello", "data", "recover", "resubmit"} /\ pc' = "judge"
      /\ row' = Window!ErrorRow
      /\ count' = count /\ scenario' = scenario /\ interval' = interval
      /\ invalid' = invalid /\ pipe' = pipe /\ nonce_used' = nonce_used
      /\ session_last_seq' = session_last_seq /\ session_checkpoints' = session_checkpoints
      /\ call' = call /\ results' = results
  BY DEF Window!RowFails, Window!config, Window!session
<1>2. Target' = Target
  BY <1>1 DEF Target, Window!Plan, Window!run_old_ticket_within_window
<1>3. session_last_seq <= Target
  <2>1. Target \in Nat
    BY Scenario DEF WindowRunInv, WindowTypes
  <2>2. pc = "hello" => session_last_seq = 0
    BY DEF WindowRunInv, InHello
  <2>3. QED
    BY <1>1, <2>1, <2>2 DEF WindowRunInv, WindowTypes
<1>4. WindowTypes'
  BY <1>1, <1>2, <1>3 DEF WindowRunInv, WindowTypes
<1>5. RowCheckpoints' /\ OneRaceWinner'
  BY <1>1 DEF WindowRunInv, RowCheckpoints, OneRaceWinner, Won
<1>6. DataInOrder'
  BY <1>1, <1>2 DEF WindowRunInv, DataInOrder
<1>7. InJudge'
  BY <1>1 DEF InJudge, Window!ErrorRow
<1>8. InHello' /\ InData' /\ InRecover' /\ InResubmit' /\ InRace'
  BY <1>1 DEF InHello, InData, InRecover, InResubmit, InRace
<1>9. QED
  BY <1>4, <1>5, <1>6, <1>7, <1>8 DEF WindowRunInv

LEMMA JudgeKeeps ==
  ASSUME WindowParameters, WindowRunInv, Window!Judge
  PROVE  WindowRunInv'
<1> DEFINE W == {c \in {0, 1} : call[c] \notin {Window!Nothing, Window!Stuck}}
<1>1. /\ pc = "judge" /\ pc' \in {"row", "end"}
      /\ invalid' = (invalid \/ Window!Violates(row)) /\ count' = count + 1
      /\ Window!Output(Window!Cardinality(W))
      /\ call' = [c \in {0, 1} |-> Window!Nothing]
      /\ scenario' = scenario /\ interval' = interval /\ nonce_used' = nonce_used
      /\ session_last_seq' = session_last_seq /\ session_checkpoints' = session_checkpoints
      /\ results' = results
  BY DEF Window!Judge, Window!Conns, Window!config, Window!session
<1>2. pipe' \in 0..PipeCapacity
  <2>1. Window!Cardinality(W) = Cardinality(W)
    BY DEF Window!Cardinality, Cardinality
  <2>2. IsFiniteSet(W)
    <3>1. IsFiniteSet({0, 1}) /\ W \subseteq {0, 1}
      <4>1. {0, 1} = 0..1
        OBVIOUS
      <4>2. 0 \in Int /\ 1 \in Int
        OBVIOUS
      <4>3. IsFiniteSet(0..1)
        BY <4>2, FS_Interval
      <4>4. W \subseteq {0, 1}
        OBVIOUS
      <4>5. QED
        BY <4>1, <4>3, <4>4
    <3>2. QED
      BY <3>1, FS_Subset
  <2> HIDE DEF W
  <2>3. Cardinality(W) \in Nat
    BY <2>2, FS_CardinalityType
  <2>4. QED
    BY <1>1, <2>1, <2>3, PipeHolds DEF WindowRunInv
<1>3. WindowTypes'
  <2>1. count \in 0..Rows /\ count < Rows /\ Rows \in Nat
    BY <1>1 DEF WindowRunInv, WindowTypes, WindowParameters, Window!WindowAssumption
  <2>2. count' \in 0..Rows
    BY <1>1, <2>1
  <2>3. invalid' \in BOOLEAN
    <3>1. invalid \in BOOLEAN
      BY DEF WindowRunInv, WindowTypes
    <3>2. (invalid \/ Window!Violates(row)) \in BOOLEAN
      BY <3>1
    <3>3. QED
      BY <1>1, <3>2
  <2> HIDE DEF W
  <2>4. QED
    BY <1>1, <1>2, <2>2, <2>3 DEF WindowRunInv, WindowTypes
<1> HIDE DEF W
<1>4. RowCheckpoints' /\ OneRaceWinner'
  BY <1>1 DEF WindowRunInv, RowCheckpoints, OneRaceWinner, Won
<1>5. DataInOrder'
  BY <1>1 DEF DataInOrder, Window!Nothing
<1>6. InHello' /\ InData' /\ InRecover' /\ InResubmit' /\ InRace' /\ InJudge'
  BY <1>1 DEF InHello, InData, InRecover, InResubmit, InRace, InJudge
<1>7. QED
  BY <1>3, <1>4, <1>5, <1>6 DEF WindowRunInv

LEMMA NothingKeeps ==
  ASSUME WindowRunInv, UNCHANGED Window!vars
  PROVE  WindowRunInv'
<1>1. /\ pc' = pc /\ count' = count /\ scenario' = scenario /\ interval' = interval
      /\ seq' = seq /\ saved_ticket' = saved_ticket /\ row' = row /\ invalid' = invalid
      /\ session_last_seq' = session_last_seq /\ session_checkpoints' = session_checkpoints
      /\ nonce_used' = nonce_used /\ pipe' = pipe /\ call' = call /\ results' = results
  BY DEF Window!vars, Window!config, Window!session
<1>2. Target' = Target /\ Floor' = Floor
  BY <1>1 DEF Target, Window!Plan, Window!run_old_ticket_within_window, Floor,
       Window!RecoveryFloor
<1>3. \A c, ok, reason : RecoveryAnswered(c, ok, reason)' <=> RecoveryAnswered(c, ok, reason)
  BY <1>1, <1>2 DEF RecoveryAnswered
<1>4. (HasTicket' <=> HasTicket) /\ (NoRace' <=> NoRace)
  BY <1>1 DEF HasTicket, NoRace
<1>5. WindowTypes' /\ RowCheckpoints' /\ DataInOrder' /\ InHello' /\ InData' /\ OneRaceWinner'
  BY <1>1, <1>2, <1>4 DEF WindowRunInv, WindowTypes, RowCheckpoints, DataInOrder, InHello,
     InData, OneRaceWinner, Won
<1>6. InRecover'
  BY <1>1, <1>2, <1>3, <1>4 DEF WindowRunInv, InRecover
<1>7. \A b : RowOf(b)' <=> RowOf(b)
  BY <1>1, <1>2, <1>4 DEF RowOf
<1>8. InResubmit' /\ InJudge'
  BY <1>1, <1>3, <1>7 DEF WindowRunInv, InResubmit, InJudge
<1>9. InRace'
  BY <1>1, <1>2, <1>3, <1>4 DEF WindowRunInv, InRace, Racing, Granted
<1>10. QED
  BY <1>5, <1>6, <1>8, <1>9 DEF WindowRunInv

LEMMA WindowInvariance ==
  ASSUME WindowParameters, WindowRunInv, [Window!Next]_Window!vars
  PROVE  WindowRunInv'
<1>1. CASE Window!Client
  <2>1. CASE \E c \in Window!Conns :
               Window!WorkerHello(c) \/ Window!WorkerEnds(c) \/ Window!WorkerFails(c)
    BY <2>1, RacingWorker, WorkerKeeps DEF Window!Conns
  <2>2. QED
    BY <1>1, <2>1, StartKeeps, FirstDataKeeps, NextDataKeeps, SendRecoveryKeeps,
       RecoveredKeeps, ResubmittedKeeps, StartRaceKeeps, JoinKeeps, RowFailsKeeps,
       JudgeKeeps DEF Window!Client
<1>2. CASE Window!Serve
  <2>1. ClientWaits
    BY <1>2 DEF Window!Serve, ClientWaits
  <2>2. QED
    BY <1>2, <2>1, HelloKeeps, DataKeeps, RefuseKeeps, AcceptKeeps
       DEF Window!Serve, Window!Conns
<1>3. CASE UNCHANGED Window!vars
  BY <1>3, NothingKeeps
<1>4. QED
  BY <1>1, <1>2, <1>3 DEF Window!Next, Window!Done

-----------------------------------------------------------------------------
(* The theorems *)

LEMMA WindowAlways ==
  ASSUME WindowParameters
  PROVE  Window!Spec => []WindowRunInv
<1>1. Window!Init => WindowRunInv
  BY WindowInit
<1>2. WindowRunInv /\ [Window!Next]_Window!vars => WindowRunInv'
  BY WindowInvariance
<1>3. QED
  BY <1>1, <1>2, PTL DEF Window!Spec

\* TypeOK: no row sends more than its scenario says, the checkpoints of its session
\* are in order, and no output is lost in the pipe.
THEOREM WindowTypeCorrect ==
  ASSUME WindowParameters
  PROVE  Window!Spec => []Window!TypeOK
<1>1. WindowRunInv => Window!TypeOK
  <2>1. SUFFICES ASSUME WindowRunInv PROVE Window!TypeOK
    OBVIOUS
  <2>2. pc \notin {"row", "hello", "end"} => session_last_seq <= Window!Plan.target
    BY <2>1 DEF WindowRunInv, WindowTypes, Target
  <2>3. \A i, j \in DOMAIN session_checkpoints :
          i < j => session_checkpoints[i] < session_checkpoints[j]
    <3>1. DOMAIN session_checkpoints = 1..Len(session_checkpoints)
      BY <2>1 DEF WindowRunInv, RowCheckpoints
    <3>2. QED
      BY <2>1, <3>1 DEF WindowRunInv, RowCheckpoints
  <2>4. pipe <= PipeCapacity
    BY <2>1 DEF WindowRunInv, WindowTypes, WindowParameters, Window!WindowAssumption
  <2>5. QED
    BY <2>1, <2>2, <2>3, <2>4 DEF WindowRunInv, WindowTypes, Window!TypeOK
<1>2. QED
  BY <1>1, WindowAlways, PTL

\* AtMostOneWinner: the two workers of a race never both recover.
THEOREM RaceHasOneTicket ==
  ASSUME WindowParameters
  PROVE  Window!Spec => []Window!AtMostOneWinner
<1>1. WindowRunInv => Window!AtMostOneWinner
  <2>1. SUFFICES ASSUME WindowRunInv PROVE Window!AtMostOneWinner
    OBVIOUS
  <2>2. Window!Cardinality(Window!winners) \in {0, 1}
    BY <2>1, WinnersCount DEF WindowRunInv
  <2>3. QED
    BY <2>2 DEF Window!AtMostOneWinner
<1>2. QED
  BY <1>1, WindowAlways, PTL

\* NonceColumnIsTrue: the second presentation of the ticket tells what the server
\* knows of its nonce, also when calls fail.
THEOREM ResubmissionTells ==
  ASSUME WindowParameters
  PROVE  Window!Spec => []Window!NonceColumnIsTrue
<1>1. WindowRunInv => Window!NonceColumnIsTrue
  <2>1. SUFFICES ASSUME WindowRunInv, pc = "judge", ~row.error, scenario # "nonce_race"
                 PROVE  row.nonce_consumed = nonce_used
    BY DEF Window!NonceColumnIsTrue, Window!judged
  <2>2. RowOf(nonce_used)
    BY <2>1 DEF WindowRunInv, InJudge
  <2>3. QED
    BY <2>2 DEF RowOf
<1>2. QED
  BY <1>1, WindowAlways, PTL

\* AcceptedRowsAreTrue: a row that main accepts tells what the server did: the ticket
\* was at the floor or above and is used, or it was below and is not.
THEOREM AcceptedRowTells ==
  ASSUME WindowParameters
  PROVE  Window!Spec => []Window!AcceptedRowsAreTrue
<1>1. WindowRunInv => Window!AcceptedRowsAreTrue
  <2>1. SUFFICES ASSUME WindowRunInv, pc = "judge", ~row.error, ~Window!Violates(row)
                 PROVE  IF scenario = "below_floor"
                        THEN ~nonce_used /\ row.ticket_last_seq < row.recovery_floor
                        ELSE nonce_used /\ row.ticket_last_seq >= row.recovery_floor
    BY DEF Window!AcceptedRowsAreTrue, Window!judged
  <2>2. scenario \in Window!Scenarios
    BY <2>1 DEF WindowRunInv, WindowTypes
  <2>3. CASE scenario = "nonce_race"
    <3>1. row.race_winner_count = 1
      BY <2>1, <2>3 DEF Window!Violates
    <3>2. QED
      BY <2>1, <2>3, <3>1 DEF WindowRunInv, InJudge, RowOf
  <2>4. CASE scenario # "nonce_race"
    <3>1. RowOf(nonce_used)
      BY <2>1, <2>4 DEF WindowRunInv, InJudge
    <3>2. /\ row.success = nonce_used /\ row.ticket_last_seq = TicketInterval
          /\ row.recovery_floor = Floor /\ (nonce_used <=> TicketInterval >= Floor)
      BY <3>1 DEF RowOf
    <3>3. TicketInterval \in Nat /\ Floor \in Nat
      BY <2>1, FloorIsLast DEF WindowRunInv, RowCheckpoints, WindowParameters,
         Window!WindowAssumption
    <3>4. scenario = "below_floor" => ~nonce_used
      BY <2>1, <3>2 DEF Window!Violates
    <3>5. scenario # "below_floor" => nonce_used
      BY <2>1, <2>2, <2>4, <3>2 DEF Window!Violates, Window!Scenarios
    <3>6. QED
      BY <3>2, <3>3, <3>4, <3>5
  <2>5. QED
    BY <2>3, <2>4
<1>2. QED
  BY <1>1, WindowAlways, PTL

(* A run that nothing disturbs *)

\* The intervals of the program, with its TICKET_INTERVAL.
LEMMA ProgramIntervalsFit ==
  ASSUME TicketInterval = 100, Intervals = {50, 100, 200}
  PROVE  IntervalsFit
<1>1. TicketInterval + TicketInterval \div 2 - 1 = 149
  OBVIOUS
<1>2. \A m \in 101..149 : m % 50 # 0 /\ m % 100 # 0 /\ m % 200 # 0
  OBVIOUS
<1>3. QED
  BY <1>1, <1>2 DEF IntervalsFit

\* The window arithmetic of the scenarios against the server's floor.
LEMMA WindowFits ==
  ASSUME WindowParameters, IntervalsFit, RowCheckpoints, session_last_seq = Target,
         interval \in Intervals, scenario \in Window!Scenarios
  PROVE  /\ scenario # "below_floor" => TicketInterval >= Floor
         /\ scenario = "below_floor" => TicketInterval < Floor
<1> DEFINE T == TicketInterval
           k == interval
<1>1. T \in Nat /\ T > 1 /\ k \in Nat \ {0} /\ k <= 2 * T
  BY DEF WindowParameters, Window!WindowAssumption, IntervalsFit
<1>2. /\ Floor \in 0..session_last_seq
      /\ \A i \in 1..Len(session_checkpoints) : session_checkpoints[i] <= Floor
      /\ session_checkpoints # <<>> =>
           \E i \in 1..Len(session_checkpoints) : session_checkpoints[i] = Floor
  BY FloorIsLast
<1>3. Floor = 0 \/ (Floor \in 1..session_last_seq /\ (Floor % k = 0 \/ Floor = T))
  <2>1. CASE session_checkpoints = <<>>
    BY <2>1 DEF Floor, Window!RecoveryFloor
  <2>2. CASE session_checkpoints # <<>>
    BY <1>2, <2>2 DEF RowCheckpoints
  <2>3. QED
    BY <2>1, <2>2
<1>4. Floor \in Nat /\ Target \in Nat /\ Target >= T
  BY <1>2, Scenario DEF RowCheckpoints
<1> DEFINE q == T \div k
           r == T % k
<1>5. q \in Nat /\ r \in 0..(k - 1) /\ T = k * q + r /\ k * q \in Nat
  <2>1. q \in Nat /\ r \in 0..(k - 1) /\ T = k * q + r
    BY <1>1, QuotientRemainder, RemainderRange
  <2> HIDE DEF q, r
  <2>2. k * q \in Nat
    BY <1>1, <2>1
  <2>3. QED
    BY <2>1, <2>2
<1> HIDE DEF T, k, q, r
\* A multiple of the interval below the next one is not above phase 1's.
<1>6. ASSUME NEW m \in Nat, m % k = 0, m < k * q + k PROVE m <= T
  <2> DEFINE p == m \div k
  <2>1. m = k * p /\ p \in Nat
    BY <1>1, <1>6, QuotientRemainder
  <2> HIDE DEF p
  <2>2. p <= q
    <3>1. SUFFICES ASSUME p >= q + 1 PROVE FALSE
      BY <1>5, <2>1
    <3>2. p - q \in Int /\ p - q >= 1
      BY <1>5, <2>1, <3>1
    <3>3. k * (p - q) >= k
      BY <1>1, <3>2, MultipleIsFar
    <3>4. k * (p - q) = k * p - k * q
      BY <1>1, <1>5, <2>1
    <3>5. k * p \in Nat
      BY <1>1, <2>1
    <3>6. QED
      BY <1>1, <1>5, <1>6, <2>1, <3>3, <3>4, <3>5
  <2>3. k * p <= k * q
    BY <1>1, <1>5, <2>1, <2>2
  <2>4. QED
    BY <1>1, <1>5, <2>1, <2>3
<1>7. CASE scenario \in {"control", "nonce_race"}
  <2>1. Target = T
    BY <1>7, Scenario DEF T
  <2>2. QED
    BY <1>1, <1>2, <1>4, <1>7, <2>1 DEF T
<1>8. CASE scenario = "ack_loss"
  <2>1. Target = T + T \div 2 - 1
    BY <1>8, Scenario DEF T
  <2>2. \A m \in (T + 1)..(T + T \div 2 - 1) : m % k # 0
    BY DEF IntervalsFit, T, k
  <2>3. T \div 2 \in Nat
    BY <1>1
  <2>4. Floor <= T
    <3>1. SUFFICES ASSUME Floor > T PROVE FALSE
      BY <1>1, <1>4
    <3>2. Floor \in (T + 1)..(T + T \div 2 - 1)
      BY <1>1, <1>2, <1>4, <2>1, <2>3, <3>1
    <3>3. Floor % k = 0
      BY <1>1, <1>3, <3>1
    <3>4. QED
      BY <2>2, <3>2, <3>3
  <2>5. QED
    BY <1>1, <1>4, <1>8, <2>4 DEF T
<1>9. CASE scenario = "old_ticket_within_window"
  <2>1. Target = (q + 1) * k - 1
    BY <1>9, Scenario DEF T, k, q
  <2>2. (q + 1) * k = k * q + k
    BY <1>1, <1>5
  <2>3. Floor < k * q + k
    BY <1>1, <1>2, <1>4, <1>5, <2>1, <2>2
  <2>4. Floor <= T
    BY <1>1, <1>3, <1>4, <1>6, <2>3
  <2>5. QED
    BY <1>1, <1>4, <1>9, <2>4 DEF T
<1>10. CASE scenario = "below_floor"
  <2>1. Target = 2 * T
    BY <1>10, Scenario DEF T
  <2>2. PICK m \in (T + 1)..(2 * T) : m % k = 0
    <3>1. CASE q = 0
      <4>1. k * q = 0
        BY <1>1, <3>1
      <4>2. T = r /\ T < k
        BY <1>1, <1>5, <4>1
      <4>3. k % k = 0
        BY <1>1, RemainderRange
      <4>4. k \in (T + 1)..(2 * T)
        BY <1>1, <4>2
      <4>5. QED
        BY <4>3, <4>4
    <3>2. CASE q >= 1
      <4>1. k * q >= k
        BY <1>1, <1>5, <3>2, MultipleIsFar
      <4> DEFINE n == k * (q + 1)
      <4>2. n = k * q + k
        BY <1>1, <1>5
      <4>3. n % k = 0
        <5>1. q + 1 \in Nat /\ 0 \in 0..(k - 1) /\ n + 0 = n
          BY <1>1, <1>5, <4>2
        <5>2. (k * (q + 1) + 0) % k = 0
          BY <1>1, <5>1, DivideMultiple
        <5>3. QED
          BY <5>1, <5>2
      <4> HIDE DEF n
      <4>4. n \in (T + 1)..(2 * T)
        BY <1>1, <1>5, <4>1, <4>2
      <4>5. QED
        BY <4>3, <4>4
    <3>3. QED
      BY <1>5, <3>1, <3>2
  <2>3. m \in 1..session_last_seq
    BY <1>1, <2>1
  <2>4. PICK i \in 1..Len(session_checkpoints) : session_checkpoints[i] = m
    BY <2>2, <2>3 DEF RowCheckpoints, k
  <2>5. m <= Floor
    BY <1>2, <2>4
  <2>6. T < Floor
    BY <1>1, <1>4, <2>5
  <2>7. QED
    BY <1>10, <2>6 DEF T
<1>11. QED
  BY <1>7, <1>8, <1>9, <1>10 DEF Window!Scenarios

\* The server's threads never stop, so nothing is in the client's way.
LEMMA UndisturbedServer ==
  ASSUME WindowParameters, WindowRunInv, Undisturbed, Drained, Window!Serve
  PROVE  Undisturbed'
<1>1. /\ pc' = pc /\ scenario' = scenario /\ row' = row /\ results' = results
  BY DEF Window!Serve, Window!config
<1>2. \A n : Window!Room(n)
  BY DEF Window!Room
<1>3. PICK c \in {0, 1} : \/ Window!ServeHello(c) \/ Window!ServeData(c)
                         \/ Window!RefuseRecovery(c) \/ Window!AcceptRecovery(c)
  BY DEF Window!Serve, Window!Conns
<1>4. /\ DOMAIN call = {0, 1}
      /\ \A d \in {0, 1} : call[d] # Window!Stuck
      /\ pc = "race" /\ nonce_used => \E d \in {0, 1} : Granted(d)
  BY DEF WindowRunInv, WindowTypes, Undisturbed
<1>5. ASSUME NEW a, a.kind = "answer", call' = [call EXCEPT ![c] = a],
             call[c].kind # "answer",
             pc = "race" => nonce_used' = nonce_used \/ ("ok" \in DOMAIN a /\ a.ok)
      PROVE  Undisturbed'
  <2>1. call'[c] = a /\ \A d \in {0, 1} : d # c => call'[d] = call[d]
    BY <1>4, <1>5
  <2>2. \A d \in {0, 1} : call'[d] # Window!Stuck
    BY <1>4, <1>5, <2>1 DEF Window!Stuck
  <2>3. \A d \in {0, 1} : Granted(d) => Granted(d)'
    BY <1>5, <2>1 DEF Granted
  <2>4. pc = "race" /\ nonce_used' => \E d \in {0, 1} : Granted(d)'
    BY <1>4, <1>5, <2>1, <2>3 DEF Granted
  <2>5. QED
    BY <1>1, <2>2, <2>4 DEF Undisturbed
<1>6. CASE Window!ServeHello(c)
  <2>1. /\ call' = [call EXCEPT ![c] = [kind |-> "answer"]] /\ nonce_used' = nonce_used
        /\ call[c].kind = "hello"
    BY <1>2, <1>6 DEF Window!ServeHello, Window!AnswerAfter, Window!session
  <2>2. QED
    BY <1>5, <2>1
<1>7. CASE Window!ServeData(c)
  <2>1. PICK n, ticket :
          call' = [call EXCEPT ![c] = [kind |-> "answer", last_seq |-> n,
                                       memory_ticket |-> ticket]]
    BY <1>2, <1>7 DEF Window!ServeData, Window!AnswerAfter
  <2>2. call[c].kind = "data" /\ nonce_used' = nonce_used
    BY <1>7 DEF Window!ServeData
  <2>3. QED
    BY <1>5, <2>1, <2>2
<1>8. CASE Window!RefuseRecovery(c)
  <2>1. /\ call' = [call EXCEPT ![c] = Window!RecoveryAnswer(FALSE,
                                         Window!Refusal(call[c].ticket), call[c].ticket)]
        /\ call[c].kind = "recovery" /\ nonce_used' = nonce_used
    BY <1>2, <1>8 DEF Window!RefuseRecovery, Window!AnswerAfter, Window!session
  <2>2. QED
    BY <1>5, <2>1 DEF Window!RecoveryAnswer
<1>9. CASE Window!AcceptRecovery(c)
  <2> DEFINE a == Window!RecoveryAnswer(TRUE, "ok", call[c].ticket)
  <2>1. call' = [call EXCEPT ![c] = a] /\ call[c].kind = "recovery"
    BY <1>2, <1>9 DEF Window!AcceptRecovery, Window!AnswerAfter
  <2>2. a.kind = "answer" /\ "ok" \in DOMAIN a /\ a.ok
    BY DEF Window!RecoveryAnswer
  <2> HIDE DEF a
  <2>3. QED
    BY <1>5, <2>1, <2>2
<1>10. QED
  BY <1>3, <1>6, <1>7, <1>8, <1>9

\* A race that both workers end has its winner.
LEMMA UndisturbedJoin ==
  ASSUME WindowParameters, WindowRunInv, Undisturbed, ~Faults, Window!Join
  PROVE  Undisturbed'
<1>1. /\ pc = "race" /\ pc' = "judge" /\ call' = call
      /\ \A c \in {0, 1} : results[c] # Window!Nothing
      /\ row' = Window!RaceRow
  BY DEF Window!Join, Window!Conns
<1>2. \A c \in {0, 1} : Racing(c) /\ results[c].auth
  BY <1>1 DEF WindowRunInv, InRace, Undisturbed
<1>3. ASSUME NEW c \in {0, 1}
      PROVE  /\ results[c] = [kind |-> "result", ok |-> call[c].ok, auth |-> TRUE,
                              response |-> call[c]]
             /\ call[c].kind = "answer" /\ "ok" \in DOMAIN call[c]
  <2>1. results[c] # [kind |-> "result", ok |-> FALSE, auth |-> FALSE,
                      response |-> Window!Nothing]
    BY <1>2
  <2>2. QED
    BY <1>1, <1>2, <2>1 DEF Racing
<1>4. nonce_used
  <2>1. /\ call[0] # Window!Stuck /\ call[0] # Window!Hello
        /\ call[0] # [kind |-> "answer"] /\ call[0] # Window!Recovery(saved_ticket)
    BY <1>3 DEF Window!Stuck, Window!Hello, Window!Recovery
  <2>2. QED
    BY <1>2, <2>1 DEF Racing
<1>5. PICK c \in {0, 1} : Granted(c)
  BY <1>1, <1>4 DEF Undisturbed
<1>6. Won(c)
  <2>1. results[c].ok = call[c].ok
    BY <1>3
  <2>2. QED
    BY <1>1, <1>5, <2>1 DEF Won, Granted
<1>7. Window!winners # {}
  BY <1>6 DEF Window!winners, Window!Conns, Won
<1>8. row'.race_winner_count = 1 /\ ~row'.error
  <2>1. Window!Cardinality(Window!winners) = 1
    BY <1>7, WinnersCount DEF WindowRunInv
  <2>2. /\ Window!RaceRow.error = FALSE
        /\ Window!RaceRow.race_winner_count = Window!Cardinality(Window!winners)
    BY <1>1, RaceRowIsTrue
  <2>3. QED
    BY <1>1, <2>1, <2>2
<1>9. row'.auth_ok
  <2>1. Window!RaceRow.auth_ok = (\A d \in {0, 1} : results[d] # Window!Nothing => results[d].auth)
    BY DEF Window!RaceRow, Window!Conns
  <2>2. QED
    BY <1>1, <1>2, <2>1
<1>10. QED
  BY <1>1, <1>8, <1>9 DEF Undisturbed

LEMMA UndisturbedClient ==
  ASSUME WindowParameters, WindowRunInv, Undisturbed, Drained, ~Faults, Window!Client
  PROVE  Undisturbed'
<1>1. /\ DOMAIN call = {0, 1} /\ DOMAIN results = {0, 1}
      /\ \A c \in {0, 1} : call[c] # Window!Stuck
  BY DEF WindowRunInv, WindowTypes, Undisturbed
<1>2. \A c \in {0, 1} : ~Window!CallFails(c)
  BY <1>1 DEF Window!CallFails
<1>3. ASSUME NEW a, call' = [call EXCEPT ![0] = a], a.kind # "stuck",
             pc' \notin {"race", "judge"}
      PROVE  Undisturbed'
  <2>1. \A c \in {0, 1} : call'[c] # Window!Stuck
    BY <1>1, <1>3 DEF Window!Stuck
  <2>2. QED
    BY <1>3, <2>1 DEF Undisturbed
<1>4. CASE Window!Start
  <2>1. pc' = "hello" /\ call' = [call EXCEPT ![0] = Window!Hello]
    BY <1>4 DEF Window!Start, Window!Ask
  <2>2. Window!Hello.kind = "hello"
    BY DEF Window!Hello
  <2>3. QED
    BY <1>3, <2>1, <2>2
<1>5. CASE Window!FirstData
  <2>1. pc' = "data" /\ call' = [call EXCEPT ![0] = Window!Data(1)]
    BY <1>5 DEF Window!FirstData, Window!Ask
  <2>2. Window!Data(1).kind = "data"
    BY DEF Window!Data
  <2>3. QED
    BY <1>3, <2>1, <2>2
<1>6. CASE Window!NextData
  <2>1. pc' = "data" /\ call' = [call EXCEPT ![0] = Window!Data(seq + 1)]
    BY <1>6 DEF Window!NextData, Window!Ask
  <2>2. Window!Data(seq + 1).kind = "data"
    BY DEF Window!Data
  <2>3. QED
    BY <1>3, <2>1, <2>2
<1>7. CASE Window!SendRecovery
  <2>1. pc' = "recover" /\ call' = [call EXCEPT ![0] = Window!Recovery(Window!Kept)]
    BY <1>7 DEF Window!SendRecovery, Window!Ask
  <2>2. Window!Recovery(Window!Kept).kind = "recovery"
    BY DEF Window!Recovery
  <2>3. QED
    BY <1>3, <2>1, <2>2
<1>8. CASE Window!Recovered
  <2>1. CASE pc' = "resubmit"
    <3>1. call' = [call EXCEPT ![0] = Window!Recovery(saved_ticket)]
      BY <1>8, <2>1 DEF Window!Recovered, Window!Ask
    <3>2. Window!Recovery(saved_ticket).kind = "recovery"
      BY DEF Window!Recovery
    <3>3. QED
      BY <1>3, <2>1, <3>1, <3>2
  <2>2. CASE pc' = "judge"
    <3>1. call' = call /\ scenario' = scenario /\ pc = "recover"
      BY <1>8, <2>2 DEF Window!Recovered, Window!config
    <3>2. WindowRunInv'
      BY <1>8, RecoveredKeeps
    <3>3. /\ scenario # "nonce_race" /\ "error" \in DOMAIN row
      BY <3>1 DEF WindowRunInv, InRecover, Window!ErrorRow
    <3>4. row'.error = FALSE
      BY <1>8, <3>3 DEF Window!Recovered
    <3>5. QED
      BY <1>1, <2>2, <3>1, <3>3, <3>4 DEF Undisturbed
  <2>3. QED
    BY <1>8, <2>1, <2>2 DEF Window!Recovered
<1>9. CASE Window!Resubmitted
  <2>1. /\ call' = call /\ scenario' = scenario /\ pc = "resubmit" /\ pc' = "judge"
        /\ row' = [row EXCEPT !.nonce_consumed = Window!NonceConsumed(call[0])]
    BY <1>9 DEF Window!Resubmitted, Window!config
  <2>2. scenario # "nonce_race" /\ row.error = FALSE
    BY <2>1 DEF WindowRunInv, InResubmit, RowOf
  <2>3. row'.error = FALSE
    BY <2>1, <2>2
  <2>4. QED
    BY <1>1, <2>1, <2>2, <2>3 DEF Undisturbed
<1>10. CASE Window!StartRace
  <2>1. /\ pc = "data" /\ pc' = "race" /\ call' = [c \in {0, 1} |-> Window!Hello]
        /\ results' = results /\ nonce_used' = nonce_used
    BY <1>10 DEF Window!StartRace, Window!Conns, Window!session
  <2>2. ~nonce_used /\ \A c \in {0, 1} : results[c] = Window!Nothing
    BY <2>1 DEF WindowRunInv, InData, NoRace
  <2>3. \A c \in {0, 1} : call'[c] # Window!Stuck
    BY <2>1 DEF Window!Hello, Window!Stuck
  <2>4. QED
    BY <2>1, <2>2, <2>3 DEF Undisturbed
<1>11. CASE Window!Join
  BY <1>11, UndisturbedJoin
<1>12. CASE Window!RowFails
  BY <1>2, <1>12 DEF Window!RowFails
<1>13. CASE Window!Judge
  <2>1. pc' \in {"row", "end"} /\ call' = [c \in {0, 1} |-> Window!Nothing]
    BY <1>13 DEF Window!Judge, Window!Conns
  <2>2. \A c \in {0, 1} : call'[c] # Window!Stuck
    BY <2>1 DEF Window!Nothing, Window!Stuck
  <2>3. QED
    BY <2>1, <2>2 DEF Undisturbed
<1>14. ASSUME NEW c \in {0, 1}, Window!WorkerHello(c) PROVE Undisturbed'
  <2>1. /\ pc = "race" /\ pc' = "race" /\ results' = results /\ nonce_used' = nonce_used
        /\ call' = [call EXCEPT ![c] = Window!Recovery(saved_ticket)]
        /\ "ok" \notin DOMAIN call[c]
    BY <1>14 DEF Window!WorkerHello, Window!Ask, Window!session
  <2>2. \A d \in {0, 1} : Granted(d) => Granted(d)'
    BY <1>1, <2>1 DEF Granted
  <2>3. \A d \in {0, 1} : call'[d] # Window!Stuck
    BY <1>1, <2>1 DEF Window!Recovery, Window!Stuck
  <2>4. QED
    BY <2>1, <2>2, <2>3 DEF Undisturbed
<1>15. ASSUME NEW c \in {0, 1}, Window!WorkerEnds(c) PROVE Undisturbed'
  <2>1. /\ pc = "race" /\ pc' = "race" /\ call' = call /\ nonce_used' = nonce_used
        /\ results' = [results EXCEPT ![c] = [kind |-> "result", ok |-> call[c].ok,
                                              auth |-> TRUE, response |-> call[c]]]
    BY <1>15 DEF Window!WorkerEnds, Window!session
  <2>2. \A d \in {0, 1} : results'[d] # Window!Nothing => results'[d].auth
    BY <1>1, <2>1 DEF Undisturbed
  <2>3. \A d \in {0, 1} : Granted(d) => Granted(d)'
    BY <2>1 DEF Granted
  <2>4. QED
    BY <1>1, <2>1, <2>2, <2>3 DEF Undisturbed
<1>16. \A c \in {0, 1} : ~Window!WorkerFails(c)
  BY <1>2 DEF Window!WorkerFails
<1>17. QED
  BY <1>4, <1>5, <1>6, <1>7, <1>8, <1>9, <1>10, <1>11, <1>12, <1>13, <1>14, <1>15, <1>16
     DEF Window!Client, Window!Conns

\* RowsPass: with a server whose output is read and calls that do not fail, main
\* holds nothing against any row, whatever the checkpoint interval.
THEOREM UndisturbedRowsPass ==
  ASSUME WindowParameters, IntervalsFit, Drained, ~Faults
  PROVE  Window!Spec => []Window!RowsPass
<1>1. Window!Init => Undisturbed
  BY DEF Window!Init, Undisturbed, Window!Conns, Window!Nothing, Window!Stuck
<1>2. WindowRunInv /\ Undisturbed /\ [Window!Next]_Window!vars => Undisturbed'
  <2>1. SUFFICES ASSUME WindowRunInv, Undisturbed, [Window!Next]_Window!vars
                 PROVE  Undisturbed'
    OBVIOUS
  <2>2. CASE UNCHANGED Window!vars
    BY <2>1, <2>2 DEF Undisturbed, Granted, Window!vars, Window!config, Window!session
  <2>3. QED
    BY <2>1, <2>2, UndisturbedServer, UndisturbedClient DEF Window!Next, Window!Done
<1>3. WindowRunInv /\ Undisturbed => Window!RowsPass
  <2>1. SUFFICES ASSUME WindowRunInv, Undisturbed, pc = "judge" PROVE ~Window!Violates(row)
    BY DEF Window!RowsPass
  <2>2. ~row.error /\ scenario \in Window!Scenarios /\ interval \in Intervals
    BY <2>1 DEF Undisturbed, WindowRunInv, WindowTypes
  <2>3. CASE scenario = "nonce_race"
    BY <2>1, <2>3 DEF Undisturbed, Window!Violates
  <2>4. CASE scenario # "nonce_race"
    <3>1. RowOf(nonce_used)
      BY <2>1, <2>2, <2>4 DEF WindowRunInv, InJudge
    <3>2. /\ row.auth_ok = TRUE /\ row.state_unchanged = TRUE /\ row.success = nonce_used
          /\ (nonce_used <=> TicketInterval >= Floor) /\ session_last_seq = Target
      BY <3>1 DEF RowOf
    <3>3. /\ scenario # "below_floor" => TicketInterval >= Floor
          /\ scenario = "below_floor" => TicketInterval < Floor
      BY <2>1, <2>2, <3>2, WindowFits DEF WindowRunInv
    <3>4. TicketInterval \in Nat /\ Floor \in Nat
      BY <2>1, FloorIsLast DEF WindowRunInv, RowCheckpoints, WindowParameters,
         Window!WindowAssumption
    <3>5. scenario # "below_floor" => nonce_used
      BY <3>2, <3>3
    <3>6. scenario = "below_floor" => ~nonce_used
      BY <3>2, <3>3, <3>4
    <3>7. QED
      BY <2>4, <3>2, <3>5, <3>6 DEF Window!Violates
  <2>5. QED
    BY <2>3, <2>4
<1>4. Window!Spec => []WindowRunInv
  BY WindowAlways
<1>5. QED
  BY <1>1, <1>2, <1>3, <1>4, PTL DEF Window!Spec

=============================================================================
