--------------------------- MODULE WindowedClient ---------------------------
(***************************************************************************)
(* One experiment of run_real_tcp_network_experiment.py against            *)
(* real_tcp_server.py: a client that keeps up to WindowSize packets        *)
(* unanswered on one TCP connection and plays an attack at attack_seq.     *)
(*                                                                         *)
(* The client builds packets on build_mem, which runs ahead, and advances  *)
(* ack_mem with the responses; it matches a response to the oldest packet  *)
(* in flight, since the server answers in order.  The connection may break *)
(* at any moment, losing what is under way, and a response may come later  *)
(* than SOCKET_TIMEOUT.  Payloads, sizes and measured times are left out;  *)
(* the PING connection opened before changes nothing but a column.         *)
(***************************************************************************)
EXTENDS PlainServer

CONSTANTS
  MessageCounts,     \* MESSAGE_COUNTS
  WindowSizes,       \* WINDOW_SIZES
  MaxAttackSeq       \* the 50 of attack_seq = min(50, max(2, count // 2))

Attacks == {"none", "drop", "modify", "replay", "prev_mem"}

\* Of the constants; MC modules state them (ASSUME) for their instances.
CountsAssumption ==
  MessageCounts \subseteq Nat \ 0..2 /\ WindowSizes \subseteq Nat \ {0}
AttackAssumption == MaxAttackSeq \in Nat \ {0, 1}

VARIABLES
  message_count, window_size, attack_type,  \* the configuration of the run
  pc,                \* "connect", "exchange" or "done"
  next_seq, build_mem, ack_mem, inflight, saved_packets,
  accepted_count, rejected_count, timeout_count,
  detection_result, detection_reason,
  final_server_mem, final_server_last_seq,
  up, down, broken,  \* the connection: packets, responses, and is it cut?
  session            \* the server's state of the run's session_id

config == <<message_count, window_size, attack_type>>
counts == <<accepted_count, rejected_count, timeout_count>>
sender == <<next_seq, build_mem, saved_packets>>
receiver == <<ack_mem, final_server_mem, final_server_last_seq>>
detection == <<detection_result, detection_reason>>
wire == <<up, down, broken>>
vars == <<config, pc, sender, inflight, receiver, counts, detection, wire,
          session>>

Max2(a, b) == IF a > b THEN a ELSE b
Min2(a, b) == IF a < b THEN a ELSE b
attack_seq == Min2(MaxAttackSeq, Max2(2, message_count \div 2))
replay_seq == Max2(1, attack_seq \div 2)

Init ==
  /\ message_count \in MessageCounts
  /\ window_size \in WindowSizes
  /\ attack_type \in Attacks
  /\ pc = "connect"
  /\ next_seq = 1 /\ build_mem = <<>> /\ ack_mem = <<>>
  /\ inflight = <<>> /\ saved_packets = <<>>
  /\ accepted_count = 0 /\ rejected_count = 0 /\ timeout_count = 0
  /\ detection_result = IF attack_type = "none" THEN "normal" ELSE "missed"
  /\ detection_reason = "normal"
  /\ final_server_mem = <<>> /\ final_server_last_seq = 0
  /\ up = <<>> /\ down = <<>> /\ broken = FALSE
  /\ session = FreshSession

-----------------------------------------------------------------------------
\* Mutant: an exception leaves the detection as it was.
FailQuiet(reason) ==
  /\ timeout_count' = timeout_count + 1
  /\ detection_reason' = reason
  /\ UNCHANGED detection_result
  /\ pc' = "done"

\* A timeout or an error of the socket ends the exchange.
Fail(reason) ==
  /\ timeout_count' = timeout_count + 1
  /\ detection_reason' = reason
  /\ detection_result' = IF attack_type = "none" THEN detection_result
                         ELSE "detected_or_timeout"
  /\ pc' = "done"

Connect ==
  /\ pc = "connect"
  /\ \/ pc' = "exchange" /\ UNCHANGED <<counts, detection>>
     \/ Fail("tcp error") /\ UNCHANGED <<accepted_count, rejected_count>>
  /\ UNCHANGED <<config, sender, inflight, receiver, wire, session>>

\* Mutant: the window is one packet too wide.
RoomOneMore == Len(inflight) <= window_size /\ next_seq <= message_count
\* Mutant: the window is filled past the last message.
RoomPastEnd == Len(inflight) < window_size /\ next_seq <= message_count + 1
Room == Len(inflight) < window_size /\ next_seq <= message_count

\* The packet of next_seq as the attack leaves it.
Attacked(p) ==
  IF p.seq # attack_seq THEN p
  ELSE CASE attack_type = "modify" -> ModifyPayload(p)
         [] attack_type = "prev_mem" -> ModifyPrevMem(p, TRUE)
         [] attack_type = "replay" /\ replay_seq <= Len(saved_packets)
              -> saved_packets[replay_seq]
         [] OTHER -> p

\* drop: the client goes on as if the packet had been sent.
Drop ==
  /\ pc = "exchange" /\ Room
  /\ attack_type = "drop" /\ next_seq = attack_seq
  /\ build_mem' = Append(build_mem, next_seq)
  /\ next_seq' = next_seq + 1
  /\ UNCHANGED <<config, pc, saved_packets, inflight, receiver, counts,
                 detection, wire, session>>

\* On a cut connection the call may still succeed, into the socket's buffer.
Send ==
  /\ pc = "exchange" /\ Room
  /\ ~(attack_type = "drop" /\ next_seq = attack_seq)
  /\ \/ /\ LET p == Attacked(DataPacket(next_seq, build_mem)) IN
             /\ up' = IF broken THEN up ELSE Append(up, p)
             /\ saved_packets' = Append(saved_packets, p)
        /\ inflight' = Append(inflight, next_seq)
        /\ build_mem' = Append(build_mem, next_seq)
        /\ next_seq' = next_seq + 1
        /\ UNCHANGED <<pc, counts, detection>>
     \/ /\ broken
        /\ Fail("tcp error")
        /\ UNCHANGED <<accepted_count, rejected_count, sender, inflight, up>>
  /\ UNCHANGED <<config, receiver, down, broken, session>>

\* handle_client: verify under state_lock, then answer.
Serve ==
  /\ up # <<>>
  /\ session' = After(session, Head(up))
  /\ down' = IF broken THEN down ELSE Append(down, Verdict(session, Head(up)))
  /\ up' = Tail(up)
  /\ UNCHANGED <<config, pc, sender, inflight, receiver, counts, detection,
                 broken>>

\* Mutant: inflight.pop() takes the newest packet.
OldestIsNewest == Last(inflight)
Oldest == Head(inflight)

\* Mutant: the acknowledged memory follows every answer.
AckAlways(response) == Append(ack_mem, Oldest)
Ack(response) == IF response.ok THEN Append(ack_mem, Oldest) ELSE ack_mem

Receive ==
  /\ pc = "exchange" /\ ~Room /\ inflight # <<>> /\ down # <<>>
  /\ LET response == Head(down) IN
       /\ ack_mem' = Ack(response)
       /\ final_server_mem' = response.last_mem
       /\ final_server_last_seq' = response.last_seq
       /\ IF response.ok
          THEN /\ accepted_count' = accepted_count + 1
               /\ UNCHANGED <<pc, rejected_count, detection>>
          ELSE /\ rejected_count' = rejected_count + 1
               /\ detection_reason' = response.reason
               /\ detection_result' =
                    IF attack_type = "none" THEN detection_result
                    ELSE "detected"
               /\ pc' = "done"
               /\ UNCHANGED accepted_count
  /\ inflight' = SelectSeq(inflight, LAMBDA n : n # Oldest)
  /\ down' = Tail(down)
  /\ UNCHANGED <<config, sender, timeout_count, up, broken, session>>

\* Mutant: the client waits on instead of giving up.
ReceiveFailsPatient ==
  /\ pc = "exchange" /\ ~Room /\ inflight # <<>> /\ down = <<>>
  /\ UNCHANGED vars

\* No answer within SOCKET_TIMEOUT, or the connection is found closed.
ReceiveFails ==
  /\ pc = "exchange" /\ ~Room /\ inflight # <<>> /\ down = <<>>
  /\ Fail(IF broken THEN "connection error" ELSE "client timeout")
  /\ inflight' = Tail(inflight)
  /\ UNCHANGED <<config, sender, receiver, accepted_count, rejected_count,
                 wire, session>>

Finish ==
  /\ pc = "exchange" /\ ~Room /\ inflight = <<>>
  /\ pc' = "done"
  /\ UNCHANGED <<config, sender, inflight, receiver, counts, detection, wire,
                 session>>

\* The network cuts the connection: what is under way is lost from some
\* point on, in each direction.
Break ==
  /\ pc = "exchange" /\ ~broken
  /\ broken' = TRUE
  /\ \E i \in 0..Len(up), j \in 0..Len(down) :
       up' = SubSeq(up, 1, i) /\ down' = SubSeq(down, 1, j)
  /\ UNCHANGED <<config, pc, sender, inflight, receiver, counts, detection,
                 session>>

Done == pc = "done" /\ up = <<>> /\ UNCHANGED vars

Client == Connect \/ Drop \/ Send \/ Receive \/ ReceiveFails \/ Finish
Next == Client \/ Serve \/ Break \/ Done

\* The client is one thread that never stops on its own; a server thread
\* reads on as long as there is input.
Spec == Init /\ [][Next]_vars /\ WF_vars(Client) /\ WF_vars(Serve)

-----------------------------------------------------------------------------
(* The columns of the row. *)

recovery_success ==
  attack_type = "none" /\ accepted_count = message_count
    /\ rejected_count = 0 /\ timeout_count = 0
attack_detected == detection_result \in {"detected", "detected_or_timeout"}
memory_match == ack_mem = final_server_mem
memory_verified ==
  recovery_success /\ memory_match /\ final_server_last_seq = message_count
seq_consistent == final_server_last_seq = accepted_count

-----------------------------------------------------------------------------
(* Properties. *)

\* TypeOK: counters stay within the run, memories hold sequence numbers of it.
TypeOK ==
  /\ pc \in {"connect", "exchange", "done"}
  /\ next_seq \in 1..(message_count + 1)
  /\ accepted_count \in 0..message_count
  /\ rejected_count \in 0..1 /\ timeout_count \in 0..1
  /\ \A m \in {build_mem, ack_mem, final_server_mem, session.last_mem} :
       m \in Seq(1..message_count)
  /\ broken \in BOOLEAN

\* WindowKept: what the client has acknowledged is a prefix of the server's
\* memory, and the server is never more than a window ahead of it, whatever
\* is under way, lost or refused.
WindowKept ==
  /\ IsPrefix(ack_mem, session.last_mem)
  /\ session.last_seq - Len(ack_mem) <= window_size

\* RowAgrees: the row compares two memories of one moment: after each answer,
\* and so in the row, the acknowledged memory is the one the server reported
\* and the accepted count is its last_seq.
RowAgrees == memory_match /\ seq_consistent

\* VerifiedIsWhole: a row with memory_verified stands for a server that holds
\* the complete history, and an undisturbed run without attack ends that way.
VerifiedIsWhole ==
  pc = "done" =>
    /\ memory_verified => session.last_mem = History(message_count)
    /\ attack_type = "none" /\ timeout_count = 0 => memory_verified

\* AttackFound: no attack is ever missed, and the history stops right before
\* the attacked packet, however many packets were sent after it.
AttackFound ==
  pc = "done" /\ attack_type # "none" =>
    /\ attack_detected
    /\ session.last_seq < attack_seq
    /\ timeout_count = 0 => accepted_count = attack_seq - 1

\* PrevMemReason: the forged prev_mem carries a valid tag, so the server finds
\* the break in the history itself, not a wrong tag.
PrevMemReason ==
  pc = "done" /\ attack_type = "prev_mem" /\ rejected_count = 1 =>
    detection_reason = "prev_mem mismatch"

=============================================================================
