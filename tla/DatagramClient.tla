--------------------------- MODULE DatagramClient ---------------------------
(***************************************************************************)
(* The UDP pairs: run_real_network_experiment.py with real_server.py       *)
(* (Pings), and client.py with server.py.  The client sends a datagram,    *)
(* waits for one datagram and takes it for the answer, whatever it is.     *)
(*                                                                         *)
(* Datagrams under way may be lost or overtake each other; they are not    *)
(* duplicated.  The PING of the runner uses the socket of the experiment:  *)
(* when its PONG comes later than SOCKET_TIMEOUT, the PONG is the answer   *)
(* to the first DATA packet, and every answer after it is read one packet  *)
(* late.                                                                   *)
(***************************************************************************)
EXTENDS PlainServer

CONSTANTS
  MessageCounts,     \* MESSAGE_COUNTS, or --count
  MaxAttackSeq,      \* the 500 of attack_seq = min(500, max(2, count // 2))
  Pings              \* TRUE: the runner; FALSE: client.py, which sends no PING

Attacks == {"none", "drop", "modify", "prev_mem"}
             \union (IF Pings THEN {"replay"} ELSE {})

\* Of the constants; MC modules state them (ASSUME) for their instances.
CountsAssumption == MessageCounts \subseteq Nat \ 0..3
AttackAssumption == MaxAttackSeq \in Nat \ {0, 1} /\ Pings \in BOOLEAN

VARIABLES
  message_count, attack_type,
  pc,                \* "ping", "pong", "send", "receive" or "done"
  seq, current_mem, saved_packets,
  accepted_count, rejected_count, timeout_count,
  detection_result, detection_reason,
  server_reachable,  \* the PING was answered in time
  up, down,          \* the datagrams under way: sets, for they have no order
  session            \* the server's state of the run's session_id

config == <<message_count, attack_type>>
counts == <<accepted_count, rejected_count, timeout_count>>
detection == <<detection_result, detection_reason>>
history == <<seq, current_mem, saved_packets>>
vars == <<config, pc, history, counts, detection, server_reachable, up, down,
          session>>

\* Mutant: the attack may come at the last message.
attack_seqLast ==
  IF message_count < MaxAttackSeq + 2 THEN message_count ELSE MaxAttackSeq

attack_seq ==
  LET half == IF message_count \div 2 > 2 THEN message_count \div 2 ELSE 2
  IN IF half < MaxAttackSeq THEN half ELSE MaxAttackSeq
replay_seq == IF attack_seq \div 2 > 1 THEN attack_seq \div 2 ELSE 1

Ping == [type |-> "PING"]
Pong == [type |-> "PONG", ok |-> TRUE, reason |-> "pong"]

Init ==
  /\ message_count \in MessageCounts /\ attack_type \in Attacks
  /\ pc = IF Pings THEN "ping" ELSE "send"
  /\ seq = 1 /\ current_mem = <<>> /\ saved_packets = <<>>
  /\ accepted_count = 0 /\ rejected_count = 0 /\ timeout_count = 0
  /\ detection_result = IF attack_type = "none" THEN "normal" ELSE "missed"
  /\ detection_reason = "normal"
  /\ server_reachable = FALSE
  /\ up = {} /\ down = {}
  /\ session = FreshSession

-----------------------------------------------------------------------------
SendPing ==
  /\ pc = "ping"
  /\ up' = {Ping}
  /\ pc' = "pong"
  /\ UNCHANGED <<config, history, counts, detection, server_reachable, down,
                 session>>

\* ping_server returns FALSE when nothing comes in time; the run goes on.
EndPing ==
  /\ pc = "pong"
  /\ \/ Pong \in down /\ down' = down \ {Pong} /\ server_reachable' = TRUE
     \/ server_reachable' = FALSE /\ UNCHANGED down
  /\ pc' = "send"
  /\ UNCHANGED <<config, history, counts, detection, up, session>>

Drop ==
  /\ pc = "send" /\ attack_type = "drop" /\ seq = attack_seq
  /\ seq' = seq + 1
  /\ UNCHANGED <<config, pc, current_mem, saved_packets, counts, detection,
                 server_reachable, up, down, session>>

\* Only an accepted packet is saved.  The forged prev_mem is signed with the
\* literal key gmcp-demo-shared-key, which is not DATA_AUTH_KEY.
Attacked(p) ==
  IF p.seq # attack_seq THEN p
  ELSE CASE attack_type = "modify" -> ModifyPayload(p)
         [] attack_type = "prev_mem" -> ModifyPrevMem(p, FALSE)
         [] attack_type = "replay" /\ replay_seq \in DOMAIN saved_packets
              -> saved_packets[replay_seq]
         [] OTHER -> p

Send ==
  /\ pc = "send" /\ seq <= message_count
  /\ ~(attack_type = "drop" /\ seq = attack_seq)
  /\ up' = up \union {[type |-> "DATA",
                       packet |-> Attacked(DataPacket(seq, current_mem))]}
  /\ pc' = "receive"
  /\ UNCHANGED <<config, history, counts, detection, server_reachable, down,
                 session>>

\* One turn of the server's loop; a PING is answered without a session.
Serve ==
  \E d \in up :
    /\ up' = up \ {d}
    /\ IF d.type = "PING"
       THEN down' = down \union {Pong} /\ UNCHANGED session
       ELSE /\ session' = After(session, d.packet)
            /\ down' = down \union
                 {[type |-> "verdict", ok |-> Verdict(session, d.packet).ok,
                   reason |-> Verdict(session, d.packet).reason,
                   last_seq |-> After(session, d.packet).last_seq]}
    /\ UNCHANGED <<config, pc, history, counts, detection, server_reachable>>

Stops(response) == ~response.ok

Saved(packets, n, p) ==
  [i \in DOMAIN packets \union {n} |-> IF i = n THEN p ELSE packets[i]]

Receive ==
  /\ pc = "receive"
  /\ \E response \in down :
       /\ down' = down \ {response}
       /\ IF response.ok
          THEN /\ accepted_count' = accepted_count + 1
               /\ saved_packets' =
                    Saved(saved_packets, seq, Attacked(DataPacket(seq, current_mem)))
               /\ current_mem' = Append(current_mem, seq)
               /\ UNCHANGED <<rejected_count, detection>>
          ELSE /\ rejected_count' = rejected_count + 1
               /\ detection_reason' = response.reason
               /\ detection_result' =
                    IF attack_type = "none" THEN detection_result
                    ELSE "detected"
               /\ UNCHANGED <<accepted_count, saved_packets, current_mem>>
       /\ IF Stops(response)
          THEN pc' = "done" /\ UNCHANGED seq
          ELSE pc' = "send" /\ seq' = seq + 1
  /\ UNCHANGED <<config, timeout_count, server_reachable, up, session>>

\* Mutant: a packet without an answer is taken for delivered.
ReceiveTimesOutDelivered ==
  /\ pc = "receive"
  /\ accepted_count' = accepted_count + 1
  /\ current_mem' = Append(current_mem, seq)
  /\ pc' = "send" /\ seq' = seq + 1
  /\ UNCHANGED <<config, saved_packets, rejected_count, timeout_count,
                 detection, server_reachable, up, down, session>>

\* Mutant: the client waits for the answer without a timeout.
ReceiveWaits == pc = "receive" /\ UNCHANGED vars

ReceiveTimesOut ==
  /\ pc = "receive"
  /\ timeout_count' = timeout_count + 1
  /\ detection_reason' = "client timeout"
  /\ detection_result' = IF attack_type = "none" THEN detection_result
                         ELSE "detected_or_timeout"
  /\ pc' = "done"
  /\ UNCHANGED <<config, history, accepted_count, rejected_count,
                 server_reachable, up, down, session>>

Finish ==
  /\ pc = "send" /\ seq > message_count
  /\ pc' = "done"
  /\ UNCHANGED <<config, history, counts, detection, server_reachable, up,
                 down, session>>

\* The network loses a datagram.
Lose ==
  /\ \/ \E d \in up : up' = up \ {d} /\ UNCHANGED down
     \/ \E d \in down : down' = down \ {d} /\ UNCHANGED up
  /\ UNCHANGED <<config, pc, history, counts, detection, server_reachable,
                 session>>

Done == pc = "done" /\ UNCHANGED vars

Client == SendPing \/ EndPing \/ Drop \/ Send \/ Receive \/ ReceiveTimesOut
            \/ Finish
Next == Client \/ Serve \/ Lose \/ Done

\* The client waits SOCKET_TIMEOUT at most and never stops on its own.
Spec == Init /\ [][Next]_vars /\ WF_vars(Client)

-----------------------------------------------------------------------------
(* The columns of the row. *)

recovery_success ==
  attack_type = "none" /\ accepted_count = message_count
    /\ rejected_count = 0 /\ timeout_count = 0
attack_detected == detection_result \in {"detected", "detected_or_timeout"}

\* Packets the client counts as accepted on the word of a late PONG.
Misread == IF Pings /\ ~server_reachable THEN 1 ELSE 0

-----------------------------------------------------------------------------
(* Properties. *)

\* TypeOK: the counters stay within the run.
TypeOK ==
  /\ pc \in {"ping", "pong", "send", "receive", "done"}
  /\ seq \in 1..(message_count + 1)
  /\ accepted_count \in 0..message_count
  /\ rejected_count \in 0..1 /\ timeout_count \in 0..1
  /\ current_mem \in Seq(1..message_count)

\* OffByLatePong: the client's count of accepted packets is the server's
\* last_seq but for the packet in doubt at a timeout, or for the packet whose
\* answer was a late PONG: it never counts two packets the server lacks.
OffByLatePong ==
  pc \in {"send", "done"} =>
    /\ accepted_count <= session.last_seq + Misread
    /\ session.last_seq <= accepted_count + 1
    /\ IsPrefix(session.last_mem, History(message_count))

\* SuccessMeansDelivered: in a row with recovery_success the server has the
\* whole history, save the last packet when the PING timed out.
SuccessMeansDelivered ==
  pc = "done" /\ recovery_success =>
    session.last_seq >= message_count - Misread

\* AttackFound: an attack never goes unnoticed, even when each answer is read
\* one packet late, and the server never goes past it.
AttackFound ==
  pc = "done" /\ attack_type # "none" =>
    attack_detected /\ session.last_seq < attack_seq

\* PrevMemReason: the comments at both prev_mem attacks say that the packet
\* passes the HMAC and is rejected for its prev_mem.
PrevMemReason ==
  pc = "done" /\ attack_type = "prev_mem" /\ rejected_count = 1 =>
    detection_reason = "prev_mem mismatch"

=============================================================================
