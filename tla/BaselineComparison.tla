------------------------- MODULE BaselineComparison -------------------------
(***************************************************************************)
(* One run of run_real_baseline_comparison.py, and the judgment of its     *)
(* row.  A client sends MessageCount messages over one connection to the   *)
(* baseline server; in place of one of them it first sends a disturbed     *)
(* packet (gmcp/attack.py), and after a refusal the message itself.  A     *)
(* read may time out, after which the file object of the connection can    *)
(* never be read again, although the server still answers; or the          *)
(* connection breaks.                                                      *)
(*                                                                         *)
(* The server is BaselineServer seen over a single connection.             *)
(***************************************************************************)
EXTENDS BaselineProtocols, FiniteSets

CONSTANTS
  Compared,      \* PROTOCOLS
  Disturbances,  \* ATTACK_TYPES
  MessageCount,  \* message_count
  MayTimeOut,    \* may a read time out?
  MayBreak       \* may the connection break?

\* ALL_ATTACK_TYPES.
AttackTypes ==
  {"none", "modify_unsigned", "metadata_tamper", "exact_replay",
   "forged_prev_mem_valid_mac", "sequence_gap_valid_mac",
   "cross_session_valid_mac", "cross_epoch_valid_mac"}

\* Of the constants; MC modules state them (ASSUME) for their instances.
ComparedAssumption == Compared \subseteq Protocols
DisturbancesAssumption == Disturbances \subseteq AttackTypes
CountAssumption == MessageCount \in Nat \ {0}
FaultsAssumption == MayTimeOut \in BOOLEAN /\ MayBreak \in BOOLEAN

EPOCH == 1
CLIENT_ID == "client"
Session == "session"
HELLO == [type |-> "HELLO"]

VARIABLES
  protocol, disturbance,  \* the run's cell of the matrix
  pc,       \* where run_one_baseline_experiment is
  seq,      \* the loop variable
  state,    \* the client's copy of the protocol state
  row,      \* the counters and flags of the row
  dead,     \* a read of file_obj timed out
  open,     \* the connection is open
  requests, \* packets the server has not read
  replies,  \* responses the client has not read
  server,   \* the server's state of the session
  log       \* the payload it accepted at each sequence number

run    == <<protocol, disturbance>>
client == <<pc, seq, state, row, dead>>
vars   == <<run, client, open, requests, replies, server, log>>

Payload(n) == <<"message", n>>

Row == [sent |-> 0, accepted |-> 0, rejected |-> 0, timeout |-> 0, error |-> 0,
        attack_done |-> FALSE, attack_injected |-> FALSE,
        attack_detected |-> FALSE, attack_accepted |-> FALSE,
        reason |-> "", resynchronized |-> FALSE, run_valid |-> TRUE]

Init ==
  /\ protocol \in Compared
  /\ disturbance \in Disturbances
  /\ pc = "hello"
  /\ seq = 1
  /\ state = InitialState(Session, CLIENT_ID, EPOCH)
  /\ row = Row
  /\ dead = FALSE /\ open = TRUE
  /\ requests = <<>> /\ replies = <<>>
  /\ server = InitialState(Session, CLIENT_ID, EPOCH)
  /\ log = <<>>

-----------------------------------------------------------------------------
(* Packets *)

\* A ticket_only packet carries the ticket of the client's state, whatever
\* session and epoch it names.
Packet(session, epoch, n, prev) ==
  LET built == Build(protocol, session, CLIENT_ID, epoch, n, prev, Payload(seq))
  IN  IF protocol = "ticket_only"
      THEN [built EXCEPT !.tag = TicketOnlyTag(state)] ELSE built

CleanPacket == Packet(Session, EPOCH, seq, state.last)

FirstPacket ==
  Build(protocol, Session, CLIENT_ID, EPOCH, 1, <<Session>>, Payload(1))

Applicable == disturbance = "forged_prev_mem_valid_mac" => protocol \in Linked

ModifyUnsigned == [CleanPacket EXCEPT !.payload = <<"altered", seq>>]

MetadataTamper ==
  [CleanPacket EXCEPT !.seq = @ + 100,
                      !.prev = IF protocol \in Linked THEN <<"tampered">> ELSE @]

DisturbedPacket ==
  CASE disturbance = "modify_unsigned" -> ModifyUnsigned
    [] disturbance = "metadata_tamper" -> MetadataTamper
    [] disturbance = "exact_replay"    -> FirstPacket
    [] disturbance = "forged_prev_mem_valid_mac" ->
         Packet(Session, EPOCH, seq, <<"forged">>)
    [] disturbance = "sequence_gap_valid_mac" ->
         Packet(Session, EPOCH, seq + 5, state.last)
    [] disturbance = "cross_session_valid_mac" ->
         Packet("cross-session", EPOCH, seq, state.last)
    [] disturbance = "cross_epoch_valid_mac" ->
         Packet(Session, 999, seq, state.last)

\* Mutant: the first message may be the one.
AttackSeqFirst == IF MessageCount \div 2 > 50 THEN 50 ELSE MessageCount \div 2

AttackSeq == LET half == MessageCount \div 2 IN
  IF half < 2 THEN 2 ELSE IF half > 50 THEN 50 ELSE half

-----------------------------------------------------------------------------
(* The server *)

Refusal(packet) ==
  IF packet.session # Session THEN "connection session mismatch"
  ELSE IF packet.epoch # EPOCH THEN "connection epoch mismatch"
  ELSE Verdict(protocol, server, packet)

Serve ==
  /\ requests # <<>>
  /\ LET packet == Head(requests)
         reason == IF packet = HELLO THEN "ok" ELSE Refusal(packet)
     IN  /\ IF packet # HELLO /\ reason = "ok"
            THEN /\ server' = Verified(protocol, server, packet)
                 /\ log' = Append(SubSeq(log, 1, packet.seq - 1), packet.payload)
            ELSE UNCHANGED <<server, log>>
         /\ replies' = IF open
              THEN Append(replies, [ok |-> reason = "ok", reason |-> reason,
                                    last_seq |-> server'.last_seq,
                                    last |-> server'.last])
              ELSE replies
  /\ requests' = Tail(requests)
  /\ UNCHANGED <<run, client, open>>

Break ==
  /\ MayBreak /\ open
  /\ open' = FALSE
  /\ replies' = <<>>
  /\ UNCHANGED <<run, client, requests, server, log>>

-----------------------------------------------------------------------------
(* The client *)

\* The outer except clause: the run ends.
Fail ==
  /\ pc' = "done"
  /\ row' = [row EXCEPT !.run_valid = FALSE]
  /\ UNCHANGED <<seq, state, dead>>

\* sendall.
Send(packet) == open /\ requests' = Append(requests, packet)
SendFails == ~open /\ UNCHANGED requests

SendHello ==
  /\ pc = "hello"
  /\ \/ /\ Send(HELLO)
        /\ pc' = "hello_ack"
        /\ UNCHANGED <<seq, state, row, dead>>
     \/ SendFails /\ Fail
  /\ UNCHANGED <<run, open, replies, server, log>>

\* What recv_json_line may come to: a response, the end of the stream or the
\* error of a file object that has timed out, or a timeout.
Received == ~dead /\ replies # <<>> /\ replies' = Tail(replies)
\* Mutants: the end of the stream is not an error; a file object that timed out
\* can be waited on again.
ReadRaisesIfDead == dead

ReadRaises == dead \/ (~open /\ replies = <<>>)
TimesOut == MayTimeOut /\ ~dead /\ open /\ replies = <<>>

HelloAck ==
  /\ pc = "hello_ack"
  /\ \/ /\ Received
        /\ pc' = "loop"
        /\ UNCHANGED <<seq, state, row, dead>>
     \/ (ReadRaises \/ TimesOut) /\ Fail /\ UNCHANGED replies
  /\ UNCHANGED <<run, open, requests, server, log>>

Attacks == disturbance # "none" /\ seq = AttackSeq /\ ~row.attack_done

\* The head of the loop: the message, or the disturbed packet in its place.
\* Only the cross_session packet is not counted as injected until it is
\* answered.
SendMessage ==
  /\ pc = "loop" /\ seq <= MessageCount
  /\ LET injects == Attacks /\ Applicable
         crosses == disturbance = "cross_session_valid_mac"
     IN  \/ /\ Send(IF injects THEN DisturbedPacket ELSE CleanPacket)
            /\ row' = [row EXCEPT !.sent = @ + 1,
                                  !.attack_done = @ \/ Attacks,
                                  !.attack_injected = @ \/ (injects /\ ~crosses)]
            /\ pc' = IF injects
                     THEN IF crosses THEN "wait_cross" ELSE "wait_attack"
                     ELSE "wait"
            /\ UNCHANGED <<seq, state, dead>>
         \/ SendFails /\ Fail
  /\ UNCHANGED <<run, open, replies, server, log>>

LoopEnds ==
  /\ pc = "loop" /\ seq > MessageCount
  /\ pc' = "done"
  /\ UNCHANGED <<run, seq, state, row, dead, open, requests, replies, server, log>>

\* Mutant: the next message is taken for accepted too.
AcceptedNext(packet, response) == [state EXCEPT !.last_seq = seq + 1]

\* update_state_after_accept: gmcp takes the server's word, the chains their
\* own packet.
Accepted(packet, response) ==
  CASE protocol = "gmcp" ->
         [state EXCEPT !.last_seq = response.last_seq, !.last = response.last]
    [] protocol \in Chained ->
         [state EXCEPT !.last_seq = seq, !.last = Link(packet.prev, packet.payload)]
    [] OTHER -> [state EXCEPT !.last_seq = seq]

NextMessage == pc' = "loop" /\ seq' = seq + 1

\* Mutant: an answer that never came is not counted.
TimedOutUncounted(attacked) == [row EXCEPT !.run_valid = @ /\ ~attacked]

\* What a timeout, and any other exception of the read, leave in the row.
TimedOut(attacked) ==
  [row EXCEPT !.timeout = @ + 1, !.run_valid = @ /\ ~attacked]
Raised == [row EXCEPT !.error = @ + 1, !.run_valid = FALSE]

ReadFails(attacked) ==
  /\ \/ TimesOut /\ row' = TimedOut(attacked) /\ dead' = TRUE
     \/ ReadRaises /\ row' = Raised /\ UNCHANGED dead
  /\ NextMessage
  /\ UNCHANGED <<state, replies>>

\* The answer to a message.  A refusal is counted, and does not by itself make
\* the run invalid.
ReceiveAnswer ==
  /\ pc = "wait"
  /\ \/ /\ Received
        /\ LET response == Head(replies) IN
           IF response.ok
           THEN /\ row' = [row EXCEPT !.accepted = @ + 1]
                /\ state' = Accepted(CleanPacket, response)
           ELSE /\ row' = [row EXCEPT !.rejected = @ + 1]
                /\ UNCHANGED state
        /\ NextMessage
        /\ UNCHANGED dead
     \/ ReadFails(FALSE)
  /\ UNCHANGED <<run, open, requests, server, log>>

\* The answer to the disturbed packet: after a refusal the message itself is
\* sent in the same turn of the loop.
AttackAnswered ==
  /\ Received
  /\ LET response == Head(replies) IN
     IF response.ok
     THEN /\ row' = [row EXCEPT !.accepted = @ + 1, !.attack_injected = TRUE,
                                !.attack_accepted = TRUE]
          /\ state' = Accepted(DisturbedPacket, response)
          /\ NextMessage
          /\ UNCHANGED requests
     ELSE LET refused == [row EXCEPT !.rejected = @ + 1, !.reason = response.reason,
                                     !.attack_injected = TRUE,
                                     !.attack_detected = TRUE]
          IN  /\ \/ /\ Send(CleanPacket)
                    /\ row' = [refused EXCEPT !.sent = @ + 1]
                    /\ pc' = "wait_retry"
                    /\ UNCHANGED seq
                 \/ /\ SendFails
                    /\ IF disturbance = "cross_session_valid_mac"
                       THEN /\ row' = [refused EXCEPT !.run_valid = FALSE]
                            /\ pc' = "done" /\ UNCHANGED seq
                       ELSE /\ row' = [refused EXCEPT !.error = @ + 1,
                                                      !.run_valid = FALSE]
                            /\ NextMessage
              /\ UNCHANGED state
  /\ UNCHANGED dead

ReceiveAttackAnswer ==
  /\ pc \in {"wait_attack", "wait_cross"}
  /\ \/ AttackAnswered
     \/ /\ UNCHANGED requests
        /\ IF pc = "wait_cross" /\ ReadRaises
           THEN Fail /\ UNCHANGED replies
           ELSE ReadFails(TRUE)
  /\ UNCHANGED <<run, open, server, log>>

\* The retry.  When it is refused the loop is left.
ReceiveRetryAnswer ==
  /\ pc = "wait_retry"
  /\ \/ /\ Received
        /\ LET response == Head(replies) IN
           IF response.ok
           THEN /\ row' = [row EXCEPT !.accepted = @ + 1, !.resynchronized = TRUE]
                /\ state' = Accepted(CleanPacket, response)
                /\ NextMessage
           ELSE /\ row' = [row EXCEPT !.rejected = @ + 1, !.run_valid = FALSE]
                /\ pc' = "done"
                /\ UNCHANGED <<seq, state>>
        /\ UNCHANGED dead
     \/ IF disturbance = "cross_session_valid_mac" /\ ReadRaises
        THEN Fail /\ UNCHANGED replies
        ELSE ReadFails(TRUE)
  /\ UNCHANGED <<run, open, requests, server, log>>

Client ==
  \/ SendHello \/ HelloAck \/ SendMessage \/ LoopEnds
  \/ ReceiveAnswer \/ ReceiveAttackAnswer \/ ReceiveRetryAnswer

\* The server waits for packets, also when the run is over.
Idle == requests = <<>> /\ UNCHANGED vars

Next == Client \/ Serve \/ Break \/ Idle

Spec == Init /\ [][Next]_vars

-----------------------------------------------------------------------------
(* The judgment of the row *)

\* Mutant: run_valid alone decides.
RowValidByFlag == row.run_valid

\* baseline_results_valid.
RowValid ==
  /\ row.sent = row.accepted + row.rejected + row.timeout + row.error
  /\ row.timeout = 0 /\ row.error = 0
  /\ row.run_valid

-----------------------------------------------------------------------------
(* Properties *)

Messages == [n \in 1..MessageCount |-> Payload(n)]

TypeOK ==
  /\ pc \in {"hello", "hello_ack", "loop", "wait", "wait_attack", "wait_cross",
             "wait_retry", "done"}
  /\ seq \in 1..MessageCount + 1
  /\ server.last_seq = Len(log) /\ Len(log) <= MessageCount
  /\ row.sent <= MessageCount + 1 /\ row.timeout <= 1

\* A row that is judged valid was a complete experiment: every message was
\* accepted once, in order and unchanged - but for the one the server accepted
\* in its disturbed form - and client and server agree at the end.
ValidRowsAreComplete ==
  pc = "done" /\ RowValid =>
    /\ row.accepted = MessageCount
    /\ Len(log) = MessageCount
    /\ \A n \in 1..MessageCount :
         log[n] = Payload(n) \/ (row.attack_accepted /\ n = AttackSeq)
    /\ state.last_seq = server.last_seq /\ state.last = server.last

\* What a detection in the matrix means: the disturbed packet left no trace,
\* and the session went on.
DetectedLeavesNoTrace ==
  pc = "done" /\ RowValid /\ row.attack_detected =>
    log = Messages /\ row.resynchronized

\* The matrix print_attack_matrix shows, for rows that are valid: every packet
\* that could be injected was, and every one was detected, save a payload
\* altered under ticket_only.
MatrixAsExpected ==
  pc = "done" /\ RowValid /\ disturbance # "none" =>
    /\ row.attack_injected <=> Applicable
    /\ row.attack_injected =>
         (row.attack_detected <=>
            ~(protocol = "ticket_only" /\ disturbance = "modify_unsigned"))

\* Every packet sent ends up in one counter, unless the run was cut short and
\* says so; an answer is never counted twice.
CountersBalance ==
  LET counted == row.accepted + row.rejected + row.timeout + row.error IN
  pc = "done" => /\ row.run_valid => row.sent = counted
                 /\ row.accepted <= Len(log)

\* The client's state is never ahead of the server's.
ClientNeverAhead == state.last_seq <= server.last_seq

=============================================================================
