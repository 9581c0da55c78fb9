------------------------- MODULE RecoveryValidation -------------------------
(***************************************************************************)
(* One experiment of run_recovery_validation.py: a client sends N messages *)
(* on one session, the connection is closed after the message number point *)
(* by the client or by the server, and the client says HELLO again on a    *)
(* second connection, checks that the server resumed where it should, goes *)
(* on, and judges from the server's FINAL_STATE whether the run was valid. *)
(*                                                                         *)
(* The server is the script's EmbeddedTCPServer: one thread per connection *)
(* and one lock around the session state, which it does not hold while it  *)
(* sends.  Any wait of the client may time out, and what it then leaves    *)
(* unread or unserved the server still works on, next to the second        *)
(* connection.                                                             *)
(*                                                                         *)
(* The payload of a message is determined by its number, so a chained      *)
(* memory (last_mem, last_hash) is the sequence of the accepted numbers.   *)
(* Left out: HMACs, provenance, the matrix checks and the clocks, and      *)
(* connections refused (the server listens before the client starts).      *)
(***************************************************************************)
EXTENDS Integers, Sequences, FiniteSets, Functions

CONSTANTS
  MessageCount,   \* messages of a run
  Protocols,      \* the protocols tried
  MayTimeOut      \* may a read of the client time out?

ASSUME MessageCountAssumption == MessageCount \in Nat /\ MessageCount > 1
ASSUME ProtocolsAssumption ==
  Protocols \subseteq {"gmcp_r", "seq_mac", "authenticated_hash_chain"}
ASSUME MayTimeOutAssumption == MayTimeOut \in BOOLEAN

Conns == 1..2
Seqs  == 1..MessageCount

VARIABLES
  (* The run's parameters. *)
  protocol, point, type,   \* disconnect_point, disconnect_type
  (* The server's state of the session, under its lock. *)
  session,
  (* Its threads, one per connection: where one is, what it will send. *)
  thread, reply,
  (* The network. *)
  inbox, outbox,           \* to the server, to the client
  client_open,             \* has the client left the connection open?
  timed_out,               \* has a read of the client timed out on it?
  (* The client. *)
  step, conn, seq,         \* where it is, its connection, the next message
  last_seq, last_mem,      \* its ProtocolAdapter
  run, final               \* what it notes down, and the FINAL_STATE answer

parameters == <<protocol, point, type>>
server  == <<session, thread, reply>>
adapter == <<last_seq, last_mem>>
client  == <<step, conn, seq, adapter, run, final, client_open, timed_out>>
vars == <<parameters, server, inbox, outbox, client>>

-----------------------------------------------------------------------------
(* Types *)

Memory == Seq(Seqs)

\* EmbeddedTCPServer's dictionaries, at the one session_id.
Session ==
  [known : BOOLEAN, last_seq : {0} \union Seqs, last_mem : Memory,
   received : [Seqs -> Nat], accepted : SUBSET Seqs, rejected : Nat,
   duplicates : Nat, armed : {0} \union Seqs, triggered : BOOLEAN]

Request ==
  [type : {"HELLO", "ARM_SERVER_CLOSE", "FINAL_STATE"}]
  \union [type : {"DATA"}, seq : Seqs, prev_mem : Memory]

Ack == [type : {"HELLO_ACK"}, resumed : BOOLEAN,
        last_seq : {0} \union Seqs, last_mem : Memory]
Verdict == [type : {"ARM_ACK"}, ok : BOOLEAN]
           \union [type : {"DATA"}, ok : BOOLEAN, close : BOOLEAN]
FinalState ==
  [type : {"FINAL_STATE_ACK"}, total : Nat, unique : Nat, duplicates : Nat,
   rejected : Nat, missing : Nat, triggered : BOOLEAN,
   last_seq : {0} \union Seqs, last_mem : Memory]

Nothing == [type |-> "nothing"]

Replies == Ack \union Verdict \union FinalState \union {Nothing}

\* The local variables of run_one_recovery_experiment.
Run ==
  [hello1 : BOOLEAN, hello2 : BOOLEAN, armed : BOOLEAN, triggered : BOOLEAN,
   observed : BOOLEAN, resumed : BOOLEAN, resume_seq : {-1, 0} \union Seqs,
   resume_match : BOOLEAN, internal : BOOLEAN, timeouts : Nat,
   sent : Nat, accepted : [Conns -> Nat], rejected : Nat]

TypeOK ==
  /\ protocol \in Protocols
  /\ point \in 1..(MessageCount - 1)
  /\ type \in {"client_close", "server_close"}
  /\ session \in Session
  /\ thread \in [Conns -> {"reading", "greet", "send", "trigger",
                           "shutdown", "done"}]
  /\ reply \in [Conns -> Replies]
  /\ inbox \in [Conns -> Seq(Request)]
  /\ outbox \in [Conns -> Seq(Replies)]
  /\ client_open \in [Conns -> BOOLEAN]
  /\ timed_out \in [Conns -> BOOLEAN]
  /\ step \in {"connect", "hello", "arm", "arming", "send", "wait", "close",
               "final", "collect", "done"}
  /\ conn \in Conns
  /\ seq \in Seqs
  /\ last_seq \in {0} \union Seqs
  /\ last_mem \in Memory
  /\ run \in Run
  /\ final \in FinalState \union {Nothing}

Init ==
  /\ protocol \in Protocols
  /\ point \in 1..(MessageCount - 1)
  /\ type \in {"client_close", "server_close"}
  /\ session = [known |-> FALSE, last_seq |-> 0, last_mem |-> <<>>,
                received |-> [s \in Seqs |-> 0], accepted |-> {},
                rejected |-> 0, duplicates |-> 0, armed |-> 0,
                triggered |-> FALSE]
  /\ thread = [c \in Conns |-> "reading"]
  /\ reply = [c \in Conns |-> Nothing]
  /\ inbox = [c \in Conns |-> <<>>]
  /\ outbox = [c \in Conns |-> <<>>]
  /\ client_open = [c \in Conns |-> TRUE]
  /\ timed_out = [c \in Conns |-> FALSE]
  /\ step = "connect" /\ conn = 1 /\ seq = 1
  /\ last_seq = 0 /\ last_mem = <<>>
  /\ run = [hello1 |-> FALSE, hello2 |-> FALSE, armed |-> FALSE,
            triggered |-> FALSE, observed |-> FALSE, resumed |-> FALSE,
            resume_seq |-> -1, resume_match |-> FALSE, internal |-> FALSE,
            timeouts |-> 0, sent |-> 0, accepted |-> [c \in Conns |-> 0],
            rejected |-> 0]
  /\ final = Nothing

Chained == protocol \in {"gmcp_r", "authenticated_hash_chain"}

Extended(mem, s) == IF Chained THEN Append(mem, s) ELSE mem

-----------------------------------------------------------------------------
(* The server's threads *)

Goto(c, place) == thread' = [thread EXCEPT ![c] = place]

\* Take the first line of connection c, if it is of the given type.
Read(c, kind) ==
  /\ thread[c] = "reading"
  /\ inbox[c] # <<>> /\ Head(inbox[c]).type = kind
  /\ inbox' = [inbox EXCEPT ![c] = Tail(@)]
  /\ UNCHANGED <<parameters, outbox, client>>

Reply(c, answer) == reply' = [reply EXCEPT ![c] = answer]

HelloAck(resumed) ==
  [type |-> "HELLO_ACK", resumed |-> resumed,
   last_seq |-> session.last_seq, last_mem |-> session.last_mem]

HandleHello(c) ==
  /\ Read(c, "HELLO")
  /\ IF session.known
     THEN /\ Reply(c, HelloAck(TRUE))
          /\ Goto(c, "send")
          /\ UNCHANGED session
     ELSE /\ session' = [session EXCEPT !.known = TRUE]
          /\ Goto(c, "greet")
          /\ UNCHANGED reply

\* The acknowledgement of a new session is made after the lock is released.
Greet(c) ==
  /\ thread[c] = "greet"
  /\ Reply(c, HelloAck(FALSE))
  /\ Goto(c, "send")
  /\ UNCHANGED <<parameters, session, inbox, outbox, client>>

HandleArm(c) ==
  LET valid == session.known /\ point > session.last_seq
  IN  /\ Read(c, "ARM_SERVER_CLOSE")
      /\ session' = IF valid THEN [session EXCEPT !.armed = point] ELSE session
      /\ Reply(c, [type |-> "ARM_ACK", ok |-> valid])
      /\ Goto(c, "send")

\* Mutant: the chain is not compared.
VerifiedSeq(packet) == packet.seq = session.last_seq + 1

\* verify_data_packet of the session's verifier.
Verified(packet) ==
  /\ packet.seq = session.last_seq + 1
  /\ Chained => packet.prev_mem = session.last_mem

\* Mutant: the number is added to the accepted ones before it is verified.
CountedEarly(packet) ==
  [session EXCEPT !.received[packet.seq] = @ + 1,
                  !.duplicates = IF session.received[packet.seq] > 0
                                 THEN @ + 1 ELSE @,
                  !.accepted = @ \union {packet.seq},
                  !.last_seq = IF Verified(packet) THEN packet.seq ELSE @,
                  !.last_mem = IF Verified(packet)
                               THEN Extended(@, packet.seq) ELSE @,
                  !.rejected = IF Verified(packet) THEN @ ELSE @ + 1]

\* The session after a DATA packet: it is counted, then verified.
Counted(packet) ==
  LET seen == [session EXCEPT
                 !.received[packet.seq] = @ + 1,
                 !.duplicates = IF session.received[packet.seq] > 0
                                THEN @ + 1 ELSE @]
  IN  IF Verified(packet)
      THEN [seen EXCEPT !.last_seq = packet.seq,
                        !.last_mem = Extended(@, packet.seq),
                        !.accepted = @ \union {packet.seq}]
      ELSE [seen EXCEPT !.rejected = @ + 1]

HandleData(c) ==
  LET packet == Head(inbox[c])
      ok     == Verified(packet)
  IN  /\ Read(c, "DATA")
      /\ session' = Counted(packet)
      /\ Reply(c, [type |-> "DATA", ok |-> ok,
                   close |-> ok /\ packet.seq = session.armed])
      /\ Goto(c, "send")

HandleFinalState(c) ==
  /\ Read(c, "FINAL_STATE")
  /\ Reply(c,
       [type       |-> "FINAL_STATE_ACK",
        total      |-> FoldFunction(+, 0, session.received),
        unique     |-> Cardinality(session.accepted),
        duplicates |-> session.duplicates,
        rejected   |-> session.rejected,
        missing    |-> Cardinality(Seqs \ session.accepted),
        triggered  |-> session.triggered,
        last_seq   |-> session.last_seq,
        last_mem   |-> session.last_mem])
  /\ Goto(c, "send")
  /\ UNCHANGED session

ClosesAfter(c) == reply[c].type = "DATA" /\ reply[c].close

\* Mutant: the close is noted when the answer could not be sent.
AfterSendingInverted(c, sent) ==
  IF ~ClosesAfter(c) THEN "reading"
  ELSE IF sent THEN "shutdown" ELSE "trigger"

\* Mutant: the connection stays open.
AfterSendingOpen(c, sent) == "reading"

\* Where a thread goes on once it has sent its answer, or could not.
AfterSending(c, sent) ==
  IF ~ClosesAfter(c) THEN "reading"
  ELSE IF sent THEN "trigger" ELSE "shutdown"

\* An answer to a client that has gone may be lost without being noticed.
Send(c) ==
  /\ thread[c] = "send"
  /\ \E sent \in BOOLEAN :
       /\ client_open[c] => sent
       /\ outbox' = IF client_open[c]
                    THEN [outbox EXCEPT ![c] = Append(@, reply[c])]
                    ELSE outbox
       /\ Goto(c, AfterSending(c, sent))
  /\ Reply(c, Nothing)
  /\ UNCHANGED <<parameters, session, inbox, client>>

Trigger(c) ==
  /\ thread[c] = "trigger"
  /\ session' = [session EXCEPT !.triggered = TRUE, !.armed = 0]
  /\ Goto(c, "shutdown")
  /\ UNCHANGED <<parameters, reply, inbox, outbox, client>>

Shutdown(c) ==
  /\ thread[c] = "shutdown"
  /\ Goto(c, "done")
  /\ UNCHANGED <<parameters, session, reply, inbox, outbox, client>>

\* The client has gone; lines it had sent may be lost with the connection.
EndOfInput(c) ==
  /\ thread[c] = "reading" /\ ~client_open[c]
  /\ Goto(c, "done")
  /\ UNCHANGED <<parameters, session, reply, inbox, outbox, client>>

-----------------------------------------------------------------------------
(* The client: run_one_recovery_experiment *)

At(place) == step = place /\ UNCHANGED <<parameters, server>>

\* Send a request and wait, or take the next answer.  A read that timed out
\* leaves the file object unreadable: every later one raises OSError.
Ask(request) ==
  /\ inbox' = [inbox EXCEPT ![conn] = Append(@, request)]
  /\ UNCHANGED <<outbox, conn, seq, adapter, final, client_open, timed_out>>
Receive ==
  /\ ~timed_out[conn] /\ outbox[conn] # <<>>
  /\ outbox' = [outbox EXCEPT ![conn] = Tail(@)]
  /\ UNCHANGED <<inbox, conn, timed_out>>
Answer == Head(outbox[conn])

Connect ==
  /\ At("connect")
  /\ Ask([type |-> "HELLO"])
  /\ step' = "hello"
  /\ UNCHANGED run

\* Phase 1: the ProtocolAdapter is made when send_hello has succeeded.
Greeted ==
  /\ At("hello") /\ conn = 1
  /\ Receive
  /\ run' = [run EXCEPT !.hello1 = TRUE]
  /\ step' = IF type = "server_close" THEN "arm" ELSE "send"
  /\ UNCHANGED <<seq, adapter, final, client_open>>

ArmServerClose ==
  /\ At("arm")
  /\ Ask([type |-> "ARM_SERVER_CLOSE"])
  /\ step' = "arming"
  /\ UNCHANGED run

Armed ==
  /\ At("arming")
  /\ Receive
  /\ run' = [run EXCEPT !.armed = Answer.ok, !.internal = ~Answer.ok]
  /\ step' = IF Answer.ok THEN "send" ELSE "close"
  /\ UNCHANGED <<seq, adapter, final, client_open>>

SendData ==
  /\ At("send")
  /\ Ask([type |-> "DATA", seq |-> seq, prev_mem |-> last_mem])
  /\ run' = [run EXCEPT !.sent = @ + 1]
  /\ step' = "wait"

\* Mutant: the loop over a phase's messages runs one too far.
LastOneTooFar(c) == IF c = 1 THEN point ELSE MessageCount + 1

\* The last message of the loop on connection c.
LastOf(c) == IF c = 1 THEN point ELSE MessageCount

\* The answer to a message; the loop goes on also after a rejection.
Answered ==
  /\ At("wait")
  /\ Receive
  /\ IF Answer.ok
     THEN /\ last_seq' = seq
          /\ last_mem' = Extended(last_mem, seq)
          /\ run' = [run EXCEPT !.accepted[conn] = @ + 1]
     ELSE /\ run' = [run EXCEPT !.rejected = @ + 1]
          /\ UNCHANGED adapter
  /\ IF seq = LastOf(conn)
     THEN /\ step' = IF conn = 1 THEN "close" ELSE "final"
          /\ UNCHANGED seq
     ELSE /\ step' = "send"
          /\ seq' = seq + 1
  /\ UNCHANGED <<final, client_open>>

\* Phase 2 ends with close_tcp; the client will open the second connection.
Disconnect(observed) ==
  /\ run' = [run EXCEPT !.observed = observed, !.triggered = observed]
  /\ client_open' = [client_open EXCEPT ![1] = FALSE]
  /\ conn' = 2
  /\ step' = "connect"
  /\ UNCHANGED <<inbox, outbox, seq, adapter, final>>

ClientClose ==
  /\ At("close") /\ type = "client_close"
  /\ Disconnect(run.accepted[1] = point)
  /\ UNCHANGED timed_out

\* The read that waits for the server's close ends with it, or with an OSError
\* if a read timed out before.  An answer instead is not a close.
ServerClose ==
  /\ At("close") /\ type = "server_close"
  /\ timed_out[1] \/ outbox[1] # <<>> \/ thread[1] = "done"
  /\ Disconnect(timed_out[1] \/ outbox[1] = <<>>)
  /\ UNCHANGED timed_out

\* It may also time out.  socket.timeout is an OSError, so that the clause for
\* the close catches it and the clause for the timeout below it never does.
CloseTimesOut ==
  /\ At("close") /\ type = "server_close"
  /\ MayTimeOut /\ ~timed_out[1] /\ outbox[1] = <<>>
  /\ Disconnect(TRUE)
  /\ timed_out' = [timed_out EXCEPT ![1] = TRUE]

\* Phase 3.  Without an adapter the first message cannot be built.
Resumed ==
  /\ At("hello") /\ conn = 2
  /\ Receive
  /\ run' = [run EXCEPT
       !.hello2 = TRUE,
       !.resumed = Answer.resumed,
       !.resume_seq = Answer.last_seq,
       !.resume_match = /\ Answer.last_seq = point /\ last_seq = point
                        /\ Chained => Answer.last_mem = last_mem,
       !.internal = @ \/ ~run.hello1]
  /\ IF run.hello1
     THEN /\ step' = "send"
          /\ seq' = point + 1
          /\ UNCHANGED client_open
     ELSE /\ step' = "done"
          /\ client_open' = [client_open EXCEPT ![2] = FALSE]
          /\ UNCHANGED seq
  /\ UNCHANGED <<adapter, final>>

RequestFinalState ==
  /\ At("final")
  /\ Ask([type |-> "FINAL_STATE"])
  /\ step' = "collect"
  /\ UNCHANGED run

FinalStateReceived ==
  /\ At("collect")
  /\ Receive
  /\ final' = Answer
  /\ run' = [run EXCEPT !.triggered = IF type = "server_close"
                                     THEN Answer.triggered ELSE @]
  /\ step' = "done"
  /\ client_open' = [client_open EXCEPT ![2] = FALSE]
  /\ UNCHANGED <<seq, adapter>>

\* A read raises: phase 1 goes on to phase 2; in phase 3 the loop over the
\* messages goes on to FINAL_STATE and everything else ends the run.  It does
\* so by timing out, or at once if a read of the connection has timed out.
ReadFails ==
  /\ step \in {"hello", "arming", "wait", "collect"}
  /\ At(step)
  /\ MayTimeOut \/ timed_out[conn]
  /\ timed_out' = [timed_out EXCEPT ![conn] = TRUE]
  /\ run' = [run EXCEPT
       !.timeouts = IF step = "wait" THEN @ + 1 ELSE @,
       !.internal = @ \/ conn = 1 \/ step # "wait"]
  /\ step' = IF conn = 1 THEN "close" ELSE IF step = "wait" THEN "final" ELSE "done"
  /\ client_open' = IF step' = "done" THEN [client_open EXCEPT ![2] = FALSE]
                    ELSE client_open
  /\ UNCHANGED <<inbox, outbox, conn, seq, adapter, final>>

-----------------------------------------------------------------------------
(* The verdict *)

\* disconnect_valid.
DisconnectValid ==
  /\ run.triggered /\ run.observed
  /\ type = "server_close" => run.armed

\* Mutant: the disconnect is not judged.
ExecutionValidAnyhow ==
  /\ run.hello1 /\ run.hello2
  /\ run.resumed /\ run.resume_seq = point /\ run.resume_match
  /\ ~run.internal /\ final # Nothing

\* execution_valid.
ExecutionValid ==
  /\ run.hello1 /\ run.hello2
  /\ DisconnectValid
  /\ run.resumed /\ run.resume_seq = point /\ run.resume_match
  /\ ~run.internal /\ final # Nothing

\* final_sequence_match and final_state_match.
FinalStateMatches ==
  /\ last_seq = MessageCount /\ final.last_seq = MessageCount
  /\ Chained => final.last_mem = last_mem

\* client_server_count_match.
CountsMatch ==
  /\ final.total = run.sent
  /\ final.unique = run.accepted[1] + run.accepted[2]
  /\ final.rejected = run.rejected

\* Mutant: only the server's counts are judged.
RunValidByCounts ==
  /\ final # Nothing
  /\ final.unique = MessageCount /\ final.missing = 0
  /\ final.duplicates = 0 /\ final.rejected = 0

\* result_success and run_valid.
RunValid ==
  /\ ExecutionValid
  /\ final.unique = MessageCount /\ final.missing = 0
  /\ run.timeouts = 0
  /\ FinalStateMatches
  /\ final.duplicates = 0 /\ final.rejected = 0

\* validate_recovery_rows, on the row of this run.
GatePasses ==
  /\ RunValid
  /\ FinalStateMatches /\ CountsMatch
  /\ DisconnectValid
  /\ run.accepted[1] + run.accepted[2] = MessageCount
  /\ final.total = MessageCount
  /\ run.rejected = 0

-----------------------------------------------------------------------------

Thread(c) ==
  \/ HandleHello(c)
  \/ Greet(c)
  \/ HandleArm(c)
  \/ HandleData(c)
  \/ HandleFinalState(c)
  \/ Send(c)
  \/ Trigger(c)
  \/ Shutdown(c)
  \/ EndOfInput(c)

Client ==
  \/ Connect
  \/ Greeted
  \/ ArmServerClose
  \/ Armed
  \/ SendData
  \/ Answered
  \/ ClientClose
  \/ ServerClose
  \/ Resumed
  \/ RequestFinalState
  \/ FinalStateReceived

Next ==
  \/ \E c \in Conns : Thread(c)
  \/ Client
  \/ ReadFails
  \/ CloseTimesOut

Spec == Init /\ [][Next]_vars

\* The client and every thread run when they can; no read has to time out, but
\* one that can only fail does.
FairSpec ==
  /\ Spec
  /\ WF_vars(Client) /\ \A c \in Conns : WF_vars(Thread(c))
  /\ WF_vars(timed_out[conn] /\ ReadFails)

-----------------------------------------------------------------------------
(* Properties *)

\* What the server counts is what happened to it: everything it received it
\* accepted or rejected, and it accepted the numbers up to last_seq, each
\* once, whatever two connections interleave.
AccountsBalance ==
  /\ session.accepted = 1..session.last_seq
  /\ FoldFunction(+, 0, session.received)
       = Cardinality(session.accepted) + session.rejected
  /\ session.duplicates =
       FoldFunction(+, 0, [s \in Seqs |-> IF session.received[s] > 1
                                         THEN session.received[s] - 1 ELSE 0])

Finished == step = "done"

\* A run that is judged valid was one: the server received each message once
\* and accepted all of them in order, the client was told so of each, both
\* have the same memory, and the server closed, if it was to, after
\* acknowledging the message number point.
RunValidSound ==
  Finished /\ RunValid
  => /\ session.received = [s \in Seqs |-> 1]
     /\ session.last_seq = MessageCount /\ session.rejected = 0
     /\ run.accepted = <<point, MessageCount - point>>
     /\ last_mem = session.last_mem
     /\ type = "server_close" => session.triggered /\ session.armed = 0

\* A run in which no read timed out is judged valid: the order in which the
\* server notes its close, closes, and is asked about it cannot go wrong.
NoFalseAlarm ==
  Finished /\ (\A c \in Conns : ~timed_out[c]) => RunValid

\* The publication gate judges a row again, and by more columns than the run
\* did (the counts of the two sides, the disconnect on its own): it never
\* refuses, and so never discards the whole matrix for, a run judged valid.
GateAgrees ==
  Finished /\ RunValid => GatePasses

\* The server's memory and the client's are a history and a view of it, also
\* when messages the client gave up on are accepted after it reconnected.
History == INSTANCE SharedHistory
             WITH Payloads <- Seqs, log <- session.last_mem, view <- last_mem
ImplementsSharedHistory == History!Spec

\* Every run ends.
RunEnds == <>Finished

\* A valid run had no timeout ("total_timeout must equal 0"); in particular the
\* server's close was seen, not given up on.
ValidRunHadNoTimeout ==
  Finished /\ RunValid => \A c \in Conns : ~timed_out[c]

=============================================================================
