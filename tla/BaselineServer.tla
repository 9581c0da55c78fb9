--------------------------- MODULE BaselineServer ---------------------------
(***************************************************************************)
(* The threads of real_baseline_server.py.  One server speaks all          *)
(* protocols of BaselineProtocols; a HELLO binds a connection to one       *)
(* protocol, session, sender and epoch, and may be repeated.  A context is *)
(* registered under protocol and session together.                         *)
(*                                                                         *)
(* A verifier updates its state in two assignments, and the answer to a    *)
(* recovery refers to the live list of chain entries, which is turned into *)
(* text only when the answer is sent, after the lock is released: these    *)
(* are the steps another thread can come between.  get_or_create and the   *)
(* registry lock are in ServerSessions, and one step here.                 *)
(*                                                                         *)
(* A payload is the name of the connection that sent it, or "altered" when *)
(* the packet was changed on the way after its tag was computed.           *)
(***************************************************************************)
EXTENDS BaselineProtocols, FiniteSets

CONSTANTS
  Spoken,     \* the protocols clients speak, of those the server supports
  Sessions,   \* session identifiers
  Epochs,     \* the epochs clients say; the server makes states in EPOCH
  Conns,      \* connections, each with its thread
  MaxLines    \* bound: lines clients send after their first HELLO

ASSUME SpokenAssumption == Spoken \subseteq Protocols
ASSUME EpochsAssumption == 1 \in Epochs

EPOCH == 1
CLIENT_ID == "client"
NoConn == "nobody"
Altered == "altered"
ASSUME ConnsAssumption == {NoConn, Altered} \intersect Conns = {}

\* What a HELLO may name: "gmcp_r" is acknowledged like the others, and is
\* supported by no DATA handler.
Named == Spoken \union {"gmcp_r"}
Keys == Spoken \X Sessions

VARIABLES
  registry,  \* SessionRegistry._contexts: a context, or Missing
  owner,     \* who holds ctx.lock
  pc,        \* where the thread of a connection is
  bound,     \* bound_protocol, bound_session_id, bound_sender_id, bound_epoch
  line,      \* the packet the thread is handling
  reply,     \* the response it is about to send
  acked,     \* <<key, seq, payload>> acknowledged to a client
  answers,   \* the recovery answers clients have received
  lines      \* lines sent so far

server  == <<registry, owner>>
clients == <<acked, answers, lines>>
vars == <<server, pc, bound, line, reply, clients>>

Missing == [none |-> TRUE]
Unbound == [protocol |-> "none"]

Init ==
  /\ registry = [k \in Keys |-> Missing]
  /\ owner = [k \in Keys |-> NoConn]
  /\ pc = [c \in Conns |-> "reading"]
  /\ bound = [c \in Conns |-> Unbound]
  /\ line = [c \in Conns |-> Missing]
  /\ reply = [c \in Conns |-> Missing]
  /\ acked = {} /\ answers = {}
  /\ lines = 0

-----------------------------------------------------------------------------
(* Contexts *)

Made(k) == registry[k] # Missing

\* STATE_FACTORIES, by way of _baseline_factory.
NewContext(k) ==
  [state |-> InitialState(k[2], CLIENT_ID, EPOCH),
   accepted |-> 0, rejected |-> 0, total |-> 0, log |-> <<>>]

ContextOf(k) == IF Made(k) THEN registry[k] ELSE NewContext(k)

KeyOf(c) == <<line[c].protocol, line[c].session>>

-----------------------------------------------------------------------------
(* handle_client, outside ctx.lock *)

Goto(c, step) == pc' = [pc EXCEPT ![c] = step]

Answer(c, response) ==
  /\ reply' = [reply EXCEPT ![c] = response]
  /\ Goto(c, "send")

Refusal(reason) == [type |-> "REFUSAL", ok |-> FALSE, reason |-> reason]

Close(c) ==
  /\ Goto(c, "reading")
  /\ bound' = [bound EXCEPT ![c] = Unbound]
  /\ line' = [line EXCEPT ![c] = Missing]
  /\ reply' = [reply EXCEPT ![c] = Missing]

\* A HELLO with a good tag binds the connection, anew if it was bound; one
\* with a bad tag leaves it as it was.  The first HELLO of a connection is not
\* counted in lines.
Hello(c) ==
  /\ pc[c] = "reading"
  /\ \/ bound[c] = Unbound /\ UNCHANGED lines
     \/ bound[c] # Unbound /\ lines < MaxLines /\ lines' = lines + 1
  /\ \/ /\ \E p \in Named, s \in Sessions, e \in Epochs :
             bound' = [bound EXCEPT ![c] =
               [protocol |-> p, session |-> s, sender |-> CLIENT_ID, epoch |-> e]]
        /\ Answer(c, [type |-> "HELLO_ACK", ok |-> TRUE, reason |-> "ok"])
     \/ /\ Answer(c, Refusal("HELLO auth_tag invalid"))
        /\ UNCHANGED bound
  /\ UNCHANGED <<server, line, acked, answers>>

\* The packet a client builds on the first n payloads of a session's history.
Built(c, k, n, e) ==
  Build(k[1], k[2], CLIENT_ID, e, n + 1,
        IF k[1] \in Linked THEN <<k[2]>> \o SubSeq(ContextOf(k).log, 1, n)
        ELSE <<k[2]>>, c)

\* What clients send, besides recovery requests: what they build on a prefix of
\* a history, possibly altered on the way.
DataPackets(c) ==
  LET clean == UNION {{Built(c, k, n, e) :
                         n \in 0..Len(ContextOf(k).log), e \in Epochs} : k \in Keys}
  IN  clean \union {[packet EXCEPT !.payload = Altered] : packet \in clean}

Requests == [type : {"RECOVERY_REQUEST"}, protocol : Named, session : Sessions]

\* The connection-level checks of a DATA packet, in their order.
DataRefusal(c, packet) ==
  CASE bound[c] = Unbound -> "connection not bound"
    [] bound[c] # Unbound /\ bound[c].protocol # packet.protocol ->
         "connection protocol mismatch"
    [] OTHER ->
         IF bound[c].session # packet.session THEN "connection session mismatch"
         ELSE IF bound[c].sender # packet.sender THEN "connection sender mismatch"
         ELSE IF bound[c].epoch # packet.epoch THEN "connection epoch mismatch"
         ELSE "none"

\* A packet of a protocol no verifier supports is refused before its binding
\* is looked at.
ReadData(c) ==
  /\ pc[c] = "reading" /\ lines < MaxLines
  /\ lines' = lines + 1
  /\ \/ bound[c] # Unbound /\ Answer(c, Refusal("unsupported protocol")) /\ UNCHANGED line
     \/ \E packet \in DataPackets(c) :
          LET refusal == DataRefusal(c, packet) IN
          IF refusal = "none"
          THEN /\ line' = [line EXCEPT ![c] = packet]
               /\ Goto(c, "enter")
               /\ UNCHANGED reply
          ELSE /\ Answer(c, Refusal(refusal))
               /\ UNCHANGED line
  /\ UNCHANGED <<server, bound, acked, answers>>

\* The checks of a RECOVERY_REQUEST: its epoch and sender are not compared,
\* its tag is checked after the binding, its protocol last.
RequestRefusal(c, request, tag_valid) ==
  CASE bound[c] = Unbound -> "connection not bound"
    [] bound[c] # Unbound /\ bound[c].protocol # request.protocol ->
         "connection protocol mismatch"
    [] OTHER ->
         IF bound[c].session # request.session THEN "connection session mismatch"
         ELSE IF ~tag_valid THEN "invalid recovery request auth_tag"
         ELSE IF request.protocol \notin Protocols THEN "unsupported protocol"
         ELSE "none"

ReadRequest(c) ==
  /\ pc[c] = "reading" /\ lines < MaxLines
  /\ lines' = lines + 1
  /\ \E request \in Requests, tag_valid \in BOOLEAN :
       LET refusal == RequestRefusal(c, request, tag_valid) IN
       IF refusal = "none"
       THEN /\ line' = [line EXCEPT ![c] = request]
            /\ Goto(c, "recover")
            /\ UNCHANGED reply
       ELSE /\ Answer(c, Refusal(refusal))
            /\ UNCHANGED line
  /\ UNCHANGED <<server, bound, acked, answers>>

\* The client is gone, or silent for 30 seconds.
EndOfInput(c) ==
  /\ pc[c] = "reading" /\ bound[c] # Unbound
  /\ Close(c)
  /\ UNCHANGED <<server, clients>>

-----------------------------------------------------------------------------
(* Under ctx.lock *)

\* What history a verifier stands for: at each sequence number, the payload it
\* accepted last.
Placed(log, packet) == Append(SubSeq(log, 1, packet.seq - 1), packet.payload)

\* Mutant: the block is not under the lock.
FreeAlways(k) == TRUE

Free(k) == owner[k] = NoConn

Release(k) == owner' = [owner EXCEPT ![k] = NoConn]

DataResponse(ok, reason, state) ==
  [type |-> "DATA", ok |-> ok, reason |-> reason, last_seq |-> state.last_seq]

\* get_or_create, the lock, and the verdict.  A rejected packet only counts.
Verify(c) ==
  LET k == KeyOf(c)
      context == ContextOf(k)
      verdict == Verdict(k[1], context.state, line[c])
  IN  /\ pc[c] = "enter" /\ Free(k)
      /\ IF verdict = "ok"
         THEN /\ owner' = [owner EXCEPT ![k] = c]
              /\ registry' = [registry EXCEPT ![k] =
                   [context EXCEPT !.state = Advanced(k[1], context.state, line[c]),
                                   !.log = Placed(context.log, line[c])]]
              /\ Goto(c, "chain")
              /\ UNCHANGED reply
         ELSE /\ registry' = [registry EXCEPT ![k] =
                   [context EXCEPT !.total = context.total + 1,
                                   !.rejected = context.rejected + 1]]
              /\ Answer(c, DataResponse(FALSE, verdict, context.state))
              /\ UNCHANGED owner
      /\ UNCHANGED <<bound, line, clients>>

\* The rest of the update, the counters and the response.
Accept(c) ==
  LET k == KeyOf(c)
      context == registry[k]
  IN  /\ pc[c] = "chain"
      /\ registry' = [registry EXCEPT ![k] =
           [context EXCEPT !.state = Chain(k[1], context.state),
                           !.total = context.total + 1,
                           !.accepted = context.accepted + 1]]
      /\ Release(k)
      /\ Answer(c, DataResponse(TRUE, "ok", context.state))
      /\ UNCHANGED <<bound, line, clients>>

\* handle_recovery_request takes last_seq and last under the lock, and of
\* hash_chain only the reference, which Send looks up.
RecoveryResponse(k, context) ==
  [type |-> "RECOVERY_RESPONSE", ok |-> TRUE, reason |-> "ok", key |-> k,
   server_last_seq |-> context.state.last_seq, last |-> context.state.last,
   hash_chain |-> <<>>]

Recover(c) ==
  LET k == KeyOf(c) IN
  /\ pc[c] = "recover" /\ Free(k)
  /\ registry' = [registry EXCEPT ![k] = ContextOf(k)]
  /\ Answer(c, RecoveryResponse(k, ContextOf(k)))
  /\ UNCHANGED <<owner, bound, line, clients>>

-----------------------------------------------------------------------------

\* send_json_line.  The client receives the response, or has left and the
\* thread ends.
Send(c) ==
  /\ pc[c] = "send"
  /\ \/ /\ acked' = IF reply[c].type = "DATA" /\ reply[c].ok
                    THEN acked \union {<<KeyOf(c), reply[c].last_seq, line[c].payload>>}
                    ELSE acked
        /\ answers' = IF reply[c].type = "RECOVERY_RESPONSE"
                      THEN answers \union
                             {[reply[c] EXCEPT !.hash_chain =
                                registry[reply[c].key].state.hash_chain]}
                      ELSE answers
        /\ Goto(c, "reading")
        /\ line' = [line EXCEPT ![c] = Missing]
        /\ reply' = [reply EXCEPT ![c] = Missing]
        /\ UNCHANGED bound
     \/ /\ Close(c)
        /\ UNCHANGED <<acked, answers>>
  /\ UNCHANGED <<server, lines>>

Serve(c) == Verify(c) \/ Accept(c) \/ Recover(c) \/ Send(c)

Next ==
  \E c \in Conns :
    Serve(c) \/ Hello(c) \/ ReadData(c) \/ ReadRequest(c) \/ EndOfInput(c)

Spec == Init /\ [][Next]_vars

-----------------------------------------------------------------------------
(* Properties *)

Logs == [k \in Keys |-> ContextOf(k).log]

TypeOK ==
  /\ \A k \in Keys :
       Made(k) => /\ registry[k].state.last_seq \in 0..MaxLines
                  /\ registry[k].log \in Seq(Conns \union {Altered})
  /\ owner \in [Keys -> Conns \union {NoConn}]
  /\ pc \in [Conns -> {"reading", "enter", "chain", "recover", "send"}]
  /\ acked \subseteq Keys \X (1..MaxLines) \X (Conns \union {Altered})
  /\ lines \in 0..MaxLines

\* What the server keeps of a session agrees with the packets it accepted
\* whenever nobody is between the two assignments of the update: the number,
\* the hash and the entries of the history, and the counters.
ContextsAgree ==
  \A k \in Keys :
    Made(k) /\ owner[k] = NoConn =>
      LET context == registry[k] IN
      /\ context.state.last_seq = Len(context.log)
      /\ k[1] \in Linked => context.state.last = <<k[2]>> \o context.log
      /\ k[1] \in Chained =>
           context.state.hash_chain =
             [i \in 1..Len(context.log) |->
                [seq |-> i, hash |-> <<k[2]>> \o SubSeq(context.log, 1, i)]]
      /\ context.accepted = Len(context.log)
      /\ context.total = context.accepted + context.rejected

\* An acknowledged message stays in its session's history at the place the
\* acknowledgement named, whichever connections raced for that place.
AckedInLog ==
  \A ack \in acked :
    LET k == ack[1]  seq == ack[2]  payload == ack[3] IN
    seq <= Len(Logs[k]) /\ Logs[k][seq] = payload

\* A payload changed after its packet was built is in no history, except that
\* of ticket_only, whose ticket says nothing of the payload.
AlteredNeverAccepted ==
  \A k \in Keys : k[1] # "ticket_only" => ~Contains(Logs[k], Altered)

\* A recovery answer is sent after its lock is released, with the list of
\* entries as it is by then: it still covers the sequence number and the hash
\* that were read under the lock.
AnswersCoverSnapshot ==
  \A answer \in answers :
    answer.key[1] \in Chained =>
      LET n == answer.server_last_seq IN
      /\ Len(answer.hash_chain) >= n
      /\ n > 0 => answer.hash_chain[n].hash = answer.last

\* The threads together implement sessions that accept one packet at a time
\* and never take one back.
Atomic == INSTANCE AtomicSessions
            WITH Sessions <- Keys, Payloads <- Conns \union {Altered},
                 log <- Logs, issued <- <<>>, spent <- {}
ImplementsAtomicSessions == Atomic!Spec

\* What recover_from_chain is for: the chain of an answer leads from its first
\* entry to the server's last sequence number.
ChainAnswersRecover ==
  \A answer \in answers :
    answer.key[1] \in Chained /\ answer.server_last_seq > 0 =>
      RecoverFromChain(answer.hash_chain, 1, answer.server_last_seq) = "ok"

=============================================================================
