--------------------------- MODULE ServerSessions ---------------------------
(***************************************************************************)
(* The threads of the ticket server (real_tcp_server_with_ticket.py): one  *)
(* per connection, all sharing the session registry, the session contexts  *)
(* and the nonce store.  Here one action is what a thread does between two *)
(* points where another thread can make a difference, so the registry lock *)
(* and the session locks are explicit, and looking a nonce up and          *)
(* consuming it are two steps.                                             *)
(*                                                                         *)
(* TicketRecovery is about what one session's critical sections compute,   *)
(* and takes each of them as one step; AtomicSessions, which this module   *)
(* implements, says why it may.                                            *)
(* Checkpoints are therefore left out: one is due together with a ticket   *)
(* every TicketInterval messages, and the recovery floor is the last one.  *)
(*                                                                         *)
(* A memory is the sequence of the accepted payloads, a payload is the     *)
(* connection that sent it, and a nonce is a position in the order of      *)
(* issue, as in TicketRecovery.                                            *)
(***************************************************************************)
EXTENDS Integers, Sequences, FiniteSets, SequencesExt

CONSTANTS
  Sessions,         \* session identifiers
  NoSession,        \* a connection that is not bound to a session
  Conns,            \* connections, each with the thread that serves it
  Greets,           \* the connections whose client says HELLO first
  LockStrategy,     \* config.LOCK_STRATEGY
  TicketInterval,   \* a checkpoint and a ticket every so many messages
  DiskMayFail,      \* can writing a checkpoint or making its directory fail?
  MaxLines          \* bound: DATA and RECOVERY_REQUEST lines clients send

ASSUME SessionsAssumption == NoSession \notin Sessions
ASSUME GreetsAssumption == Greets \subseteq Conns
ASSUME LockStrategyAssumption ==
  LockStrategy \in {"per_session_lock", "global_lock"}
ASSUME IntervalAssumption == TicketInterval \in Nat \ {0}
ASSUME LimitsAssumption == DiskMayFail \in BOOLEAN /\ MaxLines \in Nat

VARIABLES
  (* Shared by the threads. *)
  registry,     \* SessionRegistry._contexts: a position in contexts, or 0
  contexts,     \* every SessionContext ever made
  used_nonces,  \* TicketNonceStore._used
  issued,       \* the tickets issued, in order
  (* One thread each. *)
  pc,           \* where the thread is
  holds,        \* the locks it holds
  bound,        \* bound_session_id
  line,         \* the request it is handling
  ctx,          \* the context get_or_create returned
  reply,        \* the response it is about to send
  (* The clients. *)
  held,         \* the tickets clients have received
  acked,        \* the acknowledgements clients have received
  lines         \* lines sent so far

shared  == <<registry, contexts, used_nonces, issued>>
clients == <<held, acked, lines>>
vars == <<shared, pc, holds, bound, line, ctx, reply, clients>>

-----------------------------------------------------------------------------
(* Types *)

Memory == Seq(Conns)

Context == [session : Sessions, last_mem : Memory,
            accepted : Nat, rejected : Nat, total : Nat]

Ticket == [session : Sessions, last_seq : Nat]

\* prev_mem is the memory before the message; its sequence number follows.
DataPacket == [type : {"DATA"}, session : Sessions, prev_mem : Memory]

RecoveryRequest == [type : {"RECOVERY_REQUEST"}, session : Sessions,
                    nonce : Nat]

Reply == [ok : BOOLEAN, reason : {"hello", "unbound", "mismatch", "handled"},
          seq : Nat, nonce : Nat]

Nothing == [type |-> "nothing"]

\* A thread between readline() and the answer to the line.
Steps == {"registry", "lookup", "create", "enter", "verify", "accept",
          "reject", "validate", "consume", "send"}

\* The part of a thread that runs under ctx.lock.
CriticalSteps == {"verify", "accept", "reject", "validate", "consume"}

TypeOK ==
  /\ contexts \in Seq(Context)
  /\ registry \in [Sessions -> 0..Len(contexts)]
  /\ used_nonces \subseteq 1..Len(issued)
  /\ issued \in Seq(Ticket)
  /\ pc \in [Conns -> Steps \union {"reading"}]
  /\ holds \in [Conns -> SUBSET Nat]
  /\ bound \in [Conns -> Sessions \union {NoSession}]
  /\ line \in [Conns -> DataPacket \union RecoveryRequest \union {Nothing}]
  /\ ctx \in [Conns -> 0..Len(contexts)]
  /\ reply \in [Conns -> Reply \union {Nothing}]
  /\ held \subseteq 1..Len(issued)
  /\ acked \subseteq Sessions \X Nat \X Conns
  /\ lines \in 0..MaxLines

Init ==
  /\ registry = [s \in Sessions |-> 0]
  /\ contexts = <<>>
  /\ used_nonces = {}
  /\ issued = <<>>
  /\ pc = [c \in Conns |-> "reading"]
  /\ holds = [c \in Conns |-> {}]
  /\ bound = [c \in Conns |-> NoSession]
  /\ line = [c \in Conns |-> Nothing]
  /\ ctx = [c \in Conns |-> 0]
  /\ reply = [c \in Conns |-> Nothing]
  /\ held = {}
  /\ acked = {}
  /\ lines = 0

-----------------------------------------------------------------------------
(* Locks *)

RegistryLock == 0

\* Mutant: every context keeps the lock it was made with.
LockOfContext(i) == i + 1

\* The lock get_or_create gives the i-th context.
LockOf(i) == IF LockStrategy = "global_lock" THEN 1 ELSE i + 1

Free(lock) == \A c \in Conns : lock \notin holds[c]

\* Mutants: get_or_create does without its lock; handle_client does without
\* the session's.
AcquireNoRegistry(c, lock) ==
  /\ lock = RegistryLock \/ Free(lock)
  /\ holds' = [holds EXCEPT ![c] = @ \union {lock}]
AcquireNoContext(c, lock) ==
  /\ lock # RegistryLock \/ Free(lock)
  /\ holds' = [holds EXCEPT ![c] = @ \union {lock}]

\* A with statement takes a lock and, however its block ends, releases it.
Acquire(c, lock) ==
  /\ Free(lock)
  /\ holds' = [holds EXCEPT ![c] = @ \union {lock}]

Release(c, lock) == holds' = [holds EXCEPT ![c] = @ \ {lock}]

Goto(c, step) == pc' = [pc EXCEPT ![c] = step]

Answer(c, ok, reason, seq, nonce) ==
  /\ reply' = [reply EXCEPT ![c] = [ok |-> ok, reason |-> reason,
                                    seq |-> seq, nonce |-> nonce]]
  /\ Goto(c, "send")

\* The end of handle_client: the socket is closed and the locals are gone.
\* main then accepts another connection in the same slot, with a new thread.
Close(c) ==
  /\ Goto(c, "reading")
  /\ line' = [line EXCEPT ![c] = Nothing]
  /\ ctx' = [ctx EXCEPT ![c] = 0]
  /\ reply' = [reply EXCEPT ![c] = Nothing]
  /\ bound' = [bound EXCEPT ![c] = NoSession]

-----------------------------------------------------------------------------
(* Clients *)

\* The history of a session as its registered context has it.
LogOf(s) == IF registry[s] = 0 THEN <<>> ELSE contexts[registry[s]].last_mem

-----------------------------------------------------------------------------
(* handle_client, outside the locks *)

\* HELLO binds the connection.
Hello(c) ==
  /\ pc[c] = "reading" /\ c \in Greets
  /\ bound[c] = NoSession
  /\ \E s \in Sessions : bound' = [bound EXCEPT ![c] = s]
  /\ Answer(c, TRUE, "hello", 0, 0)
  /\ UNCHANGED <<shared, holds, line, ctx, clients>>

\* What a client may send: a DATA packet built on a memory some client of the
\* session had, or a recovery request with a ticket some client received.
Requests ==
  (UNION {{[type |-> "DATA", session |-> s, prev_mem |-> SubSeq(LogOf(s), 1, n)] :
             n \in 0..Len(LogOf(s))} : s \in Sessions})
  \union [type : {"RECOVERY_REQUEST"}, session : Sessions,
          nonce : held \union {0}]

\* The connection-level binding check.
BoundTo(c, session) == bound[c] = session

\* A line is read.  A connection that is not bound, or bound to another
\* session, gets a refusal and no lock is taken.
ReadLine(c) ==
  /\ pc[c] = "reading"
  /\ c \in Greets => bound[c] # NoSession
  /\ lines < MaxLines
  /\ lines' = lines + 1
  /\ \E request \in Requests :
       IF BoundTo(c, request.session)
       THEN /\ line' = [line EXCEPT ![c] = request]
            /\ Goto(c, "registry")
            /\ UNCHANGED reply
       ELSE /\ Answer(c, FALSE,
                      IF bound[c] = NoSession THEN "unbound" ELSE "mismatch",
                      0, 0)
            /\ UNCHANGED line
  /\ UNCHANGED <<shared, holds, bound, ctx, held, acked>>

\* The client is gone, or has been silent for 30 seconds.
EndOfInput(c) ==
  /\ pc[c] = "reading" /\ bound[c] # NoSession
  /\ Close(c)
  /\ UNCHANGED <<shared, holds, clients>>

\* sendall: the client receives the response, or the thread ends because the
\* client has left, whenever it did.
Send(c) ==
  /\ pc[c] = "send"
  /\ \/ /\ held' = held \union ({reply[c].nonce} \ {0})
        /\ acked' = IF reply[c].ok /\ reply[c].seq > 0
                    THEN acked \union {<<line[c].session, reply[c].seq, c>>}
                    ELSE acked
        /\ Goto(c, "reading")
        /\ line' = [line EXCEPT ![c] = Nothing]
        /\ ctx' = [ctx EXCEPT ![c] = 0]
        /\ reply' = [reply EXCEPT ![c] = Nothing]
        /\ UNCHANGED bound
     \/ /\ Close(c)
        /\ UNCHANGED <<held, acked>>
  /\ UNCHANGED <<shared, holds, lines>>

-----------------------------------------------------------------------------
(* SessionRegistry.get_or_create *)

LockRegistry(c) ==
  /\ pc[c] = "registry"
  /\ Acquire(c, RegistryLock)
  /\ Goto(c, "lookup")
  /\ UNCHANGED <<shared, bound, line, ctx, reply, clients>>

\* Mutant: a session nobody has made yet is waited for.
LookupWaits(c) ==
  /\ pc[c] = "lookup"
  /\ LET i == registry[line[c].session] IN
     IF i = 0
     THEN /\ Goto(c, "registry")
          /\ UNCHANGED ctx
     ELSE /\ ctx' = [ctx EXCEPT ![c] = i]
          /\ Goto(c, "enter")
  /\ Release(c, RegistryLock)
  /\ UNCHANGED <<shared, bound, line, reply, clients>>

Lookup(c) ==
  /\ pc[c] = "lookup"
  /\ LET i == registry[line[c].session] IN
     IF i = 0
     THEN /\ Goto(c, "create")
          /\ UNCHANGED <<holds, ctx>>
     ELSE /\ ctx' = [ctx EXCEPT ![c] = i]
          /\ Goto(c, "enter")
          /\ Release(c, RegistryLock)
  /\ UNCHANGED <<shared, bound, line, reply, clients>>

\* Mutant: the entry is made before the factory is called.
CreateRegistersFirst(c) ==
  /\ pc[c] = "create"
  /\ \/ /\ contexts' = Append(contexts,
             [session |-> line[c].session, last_mem |-> <<>>,
              accepted |-> 0, rejected |-> 0, total |-> 0])
        /\ registry' = [registry EXCEPT ![line[c].session] = Len(contexts')]
        /\ ctx' = [ctx EXCEPT ![c] = Len(contexts')]
        /\ Goto(c, "enter")
        /\ UNCHANGED <<bound, line, reply>>
     \/ /\ DiskMayFail
        /\ Close(c)
        /\ registry' = [registry EXCEPT ![line[c].session] = Len(contexts) + 1]
        /\ UNCHANGED contexts
  /\ Release(c, RegistryLock)
  /\ UNCHANGED <<used_nonces, issued, clients>>

\* The factory makes the context and its CheckpointManager, whose directory
\* may fail to be made: the exception then ends the thread.
Create(c) ==
  /\ pc[c] = "create"
  /\ \/ /\ contexts' = Append(contexts,
             [session |-> line[c].session, last_mem |-> <<>>,
              accepted |-> 0, rejected |-> 0, total |-> 0])
        /\ registry' = [registry EXCEPT ![line[c].session] = Len(contexts')]
        /\ ctx' = [ctx EXCEPT ![c] = Len(contexts')]
        /\ Goto(c, "enter")
        /\ UNCHANGED <<bound, line, reply>>
     \/ /\ DiskMayFail
        /\ Close(c)
        /\ UNCHANGED <<contexts, registry>>
  /\ Release(c, RegistryLock)
  /\ UNCHANGED <<used_nonces, issued, clients>>

-----------------------------------------------------------------------------
(* The critical section *)

Enter(c) ==
  /\ pc[c] = "enter"
  /\ Acquire(c, LockOf(ctx[c]))
  /\ Goto(c, IF line[c].type = "DATA" THEN "verify" ELSE "validate")
  /\ UNCHANGED <<shared, bound, line, ctx, reply, clients>>

\* The checks of verify_data_packet.
Verify(c) ==
  /\ pc[c] = "verify"
  /\ Goto(c, IF line[c].prev_mem = contexts[ctx[c]].last_mem
             THEN "accept" ELSE "reject")
  /\ UNCHANGED <<shared, holds, bound, line, ctx, reply, clients>>

\* The update of verify_data_packet, the counters, the checkpoint and the
\* ticket.  A checkpoint that cannot be written ends the thread after the
\* message has been accepted and before its ticket is issued.
Accept(c) ==
  LET mine == contexts[ctx[c]]
      mem  == Append(line[c].prev_mem, c)
      due  == Len(mem) % TicketInterval = 0
  IN  /\ pc[c] = "accept"
      /\ contexts' = [contexts EXCEPT ![ctx[c]] =
                        [@ EXCEPT !.last_mem = mem,
                                  !.total = mine.total + 1,
                                  !.accepted = mine.accepted + 1]]
      /\ \/ /\ issued' = IF due
                         THEN Append(issued, [session  |-> mine.session,
                                              last_seq |-> Len(mem)])
                         ELSE issued
            /\ Answer(c, TRUE, "handled", Len(mem),
                      IF due THEN Len(issued') ELSE 0)
            /\ UNCHANGED <<bound, line, ctx>>
         \/ /\ due /\ DiskMayFail
            /\ Close(c)
            /\ UNCHANGED issued
      /\ Release(c, LockOf(ctx[c]))
      /\ UNCHANGED <<registry, used_nonces, clients>>

Reject(c) ==
  LET mine == contexts[ctx[c]]
  IN  /\ pc[c] = "reject"
      /\ contexts' = [contexts EXCEPT ![ctx[c]] =
                        [@ EXCEPT !.total = mine.total + 1,
                                  !.rejected = mine.rejected + 1]]
      /\ Answer(c, FALSE, "handled", 0, 0)
      /\ Release(c, LockOf(ctx[c]))
      /\ UNCHANGED <<registry, used_nonces, issued, bound, line, ctx, clients>>

\* The latest checkpoint of a context.
RecoveryFloor(context) ==
  Len(context.last_mem) - (Len(context.last_mem) % TicketInterval)

\* Mutant: the ticket's session is not compared.
TicketValidForAny(nonce, context) ==
  /\ nonce # 0
  /\ issued[nonce].last_seq >= RecoveryFloor(context)
  /\ nonce \notin used_nonces

\* validate_memory_ticket.
TicketValid(nonce, context) ==
  /\ nonce # 0
  /\ issued[nonce].session = context.session
  /\ issued[nonce].last_seq >= RecoveryFloor(context)
  /\ nonce \notin used_nonces

Validate(c) ==
  /\ pc[c] = "validate"
  /\ IF TicketValid(line[c].nonce, contexts[ctx[c]])
     THEN /\ Goto(c, "consume")
          /\ UNCHANGED <<holds, reply>>
     ELSE /\ Answer(c, FALSE, "handled", 0, 0)
          /\ Release(c, LockOf(ctx[c]))
  /\ UNCHANGED <<shared, bound, line, ctx, clients>>

\* consume_ticket_nonce asks once more, then the replacement is issued.
Consume(c) ==
  /\ pc[c] = "consume"
  /\ IF line[c].nonce \in used_nonces
     THEN /\ Answer(c, FALSE, "handled", 0, 0)
          /\ UNCHANGED <<used_nonces, issued>>
     ELSE /\ used_nonces' = used_nonces \union {line[c].nonce}
          /\ issued' = Append(issued,
               [session  |-> contexts[ctx[c]].session,
                last_seq |-> Len(contexts[ctx[c]].last_mem)])
          /\ Answer(c, TRUE, "handled", 0, Len(issued'))
  /\ Release(c, LockOf(ctx[c]))
  /\ UNCHANGED <<registry, contexts, bound, line, ctx, clients>>

-----------------------------------------------------------------------------

\* What a thread does once it has read a line.
Serve(c) ==
  \/ LockRegistry(c)
  \/ Lookup(c)
  \/ Create(c)
  \/ Enter(c)
  \/ Verify(c)
  \/ Accept(c)
  \/ Reject(c)
  \/ Validate(c)
  \/ Consume(c)
  \/ Send(c)

Next ==
  \E c \in Conns :
    \/ Serve(c)
    \/ Hello(c)
    \/ ReadLine(c)
    \/ EndOfInput(c)

Spec == Init /\ [][Next]_vars

\* A thread that can run is run.  threading.Lock is not fair, so a thread is
\* only sure of a lock that stays free: weak fairness, and no more.
FairSpec == Spec /\ \A c \in Conns : WF_vars(Serve(c))

-----------------------------------------------------------------------------
(* Properties *)

Critical(c) == pc[c] \in CriticalSteps

\* A session never has two contexts: every thread that works on it works on
\* the registered one, however the calls of get_or_create interleave.
OneContextPerSession ==
  \A c \in Conns : ctx[c] # 0 => ctx[c] = registry[line[c].session]

\* At most one thread is in the critical section of a session, and with the
\* global lock at most one in any.
CriticalSectionsExclusive ==
  \A c, d \in Conns :
    Critical(c) /\ Critical(d) /\ c # d
    => /\ LockStrategy = "per_session_lock"
       /\ bound[c] # bound[d]

\* An acknowledged message is never lost or replaced: it stays in its session's
\* history at the place the acknowledgement named, whatever else races with it.
AckedInHistory ==
  \A ack \in acked :
    LET s == ack[1]  seq == ack[2]  payload == ack[3] IN
    seq <= Len(LogOf(s)) /\ LogOf(s)[seq] = payload

\* While no thread is inside it, a context's counters agree with its history.
StatsMatchHistory ==
  \A i \in DOMAIN contexts :
    (\A c \in Conns : Critical(c) => ctx[c] # i)
    => /\ contexts[i].accepted = Len(contexts[i].last_mem)
       /\ contexts[i].total = contexts[i].accepted + contexts[i].rejected

\* The nonce store is asked twice, under its own lock, with other sessions'
\* recoveries in between; a nonce that passed the first time always passes the
\* second ("ticket replay detected during nonce consumption" cannot happen).
ValidatedStaysUnused ==
  \A c \in Conns : pc[c] = "consume" => line[c].nonce \notin used_nonces

\* A session's state, and the use of its tickets, only ever change by a thread
\* whose connection is bound to that session.
ChangesOnlyBoundSession ==
  [][\A s \in Sessions :
       \/ LogOf(s)' # LogOf(s)
       \/ \E n \in used_nonces' \ used_nonces : issued[n].session = s
       => \E c \in Conns : bound[c] = s /\ Critical(c)]_vars

\* The threads together implement a server that handles one message or one
\* recovery at a time, also when one of them dies half way.
Atomic == INSTANCE AtomicSessions
            WITH Payloads <- Conns, spent <- used_nonces,
                 log <- [s \in Sessions |-> LogOf(s)]
ImplementsAtomicSessions == Atomic!Spec

\* No thread waits for ever: every line read is answered, or its connection
\* ends.
EveryLineAnswered ==
  \A c \in Conns : pc[c] \in Steps ~> pc[c] = "reading"

\* The drivers the experiment guide runs against this server are served.
DriversAreServed ==
  \A c \in Conns : reply[c] # Nothing => reply[c].reason # "unbound"

=============================================================================
