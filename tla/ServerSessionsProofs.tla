------------------------ MODULE ServerSessionsProofs ------------------------
(***************************************************************************)
(* Theorems about ServerSessions, for any number of sessions and           *)
(* connections, either locking strategy, every ticket interval and any     *)
(* bound on the lines.                                                     *)
(*                                                                         *)
(* The inductive invariant says of each thread what it may rely on at the  *)
(* place where it is (Thread), and that the locks keep two threads apart.  *)
(* A step of one thread leaves the others what they rely on because it     *)
(* fits SharedGrows: histories and tickets only grow, a context changes    *)
(* only under its lock and a registry entry only under the registry's.     *)
(*                                                                         *)
(* The last two parts are about the threads of two other programs: the     *)
(* clients of the concurrent experiment (ConcurrentClients), which take    *)
(* turns under the same two lock strategies, and the sampling thread of    *)
(* the resource monitor (ResourceMonitor).                                 *)
(***************************************************************************)
EXTENDS ServerSessions, CollectionLemmas

-----------------------------------------------------------------------------
(* The inductive invariant *)

Data     == {"verify", "accept", "reject"}
Recovery == {"validate", "consume"}

\* The locks a thread holds follow from where it is.
Needed(c) ==
  IF pc[c] \in {"lookup", "create"} THEN {RegistryLock}
  ELSE IF Critical(c) THEN {LockOf(ctx[c])} ELSE {}

\* While it works on a line, the line is for the session it is bound to; the
\* context it got is the registered one.
Working(c) ==
  /\ pc[c] = "reading" => line[c] = Nothing /\ ctx[c] = 0
  /\ pc[c] \in Steps \ {"send"} =>
       line[c] # Nothing /\ bound[c] = line[c].session
  /\ pc[c] \in {"registry", "lookup", "create"} => ctx[c] = 0
  /\ pc[c] = "create" => registry[line[c].session] = 0
  /\ pc[c] = "enter" \/ Critical(c) => ctx[c] # 0
  /\ ctx[c] # 0 => line[c] # Nothing /\ ctx[c] = registry[line[c].session]
  /\ pc[c] \in Data => line[c].type = "DATA"
  /\ pc[c] \in Recovery => line[c].type = "RECOVERY_REQUEST"

\* What was checked is still so: the memory the message extends, and the
\* ticket that was looked up.
Checked(c) ==
  /\ pc[c] = "accept" => line[c].prev_mem = contexts[ctx[c]].last_mem
  /\ line[c].type = "RECOVERY_REQUEST" => line[c].nonce \in 0..Len(issued)
  /\ pc[c] = "consume" =>
       /\ line[c].nonce # 0
       /\ issued[line[c].nonce].session = line[c].session
       /\ line[c].nonce \notin used_nonces

\* An acknowledgement names the place its message has in the history.
Answered(c) ==
  pc[c] = "send" =>
    /\ reply[c] \in Reply
    /\ reply[c].nonce \in 0..Len(issued)
    /\ reply[c].ok /\ reply[c].seq > 0 =>
         /\ line[c] # Nothing
         /\ reply[c].seq <= Len(LogOf(line[c].session))
         /\ LogOf(line[c].session)[reply[c].seq] = c

Thread(c) ==
  Working(c) /\ holds[c] = Needed(c) /\ Checked(c) /\ Answered(c)

LocksDisjoint ==
  \A c, d \in Conns : c # d => holds[c] \intersect holds[d] = {}

\* Sessions and contexts correspond one to one.
Registered ==
  /\ \A s \in Sessions : registry[s] # 0 => contexts[registry[s]].session = s
  /\ \A i \in DOMAIN contexts : registry[contexts[i].session] = i

Counted ==
  \A i \in DOMAIN contexts :
    /\ contexts[i].accepted = Len(contexts[i].last_mem)
    /\ contexts[i].total = contexts[i].accepted + contexts[i].rejected

IInv ==
  /\ TypeOK
  /\ \A c \in Conns : Thread(c)
  /\ LocksDisjoint
  /\ Registered
  /\ Counted
  /\ AckedInHistory
  /\ \A ack \in acked : ack[2] > 0

-----------------------------------------------------------------------------
(* Type correctness *)

\* A line that is not Nothing is for a session and of one of two kinds.
LEMMA LineType ==
  ASSUME TypeOK, NEW c \in Conns, line[c] # Nothing
  PROVE  /\ line[c].session \in Sessions
         /\ line[c].type \in {"DATA", "RECOVERY_REQUEST"}
         /\ line[c].type = "DATA" =>
              line[c] \in DataPacket /\ line[c].prev_mem \in Memory
         /\ line[c].type = "RECOVERY_REQUEST" =>
              line[c] \in RecoveryRequest /\ line[c].nonce \in Nat
<1>1. line[c] \in DataPacket \union RecoveryRequest
  BY DEF TypeOK
<1>2. QED
  BY <1>1 DEF DataPacket, RecoveryRequest

\* The context a thread works in, and what kind of record it is.
LEMMA OwnContext ==
  ASSUME TypeOK, Registered, NEW c \in Conns, Working(c), ctx[c] # 0
  PROVE  /\ ctx[c] \in DOMAIN contexts
         /\ contexts[ctx[c]] \in Context
         /\ contexts[ctx[c]].session = line[c].session
         /\ line[c].session \in Sessions
         /\ registry[line[c].session] = ctx[c]
<1>1. line[c] # Nothing /\ ctx[c] = registry[line[c].session]
  BY DEF Working
<1>2. line[c].session \in Sessions
  BY <1>1, LineType
<1>3. ctx[c] \in 1..Len(contexts) /\ contexts \in Seq(Context)
  BY DEF TypeOK
<1>4. QED
  BY <1>1, <1>2, <1>3 DEF Registered

\* The history of a session is a memory.
LEMMA LogType ==
  ASSUME TypeOK, NEW s \in Sessions
  PROVE  LogOf(s) \in Memory
<1>1. registry[s] \in 0..Len(contexts) /\ contexts \in Seq(Context)
  BY DEF TypeOK
<1>2. CASE registry[s] = 0
  BY <1>2 DEF LogOf, Memory
<1>3. CASE registry[s] # 0
  <2>1. contexts[registry[s]] \in Context
    BY <1>1, <1>3
  <2>2. QED
    BY <1>3, <2>1 DEF LogOf, Context
<1>4. QED
  BY <1>2, <1>3

LEMMA LogTypeNext ==
  ASSUME TypeOK', NEW s \in Sessions
  PROVE  LogOf(s)' \in Memory
<1>1. registry'[s] \in 0..Len(contexts') /\ contexts' \in Seq(Context)
  BY DEF TypeOK
<1>2. CASE registry'[s] = 0
  BY <1>2 DEF LogOf, Memory
<1>3. CASE registry'[s] # 0
  <2>1. contexts'[registry'[s]] \in Context
    BY <1>1, <1>3
  <2>2. QED
    BY <1>3, <2>1 DEF LogOf, Context
<1>4. QED
  BY <1>2, <1>3

\* What a client may send is a line.
LEMMA RequestType ==
  ASSUME TypeOK, NEW request \in Requests
  PROVE  /\ request \in DataPacket \union RecoveryRequest
         /\ request.type = "RECOVERY_REQUEST" => request.nonce \in 0..Len(issued)
<1>1. held \subseteq 1..Len(issued) /\ Len(issued) \in Nat
  BY DEF TypeOK
<1>2. ASSUME NEW s \in Sessions, NEW n \in 0..Len(LogOf(s)),
             request = [type |-> "DATA", session |-> s,
                        prev_mem |-> SubSeq(LogOf(s), 1, n)]
      PROVE  request \in DataPacket /\ request.type = "DATA"
  <2>1. LogOf(s) \in Seq(Conns)
    BY LogType DEF Memory
  <2>2. SubSeq(LogOf(s), 1, n) \in Seq(Conns)
    BY <2>1
  <2>3. QED
    BY <1>2, <2>2 DEF DataPacket, Memory
<1>3. ASSUME request \in [type : {"RECOVERY_REQUEST"}, session : Sessions,
                          nonce : held \union {0}]
      PROVE  request \in RecoveryRequest /\ request.nonce \in 0..Len(issued)
  <2>1. held \union {0} \subseteq 0..Len(issued) /\ 0..Len(issued) \subseteq Nat
    BY <1>1
  <2>2. QED
    BY <1>3, <2>1 DEF RecoveryRequest
<1>4. QED
  BY <1>2, <1>3 DEF Requests

\* A thread that ends, or that answers, stays well typed.
LEMMA CloseType ==
  ASSUME TypeOK, NEW c \in Conns, Close(c), Len(contexts) <= Len(contexts'),
         Len(contexts') \in Nat
  PROVE  /\ pc' \in [Conns -> Steps \union {"reading"}]
         /\ line' \in [Conns -> DataPacket \union RecoveryRequest \union {Nothing}]
         /\ ctx' \in [Conns -> 0..Len(contexts')]
         /\ reply' \in [Conns -> Reply \union {Nothing}]
         /\ bound' \in [Conns -> Sessions \union {NoSession}]
BY DEF TypeOK, Close, Goto

LEMMA AnswerType ==
  ASSUME TypeOK, NEW c \in Conns, NEW ok \in BOOLEAN,
         NEW reason \in {"hello", "unbound", "mismatch", "handled"},
         NEW seq \in Nat, NEW nonce \in Nat, Answer(c, ok, reason, seq, nonce)
  PROVE  /\ pc' \in [Conns -> Steps \union {"reading"}]
         /\ reply' \in [Conns -> Reply \union {Nothing}]
         /\ pc'[c] = "send"
         /\ reply'[c] \in Reply
         /\ reply'[c].seq = seq /\ reply'[c].nonce = nonce
BY DEF TypeOK, Answer, Goto, Steps, Reply

LEMMA LocksType ==
  ASSUME TypeOK, NEW c \in Conns, NEW lock \in Nat,
         Acquire(c, lock) \/ Release(c, lock)
  PROVE  holds' \in [Conns -> SUBSET Nat]
<1>1. holds[c] \union {lock} \in SUBSET Nat /\ holds[c] \ {lock} \in SUBSET Nat
  BY DEF TypeOK
<1>2. QED
  BY <1>1 DEF TypeOK, Acquire, Release

LEMMA LockOfType ==
  ASSUME NEW i \in Nat
  PROVE  LockOf(i) \in Nat \ {RegistryLock}
BY DEF LockOf, RegistryLock

\* A context after a message was taken into it, and after one was rejected.
LEMMA GrownContext ==
  ASSUME NEW context \in Context, NEW mem \in Memory
  PROVE  LET took == [context EXCEPT !.last_mem = mem,
                                     !.total = context.total + 1,
                                     !.accepted = context.accepted + 1]
             refused == [context EXCEPT !.total = context.total + 1,
                                        !.rejected = context.rejected + 1]
         IN  /\ took \in Context
             /\ took.session = context.session /\ took.last_mem = mem
             /\ took.total = context.total + 1
             /\ took.accepted = context.accepted + 1
             /\ took.rejected = context.rejected
             /\ refused \in Context
             /\ refused.session = context.session
             /\ refused.last_mem = context.last_mem
             /\ refused.total = context.total + 1
             /\ refused.accepted = context.accepted
             /\ refused.rejected = context.rejected + 1
<1>1. /\ context.total \in Nat /\ context.accepted \in Nat
      /\ context.rejected \in Nat
      /\ context.total + 1 \in Nat /\ context.accepted + 1 \in Nat
      /\ context.rejected + 1 \in Nat
  BY DEF Context
<1>2. QED
  BY <1>1 DEF Context

\* What accepting a message does to the contexts: the thread's own context
\* gains the payload at the end of its history, and no other changes.
LEMMA AcceptEffect ==
  ASSUME TypeOK, Registered, NEW c \in Conns, Thread(c), Accept(c)
  PROVE  /\ contexts' \in Seq(Context) /\ Len(contexts') = Len(contexts)
         /\ ctx[c] \in DOMAIN contexts
         /\ contexts[ctx[c]].last_mem \in Seq(Conns)
         /\ line[c].prev_mem = contexts[ctx[c]].last_mem
         /\ contexts'[ctx[c]].session = contexts[ctx[c]].session
         /\ contexts'[ctx[c]].last_mem = Append(contexts[ctx[c]].last_mem, c)
         /\ contexts'[ctx[c]].accepted = contexts[ctx[c]].accepted + 1
         /\ contexts'[ctx[c]].total = contexts[ctx[c]].total + 1
         /\ contexts'[ctx[c]].rejected = contexts[ctx[c]].rejected
         /\ \A i \in DOMAIN contexts : i # ctx[c] => contexts'[i] = contexts[i]
<1> DEFINE mine == contexts[ctx[c]]
           mem == Append(line[c].prev_mem, c)
           took == [mine EXCEPT !.last_mem = mem, !.total = mine.total + 1,
                                !.accepted = mine.accepted + 1]
<1>1. ctx[c] # 0 /\ line[c].prev_mem = mine.last_mem
  BY DEF Accept, Thread, Working, Checked, Critical, CriticalSteps
<1>2. ctx[c] \in DOMAIN contexts /\ mine \in Context
  BY <1>1, OwnContext DEF Thread
<1>3. mine.last_mem \in Seq(Conns) /\ mem \in Memory
  BY <1>1, <1>2 DEF Context, Memory
<1>4. contexts' = [contexts EXCEPT ![ctx[c]] = took]
  BY DEF Accept
<1>5. /\ took \in Context
      /\ took.session = mine.session /\ took.last_mem = mem
      /\ took.accepted = mine.accepted + 1
      /\ took.total = mine.total + 1 /\ took.rejected = mine.rejected
  BY <1>2, <1>3, GrownContext
<1> HIDE DEF took, mine
<1>6. /\ contexts' \in Seq(Context) /\ Len(contexts') = Len(contexts)
      /\ contexts'[ctx[c]] = took
      /\ \A i \in DOMAIN contexts : i # ctx[c] => contexts'[i] = contexts[i]
  BY <1>2, <1>4, <1>5 DEF TypeOK
<1>7. QED
  BY <1>1, <1>2, <1>3, <1>5, <1>6 DEF mine

\* What rejecting one does: only two counters of the thread's own context move.
LEMMA RejectEffect ==
  ASSUME TypeOK, Registered, NEW c \in Conns, Thread(c), Reject(c)
  PROVE  /\ contexts' \in Seq(Context) /\ Len(contexts') = Len(contexts)
         /\ ctx[c] \in DOMAIN contexts
         /\ contexts'[ctx[c]].session = contexts[ctx[c]].session
         /\ contexts'[ctx[c]].last_mem = contexts[ctx[c]].last_mem
         /\ contexts'[ctx[c]].accepted = contexts[ctx[c]].accepted
         /\ contexts'[ctx[c]].total = contexts[ctx[c]].total + 1
         /\ contexts'[ctx[c]].rejected = contexts[ctx[c]].rejected + 1
         /\ \A i \in DOMAIN contexts : i # ctx[c] => contexts'[i] = contexts[i]
<1> DEFINE mine == contexts[ctx[c]]
           refused == [mine EXCEPT !.total = mine.total + 1,
                                   !.rejected = mine.rejected + 1]
<1>1. ctx[c] # 0
  BY DEF Reject, Thread, Working, Critical, CriticalSteps
<1>2. ctx[c] \in DOMAIN contexts /\ mine \in Context
  BY <1>1, OwnContext DEF Thread
<1>3. mine.last_mem \in Memory
  BY <1>2 DEF Context
<1>4. contexts' = [contexts EXCEPT ![ctx[c]] = refused]
  BY DEF Reject
<1>5. /\ refused \in Context
      /\ refused.session = mine.session /\ refused.last_mem = mine.last_mem
      /\ refused.accepted = mine.accepted
      /\ refused.total = mine.total + 1 /\ refused.rejected = mine.rejected + 1
  BY <1>2, <1>3, GrownContext
<1> HIDE DEF refused, mine
<1>6. /\ contexts' \in Seq(Context) /\ Len(contexts') = Len(contexts)
      /\ contexts'[ctx[c]] = refused
      /\ \A i \in DOMAIN contexts : i # ctx[c] => contexts'[i] = contexts[i]
  BY <1>2, <1>4, <1>5 DEF TypeOK
<1>7. QED
  BY <1>2, <1>5, <1>6 DEF mine

\* A ticket issued is appended to the order of issue.
LEMMA IssueType ==
  ASSUME TypeOK, NEW ticket \in Ticket,
         issued' = issued \/ issued' = Append(issued, ticket)
  PROVE  /\ issued' \in Seq(Ticket)
         /\ Len(issued) \in Nat /\ Len(issued') \in Nat
         /\ Len(issued) <= Len(issued')
         /\ \A n \in 1..Len(issued) : issued'[n] = issued[n]
<1>1. issued \in Seq(Ticket)
  BY DEF TypeOK
<1>2. QED
  BY <1>1

\* Every step keeps the variables within their types.
LEMMA TypeStep ==
  ASSUME IInv, NEW c \in Conns,
         Serve(c) \/ Hello(c) \/ ReadLine(c) \/ EndOfInput(c)
  PROVE  TypeOK'
<1> USE DEF IInv
<1>1. CASE Hello(c)
  <2>1. reply' \in [Conns -> Reply \union {Nothing}]
        /\ pc' \in [Conns -> Steps \union {"reading"}]
    BY <1>1, AnswerType DEF Hello
  <2>2. bound' \in [Conns -> Sessions \union {NoSession}]
    BY <1>1 DEF Hello, TypeOK
  <2>3. QED
    BY <1>1, <2>1, <2>2 DEF Hello, TypeOK, shared, clients
<1>2. CASE ReadLine(c)
  <2>1. lines' \in 0..MaxLines
    BY <1>2, LimitsAssumption DEF ReadLine, TypeOK
  <2>2. PICK request \in Requests :
          IF BoundTo(c, request.session)
          THEN /\ line' = [line EXCEPT ![c] = request]
               /\ Goto(c, "registry")
               /\ UNCHANGED reply
          ELSE /\ Answer(c, FALSE,
                         IF bound[c] = NoSession THEN "unbound" ELSE "mismatch",
                         0, 0)
               /\ UNCHANGED line
    BY <1>2 DEF ReadLine
  <2>3. request \in DataPacket \union RecoveryRequest
    BY RequestType
  <2>4. CASE BoundTo(c, request.session)
    <3>1. line' \in [Conns -> DataPacket \union RecoveryRequest \union {Nothing}]
      BY <2>2, <2>3, <2>4 DEF TypeOK
    <3>2. pc' \in [Conns -> Steps \union {"reading"}] /\ reply' = reply
      BY <2>2, <2>4 DEF TypeOK, Goto, Steps
    <3>3. QED
      BY <1>2, <2>1, <3>1, <3>2 DEF ReadLine, TypeOK, shared
  <2>5. CASE ~BoundTo(c, request.session)
    <3>1. /\ reply' \in [Conns -> Reply \union {Nothing}]
          /\ pc' \in [Conns -> Steps \union {"reading"}]
      BY <2>2, <2>5, AnswerType
    <3>2. QED
      BY <1>2, <2>1, <2>2, <2>5, <3>1 DEF ReadLine, TypeOK, shared
  <2>6. QED
    BY <2>4, <2>5
<1>3. CASE EndOfInput(c)
  BY <1>3, CloseType DEF EndOfInput, TypeOK, shared, clients
<1>4. CASE LockRegistry(c)
  <2>1. holds' \in [Conns -> SUBSET Nat]
    BY <1>4, LocksType DEF LockRegistry, RegistryLock
  <2>2. QED
    BY <1>4, <2>1 DEF LockRegistry, Goto, Steps, TypeOK, shared, clients
<1>5. CASE Lookup(c)
  <2>1. holds' \in [Conns -> SUBSET Nat]
    BY <1>5, LocksType DEF Lookup, RegistryLock, TypeOK
  <2>2. line[c] # Nothing
    BY <1>5 DEF Lookup, Thread, Working, Steps
  <2>3. registry[line[c].session] \in 0..Len(contexts)
    BY <2>2, LineType DEF TypeOK
  <2>4. pc' \in [Conns -> Steps \union {"reading"}] /\ ctx' \in [Conns -> 0..Len(contexts)]
    <3>1. CASE registry[line[c].session] = 0
      BY <1>5, <3>1 DEF Lookup, Goto, Steps, TypeOK
    <3>2. CASE registry[line[c].session] # 0
      <4>1. /\ pc' = [pc EXCEPT ![c] = "enter"]
            /\ ctx' = [ctx EXCEPT ![c] = registry[line[c].session]]
        BY <1>5, <3>2 DEF Lookup, Goto
      <4>2. QED
        BY <2>3, <4>1 DEF Steps, TypeOK
    <3>3. QED
      BY <3>1, <3>2
  <2>5. QED
    BY <1>5, <2>1, <2>4 DEF Lookup, TypeOK, shared, clients
<1>6. CASE Create(c)
  <2>1. holds' \in [Conns -> SUBSET Nat]
    BY <1>6, LocksType DEF Create, RegistryLock
  <2>2. line[c].session \in Sessions
    BY <1>6, LineType DEF Create, Thread, Working, Steps
  <2>3. CASE Close(c) /\ UNCHANGED <<contexts, registry>>
    <3>1. Len(contexts') <= Len(contexts) /\ Len(contexts') \in Nat
      BY <2>3 DEF TypeOK
    <3>2. QED
      BY <1>6, <2>1, <2>3, <3>1, CloseType DEF Create, TypeOK, clients
  <2>4. CASE ~(Close(c) /\ UNCHANGED <<contexts, registry>>)
    <3> DEFINE new == [session |-> line[c].session, last_mem |-> <<>>,
                       accepted |-> 0, rejected |-> 0, total |-> 0]
    <3>1. new \in Context
      BY <2>2 DEF Context, Memory
    <3>2. contexts' = Append(contexts, new)
      BY <1>6, <2>4 DEF Create
    <3>3. contexts' \in Seq(Context) /\ Len(contexts') = Len(contexts) + 1
      BY <3>1, <3>2 DEF TypeOK
    <3>4. /\ registry' = [registry EXCEPT ![line[c].session] = Len(contexts')]
          /\ ctx' = [ctx EXCEPT ![c] = Len(contexts')]
          /\ Goto(c, "enter")
          /\ UNCHANGED <<bound, line, reply>>
      BY <1>6, <2>4 DEF Create
    <3>5. registry' \in [Sessions -> 0..Len(contexts')]
          /\ ctx' \in [Conns -> 0..Len(contexts')]
      <4>1. Len(contexts) \in Nat /\ 0..Len(contexts) \subseteq 0..Len(contexts')
            /\ Len(contexts') \in 0..Len(contexts')
        BY <3>3 DEF TypeOK
      <4>2. QED
        BY <3>4, <4>1 DEF TypeOK
    <3>6. QED
      BY <1>6, <2>1, <3>3, <3>4, <3>5 DEF Create, Goto, Steps, TypeOK, clients
  <2>5. QED
    BY <2>3, <2>4
<1>7. CASE Enter(c)
  <2>1. LockOf(ctx[c]) \in Nat
    BY LockOfType DEF TypeOK
  <2>2. holds' \in [Conns -> SUBSET Nat]
    BY <1>7, <2>1, LocksType DEF Enter
  <2>3. QED
    BY <1>7, <2>2 DEF Enter, Goto, Steps, TypeOK, shared, clients
<1>8. CASE Verify(c)
  BY <1>8 DEF Verify, Goto, Steps, TypeOK, shared, clients
<1>9. CASE Accept(c)
  <2> DEFINE mem == Append(line[c].prev_mem, c)
             ticket == [session |-> contexts[ctx[c]].session,
                        last_seq |-> Len(mem)]
  <2>1. /\ contexts' \in Seq(Context) /\ Len(contexts') = Len(contexts)
        /\ contexts[ctx[c]].last_mem \in Seq(Conns)
        /\ line[c].prev_mem = contexts[ctx[c]].last_mem
        /\ ctx[c] \in DOMAIN contexts
    BY <1>9, AcceptEffect
  <2>2. Len(mem) \in Nat
    BY <2>1
  <2>3. ticket \in Ticket
    <3>1. contexts[ctx[c]] \in Context
      BY <2>1 DEF TypeOK
    <3>2. QED
      BY <2>2, <3>1 DEF Context, Ticket
  <2>4. holds' \in [Conns -> SUBSET Nat]
    <3>1. LockOf(ctx[c]) \in Nat
      BY LockOfType DEF TypeOK
    <3>2. QED
      BY <1>9, <3>1, LocksType DEF Accept
  <2>5. CASE Close(c) /\ UNCHANGED issued
    <3>1. Len(contexts) <= Len(contexts') /\ Len(contexts') \in Nat
      BY <2>1 DEF TypeOK
    <3>2. QED
      BY <1>9, <2>1, <2>4, <2>5, <3>1, CloseType DEF Accept, TypeOK, clients
  <2>6. CASE ~(Close(c) /\ UNCHANGED issued)
    <3>1. /\ issued' = issued \/ issued' = Append(issued, ticket)
          /\ Answer(c, TRUE, "handled", Len(mem),
                    IF Len(mem) % TicketInterval = 0 THEN Len(issued') ELSE 0)
          /\ UNCHANGED <<bound, line, ctx>>
      BY <1>9, <2>6 DEF Accept
    <3> HIDE DEF ticket, mem
    <3>2. /\ issued' \in Seq(Ticket) /\ Len(issued) <= Len(issued')
          /\ Len(issued) \in Nat /\ Len(issued') \in Nat
      BY <2>3, <3>1, IssueType
    <3>3. /\ reply' \in [Conns -> Reply \union {Nothing}]
          /\ pc' \in [Conns -> Steps \union {"reading"}]
      BY <2>2, <3>1, <3>2, AnswerType
    <3>4. used_nonces \subseteq 1..Len(issued') /\ held \subseteq 1..Len(issued')
      BY <3>2 DEF TypeOK
    <3>5. QED
      BY <1>9, <2>1, <2>4, <3>1, <3>2, <3>3, <3>4 DEF Accept, TypeOK, clients
  <2>7. QED
    BY <2>5, <2>6
<1>10. CASE Reject(c)
  <2>1. contexts' \in Seq(Context) /\ Len(contexts') = Len(contexts)
    BY <1>10, RejectEffect
  <2>2. holds' \in [Conns -> SUBSET Nat]
    <3>1. LockOf(ctx[c]) \in Nat
      BY LockOfType DEF TypeOK
    <3>2. QED
      BY <1>10, <3>1, LocksType DEF Reject
  <2>3. /\ reply' \in [Conns -> Reply \union {Nothing}]
        /\ pc' \in [Conns -> Steps \union {"reading"}]
    BY <1>10, AnswerType DEF Reject
  <2>4. QED
    BY <1>10, <2>1, <2>2, <2>3 DEF Reject, TypeOK, clients
<1>11. CASE Validate(c)
  <2>1. LockOf(ctx[c]) \in Nat
    BY LockOfType DEF TypeOK
  <2>2. holds' \in [Conns -> SUBSET Nat]
    BY <1>11, <2>1, LocksType DEF Validate, TypeOK
  <2>3. /\ pc' \in [Conns -> Steps \union {"reading"}]
        /\ reply' \in [Conns -> Reply \union {Nothing}]
    <3>1. CASE TicketValid(line[c].nonce, contexts[ctx[c]])
      BY <1>11, <3>1 DEF Validate, Goto, Steps, TypeOK
    <3>2. CASE ~TicketValid(line[c].nonce, contexts[ctx[c]])
      BY <1>11, <3>2, AnswerType DEF Validate
    <3>3. QED
      BY <3>1, <3>2
  <2>4. QED
    BY <1>11, <2>2, <2>3 DEF Validate, TypeOK, shared, clients
<1>12. CASE Consume(c)
  <2> DEFINE mine == contexts[ctx[c]]
             ticket == [session |-> mine.session, last_seq |-> Len(mine.last_mem)]
  <2>1. ctx[c] # 0 /\ line[c].nonce # 0 /\ line[c].nonce \in 0..Len(issued)
        /\ line[c].nonce \notin used_nonces
    BY <1>12, LineType DEF Consume, Thread, Working, Checked, Critical,
                           CriticalSteps, Recovery
  <2>2. ticket \in Ticket
    <3>1. mine \in Context
      BY <2>1, OwnContext DEF Thread
    <3>2. QED
      BY <3>1 DEF Context, Ticket, Memory
  <2>3. /\ used_nonces' = used_nonces \union {line[c].nonce}
        /\ issued' = Append(issued, ticket)
        /\ Answer(c, TRUE, "handled", 0, Len(issued'))
    BY <1>12, <2>1 DEF Consume
  <2>4. issued' \in Seq(Ticket) /\ Len(issued') = Len(issued) + 1
        /\ Len(issued) \in Nat /\ Len(issued') \in Nat
    BY <2>2, <2>3 DEF TypeOK
  <2>5. used_nonces' \subseteq 1..Len(issued') /\ held \subseteq 1..Len(issued')
    <3>1. 1..Len(issued) \subseteq 1..Len(issued') /\ line[c].nonce \in 1..Len(issued')
      BY <2>1, <2>4
    <3>2. used_nonces \subseteq 1..Len(issued) /\ held \subseteq 1..Len(issued)
      BY DEF TypeOK
    <3>3. QED
      BY <2>3, <3>1, <3>2
  <2>6. holds' \in [Conns -> SUBSET Nat]
    <3>1. LockOf(ctx[c]) \in Nat
      BY LockOfType DEF TypeOK
    <3>2. QED
      BY <1>12, <3>1, LocksType DEF Consume
  <2>7. /\ reply' \in [Conns -> Reply \union {Nothing}]
        /\ pc' \in [Conns -> Steps \union {"reading"}]
    BY <2>3, <2>4, AnswerType
  <2>8. QED
    BY <1>12, <2>4, <2>5, <2>6, <2>7 DEF Consume, TypeOK, clients
<1>13. CASE Send(c)
  <2>1. CASE Close(c) /\ UNCHANGED <<held, acked>>
    BY <1>13, <2>1, CloseType DEF Send, TypeOK, shared
  <2>2. CASE ~(Close(c) /\ UNCHANGED <<held, acked>>)
    <3> DEFINE acks == reply[c].ok /\ reply[c].seq > 0
    <3>0. /\ held' = held \union ({reply[c].nonce} \ {0})
          /\ acked' = IF acks THEN acked \union {<<line[c].session, reply[c].seq, c>>}
                      ELSE acked
          /\ Goto(c, "reading")
          /\ line' = [line EXCEPT ![c] = Nothing]
          /\ ctx' = [ctx EXCEPT ![c] = 0]
          /\ reply' = [reply EXCEPT ![c] = Nothing]
          /\ UNCHANGED bound
      BY <1>13, <2>2 DEF Send
    <3> HIDE DEF acks
    <3>1. Answered(c) /\ pc[c] = "send"
      BY <1>13 DEF Send, Thread
    <3>2. held' \subseteq 1..Len(issued)
      <4>1. held' = held \union ({reply[c].nonce} \ {0})
        BY <3>0
      <4>2. reply[c].nonce \in 0..Len(issued) /\ Len(issued) \in Nat
        BY <3>1 DEF Answered, TypeOK
      <4>3. QED
        <5>1. \A n \in held' : n \in 1..Len(issued)
          BY <4>1, <4>2 DEF TypeOK
        <5>2. QED
          BY <5>1
    <3>3. acked' \subseteq Sessions \X Nat \X Conns
      <4>1. CASE acks
        <5>1. line[c].session \in Sessions
          BY <3>1, <4>1, LineType DEF Answered, acks
        <5>2. reply[c].seq \in Nat
          BY <3>1 DEF Answered, Reply
        <5>3. QED
          BY <3>0, <4>1, <5>1, <5>2 DEF TypeOK
      <4>2. CASE ~acks
        BY <3>0, <4>2 DEF TypeOK
      <4>3. QED
        BY <4>1, <4>2
    <3>4. /\ pc' \in [Conns -> Steps \union {"reading"}]
          /\ line' \in [Conns -> DataPacket \union RecoveryRequest \union {Nothing}]
          /\ ctx' \in [Conns -> 0..Len(contexts)]
          /\ reply' \in [Conns -> Reply \union {Nothing}]
          /\ UNCHANGED bound
      BY <3>0 DEF Goto, TypeOK
    <3>5. QED
      BY <1>13, <3>2, <3>3, <3>4 DEF Send, TypeOK, shared
  <2>3. QED
    BY <2>1, <2>2
<1>14. QED
  BY <1>1, <1>2, <1>3, <1>4, <1>5, <1>6, <1>7, <1>8, <1>9, <1>10, <1>11, <1>12,
     <1>13
  DEF Serve

-----------------------------------------------------------------------------
(* What a step of one thread may do to the others *)

\* The variables of the other threads are theirs alone.
OthersSame(c) ==
  \A d \in Conns \ {c} :
    /\ pc'[d] = pc[d] /\ holds'[d] = holds[d] /\ bound'[d] = bound[d]
    /\ line'[d] = line[d] /\ ctx'[d] = ctx[d] /\ reply'[d] = reply[d]

\* The registry gains entries, and only under its lock.
RegistryGrows(c) ==
  \A s \in Sessions :
    /\ registry[s] # 0 => registry'[s] = registry[s]
    /\ registry'[s] # registry[s] => pc[c] = "create"

\* Contexts stay, and a history changes only in its critical section.
ContextsGrow(c) ==
  \A i \in DOMAIN contexts :
    /\ i \in DOMAIN contexts'
    /\ contexts'[i].session = contexts[i].session
    /\ contexts'[i].last_mem # contexts[i].last_mem => Critical(c) /\ ctx[c] = i

\* What is accepted stays where it is.
LogsGrow ==
  \A s \in Sessions :
    /\ Len(LogOf(s)) <= Len(LogOf(s)')
    /\ \A k \in 1..Len(LogOf(s)) : LogOf(s)'[k] = LogOf(s)[k]

\* Tickets are only issued, and used by the thread that looked them up.
TicketsGrow(c) ==
  /\ Len(issued) <= Len(issued')
  /\ \A n \in 1..Len(issued) : issued'[n] = issued[n]
  /\ \A n \in used_nonces' \ used_nonces :
       pc[c] = "consume" /\ n = line[c].nonce

SharedGrows(c) ==
  /\ RegistryGrows(c)
  /\ ContextsGrow(c)
  /\ LogsGrow
  /\ TicketsGrow(c)

\* Two threads in critical sections work in different contexts.
LEMMA ContextsApart ==
  ASSUME IInv, NEW c \in Conns, NEW d \in Conns, c # d, Critical(c), Critical(d)
  PROVE  ctx[c] # ctx[d] /\ LockOf(ctx[c]) # LockOf(ctx[d])
<1>1. holds[c] = Needed(c) /\ holds[d] = Needed(d)
  BY DEF IInv, Thread
<1>2. LockOf(ctx[c]) \in holds[c] /\ LockOf(ctx[d]) \in holds[d]
  BY <1>1 DEF Needed, Critical, CriticalSteps
<1>3. holds[c] \intersect holds[d] = {}
  BY DEF IInv, LocksDisjoint
<1>4. QED
  BY <1>2, <1>3

\* Only one thread at a time is inside get_or_create.
LEMMA RegistryApart ==
  ASSUME IInv, NEW c \in Conns, NEW d \in Conns, c # d,
         pc[c] \in {"lookup", "create"}
  PROVE  pc[d] \notin {"lookup", "create"}
<1>1. holds[c] = Needed(c) /\ holds[d] = Needed(d)
  BY DEF IInv, Thread
<1>2. holds[c] \intersect holds[d] = {}
  BY DEF IInv, LocksDisjoint
<1>3. QED
  BY <1>1, <1>2 DEF Needed

\* Two threads that use the same ticket work on the same session, so they are
\* not both in its critical section.
LEMMA TicketsApart ==
  ASSUME IInv, NEW c \in Conns, NEW d \in Conns, c # d,
         pc[c] = "consume", pc[d] = "consume"
  PROVE  line[c].nonce # line[d].nonce
<1>1. Critical(c) /\ Critical(d)
  BY DEF Critical, CriticalSteps
<1>2. /\ Working(c) /\ Working(d) /\ Checked(c) /\ Checked(d)
  BY DEF IInv, Thread
<1>3. /\ ctx[c] = registry[line[c].session]
      /\ ctx[d] = registry[line[d].session]
  BY <1>1, <1>2 DEF Working
<1>4. /\ issued[line[c].nonce].session = line[c].session
      /\ issued[line[d].nonce].session = line[d].session
  BY <1>2 DEF Checked
<1>5. QED
  BY <1>1, <1>3, <1>4, ContextsApart

\* A step of one thread leaves every other thread what it relies on.
LEMMA OthersKept ==
  ASSUME IInv, TypeOK', NEW c \in Conns, OthersSame(c), SharedGrows(c),
         NEW d \in Conns, d # c
  PROVE  Thread(d)'
<1>1. /\ pc'[d] = pc[d] /\ holds'[d] = holds[d] /\ bound'[d] = bound[d]
      /\ line'[d] = line[d] /\ ctx'[d] = ctx[d] /\ reply'[d] = reply[d]
  BY DEF OthersSame
<1>2. Working(d) /\ holds[d] = Needed(d) /\ Checked(d) /\ Answered(d)
  BY DEF IInv, Thread
<1>3. line[d] # Nothing => line[d].session \in Sessions
  BY LineType DEF IInv
<1>4. TypeOK
  BY DEF IInv
<1>5. Working(d)'
  <2>1. pc[d] = "create" => registry'[line[d].session] = registry[line[d].session]
    <3>1. SUFFICES ASSUME pc[d] = "create"
                   PROVE  registry'[line[d].session] = registry[line[d].session]
      OBVIOUS
    <3>2. pc[c] # "create"
      BY <3>1, RegistryApart
    <3>3. line[d] # Nothing
      BY <1>2, <3>1 DEF Working, Steps
    <3>4. QED
      BY <1>3, <3>2, <3>3 DEF SharedGrows, RegistryGrows
  <2>2. ctx[d] # 0 => registry'[line[d].session] = registry[line[d].session]
    BY <1>2, <1>3 DEF Working, SharedGrows, RegistryGrows
  <2>3. QED
    BY <1>1, <1>2, <2>1, <2>2 DEF Working, Critical
<1>6. holds'[d] = Needed(d)'
  BY <1>1, <1>2 DEF Needed, Critical, LockOf
<1>7. Checked(d)'
  <2>1. ASSUME pc[d] = "accept"
        PROVE  line[d].prev_mem = contexts'[ctx[d]].last_mem
    <3>1. Critical(d) /\ ctx[d] # 0
      BY <1>2, <2>1 DEF Working, Critical, CriticalSteps
    <3>2. ctx[d] \in DOMAIN contexts
      BY <1>2, <1>4, <3>1, OwnContext DEF IInv
    <3>3. ~(Critical(c) /\ ctx[c] = ctx[d])
      BY <3>1, ContextsApart
    <3>4. contexts'[ctx[d]].last_mem = contexts[ctx[d]].last_mem
      BY <3>2, <3>3 DEF SharedGrows, ContextsGrow
    <3>5. QED
      BY <1>2, <2>1, <3>4 DEF Checked
  <2>2. 0..Len(issued) \subseteq 0..Len(issued')
    <3>1. Len(issued) \in Nat /\ Len(issued') \in Nat /\ Len(issued) <= Len(issued')
      BY <1>4 DEF SharedGrows, TicketsGrow, TypeOK
    <3>2. QED
      BY <3>1
  <2>3. ASSUME pc[d] = "consume"
        PROVE  /\ line[d].nonce # 0
               /\ issued'[line[d].nonce].session = line[d].session
               /\ line[d].nonce \notin used_nonces'
    <3>1. line[d] # Nothing /\ line[d].type = "RECOVERY_REQUEST"
      BY <1>2, <2>3 DEF Working, Recovery, Steps
    <3>2. /\ line[d].nonce \in 0..Len(issued) /\ line[d].nonce # 0
          /\ issued[line[d].nonce].session = line[d].session
          /\ line[d].nonce \notin used_nonces
      BY <1>2, <2>3, <3>1 DEF Checked
    <3>3. line[d].nonce \in 1..Len(issued)
      BY <1>4, <3>2 DEF TypeOK
    <3>4. issued'[line[d].nonce] = issued[line[d].nonce]
      BY <3>3 DEF SharedGrows, TicketsGrow
    <3>5. line[d].nonce \notin used_nonces'
      BY <2>3, <3>2, TicketsApart DEF SharedGrows, TicketsGrow
    <3>6. QED
      BY <3>2, <3>4, <3>5
  <2>4. QED
    BY <1>1, <1>2, <2>1, <2>2, <2>3 DEF Checked
<1>8. Answered(d)'
  <2>1. SUFFICES ASSUME pc[d] = "send"
                 PROVE  Answered(d)'
    BY <1>1 DEF Answered
  <2>2. /\ reply[d] \in Reply /\ reply[d].nonce \in 0..Len(issued)
        /\ reply[d].seq \in Nat
    BY <1>2, <2>1 DEF Answered, Reply
  <2>3. reply[d].nonce \in 0..Len(issued')
    <3>1. Len(issued) \in Nat /\ Len(issued') \in Nat /\ Len(issued) <= Len(issued')
      BY <1>4 DEF SharedGrows, TicketsGrow, TypeOK
    <3>2. QED
      BY <2>2, <3>1
  <2>4. ASSUME reply[d].ok, reply[d].seq > 0
        PROVE  /\ line[d] # Nothing
               /\ reply'[d].seq <= Len(LogOf(line[d].session)')
               /\ LogOf(line[d].session)'[reply'[d].seq] = d
    <3>1. /\ line[d] # Nothing /\ reply[d].seq <= Len(LogOf(line[d].session))
          /\ LogOf(line[d].session)[reply[d].seq] = d
      BY <1>2, <2>1, <2>4 DEF Answered
    <3>2. PICK s \in Sessions : s = line[d].session
      BY <1>3, <3>1
    <3>3. Len(LogOf(s)) \in Nat /\ Len(LogOf(s)') \in Nat
      <4>1. LogOf(s) \in Seq(Conns) /\ LogOf(s)' \in Seq(Conns)
        BY <1>4, LogType, LogTypeNext DEF Memory
      <4>2. QED
        BY <4>1
    <3>4. reply[d].seq <= Len(LogOf(s)') /\ LogOf(s)'[reply[d].seq] = d
      BY <2>2, <2>4, <3>1, <3>2, <3>3 DEF SharedGrows, LogsGrow
    <3>5. line'[d].session = s
      BY <1>1, <3>2
    <3>6. QED
      BY <1>1, <3>1, <3>4, <3>5
  <2>5. QED
    BY <1>1, <2>2, <2>3, <2>4 DEF Answered
<1>9. QED
  BY <1>5, <1>6, <1>7, <1>8 DEF Thread

\* A thread's own locals are all it changes of the locals.
LEMMA StepsKeepOthers ==
  ASSUME TypeOK, NEW c \in Conns,
         Serve(c) \/ Hello(c) \/ ReadLine(c) \/ EndOfInput(c)
  PROVE  OthersSame(c)
<1> USE DEF OthersSame, TypeOK, Goto
<1>1. CASE Hello(c)
  BY <1>1 DEF Hello, Answer
<1>2. CASE ReadLine(c)
  BY <1>2 DEF ReadLine, Answer
<1>3. CASE EndOfInput(c)
  BY <1>3 DEF EndOfInput, Close
<1>4. CASE LockRegistry(c)
  BY <1>4 DEF LockRegistry, Acquire
<1>5. CASE Lookup(c)
  BY <1>5 DEF Lookup, Release
<1>6. CASE Create(c)
  BY <1>6 DEF Create, Close, Release
<1>7. CASE Enter(c)
  BY <1>7 DEF Enter, Acquire
<1>8. CASE Verify(c)
  BY <1>8 DEF Verify
<1>9. CASE Accept(c)
  BY <1>9 DEF Accept, Answer, Close, Release
<1>10. CASE Reject(c)
  BY <1>10 DEF Reject, Answer, Release
<1>11. CASE Validate(c)
  BY <1>11 DEF Validate, Answer, Release
<1>12. CASE Consume(c)
  BY <1>12 DEF Consume, Answer, Release
<1>13. CASE Send(c)
  BY <1>13 DEF Send, Close
<1>14. QED
  BY <1>1, <1>2, <1>3, <1>4, <1>5, <1>6, <1>7, <1>8, <1>9, <1>10, <1>11, <1>12,
     <1>13
  DEF Serve

\* A step that touches nothing shared.
LEMMA QuietGrows ==
  ASSUME TypeOK, NEW c \in Conns, UNCHANGED shared
  PROVE  SharedGrows(c)
<1>1. LogsGrow
  <2>1. SUFFICES ASSUME NEW s \in Sessions
                 PROVE  /\ Len(LogOf(s)) <= Len(LogOf(s)')
                        /\ \A k \in 1..Len(LogOf(s)) : LogOf(s)'[k] = LogOf(s)[k]
    BY DEF LogsGrow
  <2>2. LogOf(s)' = LogOf(s) /\ LogOf(s) \in Seq(Conns)
    BY LogType DEF LogOf, shared, Memory
  <2>3. QED
    BY <2>2
<1>2. Len(issued) \in Nat
  BY DEF TypeOK
<1>3. QED
  BY <1>1, <1>2 DEF SharedGrows, RegistryGrows, ContextsGrow, TicketsGrow, shared

\* A step after which one history has grown and the others are as they were.
LEMMA OneLogGrows ==
  ASSUME TypeOK, NEW r \in Sessions, NEW e \in Conns,
         LogOf(r)' = LogOf(r) \/ LogOf(r)' = Append(LogOf(r), e),
         \A s \in Sessions : s # r => LogOf(s)' = LogOf(s)
  PROVE  LogsGrow
<1>1. SUFFICES ASSUME NEW s \in Sessions
               PROVE  /\ Len(LogOf(s)) <= Len(LogOf(s)')
                      /\ \A k \in 1..Len(LogOf(s)) : LogOf(s)'[k] = LogOf(s)[k]
  BY DEF LogsGrow
<1>2. LogOf(s) \in Seq(Conns)
  BY LogType DEF Memory
<1>3. LogOf(s)' = LogOf(s) \/ LogOf(s)' = Append(LogOf(s), e)
  BY <1>1
<1>4. QED
  BY <1>2, <1>3

\* Accepting a message adds its payload to the history of the line's session.
LEMMA AcceptLogs ==
  ASSUME TypeOK, Registered, NEW c \in Conns, Thread(c), Accept(c),
         NEW s \in Sessions
  PROVE  /\ line[c].session \in Sessions
         /\ ctx[c] = registry[line[c].session]
         /\ s = line[c].session => LogOf(s)' = Append(LogOf(s), c)
         /\ s # line[c].session => LogOf(s)' = LogOf(s)
<1>1. /\ ctx[c] \in DOMAIN contexts
      /\ contexts'[ctx[c]].last_mem = Append(contexts[ctx[c]].last_mem, c)
      /\ \A i \in DOMAIN contexts : i # ctx[c] => contexts'[i] = contexts[i]
  BY AcceptEffect
<1>2. registry' = registry /\ contexts \in Seq(Context)
      /\ registry[s] \in 0..Len(contexts)
  BY DEF Accept, TypeOK
<1>3. ctx[c] # 0
  BY <1>1, <1>2
<1>4. line[c].session \in Sessions /\ ctx[c] = registry[line[c].session]
      /\ contexts[ctx[c]].session = line[c].session
  BY <1>3, OwnContext DEF Thread
<1>5. s = line[c].session => LogOf(s)' = Append(LogOf(s), c)
  BY <1>1, <1>2, <1>3, <1>4 DEF LogOf
<1>6. s # line[c].session => LogOf(s)' = LogOf(s)
  <2>1. SUFFICES ASSUME s # line[c].session, registry[s] # 0
                 PROVE  LogOf(s)' = LogOf(s)
    BY <1>2 DEF LogOf
  <2>2. registry[s] \in DOMAIN contexts
    BY <1>2, <2>1
  <2>3. registry[s] # ctx[c]
    BY <1>4, <2>1 DEF Registered
  <2>4. QED
    BY <1>1, <1>2, <2>1, <2>2, <2>3 DEF LogOf
<1>7. QED
  BY <1>4, <1>5, <1>6

LEMMA AcceptGrows ==
  ASSUME TypeOK, Registered, NEW c \in Conns, Thread(c), Accept(c)
  PROVE  SharedGrows(c)
<1>1. /\ ctx[c] \in DOMAIN contexts /\ Len(contexts') = Len(contexts)
      /\ contexts \in Seq(Context) /\ contexts' \in Seq(Context)
      /\ contexts'[ctx[c]].session = contexts[ctx[c]].session
      /\ contexts[ctx[c]].last_mem \in Seq(Conns)
      /\ line[c].prev_mem = contexts[ctx[c]].last_mem
      /\ \A i \in DOMAIN contexts : i # ctx[c] => contexts'[i] = contexts[i]
  BY AcceptEffect DEF TypeOK
<1>2. ContextsGrow(c)
  BY <1>1 DEF ContextsGrow, Accept, Critical, CriticalSteps
<1>3. LogsGrow
  <2>1. PICK r \in Sessions : r = line[c].session
    <3>1. ctx[c] # 0
      BY <1>1
    <3>2. QED
      BY <3>1, OwnContext DEF Thread
  <2>2. QED
    BY <2>1, AcceptLogs, OneLogGrows
<1>4. TicketsGrow(c)
  <2> DEFINE ticket == [session |-> contexts[ctx[c]].session,
                        last_seq |-> Len(Append(line[c].prev_mem, c))]
  <2>1. ticket \in Ticket
    <3>1. contexts[ctx[c]] \in Context /\ Len(Append(line[c].prev_mem, c)) \in Nat
      BY <1>1
    <3>2. QED
      BY <3>1 DEF Context, Ticket
  <2>2. issued' = issued \/ issued' = Append(issued, ticket)
    BY DEF Accept
  <2>3. used_nonces' = used_nonces
    BY DEF Accept
  <2> HIDE DEF ticket
  <2>4. QED
    BY <2>1, <2>2, <2>3, IssueType DEF TicketsGrow
<1>5. RegistryGrows(c)
  BY DEF RegistryGrows, Accept
<1>6. QED
  BY <1>2, <1>3, <1>4, <1>5 DEF SharedGrows

LEMMA RejectLogs ==
  ASSUME TypeOK, Registered, NEW c \in Conns, Thread(c), Reject(c),
         NEW s \in Sessions
  PROVE  LogOf(s)' = LogOf(s)
<1>1. /\ contexts'[ctx[c]].last_mem = contexts[ctx[c]].last_mem
      /\ \A i \in DOMAIN contexts : i # ctx[c] => contexts'[i] = contexts[i]
  BY RejectEffect
<1>2. registry' = registry /\ contexts \in Seq(Context)
      /\ registry[s] \in 0..Len(contexts)
  BY DEF Reject, TypeOK
<1>3. QED
  BY <1>1, <1>2 DEF LogOf

LEMMA RejectGrows ==
  ASSUME TypeOK, Registered, NEW c \in Conns, Thread(c), Reject(c)
  PROVE  SharedGrows(c)
<1>1. /\ ctx[c] \in DOMAIN contexts /\ Len(contexts') = Len(contexts)
      /\ contexts \in Seq(Context) /\ contexts' \in Seq(Context)
      /\ contexts'[ctx[c]].session = contexts[ctx[c]].session
      /\ contexts'[ctx[c]].last_mem = contexts[ctx[c]].last_mem
      /\ \A i \in DOMAIN contexts : i # ctx[c] => contexts'[i] = contexts[i]
  BY RejectEffect DEF TypeOK
<1>2. ContextsGrow(c)
  BY <1>1 DEF ContextsGrow
<1>3. LogsGrow
  <2>1. SUFFICES ASSUME NEW s \in Sessions
                 PROVE  /\ Len(LogOf(s)) <= Len(LogOf(s)')
                        /\ \A k \in 1..Len(LogOf(s)) : LogOf(s)'[k] = LogOf(s)[k]
    BY DEF LogsGrow
  <2>2. LogOf(s)' = LogOf(s) /\ LogOf(s) \in Seq(Conns)
    BY LogType, RejectLogs DEF Memory
  <2>3. QED
    BY <2>2
<1>4. TicketsGrow(c) /\ RegistryGrows(c)
  <2>1. Len(issued) \in Nat
    BY DEF TypeOK
  <2>2. QED
    BY <2>1 DEF TicketsGrow, RegistryGrows, Reject
<1>5. QED
  BY <1>2, <1>3, <1>4 DEF SharedGrows

\* What a recovery does: the ticket is used and one for the same session and
\* the whole of its history is issued.
LEMMA ConsumeEffect ==
  ASSUME TypeOK, Registered, NEW c \in Conns, Thread(c), Consume(c)
  PROVE  /\ ctx[c] \in DOMAIN contexts
         /\ [session |-> contexts[ctx[c]].session,
             last_seq |-> Len(contexts[ctx[c]].last_mem)] \in Ticket
         /\ line[c].nonce \notin used_nonces
         /\ used_nonces' = used_nonces \union {line[c].nonce}
         /\ issued' = Append(issued, [session  |-> contexts[ctx[c]].session,
                                      last_seq |-> Len(contexts[ctx[c]].last_mem)])
         /\ Answer(c, TRUE, "handled", 0, Len(issued'))
<1>1. ctx[c] # 0 /\ line[c].nonce \notin used_nonces
  BY DEF Consume, Thread, Working, Checked, Critical, CriticalSteps
<1>2. ctx[c] \in DOMAIN contexts /\ contexts[ctx[c]] \in Context
  BY <1>1, OwnContext DEF Thread
<1>3. [session |-> contexts[ctx[c]].session,
       last_seq |-> Len(contexts[ctx[c]].last_mem)] \in Ticket
  BY <1>2 DEF Context, Ticket, Memory
<1>4. QED
  BY <1>1, <1>2, <1>3 DEF Consume

LEMMA ConsumeGrows ==
  ASSUME TypeOK, Registered, NEW c \in Conns, Thread(c), Consume(c)
  PROVE  SharedGrows(c)
<1>1. TicketsGrow(c)
  <2> DEFINE ticket == [session |-> contexts[ctx[c]].session,
                        last_seq |-> Len(contexts[ctx[c]].last_mem)]
  <2>1. /\ ticket \in Ticket
        /\ used_nonces' = used_nonces \union {line[c].nonce}
        /\ issued' = Append(issued, ticket)
    BY ConsumeEffect
  <2> HIDE DEF ticket
  <2>2. QED
    BY <2>1, IssueType DEF TicketsGrow, Consume
<1>2. registry' = registry /\ contexts' = contexts
  BY DEF Consume
<1>3. RegistryGrows(c) /\ ContextsGrow(c)
  BY <1>2 DEF RegistryGrows, ContextsGrow
<1>4. LogsGrow
  <2>1. SUFFICES ASSUME NEW s \in Sessions
                 PROVE  /\ Len(LogOf(s)) <= Len(LogOf(s)')
                        /\ \A k \in 1..Len(LogOf(s)) : LogOf(s)'[k] = LogOf(s)[k]
    BY DEF LogsGrow
  <2>2. LogOf(s)' = LogOf(s) /\ LogOf(s) \in Seq(Conns)
    BY <1>2, LogType DEF LogOf, Memory
  <2>3. QED
    BY <2>2
<1>5. QED
  BY <1>1, <1>3, <1>4 DEF SharedGrows
\* Either the thread ends and nothing is made, or the session, which had no
\* context, has an empty one.
Created(c, s) ==
  /\ contexts' = Append(contexts, [session |-> s, last_mem |-> <<>>,
                                   accepted |-> 0, rejected |-> 0, total |-> 0])
  /\ registry' = [registry EXCEPT ![s] = Len(contexts')]
  /\ ctx' = [ctx EXCEPT ![c] = Len(contexts')]
  /\ Goto(c, "enter")
  /\ UNCHANGED <<bound, line, reply>>

LEMMA CreateEffect ==
  ASSUME TypeOK, NEW c \in Conns, Thread(c), Create(c)
  PROVE  /\ line[c].session \in Sessions
         /\ registry[line[c].session] = 0
         /\ \/ Created(c, line[c].session)
            \/ Close(c) /\ UNCHANGED <<contexts, registry>>
<1>1. line[c] # Nothing /\ registry[line[c].session] = 0
  BY DEF Create, Thread, Working, Steps
<1>2. line[c].session \in Sessions
  BY <1>1, LineType
<1>3. QED
  BY <1>1, <1>2 DEF Create, Created

\* What a new context adds to those there were.
LEMMA CreatedContexts ==
  ASSUME TypeOK, NEW c \in Conns, NEW s \in Sessions, Created(c, s)
  PROVE  LET n == Len(contexts) + 1 IN
         /\ Len(contexts) \in Nat /\ Len(contexts') = n
         /\ contexts' \in Seq(Context)
         /\ DOMAIN contexts = 1..Len(contexts) /\ DOMAIN contexts' = 1..n
         /\ \A i \in DOMAIN contexts : contexts'[i] = contexts[i]
         /\ contexts'[n].session = s /\ contexts'[n].last_mem = <<>>
         /\ contexts'[n].accepted = 0 /\ contexts'[n].rejected = 0
         /\ contexts'[n].total = 0
         /\ registry'[s] = n
         /\ \A r \in Sessions : r # s => registry'[r] = registry[r]
<1> DEFINE new == [session |-> s, last_mem |-> <<>>, accepted |-> 0,
                   rejected |-> 0, total |-> 0]
<1>1. /\ new \in Context
      /\ new.session = s /\ new.last_mem = <<>>
      /\ new.accepted = 0 /\ new.rejected = 0 /\ new.total = 0
  BY DEF Context, Memory
<1>2. contexts' = Append(contexts, new) /\ contexts \in Seq(Context)
  BY DEF Created, TypeOK
<1> HIDE DEF new
<1>3. /\ Len(contexts) \in Nat /\ Len(contexts') = Len(contexts) + 1
      /\ contexts' \in Seq(Context)
      /\ contexts'[Len(contexts) + 1] = new
      /\ \A i \in DOMAIN contexts : contexts'[i] = contexts[i]
      /\ DOMAIN contexts = 1..Len(contexts)
      /\ DOMAIN contexts' = 1..(Len(contexts) + 1)
  BY <1>1, <1>2
<1>4. registry'[s] = Len(contexts')
      /\ \A r \in Sessions : r # s => registry'[r] = registry[r]
  BY DEF Created, TypeOK
<1>5. QED
  BY <1>1, <1>3, <1>4

\* Making a context, or failing to, leaves every history as it was.
LEMMA CreateLogs ==
  ASSUME TypeOK, NEW c \in Conns, Thread(c), Create(c), NEW s \in Sessions
  PROVE  LogOf(s)' = LogOf(s)
<1>1. CASE UNCHANGED <<contexts, registry>>
  BY <1>1 DEF LogOf
<1>2. CASE Created(c, line[c].session)
  <2>1. PICK r \in Sessions : r = line[c].session /\ registry[r] = 0
    BY CreateEffect
  <2>2. /\ Len(contexts) \in Nat /\ DOMAIN contexts = 1..Len(contexts)
        /\ \A i \in DOMAIN contexts : contexts'[i] = contexts[i]
        /\ contexts'[registry'[r]].last_mem = <<>>
        /\ registry'[r] = Len(contexts) + 1
        /\ s # r => registry'[s] = registry[s]
    <3>1. Created(c, r)
      BY <1>2, <2>1
    <3>2. QED
      BY <3>1, CreatedContexts
  <2>3. registry[s] \in 0..Len(contexts)
    BY DEF TypeOK
  <2>4. CASE s = r
    BY <2>1, <2>2, <2>4 DEF LogOf
  <2>5. CASE s # r
    BY <2>2, <2>3, <2>5 DEF LogOf
  <2>6. QED
    BY <2>4, <2>5
<1>3. QED
  BY <1>1, <1>2, CreateEffect

LEMMA CreateGrows ==
  ASSUME TypeOK, NEW c \in Conns, Thread(c), Create(c)
  PROVE  SharedGrows(c)
<1>1. LogsGrow
  <2>1. SUFFICES ASSUME NEW s \in Sessions
                 PROVE  /\ Len(LogOf(s)) <= Len(LogOf(s)')
                        /\ \A k \in 1..Len(LogOf(s)) : LogOf(s)'[k] = LogOf(s)[k]
    BY DEF LogsGrow
  <2>2. LogOf(s)' = LogOf(s) /\ LogOf(s) \in Seq(Conns)
    BY LogType, CreateLogs DEF Memory
  <2>3. QED
    BY <2>2
<1>2. TicketsGrow(c)
  <2>1. Len(issued) \in Nat
    BY DEF TypeOK
  <2>2. QED
    BY <2>1 DEF TicketsGrow, Create
<1>3. RegistryGrows(c) /\ ContextsGrow(c)
  <2>1. CASE UNCHANGED <<contexts, registry>>
    BY <2>1 DEF RegistryGrows, ContextsGrow
  <2>2. CASE Created(c, line[c].session)
    <3>1. pc[c] = "create"
      BY DEF Create
    <3>2. PICK r \in Sessions : r = line[c].session /\ registry[r] = 0
      BY CreateEffect
    <3>3. /\ Len(contexts) \in Nat /\ DOMAIN contexts = 1..Len(contexts)
          /\ DOMAIN contexts' = 1..(Len(contexts) + 1)
          /\ \A i \in DOMAIN contexts : contexts'[i] = contexts[i]
          /\ \A s \in Sessions : s # r => registry'[s] = registry[s]
      BY <2>2, <3>2, CreatedContexts
    <3>4. QED
      BY <3>1, <3>2, <3>3 DEF RegistryGrows, ContextsGrow
  <2>3. QED
    BY <2>1, <2>2, CreateEffect
<1>4. QED
  BY <1>1, <1>2, <1>3 DEF SharedGrows

\* Every step of a thread is one the other threads can rely on.
LEMMA StepsGrow ==
  ASSUME IInv, NEW c \in Conns,
         Serve(c) \/ Hello(c) \/ ReadLine(c) \/ EndOfInput(c)
  PROVE  SharedGrows(c)
<1>1. TypeOK /\ Registered /\ Thread(c)
  BY DEF IInv
<1>2. CASE UNCHANGED shared
  BY <1>1, <1>2, QuietGrows
<1>3. CASE Accept(c) \/ Reject(c) \/ Consume(c) \/ Create(c)
  BY <1>1, <1>3, AcceptGrows, RejectGrows, ConsumeGrows, CreateGrows
<1>4. UNCHANGED shared \/ Accept(c) \/ Reject(c) \/ Consume(c) \/ Create(c)
  BY DEF Serve, Hello, ReadLine, EndOfInput, LockRegistry, Lookup, Enter, Verify,
         Validate, Send
<1>5. QED
  BY <1>2, <1>3, <1>4

-----------------------------------------------------------------------------
(* The parts of the invariant *)

\* A lock is taken only when no thread has it.
LEMMA LocksStep ==
  ASSUME IInv, NEW c \in Conns, OthersSame(c),
         \/ holds'[c] \subseteq holds[c]
         \/ \E lock \in Nat : Free(lock) /\ holds'[c] = holds[c] \union {lock}
  PROVE  LocksDisjoint'
<1>1. SUFFICES ASSUME NEW d \in Conns, NEW e \in Conns, d # e
               PROVE  holds'[d] \intersect holds'[e] = {}
  BY DEF LocksDisjoint
<1>2. holds[d] \intersect holds[e] = {}
  BY <1>1 DEF IInv, LocksDisjoint
<1>3. /\ d # c => holds'[d] = holds[d]
      /\ e # c => holds'[e] = holds[e]
  BY DEF OthersSame
<1>4. CASE holds'[c] \subseteq holds[c]
  BY <1>1, <1>2, <1>3, <1>4
<1>5. CASE \E lock \in Nat : Free(lock) /\ holds'[c] = holds[c] \union {lock}
  BY <1>1, <1>2, <1>3, <1>5 DEF Free
<1>6. QED
  BY <1>4, <1>5

LEMMA StepsKeepLocks ==
  ASSUME IInv, NEW c \in Conns,
         Serve(c) \/ Hello(c) \/ ReadLine(c) \/ EndOfInput(c)
  PROVE  LocksDisjoint'
<1>1. OthersSame(c)
  BY StepsKeepOthers DEF IInv
<1>2. holds \in [Conns -> SUBSET Nat]
  BY DEF IInv, TypeOK
<1>3. \/ holds'[c] \subseteq holds[c]
      \/ \E lock \in Nat : Free(lock) /\ holds'[c] = holds[c] \union {lock}
  <2>1. CASE LockRegistry(c)
    BY <1>2, <2>1 DEF LockRegistry, Acquire, RegistryLock
  <2>2. CASE Enter(c)
    <3>1. LockOf(ctx[c]) \in Nat
      BY LockOfType DEF IInv, TypeOK
    <3>2. QED
      BY <1>2, <2>2, <3>1 DEF Enter, Acquire
  <2>3. CASE UNCHANGED holds
    BY <2>3
  <2>4. CASE Lookup(c)
    BY <1>2, <2>4 DEF Lookup, Release
  <2>5. CASE Create(c)
    BY <1>2, <2>5 DEF Create, Release
  <2>6. CASE Accept(c)
    BY <1>2, <2>6 DEF Accept, Release
  <2>7. CASE Reject(c)
    BY <1>2, <2>7 DEF Reject, Release
  <2>8. CASE Validate(c)
    BY <1>2, <2>8 DEF Validate, Release
  <2>9. CASE Consume(c)
    BY <1>2, <2>9 DEF Consume, Release
  <2>10. QED
    BY <2>1, <2>2, <2>3, <2>4, <2>5, <2>6, <2>7, <2>8, <2>9
    DEF Serve, Hello, ReadLine, EndOfInput, Verify, Send
<1>4. QED
  BY <1>1, <1>3, LocksStep
\* Sessions and contexts stay in correspondence.
LEMMA StepsKeepRegistered ==
  ASSUME IInv, NEW c \in Conns,
         Serve(c) \/ Hello(c) \/ ReadLine(c) \/ EndOfInput(c)
  PROVE  Registered'
<1>1. TypeOK /\ Registered /\ Thread(c)
  BY DEF IInv
<1>2. ASSUME NEW s \in Sessions
      PROVE  registry[s] \in 0..Len(contexts)
  BY <1>1 DEF TypeOK
<1>3. contexts \in Seq(Context)
  BY <1>1 DEF TypeOK
<1>4. CASE UNCHANGED <<contexts, registry>>
  BY <1>1, <1>4 DEF Registered
<1>5. CASE Accept(c) \/ Reject(c)
  <2>1. /\ registry' = registry
        /\ DOMAIN contexts' = DOMAIN contexts
        /\ \A i \in DOMAIN contexts : contexts'[i].session = contexts[i].session
    <3>1. /\ registry' = registry /\ Len(contexts') = Len(contexts)
          /\ contexts' \in Seq(Context)
      BY <1>1, <1>5, AcceptEffect, RejectEffect DEF Accept, Reject
    <3>2. SharedGrows(c)
      BY <1>1, <1>5, AcceptGrows, RejectGrows
    <3>3. QED
      BY <1>3, <3>1, <3>2 DEF SharedGrows, ContextsGrow
  <2>2. \A s \in Sessions : registry[s] # 0 => registry[s] \in DOMAIN contexts
    BY <1>2, <1>3
  <2>3. QED
    BY <1>1, <2>1, <2>2 DEF Registered
<1>6. CASE Create(c) /\ Created(c, line[c].session)
  <2>1. PICK r \in Sessions : r = line[c].session /\ registry[r] = 0
    BY <1>1, <1>6, CreateEffect
  <2>2. Created(c, r)
    BY <1>6, <2>1
  <2>3. /\ Len(contexts) \in Nat /\ DOMAIN contexts = 1..Len(contexts)
        /\ DOMAIN contexts' = 1..(Len(contexts) + 1)
        /\ \A i \in DOMAIN contexts : contexts'[i] = contexts[i]
        /\ contexts'[Len(contexts) + 1].session = r
        /\ registry'[r] = Len(contexts) + 1
        /\ \A s \in Sessions : s # r => registry'[s] = registry[s]
    BY <1>1, <2>2, CreatedContexts
  <2>4. ASSUME NEW s \in Sessions, registry'[s] # 0
        PROVE  contexts'[registry'[s]].session = s
    <3>1. CASE s = r
      BY <2>3, <3>1
    <3>2. CASE s # r
      <4>1. registry[s] \in DOMAIN contexts
        BY <1>2, <2>3, <2>4, <3>2
      <4>2. QED
        BY <1>1, <2>3, <2>4, <3>2, <4>1 DEF Registered
    <3>3. QED
      BY <3>1, <3>2
  <2>5. ASSUME NEW i \in DOMAIN contexts'
        PROVE  registry'[contexts'[i].session] = i
    <3>1. CASE i = Len(contexts) + 1
      BY <2>3, <3>1
    <3>2. CASE i # Len(contexts) + 1
      <4>1. i \in DOMAIN contexts /\ contexts'[i] = contexts[i]
        BY <2>3, <3>2
      <4>2. registry[contexts[i].session] = i /\ i # 0
        BY <1>1, <2>3, <4>1 DEF Registered
      <4>3. contexts[i].session \in Sessions /\ contexts[i].session # r
        <5>1. contexts[i] \in Context
          BY <1>3, <4>1
        <5>2. QED
          BY <2>1, <4>2, <5>1 DEF Context
      <4>4. QED
        BY <2>3, <4>1, <4>2, <4>3
    <3>3. QED
      BY <3>1, <3>2
  <2>6. QED
    BY <2>4, <2>5 DEF Registered
<1>7. UNCHANGED <<contexts, registry>> \/ Accept(c) \/ Reject(c) \/ Create(c)
  BY DEF Serve, Hello, ReadLine, EndOfInput, LockRegistry, Lookup, Enter, Verify,
         Validate, Consume, Send, shared
<1>8. QED
  BY <1>1, <1>4, <1>5, <1>6, <1>7, CreateEffect

\* The counters of a context move with its history.
LEMMA StepsKeepCounted ==
  ASSUME IInv, NEW c \in Conns,
         Serve(c) \/ Hello(c) \/ ReadLine(c) \/ EndOfInput(c)
  PROVE  Counted'
<1>1. TypeOK /\ Registered /\ Thread(c) /\ Counted
  BY DEF IInv
<1>2. contexts \in Seq(Context)
  BY <1>1 DEF TypeOK
<1>3. ASSUME NEW i \in DOMAIN contexts
      PROVE  /\ contexts[i].last_mem \in Seq(Conns)
             /\ contexts[i].accepted \in Nat /\ contexts[i].rejected \in Nat
             /\ contexts[i].accepted = Len(contexts[i].last_mem)
             /\ contexts[i].total = contexts[i].accepted + contexts[i].rejected
  <2>1. contexts[i] \in Context
    BY <1>2
  <2>2. QED
    BY <1>1, <2>1 DEF Counted, Context, Memory
<1>4. CASE UNCHANGED contexts
  BY <1>1, <1>4 DEF Counted
<1>5. CASE Accept(c)
  <2>1. /\ DOMAIN contexts' = DOMAIN contexts
        /\ contexts'[ctx[c]].last_mem = Append(contexts[ctx[c]].last_mem, c)
        /\ contexts'[ctx[c]].accepted = contexts[ctx[c]].accepted + 1
        /\ contexts'[ctx[c]].total = contexts[ctx[c]].total + 1
        /\ contexts'[ctx[c]].rejected = contexts[ctx[c]].rejected
        /\ \A i \in DOMAIN contexts : i # ctx[c] => contexts'[i] = contexts[i]
    BY <1>1, <1>2, <1>5, AcceptEffect
  <2>2. SUFFICES ASSUME NEW i \in DOMAIN contexts
                 PROVE  /\ contexts'[i].accepted = Len(contexts'[i].last_mem)
                        /\ contexts'[i].total
                             = contexts'[i].accepted + contexts'[i].rejected
    BY <2>1 DEF Counted
  <2>3. CASE i = ctx[c]
    <3>1. /\ contexts[i].last_mem \in Seq(Conns)
          /\ contexts[i].accepted \in Nat /\ contexts[i].rejected \in Nat
          /\ contexts[i].accepted = Len(contexts[i].last_mem)
          /\ contexts[i].total = contexts[i].accepted + contexts[i].rejected
      BY <1>3
    <3>2. /\ contexts'[i].last_mem = Append(contexts[i].last_mem, c)
          /\ contexts'[i].accepted = contexts[i].accepted + 1
          /\ contexts'[i].total = contexts[i].total + 1
          /\ contexts'[i].rejected = contexts[i].rejected
      BY <2>1, <2>3
    <3>3. Len(contexts'[i].last_mem) = Len(contexts[i].last_mem) + 1
      BY <3>1, <3>2
    <3>4. QED
      BY <3>1, <3>2, <3>3
  <2>4. CASE i # ctx[c]
    BY <1>3, <2>1, <2>4
  <2>5. QED
    BY <2>3, <2>4
<1>6. CASE Reject(c)
  <2>1. /\ DOMAIN contexts' = DOMAIN contexts
        /\ contexts'[ctx[c]].last_mem = contexts[ctx[c]].last_mem
        /\ contexts'[ctx[c]].accepted = contexts[ctx[c]].accepted
        /\ contexts'[ctx[c]].total = contexts[ctx[c]].total + 1
        /\ contexts'[ctx[c]].rejected = contexts[ctx[c]].rejected + 1
        /\ \A i \in DOMAIN contexts : i # ctx[c] => contexts'[i] = contexts[i]
    BY <1>1, <1>2, <1>6, RejectEffect
  <2>2. SUFFICES ASSUME NEW i \in DOMAIN contexts
                 PROVE  /\ contexts'[i].accepted = Len(contexts'[i].last_mem)
                        /\ contexts'[i].total
                             = contexts'[i].accepted + contexts'[i].rejected
    BY <2>1 DEF Counted
  <2>3. CASE i = ctx[c]
    <3>1. /\ contexts[i].last_mem \in Seq(Conns)
          /\ contexts[i].accepted \in Nat /\ contexts[i].rejected \in Nat
          /\ contexts[i].accepted = Len(contexts[i].last_mem)
          /\ contexts[i].total = contexts[i].accepted + contexts[i].rejected
      BY <1>3
    <3>2. /\ contexts'[i].last_mem = contexts[i].last_mem
          /\ contexts'[i].accepted = contexts[i].accepted
          /\ contexts'[i].total = contexts[i].total + 1
          /\ contexts'[i].rejected = contexts[i].rejected + 1
      BY <2>1, <2>3
    <3>3. QED
      BY <3>1, <3>2
  <2>4. CASE i # ctx[c]
    BY <1>3, <2>1, <2>4
  <2>5. QED
    BY <2>3, <2>4
<1>7. CASE Create(c) /\ Created(c, line[c].session)
  <2>1. PICK r \in Sessions : r = line[c].session
    BY <1>1, <1>7, CreateEffect
  <2>2. Created(c, r)
    BY <1>7, <2>1
  <2> DEFINE n == Len(contexts) + 1
  <2>3. /\ Len(contexts) \in Nat /\ DOMAIN contexts = 1..Len(contexts)
        /\ DOMAIN contexts' = 1..n
        /\ \A i \in DOMAIN contexts : contexts'[i] = contexts[i]
        /\ contexts'[n].last_mem = <<>> /\ contexts'[n].accepted = 0
        /\ contexts'[n].rejected = 0 /\ contexts'[n].total = 0
    BY <1>1, <2>2, CreatedContexts
  <2>4. SUFFICES ASSUME NEW i \in DOMAIN contexts'
                 PROVE  /\ contexts'[i].accepted = Len(contexts'[i].last_mem)
                        /\ contexts'[i].total
                             = contexts'[i].accepted + contexts'[i].rejected
    BY DEF Counted
  <2>5. CASE i = n
    BY <2>3, <2>5
  <2>6. CASE i # n
    BY <1>3, <2>3, <2>6
  <2>7. QED
    BY <2>5, <2>6
<1>8. UNCHANGED contexts \/ Accept(c) \/ Reject(c) \/ Create(c)
  BY DEF Serve, Hello, ReadLine, EndOfInput, LockRegistry, Lookup, Enter, Verify,
         Validate, Consume, Send, shared
<1>9. QED
  BY <1>1, <1>4, <1>5, <1>6, <1>7, <1>8, CreateEffect

\* An acknowledgement is of a message that is in the history, and stays there.
LEMMA StepsKeepAcked ==
  ASSUME IInv, TypeOK', NEW c \in Conns, LogsGrow,
         Serve(c) \/ Hello(c) \/ ReadLine(c) \/ EndOfInput(c)
  PROVE  AckedInHistory' /\ \A ack \in acked' : ack[2] > 0
<1>1. TypeOK /\ Thread(c) /\ AckedInHistory /\ \A ack \in acked : ack[2] > 0
  BY DEF IInv
<1>2. ASSUME NEW s \in Sessions, NEW k \in Nat \ {0}, NEW payload,
             k <= Len(LogOf(s)), LogOf(s)[k] = payload
      PROVE  k <= Len(LogOf(s)') /\ LogOf(s)'[k] = payload
  <2>1. LogOf(s) \in Seq(Conns) /\ LogOf(s)' \in Seq(Conns)
    BY <1>1, LogType, LogTypeNext DEF Memory
  <2>2. Len(LogOf(s)) \in Nat /\ Len(LogOf(s)') \in Nat
    BY <2>1
  <2>3. QED
    BY <1>2, <2>2 DEF LogsGrow
<1>3. ASSUME NEW ack \in acked
      PROVE  /\ ack[2] > 0
             /\ ack[2] <= Len(LogOf(ack[1])') /\ LogOf(ack[1])'[ack[2]] = ack[3]
  <2>1. ack[1] \in Sessions /\ ack[2] \in Nat /\ ack[2] > 0
    BY <1>1 DEF TypeOK
  <2>2. ack[2] <= Len(LogOf(ack[1])) /\ LogOf(ack[1])[ack[2]] = ack[3]
    BY <1>1 DEF AckedInHistory
  <2>3. QED
    BY <1>2, <2>1, <2>2
<1>4. CASE acked' = acked
  BY <1>3, <1>4 DEF AckedInHistory
<1>5. CASE acked' # acked
  <2>1. /\ pc[c] = "send" /\ reply[c].ok /\ reply[c].seq > 0
        /\ acked' = acked \union {<<line[c].session, reply[c].seq, c>>}
    BY <1>5 DEF Serve, Hello, ReadLine, EndOfInput, LockRegistry, Lookup, Create,
                Enter, Verify, Accept, Reject, Validate, Consume, Send, clients
  <2>2. /\ line[c] # Nothing /\ reply[c] \in Reply
        /\ reply[c].seq <= Len(LogOf(line[c].session))
        /\ LogOf(line[c].session)[reply[c].seq] = c
    BY <1>1, <2>1 DEF Thread, Answered
  <2>3. line[c].session \in Sessions /\ reply[c].seq \in Nat \ {0}
    BY <1>1, <2>1, <2>2, LineType DEF Reply
  <2>4. PICK s \in Sessions, k \in Nat \ {0} :
          s = line[c].session /\ k = reply[c].seq
    BY <2>3
  <2>5. k <= Len(LogOf(s)') /\ LogOf(s)'[k] = c
    BY <1>2, <2>2, <2>4
  <2>6. acked' = acked \union {<<s, k, c>>}
    BY <2>1, <2>4
  <2>7. ASSUME NEW ack \in acked'
        PROVE  /\ ack[2] > 0
               /\ ack[2] <= Len(LogOf(ack[1])') /\ LogOf(ack[1])'[ack[2]] = ack[3]
    <3>1. CASE ack \in acked
      BY <1>3, <3>1
    <3>2. CASE ack = <<s, k, c>>
      BY <2>4, <2>5, <3>2
    <3>3. QED
      BY <2>6, <3>1, <3>2
  <2>8. QED
    BY <2>7 DEF AckedInHistory
<1>6. QED
  BY <1>4, <1>5-----------------------------------------------------------------------------
(* The thread that takes the step *)

\* A thread that is done with a line, or has ended.
LEMMA Idle ==
  ASSUME NEW c \in Conns, pc'[c] = "reading", holds'[c] = {},
         line'[c] = Nothing, ctx'[c] = 0
  PROVE  Thread(c)'
BY DEF Thread, Working, Needed, Checked, Answered, Critical, CriticalSteps, Data,
       Recovery, Steps, Nothing

\* A thread that has its answer ready and has left the critical section.
LEMMA Sending ==
  ASSUME IInv, TypeOK', NEW c \in Conns, SharedGrows(c), pc'[c] = "send",
         holds'[c] = {}, line'[c] = line[c], ctx'[c] = ctx[c], Answered(c)'
  PROVE  Thread(c)'
<1>1. TypeOK /\ Working(c) /\ Checked(c)
  BY DEF IInv, Thread
<1>2. Working(c)'
  <2>1. ctx[c] # 0 => /\ line[c] # Nothing /\ ctx[c] = registry[line[c].session]
                     /\ registry'[line[c].session] = registry[line[c].session]
    BY <1>1, LineType DEF Working, SharedGrows, RegistryGrows
  <2>2. QED
    BY <2>1 DEF Working, Steps, Critical, CriticalSteps, Data, Recovery
<1>3. Checked(c)'
  <2>1. 0..Len(issued) \subseteq 0..Len(issued')
    <3>1. Len(issued) \in Nat /\ Len(issued') \in Nat /\ Len(issued) <= Len(issued')
      BY <1>1 DEF SharedGrows, TicketsGrow, TypeOK
    <3>2. QED
      BY <3>1
  <2>2. QED
    BY <1>1, <2>1 DEF Checked
<1>4. holds'[c] = Needed(c)'
  BY DEF Needed, Critical, CriticalSteps
<1>5. QED
  BY <1>2, <1>3, <1>4 DEF Thread

\* An answer that acknowledges no message.
LEMMA NoAck ==
  ASSUME TypeOK', NEW c \in Conns, NEW ok \in BOOLEAN,
         NEW reason \in {"hello", "unbound", "mismatch", "handled"},
         NEW nonce \in 0..Len(issued'), reply \in [Conns -> Reply \union {Nothing}],
         Answer(c, ok, reason, 0, nonce)
  PROVE  Answered(c)'
<1>1. reply'[c] = [ok |-> ok, reason |-> reason, seq |-> 0, nonce |-> nonce]
  BY DEF Answer
<1>2. Len(issued') \in Nat /\ nonce \in Nat
  BY DEF TypeOK
<1>3. reply'[c] \in Reply /\ reply'[c].seq = 0 /\ reply'[c].nonce = nonce
  BY <1>1, <1>2 DEF Reply
<1>4. QED
  BY <1>3 DEF Answered

\* What a thread that works holds, and what it lets go.
LEMMA Released ==
  ASSUME IInv, NEW c \in Conns
  PROVE  /\ pc[c] \in {"reading", "send", "registry", "enter"} => holds[c] = {}
         /\ pc[c] \in {"lookup", "create"} /\ Release(c, RegistryLock)
              => holds'[c] = {}
         /\ Critical(c) /\ Release(c, LockOf(ctx[c])) => holds'[c] = {}
<1>1. holds[c] = Needed(c) /\ holds \in [Conns -> SUBSET Nat]
  BY DEF IInv, Thread, TypeOK
<1>2. QED
  BY <1>1 DEF Needed, Release, Critical, CriticalSteps

LEMMA OwnStep ==
  ASSUME IInv, TypeOK', NEW c \in Conns, SharedGrows(c),
         Serve(c) \/ Hello(c) \/ ReadLine(c) \/ EndOfInput(c)
  PROVE  Thread(c)'
<1>1. /\ TypeOK /\ Registered
      /\ Thread(c) /\ Working(c) /\ Checked(c) /\ holds[c] = Needed(c)
  BY DEF IInv, Thread
<1>2. /\ pc \in [Conns -> Steps \union {"reading"}]
      /\ holds \in [Conns -> SUBSET Nat]
      /\ line \in [Conns -> DataPacket \union RecoveryRequest \union {Nothing}]
      /\ ctx \in [Conns -> 0..Len(contexts)]
      /\ reply \in [Conns -> Reply \union {Nothing}]
      /\ Len(issued) \in Nat /\ Len(issued') \in Nat
      /\ 0 \in 0..Len(issued') /\ Len(issued') \in 0..Len(issued')
  BY <1>1 DEF TypeOK
<1>3. CASE Hello(c)
  <2>1. pc'[c] = "send" /\ holds'[c] = {} /\ line'[c] = line[c] /\ ctx'[c] = ctx[c]
    BY <1>2, <1>3, Released DEF Hello, Answer, Goto
  <2>2. Answered(c)'
    <3>1. Answer(c, TRUE, "hello", 0, 0)
      BY <1>3 DEF Hello
    <3>2. QED
      BY <1>2, <3>1, NoAck
  <2>3. QED
    BY <2>1, <2>2, Sending
<1>4. CASE ReadLine(c)
  <2>1. PICK request \in Requests :
          IF BoundTo(c, request.session)
          THEN /\ line' = [line EXCEPT ![c] = request]
               /\ Goto(c, "registry")
               /\ UNCHANGED reply
          ELSE /\ Answer(c, FALSE,
                         IF bound[c] = NoSession THEN "unbound" ELSE "mismatch",
                         0, 0)
               /\ UNCHANGED line
    BY <1>4 DEF ReadLine
  <2>2. CASE BoundTo(c, request.session)
    <3>1. /\ pc'[c] = "registry" /\ line'[c] = request /\ bound'[c] = request.session
          /\ ctx'[c] = 0 /\ holds'[c] = {} /\ issued' = issued
      BY <1>1, <1>2, <1>4, <2>1, <2>2, Released
      DEF ReadLine, Goto, BoundTo, Working, shared
    <3>2. request # Nothing
          /\ (request.type = "RECOVERY_REQUEST" => request.nonce \in 0..Len(issued))
      BY <1>1, RequestType DEF DataPacket, RecoveryRequest, Nothing
    <3>3. QED
      BY <3>1, <3>2 DEF Thread, Working, Needed, Checked, Answered, Critical,
                        CriticalSteps, Data, Recovery, Steps
  <2>3. CASE ~BoundTo(c, request.session)
    <3>1. pc'[c] = "send" /\ holds'[c] = {} /\ line'[c] = line[c] /\ ctx'[c] = ctx[c]
      BY <1>2, <1>4, <2>1, <2>3, Released DEF ReadLine, Answer, Goto
    <3>2. Answered(c)'
      BY <1>2, <2>1, <2>3, NoAck
    <3>3. QED
      BY <3>1, <3>2, Sending
  <2>4. QED
    BY <2>2, <2>3
<1>5. CASE EndOfInput(c)
  BY <1>2, <1>5, Released, Idle DEF EndOfInput, Close, Goto
<1>6. CASE LockRegistry(c)
  <2>1. /\ pc[c] = "registry" /\ pc'[c] = "lookup" /\ holds'[c] = {RegistryLock}
        /\ line'[c] = line[c] /\ bound'[c] = bound[c] /\ ctx'[c] = ctx[c]
        /\ issued' = issued
    BY <1>2, <1>6, Released DEF LockRegistry, Acquire, Goto, shared
  <2>2. QED
    BY <1>1, <2>1 DEF Thread, Working, Needed, Checked, Answered, Critical,
                      CriticalSteps, Data, Recovery, Steps
<1>7. CASE Lookup(c)
  <2>1. pc[c] = "lookup" /\ line'[c] = line[c] /\ bound'[c] = bound[c]
        /\ registry' = registry /\ issued' = issued
    BY <1>7 DEF Lookup, shared
  <2>2. CASE registry[line[c].session] = 0
    <3>1. pc'[c] = "create" /\ holds'[c] = holds[c] /\ ctx'[c] = ctx[c]
      BY <1>2, <1>7, <2>2 DEF Lookup, Goto
    <3>2. QED
      BY <1>1, <2>1, <2>2, <3>1
      DEF Thread, Working, Needed, Checked, Answered, Critical, CriticalSteps,
          Data, Recovery, Steps
  <2>3. CASE registry[line[c].session] # 0
    <3>1. pc'[c] = "enter" /\ ctx'[c] = registry[line[c].session]
      BY <1>2, <1>7, <2>3 DEF Lookup, Goto
    <3>2. holds'[c] = {}
      BY <1>7, <2>1, <2>3, Released DEF Lookup
    <3>3. QED
      BY <1>1, <2>1, <2>3, <3>1, <3>2
      DEF Thread, Working, Needed, Checked, Answered, Critical, CriticalSteps,
          Data, Recovery, Steps
  <2>4. QED
    BY <2>2, <2>3
<1>8. CASE Create(c)
  <2>1. pc[c] = "create" /\ holds'[c] = {} /\ issued' = issued
    BY <1>8, Released DEF Create
  <2>2. CASE Close(c)
    BY <1>2, <2>1, <2>2, Idle DEF Close, Goto
  <2>3. CASE Created(c, line[c].session)
    <3>1. PICK r \in Sessions : r = line[c].session
      BY <1>1, <1>8, CreateEffect
    <3>2. Created(c, r)
      BY <2>3, <3>1
    <3>3. /\ registry'[r] = Len(contexts') /\ Len(contexts') # 0
      BY <1>1, <3>2, CreatedContexts
    <3>4. /\ pc'[c] = "enter" /\ ctx'[c] = Len(contexts')
          /\ line'[c] = line[c] /\ bound'[c] = bound[c]
      BY <1>2, <3>2 DEF Created, Goto
    <3>5. QED
      BY <1>1, <2>1, <3>1, <3>3, <3>4
      DEF Thread, Working, Needed, Checked, Answered, Critical, CriticalSteps,
          Data, Recovery, Steps
  <2>4. QED
    BY <1>1, <1>8, <2>2, <2>3, CreateEffect
<1>9. CASE Enter(c)
  <2>1. /\ pc[c] = "enter"
        /\ pc'[c] = IF line[c].type = "DATA" THEN "verify" ELSE "validate"
        /\ holds'[c] = {LockOf(ctx[c])}
        /\ line'[c] = line[c] /\ bound'[c] = bound[c] /\ ctx'[c] = ctx[c]
        /\ registry' = registry /\ issued' = issued
    BY <1>2, <1>9, Released DEF Enter, Acquire, Goto, shared
  <2>2. line[c].type \in {"DATA", "RECOVERY_REQUEST"}
    BY <1>1, <2>1, LineType DEF Working, Steps
  <2>3. LockOf(ctx[c])' = LockOf(ctx[c])
    BY <2>1 DEF LockOf
  <2>4. QED
    BY <1>1, <2>1, <2>2, <2>3
    DEF Thread, Working, Needed, Checked, Answered, Critical, CriticalSteps,
        Data, Recovery, Steps
<1>10. CASE Verify(c)
  <2>1. /\ pc[c] = "verify"
        /\ pc'[c] = IF line[c].prev_mem = contexts[ctx[c]].last_mem
                    THEN "accept" ELSE "reject"
        /\ holds'[c] = holds[c]
        /\ line'[c] = line[c] /\ bound'[c] = bound[c] /\ ctx'[c] = ctx[c]
        /\ registry' = registry /\ issued' = issued /\ contexts' = contexts
    BY <1>2, <1>10 DEF Verify, Goto, shared
  <2>2. LockOf(ctx[c])' = LockOf(ctx[c])
    BY <2>1 DEF LockOf
  <2>3. QED
    BY <1>1, <2>1, <2>2
    DEF Thread, Working, Needed, Checked, Answered, Critical, CriticalSteps,
        Data, Recovery, Steps
<1>11. CASE Accept(c)
  <2>1. pc[c] = "accept" /\ holds'[c] = {}
    BY <1>11, Released DEF Accept, Critical, CriticalSteps
  <2>2. CASE Close(c)
    BY <1>2, <2>1, <2>2, Idle DEF Close, Goto
  <2>3. CASE ~Close(c)
    <3> DEFINE mem == Append(line[c].prev_mem, c)
               nonce == IF Len(mem) % TicketInterval = 0 THEN Len(issued') ELSE 0
    <3>1. /\ Answer(c, TRUE, "handled", Len(mem), nonce)
          /\ line'[c] = line[c] /\ ctx'[c] = ctx[c]
      BY <1>11, <2>3 DEF Accept
    <3>2. PICK s \in Sessions : s = line[c].session /\ ctx[c] = registry[s]
                               /\ LogOf(s)' = Append(LogOf(s), c)
      <4>1. ctx[c] # 0
        BY <1>1, <2>1 DEF Working, Critical, CriticalSteps
      <4>2. PICK s \in Sessions : s = line[c].session
        BY <1>1, <4>1, OwnContext
      <4>3. QED
        BY <1>1, <1>11, <4>2, AcceptLogs
    <3>3. mem = LogOf(s)' /\ LogOf(s) \in Seq(Conns)
      <4>1. ctx[c] # 0
        BY <1>1, <2>1 DEF Working, Critical, CriticalSteps
      <4>2. mem = Append(LogOf(s), c)
        BY <1>1, <2>1, <3>2, <4>1 DEF LogOf, Checked
      <4>3. QED
        BY <1>1, <3>2, <4>2, LogType DEF Memory
    <3>4. LogOf(s)' \in Seq(Conns) /\ Len(mem) \in Nat
          /\ LogOf(s)'[Len(mem)] = c /\ Len(mem) <= Len(LogOf(s)')
      BY <3>2, <3>3
    <3> HIDE DEF mem
    <3>5. nonce \in 0..Len(issued') /\ nonce \in Nat
      BY <1>2
    <3> HIDE DEF nonce
    <3>6. PICK k \in Nat, n \in Nat : /\ k = Len(mem) /\ n = nonce
                                       /\ Answer(c, TRUE, "handled", k, n)
      BY <3>1, <3>4, <3>5
    <3>7. reply'[c] = [ok |-> TRUE, reason |-> "handled", seq |-> k, nonce |-> n]
           /\ pc'[c] = "send"
      BY <1>2, <3>6 DEF Answer, Goto
    <3>8. reply'[c] \in Reply /\ reply'[c].seq = k /\ reply'[c].nonce = n
      BY <3>7 DEF Reply
    <3>9. line'[c] # Nothing /\ line'[c].session = s
      BY <1>1, <2>1, <3>1, <3>2 DEF Working, Steps
    <3>10. Answered(c)'
      BY <3>4, <3>5, <3>6, <3>8, <3>9 DEF Answered
    <3>11. QED
      BY <2>1, <3>1, <3>7, <3>10, Sending
  <2>4. QED
    BY <2>2, <2>3
<1>12. CASE Reject(c)
  <2>1. holds'[c] = {} /\ pc'[c] = "send" /\ line'[c] = line[c] /\ ctx'[c] = ctx[c]
    BY <1>2, <1>12, Released DEF Reject, Critical, CriticalSteps, Answer, Goto
  <2>2. Answered(c)'
    <3>1. Answer(c, FALSE, "handled", 0, 0)
      BY <1>12 DEF Reject
    <3>2. QED
      BY <1>2, <3>1, NoAck
  <2>3. QED
    BY <2>1, <2>2, Sending
<1>13. CASE Validate(c)
  <2>1. pc[c] = "validate" /\ line'[c] = line[c] /\ ctx'[c] = ctx[c]
        /\ bound'[c] = bound[c] /\ registry' = registry /\ issued' = issued
        /\ used_nonces' = used_nonces
    BY <1>13 DEF Validate, shared
  <2>2. CASE TicketValid(line[c].nonce, contexts[ctx[c]])
    <3>1. pc'[c] = "consume" /\ holds'[c] = holds[c]
      BY <1>2, <1>13, <2>2 DEF Validate, Goto
    <3>2. contexts[ctx[c]].session = line[c].session
      BY <1>1, <2>1, OwnContext DEF Working, Critical, CriticalSteps
    <3>3. /\ line[c].nonce # 0 /\ line[c].nonce \notin used_nonces
          /\ issued[line[c].nonce].session = line[c].session
      BY <2>2, <3>2 DEF TicketValid
    <3>4. LockOf(ctx[c])' = LockOf(ctx[c])
      BY <2>1 DEF LockOf
    <3>5. QED
      BY <1>1, <2>1, <3>1, <3>3, <3>4
      DEF Thread, Working, Needed, Checked, Answered, Critical, CriticalSteps,
          Data, Recovery, Steps
  <2>3. CASE ~TicketValid(line[c].nonce, contexts[ctx[c]])
    <3>1. Answer(c, FALSE, "handled", 0, 0) /\ Release(c, LockOf(ctx[c]))
      BY <1>13, <2>3 DEF Validate
    <3>2. holds'[c] = {} /\ pc'[c] = "send"
      BY <1>2, <2>1, <3>1, Released DEF Critical, CriticalSteps, Answer, Goto
    <3>3. Answered(c)'
      BY <1>2, <3>1, NoAck
    <3>4. QED
      BY <2>1, <3>2, <3>3, Sending
  <2>4. QED
    BY <2>2, <2>3
<1>14. CASE Consume(c)
  <2>1. Answer(c, TRUE, "handled", 0, Len(issued'))
    BY <1>1, <1>14, ConsumeEffect
  <2>2. holds'[c] = {} /\ pc'[c] = "send" /\ line'[c] = line[c] /\ ctx'[c] = ctx[c]
    BY <1>2, <1>14, <2>1, Released DEF Consume, Critical, CriticalSteps, Answer, Goto
  <2>3. Answered(c)'
    BY <1>2, <2>1, NoAck
  <2>4. QED
    BY <2>2, <2>3, Sending
<1>15. CASE Send(c)
  BY <1>2, <1>15, Released, Idle DEF Send, Close, Goto
<1>16. QED
  BY <1>3, <1>4, <1>5, <1>6, <1>7, <1>8, <1>9, <1>10, <1>11, <1>12, <1>13, <1>14,
     <1>15
  DEF Serve

-----------------------------------------------------------------------------
(* Invariance *)

LEMMA InitIInv == Init => IInv
<1>1. SUFFICES ASSUME Init
               PROVE  IInv
  OBVIOUS
<1>2. TypeOK
  BY <1>1, LimitsAssumption DEF Init, TypeOK, Steps, Context, Ticket
<1>3. ASSUME NEW c \in Conns
      PROVE  Thread(c)
  BY <1>1 DEF Init, Thread, Working, Needed, Checked, Answered, Critical, CriticalSteps,
         Data, Recovery, Steps, Nothing
<1>4. LocksDisjoint /\ Registered /\ Counted
  BY <1>1 DEF Init, LocksDisjoint, Registered, Counted
<1>5. AckedInHistory /\ \A ack \in acked : ack[2] > 0
  BY <1>1 DEF Init, AckedInHistory
<1>6. QED
  BY <1>2, <1>3, <1>4, <1>5 DEF IInv

LEMMA StepIInv ==
  ASSUME IInv, [Next]_vars
  PROVE  IInv'
<1>1. CASE UNCHANGED vars
  BY <1>1
  DEF IInv, vars, shared, clients, TypeOK, Thread, Working, Needed, Checked,
      Answered, Critical, LocksDisjoint, Registered, Counted, AckedInHistory, LogOf,
      LockOf
<1>2. CASE Next
  <2>1. PICK c \in Conns : Serve(c) \/ Hello(c) \/ ReadLine(c) \/ EndOfInput(c)
    BY <1>2 DEF Next
  <2>2. TypeOK' /\ OthersSame(c) /\ SharedGrows(c)
    BY <2>1, TypeStep, StepsKeepOthers, StepsGrow DEF IInv
  <2>3. \A d \in Conns : Thread(d)'
    BY <2>1, <2>2, OthersKept, OwnStep
  <2>4. LocksDisjoint' /\ Registered' /\ Counted'
    BY <2>1, StepsKeepLocks, StepsKeepRegistered, StepsKeepCounted
  <2>5. AckedInHistory' /\ \A ack \in acked' : ack[2] > 0
    BY <2>1, <2>2, StepsKeepAcked DEF SharedGrows
  <2>6. QED
    BY <2>2, <2>3, <2>4, <2>5 DEF IInv
<1>3. QED
  BY <1>1, <1>2

\* The inductive invariant holds of every reachable state.
THEOREM Invariance == Spec => []IInv
BY InitIInv, StepIInv, PTL DEF Spec

-----------------------------------------------------------------------------
(* What the invariant implies *)

\* The variables of the server and of its clients stay within their types.
THEOREM TypeCorrect == Spec => []TypeOK
<1>1. IInv => TypeOK
  BY DEF IInv
<1>2. QED
  BY <1>1, Invariance, PTL

\* SessionRegistry.get_or_create never makes a second context for a session:
\* every thread that got one got the registered one.
THEOREM OneContext == Spec => []OneContextPerSession
<1>1. IInv => OneContextPerSession
  BY DEF IInv, Thread, Working, OneContextPerSession
<1>2. QED
  BY <1>1, Invariance, PTL

\* ctx.lock lets one thread at a time into the critical section of a session,
\* and the global lock one into any.
THEOREM Exclusive == Spec => []CriticalSectionsExclusive
<1>1. ASSUME IInv, NEW c \in Conns, NEW d \in Conns, Critical(c), Critical(d), c # d
      PROVE  LockStrategy = "per_session_lock" /\ bound[c] # bound[d]
  <2>1. ctx[c] # ctx[d] /\ LockOf(ctx[c]) # LockOf(ctx[d])
    BY <1>1, ContextsApart
  <2>2. LockStrategy = "per_session_lock"
    BY <2>1, LockStrategyAssumption DEF LockOf
  <2>3. Working(c) /\ Working(d)
    BY <1>1 DEF IInv, Thread
  <2>4. /\ ctx[c] = registry[bound[c]] /\ ctx[d] = registry[bound[d]]
    BY <1>1, <2>3 DEF Working, Critical, CriticalSteps, Steps
  <2>5. QED
    BY <2>1, <2>2, <2>4
<1>2. IInv => CriticalSectionsExclusive
  BY <1>1 DEF CriticalSectionsExclusive
<1>3. QED
  BY <1>2, Invariance, PTL

\* A message whose acknowledgement a client received is in the history of its
\* session for good, at the place the acknowledgement named.
THEOREM AckedStay == Spec => []AckedInHistory
<1>1. IInv => AckedInHistory
  BY DEF IInv
<1>2. QED
  BY <1>1, Invariance, PTL

\* The counters that stats reports agree with the history.
THEOREM StatsMatch == Spec => []StatsMatchHistory
<1>1. IInv => StatsMatchHistory
  BY DEF IInv, Counted, StatsMatchHistory
<1>2. QED
  BY <1>1, Invariance, PTL

\* consume_ticket_nonce never refuses what validate_memory_ticket passed: the
\* only thread that could have used the ticket since needs the same lock.
THEOREM ValidatedUnused == Spec => []ValidatedStaysUnused
<1>1. IInv => ValidatedStaysUnused
  BY DEF IInv, Thread, Checked, ValidatedStaysUnused
<1>2. QED
  BY <1>1, Invariance, PTL

-----------------------------------------------------------------------------
(* What a step may change *)

\* Only Accept changes a history, and it changes one.
LEMMA QuietLogs ==
  ASSUME IInv, NEW c \in Conns, ~Accept(c),
         Serve(c) \/ Hello(c) \/ ReadLine(c) \/ EndOfInput(c),
         NEW s \in Sessions
  PROVE  LogOf(s)' = LogOf(s)
<1>1. TypeOK /\ Registered /\ Thread(c)
  BY DEF IInv
<1>2. CASE UNCHANGED <<contexts, registry>>
  BY <1>2 DEF LogOf
<1>3. CASE Create(c)
  BY <1>1, <1>3, CreateLogs
<1>4. CASE Reject(c)
  BY <1>1, <1>4, RejectLogs
<1>5. UNCHANGED <<contexts, registry>> \/ Create(c) \/ Reject(c)
  BY DEF Serve, Hello, ReadLine, EndOfInput, LockRegistry, Lookup, Enter, Verify,
         Validate, Consume, Send, shared
<1>6. QED
  BY <1>2, <1>3, <1>4, <1>5

\* Only Accept and Consume issue tickets, and only Consume uses one.
LEMMA QuietTickets ==
  ASSUME NEW c \in Conns, ~Accept(c), ~Consume(c),
         Serve(c) \/ Hello(c) \/ ReadLine(c) \/ EndOfInput(c)
  PROVE  UNCHANGED <<issued, used_nonces>>
BY DEF Serve, Hello, ReadLine, EndOfInput, LockRegistry, Lookup, Create, Enter,
       Verify, Reject, Validate, Send, shared

\* The session of a thread in its critical section is the one its connection
\* is bound to, and its line's.
LEMMA CriticalSession ==
  ASSUME IInv, NEW c \in Conns, Critical(c)
  PROVE  /\ line[c].session \in Sessions /\ bound[c] = line[c].session
         /\ ctx[c] \in DOMAIN contexts /\ ctx[c] = registry[line[c].session]
         /\ contexts[ctx[c]].session = line[c].session
<1>1. TypeOK /\ Registered /\ Working(c)
  BY DEF IInv, Thread
<1>2. ctx[c] # 0 /\ bound[c] = line[c].session
  BY <1>1 DEF Working, Critical, CriticalSteps, Steps
<1>3. QED
  BY <1>1, <1>2, OwnContext

\* handle_client's binding check is enough: a session's history and the use of
\* its tickets change only in the critical section of a connection bound to it.
THEOREM BoundSessionOnly == Spec => ChangesOnlyBoundSession
<1>1. ASSUME IInv, Next
      PROVE  \A s \in Sessions :
               \/ LogOf(s)' # LogOf(s)
               \/ \E n \in used_nonces' \ used_nonces : issued[n].session = s
               => \E c \in Conns : bound[c] = s /\ Critical(c)
  <2>1. PICK c \in Conns : Serve(c) \/ Hello(c) \/ ReadLine(c) \/ EndOfInput(c)
    BY <1>1 DEF Next
  <2>2. SUFFICES ASSUME NEW s \in Sessions,
                        \/ LogOf(s)' # LogOf(s)
                        \/ \E n \in used_nonces' \ used_nonces : issued[n].session = s
                 PROVE  bound[c] = s /\ Critical(c)
    BY <2>1
  <2>3. TypeOK /\ Registered /\ Thread(c)
    BY <1>1 DEF IInv
  <2>4. CASE Accept(c)
    <3>1. Critical(c) /\ used_nonces' = used_nonces
      BY <2>4 DEF Accept, Critical, CriticalSteps
    <3>2. s = line[c].session
      BY <2>2, <2>3, <2>4, <3>1, AcceptLogs
    <3>3. QED
      BY <1>1, <3>1, <3>2, CriticalSession
  <2>5. CASE Consume(c)
    <3>1. Critical(c) /\ pc[c] = "consume" /\ ~Accept(c)
      BY <2>5 DEF Consume, Accept, Critical, CriticalSteps
    <3>2. LogOf(s)' = LogOf(s)
      BY <1>1, <2>1, <3>1, QuietLogs
    <3>3. used_nonces' = used_nonces \union {line[c].nonce}
      BY <2>3, <2>5, ConsumeEffect
    <3>4. issued[line[c].nonce].session = s
      BY <2>2, <3>2, <3>3
    <3>5. issued[line[c].nonce].session = line[c].session
      BY <2>3, <3>1 DEF Thread, Checked
    <3>6. QED
      BY <1>1, <3>1, <3>4, <3>5, CriticalSession
  <2>6. CASE ~Accept(c) /\ ~Consume(c)
    BY <1>1, <2>1, <2>2, <2>6, QuietLogs, QuietTickets
  <2>7. QED
    BY <2>4, <2>5, <2>6
<1>2. ASSUME IInv, [Next]_vars
      PROVE  [\A s \in Sessions :
                \/ LogOf(s)' # LogOf(s)
                \/ \E n \in used_nonces' \ used_nonces : issued[n].session = s
                => \E c \in Conns : bound[c] = s /\ Critical(c)]_vars
  BY <1>1, <1>2
<1>3. QED
  BY <1>2, Invariance, PTL DEF Spec, ChangesOnlyBoundSession

-----------------------------------------------------------------------------
(* The threads implement one message or recovery at a time *)

\* One session's history in the abstract server, from the contexts.
LEMMA LogFunction ==
  ASSUME TypeOK, TypeOK', NEW r \in Sessions, NEW e \in Conns,
         LogOf(r)' = Append(LogOf(r), e),
         \A s \in Sessions : s # r => LogOf(s)' = LogOf(s)
  PROVE  [s \in Sessions |-> LogOf(s)]'
           = [[s \in Sessions |-> LogOf(s)] EXCEPT ![r] = Append(@, e)]
OBVIOUS

\* The threads together implement AtomicSessions: Accept is its Accept, also
\* when the thread dies before it can issue the ticket, a Consume is its
\* Recover, and every other step leaves histories and tickets alone.
THEOREM Refinement == Spec => ImplementsAtomicSessions
<1> DEFINE log == [s \in Sessions |-> LogOf(s)]
<1>1. ASSUME Init
      PROVE  Atomic!Init
  BY <1>1 DEF Init, Atomic!Init, LogOf
<1>2. ASSUME IInv, IInv', [Next]_vars
      PROVE  [Atomic!Next]_<<log, issued, used_nonces>>
  <2>1. CASE UNCHANGED vars
    BY <2>1 DEF vars, shared, LogOf
  <2>2. CASE Next
    <3>1. PICK c \in Conns : Serve(c) \/ Hello(c) \/ ReadLine(c) \/ EndOfInput(c)
      BY <2>2 DEF Next
    <3>2. TypeOK /\ TypeOK' /\ Registered /\ Thread(c)
      BY <1>2 DEF IInv
    <3>3. CASE Accept(c)
      <4>1. Critical(c)
        BY <3>3 DEF Accept, Critical, CriticalSteps
      <4>2. PICK r \in Sessions : r = line[c].session
        BY <1>2, <4>1, CriticalSession
      <4>3. LogOf(r)' = Append(LogOf(r), c)
            /\ \A s \in Sessions : s # r => LogOf(s)' = LogOf(s)
        BY <3>2, <3>3, <4>2, AcceptLogs
      <4>4. log' = [log EXCEPT ![r] = Append(@, c)]
        BY <3>2, <4>3, LogFunction
      <4>5. log'[r] = Append(LogOf(r), c)
        BY <4>3
      <4>6. line[c].prev_mem = LogOf(r) /\ contexts[ctx[c]].session = r
        <5>1. line[c].prev_mem = contexts[ctx[c]].last_mem
              /\ ctx[c] = registry[r] /\ ctx[c] \in DOMAIN contexts
          BY <1>2, <3>2, <3>3, <4>1, <4>2, CriticalSession, AcceptEffect
        <5>2. ctx[c] # 0
          BY <3>2, <5>1 DEF TypeOK
        <5>3. QED
          BY <1>2, <4>1, <4>2, <5>1, <5>2, CriticalSession DEF LogOf
      <4>7. issued' = issued
            \/ issued' = Append(issued, [session  |-> r,
                                        last_seq |-> Len(Append(LogOf(r), c))])
        BY <3>3, <4>6 DEF Accept
      <4>8. used_nonces' = used_nonces
        BY <3>3 DEF Accept
      <4>9. Atomic!Accept(r)
        BY <4>4, <4>5, <4>7, <4>8 DEF Atomic!Accept, Atomic!Ticket
      <4>10. QED
        BY <4>9 DEF Atomic!Next
    <3>4. CASE Consume(c)
      <4>1. Critical(c) /\ pc[c] = "consume" /\ ~Accept(c)
        BY <3>4 DEF Consume, Accept, Critical, CriticalSteps
      <4>2. PICK r \in Sessions : r = line[c].session
        BY <1>2, <4>1, CriticalSession
      <4>3. log' = log
        BY <1>2, <3>1, <4>1, QuietLogs
      <4>4. /\ used_nonces' = used_nonces \union {line[c].nonce}
            /\ line[c].nonce \notin used_nonces
            /\ issued' = Append(issued, [session  |-> contexts[ctx[c]].session,
                                  last_seq |-> Len(contexts[ctx[c]].last_mem)])
        BY <3>2, <3>4, ConsumeEffect
      <4>5. contexts[ctx[c]].session = r /\ contexts[ctx[c]].last_mem = log[r]
        <5>1. ctx[c] = registry[r] /\ ctx[c] \in DOMAIN contexts
              /\ contexts[ctx[c]].session = r
          BY <1>2, <4>1, <4>2, CriticalSession
        <5>2. ctx[c] # 0
          BY <3>2, <5>1 DEF TypeOK
        <5>3. QED
          BY <5>1, <5>2 DEF LogOf
      <4>6. /\ line[c].nonce \in DOMAIN issued
            /\ issued[line[c].nonce].session = r
        <5>1. /\ line[c].type = "RECOVERY_REQUEST" /\ line[c].nonce # 0
              /\ issued[line[c].nonce].session = line[c].session
          BY <3>2, <4>1 DEF Thread, Working, Checked, Recovery
        <5>2. line[c].nonce \in 0..Len(issued) /\ issued \in Seq(Ticket)
          BY <3>2, <5>1 DEF Thread, Checked, TypeOK
        <5>3. QED
          BY <4>2, <5>1, <5>2
      <4>7. Atomic!Recover(r)
        BY <4>3, <4>4, <4>5, <4>6 DEF Atomic!Recover, Atomic!Ticket
      <4>8. QED
        BY <4>7 DEF Atomic!Next
    <3>5. CASE ~Accept(c) /\ ~Consume(c)
      <4>1. log' = log
        BY <1>2, <3>1, <3>5, QuietLogs
      <4>2. UNCHANGED <<issued, used_nonces>>
        BY <3>1, <3>5, QuietTickets
      <4>3. QED
        BY <4>1, <4>2
    <3>6. QED
      BY <3>3, <3>4, <3>5
  <2>3. QED
    BY <1>2, <2>1, <2>2
<1>3. QED
  BY <1>1, <1>2, Invariance, PTL DEF Spec, ImplementsAtomicSessions, Atomic!Spec

-----------------------------------------------------------------------------
(* The concurrent experiment (ConcurrentClients), for any number of clients   *)
(* and messages, both lock strategies, and any timeouts and faults.           *)
(*                                                                            *)
(* Each client's part of the invariant is about the client alone: what it has *)
(* counted, what it knows of its session, and what its connection holds.  A   *)
(* step of one client leaves the others' parts as they are, and the locks say *)
(* who may send or receive.                                                   *)

CONSTANTS Clients, Messages, VerifierTakes, Main, Nobody, MaxTimeouts, MaxFaults
VARIABLES place, broken, arrived, lock, seq, state, usable, count, inbox,
          answers, closed, server, results, timeouts, faults

Pool == INSTANCE ConcurrentClients
  WITH lock_strategy <- LockStrategy, pc <- place

Session == [last_seq : Nat, last_mem : Seq(Nat)]
Packet == [seq : Nat, prev_mem : Seq(Nat), signed : {TRUE}, hash_fits : {TRUE}]
Response == [of : Nat, ok : BOOLEAN, last_seq : Nat, last_mem : Seq(Nat)]
Counts == [{"sent", "accepted", "rejected", "timeout", "error"} -> Nat]

Locked == {"sending", "receiving"}
Awaiting == {"to_receive", "receiving"}

PoolTypes ==
  /\ DOMAIN place = Pool!Parties /\ arrived \subseteq Pool!Parties
  /\ lock \in [Pool!Parties -> Clients \union {Nobody}] /\ results \subseteq Clients
  /\ seq \in [Clients -> Nat] /\ state \in [Clients -> Session]
  /\ usable \in [Clients -> BOOLEAN] /\ count \in [Clients -> Counts]
  /\ inbox \in [Clients -> Seq(Packet)] /\ answers \in [Clients -> Seq(Response)]
  /\ closed \in [Clients -> BOOLEAN] /\ server \in [Clients -> Session]

\* A lock is held by one of its clients, which sends or receives; and one that
\* does holds its lock.
Locks ==
  /\ \A p \in Pool!Parties : lock[p] # Nobody =>
       Pool!LockOf(lock[p]) = p /\ place[lock[p]] \in Locked
  /\ \A c \in Clients : place[c] \in Locked => lock[Pool!LockOf(c)] = c

\* Every message up to the client's is counted once.
CountsUp(c) ==
  /\ count[c].accepted + count[c].rejected + count[c].timeout + count[c].error = seq[c] - 1
  /\ seq[c] <= Messages + 1
  /\ place[c] \in {"to_send"} \union Locked \union Awaiting => seq[c] <= Messages
  /\ place[c] = "ended" => seq[c] = Messages + 1
  /\ count[c].sent <= IF place[c] \in Awaiting THEN seq[c] ELSE seq[c] - 1
  /\ place[c] \in Pool!Running => arrived = Pool!Parties

\* What the session is, and what the client and the answers to it say of it.
TellsServer(c, s) ==
  s.last_mem = Pool!History(s.last_seq) /\ s.last_seq <= server[c].last_seq
Continues(c) ==
  /\ TellsServer(c, server[c]) /\ TellsServer(c, state[c])
  /\ \A i \in 1..Len(answers[c]) : TellsServer(c, answers[c][i])
  /\ count[c].accepted <= server[c].last_seq

\* While its file can be read the connection holds at most the client's packet or
\* the answer to it, and nothing between two messages.
InFlight(c) ==
  usable[c] =>
    /\ place[c] \notin Awaiting => answers[c] = <<>> /\ (closed[c] \/ inbox[c] = <<>>)
    /\ place[c] \in Awaiting =>
         \/ /\ answers[c] = <<>>
            /\ closed[c] \/ (Len(inbox[c]) = 1 /\ inbox[c][1].seq = seq[c])
         \/ /\ closed[c] \/ inbox[c] = <<>>
            /\ Len(answers[c]) = 1 /\ answers[c][1].of = seq[c]
            /\ answers[c][1].ok => count[c].accepted + 1 <= server[c].last_seq

ClientInv(c) == CountsUp(c) /\ Continues(c) /\ InFlight(c)

PoolInv == PoolTypes /\ Locks /\ \A c \in Clients : ClientInv(c)

\* A sequence of one element.
LEMMA TailOfOne ==
  ASSUME NEW S, NEW s \in Seq(S), Len(s) = 1
  PROVE  Tail(s) = <<>>
<1>1. Tail(s) \in Seq(S) /\ Len(Tail(s)) = 0
  OBVIOUS
<1>2. ASSUME NEW t \in Seq(S), Len(t) = 0 PROVE t = <<>>
  BY <1>2
<1>3. QED
  BY <1>1, <1>2

\* Where a response and a session stand.
LEMMA PoolAssumed ==
  ASSUME Pool!ConcurrentAssumption
  PROVE  /\ Messages \in Nat
         /\ Main \notin Clients /\ Nobody \notin Clients
         /\ Clients \subseteq Pool!Parties /\ Main \in Pool!Parties
         /\ \A c \in Clients : Pool!LockOf(c) \in Pool!Parties
BY DEF Pool!ConcurrentAssumption, Pool!Parties, Pool!LockOf

\* A step of one client c, or of its connection, leaves the others as they are.
OnlyClient(c) ==
  /\ arrived' = arrived
  /\ \A d \in Clients \ {c} :
       /\ place'[d] = place[d] /\ seq'[d] = seq[d] /\ state'[d] = state[d]
       /\ usable'[d] = usable[d] /\ count'[d] = count[d] /\ inbox'[d] = inbox[d]
       /\ answers'[d] = answers[d] /\ closed'[d] = closed[d] /\ server'[d] = server[d]

LEMMA OthersStay ==
  ASSUME NEW c \in Clients, \A d \in Clients : ClientInv(d), OnlyClient(c), ClientInv(c)'
  PROVE  \A d \in Clients : ClientInv(d)'
<1>1. SUFFICES ASSUME NEW d \in Clients, d # c PROVE ClientInv(d)'
  OBVIOUS
<1>2. /\ arrived' = arrived
      /\ place'[d] = place[d] /\ seq'[d] = seq[d] /\ state'[d] = state[d]
      /\ usable'[d] = usable[d] /\ count'[d] = count[d] /\ inbox'[d] = inbox[d]
      /\ answers'[d] = answers[d] /\ closed'[d] = closed[d] /\ server'[d] = server[d]
  BY <1>1 DEF OnlyClient
<1>3. ClientInv(d)
  BY <1>1
<1>4. CountsUp(d)'
  BY <1>2, <1>3 DEF ClientInv, CountsUp
<1>5. Continues(d)'
  BY <1>2, <1>3 DEF ClientInv, Continues, TellsServer
<1>6. InFlight(d)'
  BY <1>2, <1>3 DEF ClientInv, InFlight
<1>7. QED
  BY <1>4, <1>5, <1>6 DEF ClientInv

\* A client takes its free lock.
LEMMA LockTaken ==
  ASSUME Pool!ConcurrentAssumption, PoolTypes, Locks, NEW c \in Clients, NEW from, NEW where,
         Pool!Acquire(c, from, where), from \notin Locked, where \in Locked
  PROVE  Locks' /\ lock' \in [Pool!Parties -> Clients \union {Nobody}]
<1>1. /\ place[c] = from /\ lock[Pool!LockOf(c)] = Nobody
      /\ lock' = [lock EXCEPT ![Pool!LockOf(c)] = c] /\ place' = [place EXCEPT ![c] = where]
  BY DEF Pool!Acquire, Pool!Goto
<1>2. /\ c \in Pool!Parties /\ Pool!LockOf(c) \in Pool!Parties /\ Nobody \notin Clients
      /\ Clients \subseteq Pool!Parties
  BY PoolAssumed
<1>3. /\ lock'[Pool!LockOf(c)] = c
      /\ \A p \in Pool!Parties : p # Pool!LockOf(c) => lock'[p] = lock[p]
      /\ place'[c] = where /\ \A d \in Clients : d # c => place'[d] = place[d]
  BY <1>1, <1>2 DEF PoolTypes
<1>4. lock' \in [Pool!Parties -> Clients \union {Nobody}]
  BY <1>1, <1>2 DEF PoolTypes
<1>5. ASSUME NEW p \in Pool!Parties, lock'[p] # Nobody
      PROVE  Pool!LockOf(lock'[p]) = p /\ place'[lock'[p]] \in Locked
  <2>1. CASE p = Pool!LockOf(c)
    BY <1>3, <2>1
  <2>2. CASE p # Pool!LockOf(c)
    <3>1. lock'[p] = lock[p] /\ lock[p] \in Clients
      BY <1>3, <1>5, <2>2 DEF PoolTypes
    <3>2. Pool!LockOf(lock[p]) = p /\ place[lock[p]] \in Locked
      BY <1>5, <3>1 DEF Locks
    <3>3. lock[p] # c
      BY <2>2, <3>2
    <3>4. QED
      BY <1>3, <3>1, <3>2, <3>3
  <2>3. QED
    BY <2>1, <2>2
<1>6. ASSUME NEW d \in Clients, place'[d] \in Locked
      PROVE  lock'[Pool!LockOf(d)] = d
  <2>1. CASE d = c
    BY <1>3, <2>1
  <2>2. CASE d # c
    <3>1. lock[Pool!LockOf(d)] = d
      BY <1>3, <1>6, <2>2 DEF Locks
    <3>2. Pool!LockOf(d) # Pool!LockOf(c) /\ Pool!LockOf(d) \in Pool!Parties
      BY <1>1, <1>2, <3>1, PoolAssumed
    <3>3. QED
      BY <1>3, <3>1, <3>2
  <2>3. QED
    BY <2>1, <2>2
<1>7. QED
  BY <1>4, <1>5, <1>6 DEF Locks, Pool!LockOf

\* A client gives its lock back.
LEMMA LockReturned ==
  ASSUME Pool!ConcurrentAssumption, PoolTypes, Locks, NEW c \in Clients, NEW where,
         Pool!Release(c), place[c] \in Locked, where \notin Locked,
         place' = [place EXCEPT ![c] = where]
  PROVE  Locks' /\ lock' \in [Pool!Parties -> Clients \union {Nobody}]
<1>1. /\ c \in Pool!Parties /\ Pool!LockOf(c) \in Pool!Parties /\ Nobody \notin Clients
      /\ Clients \subseteq Pool!Parties
  BY PoolAssumed
<1>2. /\ lock' = [lock EXCEPT ![Pool!LockOf(c)] = Nobody]
      /\ lock[Pool!LockOf(c)] = c
  BY DEF Pool!Release, Locks
<1>3. /\ lock'[Pool!LockOf(c)] = Nobody
      /\ \A p \in Pool!Parties : p # Pool!LockOf(c) => lock'[p] = lock[p]
      /\ place'[c] = where /\ \A d \in Clients : d # c => place'[d] = place[d]
  BY <1>1, <1>2 DEF PoolTypes
<1>4. lock' \in [Pool!Parties -> Clients \union {Nobody}]
  BY <1>1, <1>2 DEF PoolTypes
<1>5. ASSUME NEW p \in Pool!Parties, lock'[p] # Nobody
      PROVE  Pool!LockOf(lock'[p]) = p /\ place'[lock'[p]] \in Locked
  <2>1. p # Pool!LockOf(c)
    BY <1>3, <1>5
  <2>2. lock'[p] = lock[p] /\ lock[p] \in Clients
    BY <1>3, <1>5, <2>1 DEF PoolTypes
  <2>3. Pool!LockOf(lock[p]) = p /\ place[lock[p]] \in Locked
    BY <1>5, <2>2 DEF Locks
  <2>4. lock[p] # c
    BY <2>1, <2>3
  <2>5. QED
    BY <1>3, <2>2, <2>3, <2>4
<1>6. ASSUME NEW d \in Clients, place'[d] \in Locked
      PROVE  lock'[Pool!LockOf(d)] = d
  <2>1. d # c
    BY <1>3, <1>6
  <2>2. lock[Pool!LockOf(d)] = d
    BY <1>3, <1>6, <2>1 DEF Locks
  <2>3. Pool!LockOf(d) # Pool!LockOf(c) /\ Pool!LockOf(d) \in Pool!Parties
    BY <1>2, <2>1, <2>2, PoolAssumed
  <2>4. QED
    BY <1>3, <2>2, <2>3
<1>7. QED
  BY <1>4, <1>5, <1>6 DEF Locks, Pool!LockOf

\* No lock moves.
LEMMA LocksStay ==
  ASSUME PoolTypes, Locks, lock' = lock,
         \A c \in Clients : place'[c] = place[c] \/ (place[c] \notin Locked /\ place'[c] \notin Locked)
  PROVE  Locks' /\ lock' \in [Pool!Parties -> Clients \union {Nobody}]
<1>1. \A p \in Pool!Parties : lock[p] # Nobody => lock[p] \in Clients
  BY DEF PoolTypes
<1>2. QED
  BY <1>1 DEF PoolTypes, Locks, Pool!LockOf

LEMMA PoolInit ==
  ASSUME Pool!ConcurrentAssumption, Pool!Init
  PROVE  PoolInv
<1>1. /\ place = [p \in Pool!Parties |-> "arriving"] /\ arrived = {}
      /\ lock = [p \in Pool!Parties |-> Nobody]
      /\ seq = [c \in Clients |-> 1] /\ state = [c \in Clients |-> Pool!FreshSession]
      /\ usable = [c \in Clients |-> TRUE] /\ count = [c \in Clients |-> Pool!Zero]
      /\ inbox = [c \in Clients |-> <<>>] /\ answers = [c \in Clients |-> <<>>]
      /\ closed = [c \in Clients |-> FALSE] /\ server = [c \in Clients |-> Pool!FreshSession]
      /\ results = {}
  BY DEF Pool!Init
<1>2. Messages \in Nat /\ Clients \subseteq Pool!Parties
  BY PoolAssumed
<1>3. Pool!FreshSession \in Session /\ Pool!Zero \in Counts
  BY DEF Pool!FreshSession, Pool!Zero, Session, Counts
<1>4. PoolTypes
  BY <1>1, <1>3 DEF PoolTypes
<1>5. Locks
  BY <1>1, <1>2 DEF Locks, Locked
<1>6. ASSUME NEW c \in Clients PROVE ClientInv(c)
  <2>1. /\ place[c] = "arriving" /\ seq[c] = 1 /\ state[c] = Pool!FreshSession
        /\ count[c] = Pool!Zero /\ inbox[c] = <<>> /\ answers[c] = <<>>
        /\ server[c] = Pool!FreshSession
    BY <1>1, <1>2
  <2>2. CountsUp(c)
    BY <1>2, <2>1 DEF CountsUp, Pool!Zero, Pool!Running, Locked, Awaiting
  <2>3. Pool!History(0) = <<>>
    BY DEF Pool!History
  <2>4. Continues(c)
    BY <2>1, <2>3 DEF Continues, TellsServer, Pool!FreshSession, Pool!Zero
  <2>5. InFlight(c)
    BY <2>1 DEF InFlight, Awaiting
  <2>6. QED
    BY <2>2, <2>4, <2>5 DEF ClientInv
<1>7. QED
  BY <1>4, <1>5, <1>6 DEF PoolInv

\* Steps that change no more than where a client is, and perhaps that its connection is
\* closed or that all have arrived.
LEMMA PlaceMoves ==
  ASSUME Pool!ConcurrentAssumption, PoolInv, NEW c \in Clients, NEW w,
         place' = [place EXCEPT ![c] = w],
         arrived' = arrived, UNCHANGED Pool!client, UNCHANGED Pool!net,
         results' \subseteq Clients,
         Locks' /\ lock' \in [Pool!Parties -> Clients \union {Nobody}],
         CountsUp(c)', w \in Awaiting <=> place[c] \in Awaiting
  PROVE  PoolInv'
<1>1. /\ seq' = seq /\ state' = state /\ usable' = usable /\ count' = count
      /\ inbox' = inbox /\ answers' = answers /\ closed' = closed /\ server' = server
  BY DEF Pool!client, Pool!net
<1>2. c \in Pool!Parties /\ Clients \subseteq Pool!Parties
  BY PoolAssumed
<1>3. place'[c] = w /\ \A d \in Clients : d # c => place'[d] = place[d]
  BY <1>2 DEF PoolInv, PoolTypes
<1>4. PoolTypes'
  BY <1>1 DEF PoolInv, PoolTypes, Pool!Parties
<1>5. OnlyClient(c)
  BY <1>1, <1>3 DEF OnlyClient
<1>6. Continues(c)'
  BY <1>1 DEF PoolInv, ClientInv, Continues, TellsServer
<1>7. InFlight(c)'
  BY <1>1, <1>3 DEF PoolInv, ClientInv, InFlight
<1>8. \A d \in Clients : ClientInv(d)'
  BY <1>5, <1>6, <1>7, OthersStay DEF PoolInv, ClientInv
<1>9. QED
  BY <1>4, <1>8 DEF PoolInv

\* The barrier.
LEMMA ArriveKeeps ==
  ASSUME Pool!ConcurrentAssumption, PoolInv, NEW p \in Pool!Parties, Pool!Arrive(p)
  PROVE  PoolInv'
<1>1. /\ place[p] = "arriving" /\ place' = [place EXCEPT ![p] = "waiting"]
      /\ arrived \subseteq arrived' /\ arrived' \subseteq Pool!Parties
      /\ lock' = lock /\ results' = results
      /\ seq' = seq /\ state' = state /\ usable' = usable /\ count' = count
      /\ inbox' = inbox /\ answers' = answers /\ closed' = closed /\ server' = server
  BY DEF Pool!Arrive, Pool!Goto, Pool!client, Pool!net, PoolInv, PoolTypes
<1>2. Clients \subseteq Pool!Parties
  BY PoolAssumed
<1>3. /\ DOMAIN place' = DOMAIN place
      /\ \A d \in Clients : place'[d] = place[d] \/ (place[d] = "arriving" /\ place'[d] = "waiting")
  BY <1>1, <1>2 DEF PoolInv, PoolTypes
<1>4. PoolTypes'
  BY <1>1, <1>3 DEF PoolInv, PoolTypes, Pool!Parties
<1>5. Locks'
  BY <1>1, <1>3, LocksStay DEF PoolInv, Locked
<1>6. ASSUME NEW d \in Clients PROVE ClientInv(d)'
  <2>1. CountsUp(d)'
    <3>1. arrived = Pool!Parties => arrived' = Pool!Parties'
      BY <1>1 DEF Pool!Parties
    <3>2. QED
      BY <1>1, <1>3, <3>1
         DEF PoolInv, ClientInv, CountsUp, Locked, Awaiting, Pool!Running, Pool!Parties
  <2>2. Continues(d)'
    BY <1>1 DEF PoolInv, ClientInv, Continues, TellsServer
  <2>3. InFlight(d)'
    BY <1>1, <1>3 DEF PoolInv, ClientInv, InFlight, Awaiting
  <2>4. QED
    BY <2>1, <2>2, <2>3 DEF ClientInv
<1>7. QED
  BY <1>4, <1>5, <1>6 DEF PoolInv

\* A client passes the barrier when it is whole and fails when it is broken; what the main
\* thread does is no concern of the clients.
LEMMA LeaveKeeps ==
  ASSUME Pool!ConcurrentAssumption, PoolInv, NEW p \in Pool!Parties, Pool!Leave(p)
  PROVE  PoolInv'
<1>1. /\ place[p] = "waiting" /\ (arrived = Pool!Parties \/ broken)
      /\ arrived' = arrived /\ lock' = lock /\ results' = results
      /\ UNCHANGED Pool!client /\ UNCHANGED Pool!net
      /\ place' = [place EXCEPT ![p] = IF p = Main THEN "collecting"
                                       ELSE IF broken THEN "failed" ELSE "open"]
  BY DEF Pool!Leave, Pool!Goto, Pool!barrier
<1>2. Main \notin Clients /\ Clients \subseteq Pool!Parties /\ Messages \in Nat
  BY PoolAssumed
<1>3. \A d \in Clients : place'[d] = place[d]
                         \/ (place[d] \notin Locked /\ place'[d] \notin Locked)
  BY <1>1, <1>2 DEF PoolInv, PoolTypes, Locked
<1>4. Locks' /\ lock' \in [Pool!Parties -> Clients \union {Nobody}]
  BY <1>1, <1>3, LocksStay DEF PoolInv
<1>5. CASE p \in Clients
  <2>1. /\ place'[p] = IF broken THEN "failed" ELSE "open"
        /\ place' = [place EXCEPT ![p] = IF broken THEN "failed" ELSE "open"]
    BY <1>1, <1>2, <1>5 DEF PoolInv, PoolTypes
  <2>2. CountsUp(p)'
    <3>1. /\ place'[p] \in {"failed", "open"} /\ (place'[p] = "open" => arrived = Pool!Parties)
          /\ seq' = seq /\ count' = count /\ Pool!Parties' = Pool!Parties
      BY <1>1, <2>1 DEF Pool!client, Pool!Parties
    <3>2. CountsUp(p) /\ place[p] = "waiting"
      BY <1>1, <1>5 DEF PoolInv, ClientInv
    <3>3. /\ count[p].sent <= seq[p] - 1
          /\ place'[p] \notin {"to_send", "ended"} \union Locked \union Awaiting
      BY <3>1, <3>2 DEF CountsUp, Locked, Awaiting
    <3>4. "failed" \notin Pool!Running
      BY DEF Pool!Running
    <3>5. place'[p] \in Pool!Running => arrived = Pool!Parties
      BY <3>1, <3>4
    <3>6. QED
      BY <1>1, <3>1, <3>2, <3>3, <3>5 DEF CountsUp
  <2>3. QED
    BY <1>1, <1>4, <1>5, <2>1, <2>2, PlaceMoves DEF Awaiting, PoolInv, PoolTypes
<1>6. CASE p \notin Clients
  <2>1. \A d \in Clients : place'[d] = place[d]
    BY <1>1, <1>2, <1>6 DEF PoolInv, PoolTypes
  <2>2. /\ seq' = seq /\ state' = state /\ usable' = usable /\ count' = count
        /\ inbox' = inbox /\ answers' = answers /\ closed' = closed /\ server' = server
    BY <1>1 DEF Pool!client, Pool!net
  <2>3. PoolTypes'
    BY <1>1, <1>4, <2>2 DEF PoolInv, PoolTypes, Pool!Parties
  <2>4. ASSUME NEW d \in Clients PROVE ClientInv(d)'
    BY <1>1, <2>1, <2>2
       DEF PoolInv, ClientInv, CountsUp, Continues, TellsServer, InFlight, Pool!Parties, Pool!Running
  <2>5. QED
    BY <1>4, <2>3, <2>4 DEF PoolInv
<1>7. QED
  BY <1>5, <1>6

\* A step that only changes the bounds, the barrier's state or what has been collected.
LEMMA PoolStays ==
  ASSUME PoolInv, UNCHANGED <<place, arrived, lock>>, UNCHANGED Pool!client,
         UNCHANGED Pool!net, results' \subseteq Clients
  PROVE  PoolInv'
<1>1. /\ seq' = seq /\ state' = state /\ usable' = usable /\ count' = count
      /\ inbox' = inbox /\ answers' = answers /\ closed' = closed /\ server' = server
  BY DEF Pool!client, Pool!net
<1>2. PoolTypes' /\ Locks'
  BY <1>1 DEF PoolInv, PoolTypes, Locks, Pool!Parties, Pool!LockOf
<1>3. ASSUME NEW d \in Clients PROVE ClientInv(d)'
  BY <1>1
     DEF PoolInv, ClientInv, CountsUp, Continues, TellsServer, InFlight, Pool!Parties, Pool!Running
<1>4. QED
  BY <1>2, <1>3 DEF PoolInv

\* What a client's steps at its place keep (OpenTCP, NextMessage, the locks).
LEMMA OpenKeeps ==
  ASSUME Pool!ConcurrentAssumption, PoolInv, NEW c \in Clients, Pool!OpenTCP(c)
  PROVE  PoolInv'
<1>1. PICK w \in {"next", "failed"} : place' = [place EXCEPT ![c] = w]
  BY DEF Pool!OpenTCP, Pool!Goto
<1>2. /\ place[c] = "open" /\ arrived' = arrived /\ lock' = lock /\ results' = results
      /\ UNCHANGED Pool!client /\ UNCHANGED Pool!net
  BY DEF Pool!OpenTCP, Pool!barrier
<1>3. c \in DOMAIN place
  BY PoolAssumed DEF PoolInv, PoolTypes
<1>4. \A d \in Clients : place'[d] = place[d]
                         \/ (place[d] \notin Locked /\ place'[d] \notin Locked)
  BY <1>1, <1>2, <1>3 DEF Locked
<1>5. Locks' /\ lock' \in [Pool!Parties -> Clients \union {Nobody}]
  BY <1>2, <1>4, LocksStay DEF PoolInv
<1>6. CountsUp(c)'
  <2>1. CountsUp(c) /\ place'[c] = w /\ seq' = seq /\ count' = count
    BY <1>1, <1>2, <1>3 DEF PoolInv, ClientInv, Pool!client
  <2>2. place[c] \in Pool!Running /\ Pool!Parties' = Pool!Parties
    BY <1>2 DEF Pool!Running, Pool!Parties
  <2>3. QED
    BY <1>2, <2>1, <2>2 DEF CountsUp, Locked, Awaiting
<1>7. w \in Awaiting <=> place[c] \in Awaiting
  BY <1>2 DEF Awaiting
<1>8. results' \subseteq Clients
  BY <1>2 DEF PoolInv, PoolTypes
<1>9. QED
  BY <1>1, <1>2, <1>5, <1>6, <1>7, <1>8, PlaceMoves

LEMMA NextKeeps ==
  ASSUME Pool!ConcurrentAssumption, PoolInv, NEW c \in Clients, Pool!NextMessage(c)
  PROVE  PoolInv'
<1> DEFINE w == IF seq[c] > Messages THEN "ended" ELSE "to_send"
<1>1. place' = [place EXCEPT ![c] = w]
  BY DEF Pool!NextMessage, Pool!Goto
<1>2. /\ place[c] = "next" /\ arrived' = arrived /\ lock' = lock /\ results' = results
      /\ UNCHANGED Pool!client /\ UNCHANGED Pool!net
  BY DEF Pool!NextMessage, Pool!barrier
<1>3. c \in DOMAIN place
  BY PoolAssumed DEF PoolInv, PoolTypes
<1>4. \A d \in Clients : place'[d] = place[d]
                         \/ (place[d] \notin Locked /\ place'[d] \notin Locked)
  BY <1>1, <1>2, <1>3 DEF Locked
<1>5. Locks' /\ lock' \in [Pool!Parties -> Clients \union {Nobody}]
  BY <1>2, <1>4, LocksStay DEF PoolInv
<1>6. CountsUp(c)'
  <2>1. CountsUp(c) /\ place'[c] = w /\ seq' = seq /\ count' = count
    BY <1>1, <1>2, <1>3 DEF PoolInv, ClientInv, Pool!client
  <2>2. place[c] \in Pool!Running /\ Pool!Parties' = Pool!Parties
    BY <1>2 DEF Pool!Running, Pool!Parties
  <2>3. seq[c] \in Nat /\ Messages \in Nat
    BY PoolAssumed DEF PoolInv, PoolTypes
  <2>4. QED
    BY <1>2, <2>1, <2>2, <2>3 DEF CountsUp, Locked, Awaiting
<1>7. w \in Awaiting <=> place[c] \in Awaiting
  BY <1>2 DEF Awaiting
<1>8. results' \subseteq Clients
  BY <1>2 DEF PoolInv, PoolTypes
<1> HIDE DEF w
<1>9. QED
  BY <1>1, <1>2, <1>5, <1>6, <1>7, <1>8, PlaceMoves

LEMMA AcquireKeeps ==
  ASSUME Pool!ConcurrentAssumption, PoolInv, NEW c \in Clients,
         Pool!AcquireToSend(c) \/ Pool!AcquireToReceive(c)
  PROVE  PoolInv'
<1>1. PICK from, w : /\ <<from, w>> \in {<<"to_send", "sending">>, <<"to_receive", "receiving">>}
                     /\ Pool!Acquire(c, from, w)
  BY DEF Pool!AcquireToSend, Pool!AcquireToReceive
<1>2. /\ place[c] = from /\ place' = [place EXCEPT ![c] = w]
      /\ arrived' = arrived /\ results' = results
      /\ UNCHANGED Pool!client /\ UNCHANGED Pool!net
  BY <1>1 DEF Pool!AcquireToSend, Pool!AcquireToReceive, Pool!Acquire, Pool!Goto, Pool!barrier
<1>3. from \notin Locked /\ w \in Locked /\ (w \in Awaiting <=> from \in Awaiting)
  BY <1>1 DEF Locked, Awaiting
<1>4. Locks' /\ lock' \in [Pool!Parties -> Clients \union {Nobody}]
  BY <1>1, <1>3, LockTaken DEF PoolInv
<1>5. CountsUp(c)'
  <2>1. CountsUp(c) /\ place'[c] = w /\ seq' = seq /\ count' = count
    BY <1>2, PoolAssumed DEF PoolInv, PoolTypes, ClientInv, Pool!client
  <2>2. /\ place[c] \in Pool!Running /\ Pool!Parties' = Pool!Parties
        /\ place[c] \in {"to_send"} \union Locked \union Awaiting /\ w # "ended"
    BY <1>1, <1>2 DEF Pool!Running, Pool!Parties, Awaiting
  <2>3. QED
    BY <1>2, <1>3, <2>1, <2>2 DEF CountsUp
<1>6. results' \subseteq Clients
  BY <1>2 DEF PoolInv, PoolTypes
<1>7. QED
  BY <1>2, <1>3, <1>4, <1>5, <1>6, PlaceMoves

\* The server gives up a connection.
LEMMA CloseKeeps ==
  ASSUME Pool!ConcurrentAssumption, PoolInv, NEW c \in Clients, Pool!CloseConnection(c)
  PROVE  PoolInv'
<1>1. /\ closed' = [closed EXCEPT ![c] = TRUE]
      /\ place' = place /\ arrived' = arrived /\ lock' = lock /\ results' = results
      /\ seq' = seq /\ state' = state /\ usable' = usable /\ count' = count
      /\ inbox' = inbox /\ answers' = answers /\ server' = server
  BY DEF Pool!CloseConnection, Pool!barrier, Pool!client
<1>2. closed'[c] = TRUE /\ \A d \in Clients : d # c => closed'[d] = closed[d]
  BY <1>1 DEF PoolInv, PoolTypes
<1>3. PoolTypes' /\ Locks'
  BY <1>1 DEF PoolInv, PoolTypes, Locks, Pool!Parties, Pool!LockOf
<1>4. OnlyClient(c)
  BY <1>1, <1>2 DEF OnlyClient
<1>5. ClientInv(c)'
  BY <1>1, <1>2
     DEF PoolInv, ClientInv, CountsUp, Continues, TellsServer, InFlight, Pool!Parties, Pool!Running
<1>6. QED
  BY <1>3, <1>4, <1>5, OthersStay DEF PoolInv

\* A client counts something.
LEMMA CountOneMore ==
  ASSUME PoolTypes, NEW c \in Clients,
         NEW what \in {"sent", "accepted", "rejected", "timeout", "error"}, Pool!Count(c, what)
  PROVE  /\ count' \in [Clients -> Counts]
         /\ \A d \in Clients : d # c => count'[d] = count[d]
         /\ count'[c].sent = IF what = "sent" THEN count[c].sent + 1 ELSE count[c].sent
         /\ count'[c].accepted =
              IF what = "accepted" THEN count[c].accepted + 1 ELSE count[c].accepted
         /\ count'[c].rejected =
              IF what = "rejected" THEN count[c].rejected + 1 ELSE count[c].rejected
         /\ count'[c].timeout = IF what = "timeout" THEN count[c].timeout + 1 ELSE count[c].timeout
         /\ count'[c].error = IF what = "error" THEN count[c].error + 1 ELSE count[c].error
<1>1. count' = [count EXCEPT ![c] = [count[c] EXCEPT ![what] = count[c][what] + 1]]
  BY DEF Pool!Count
<1>2. count[c] \in Counts
  BY DEF PoolTypes
<1>3. count'[c] = [count[c] EXCEPT ![what] = count[c][what] + 1]
  BY <1>1 DEF PoolTypes
<1>4. count'[c] \in Counts
  BY <1>2, <1>3 DEF Counts
<1>5. QED
  BY <1>1, <1>2, <1>3, <1>4 DEF PoolTypes, Counts

\* A message ends in one of the four ways, and the client goes on with the next one.
LEMMA MessageEnds ==
  ASSUME Pool!ConcurrentAssumption, PoolInv, NEW c \in Clients,
         NEW what \in {"accepted", "rejected", "timeout", "error"}, Pool!Count(c, what),
         place[c] \in Locked, place' = [place EXCEPT ![c] = "next"],
         seq' = [seq EXCEPT ![c] = @ + 1], arrived' = arrived
  PROVE  CountsUp(c)' /\ seq' \in [Clients -> Nat] /\ place'[c] = "next"
<1>1. /\ seq[c] \in Nat /\ seq'[c] = seq[c] + 1 /\ seq' \in [Clients -> Nat]
      /\ place'[c] = "next" /\ Messages \in Nat /\ count[c] \in Counts
  BY PoolAssumed DEF PoolInv, PoolTypes
<1>2. CountsUp(c)
  BY DEF PoolInv, ClientInv
<1>3. seq[c] <= Messages /\ place[c] \in Pool!Running /\ Pool!Parties' = Pool!Parties
  BY <1>2 DEF CountsUp, Locked, Pool!Running, Pool!Parties
<1>4. /\ count[c].accepted \in Nat /\ count[c].rejected \in Nat /\ count[c].timeout \in Nat
      /\ count[c].error \in Nat /\ count[c].sent \in Nat
  BY <1>1 DEF Counts
<1>5. /\ count'[c].accepted + count'[c].rejected + count'[c].timeout + count'[c].error
           = count[c].accepted + count[c].rejected + count[c].timeout + count[c].error + 1
      /\ count'[c].sent = count[c].sent
  BY <1>4, CountOneMore DEF PoolInv
<1>6. count[c].sent <= seq[c]
  BY <1>1, <1>2, <1>4 DEF CountsUp
<1>7. QED
  BY <1>1, <1>2, <1>3, <1>4, <1>5, <1>6 DEF CountsUp, Locked, Awaiting

LEMMA SendKeeps ==
  ASSUME Pool!ConcurrentAssumption, PoolInv, NEW c \in Clients, Pool!Send(c)
  PROVE  PoolInv'
<1>1. /\ place[c] = "sending" /\ Pool!Release(c) /\ arrived' = arrived
      /\ state' = state /\ usable' = usable /\ answers' = answers /\ closed' = closed
      /\ server' = server /\ results' = results
  BY DEF Pool!Send, Pool!barrier
<1>2. ClientInv(c) /\ PoolTypes /\ Locks /\ Pool!Parties' = Pool!Parties
  BY DEF PoolInv, Pool!Parties
<1>3. c \in Pool!Parties
  BY PoolAssumed
<1>4. CASE /\ inbox' = [inbox EXCEPT ![c] =
                          Append(@, Pool!DataPacket(seq[c], state[c].last_mem))]
           /\ Pool!Count(c, "sent") /\ Pool!Goto(c, "to_receive") /\ seq' = seq
  <2> DEFINE p == Pool!DataPacket(seq[c], state[c].last_mem)
  <2>1. seq[c] \in Nat /\ state[c] \in Session /\ count[c] \in Counts
        /\ inbox[c] \in Seq(Packet) /\ Messages \in Nat
    BY PoolAssumed, <1>2 DEF PoolTypes
  <2>2. p \in Packet /\ p.seq = seq[c]
    BY <2>1 DEF Packet, Session, Pool!DataPacket
  <2>3. inbox' = [inbox EXCEPT ![c] = Append(inbox[c], p)]
    BY <1>4
  <2> HIDE DEF p
  <2>4. /\ Append(inbox[c], p) \in Seq(Packet) /\ inbox' \in [Clients -> Seq(Packet)]
        /\ inbox'[c] = Append(inbox[c], p)
        /\ \A d \in Clients : d # c => inbox'[d] = inbox[d]
    BY <1>2, <2>1, <2>2, <2>3 DEF PoolTypes
  <2>5. /\ place' = [place EXCEPT ![c] = "to_receive"] /\ place'[c] = "to_receive"
        /\ \A d \in Clients : d # c => place'[d] = place[d]
    BY <1>2, <1>3, <1>4, PoolAssumed DEF Pool!Goto, PoolTypes
  <2>6. /\ count' \in [Clients -> Counts]
        /\ \A d \in Clients : d # c => count'[d] = count[d]
        /\ count'[c].sent = count[c].sent + 1 /\ count'[c].accepted = count[c].accepted
        /\ count'[c].rejected = count[c].rejected /\ count'[c].timeout = count[c].timeout
        /\ count'[c].error = count[c].error
    BY <1>2, <1>4, CountOneMore
  <2>7. Locks' /\ lock' \in [Pool!Parties -> Clients \union {Nobody}]
    BY <1>1, <1>2, <2>5, LockReturned DEF Locked
  <2>8. PoolTypes'
    BY <1>1, <1>2, <1>4, <2>4, <2>5, <2>6, <2>7 DEF PoolTypes
  <2>9. OnlyClient(c)
    BY <1>1, <1>4, <2>4, <2>5, <2>6 DEF OnlyClient
  <2>10. CountsUp(c)'
    <3>1. count[c].sent \in Nat /\ count[c].sent <= seq[c] - 1
      BY <1>1, <1>2, <2>1 DEF ClientInv, CountsUp, Awaiting, Counts
    <3>2. seq[c] <= Messages /\ arrived = Pool!Parties
      BY <1>1, <1>2 DEF ClientInv, CountsUp, Locked, Pool!Running
    <3>3. count[c].sent + 1 <= seq[c]
      BY <2>1, <3>1
    <3>4. QED
      BY <1>1, <1>2, <1>4, <2>1, <2>5, <2>6, <3>2, <3>3 DEF ClientInv, CountsUp, Locked, Awaiting
  <2>11. Continues(c)'
    BY <1>1, <1>2, <2>6 DEF ClientInv, Continues, TellsServer
  <2>12. InFlight(c)'
    <3>1. SUFFICES ASSUME usable[c] PROVE InFlight(c)'
      BY <1>1 DEF InFlight
    <3>2. answers[c] = <<>> /\ (closed[c] \/ inbox[c] = <<>>)
      BY <1>1, <1>2, <3>1 DEF ClientInv, InFlight, Awaiting
    <3>3. inbox[c] = <<>> => Len(inbox'[c]) = 1 /\ inbox'[c][1] = p
      BY <2>2, <2>4
    <3>4. QED
      BY <1>1, <1>4, <2>2, <2>5, <3>2, <3>3 DEF InFlight, Awaiting
  <2>13. QED
    BY <1>2, <2>7, <2>8, <2>9, <2>10, <2>11, <2>12, OthersStay DEF PoolInv, ClientInv
<1>5. CASE /\ closed[c] /\ Pool!Count(c, "error") /\ Pool!Goto(c, "next")
           /\ seq' = [seq EXCEPT ![c] = @ + 1] /\ inbox' = inbox
  <2>1. place' = [place EXCEPT ![c] = "next"]
    BY <1>5 DEF Pool!Goto
  <2>2. CountsUp(c)' /\ seq' \in [Clients -> Nat] /\ place'[c] = "next"
    BY <1>1, <1>5, <2>1, MessageEnds DEF Locked
  <2>3. /\ count' \in [Clients -> Counts] /\ count'[c].accepted = count[c].accepted
        /\ \A d \in Clients : d # c => count'[d] = count[d]
    BY <1>2, <1>5, CountOneMore
  <2>4. Locks' /\ lock' \in [Pool!Parties -> Clients \union {Nobody}]
    BY <1>1, <1>2, <2>1, LockReturned DEF Locked
  <2>5. PoolTypes'
    BY <1>1, <1>2, <1>5, <2>1, <2>2, <2>3, <2>4 DEF PoolTypes
  <2>6. OnlyClient(c)
    BY <1>1, <1>2, <1>5, <2>1, <2>3, PoolAssumed DEF OnlyClient, PoolTypes
  <2>7. Continues(c)'
    BY <1>1, <1>2, <2>3 DEF ClientInv, Continues, TellsServer
  <2>8. InFlight(c)'
    BY <1>1, <1>2, <1>5, <2>2 DEF ClientInv, InFlight, Awaiting
  <2>9. QED
    BY <1>2, <2>2, <2>4, <2>5, <2>6, <2>7, <2>8, OthersStay DEF PoolInv, ClientInv
<1>6. QED
  BY <1>4, <1>5 DEF Pool!Send

\* The two ways a read ends without an answer.
LEMMA NoAnswerKeeps ==
  ASSUME Pool!ConcurrentAssumption, PoolInv, NEW c \in Clients,
         Pool!ReceiveTimeout(c) \/ Pool!ReceiveError(c)
  PROVE  PoolInv'
<1>1. /\ place[c] = "receiving" /\ Pool!Release(c) /\ place' = [place EXCEPT ![c] = "next"]
      /\ seq' = [seq EXCEPT ![c] = @ + 1] /\ arrived' = arrived
      /\ state' = state /\ inbox' = inbox /\ answers' = answers /\ closed' = closed
      /\ server' = server /\ results' = results
  BY DEF Pool!ReceiveTimeout, Pool!ReceiveError, Pool!Goto, Pool!barrier, Pool!net
<1>2. PICK what \in {"timeout", "error"} : Pool!Count(c, what)
  BY DEF Pool!ReceiveTimeout, Pool!ReceiveError
<1>3. /\ usable' \in [Clients -> BOOLEAN]
      /\ \A d \in Clients : d # c => usable'[d] = usable[d]
      /\ usable'[c] => usable[c] /\ closed[c] /\ answers[c] = <<>>
  BY DEF Pool!ReceiveTimeout, Pool!ReceiveError, PoolInv, PoolTypes
<1>4. ClientInv(c) /\ PoolTypes /\ Locks /\ Pool!Parties' = Pool!Parties
  BY DEF PoolInv, Pool!Parties
<1>5. CountsUp(c)' /\ seq' \in [Clients -> Nat] /\ place'[c] = "next"
  BY <1>1, <1>2, MessageEnds DEF Locked
<1>6. /\ count' \in [Clients -> Counts] /\ count'[c].accepted = count[c].accepted
      /\ \A d \in Clients : d # c => count'[d] = count[d]
  BY <1>2, <1>4, CountOneMore
<1>7. Locks' /\ lock' \in [Pool!Parties -> Clients \union {Nobody}]
  BY <1>1, <1>4, LockReturned DEF Locked
<1>8. PoolTypes'
  BY <1>1, <1>3, <1>4, <1>5, <1>6, <1>7 DEF PoolTypes
<1>9. OnlyClient(c)
  BY <1>1, <1>3, <1>4, <1>6, PoolAssumed DEF OnlyClient, PoolTypes
<1>10. Continues(c)'
  BY <1>1, <1>4, <1>6 DEF ClientInv, Continues, TellsServer
<1>11. InFlight(c)'
  BY <1>1, <1>3, <1>5 DEF InFlight, Awaiting
<1>12. QED
  BY <1>4, <1>5, <1>7, <1>8, <1>9, <1>10, <1>11, OthersStay DEF PoolInv, ClientInv

\* The client takes the answer that has come.
LEMMA ReceiveKeeps ==
  ASSUME Pool!ConcurrentAssumption, PoolInv, NEW c \in Clients, Pool!Receive(c)
  PROVE  PoolInv'
<1> DEFINE r == Head(answers[c])
<1>1. /\ place[c] = "receiving" /\ usable[c] /\ answers[c] # <<>>
      /\ Pool!Release(c) /\ place' = [place EXCEPT ![c] = "next"]
      /\ seq' = [seq EXCEPT ![c] = @ + 1] /\ arrived' = arrived
      /\ usable' = usable /\ inbox' = inbox /\ closed' = closed
      /\ server' = server /\ results' = results
      /\ answers' = [answers EXCEPT ![c] = Tail(@)]
      /\ state' = [state EXCEPT ![c] =
                     IF r.ok THEN [last_seq |-> r.last_seq, last_mem |-> r.last_mem] ELSE @]
      /\ Pool!Count(c, IF r.ok THEN "accepted" ELSE "rejected")
  BY DEF Pool!Receive, Pool!Goto, Pool!barrier
<1>2. ClientInv(c) /\ PoolTypes /\ Locks /\ Pool!Parties' = Pool!Parties
  BY DEF PoolInv, Pool!Parties
<1>3. /\ answers[c] \in Seq(Response) /\ Len(answers[c]) = 1 /\ r = answers[c][1]
      /\ closed[c] \/ inbox[c] = <<>>
      /\ r.ok => count[c].accepted + 1 <= server[c].last_seq
      /\ Tail(answers[c]) = <<>>
  <2>1. answers[c] \in Seq(Response)
    BY <1>2 DEF PoolTypes
  <2>2. /\ Len(answers[c]) = 1 /\ (closed[c] \/ inbox[c] = <<>>)
        /\ answers[c][1].ok => count[c].accepted + 1 <= server[c].last_seq
    BY <1>1, <1>2 DEF ClientInv, InFlight, Awaiting
  <2>3. Tail(answers[c]) = <<>>
    BY <2>1, <2>2, TailOfOne
  <2>4. QED
    BY <2>1, <2>2, <2>3
<1>4. r \in Response /\ TellsServer(c, r)
  BY <1>2, <1>3 DEF ClientInv, Continues
<1> HIDE DEF r
<1>5. /\ state' \in [Clients -> Session] /\ \A d \in Clients : d # c => state'[d] = state[d]
      /\ TellsServer(c, state'[c])
  <2>1. /\ state'[c] = IF r.ok THEN [last_seq |-> r.last_seq, last_mem |-> r.last_mem]
                       ELSE state[c]
        /\ \A d \in Clients : d # c => state'[d] = state[d]
    BY <1>1, <1>2 DEF PoolTypes
  <2>2. state'[c] \in Session /\ TellsServer(c, state'[c])
    BY <1>2, <1>4, <2>1 DEF PoolTypes, Response, Session, TellsServer, ClientInv, Continues
  <2>3. QED
    BY <1>1, <1>2, <2>1, <2>2 DEF PoolTypes
<1>6. CountsUp(c)' /\ seq' \in [Clients -> Nat] /\ place'[c] = "next"
  BY <1>1, MessageEnds DEF Locked
<1>7. /\ count' \in [Clients -> Counts]
      /\ count'[c].accepted = IF r.ok THEN count[c].accepted + 1 ELSE count[c].accepted
      /\ \A d \in Clients : d # c => count'[d] = count[d]
  BY <1>1, <1>2, CountOneMore
<1>8. Locks' /\ lock' \in [Pool!Parties -> Clients \union {Nobody}]
  BY <1>1, <1>2, LockReturned DEF Locked
<1>9. /\ answers' \in [Clients -> Seq(Response)] /\ answers'[c] = <<>>
      /\ \A d \in Clients : d # c => answers'[d] = answers[d]
  BY <1>1, <1>2, <1>3 DEF PoolTypes
<1>10. PoolTypes'
  BY <1>1, <1>2, <1>5, <1>6, <1>7, <1>8, <1>9 DEF PoolTypes
<1>11. OnlyClient(c)
  BY <1>1, <1>2, <1>5, <1>7, <1>9, PoolAssumed DEF OnlyClient, PoolTypes
<1>12. Continues(c)'
  <2>1. Len(answers'[c]) = 0
    BY <1>9
  <2>2. TellsServer(c, state[c])'
    BY <1>1, <1>5 DEF TellsServer
  <2>3. QED
    BY <1>1, <1>2, <1>3, <1>7, <2>1, <2>2 DEF ClientInv, Continues, TellsServer
<1>13. InFlight(c)'
  BY <1>1, <1>3, <1>6, <1>9 DEF InFlight, Awaiting
<1>14. QED
  BY <1>2, <1>6, <1>8, <1>10, <1>11, <1>12, <1>13, OthersStay DEF PoolInv, ClientInv

\* What the verifier answers: its session continues by the packet's number, or stays.
LEMMA VerdictContinues ==
  ASSUME NEW s \in Session, NEW p \in Packet, s.last_mem = Pool!History(s.last_seq),
         NEW r, r = Pool!Takes(s, p)
  PROVE  /\ r.ok \in BOOLEAN /\ r.last_seq \in Nat /\ r.last_mem \in Seq(Nat)
         /\ r.last_mem = Pool!History(r.last_seq)
         /\ r.last_seq = IF r.ok THEN s.last_seq + 1 ELSE s.last_seq
<1>1. /\ s.last_seq \in Nat /\ s.last_mem \in Seq(Nat) /\ p.seq \in Nat
  BY DEF Session, Packet
<1>2. CASE "gmcp_r" \notin VerifierTakes
  <2>1. r.ok = FALSE /\ r.last_seq = s.last_seq /\ r.last_mem = s.last_mem
    BY <1>2 DEF Pool!Takes
  <2>2. QED
    BY <1>1, <2>1
<1>3. CASE "gmcp_r" \in VerifierTakes
  <2>1. /\ r.ok = (Pool!Reason(s, p) = "ok")
        /\ r.last_seq = Pool!After(s, p).last_seq /\ r.last_mem = Pool!After(s, p).last_mem
    BY <1>3 DEF Pool!Takes, Pool!Verdict
  <2>2. CASE Pool!Reason(s, p) = "ok"
    <3>1. p.seq = s.last_seq + 1
      BY <2>2 DEF Pool!Reason
    <3>2. r.last_seq = s.last_seq + 1 /\ r.last_mem = Append(s.last_mem, s.last_seq + 1)
      BY <2>1, <2>2, <3>1 DEF Pool!After
    <3>3. Append(Pool!History(s.last_seq), s.last_seq + 1) = Pool!History(s.last_seq + 1)
      BY <1>1 DEF Pool!History
    <3>4. r.last_mem \in Seq(Nat)
      BY <1>1, <3>2
    <3>5. r.ok = TRUE
      BY <2>1, <2>2
    <3>6. r.last_mem = Pool!History(r.last_seq)
      BY <3>2, <3>3
    <3>7. r.last_seq \in Nat /\ r.last_seq = s.last_seq + 1
      BY <1>1, <3>2
    <3>8. QED
      BY <3>4, <3>5, <3>6, <3>7
  <2>3. CASE Pool!Reason(s, p) # "ok"
    <3>1. r.last_seq = s.last_seq /\ r.last_mem = s.last_mem
      BY <2>1, <2>3 DEF Pool!After
    <3>2. QED
      BY <1>1, <2>1, <2>3, <3>1
  <2>4. QED
    BY <2>2, <2>3
<1>4. QED
  BY <1>2, <1>3

LEMMA ServeKeeps ==
  ASSUME Pool!ConcurrentAssumption, PoolInv, NEW c \in Clients, Pool!Serve(c)
  PROVE  PoolInv'
<1> DEFINE p == Head(inbox[c])
           r == Pool!Takes(server[c], p)
           a == [of |-> p.seq, ok |-> r.ok, last_seq |-> r.last_seq, last_mem |-> r.last_mem]
           s == [last_seq |-> r.last_seq, last_mem |-> r.last_mem]
<1>1. /\ inbox[c] # <<>> /\ ~closed[c]
      /\ server' = [server EXCEPT ![c] = s]
      /\ answers' = [answers EXCEPT ![c] = Append(@, a)]
      /\ inbox' = [inbox EXCEPT ![c] = Tail(@)]
      /\ place' = place /\ arrived' = arrived /\ lock' = lock /\ closed' = closed
      /\ results' = results
      /\ seq' = seq /\ state' = state /\ usable' = usable /\ count' = count
  BY DEF Pool!Serve, Pool!barrier, Pool!client
<1>2. ClientInv(c) /\ PoolTypes /\ Locks /\ Pool!Parties' = Pool!Parties
  BY DEF PoolInv, Pool!Parties
<1>3. /\ inbox[c] \in Seq(Packet) /\ answers[c] \in Seq(Response) /\ server[c] \in Session
      /\ p \in Packet /\ p = inbox[c][1] /\ Tail(inbox[c]) \in Seq(Packet)
      /\ Len(inbox[c]) = 1 => Tail(inbox[c]) = <<>>
  <2>1. inbox[c] \in Seq(Packet) /\ answers[c] \in Seq(Response) /\ server[c] \in Session
    BY <1>2 DEF PoolTypes
  <2>2. p \in Packet /\ p = inbox[c][1] /\ Tail(inbox[c]) \in Seq(Packet)
    BY <1>1, <2>1
  <2>3. Len(inbox[c]) = 1 => Tail(inbox[c]) = <<>>
    BY <2>1, TailOfOne
  <2>4. QED
    BY <2>1, <2>2, <2>3
<1>4. /\ r.ok \in BOOLEAN /\ r.last_seq \in Nat /\ r.last_mem \in Seq(Nat)
      /\ r.last_mem = Pool!History(r.last_seq)
      /\ r.last_seq = IF r.ok THEN server[c].last_seq + 1 ELSE server[c].last_seq
  BY <1>2, <1>3, VerdictContinues DEF ClientInv, Continues, TellsServer
<1>5. /\ a \in Response /\ s \in Session /\ a.of = p.seq /\ a.ok = r.ok
      /\ a.last_seq = s.last_seq /\ a.last_mem = s.last_mem /\ s.last_seq = r.last_seq
      /\ s.last_mem = r.last_mem
  BY <1>3, <1>4 DEF Response, Session, Packet
<1> HIDE DEF p, r, a, s
<1>6. /\ server' \in [Clients -> Session] /\ server'[c] = s
      /\ \A d \in Clients : d # c => server'[d] = server[d]
  BY <1>1, <1>2, <1>5 DEF PoolTypes
<1>7. /\ Append(answers[c], a) \in Seq(Response) /\ answers' \in [Clients -> Seq(Response)]
      /\ answers'[c] = Append(answers[c], a)
      /\ \A d \in Clients : d # c => answers'[d] = answers[d]
  BY <1>1, <1>2, <1>3, <1>5 DEF PoolTypes
<1>8. /\ inbox' \in [Clients -> Seq(Packet)] /\ inbox'[c] = Tail(inbox[c])
      /\ \A d \in Clients : d # c => inbox'[d] = inbox[d]
  BY <1>1, <1>2, <1>3 DEF PoolTypes
<1>9. PoolTypes' /\ Locks'
  BY <1>1, <1>2, <1>6, <1>7, <1>8 DEF PoolTypes, Locks, Pool!LockOf
<1>10. OnlyClient(c)
  BY <1>1, <1>6, <1>7, <1>8 DEF OnlyClient
<1>11. CountsUp(c)'
  BY <1>1, <1>2 DEF ClientInv, CountsUp, Pool!Running
<1>12. Continues(c)'
  <2>1. /\ s.last_seq \in Nat /\ server[c].last_seq \in Nat /\ state[c].last_seq \in Nat
        /\ server[c].last_seq <= s.last_seq /\ count[c].accepted \in Nat
    BY <1>2, <1>3, <1>4, <1>5 DEF PoolTypes, Session, Counts
  <2>2. /\ s.last_mem = Pool!History(s.last_seq)
        /\ a.last_mem = Pool!History(a.last_seq) /\ a.last_seq <= s.last_seq
    BY <1>4, <1>5, <2>1
  <2>3. TellsServer(c, server[c])'
    BY <1>6, <2>1, <2>2 DEF TellsServer
  <2>4. TellsServer(c, state[c])'
    BY <1>1, <1>2, <1>6, <2>1 DEF ClientInv, Continues, TellsServer
  <2>5. ASSUME NEW CONSTANT i \in 1..Len(answers'[c]) PROVE TellsServer(c, answers[c][i])'
    <3>1. Len(answers'[c]) = Len(answers[c]) + 1 /\ Len(answers[c]) \in Nat
      BY <1>3, <1>5, <1>7
    <3>2. CASE i = Len(answers[c]) + 1
      <4>1. answers'[c][i] = a
        BY <1>3, <1>5, <1>7, <3>2
      <4>2. QED
        BY <1>6, <2>2, <4>1 DEF TellsServer
    <3>3. CASE i \in 1..Len(answers[c])
      <4>1. answers'[c][i] = answers[c][i] /\ answers[c][i] \in Response
        BY <1>3, <1>7, <3>3
      <4>2. TellsServer(c, answers[c][i])
        BY <1>2, <3>3 DEF ClientInv, Continues
      <4>3. answers[c][i].last_seq \in Nat
        BY <4>1 DEF Response
      <4>4. QED
        BY <1>6, <2>1, <4>1, <4>2, <4>3 DEF TellsServer
    <3>4. QED
      BY <3>1, <3>2, <3>3
  <2>6. count'[c].accepted <= server'[c].last_seq
    BY <1>1, <1>2, <1>6, <2>1 DEF ClientInv, Continues
  <2>7. QED
    BY <2>3, <2>4, <2>5, <2>6 DEF Continues
<1>13. InFlight(c)'
  <2>1. SUFFICES ASSUME usable[c] PROVE InFlight(c)'
    BY <1>1 DEF InFlight
  <2>2. /\ place[c] \in Awaiting /\ answers[c] = <<>>
        /\ Len(inbox[c]) = 1 /\ p.seq = seq[c]
    BY <1>1, <1>2, <1>3, <2>1 DEF ClientInv, InFlight
  <2>3. Len(answers'[c]) = 1 /\ answers'[c][1] = a /\ inbox'[c] = <<>>
    BY <1>3, <1>5, <1>7, <1>8, <2>2
  <2>4. a.ok => count[c].accepted + 1 <= s.last_seq
    BY <1>2, <1>3, <1>4, <1>5 DEF ClientInv, Continues, PoolTypes, Session, Counts
  <2>5. QED
    BY <1>1, <1>5, <1>6, <2>2, <2>3, <2>4 DEF InFlight
<1>14. QED
  BY <1>2, <1>9, <1>10, <1>11, <1>12, <1>13, OthersStay DEF PoolInv, ClientInv

LEMMA PoolAlways ==
  ASSUME Pool!ConcurrentAssumption
  PROVE  Pool!Spec => []PoolInv
<1>1. Pool!Init => PoolInv
  BY PoolInit
<1>2. PoolInv /\ [Pool!Next]_Pool!vars => PoolInv'
  <2>1. SUFFICES ASSUME PoolInv, [Pool!Next]_Pool!vars PROVE PoolInv'
    OBVIOUS
  <2>2. CASE UNCHANGED Pool!vars
    BY <2>1, <2>2, PoolStays DEF Pool!vars, Pool!barrier, PoolInv, PoolTypes
  <2>3. ASSUME NEW p \in Pool!Parties, Pool!BarrierTimeout(p) PROVE PoolInv'
    BY <2>1, <2>3, PoolStays DEF Pool!BarrierTimeout, PoolInv, PoolTypes
  <2>4. ASSUME NEW c \in Clients, Pool!Collect(c) PROVE PoolInv'
    BY <2>1, <2>4, PoolStays DEF Pool!Collect, Pool!barrier, PoolInv, PoolTypes
  <2>5. CASE Pool!Summarise
    <3>1. /\ place' = [place EXCEPT ![Main] = "done"] /\ arrived' = arrived /\ lock' = lock
          /\ UNCHANGED Pool!client /\ UNCHANGED Pool!net /\ results' = results
      BY <2>5 DEF Pool!Summarise, Pool!Goto, Pool!barrier
    <3>2. DOMAIN place' = DOMAIN place /\ \A d \in Clients : place'[d] = place[d]
      BY <2>1, <3>1, PoolAssumed DEF PoolInv, PoolTypes
    <3>3. /\ seq' = seq /\ state' = state /\ usable' = usable /\ count' = count
          /\ inbox' = inbox /\ answers' = answers /\ closed' = closed /\ server' = server
      BY <3>1 DEF Pool!client, Pool!net
    <3>4. PoolTypes' /\ Locks'
      BY <2>1, <3>1, <3>2, <3>3, LocksStay DEF PoolInv, PoolTypes, Pool!Parties
    <3>5. ASSUME NEW d \in Clients PROVE ClientInv(d)'
      BY <2>1, <3>1, <3>2, <3>3
         DEF PoolInv, ClientInv, CountsUp, Continues, TellsServer, InFlight, Pool!Parties, Pool!Running
    <3>6. QED
      BY <3>4, <3>5 DEF PoolInv
  <2>6. ASSUME NEW c \in Clients, Pool!ClientStep(c) PROVE PoolInv'
    BY <2>1, <2>6, OpenKeeps, NextKeeps, AcquireKeeps, SendKeeps, ReceiveKeeps, NoAnswerKeeps
       DEF Pool!ClientStep
  <2>7. QED
    BY <2>1, <2>2, <2>3, <2>4, <2>5, <2>6, ArriveKeeps, LeaveKeeps, ServeKeeps, CloseKeeps
       DEF Pool!Next, Pool!Done
<1>3. QED
  BY <1>1, <1>2, PTL DEF Pool!Spec

\* TypeOK: the locks have holders among the clients and no client counts more than it sends.
THEOREM PoolTypeCorrect ==
  ASSUME Pool!ConcurrentAssumption
  PROVE  Pool!Spec => []Pool!TypeOK
<1>1. PoolInv => Pool!TypeOK
  <2>1. SUFFICES ASSUME PoolInv PROVE Pool!TypeOK
    OBVIOUS
  <2>2. ASSUME NEW c \in Clients
        PROVE  /\ seq[c] \in 1..(Messages + 1)
               /\ count[c] \in [{"sent", "accepted", "rejected", "timeout", "error"} -> 0..Messages]
    <3>1. Messages \in Nat /\ seq[c] \in Nat /\ count[c] \in Counts /\ CountsUp(c)
      BY <2>1, PoolAssumed DEF PoolInv, PoolTypes, ClientInv
    <3>2. /\ count[c].accepted \in Nat /\ count[c].rejected \in Nat /\ count[c].timeout \in Nat
          /\ count[c].error \in Nat /\ count[c].sent \in Nat
      BY <3>1 DEF Counts
    <3>3. seq[c] - 1 <= Messages /\ seq[c] >= 1
          /\ count[c].accepted + count[c].rejected + count[c].timeout + count[c].error = seq[c] - 1
      BY <3>1, <3>2 DEF CountsUp
    <3>4. count[c].sent <= Messages
      BY <3>1, <3>2, <3>3 DEF CountsUp
    <3>5. /\ count[c].accepted <= Messages /\ count[c].rejected <= Messages
          /\ count[c].timeout <= Messages /\ count[c].error <= Messages
      BY <3>1, <3>2, <3>3
    <3>6. QED
      BY <3>1, <3>2, <3>3, <3>4, <3>5 DEF Counts
  <2>3. QED
    BY <2>1, <2>2 DEF Pool!TypeOK, PoolInv, PoolTypes
<1>2. QED
  BY <1>1, PoolAlways, PTL

\* StartTogether: a client that runs has met all the others and the main thread.
THEOREM NoneStartsEarly ==
  ASSUME Pool!ConcurrentAssumption
  PROVE  Pool!Spec => []Pool!StartTogether
<1>1. PoolInv => Pool!StartTogether
  BY DEF PoolInv, ClientInv, CountsUp, Pool!StartTogether
<1>2. QED
  BY <1>1, PoolAlways, PTL

\* EveryMessageCounted: each message of a client that ends is counted once, whatever
\* timed out, was refused or failed.
THEOREM CountsAreComplete ==
  ASSUME Pool!ConcurrentAssumption
  PROVE  Pool!Spec => []Pool!EveryMessageCounted
<1>1. PoolInv => Pool!EveryMessageCounted
  <2>1. SUFFICES ASSUME PoolInv, NEW c \in Clients, place[c] = "ended"
                 PROVE  count[c].accepted + count[c].rejected + count[c].timeout
                          + count[c].error = Messages
    BY DEF Pool!EveryMessageCounted, Pool!Ended
  <2>2. Messages \in Nat /\ CountsUp(c)
    BY <2>1, PoolAssumed DEF PoolInv, ClientInv
  <2>3. QED
    BY <2>1, <2>2 DEF CountsUp
<1>2. QED
  BY <1>1, PoolAlways, PTL

\* AnswersFit: the answer a client takes is that to the packet it sent last.
THEOREM AnswersAreOwn ==
  ASSUME Pool!ConcurrentAssumption
  PROVE  Pool!Spec => []Pool!AnswersFit
<1>1. PoolInv => Pool!AnswersFit
  <2>1. SUFFICES ASSUME PoolInv, NEW c \in Clients, place[c] = "receiving", usable[c],
                        answers[c] # <<>>
                 PROVE  Head(answers[c]).of = seq[c]
    BY DEF Pool!AnswersFit
  <2>2. Len(answers[c]) = 1 /\ answers[c][1].of = seq[c] /\ answers[c] \in Seq(Response)
    BY <2>1 DEF PoolInv, PoolTypes, ClientInv, InFlight, Awaiting
  <2>3. QED
    BY <2>2
<1>2. QED
  BY <1>1, PoolAlways, PTL

\* TheServersWord: a client continues from a memory its session had and has counted no
\* more messages as accepted than the session took.
THEOREM ClientsFollowTheirSessions ==
  ASSUME Pool!ConcurrentAssumption
  PROVE  Pool!Spec => []Pool!TheServersWord
<1>1. PoolInv => Pool!TheServersWord
  BY DEF PoolInv, ClientInv, Continues, TellsServer, Pool!TheServersWord
<1>2. QED
  BY <1>1, PoolAlways, PTL

\* LocksGivenBack: only a client that sends or receives holds a lock.
THEOREM LocksComeBack ==
  ASSUME Pool!ConcurrentAssumption
  PROVE  Pool!Spec => []Pool!LocksGivenBack
<1>1. PoolInv => Pool!LocksGivenBack
  BY DEF PoolInv, Locks, Locked, Pool!LocksGivenBack
<1>2. QED
  BY <1>1, PoolAlways, PTL
-----------------------------------------------------------------------------
(* The resource monitor (ResourceMonitor): any number of starts and samples,  *)
(* reads that raise and joins that time out.                                  *)
(*                                                                            *)
(* Who may sample follows from _thread: the thread it names, those a join     *)
(* gave up on, and the owner only when it names none (Owned).  Of any number  *)
(* of samples at once each is of a number of its own, and each list has the   *)
(* entry of every sample that has passed it (Entries).  As long as no join    *)
(* gave up one sample is under way at most, and the lists differ by what it   *)
(* has not appended yet (Aligned).                                            *)

CONSTANTS Samplers, Owner, None, MaxSamples, MaxUnread
VARIABLES running, thread, timestamps, system_cpu, cpu, rss, num_threads, sent,
          at, tick, ticks, unread, abandoned

Monitor == INSTANCE ResourceMonitor WITH pc <- at

\* The places of a sample before its entry is in each list.
ToTime == {"time"}
ToSystem == {"time", "system"}
ToCPU == {"time", "system", "cpu"}
ToMemory == {"time", "system", "cpu", "memory"}
ToThreads == {"time", "system", "cpu", "memory", "threads"}
ToNet == {"time", "system", "cpu", "memory", "threads", "net"}

MonitorTypes ==
  /\ running \in BOOLEAN /\ thread \in Samplers \union {None} /\ ticks \in 0..MaxSamples
  /\ abandoned \subseteq Samplers /\ unread \subseteq 1..MaxSamples
  /\ DOMAIN at = Monitor!Threads /\ DOMAIN tick = Monitor!Threads
  /\ \A t \in Monitor!Threads : at[t] \in ToNet => tick[t] \in 1..ticks
  /\ \A t, u \in Monitor!Threads :
       at[t] \in ToNet /\ at[u] \in ToNet /\ tick[t] = tick[u] => t = u

\* The owner's place, _running and _thread.
Owned ==
  /\ at[Owner] \in {"idle", "joining", "stopped"} \union ToNet
  /\ running => at[Owner] = "idle"
  /\ thread # None <=> running \/ at[Owner] = "joining"
  /\ \A t \in Samplers :
       /\ at[t] \in {"unborn", "ended", "loop"} \union ToNet
       /\ at[t] \in {"loop"} \union ToNet => t = thread \/ t \in abandoned

\* Of the n samples begun, a list has those that no thread is before the list with, and
\* has them once, but for the samples in twice.
HoldsIn(list, before, twice, stage, number, n) ==
  /\ list \in Seq(1..MaxSamples)
  /\ \A i \in DOMAIN list : list[i] <= n
  /\ \A t \in Monitor!Threads : stage[t] \in before =>
       \A i \in DOMAIN list : list[i] # number[t]
  /\ \A k \in 1..n : (\A t \in Monitor!Threads : stage[t] \in before => number[t] # k) =>
       /\ \E i \in DOMAIN list : list[i] = k
       /\ k \notin twice => \A i, j \in DOMAIN list : list[i] = k /\ list[j] = k => i = j

Entries ==
  /\ HoldsIn(timestamps, ToTime, {}, at, tick, ticks)
  /\ HoldsIn(system_cpu, ToSystem, {}, at, tick, ticks)
  /\ HoldsIn(cpu, ToCPU, unread, at, tick, ticks)
  /\ HoldsIn(rss, ToMemory, unread, at, tick, ticks)
  /\ HoldsIn(num_threads, ToThreads, {}, at, tick, ticks)
  /\ HoldsIn(sent, ToNet, {}, at, tick, ticks)

\* A list is the last one, or has the sample under way more.
AheadIn(list, before, last, stage, number) ==
  /\ \A t \in Monitor!Threads : stage[t] \in before => list = last
  /\ \A t \in Monitor!Threads : stage[t] \in ToNet \ before => list = Append(last, number[t])
  /\ (\A t \in Monitor!Threads : stage[t] \notin ToNet) => list = last

Aligned ==
  /\ AheadIn(timestamps, ToTime, sent, at, tick)
  /\ AheadIn(system_cpu, ToSystem, sent, at, tick)
  /\ AheadIn(num_threads, ToThreads, sent, at, tick)
  /\ unread = {} => /\ AheadIn(cpu, ToCPU, sent, at, tick)
                    /\ AheadIn(rss, ToMemory, sent, at, tick)

MonitorInv == MonitorTypes /\ Owned /\ Entries /\ (abandoned = {} => Aligned)

LEMMA MonitorInit ==
  ASSUME Monitor!MonitorAssumption, Monitor!Init
  PROVE  MonitorInv
<1>1. /\ running = FALSE /\ thread = None /\ ticks = 0 /\ abandoned = {} /\ unread = {}
      /\ timestamps = <<>> /\ system_cpu = <<>> /\ cpu = <<>>
      /\ rss = <<>> /\ num_threads = <<>> /\ sent = <<>>
      /\ at = [t \in Monitor!Threads |-> IF t = Owner THEN "idle" ELSE "unborn"]
      /\ tick = [t \in Monitor!Threads |-> 0]
  BY DEF Monitor!Init
<1>2. MaxSamples \in Nat /\ Owner \notin Samplers /\ Owner \in Monitor!Threads
      /\ Samplers \subseteq Monitor!Threads
  BY DEF Monitor!MonitorAssumption, Monitor!Threads
<1>3. /\ \A t \in Monitor!Threads : at[t] \in {"idle", "unborn"}
      /\ at[Owner] = "idle" /\ \A t \in Samplers : at[t] = "unborn"
  BY <1>1, <1>2
<1>4. \A t \in Monitor!Threads : at[t] \notin ToNet
  BY <1>3 DEF ToNet
<1>5. MonitorTypes
  <2>1. DOMAIN at = Monitor!Threads /\ DOMAIN tick = Monitor!Threads /\ 0 \in 0..MaxSamples
    BY <1>1, <1>2
  <2>2. QED
    BY <1>1, <1>4, <2>1 DEF MonitorTypes
<1>6. Owned
  BY <1>1, <1>3 DEF Owned, ToNet
<1>7. ASSUME NEW before \in SUBSET ToNet, NEW twice
      PROVE  HoldsIn(<<>>, before, twice, at, tick, 0) /\ AheadIn(<<>>, before, <<>>, at, tick)
  <2>1. \A t \in Monitor!Threads : at[t] \notin before
    BY <1>4, <1>7
  <2>2. <<>> \in Seq(1..MaxSamples) /\ DOMAIN <<>> = {}
    OBVIOUS
  <2>3. QED
    BY <1>4, <2>1, <2>2 DEF HoldsIn, AheadIn
<1>8. {ToTime, ToSystem, ToCPU, ToMemory, ToThreads, ToNet} \subseteq SUBSET ToNet
  BY DEF ToTime, ToSystem, ToCPU, ToMemory, ToThreads, ToNet
<1>9. Entries /\ Aligned
  BY <1>1, <1>7, <1>8 DEF Entries, Aligned
<1>10. QED
  BY <1>5, <1>6, <1>9 DEF MonitorInv

\* One thread moves on.
LEMMA ThreadMoves ==
  ASSUME MonitorTypes, NEW t \in Monitor!Threads, NEW where, Monitor!Goto(t, where)
  PROVE  /\ DOMAIN at' = Monitor!Threads /\ at'[t] = where
         /\ \A u \in Monitor!Threads : u # t => at'[u] = at[u]
BY DEF MonitorTypes, Monitor!Goto

LEMMA SampleEntered ==
  ASSUME Monitor!MonitorAssumption, MonitorTypes, NEW t \in Monitor!Threads,
         Monitor!EnterSample(t)
  PROVE  /\ ticks < MaxSamples /\ ticks' = ticks + 1 /\ ticks' \in 1..MaxSamples
         /\ DOMAIN at' = Monitor!Threads /\ at'[t] = "time"
         /\ \A u \in Monitor!Threads : u # t => at'[u] = at[u]
         /\ DOMAIN tick' = Monitor!Threads /\ tick'[t] = ticks'
         /\ \A u \in Monitor!Threads : u # t => tick'[u] = tick[u]
<1>1. ticks < MaxSamples /\ ticks' = ticks + 1 /\ ticks' \in 1..MaxSamples
  BY DEF MonitorTypes, Monitor!EnterSample, Monitor!MonitorAssumption
<1>2. /\ DOMAIN tick' = Monitor!Threads /\ tick'[t] = ticks'
      /\ \A u \in Monitor!Threads : u # t => tick'[u] = tick[u]
  BY DEF MonitorTypes, Monitor!EnterSample
<1>3. Monitor!Goto(t, "time")
  BY DEF Monitor!EnterSample
<1>4. QED
  BY <1>1, <1>2, <1>3, ThreadMoves

-----------------------------------------------------------------------------
(* What a list holds, when the sample it holds next is begun, passes it or is *)
(* entered once more.                                                         *)

LEMMA ElementsOf ==
  ASSUME NEW S, NEW list \in Seq(S)
  PROVE  \A i \in DOMAIN list : list[i] \in S
OBVIOUS

\* What Append does, position by position.
LEMMA AppendedAt ==
  ASSUME NEW S, NEW list \in Seq(S), NEW k \in S
  PROVE  /\ Append(list, k) \in Seq(S) /\ DOMAIN Append(list, k) = 1..Len(list) + 1
         /\ DOMAIN list = 1..Len(list) /\ Len(list) \in Nat
         /\ Append(list, k)[Len(list) + 1] = k
         /\ \A i \in DOMAIN list : Append(list, k)[i] = list[i]
OBVIOUS

LEMMA HeldThrough ==
  ASSUME NEW list, NEW before, NEW twice, NEW more, NEW stage, NEW stage2, NEW number, NEW n,
         HoldsIn(list, before, twice, stage, number, n), twice \subseteq more,
         \A t \in Monitor!Threads : stage2[t] \in before <=> stage[t] \in before
  PROVE  HoldsIn(list, before, more, stage2, number, n)
BY DEF HoldsIn

LEMMA HeldAtEntry ==
  ASSUME NEW list, NEW before, NEW twice, NEW stage, NEW stage2, NEW number, NEW number2,
         NEW n \in Nat, NEW t \in Monitor!Threads, HoldsIn(list, before, twice, stage, number, n),
         stage[t] \notin before, stage2[t] \in before, number2[t] = n + 1,
         \A u \in Monitor!Threads : u # t => stage2[u] = stage[u] /\ number2[u] = number[u]
  PROVE  HoldsIn(list, before, twice, stage2, number2, n + 1)
<1>1. list \in Seq(1..MaxSamples) /\ \A i \in DOMAIN list : list[i] \in Int /\ list[i] <= n
  <2>1. list \in Seq(1..MaxSamples) /\ \A i \in DOMAIN list : list[i] <= n
    BY DEF HoldsIn
  <2>2. \A i \in DOMAIN list : list[i] \in 1..MaxSamples
    BY <2>1, ElementsOf
  <2>3. QED
    BY <2>1, <2>2
<1>2. \A i \in DOMAIN list : list[i] <= n + 1 /\ list[i] # n + 1
  BY <1>1
<1>3. ASSUME NEW u \in Monitor!Threads, stage2[u] \in before, NEW i \in DOMAIN list
      PROVE  list[i] # number2[u]
  BY <1>2, <1>3 DEF HoldsIn
<1>4. ASSUME NEW k \in 1..(n + 1),
             \A u \in Monitor!Threads : stage2[u] \in before => number2[u] # k
      PROVE  /\ \E i \in DOMAIN list : list[i] = k
             /\ k \notin twice => \A i, j \in DOMAIN list : list[i] = k /\ list[j] = k => i = j
  <2>1. k # n + 1
    BY <1>4
  <2>2. k \in 1..n
    BY <2>1
  <2>3. \A u \in Monitor!Threads : stage[u] \in before => number[u] # k
    BY <1>4
  <2>4. QED
    BY <2>2, <2>3 DEF HoldsIn
<1>5. QED
  BY <1>1, <1>2, <1>3, <1>4 DEF HoldsIn

LEMMA HeldOnceMore ==
  ASSUME NEW list, NEW before, NEW twice, NEW more, NEW stage, NEW stage2, NEW number,
         NEW n \in Nat, n <= MaxSamples, MaxSamples \in Nat, NEW t \in Monitor!Threads,
         HoldsIn(list, before, twice, stage, number, n), twice \subseteq more,
         number[t] \in 1..n, stage2[t] \notin before,
         stage[t] \in before \/ number[t] \in more,
         \A u \in Monitor!Threads : u # t => stage2[u] = stage[u],
         \A u \in Monitor!Threads : u # t /\ stage[u] \in before => number[u] # number[t]
  PROVE  HoldsIn(Append(list, number[t]), before, more, stage2, number, n)
<1> DEFINE m == number[t]
           longer == Append(list, m)
           top == Len(list) + 1
<1>1. list \in Seq(1..MaxSamples) /\ m \in 1..MaxSamples /\ m \in 1..n
  BY DEF HoldsIn
<1>2. /\ longer \in Seq(1..MaxSamples) /\ DOMAIN longer = 1..top /\ DOMAIN list = 1..Len(list)
      /\ Len(list) \in Nat /\ longer[top] = m /\ \A i \in DOMAIN list : longer[i] = list[i]
  BY <1>1, AppendedAt
<1>3. /\ DOMAIN longer = DOMAIN list \union {top} /\ top \notin DOMAIN list
  BY <1>2
<1> HIDE DEF m, longer, top
<1>4. \A i \in DOMAIN longer : longer[i] <= n
  <2>1. (\A i \in DOMAIN list : list[i] <= n) /\ m <= n
    BY <1>1 DEF HoldsIn
  <2>2. QED
    BY <1>2, <1>3, <2>1
<1>5. ASSUME NEW u \in Monitor!Threads, stage2[u] \in before, NEW i \in DOMAIN longer
      PROVE  longer[i] # number[u]
  <2>1. u # t /\ stage[u] \in before /\ number[u] # m
    BY <1>5 DEF m
  <2>2. \A j \in DOMAIN list : list[j] # number[u]
    BY <2>1 DEF HoldsIn
  <2>3. i = top \/ i \in DOMAIN list
    BY <1>3, <1>5
  <2>4. QED
    BY <1>2, <2>1, <2>2, <2>3
<1>6. ASSUME NEW k \in 1..n,
             \A u \in Monitor!Threads : stage2[u] \in before => number[u] # k
      PROVE  /\ \E i \in DOMAIN longer : longer[i] = k
             /\ k \notin more => \A i, j \in DOMAIN longer : longer[i] = k /\ longer[j] = k => i = j
  <2>1. CASE k = m
    <3>1. \E i \in DOMAIN longer : longer[i] = k
      BY <1>2, <1>3, <2>1
    <3>2. ASSUME k \notin more PROVE \A i \in DOMAIN list : list[i] # k
      BY <2>1, <3>2 DEF HoldsIn, m
    <3>3. QED
      BY <1>2, <1>3, <3>1, <3>2
  <2>2. CASE k # m
    <3>1. \A u \in Monitor!Threads : stage[u] \in before => number[u] # k
      BY <1>6, <2>2 DEF m
    <3>2. /\ \E i \in DOMAIN list : list[i] = k
          /\ k \notin more => \A i, j \in DOMAIN list : list[i] = k /\ list[j] = k => i = j
      BY <3>1 DEF HoldsIn
    <3>3. QED
      BY <1>2, <1>3, <2>2, <3>2
  <2>3. QED
    BY <2>1, <2>2
<1>7. HoldsIn(longer, before, more, stage2, number, n)
  BY <1>2, <1>4, <1>5, <1>6 DEF HoldsIn
<1>8. QED
  BY <1>7 DEF longer, m

-----------------------------------------------------------------------------
(* The steps of a sample. *)

\* _sample_once is entered.
LEMMA EntryKeeps ==
  ASSUME Monitor!MonitorAssumption, MonitorTypes, Entries, NEW t \in Monitor!Threads,
         at[t] \notin ToNet, Monitor!EnterSample(t), UNCHANGED <<Monitor!lists, unread>>,
         running' \in BOOLEAN, thread' \in Samplers \union {None}, abandoned' \subseteq Samplers
  PROVE  MonitorTypes' /\ Entries'
<1>1. /\ ticks < MaxSamples /\ ticks' = ticks + 1 /\ ticks' \in 1..MaxSamples
      /\ DOMAIN at' = Monitor!Threads /\ at'[t] = "time"
      /\ \A u \in Monitor!Threads : u # t => at'[u] = at[u]
      /\ DOMAIN tick' = Monitor!Threads /\ tick'[t] = ticks'
      /\ \A u \in Monitor!Threads : u # t => tick'[u] = tick[u]
  BY SampleEntered
<1>2. /\ timestamps' = timestamps /\ system_cpu' = system_cpu /\ cpu' = cpu
      /\ rss' = rss /\ num_threads' = num_threads /\ sent' = sent /\ unread' = unread
  BY DEF Monitor!lists
<1>3. MonitorTypes'
  <2>1. ticks \in Nat /\ ticks' \in 0..MaxSamples
    BY <1>1 DEF MonitorTypes, Monitor!MonitorAssumption
  <2>2. \A u \in Monitor!Threads : at'[u] \in ToNet => tick'[u] \in 1..ticks'
    BY <1>1, <2>1 DEF MonitorTypes
  <2>3. \A u \in Monitor!Threads : u # t /\ at'[u] \in ToNet => tick'[u] # ticks'
    BY <1>1, <2>1 DEF MonitorTypes
  <2>4. \A u, v \in Monitor!Threads :
          at'[u] \in ToNet /\ at'[v] \in ToNet /\ tick'[u] = tick'[v] => u = v
    BY <1>1, <2>3 DEF MonitorTypes
  <2>5. Monitor!Threads' = Monitor!Threads /\ ToNet' = ToNet
    BY DEF Monitor!Threads, ToNet
  <2>6. QED
    BY <1>1, <1>2, <2>1, <2>2, <2>4, <2>5 DEF MonitorTypes
<1>4. ASSUME NEW list, NEW before \in SUBSET ToNet, "time" \in before, NEW twice,
             HoldsIn(list, before, twice, at, tick, ticks)
      PROVE  HoldsIn(list, before, twice, at', tick', ticks')
  <2>1. ticks \in Nat
    BY DEF MonitorTypes, Monitor!MonitorAssumption
  <2>2. at[t] \notin before /\ at'[t] \in before /\ tick'[t] = ticks + 1 /\ ticks' = ticks + 1
    BY <1>1, <1>4
  <2>3. \A u \in Monitor!Threads : u # t => at'[u] = at[u] /\ tick'[u] = tick[u]
    BY <1>1
  <2>4. QED
    BY <1>4, <2>1, <2>2, <2>3, HeldAtEntry
<1>5. \A before \in {ToTime, ToSystem, ToCPU, ToMemory, ToThreads, ToNet} :
        before \in SUBSET ToNet /\ "time" \in before
  BY DEF ToTime, ToSystem, ToCPU, ToMemory, ToThreads, ToNet
<1>6. Entries'
  BY <1>2, <1>4, <1>5 DEF Entries
<1>7. QED
  BY <1>3, <1>6

\* A thread moves on in its sample.
LEMMA ReadMoves ==
  ASSUME Monitor!MonitorAssumption, MonitorTypes, NEW t \in Monitor!Threads, NEW here \in ToNet,
         NEW next, Monitor!Read(t, here, next), unread' \subseteq 1..MaxSamples
  PROVE  /\ MonitorTypes' /\ UNCHANGED <<tick, ticks, running, thread, abandoned>>
         /\ at[t] = here /\ at'[t] = next /\ \A u \in Monitor!Threads : u # t => at'[u] = at[u]
         /\ ticks \in Nat /\ ticks <= MaxSamples /\ MaxSamples \in Nat /\ tick[t] \in 1..ticks
         /\ \A u \in Monitor!Threads : u # t /\ at[u] \in ToNet => tick[u] # tick[t]
<1>1. /\ at[t] = here /\ Monitor!Goto(t, next) /\ tick' = tick /\ ticks' = ticks
      /\ running' = running /\ thread' = thread /\ abandoned' = abandoned
  BY DEF Monitor!Read, Monitor!control
<1>2. /\ DOMAIN at' = Monitor!Threads /\ at'[t] = next
      /\ \A u \in Monitor!Threads : u # t => at'[u] = at[u]
  BY <1>1, ThreadMoves
<1>3. /\ ticks \in Nat /\ ticks <= MaxSamples /\ MaxSamples \in Nat /\ tick[t] \in 1..ticks
      /\ \A u \in Monitor!Threads : u # t /\ at[u] \in ToNet => tick[u] # tick[t]
  BY <1>1 DEF MonitorTypes, Monitor!MonitorAssumption
<1>4. \A u \in Monitor!Threads : at'[u] \in ToNet => at[u] \in ToNet
  BY <1>1, <1>2
<1>5. MonitorTypes'
  <2>1. Monitor!Threads' = Monitor!Threads /\ ToNet' = ToNet
    BY DEF Monitor!Threads, ToNet
  <2>2. \A u \in Monitor!Threads : at'[u] \in ToNet => tick[u] \in 1..ticks
    BY <1>4 DEF MonitorTypes
  <2>3. \A u, v \in Monitor!Threads :
          at'[u] \in ToNet /\ at'[v] \in ToNet /\ tick[u] = tick[v] => u = v
    BY <1>4 DEF MonitorTypes
  <2>4. QED
    BY <1>1, <1>2, <2>1, <2>2, <2>3 DEF MonitorTypes
<1>6. QED
  BY <1>1, <1>2, <1>3, <1>5

\* ... past no list's entry, or past that of one.
LEMMA ReadKeeps ==
  ASSUME Monitor!MonitorAssumption, MonitorTypes, NEW t \in Monitor!Threads, NEW here \in ToNet,
         NEW next, Monitor!Read(t, here, next), unread' \subseteq 1..MaxSamples,
         NEW list, NEW before \in SUBSET ToNet, NEW twice, NEW more, twice \subseteq more,
         HoldsIn(list, before, twice, at, tick, ticks)
  PROVE  /\ (here \in before <=> next \in before) =>
              HoldsIn(list, before, more, at', tick', ticks')
         /\ next \notin before /\ (here \in before \/ tick[t] \in more) =>
              HoldsIn(Append(list, tick[t]), before, more, at', tick', ticks')
<1>1. /\ UNCHANGED <<tick, ticks>> /\ at[t] = here /\ at'[t] = next
      /\ \A u \in Monitor!Threads : u # t => at'[u] = at[u]
      /\ ticks \in Nat /\ ticks <= MaxSamples /\ MaxSamples \in Nat /\ tick[t] \in 1..ticks
      /\ \A u \in Monitor!Threads : u # t /\ at[u] \in ToNet => tick[u] # tick[t]
  BY ReadMoves
<1>2. ASSUME here \in before <=> next \in before
      PROVE  HoldsIn(list, before, more, at', tick', ticks')
  <2>1. \A u \in Monitor!Threads : at'[u] \in before <=> at[u] \in before
    BY <1>1, <1>2
  <2>2. HoldsIn(list, before, more, at', tick, ticks)
    BY <2>1, HeldThrough
  <2>3. QED
    BY <1>1, <2>2
<1>3. ASSUME next \notin before, here \in before \/ tick[t] \in more
      PROVE  HoldsIn(Append(list, tick[t]), before, more, at', tick', ticks')
  <2>1. /\ at'[t] \notin before /\ (at[t] \in before \/ tick[t] \in more)
        /\ \A u \in Monitor!Threads : u # t /\ at[u] \in before => tick[u] # tick[t]
    BY <1>1, <1>3
  <2>2. HoldsIn(Append(list, tick[t]), before, more, at', tick, ticks)
    BY <1>1, <2>1, HeldOnceMore
  <2>3. QED
    BY <1>1, <2>2
<1>4. QED
  BY <1>2, <1>3

LEMMA SampleKeeps ==
  ASSUME Monitor!MonitorAssumption, MonitorTypes, Entries, NEW t \in Monitor!Threads,
         Monitor!Sample(t)
  PROVE  MonitorTypes' /\ Entries'
<1>1. /\ ToTime \subseteq ToNet /\ ToSystem \subseteq ToNet /\ ToCPU \subseteq ToNet
      /\ ToMemory \subseteq ToNet /\ ToThreads \subseteq ToNet /\ ToNet \subseteq ToNet
      /\ unread \subseteq 1..MaxSamples
  BY DEF ToTime, ToSystem, ToCPU, ToMemory, ToThreads, ToNet, MonitorTypes
<1>2. ASSUME NEW here \in ToNet, NEW next, Monitor!Read(t, here, next), unread' = unread,
             timestamps' = (IF here \in ToTime /\ next \notin ToTime
                            THEN Append(timestamps, tick[t]) ELSE timestamps),
             system_cpu' = (IF here \in ToSystem /\ next \notin ToSystem
                            THEN Append(system_cpu, tick[t]) ELSE system_cpu),
             cpu' = (IF here \in ToCPU /\ next \notin ToCPU
                     THEN Append(cpu, tick[t]) ELSE cpu),
             rss' = (IF here \in ToMemory /\ next \notin ToMemory
                     THEN Append(rss, tick[t]) ELSE rss),
             num_threads' = (IF here \in ToThreads /\ next \notin ToThreads
                             THEN Append(num_threads, tick[t]) ELSE num_threads),
             sent' = (IF here \in ToNet /\ next \notin ToNet
                      THEN Append(sent, tick[t]) ELSE sent),
             \A before \in {ToTime, ToSystem, ToCPU, ToMemory, ToThreads, ToNet} :
               next \in before => here \in before
      PROVE  MonitorTypes' /\ Entries'
  <2>1. MonitorTypes'
    BY <1>1, <1>2, ReadMoves
  <2>2. ASSUME NEW list, NEW list2, NEW before \in SUBSET ToNet, NEW twice,
               list2 = (IF here \in before /\ next \notin before
                        THEN Append(list, tick[t]) ELSE list),
               next \in before => here \in before,
               HoldsIn(list, before, twice, at, tick, ticks)
        PROVE  HoldsIn(list2, before, twice, at', tick', ticks')
    BY <1>1, <1>2, <2>2, ReadKeeps
  <2>3. /\ HoldsIn(timestamps', ToTime, {}, at', tick', ticks')
        /\ HoldsIn(system_cpu', ToSystem, {}, at', tick', ticks')
        /\ HoldsIn(cpu', ToCPU, unread, at', tick', ticks')
    BY <1>1, <1>2, <2>2 DEF Entries
  <2>4. /\ HoldsIn(rss', ToMemory, unread, at', tick', ticks')
        /\ HoldsIn(num_threads', ToThreads, {}, at', tick', ticks')
        /\ HoldsIn(sent', ToNet, {}, at', tick', ticks')
    BY <1>1, <1>2, <2>2 DEF Entries
  <2>5. QED
    BY <1>2, <2>1, <2>3, <2>4 DEF Entries
<1>3. CASE Monitor!SampleTime(t)
  BY <1>2, <1>3 DEF Monitor!SampleTime, ToTime, ToSystem, ToCPU, ToMemory, ToThreads, ToNet
<1>4. CASE Monitor!SampleSystem(t)
  BY <1>2, <1>4 DEF Monitor!SampleSystem, ToTime, ToSystem, ToCPU, ToMemory, ToThreads, ToNet
<1>5. CASE Monitor!SampleCPU(t)
  BY <1>2, <1>5 DEF Monitor!SampleCPU, ToTime, ToSystem, ToCPU, ToMemory, ToThreads, ToNet
<1>6. CASE Monitor!SampleMemory(t)
  BY <1>2, <1>6 DEF Monitor!SampleMemory, ToTime, ToSystem, ToCPU, ToMemory, ToThreads, ToNet
<1>7. CASE Monitor!SampleThreads(t)
  BY <1>2, <1>7 DEF Monitor!SampleThreads, ToTime, ToSystem, ToCPU, ToMemory, ToThreads, ToNet
<1>8. CASE Monitor!SampleNet(t)
  <2>1. PICK next \in {"stopped", "loop"} : Monitor!Read(t, "net", next)
    BY <1>8 DEF Monitor!SampleNet
  <2>2. QED
    BY <1>2, <1>8, <2>1 DEF Monitor!SampleNet, ToTime, ToSystem, ToCPU, ToMemory, ToThreads, ToNet
<1>9. CASE Monitor!Unreadable(t)
  <2>1. PICK here \in {"cpu", "memory", "threads"} : Monitor!Read(t, here, "net")
    BY <1>9 DEF Monitor!Unreadable
  <2>2. /\ cpu' = Append(cpu, tick[t]) /\ rss' = Append(rss, tick[t])
        /\ num_threads' = Append(num_threads, tick[t]) /\ unread' = unread \union {tick[t]}
        /\ timestamps' = timestamps /\ system_cpu' = system_cpu /\ sent' = sent
    BY <1>9 DEF Monitor!Unreadable
  <2>3. here \in ToNet
    BY DEF ToNet
  <2>4. unread' \subseteq 1..MaxSamples
    <3>1. tick[t] \in 1..MaxSamples
      <4>1. at[t] \in ToNet
        BY <2>1, <2>3 DEF Monitor!Read
      <4>2. tick[t] \in 1..ticks /\ ticks \in 0..MaxSamples /\ MaxSamples \in Nat
        BY <4>1 DEF MonitorTypes, Monitor!MonitorAssumption
      <4>3. QED
        BY <4>2
    <3>2. QED
      BY <1>1, <2>2, <3>1
  <2>5. MonitorTypes'
    BY <2>1, <2>3, <2>4, ReadMoves
  <2>6. ASSUME NEW list, NEW before \in SUBSET ToNet, NEW twice, NEW more, twice \subseteq more,
               HoldsIn(list, before, twice, at, tick, ticks)
        PROVE  /\ (here \in before <=> "net" \in before) =>
                    HoldsIn(list, before, more, at', tick', ticks')
               /\ "net" \notin before /\ (here \in before \/ tick[t] \in more) =>
                    HoldsIn(Append(list, tick[t]), before, more, at', tick', ticks')
    BY <2>1, <2>3, <2>4, <2>6, ReadKeeps
  <2>7. /\ here \notin ToTime /\ "net" \notin ToTime /\ here \notin ToSystem /\ "net" \notin ToSystem
        /\ here \in ToNet /\ "net" \in ToNet /\ here \in ToThreads /\ "net" \notin ToThreads
        /\ "net" \notin ToCPU /\ "net" \notin ToMemory
    BY DEF ToTime, ToSystem, ToCPU, ToMemory, ToThreads, ToNet
  <2>8. /\ HoldsIn(timestamps, ToTime, {}, at', tick', ticks')
        /\ HoldsIn(system_cpu, ToSystem, {}, at', tick', ticks')
        /\ HoldsIn(sent, ToNet, {}, at', tick', ticks')
    BY <1>1, <2>6, <2>7 DEF Entries
  <2>9. tick[t] \in unread' /\ unread \subseteq unread'
    BY <2>2
  <2>10. /\ HoldsIn(cpu', ToCPU, unread', at', tick', ticks')
         /\ HoldsIn(rss', ToMemory, unread', at', tick', ticks')
         /\ HoldsIn(num_threads', ToThreads, {}, at', tick', ticks')
    <3>1. /\ HoldsIn(cpu, ToCPU, unread, at, tick, ticks)
          /\ HoldsIn(rss, ToMemory, unread, at, tick, ticks)
          /\ HoldsIn(num_threads, ToThreads, {}, at, tick, ticks)
      BY DEF Entries
    <3>2. HoldsIn(cpu', ToCPU, unread', at', tick', ticks')
      <4>1. HoldsIn(Append(cpu, tick[t]), ToCPU, unread', at', tick', ticks')
        BY <1>1, <2>6, <2>7, <2>9, <3>1
      <4>2. QED
        BY <2>2, <4>1
    <3>3. HoldsIn(rss', ToMemory, unread', at', tick', ticks')
      <4>1. HoldsIn(Append(rss, tick[t]), ToMemory, unread', at', tick', ticks')
        BY <1>1, <2>6, <2>7, <2>9, <3>1
      <4>2. QED
        BY <2>2, <4>1
    <3>4. HoldsIn(num_threads', ToThreads, {}, at', tick', ticks')
      <4>1. {} \subseteq {} /\ HoldsIn(num_threads, ToThreads, {}, at, tick, ticks)
        BY <3>1
      <4>2. HoldsIn(Append(num_threads, tick[t]), ToThreads, {}, at', tick', ticks')
        BY <1>1, <2>6, <2>7, <4>1
      <4>3. QED
        BY <2>2, <4>2
    <3>5. QED
      BY <3>2, <3>3, <3>4
  <2>11. QED
    BY <2>2, <2>5, <2>8, <2>10 DEF Entries
<1>10. QED
  BY <1>3, <1>4, <1>5, <1>6, <1>7, <1>8, <1>9 DEF Monitor!Sample

-----------------------------------------------------------------------------
(* The lists of a monitor whose threads were all waited for.                  *)

\* A list, seen from the one thread that may have a sample under way.
LEMMA AheadByOne ==
  ASSUME NEW t \in Monitor!Threads, NEW stage, NEW number, NEW list, NEW last,
         NEW before \in SUBSET ToNet,
         \A u \in Monitor!Threads : u # t => stage[u] \notin ToNet
  PROVE  AheadIn(list, before, last, stage, number) <=>
           list = IF stage[t] \in ToNet \ before THEN Append(last, number[t]) ELSE last
<1>1. \A u \in Monitor!Threads : u # t => stage[u] \notin before /\ stage[u] \notin ToNet \ before
  OBVIOUS
<1>2. (\A u \in Monitor!Threads : stage[u] \notin ToNet) <=> stage[t] \notin ToNet
  OBVIOUS
<1>3. CASE stage[t] \in before
  BY <1>1, <1>2, <1>3 DEF AheadIn
<1>4. CASE stage[t] \in ToNet \ before
  BY <1>1, <1>2, <1>4 DEF AheadIn
<1>5. CASE stage[t] \notin ToNet
  BY <1>1, <1>2, <1>5 DEF AheadIn
<1>6. QED
  BY <1>3, <1>4, <1>5

\* With one sample at most under way, a step of a sample finds no other.
LEMMA NoOther ==
  ASSUME Monitor!MonitorAssumption, Owned, abandoned = {}, NEW t \in Monitor!Threads,
         at[t] \in ToNet \/ (t \in Samplers /\ at[t] = "loop") \/ (t = Owner /\ thread = None)
  PROVE  \A u \in Monitor!Threads : u # t => at[u] \notin ToNet
<1>1. Owner \notin Samplers /\ None \notin Samplers
  BY DEF Monitor!MonitorAssumption
<1>2. at[Owner] \in ToNet => thread = None
  BY DEF Owned, ToNet
<1>3. \A u \in Samplers : at[u] \in {"loop"} \union ToNet => u = thread
  BY DEF Owned
<1>4. \A u \in Monitor!Threads : u \in Samplers \/ u = Owner
  BY DEF Monitor!Threads
<1>5. QED
  BY <1>1, <1>2, <1>3, <1>4

LEMMA EntryAligned ==
  ASSUME Monitor!MonitorAssumption, MonitorTypes, Aligned, NEW t \in Monitor!Threads,
         at[t] \notin ToNet, \A u \in Monitor!Threads : u # t => at[u] \notin ToNet,
         Monitor!EnterSample(t), UNCHANGED <<Monitor!lists, unread>>
  PROVE  Aligned'
<1>1. at'[t] = "time" /\ \A u \in Monitor!Threads : u # t => at'[u] \notin ToNet
  BY SampleEntered
<1>2. ASSUME NEW list, NEW before \in SUBSET ToNet, "time" \in before,
             AheadIn(list, before, sent, at, tick)
      PROVE  AheadIn(list, before, sent, at', tick')
  <2>1. list = sent
    BY <1>2, AheadByOne
  <2>2. QED
    BY <1>1, <1>2, <2>1, AheadByOne
<1>3. \A before \in {ToTime, ToSystem, ToCPU, ToMemory, ToThreads} :
        before \in SUBSET ToNet /\ "time" \in before
  BY DEF ToTime, ToSystem, ToCPU, ToMemory, ToThreads, ToNet
<1>4. /\ timestamps' = timestamps /\ system_cpu' = system_cpu /\ cpu' = cpu
      /\ rss' = rss /\ num_threads' = num_threads /\ sent' = sent /\ unread' = unread
  BY DEF Monitor!lists
<1>5. QED
  BY <1>2, <1>3, <1>4 DEF Aligned

LEMMA SampleAligned ==
  ASSUME Monitor!MonitorAssumption, MonitorTypes, Aligned, NEW t \in Monitor!Threads,
         \A u \in Monitor!Threads : u # t => at[u] \notin ToNet, Monitor!Sample(t)
  PROVE  Aligned'
<1>1. /\ ToTime \subseteq ToNet /\ ToSystem \subseteq ToNet /\ ToCPU \subseteq ToNet
      /\ ToMemory \subseteq ToNet /\ ToThreads \subseteq ToNet
      /\ unread \subseteq 1..MaxSamples
  BY DEF ToTime, ToSystem, ToCPU, ToMemory, ToThreads, ToNet, MonitorTypes
<1>2. ASSUME NEW here \in ToNet, NEW next, Monitor!Read(t, here, next)
      PROVE  /\ at[t] = here /\ at'[t] = next /\ tick' = tick
             /\ \A u \in Monitor!Threads : u # t => at'[u] \notin ToNet
  <2>1. Monitor!Goto(t, next) /\ at[t] = here /\ tick' = tick
    BY <1>2 DEF Monitor!Read
  <2>2. QED
    BY <2>1, ThreadMoves
\* A step that appends to the lists it passes, and sent not among them.
<1>3. ASSUME NEW here \in ToNet, NEW next \in ToNet, Monitor!Read(t, here, next), sent' = sent,
             NEW list, NEW list2, NEW before \in SUBSET ToNet, next \in before => here \in before,
             list2 = (IF here \in before /\ next \notin before
                      THEN Append(list, tick[t]) ELSE list),
             AheadIn(list, before, sent, at, tick)
      PROVE  AheadIn(list2, before, sent', at', tick')
  <2>1. list = IF here \in before THEN sent ELSE Append(sent, tick[t])
    <3>1. at[t] = here
      BY <1>2, <1>3
    <3>2. list = IF at[t] \in ToNet \ before THEN Append(sent, tick[t]) ELSE sent
      BY <1>3, AheadByOne
    <3>3. QED
      BY <1>3, <3>1, <3>2
  <2>2. list2 = IF next \in before THEN sent' ELSE Append(sent', tick'[t])
    <3>1. tick' = tick /\ sent' = sent
      BY <1>2, <1>3
    <3>2. QED
      BY <1>3, <2>1, <3>1
  <2>3. /\ at'[t] = next /\ \A u \in Monitor!Threads : u # t => at'[u] \notin ToNet
    BY <1>2, <1>3
  <2>4. list2 = IF at'[t] \in ToNet \ before THEN Append(sent', tick'[t]) ELSE sent'
    BY <1>3, <2>2, <2>3
  <2>5. QED
    BY <1>3, <2>3, <2>4, AheadByOne
<1>4. ASSUME NEW here \in ToNet, NEW next \in ToNet, Monitor!Read(t, here, next),
             sent' = sent, unread' = unread,
             timestamps' = (IF here \in ToTime /\ next \notin ToTime
                            THEN Append(timestamps, tick[t]) ELSE timestamps),
             system_cpu' = (IF here \in ToSystem /\ next \notin ToSystem
                            THEN Append(system_cpu, tick[t]) ELSE system_cpu),
             cpu' = (IF here \in ToCPU /\ next \notin ToCPU
                     THEN Append(cpu, tick[t]) ELSE cpu),
             rss' = (IF here \in ToMemory /\ next \notin ToMemory
                     THEN Append(rss, tick[t]) ELSE rss),
             num_threads' = (IF here \in ToThreads /\ next \notin ToThreads
                             THEN Append(num_threads, tick[t]) ELSE num_threads),
             \A before \in {ToTime, ToSystem, ToCPU, ToMemory, ToThreads} :
               next \in before => here \in before
      PROVE  Aligned'
  <2>1. /\ AheadIn(timestamps', ToTime, sent', at', tick')
        /\ AheadIn(system_cpu', ToSystem, sent', at', tick')
        /\ AheadIn(num_threads', ToThreads, sent', at', tick')
    BY <1>1, <1>3, <1>4 DEF Aligned
  <2>2. unread' = {} => /\ AheadIn(cpu', ToCPU, sent', at', tick')
                        /\ AheadIn(rss', ToMemory, sent', at', tick')
    BY <1>1, <1>3, <1>4 DEF Aligned
  <2>3. QED
    BY <2>1, <2>2 DEF Aligned
<1>5. CASE Monitor!SampleTime(t)
  BY <1>4, <1>5 DEF Monitor!SampleTime, ToTime, ToSystem, ToCPU, ToMemory, ToThreads, ToNet
<1>6. CASE Monitor!SampleSystem(t)
  BY <1>4, <1>6 DEF Monitor!SampleSystem, ToTime, ToSystem, ToCPU, ToMemory, ToThreads, ToNet
<1>7. CASE Monitor!SampleCPU(t)
  BY <1>4, <1>7 DEF Monitor!SampleCPU, ToTime, ToSystem, ToCPU, ToMemory, ToThreads, ToNet
<1>8. CASE Monitor!SampleMemory(t)
  BY <1>4, <1>8 DEF Monitor!SampleMemory, ToTime, ToSystem, ToCPU, ToMemory, ToThreads, ToNet
<1>9. CASE Monitor!SampleThreads(t)
  BY <1>4, <1>9 DEF Monitor!SampleThreads, ToTime, ToSystem, ToCPU, ToMemory, ToThreads, ToNet
<1>10. CASE Monitor!Unreadable(t)
  <2>1. PICK here \in {"cpu", "memory", "threads"} : Monitor!Read(t, here, "net")
    BY <1>10 DEF Monitor!Unreadable
  <2>2. /\ num_threads' = Append(num_threads, tick[t]) /\ unread' # {}
        /\ timestamps' = timestamps /\ system_cpu' = system_cpu /\ sent' = sent
    BY <1>10 DEF Monitor!Unreadable
  <2>3. /\ here \notin ToTime /\ "net" \notin ToTime /\ here \notin ToSystem /\ "net" \notin ToSystem
        /\ here \in ToNet /\ "net" \in ToNet /\ here \in ToThreads /\ "net" \notin ToThreads
    BY DEF ToTime, ToSystem, ToThreads, ToNet
  <2>4. /\ AheadIn(timestamps', ToTime, sent', at', tick')
        /\ AheadIn(system_cpu', ToSystem, sent', at', tick')
        /\ AheadIn(num_threads', ToThreads, sent', at', tick')
    BY <1>1, <1>3, <2>1, <2>2, <2>3 DEF Aligned
  <2>5. QED
    BY <2>2, <2>4 DEF Aligned
<1>11. CASE Monitor!SampleNet(t)
  <2>1. PICK next \in {"stopped", "loop"} : Monitor!Read(t, "net", next)
    BY <1>11 DEF Monitor!SampleNet
  <2>2. /\ sent' = Append(sent, tick[t]) /\ timestamps' = timestamps /\ system_cpu' = system_cpu
        /\ cpu' = cpu /\ rss' = rss /\ num_threads' = num_threads /\ unread' = unread
    BY <1>11 DEF Monitor!SampleNet
  <2>3. "net" \in ToNet /\ next \notin ToNet
    BY DEF ToNet
  <2>4. at[t] = "net" /\ at'[t] = next /\ \A u \in Monitor!Threads : u # t => at'[u] \notin ToNet
    BY <1>2, <2>1, <2>3
  <2>5. ASSUME NEW list, NEW before \in SUBSET ToNet, "net" \notin before,
               AheadIn(list, before, sent, at, tick)
        PROVE  AheadIn(list, before, sent', at', tick')
    <3>1. list = sent'
      BY <2>2, <2>3, <2>4, <2>5, AheadByOne
    <3>2. QED
      BY <2>3, <2>4, <2>5, <3>1, AheadByOne
  <2>6. \A before \in {ToTime, ToSystem, ToCPU, ToMemory, ToThreads} : "net" \notin before
    BY DEF ToTime, ToSystem, ToCPU, ToMemory, ToThreads
  <2>7. QED
    BY <1>1, <2>2, <2>5, <2>6 DEF Aligned
<1>12. QED
  BY <1>5, <1>6, <1>7, <1>8, <1>9, <1>10, <1>11 DEF Monitor!Sample

-----------------------------------------------------------------------------
(* The other steps. *)

\* No sample begins, ends or goes on.
LEMMA PlacesKeep ==
  ASSUME MonitorTypes, Entries, abandoned = {} => Aligned, DOMAIN at' = Monitor!Threads,
         \A t \in Monitor!Threads : at'[t] = at[t] \/ (at[t] \notin ToNet /\ at'[t] \notin ToNet),
         UNCHANGED <<Monitor!lists, tick, ticks, unread, abandoned>>,
         running' \in BOOLEAN, thread' \in Samplers \union {None}
  PROVE  MonitorTypes' /\ Entries' /\ (abandoned' = {} => Aligned')
<1>1. /\ timestamps' = timestamps /\ system_cpu' = system_cpu /\ cpu' = cpu /\ rss' = rss
      /\ num_threads' = num_threads /\ sent' = sent /\ unread' = unread
      /\ tick' = tick /\ ticks' = ticks /\ abandoned' = abandoned
  BY DEF Monitor!lists
<1>2. /\ ToTime \subseteq ToNet /\ ToSystem \subseteq ToNet /\ ToCPU \subseteq ToNet
      /\ ToMemory \subseteq ToNet /\ ToThreads \subseteq ToNet /\ ToNet \subseteq ToNet
  BY DEF ToTime, ToSystem, ToCPU, ToMemory, ToThreads, ToNet
<1>3. \A before \in SUBSET ToNet : \A t \in Monitor!Threads : at'[t] \in before <=> at[t] \in before
  OBVIOUS
<1>4. MonitorTypes'
  <2>1. Monitor!Threads' = Monitor!Threads /\ ToNet' = ToNet
    BY DEF Monitor!Threads, ToNet
  <2>2. \A t \in Monitor!Threads : at'[t] \in ToNet => at[t] \in ToNet
    BY <1>3
  <2>3. QED
    BY <1>1, <2>1, <2>2 DEF MonitorTypes
<1>5. ASSUME NEW list, NEW before \in SUBSET ToNet, NEW twice,
             HoldsIn(list, before, twice, at, tick, ticks)
      PROVE  HoldsIn(list, before, twice, at', tick', ticks')
  <2>1. HoldsIn(list, before, twice, at', tick, ticks)
    BY <1>3, <1>5, HeldThrough
  <2>2. QED
    BY <1>1, <2>1
<1>6. Entries'
  BY <1>1, <1>2, <1>5 DEF Entries
<1>7. ASSUME NEW list, NEW before \in SUBSET ToNet, AheadIn(list, before, sent, at, tick)
      PROVE  AheadIn(list, before, sent, at', tick')
  <2>1. \A t \in Monitor!Threads : /\ at'[t] \in before <=> at[t] \in before
                                   /\ at'[t] \in ToNet \ before <=> at[t] \in ToNet \ before
                                   /\ at'[t] \in ToNet <=> at[t] \in ToNet
    BY <1>3, <1>7
  <2>2. QED
    BY <1>1, <1>7, <2>1 DEF AheadIn
<1>8. abandoned' = {} => Aligned'
  BY <1>1, <1>2, <1>7 DEF Aligned
<1>9. QED
  BY <1>4, <1>6, <1>8

LEMMA SampleOwned ==
  ASSUME Monitor!MonitorAssumption, MonitorTypes, Owned, NEW t \in Monitor!Threads,
         Monitor!Sample(t)
  PROVE  Owned'
<1>1. Owner \notin Samplers /\ Owner \in Monitor!Threads /\ Samplers \subseteq Monitor!Threads
  BY DEF Monitor!MonitorAssumption, Monitor!Threads
<1>2. PICK next : /\ Monitor!Goto(t, next) /\ at[t] \in ToNet
                  /\ running' = running /\ thread' = thread /\ abandoned' = abandoned
                  /\ next \in ToNet \union {IF t = Owner THEN "stopped" ELSE "loop"}
  BY DEF Monitor!Sample, Monitor!SampleTime, Monitor!SampleSystem, Monitor!SampleCPU,
     Monitor!SampleMemory, Monitor!SampleThreads, Monitor!Unreadable, Monitor!SampleNet,
     Monitor!Read, Monitor!control, ToNet
<1>3. at'[t] = next /\ \A u \in Monitor!Threads : u # t => at'[u] = at[u]
  BY <1>2, ThreadMoves
<1>4. ToNet' = ToNet /\ "idle" \notin ToNet /\ "joining" \notin ToNet
  BY DEF ToNet
<1>5. CASE t = Owner
  <2>1. ~running /\ at[Owner] # "joining" /\ at'[Owner] \in {"stopped"} \union ToNet
    BY <1>2, <1>3, <1>4, <1>5 DEF Owned
  <2>2. \A u \in Samplers : at'[u] = at[u]
    BY <1>1, <1>3, <1>5
  <2>3. QED
    BY <1>2, <1>4, <2>1, <2>2 DEF Owned
<1>6. CASE t # Owner
  <2>1. t \in Samplers /\ at'[Owner] = at[Owner]
    BY <1>1, <1>3, <1>6 DEF Monitor!Threads
  <2>2. t = thread \/ t \in abandoned
    BY <1>2, <2>1 DEF Owned
  <2>3. at'[t] \in {"loop"} \union ToNet
    BY <1>2, <1>3, <1>6
  <2>4. \A u \in Samplers : /\ at'[u] \in {"unborn", "ended", "loop"} \union ToNet
                            /\ at'[u] \in {"loop"} \union ToNet => u = thread \/ u \in abandoned
    BY <1>1, <1>3, <2>2, <2>3 DEF Owned
  <2>5. QED
    BY <1>2, <1>4, <2>1, <2>4 DEF Owned
<1>7. QED
  BY <1>5, <1>6

\* The thread looks at _running.
LEMMA LookKeeps ==
  ASSUME Monitor!MonitorAssumption, MonitorInv, NEW t \in Monitor!Threads,
         Monitor!BeginSample(t) \/ Monitor!EndThread(t)
  PROVE  MonitorInv'
<1>1. /\ t \in Samplers /\ at[t] = "loop" /\ running' = running /\ thread' = thread
      /\ abandoned' = abandoned /\ UNCHANGED <<Monitor!lists, unread>>
  BY DEF Monitor!BeginSample, Monitor!EndThread, Monitor!control
<1>2. MonitorTypes /\ Owned /\ Entries /\ (abandoned = {} => Aligned)
  BY DEF MonitorInv
<1>3. PICK where \in {"time", "ended"} : Monitor!Goto(t, where)
  BY DEF Monitor!BeginSample, Monitor!EndThread, Monitor!EnterSample
<1>4. /\ DOMAIN at' = Monitor!Threads /\ at'[t] = where
      /\ \A u \in Monitor!Threads : u # t => at'[u] = at[u]
  BY <1>2, <1>3, ThreadMoves
<1>5. "loop" \notin ToNet /\ "ended" \notin ToNet /\ "time" \in ToNet /\ ToNet' = ToNet
  BY DEF ToNet
<1>6. Owned'
  <2>1. Owner \in Monitor!Threads /\ Owner \notin Samplers /\ Samplers \subseteq Monitor!Threads
    BY DEF Monitor!MonitorAssumption, Monitor!Threads
  <2>2. t = thread \/ t \in abandoned
    BY <1>1, <1>2 DEF Owned
  <2>3. at'[Owner] = at[Owner]
    BY <1>1, <1>4, <2>1
  <2>4. \A u \in Samplers : /\ at'[u] \in {"unborn", "ended", "loop"} \union ToNet
                            /\ at'[u] \in {"loop"} \union ToNet => u = thread \/ u \in abandoned
    BY <1>2, <1>4, <1>5, <2>1, <2>2 DEF Owned
  <2>5. QED
    BY <1>1, <1>2, <1>5, <2>3, <2>4 DEF Owned
<1>7. running' \in BOOLEAN /\ thread' \in Samplers \union {None} /\ abandoned' \subseteq Samplers
  BY <1>1, <1>2 DEF MonitorTypes
<1>8. CASE Monitor!BeginSample(t)
  <2>1. Monitor!EnterSample(t) /\ at[t] \notin ToNet
    BY <1>1, <1>5, <1>8 DEF Monitor!BeginSample
  <2>2. MonitorTypes' /\ Entries'
    BY <1>1, <1>2, <1>7, <2>1, EntryKeeps
  <2>3. ASSUME abandoned' = {} PROVE Aligned'
    <3>1. \A u \in Monitor!Threads : u # t => at[u] \notin ToNet
      BY <1>1, <1>2, <2>3, NoOther
    <3>2. QED
      BY <1>1, <1>2, <2>1, <2>3, <3>1, EntryAligned
  <2>4. QED
    BY <1>6, <2>2, <2>3 DEF MonitorInv
<1>9. CASE Monitor!EndThread(t)
  <2>1. UNCHANGED <<tick, ticks>> /\ at'[t] \notin ToNet
    BY <1>4, <1>5, <1>9, ThreadMoves, <1>2 DEF Monitor!EndThread
  <2>2. \A u \in Monitor!Threads : at'[u] = at[u] \/ (at[u] \notin ToNet /\ at'[u] \notin ToNet)
    BY <1>1, <1>4, <1>5, <2>1
  <2>3. MonitorTypes' /\ Entries' /\ (abandoned' = {} => Aligned')
    BY <1>1, <1>2, <1>4, <1>7, <2>1, <2>2, PlacesKeep
  <2>4. QED
    BY <1>6, <2>3 DEF MonitorInv
<1>10. QED
  BY <1>8, <1>9

\* The owner takes the last sample, having waited for its thread, given it up or had none.
LEMMA LastSampleKeeps ==
  ASSUME Monitor!MonitorAssumption, MonitorInv, Monitor!EnterSample(Owner),
         at[Owner] \in {"idle", "stopped", "joining"}, running' = FALSE, thread' = None,
         UNCHANGED <<Monitor!lists, unread>>, abandoned' \subseteq Samplers,
         abandoned \subseteq abandoned',
         \A t \in Samplers : at[t] \in {"loop"} \union ToNet => t \in abandoned'
  PROVE  MonitorInv'
<1>1. MonitorTypes /\ Owned /\ Entries /\ (abandoned = {} => Aligned)
  BY DEF MonitorInv
<1>2. Owner \in Monitor!Threads /\ Owner \notin Samplers /\ Samplers \subseteq Monitor!Threads
  BY DEF Monitor!MonitorAssumption, Monitor!Threads
<1>3. at[Owner] \notin ToNet /\ ToNet' = ToNet /\ "time" \in ToNet
  BY DEF ToNet
<1>4. at'[Owner] = "time" /\ \A u \in Samplers : at'[u] = at[u]
  BY <1>1, <1>2, SampleEntered
<1>5. MonitorTypes' /\ Entries'
  BY <1>1, <1>2, <1>3, EntryKeeps
<1>6. Owned'
  BY <1>1, <1>3, <1>4 DEF Owned
<1>7. ASSUME abandoned' = {} PROVE Aligned'
  <2>1. \A u \in Monitor!Threads : u # Owner => at[u] \notin ToNet
    BY <1>7 DEF Monitor!Threads
  <2>2. Aligned
    BY <1>1, <1>7
  <2>3. QED
    BY <1>1, <1>2, <1>3, <2>1, <2>2, EntryAligned
<1>8. QED
  BY <1>5, <1>6, <1>7 DEF MonitorInv

LEMMA JoinKeeps ==
  ASSUME Monitor!MonitorAssumption, MonitorInv, Monitor!Join \/ Monitor!JoinTimesOut
  PROVE  MonitorInv'
<1>1. /\ at[Owner] = "joining" /\ thread' = None /\ Monitor!EnterSample(Owner)
      /\ running' = running /\ UNCHANGED <<Monitor!lists, unread>>
  BY DEF Monitor!Join, Monitor!JoinTimesOut, Monitor!Joined
<1>2. MonitorTypes /\ Owned
  BY DEF MonitorInv
<1>3. running' = FALSE /\ thread \in Samplers
  BY <1>1, <1>2 DEF Owned, MonitorTypes
<1>4. \/ at[thread] = "ended" /\ abandoned' = abandoned
      \/ abandoned' = abandoned \union {thread}
  BY DEF Monitor!Join, Monitor!JoinTimesOut
<1>5. abandoned' \subseteq Samplers /\ abandoned \subseteq abandoned'
  BY <1>2, <1>3, <1>4 DEF MonitorTypes
<1>6. \A t \in Samplers : at[t] \in {"loop"} \union ToNet => t \in abandoned'
  BY <1>2, <1>4 DEF Owned, ToNet
<1>7. QED
  BY <1>1, <1>3, <1>5, <1>6, LastSampleKeeps

LEMMA StopKeeps ==
  ASSUME Monitor!MonitorAssumption, MonitorInv, Monitor!stop
  PROVE  MonitorInv'
<1>1. /\ at[Owner] \in {"idle", "stopped"} /\ running' = FALSE /\ thread' = thread
      /\ abandoned' = abandoned /\ UNCHANGED <<Monitor!lists, unread>>
  BY DEF Monitor!stop
<1>2. MonitorTypes /\ Owned /\ Entries /\ (abandoned = {} => Aligned)
  BY DEF MonitorInv
<1>3. CASE thread = None
  <2>1. Monitor!EnterSample(Owner)
    BY <1>3 DEF Monitor!stop
  <2>2. \A t \in Samplers : at[t] \in {"loop"} \union ToNet => t \in abandoned'
    BY <1>1, <1>2, <1>3 DEF Owned, Monitor!MonitorAssumption
  <2>3. abandoned' \subseteq Samplers /\ abandoned \subseteq abandoned'
    BY <1>1, <1>2 DEF MonitorTypes
  <2>4. QED
    BY <1>1, <1>3, <2>1, <2>2, <2>3, LastSampleKeeps
<1>4. CASE thread # None
  <2>1. Monitor!Goto(Owner, "joining") /\ UNCHANGED <<tick, ticks>>
    BY <1>4 DEF Monitor!stop
  <2>2. Owner \in Monitor!Threads /\ Owner \notin Samplers /\ Samplers \subseteq Monitor!Threads
    BY DEF Monitor!MonitorAssumption, Monitor!Threads
  <2>3. /\ DOMAIN at' = Monitor!Threads /\ at'[Owner] = "joining"
        /\ \A u \in Monitor!Threads : u # Owner => at'[u] = at[u]
    BY <1>2, <2>1, <2>2, ThreadMoves
  <2>4. {"idle", "stopped", "joining"} \intersect ToNet = {} /\ ToNet' = ToNet
    BY DEF ToNet
  <2>5. \A t \in Monitor!Threads : at'[t] = at[t] \/ (at[t] \notin ToNet /\ at'[t] \notin ToNet)
    BY <1>1, <2>3, <2>4
  <2>6. running' \in BOOLEAN /\ thread' \in Samplers \union {None}
    BY <1>1, <1>2 DEF MonitorTypes
  <2>7. MonitorTypes' /\ Entries' /\ (abandoned' = {} => Aligned')
    BY <1>1, <1>2, <2>1, <2>3, <2>5, <2>6, PlacesKeep
  <2>8. \A u \in Samplers : at'[u] = at[u]
    BY <2>2, <2>3
  <2>9. Owned'
    BY <1>1, <1>2, <1>4, <2>3, <2>4, <2>8 DEF Owned
  <2>10. QED
    BY <2>7, <2>9 DEF MonitorInv
<1>5. QED
  BY <1>3, <1>4

LEMMA StartKeeps ==
  ASSUME Monitor!MonitorAssumption, MonitorInv, Monitor!start
  PROVE  MonitorInv'
<1>1. /\ at[Owner] \in {"idle", "stopped"} /\ ~running /\ running' = TRUE
      /\ UNCHANGED <<Monitor!lists, tick, ticks, unread, abandoned>>
  BY DEF Monitor!start
<1>2. MonitorTypes /\ Owned /\ Entries /\ (abandoned = {} => Aligned)
  BY DEF MonitorInv
<1>3. PICK t \in Samplers : /\ at[t] = "unborn" /\ thread' = t
                            /\ at' = [at EXCEPT ![t] = "loop", ![Owner] = "idle"]
  BY DEF Monitor!start
<1>4. /\ Owner \in Monitor!Threads /\ Owner \notin Samplers /\ None \notin Samplers
      /\ Samplers \subseteq Monitor!Threads
  BY DEF Monitor!MonitorAssumption, Monitor!Threads
<1>5. /\ DOMAIN at' = Monitor!Threads /\ at'[t] = "loop" /\ at'[Owner] = "idle"
      /\ \A u \in Monitor!Threads : u # t /\ u # Owner => at'[u] = at[u]
  BY <1>2, <1>3, <1>4 DEF MonitorTypes
<1>6. {"idle", "stopped", "unborn", "loop"} \intersect ToNet = {} /\ ToNet' = ToNet
  BY DEF ToNet
<1>7. \A u \in Monitor!Threads : at'[u] = at[u] \/ (at[u] \notin ToNet /\ at'[u] \notin ToNet)
  BY <1>1, <1>3, <1>5, <1>6
<1>8. running' \in BOOLEAN /\ thread' \in Samplers \union {None}
  BY <1>1, <1>3
<1>9. MonitorTypes' /\ Entries' /\ (abandoned' = {} => Aligned')
  BY <1>1, <1>2, <1>5, <1>7, <1>8, PlacesKeep
<1>10. Owned'
  <2>1. thread = None
    BY <1>1, <1>2 DEF Owned
  <2>2. \A u \in Samplers : /\ at'[u] \in {"unborn", "ended", "loop"} \union ToNet
                            /\ at'[u] \in {"loop"} \union ToNet => u = thread' \/ u \in abandoned
    BY <1>2, <1>3, <1>4, <1>5, <2>1 DEF Owned
  <2>3. thread' # None
    BY <1>3, <1>4
  <2>4. QED
    BY <1>1, <1>5, <1>6, <2>2, <2>3 DEF Owned
<1>11. QED
  BY <1>9, <1>10 DEF MonitorInv

LEMMA MonitorAlways ==
  ASSUME Monitor!MonitorAssumption
  PROVE  Monitor!Spec => []MonitorInv
<1>1. Monitor!Init => MonitorInv
  BY MonitorInit
<1>2. MonitorInv /\ [Monitor!Next]_Monitor!vars => MonitorInv'
  <2>1. SUFFICES ASSUME MonitorInv, [Monitor!Next]_Monitor!vars PROVE MonitorInv'
    OBVIOUS
  <2>2. ASSUME NEW t \in Monitor!Threads, Monitor!Sample(t) PROVE MonitorInv'
    <3>1. MonitorTypes /\ Owned /\ Entries /\ (abandoned = {} => Aligned)
      BY <2>1 DEF MonitorInv
    <3>2. abandoned' = abandoned /\ at[t] \in ToNet
      BY <2>2 DEF Monitor!Sample, Monitor!SampleTime, Monitor!SampleSystem, Monitor!SampleCPU,
         Monitor!SampleMemory, Monitor!SampleThreads, Monitor!Unreadable, Monitor!SampleNet,
         Monitor!Read, Monitor!control, ToNet
    <3>3. abandoned' = {} => Aligned'
      BY <2>2, <3>1, <3>2, NoOther, SampleAligned
    <3>4. QED
      BY <2>2, <3>1, <3>3, SampleKeeps, SampleOwned DEF MonitorInv
  <2>3. CASE Monitor!Done \/ UNCHANGED Monitor!vars
    <3>1. UNCHANGED Monitor!vars
      BY <2>3 DEF Monitor!Done
    <3>2. /\ UNCHANGED <<running, thread, abandoned, timestamps, system_cpu, cpu>>
          /\ UNCHANGED <<rss, num_threads, sent, at, tick, ticks, unread>>
      BY <3>1 DEF Monitor!vars, Monitor!control, Monitor!lists
    <3>3. MonitorTypes' /\ Owned'
      BY <2>1, <3>2 DEF MonitorInv, MonitorTypes, Owned, Monitor!Threads, ToNet
    <3>4. Entries'
      BY <2>1, <3>2 DEF MonitorInv, Entries, HoldsIn, Monitor!Threads, ToTime, ToSystem, ToCPU,
         ToMemory, ToThreads, ToNet
    <3>5. abandoned' = {} => Aligned'
      BY <2>1, <3>2 DEF MonitorInv, Aligned, AheadIn, Monitor!Threads, ToTime, ToSystem, ToCPU,
         ToMemory, ToThreads, ToNet
    <3>6. QED
      BY <3>3, <3>4, <3>5 DEF MonitorInv
  <2>4. QED
    BY <2>1, <2>2, <2>3, LookKeeps, StartKeeps, StopKeeps, JoinKeeps DEF Monitor!Next
<1>3. QED
  BY <1>1, <1>2, PTL DEF Monitor!Spec

\* TypeOK: the monitor's lists hold samples and nothing else.
THEOREM MonitorTypeCorrect ==
  ASSUME Monitor!MonitorAssumption
  PROVE  Monitor!Spec => []Monitor!TypeOK
<1>1. MonitorInv => Monitor!TypeOK
  <2>1. SUFFICES ASSUME MonitorTypes, Entries, NEW i \in DOMAIN Monitor!lists
                 PROVE  Monitor!lists[i] \in Seq(1..MaxSamples)
    BY DEF MonitorInv, MonitorTypes, Monitor!TypeOK
  <2>2. i \in 1..6
    BY <2>1 DEF Monitor!lists
  <2>3. QED
    BY <2>1, <2>2 DEF Entries, HoldsIn, Monitor!lists
<1>2. QED
  BY <1>1, MonitorAlways, PTL

\* OneSampler: however often the monitor is started and stopped, and whether its joins come
\* back in time or not, a thread at work is the one _thread names or one that outlasted a
\* join; beside the owner's own sample, and after stop has returned, only the latter.
THEOREM NeverTwoSamplers ==
  ASSUME Monitor!MonitorAssumption
  PROVE  Monitor!Spec => []Monitor!OneSampler
<1>1. MonitorInv => Monitor!OneSampler
  BY DEF MonitorInv, Owned, ToNet, Monitor!OneSampler, Monitor!AtWork, Monitor!Sampling
<1>2. QED
  BY <1>1, MonitorAlways, PTL

\* EverySampleOnce, SeriesAligned: every sample that is over has one entry in every list,
\* whichever threads sampled at once and whatever could not be read, and an entry more only
\* in the lists a raising read leaves so; and what get_stats and get_timeseries find after a
\* stop is aligned as long as no join was given up.
THEOREM SummaryIsAligned ==
  ASSUME Monitor!MonitorAssumption
  PROVE  Monitor!Spec => []Monitor!EverySampleOnce /\ []Monitor!SeriesAligned
<1>1. MonitorInv => Monitor!EverySampleOnce
  <2>1. SUFFICES ASSUME MonitorInv, NEW k \in 1..ticks,
                        \A t \in Monitor!Threads : at[t] \in ToNet => tick[t] # k
                 PROVE  /\ Monitor!Once(timestamps, k) /\ Monitor!Once(system_cpu, k)
                        /\ Monitor!Once(num_threads, k) /\ Monitor!Once(sent, k)
                        /\ IF k \in unread
                           THEN \E i \in DOMAIN cpu, j \in DOMAIN rss : cpu[i] = k /\ rss[j] = k
                           ELSE Monitor!Once(cpu, k) /\ Monitor!Once(rss, k)
    BY DEF Monitor!EverySampleOnce, Monitor!Sampling, ToNet
  <2>2. ASSUME NEW list, NEW before \in SUBSET ToNet, NEW twice,
               HoldsIn(list, before, twice, at, tick, ticks)
        PROVE  /\ \E i \in DOMAIN list : list[i] = k
               /\ k \notin twice => Monitor!Once(list, k)
    <3>1. \A t \in Monitor!Threads : at[t] \in before => tick[t] # k
      BY <2>1, <2>2
    <3>2. /\ \E i \in DOMAIN list : list[i] = k
          /\ k \notin twice => \A i, j \in DOMAIN list : list[i] = k /\ list[j] = k => i = j
      BY <2>1, <2>2, <3>1 DEF HoldsIn
    <3>3. QED
      BY <3>2 DEF Monitor!Once
  <2>3. /\ ToTime \subseteq ToNet /\ ToSystem \subseteq ToNet /\ ToCPU \subseteq ToNet
        /\ ToMemory \subseteq ToNet /\ ToThreads \subseteq ToNet /\ ToNet \subseteq ToNet
    BY DEF ToTime, ToSystem, ToCPU, ToMemory, ToThreads, ToNet
  <2>4. QED
    BY <2>1, <2>2, <2>3 DEF MonitorInv, Entries
<1>2. MonitorInv => Monitor!SeriesAligned
  <2>1. SUFFICES ASSUME MonitorInv, at[Owner] = "stopped", abandoned = {}
                 PROVE  /\ timestamps = system_cpu /\ timestamps = num_threads
                        /\ timestamps = sent
                        /\ unread = {} => timestamps = cpu /\ timestamps = rss
    BY DEF Monitor!SeriesAligned
  <2>2. Owned /\ Aligned
    BY <2>1 DEF MonitorInv
  <2>3. thread = None
    BY <2>1, <2>2 DEF Owned, ToNet
  <2>4. \A t \in Samplers : at[t] \notin ToNet
    BY <2>1, <2>2, <2>3 DEF Owned, Monitor!MonitorAssumption
  <2>5. \A t \in Monitor!Threads : at[t] \notin ToNet
    BY <2>1, <2>4 DEF Monitor!Threads, ToNet
  <2>6. QED
    BY <2>2, <2>5 DEF Aligned, AheadIn
<1>3. QED
  BY <1>1, <1>2, MonitorAlways, PTL
=============================================================================
