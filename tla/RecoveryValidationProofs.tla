----------------------- MODULE RecoveryValidationProofs -----------------------
(***************************************************************************)
(* Theorems about RecoveryValidation, for any number of messages, whether  *)
(* reads may time out or not.                                              *)
(*                                                                         *)
(* The inductive invariant rests on one observation: on a connection none  *)
(* of whose reads timed out the client and the server are in lock step,    *)
(* one request or one answer at a time (LockStep), and in a run in which   *)
(* no read of a message and no phase failed (Clean) the number of messages *)
(* done then determines everything the two sides count (Progress,          *)
(* RunSoFar).  What the server works off for a client that has given up is *)
(* covered by the invariants that do not ask for lock step (Books,         *)
(* Closing).                                                               *)
(***************************************************************************)
EXTENDS RecoveryValidation, CollectionLemmas

-----------------------------------------------------------------------------
(* The inductive invariant *)

\* The memory after the first n messages.
Upto(n) == IF Chained THEN [i \in 1..n |-> i] ELSE <<>>

Again(received) ==
  [s \in Seqs |-> IF received[s] > 1 THEN received[s] - 1 ELSE 0]

Total(counts) == FoldFunction(+, 0, counts)

\* The server's books balance, and its memory is that of the accepted numbers.
BooksOf(books) ==
  /\ books.accepted = 1..books.last_seq
  /\ books.last_mem = Upto(books.last_seq)
  /\ Total(books.received) = books.last_seq + books.rejected
  /\ books.duplicates = Total(Again(books.received))

Books == BooksOf(session)

\* A server close comes after the message number point, and is noted first.
Closing ==
  /\ session.armed \in {0, point}
  /\ session.triggered => session.armed = 0 /\ session.last_seq >= point
  /\ \A c \in Conns :
       /\ thread[c] = "trigger" => session.last_seq >= point
       /\ thread[c] = "send" /\ ClosesAfter(c) => session.last_seq >= point
       /\ client_open[c] /\ thread[c] \in {"shutdown", "done"}
            => session.triggered

\* No read failed, other than the one that waits for the server's close.
Clean == ~run.internal /\ run.timeouts = 0

InStep(c) == ~timed_out[c] \/ Clean

\* Where the client is.
Place ==
  /\ (client_open[1] <=> conn = 1) /\ (client_open[2] <=> step # "done")
  /\ step \in {"arm", "arming"} => conn = 1 /\ type = "server_close"
  /\ step = "close" => conn = 1
  /\ step \in {"final", "collect", "done"} => conn = 2
  /\ conn = 1 => seq <= point
  /\ conn = 2 /\ step \in {"send", "wait"} => seq > point
  /\ conn = 1 => ~timed_out[2]
  /\ conn = 1 /\ step # "close" => Clean /\ ~timed_out[1]
  /\ (\A c \in Conns : ~timed_out[c]) => Clean
  /\ conn = 2 /\ type = "server_close" /\ ~timed_out[1] => session.triggered

\* The client's memory is an earlier one of the server's.
View ==
  /\ last_seq <= session.last_seq
  /\ last_mem = Upto(last_seq)

\* A FINAL_STATE answer that says that all went well.
Snapshot(a) ==
  /\ a.total = MessageCount /\ a.unique = MessageCount /\ a.missing = 0
  /\ a.duplicates = 0 /\ a.rejected = 0
  /\ a.last_seq = MessageCount /\ a.last_mem = Upto(MessageCount)
  /\ a.triggered => session.triggered
  /\ type = "server_close" /\ ~timed_out[1] => a.triggered

Waiting == step \in {"hello", "arming", "wait", "collect"}

\* The request the client waits for an answer to, and what an answer says.
Asked ==
  IF step = "hello" THEN [type |-> "HELLO"]
  ELSE IF step = "arming" THEN [type |-> "ARM_SERVER_CLOSE"]
  ELSE IF step = "wait"
       THEN [type |-> "DATA", seq |-> seq, prev_mem |-> last_mem]
  ELSE [type |-> "FINAL_STATE"]

FitsHello(a) ==
  /\ a \in Ack
  /\ Clean => /\ a.resumed = (conn = 2)
              /\ a.last_seq = last_seq /\ a.last_mem = last_mem

FitsArm(a) ==
  /\ a \in [type : {"ARM_ACK"}, ok : BOOLEAN]
  /\ Clean => a.ok

FitsData(a) ==
  /\ a \in [type : {"DATA"}, ok : BOOLEAN, close : BOOLEAN]
  /\ a.ok => seq <= session.last_seq /\ (Chained => last_seq = seq - 1)
  /\ Clean => a.ok

FitsFinal(a) ==
  /\ a \in FinalState
  /\ Clean => Snapshot(a)

Fits(a) ==
  /\ step = "hello" => FitsHello(a)
  /\ step = "arming" => FitsArm(a)
  /\ step = "wait" => FitsData(a)
  /\ step = "collect" => FitsFinal(a)

AtWork(c) == thread[c] \in {"greet", "send"}

Idle(c) == inbox[c] = <<>> /\ outbox[c] = <<>> /\ ~AtWork(c)

Requested(c) == inbox[c] = <<Asked>> /\ outbox[c] = <<>> /\ ~AtWork(c)

Greeting(c) ==
  /\ inbox[c] = <<>> /\ outbox[c] = <<>>
  /\ thread[c] = "greet" /\ step = "hello" /\ (Clean => conn = 1)

Replying(c) ==
  /\ inbox[c] = <<>> /\ outbox[c] = <<>>
  /\ thread[c] = "send" /\ Fits(reply[c])

Delivered(c) ==
  /\ inbox[c] = <<>> /\ ~AtWork(c)
  /\ outbox[c] # <<>> /\ Tail(outbox[c]) = <<>> /\ Fits(Head(outbox[c]))

Pending(c) ==
  Requested(c) \/ Greeting(c) \/ Replying(c) \/ Delivered(c)

LockStepOn(c) ==
  InStep(c) => IF conn = c /\ Waiting THEN Pending(c) ELSE Idle(c)

LockStep == \A c \in Conns : LockStepOn(c)

\* The client has not got past these steps of its first connection.
Before(steps) == conn = 1 /\ step \in steps

Starting == Before({"connect", "hello"})
Preparing == Before({"connect", "hello", "arm", "arming"})

\* How far a clean run is.
Progress ==
  Clean =>
    /\ session.received = [s \in Seqs |-> IF s <= session.last_seq THEN 1 ELSE 0]
    /\ session.rejected = 0 /\ session.duplicates = 0
    /\ session.last_seq =
         IF step = "wait" /\ inbox[conn] = <<>> THEN seq ELSE last_seq
    /\ session.known \/ Starting
    /\ Starting => (session.known <=> (step = "hello" /\ inbox[1] = <<>>))
    /\ step \in {"send", "wait"} \/ Preparing => seq = last_seq + 1
    /\ Preparing => seq = 1
    /\ step \in {"final", "collect", "done"} => last_seq = MessageCount
    /\ ~Preparing /\ step \in {"connect", "hello", "close"} => last_seq = point

\* What the client has noted down in a clean run.
RunSoFar ==
  Clean =>
    /\ run.sent = IF step = "wait" THEN last_seq + 1 ELSE last_seq
    /\ run.accepted = [c \in Conns |-> IF conn = 1
                                       THEN IF c = 1 THEN last_seq ELSE 0
                                       ELSE IF c = 1 THEN point
                                                     ELSE last_seq - point]
    /\ run.rejected = 0
    /\ run.hello1 \/ Starting
    /\ type = "server_close" => run.armed \/ Preparing
    /\ conn = 2 => run.observed
    /\ conn = 2 /\ ~(type = "server_close" /\ step = "done") => run.triggered
    /\ conn = 2 /\ step \notin {"connect", "hello"} =>
         run.hello2 /\ run.resumed /\ run.resume_seq = point /\ run.resume_match
    /\ step = "done" =>
         /\ final \in FinalState /\ Snapshot(final)
         /\ type = "server_close" => run.triggered = final.triggered

IInv == /\ TypeOK /\ Books /\ Closing /\ Place /\ View
        /\ LockStep /\ Progress /\ RunSoFar

-----------------------------------------------------------------------------
(* Memories *)

LEMMA SeqsFacts ==
  /\ MessageCount \in Nat /\ MessageCount > 1
  /\ Seqs = 1..MessageCount /\ Seqs \subseteq Nat
  /\ IsFiniteSet(Seqs) /\ Cardinality(Seqs) = MessageCount
<1>1. /\ MessageCount \in Nat /\ MessageCount > 1
      /\ Seqs = 1..MessageCount /\ Seqs \subseteq Nat
  BY MessageCountAssumption DEF Seqs
<1>2. IsFiniteSet(1..MessageCount) /\ Cardinality(1..MessageCount) = MessageCount
  BY <1>1, FS_Interval
<1>3. QED
  BY <1>1, <1>2

LEMMA UptoType ==
  ASSUME NEW n \in {0} \union Seqs
  PROVE  Upto(n) \in Memory
<1>1. n \in 0..MessageCount
  BY SeqsFacts
<1>2. [i \in 1..n |-> i] \in Seq(Seqs)
  BY <1>1, SeqsFacts
<1>3. QED
  BY <1>2 DEF Upto, Memory

LEMMA UptoZero == Upto(0) = <<>>
<1>1. [i \in 1..0 |-> i] = <<>>
  OBVIOUS
<1>2. QED
  BY <1>1 DEF Upto

LEMMA UptoNext ==
  ASSUME NEW n \in Nat
  PROVE  Extended(Upto(n), n + 1) = Upto(n + 1)
<1>1. Append([i \in 1..n |-> i], n + 1) = [i \in 1..(n + 1) |-> i]
  OBVIOUS
<1>2. QED
  BY <1>1 DEF Extended, Upto

LEMMA UptoInjective ==
  ASSUME NEW m \in Nat, NEW n \in Nat, Chained, Upto(m) = Upto(n)
  PROVE  m = n
<1>1. Len([i \in 1..m |-> i]) = m /\ Len([i \in 1..n |-> i]) = n
  OBVIOUS
<1>2. QED
  BY <1>1 DEF Upto

LEMMA UptoPrefix ==
  ASSUME NEW m \in Nat, NEW n \in Nat, m <= n, Chained
  PROVE  Len(Upto(n)) = n /\ Len(Upto(m)) = m /\ SubSeq(Upto(n), 1, m) = Upto(m)
<1> DEFINE upto(k) == [i \in 1..k |-> i]
<1>1. upto(n) \in Seq(Nat) /\ Len(upto(n)) = n /\ Len(upto(m)) = m
  OBVIOUS
<1>2. SubSeq(upto(n), 1, m) = upto(m)
  OBVIOUS
<1>3. QED
  BY <1>1, <1>2 DEF Upto

-----------------------------------------------------------------------------
(* The session after a DATA packet *)

Data == [type : {"DATA"}, seq : Seqs, prev_mem : Memory]

LEMMA SessionFields ==
  ASSUME NEW books \in Session
  PROVE  /\ books.known \in BOOLEAN /\ books.triggered \in BOOLEAN
         /\ books.last_seq \in {0} \union Seqs /\ books.last_seq \in Nat
         /\ books.last_mem \in Memory
         /\ books.received \in [Seqs -> Nat]
         /\ books.accepted \in SUBSET Seqs
         /\ books.rejected \in Nat /\ books.duplicates \in Nat
         /\ books.armed \in {0} \union Seqs
<1>1. /\ books.known \in BOOLEAN /\ books.triggered \in BOOLEAN
      /\ books.last_seq \in {0} \union Seqs
      /\ books.last_mem \in Memory
      /\ books.received \in [Seqs -> Nat]
      /\ books.accepted \in SUBSET Seqs
      /\ books.rejected \in Nat /\ books.duplicates \in Nat
      /\ books.armed \in {0} \union Seqs
  BY DEF Session
<1>2. books.last_seq \in Nat
  BY <1>1, SeqsFacts
<1>3. QED
  BY <1>1, <1>2

LEMMA CountedFields ==
  ASSUME session \in Session, NEW packet \in Data,
         NEW new, new = Counted(packet)
  PROVE  /\ new.received = [session.received EXCEPT
                              ![packet.seq] = session.received[packet.seq] + 1]
         /\ new.duplicates = IF session.received[packet.seq] > 0
                             THEN session.duplicates + 1
                             ELSE session.duplicates
         /\ Verified(packet) =>
              /\ new.last_seq = packet.seq
              /\ new.last_mem = Extended(session.last_mem, packet.seq)
              /\ new.accepted = session.accepted \union {packet.seq}
              /\ new.rejected = session.rejected
         /\ ~Verified(packet) =>
              /\ new.last_seq = session.last_seq
              /\ new.last_mem = session.last_mem
              /\ new.accepted = session.accepted
              /\ new.rejected = session.rejected + 1
         /\ new.known = session.known
         /\ new.armed = session.armed
         /\ new.triggered = session.triggered
<1> HIDE DEF Verified, Extended
<1>1. QED
  BY DEF Session, Counted, Data

LEMMA CountedType ==
  ASSUME session \in Session, NEW packet \in Data,
         NEW new, new = Counted(packet)
  PROVE  new \in Session
<1>1. packet.seq \in Seqs
  BY DEF Data
<1>2. Extended(session.last_mem, packet.seq) \in Memory
  BY <1>1, SessionFields DEF Extended, Memory
<1>3. new = [known |-> new.known, last_seq |-> new.last_seq,
             last_mem |-> new.last_mem, received |-> new.received,
             accepted |-> new.accepted, rejected |-> new.rejected,
             duplicates |-> new.duplicates, armed |-> new.armed,
             triggered |-> new.triggered]
  <2> HIDE DEF Verified, Extended
  <2>1. QED
    BY DEF Session, Counted
<1>4. /\ new.known \in BOOLEAN /\ new.triggered \in BOOLEAN
      /\ new.armed \in {0} \union Seqs
  BY CountedFields, SessionFields
<1>5. new.received \in [Seqs -> Nat]
  <2>1. session.received \in [Seqs -> Nat]
    BY SessionFields
  <2>2. new.received = [session.received EXCEPT
                          ![packet.seq] = session.received[packet.seq] + 1]
    BY CountedFields
  <2>3. QED
    BY <1>1, <2>1, <2>2
<1>6. new.duplicates \in Nat
  <2>1. session.duplicates \in Nat
    BY SessionFields
  <2>2. \/ new.duplicates = session.duplicates + 1
        \/ new.duplicates = session.duplicates
    BY CountedFields
  <2>3. QED
    BY <2>1, <2>2
<1>7. /\ new.last_seq \in {0} \union Seqs /\ new.accepted \in SUBSET Seqs
      /\ new.last_mem \in Memory /\ new.rejected \in Nat
  <2>1. /\ session.last_seq \in {0} \union Seqs
        /\ session.accepted \in SUBSET Seqs
        /\ session.last_mem \in Memory /\ session.rejected \in Nat
    BY SessionFields
  <2>2. CASE Verified(packet)
    <3>1. /\ new.last_seq = packet.seq
          /\ new.last_mem = Extended(session.last_mem, packet.seq)
          /\ new.accepted = session.accepted \union {packet.seq}
          /\ new.rejected = session.rejected
      BY <2>2, CountedFields
    <3>2. QED
      BY <1>1, <1>2, <2>1, <3>1
  <2>3. CASE ~Verified(packet)
    <3>1. /\ new.last_seq = session.last_seq
          /\ new.last_mem = session.last_mem
          /\ new.accepted = session.accepted
          /\ new.rejected = session.rejected + 1
      BY <2>3, CountedFields
    <3>2. QED
      BY <2>1, <3>1
  <2>4. QED
    BY <2>2, <2>3
<1>8. QED
  BY <1>3, <1>4, <1>5, <1>6, <1>7 DEF Session

LEMMA TotalIsSum ==
  ASSUME NEW counts
  PROVE  Total(counts) = Sum(counts, DOMAIN counts)
BY FoldIsSum DEF Total

\* Counting a packet keeps the books balanced.
LEMMA CountedBooks ==
  ASSUME session \in Session, BooksOf(session), NEW packet \in Data,
         NEW new, new = Counted(packet)
  PROVE  BooksOf(new)
<1> DEFINE s == packet.seq
           old == session.received
<1>1. s \in Seqs /\ s \in Nat /\ IsFiniteSet(Seqs)
  BY SeqsFacts DEF Data
<1>2. /\ old \in [Seqs -> Nat] /\ session.last_seq \in Nat
      /\ session.rejected \in Nat
  BY SessionFields
<1>3. new.received = [old EXCEPT ![s] = old[s] + 1]
  BY CountedFields
<1> DEFINE total == Total(new.received)
<1>4. total = session.last_seq + session.rejected + 1
  <2>1. /\ new.received \in [Seqs -> Nat] /\ new.received[s] = old[s] + 1
        /\ \A x \in Seqs \ {s} : new.received[x] = old[x]
    BY <1>1, <1>2, <1>3
  <2>2. \A x \in Seqs : old[x] \in Nat
    BY <1>2
  <2>3. DOMAIN old = Seqs /\ DOMAIN new.received = Seqs
    BY <1>2, <2>1
  <2>4. Sum(new.received, Seqs) = Sum(old, Seqs) + 1
    BY <1>1, <2>1, <2>2, SumOneMore
  <2>5. Sum(old, Seqs) = session.last_seq + session.rejected
    BY <2>3, TotalIsSum DEF BooksOf
  <2>6. total = Sum(new.received, Seqs)
    BY <2>3, TotalIsSum
  <2> HIDE DEF total, old, s
  <2>7. QED
    BY <2>4, <2>5, <2>6
<1>5. new.duplicates = Total(Again(new.received))
  <2>1. /\ DOMAIN Again(old) = Seqs /\ DOMAIN Again(new.received) = Seqs
        /\ \A x \in Seqs : Again(old)[x] \in Nat
        /\ \A x \in Seqs \ {s} : Again(new.received)[x] = Again(old)[x]
    BY <1>1, <1>2, <1>3 DEF Again
  <2>2. session.duplicates = Sum(Again(old), Seqs)
    BY <2>1, TotalIsSum DEF BooksOf
  <2>3. Total(Again(new.received)) = Sum(Again(new.received), Seqs)
    BY <2>1, TotalIsSum
  <2>4. CASE old[s] > 0
    <3>1. Again(new.received)[s] = Again(old)[s] + 1
      BY <1>1, <1>2, <1>3, <2>4 DEF Again
    <3>2. Sum(Again(new.received), Seqs) = Sum(Again(old), Seqs) + 1
      BY <1>1, <2>1, <3>1, SumOneMore
    <3>3. new.duplicates = session.duplicates + 1
      BY <2>4, CountedFields
    <3>4. QED
      BY <2>2, <2>3, <3>2, <3>3
  <2>5. CASE ~(old[s] > 0)
    <3>1. Again(new.received)[s] = Again(old)[s]
      BY <1>1, <1>2, <1>3, <2>5 DEF Again
    <3>2. Sum(Again(new.received), Seqs) = Sum(Again(old), Seqs)
      BY <1>1, <2>1, <3>1, SumLocal
    <3>3. new.duplicates = session.duplicates
      BY <2>5, CountedFields
    <3>4. QED
      BY <2>2, <2>3, <3>2, <3>3
  <2>6. QED
    BY <2>4, <2>5
<1>6. CASE Verified(packet)
  <2>1. /\ new.last_seq = s /\ new.rejected = session.rejected
        /\ new.last_mem = Extended(session.last_mem, s)
        /\ new.accepted = session.accepted \union {s}
    BY <1>6, CountedFields
  <2>2. s = session.last_seq + 1
    BY <1>6 DEF Verified
  <2>3. new.last_mem = Upto(s)
    BY <1>2, <2>1, <2>2, UptoNext DEF BooksOf
  <2>4. new.accepted = 1..s
    <3>1. session.accepted = 1..session.last_seq
      BY DEF BooksOf
    <3>2. (1..session.last_seq) \union {session.last_seq + 1}
            = 1..(session.last_seq + 1)
      BY <1>2
    <3>3. QED
      BY <2>1, <2>2, <3>1, <3>2
  <2>5. total = s + session.rejected
    <3> HIDE DEF total, s
    <3>1. QED
      BY <1>2, <1>4, <2>2
  <2>6. QED
    BY <1>5, <2>1, <2>3, <2>4, <2>5 DEF BooksOf
<1>7. CASE ~Verified(packet)
  <2>1. /\ new.last_seq = session.last_seq
        /\ new.rejected = session.rejected + 1
        /\ new.last_mem = session.last_mem
        /\ new.accepted = session.accepted
    BY <1>7, CountedFields
  <2>2. total = new.last_seq + new.rejected
    <3> HIDE DEF total
    <3>1. QED
      BY <1>2, <1>4, <2>1
  <2>3. QED
    BY <1>5, <2>1, <2>2 DEF BooksOf
<1>8. QED
  BY <1>6, <1>7

-----------------------------------------------------------------------------
(* A step of a thread, as the client and the other thread see it *)

ClientSame ==
  /\ protocol' = protocol /\ point' = point /\ type' = type
  /\ step' = step /\ conn' = conn /\ seq' = seq
  /\ last_seq' = last_seq /\ last_mem' = last_mem
  /\ run' = run /\ final' = final
  /\ client_open' = client_open /\ timed_out' = timed_out

OtherSame(c) ==
  \A d \in Conns \ {c} :
    /\ thread'[d] = thread[d] /\ reply'[d] = reply[d]
    /\ inbox'[d] = inbox[d] /\ outbox'[d] = outbox[d]

Grows ==
  /\ session'.last_seq >= session.last_seq
  /\ session.triggered => session'.triggered

LEMMA TypeFacts ==
  ASSUME TypeOK
  PROVE  /\ session \in Session /\ session.last_seq \in Nat
         /\ \A c \in Conns : /\ inbox[c] \in Seq(Request)
                             /\ outbox[c] \in Seq(Replies)
                             /\ reply[c] \in Replies
         /\ last_seq \in {0} \union Seqs /\ last_seq \in Nat
         /\ seq \in Seqs /\ seq \in Nat /\ seq >= 1
         /\ point \in Seqs /\ point \in Nat /\ point >= 1
         /\ point < MessageCount /\ conn \in Conns
<1>1. session.last_seq \in Nat
  BY SessionFields DEF TypeOK
<1>2. point \in Seqs /\ point \in Nat /\ point >= 1 /\ point < MessageCount
  BY SeqsFacts DEF TypeOK
<1>3. last_seq \in Nat /\ seq \in Nat /\ seq >= 1
  BY SeqsFacts DEF TypeOK
<1>4. QED
  BY <1>1, <1>2, <1>3 DEF TypeOK

\* The request a thread has taken, if it was a DATA packet.
LEMMA PacketIsData ==
  ASSUME TypeOK, NEW c \in Conns, Read(c, "DATA")
  PROVE  Head(inbox[c]) \in Data
<1>1. inbox[c] \in Seq(Request) /\ inbox[c] # <<>>
  BY TypeFacts DEF Read
<1>2. Head(inbox[c]) \in Request
  BY <1>1
<1>3. Head(inbox[c]).type = "DATA"
  BY DEF Read
<1>4. QED
  BY <1>2, <1>3 DEF Request, Data

LEMMA DataGrows ==
  ASSUME session \in Session, NEW packet \in Data,
         NEW new, new = Counted(packet)
  PROVE  /\ new.last_seq >= session.last_seq
         /\ new.triggered = session.triggered /\ new.armed = session.armed
         /\ new.known = session.known
<1>1. session.last_seq \in Nat
  BY SessionFields
<1>2. CASE Verified(packet)
  <2>1. packet.seq = session.last_seq + 1
    BY <1>2 DEF Verified
  <2>2. new.last_seq = packet.seq
    BY <1>2, CountedFields
  <2>3. new.last_seq >= session.last_seq
    BY <1>1, <2>1, <2>2
  <2>4. QED
    BY <2>3, CountedFields
<1>3. CASE ~Verified(packet)
  <2>1. new.last_seq = session.last_seq
    BY <1>3, CountedFields
  <2>2. new.last_seq >= session.last_seq
    BY <1>1, <2>1
  <2>3. QED
    BY <2>2, CountedFields
<1>4. QED
  BY <1>2, <1>3

LEMMA ThreadStep ==
  ASSUME TypeOK, NEW c \in Conns, Thread(c)
  PROVE  ClientSame /\ OtherSame(c) /\ Grows
<1> USE DEF ClientSame, OtherSame, parameters, client, adapter
<1>1. session \in Session /\ session.last_seq \in Nat
  BY TypeFacts
<1>2. /\ thread \in [Conns -> {"reading", "greet", "send", "trigger",
                               "shutdown", "done"}]
      /\ reply \in [Conns -> Replies]
      /\ inbox \in [Conns -> Seq(Request)]
      /\ outbox \in [Conns -> Seq(Replies)]
  BY DEF TypeOK
<1>3. ASSUME session' = session
      PROVE  Grows
  BY <1>1, <1>3 DEF Grows
<1>4. CASE HandleHello(c)
  <2>1. ClientSame /\ OtherSame(c)
    BY <1>2, <1>4 DEF HandleHello, Read, Reply, Goto
  <2>2. \/ session' = session
        \/ session' = [session EXCEPT !.known = TRUE]
    BY <1>4 DEF HandleHello
  <2>3. ASSUME session' = [session EXCEPT !.known = TRUE]
        PROVE  session'.last_seq = session.last_seq
               /\ session'.triggered = session.triggered
    BY <1>1, <2>3 DEF Session
  <2>4. QED
    BY <1>1, <1>3, <2>1, <2>2, <2>3 DEF Grows
<1>5. CASE Greet(c)
  BY <1>2, <1>3, <1>5 DEF Greet, Reply, Goto
<1>6. CASE HandleArm(c)
  <2>1. ClientSame /\ OtherSame(c)
    BY <1>2, <1>6 DEF HandleArm, Read, Reply, Goto
  <2>2. \/ session' = session
        \/ session' = [session EXCEPT !.armed = point]
    BY <1>6 DEF HandleArm
  <2>3. ASSUME session' = [session EXCEPT !.armed = point]
        PROVE  session'.last_seq = session.last_seq
               /\ session'.triggered = session.triggered
    BY <1>1, <2>3 DEF Session
  <2>4. QED
    BY <1>1, <1>3, <2>1, <2>2, <2>3 DEF Grows
<1>7. CASE HandleData(c)
  <2>1. ClientSame /\ OtherSame(c)
    BY <1>2, <1>7 DEF HandleData, Read, Reply, Goto
  <2>2. PICK packet : packet = Head(inbox[c])
    OBVIOUS
  <2>3. packet \in Data
    BY <1>7, <2>2, PacketIsData DEF HandleData
  <2>4. session' = Counted(packet)
    BY <1>7, <2>2 DEF HandleData
  <2>5. PICK new : new = Counted(packet)
    OBVIOUS
  <2>6. QED
    BY <1>1, <2>1, <2>3, <2>4, <2>5, DataGrows DEF Grows
<1>8. CASE HandleFinalState(c)
  BY <1>2, <1>3, <1>8 DEF HandleFinalState, Read, Reply, Goto
<1>9. CASE Send(c)
  <2>1. PICK sent \in BOOLEAN :
          /\ outbox' = IF client_open[c]
                       THEN [outbox EXCEPT ![c] = Append(@, reply[c])]
                       ELSE outbox
          /\ Goto(c, AfterSending(c, sent))
    BY <1>9 DEF Send
  <2>2. QED
    BY <1>2, <1>3, <1>9, <2>1 DEF Send, Reply, Goto
<1>10. CASE Trigger(c)
  <2>1. ClientSame /\ OtherSame(c)
    BY <1>2, <1>10 DEF Trigger, Goto
  <2>2. session' = [session EXCEPT !.triggered = TRUE, !.armed = 0]
    BY <1>10 DEF Trigger
  <2>3. session'.last_seq = session.last_seq /\ session'.triggered
    BY <1>1, <2>2 DEF Session
  <2>4. QED
    BY <1>1, <2>1, <2>3 DEF Grows
<1>11. CASE Shutdown(c)
  BY <1>2, <1>3, <1>11 DEF Shutdown, Goto
<1>12. CASE EndOfInput(c)
  BY <1>2, <1>3, <1>12 DEF EndOfInput, Goto
<1>13. QED
  BY <1>4, <1>5, <1>6, <1>7, <1>8, <1>9, <1>10, <1>11, <1>12 DEF Thread

-----------------------------------------------------------------------------
(* Types after a step of a thread *)

ThreadTypes ==
  /\ session \in Session
  /\ thread \in [Conns -> {"reading", "greet", "send", "trigger",
                           "shutdown", "done"}]
  /\ reply \in [Conns -> Replies]
  /\ inbox \in [Conns -> Seq(Request)]
  /\ outbox \in [Conns -> Seq(Replies)]

LEMMA ReadTypes ==
  ASSUME TypeOK, NEW c \in Conns, NEW kind, Read(c, kind)
  PROVE  inbox' \in [Conns -> Seq(Request)] /\ outbox' = outbox
<1>1. inbox[c] \in Seq(Request) /\ inbox[c] # <<>>
  BY TypeFacts DEF Read
<1>2. Tail(inbox[c]) \in Seq(Request)
  BY <1>1
<1>3. QED
  BY <1>2 DEF Read, TypeOK

LEMMA FinalStateType ==
  ASSUME TypeOK, Books, NEW c \in Conns, HandleFinalState(c),
         NEW a, a = reply'[c]
  PROVE  /\ a \in FinalState
         /\ a.total = session.last_seq + session.rejected
         /\ a.unique = session.last_seq
         /\ a.missing = MessageCount - session.last_seq
         /\ a.duplicates = session.duplicates
         /\ a.rejected = session.rejected
         /\ a.last_seq = session.last_seq
         /\ a.last_mem = session.last_mem
         /\ a.triggered = session.triggered
<1>1. /\ session.known \in BOOLEAN /\ session.triggered \in BOOLEAN
      /\ session.last_seq \in {0} \union Seqs /\ session.last_seq \in Nat
      /\ session.last_mem \in Memory
      /\ session.rejected \in Nat /\ session.duplicates \in Nat
  BY TypeFacts, SessionFields
<1>2. Cardinality(session.accepted) = session.last_seq
  <2>1. session.accepted = 1..session.last_seq
    BY DEF Books, BooksOf
  <2>2. Cardinality(1..session.last_seq)
          = IF 1 > session.last_seq THEN 0 ELSE session.last_seq - 1 + 1
    <3>1. session.last_seq \in Int /\ 1 \in Int
      BY <1>1
    <3>2. QED
      BY <3>1, FS_Interval
  <2>3. QED
    BY <1>1, <2>1, <2>2
<1>3. /\ Cardinality(Seqs \ session.accepted) = MessageCount - session.last_seq
      /\ MessageCount - session.last_seq \in Nat
  <2>1. session.last_seq <= MessageCount
    BY <1>1, SeqsFacts
  <2>2. session.accepted = 1..session.last_seq
    BY DEF Books, BooksOf
  <2>3. Seqs \ session.accepted = (session.last_seq + 1)..MessageCount
    BY <1>1, <2>1, <2>2, SeqsFacts
  <2>4. Cardinality((session.last_seq + 1)..MessageCount)
          = MessageCount - session.last_seq
    <3>1. session.last_seq + 1 \in Int /\ MessageCount \in Int
      BY <1>1, SeqsFacts
    <3>2. Cardinality((session.last_seq + 1)..MessageCount)
            = IF session.last_seq + 1 > MessageCount THEN 0
              ELSE MessageCount - (session.last_seq + 1) + 1
      BY <3>1, FS_Interval
    <3>3. QED
      BY <1>1, <2>1, <3>2, SeqsFacts
  <2>5. MessageCount - session.last_seq \in Nat
    BY <1>1, <2>1, SeqsFacts
  <2>6. QED
    BY <2>3, <2>4, <2>5
<1>4. PICK total : total = Total(session.received)
  OBVIOUS
<1>5. total = session.last_seq + session.rejected
  BY <1>4 DEF Books, BooksOf
<1>6. a = [type       |-> "FINAL_STATE_ACK",
           total      |-> total,
           unique     |-> Cardinality(session.accepted),
           duplicates |-> session.duplicates,
           rejected   |-> session.rejected,
           missing    |-> Cardinality(Seqs \ session.accepted),
           triggered  |-> session.triggered,
           last_seq   |-> session.last_seq,
           last_mem   |-> session.last_mem]
  BY <1>4 DEF HandleFinalState, Reply, TypeOK, Total
<1>7. total \in Nat
  BY <1>1, <1>5
<1>8. a \in FinalState
  BY <1>1, <1>2, <1>3, <1>6, <1>7 DEF FinalState
<1>9. QED
  BY <1>2, <1>3, <1>5, <1>6, <1>8

LEMMA AckType ==
  ASSUME TypeOK, NEW resumed \in BOOLEAN
  PROVE  HelloAck(resumed) \in Ack
<1>1. session.last_seq \in {0} \union Seqs /\ session.last_mem \in Memory
  BY TypeFacts, SessionFields
<1>2. QED
  BY <1>1 DEF HelloAck, Ack

LEMMA SessionUpdates ==
  ASSUME TypeOK
  PROVE  /\ [session EXCEPT !.known = TRUE] \in Session
         /\ [session EXCEPT !.armed = point] \in Session
         /\ [session EXCEPT !.triggered = TRUE, !.armed = 0] \in Session
<1>1. session \in Session /\ point \in Seqs
  BY TypeFacts
<1>2. QED
  BY <1>1 DEF Session

LEMMA ThreadTypesStep ==
  ASSUME TypeOK, Books, NEW c \in Conns, Thread(c)
  PROVE  ThreadTypes'
<1>1. ThreadTypes
  BY DEF TypeOK, ThreadTypes
<1>2. ASSUME NEW place \in {"reading", "greet", "send", "trigger",
                            "shutdown", "done"},
             Goto(c, place)
      PROVE  thread' \in [Conns -> {"reading", "greet", "send", "trigger",
                                    "shutdown", "done"}]
  BY <1>1, <1>2 DEF ThreadTypes, Goto
<1>3. ASSUME NEW a \in Replies, Reply(c, a)
      PROVE  reply' \in [Conns -> Replies]
  BY <1>1, <1>3 DEF ThreadTypes, Reply
<1>4. CASE HandleHello(c)
  <2>1. HelloAck(TRUE) \in Replies
    BY AckType DEF Replies
  <2>2. inbox' \in [Conns -> Seq(Request)] /\ outbox' = outbox
    BY <1>4, ReadTypes DEF HandleHello
  <2>3. CASE session.known
    <3>1. /\ Reply(c, HelloAck(TRUE)) /\ Goto(c, "send")
          /\ session' = session
      BY <1>4, <2>3 DEF HandleHello
    <3>2. QED
      BY <1>1, <1>2, <1>3, <2>1, <2>2, <3>1 DEF ThreadTypes
  <2>4. CASE ~session.known
    <3>1. /\ session' = [session EXCEPT !.known = TRUE]
          /\ Goto(c, "greet") /\ reply' = reply
      BY <1>4, <2>4 DEF HandleHello
    <3>2. QED
      BY <1>1, <1>2, <2>2, <3>1, SessionUpdates DEF ThreadTypes
  <2>5. QED
    BY <2>3, <2>4
<1>5. CASE Greet(c)
  <2>1. HelloAck(FALSE) \in Replies
    BY AckType DEF Replies
  <2>2. QED
    BY <1>1, <1>2, <1>3, <1>5, <2>1 DEF ThreadTypes, Greet
<1>6. CASE HandleArm(c)
  <2>1. PICK ok : ok = (session.known /\ point > session.last_seq)
    OBVIOUS
  <2>2. ok \in BOOLEAN
    BY <2>1
  <2>3. [type |-> "ARM_ACK", ok |-> ok] \in Replies
    BY <2>2 DEF Replies, Verdict
  <2>4. /\ session' = IF ok THEN [session EXCEPT !.armed = point] ELSE session
        /\ Reply(c, [type |-> "ARM_ACK", ok |-> ok])
        /\ Goto(c, "send") /\ Read(c, "ARM_SERVER_CLOSE")
    BY <1>6, <2>1 DEF HandleArm
  <2>5. QED
    BY <1>1, <1>2, <1>3, <2>3, <2>4, ReadTypes, SessionUpdates DEF ThreadTypes
<1>7. CASE HandleData(c)
  <2>1. PICK packet : packet = Head(inbox[c])
    OBVIOUS
  <2>2. PICK a : a = [type |-> "DATA", ok |-> Verified(packet),
                      close |-> Verified(packet) /\ packet.seq = session.armed]
    OBVIOUS
  <2>3. /\ Read(c, "DATA") /\ session' = Counted(packet)
        /\ Reply(c, a) /\ Goto(c, "send")
    BY <1>7, <2>1, <2>2 DEF HandleData
  <2>4. a \in Replies
    <3>1. Verified(packet) \in BOOLEAN
      BY DEF Verified
    <3>2. (Verified(packet) /\ packet.seq = session.armed) \in BOOLEAN
      OBVIOUS
    <3>3. QED
      BY <2>2, <3>1, <3>2 DEF Replies, Verdict
  <2>5. session' \in Session
    <3>1. packet \in Data
      BY <2>1, <2>3, PacketIsData
    <3>2. PICK new : new = Counted(packet)
      OBVIOUS
    <3>3. new \in Session
      BY <1>1, <3>1, <3>2, CountedType DEF ThreadTypes
    <3>4. QED
      BY <2>3, <3>2, <3>3
  <2>6. QED
    BY <1>1, <1>2, <1>3, <2>3, <2>4, <2>5, ReadTypes DEF ThreadTypes
<1>8. CASE HandleFinalState(c)
  <2>1. PICK a : a = reply'[c]
    OBVIOUS
  <2>2. a \in Replies
    BY <1>8, <2>1, FinalStateType DEF Replies
  <2>3. reply' = [reply EXCEPT ![c] = a]
    BY <1>1, <1>8, <2>1 DEF HandleFinalState, Reply, ThreadTypes
  <2>4. Read(c, "FINAL_STATE") /\ Goto(c, "send") /\ session' = session
    BY <1>8 DEF HandleFinalState
  <2>5. QED
    BY <1>1, <1>2, <1>3, <2>2, <2>3, <2>4, ReadTypes DEF ThreadTypes, Reply
<1>9. CASE Send(c)
  <2>1. PICK sent \in BOOLEAN :
          /\ outbox' = IF client_open[c]
                       THEN [outbox EXCEPT ![c] = Append(@, reply[c])]
                       ELSE outbox
          /\ Goto(c, AfterSending(c, sent))
    BY <1>9 DEF Send
  <2>2. AfterSending(c, sent) \in {"reading", "trigger", "shutdown"}
    BY DEF AfterSending
  <2>3. outbox' \in [Conns -> Seq(Replies)]
    <3>1. Append(outbox[c], reply[c]) \in Seq(Replies)
      BY <1>1 DEF ThreadTypes
    <3>2. QED
      BY <1>1, <2>1, <3>1 DEF ThreadTypes
  <2>4. Nothing \in Replies
    BY DEF Replies
  <2>5. QED
    BY <1>1, <1>2, <1>3, <1>9, <2>1, <2>2, <2>3, <2>4 DEF ThreadTypes, Send
<1>10. CASE Trigger(c)
  BY <1>1, <1>2, <1>10, SessionUpdates DEF ThreadTypes, Trigger
<1>11. CASE Shutdown(c)
  BY <1>1, <1>2, <1>11 DEF ThreadTypes, Shutdown
<1>12. CASE EndOfInput(c)
  BY <1>1, <1>2, <1>12 DEF ThreadTypes, EndOfInput
<1>13. QED
  BY <1>4, <1>5, <1>6, <1>7, <1>8, <1>9, <1>10, <1>11, <1>12 DEF Thread

LEMMA TypesAfterThread ==
  ASSUME TypeOK, Books, NEW c \in Conns, Thread(c)
  PROVE  TypeOK'
<1>1. ClientSame
  BY ThreadStep
<1>2. ThreadTypes'
  BY ThreadTypesStep
<1>3. QED
  BY <1>1, <1>2 DEF TypeOK, ThreadTypes, ClientSame

-----------------------------------------------------------------------------
(* The server's books, and its close *)

LEMMA SessionEffects ==
  ASSUME TypeOK, NEW c \in Conns, Thread(c), ~HandleData(c),
         NEW new, new = session'
  PROVE  /\ new.accepted = session.accepted /\ new.last_seq = session.last_seq
         /\ new.last_mem = session.last_mem /\ new.received = session.received
         /\ new.rejected = session.rejected
         /\ new.duplicates = session.duplicates
<1>1. \/ session' = session
      \/ session' = [session EXCEPT !.known = TRUE]
      \/ session' = [session EXCEPT !.armed = point]
      \/ session' = [session EXCEPT !.triggered = TRUE, !.armed = 0]
  <2>1. CASE HandleHello(c)
    BY <2>1 DEF HandleHello
  <2>2. CASE HandleArm(c)
    BY <2>2 DEF HandleArm
  <2>3. CASE Trigger(c)
    BY <2>3 DEF Trigger
  <2>4. CASE Greet(c) \/ HandleFinalState(c) \/ Send(c) \/ Shutdown(c)
             \/ EndOfInput(c)
    BY <2>4 DEF Greet, HandleFinalState, Send, Shutdown, EndOfInput
  <2>5. QED
    BY <2>1, <2>2, <2>3, <2>4 DEF Thread
<1>2. session \in Session
  BY TypeFacts
<1>3. QED
  BY <1>1, <1>2 DEF Session

\* What a DATA packet does.
LEMMA DataEffects ==
  ASSUME TypeOK, NEW c \in Conns, HandleData(c),
         NEW packet, packet = Head(inbox[c]), NEW a, a = reply'[c]
  PROVE  /\ packet \in Data /\ session' = Counted(packet)
         /\ a = [type |-> "DATA", ok |-> Verified(packet),
                 close |-> Verified(packet) /\ packet.seq = session.armed]
         /\ thread'[c] = "send" /\ Read(c, "DATA")
<1>1. packet \in Data
  BY PacketIsData DEF HandleData
<1>2. QED
  BY <1>1 DEF HandleData, Reply, Goto, TypeOK

LEMMA BooksAfterThread ==
  ASSUME TypeOK, Books, NEW c \in Conns, Thread(c)
  PROVE  Books'
<1>1. PICK new : new = session'
  OBVIOUS
<1>2. BooksOf(new)
  <2>1. CASE HandleData(c)
    <3>1. PICK packet : packet = Head(inbox[c])
      OBVIOUS
    <3>2. packet \in Data /\ new = Counted(packet)
      BY <1>1, <2>1, <3>1, DataEffects
    <3>3. session \in Session /\ BooksOf(session)
      BY TypeFacts DEF Books
    <3>4. QED
      BY <3>2, <3>3, CountedBooks
  <2>2. CASE ~HandleData(c)
    <3>1. /\ new.accepted = session.accepted /\ new.last_seq = session.last_seq
          /\ new.last_mem = session.last_mem /\ new.received = session.received
          /\ new.rejected = session.rejected
          /\ new.duplicates = session.duplicates
      BY <1>1, <2>2, SessionEffects
    <3>2. QED
      BY <3>1 DEF Books, BooksOf
  <2>3. QED
    BY <2>1, <2>2
<1>3. ClientSame
  BY ThreadStep
<1>4. protocol' = protocol
  BY <1>3 DEF ClientSame
<1>5. /\ new.accepted = 1..new.last_seq
      /\ new.last_mem = Upto(new.last_seq)
      /\ Total(new.received) = new.last_seq + new.rejected
      /\ new.duplicates = Total(Again(new.received))
  BY <1>2 DEF BooksOf
<1>6. QED
  BY <1>1, <1>4, <1>5 DEF Books, BooksOf, Again, Upto, Chained

LEMMA ClosingKept ==
  ASSUME TypeOK, Books, Closing, NEW c \in Conns, Thread(c),
         session'.armed \in {0, point},
         session'.triggered => session'.armed = 0 /\ session'.last_seq >= point,
         thread'[c] = "trigger" => session'.last_seq >= point,
         thread'[c] = "send" /\ ClosesAfter(c)' => session'.last_seq >= point,
         client_open[c] /\ thread'[c] \in {"shutdown", "done"}
           => session'.triggered
  PROVE  Closing'
<1>1. ClientSame /\ OtherSame(c) /\ Grows
  BY ThreadStep
<1>2. session.last_seq \in Nat /\ session'.last_seq \in Nat /\ point \in Nat
  <2>1. PICK new : new = session'
    OBVIOUS
  <2>2. new \in Session
    BY <2>1, ThreadTypesStep DEF ThreadTypes
  <2>3. QED
    BY <2>1, <2>2, TypeFacts, SessionFields
<1>3. ASSUME NEW d \in Conns, d # c
      PROVE  /\ thread'[d] = "trigger" => session'.last_seq >= point
             /\ thread'[d] = "send" /\ ClosesAfter(d)'
                  => session'.last_seq >= point
             /\ client_open[d] /\ thread'[d] \in {"shutdown", "done"}
                  => session'.triggered
  <2>1. thread'[d] = thread[d] /\ reply'[d] = reply[d]
    BY <1>1, <1>3 DEF OtherSame
  <2>2. ClosesAfter(d)' <=> ClosesAfter(d)
    BY <2>1 DEF ClosesAfter
  <2>3. /\ thread[d] = "trigger" => session.last_seq >= point
        /\ thread[d] = "send" /\ ClosesAfter(d) => session.last_seq >= point
        /\ client_open[d] /\ thread[d] \in {"shutdown", "done"}
             => session.triggered
    BY DEF Closing
  <2>4. session.last_seq >= point => session'.last_seq >= point
    BY <1>1, <1>2 DEF Grows
  <2>5. session.triggered => session'.triggered
    BY <1>1 DEF Grows
  <2>6. QED
    BY <2>1, <2>2, <2>3, <2>4, <2>5
<1>4. point' = point /\ client_open' = client_open
  BY <1>1 DEF ClientSame
<1>5. QED
  BY <1>3, <1>4 DEF Closing

\* A step that leaves the thread outside the critical places.
LEMMA ClosingAtEase ==
  ASSUME TypeOK, Books, Closing, NEW c \in Conns, Thread(c),
         session' = session,
         thread'[c] \in {"reading", "greet"}
         \/ (thread'[c] = "send" /\ ~ClosesAfter(c)')
  PROVE  Closing'
<1>1. /\ session.armed \in {0, point}
      /\ session.triggered => session.armed = 0 /\ session.last_seq >= point
  BY DEF Closing
<1>2. QED
  BY <1>1, ClosingKept

LEMMA ClosingAfterThread ==
  ASSUME TypeOK, Books, Closing, NEW c \in Conns, Thread(c)
  PROVE  Closing'
<1>1. /\ thread \in [Conns -> {"reading", "greet", "send", "trigger",
                               "shutdown", "done"}]
      /\ reply \in [Conns -> Replies] /\ session \in Session
      /\ session.last_seq \in Nat /\ point \in Nat /\ point >= 1
  BY TypeFacts DEF TypeOK
<1>2. /\ session.armed \in {0, point}
      /\ session.triggered => session.armed = 0 /\ session.last_seq >= point
  BY DEF Closing
<1>3. ASSUME NEW place, Goto(c, place)
      PROVE  thread'[c] = place
  BY <1>1, <1>3 DEF Goto
<1>4. ASSUME NEW a, Reply(c, a), a.type # "DATA"
      PROVE  ~ClosesAfter(c)'
  BY <1>1, <1>4 DEF Reply, ClosesAfter
<1>5. CASE HandleHello(c)
  <2>1. CASE session.known
    <3>1. /\ Reply(c, HelloAck(TRUE)) /\ Goto(c, "send")
          /\ session' = session
      BY <1>5, <2>1 DEF HandleHello
    <3>2. PICK a : a = HelloAck(TRUE)
      OBVIOUS
    <3>3. a.type # "DATA"
      BY <3>2 DEF HelloAck
    <3>4. QED
      BY <1>3, <1>4, <3>1, <3>2, <3>3, ClosingAtEase
  <2>2. CASE ~session.known
    <3>1. session' = [session EXCEPT !.known = TRUE] /\ thread'[c] = "greet"
      BY <1>3, <1>5, <2>2 DEF HandleHello
    <3>2. /\ session'.armed = session.armed
          /\ session'.triggered = session.triggered
          /\ session'.last_seq = session.last_seq
      BY <1>1, <3>1 DEF Session
    <3>3. QED
      BY <1>2, <3>1, <3>2, ClosingKept
  <2>3. QED
    BY <2>1, <2>2
<1>6. CASE Greet(c)
  <2>1. /\ Reply(c, HelloAck(FALSE)) /\ Goto(c, "send")
        /\ session' = session
    BY <1>6 DEF Greet
  <2>2. PICK a : a = HelloAck(FALSE)
    OBVIOUS
  <2>3. a.type # "DATA"
    BY <2>2 DEF HelloAck
  <2>4. QED
    BY <1>3, <1>4, <2>1, <2>2, <2>3, ClosingAtEase
<1>7. CASE HandleArm(c)
  <2>1. PICK ok : ok = (session.known /\ point > session.last_seq)
    OBVIOUS
  <2>2. PICK a : a = [type |-> "ARM_ACK", ok |-> ok]
    OBVIOUS
  <2>3. /\ session' = IF ok THEN [session EXCEPT !.armed = point] ELSE session
        /\ Reply(c, a) /\ thread'[c] = "send"
    BY <1>3, <1>7, <2>1, <2>2 DEF HandleArm
  <2>4. ~ClosesAfter(c)'
    BY <1>4, <2>2, <2>3
  <2>5. CASE ok
    <3>1. session' = [session EXCEPT !.armed = point]
      BY <2>3, <2>5
    <3>2. /\ session'.armed = point
          /\ session'.triggered = session.triggered
          /\ session'.last_seq = session.last_seq
      BY <1>1, <3>1 DEF Session
    <3>3. ~session.triggered
      <4>1. point > session.last_seq
        BY <2>1, <2>5
      <4>2. QED
        BY <1>1, <1>2, <4>1
    <3>4. QED
      BY <2>3, <2>4, <3>2, <3>3, ClosingKept
  <2>6. CASE ~ok
    BY <2>3, <2>4, <2>6, ClosingAtEase
  <2>7. QED
    BY <2>5, <2>6
<1>8. CASE HandleData(c)
  <2>1. PICK packet : packet = Head(inbox[c])
    OBVIOUS
  <2>2. PICK a : a = reply'[c]
    OBVIOUS
  <2>3. /\ packet \in Data /\ session' = Counted(packet)
        /\ a = [type |-> "DATA", ok |-> Verified(packet),
                close |-> Verified(packet) /\ packet.seq = session.armed]
        /\ thread'[c] = "send"
    BY <1>8, <2>1, <2>2, DataEffects
  <2>4. PICK new : new = Counted(packet)
    OBVIOUS
  <2>5. /\ new.last_seq >= session.last_seq
        /\ new.triggered = session.triggered /\ new.armed = session.armed
        /\ new \in Session
    BY <1>1, <2>3, <2>4, DataGrows, CountedType
  <2>6. new.last_seq \in Nat
    BY <2>5, SessionFields
  <2>7. new.triggered => new.armed = 0 /\ new.last_seq >= point
    BY <1>1, <1>2, <2>5, <2>6
  <2>8. ASSUME a.close
        PROVE  new.last_seq >= point
    <3>1. Verified(packet) /\ packet.seq = session.armed
      BY <2>3, <2>8
    <3>2. new.last_seq = packet.seq
      BY <1>1, <2>3, <2>4, <3>1, CountedFields
    <3>3. packet.seq >= 1
      BY <2>3, SeqsFacts DEF Data
    <3>4. QED
      BY <1>1, <1>2, <3>1, <3>2, <3>3
  <2>9. ClosesAfter(c)' => a.close
    BY <2>2 DEF ClosesAfter
  <2>10. QED
    BY <1>2, <2>3, <2>4, <2>5, <2>7, <2>8, <2>9, ClosingKept
<1>9. CASE HandleFinalState(c)
  <2>1. PICK a : a = reply'[c]
    OBVIOUS
  <2>2. a.type # "DATA"
    BY <1>9, <2>1, FinalStateType DEF FinalState
  <2>3. ~ClosesAfter(c)'
    BY <2>1, <2>2 DEF ClosesAfter
  <2>4. thread'[c] = "send" /\ session' = session
    BY <1>3, <1>9 DEF HandleFinalState
  <2>5. QED
    BY <2>3, <2>4, ClosingAtEase
<1>10. CASE Send(c)
  <2>1. PICK sent \in BOOLEAN :
          (client_open[c] => sent) /\ Goto(c, AfterSending(c, sent))
    BY <1>10 DEF Send
  <2>2. thread[c] = "send" /\ session' = session
    BY <1>10 DEF Send
  <2>3. thread'[c] = AfterSending(c, sent)
    BY <1>3, <2>1
  <2>4. thread'[c] = "trigger" => session.last_seq >= point
    BY <2>2, <2>3 DEF AfterSending, Closing
  <2>5. ~(client_open[c] /\ thread'[c] \in {"shutdown", "done"})
    BY <2>1, <2>3 DEF AfterSending
  <2>6. thread'[c] # "send"
    BY <2>3 DEF AfterSending
  <2>7. QED
    BY <1>2, <2>2, <2>4, <2>5, <2>6, ClosingKept
<1>11. CASE Trigger(c)
  <2>1. session' = [session EXCEPT !.triggered = TRUE, !.armed = 0]
    BY <1>11 DEF Trigger
  <2>2. /\ session'.triggered /\ session'.armed = 0
        /\ session'.last_seq = session.last_seq
    BY <1>1, <2>1 DEF Session
  <2>3. thread'[c] = "shutdown" /\ session.last_seq >= point
    BY <1>3, <1>11 DEF Trigger, Closing
  <2>4. QED
    BY <2>2, <2>3, ClosingKept
<1>12. CASE Shutdown(c)
  <2>1. thread[c] = "shutdown" /\ thread'[c] = "done" /\ session' = session
    BY <1>3, <1>12 DEF Shutdown
  <2>2. client_open[c] => session.triggered
    BY <2>1 DEF Closing
  <2>3. QED
    BY <1>2, <2>1, <2>2, ClosingKept
<1>13. CASE EndOfInput(c)
  <2>1. thread'[c] = "done" /\ session' = session /\ ~client_open[c]
    BY <1>3, <1>13 DEF EndOfInput
  <2>2. QED
    BY <1>2, <2>1, ClosingKept
<1>14. QED
  BY <1>5, <1>6, <1>7, <1>8, <1>9, <1>10, <1>11, <1>12, <1>13 DEF Thread

\* What only depends on the client, and on how far the session is.
LEMMA ClientKept ==
  ASSUME TypeOK, NEW c \in Conns, Thread(c), Place, View, RunSoFar, Books
  PROVE  Place' /\ View' /\ RunSoFar'
<1>1. ClientSame /\ Grows
  BY ThreadStep
<1>2. \A n : (Upto(n))' = Upto(n)
  BY <1>1 DEF Upto, Chained, ClientSame
<1>3. Clean' <=> Clean
  BY <1>1 DEF Clean, ClientSame
<1>4. Place'
  BY <1>1, <1>3 DEF Place, ClientSame, Grows
<1>5. View'
  <2>1. PICK new : new = session'
    OBVIOUS
  <2>2. new \in Session
    BY <2>1, ThreadTypesStep DEF ThreadTypes
  <2>3. new.last_seq \in Nat /\ session.last_seq \in Nat /\ last_seq \in Nat
    BY <2>2, TypeFacts, SessionFields
  <2>4. last_seq <= session'.last_seq
    BY <1>1, <2>1, <2>3 DEF Grows, View
  <2>5. last_seq' = last_seq /\ last_mem' = last_mem
    BY <1>1 DEF ClientSame
  <2>6. QED
    BY <1>2, <2>4, <2>5 DEF View
<1>6. ASSUME NEW a, Snapshot(a)
      PROVE  Snapshot(a)'
  BY <1>1, <1>2, <1>6 DEF Snapshot, ClientSame, Grows
<1>7. RunSoFar'
  <2>1. SUFFICES ASSUME Clean PROVE RunSoFar'
    BY <1>3 DEF RunSoFar
  <2>2. Starting' = Starting /\ Preparing' = Preparing
    BY <1>1 DEF Starting, Preparing, Before, ClientSame
  <2>3. step = "done" => Snapshot(final)
    BY <2>1 DEF RunSoFar
  <2>4. step = "done" => Snapshot(final)'
    <3>1. PICK a : a = final
      OBVIOUS
    <3>2. step = "done" => Snapshot(a)'
      BY <1>6, <2>3, <3>1
    <3>3. final' = a
      BY <1>1, <3>1 DEF ClientSame
    <3>4. QED
      BY <3>2, <3>3 DEF Snapshot
  <2>5. QED
    BY <1>1, <2>1, <2>2, <2>4 DEF RunSoFar, ClientSame
<1>8. QED
  BY <1>4, <1>5, <1>7

-----------------------------------------------------------------------------
(* Lock step after a step of a thread *)

LEMMA Knowns ==
  ASSUME TypeOK, Books, NEW c \in Conns, Thread(c)
  PROVE  /\ session'.last_seq \in Nat /\ session.last_seq \in Nat
         /\ session'.last_seq >= session.last_seq
<1>1. PICK new : new = session'
  OBVIOUS
<1>2. new \in Session
  BY <1>1, ThreadTypesStep DEF ThreadTypes
<1>3. new.last_seq \in Nat /\ session.last_seq \in Nat
  BY <1>2, TypeFacts, SessionFields
<1>4. QED
  BY <1>1, <1>3, ThreadStep DEF Grows

\* An answer that fits keeps fitting while the other thread goes on.
LEMMA FitsKept ==
  ASSUME TypeOK, Books, NEW c \in Conns, Thread(c), NEW a, Fits(a)
  PROVE  Fits(a)'
<1>1. ClientSame /\ Grows
  BY ThreadStep
<1>2. Clean' <=> Clean
  BY <1>1 DEF Clean, ClientSame
<1>3. protocol' = protocol
  BY <1>1 DEF ClientSame
<1>4. FitsHello(a) => FitsHello(a)'
  BY <1>1, <1>2 DEF FitsHello, ClientSame
<1>5. FitsArm(a) => FitsArm(a)'
  BY <1>2 DEF FitsArm
<1>6. FitsData(a) => FitsData(a)'
  <2>1. seq \in Nat /\ last_seq \in Nat
    BY TypeFacts
  <2>2. seq <= session.last_seq => seq <= session'.last_seq
    BY <2>1, Knowns
  <2>3. QED
    BY <1>1, <1>2, <2>2 DEF FitsData, ClientSame, Chained
<1>7. FitsFinal(a) => FitsFinal(a)'
  <2>1. Snapshot(a) => Snapshot(a)'
    BY <1>1, <1>3 DEF Snapshot, Upto, Chained, ClientSame, Grows
  <2>2. QED
    BY <1>2, <2>1 DEF FitsFinal
<1>8. step' = step
  BY <1>1 DEF ClientSame
<1>9. QED
  BY <1>4, <1>5, <1>6, <1>7, <1>8 DEF Fits

LEMMA AskedKept ==
  ASSUME ClientSame
  PROVE  /\ Asked' = Asked /\ (Waiting' <=> Waiting) /\ conn' = conn
         /\ (Clean' <=> Clean) /\ \A c \in Conns : InStep(c)' <=> InStep(c)
<1>1. Clean' <=> Clean
  BY DEF Clean, ClientSame
<1>2. QED
  BY <1>1 DEF Asked, Waiting, InStep, ClientSame

LEMMA LockStepOther ==
  ASSUME TypeOK, Books, NEW c \in Conns, Thread(c),
         NEW d \in Conns, d # c, LockStepOn(d)
  PROVE  LockStepOn(d)'
<1>1. ClientSame /\ OtherSame(c)
  BY ThreadStep
<1>2. /\ thread'[d] = thread[d] /\ reply'[d] = reply[d]
      /\ inbox'[d] = inbox[d] /\ outbox'[d] = outbox[d]
  BY <1>1 DEF OtherSame
<1>3. /\ Asked' = Asked /\ (Waiting' <=> Waiting) /\ conn' = conn
      /\ (Clean' <=> Clean) /\ (InStep(d)' <=> InStep(d))
  BY <1>1, AskedKept
<1>4. AtWork(d)' <=> AtWork(d)
  BY <1>2 DEF AtWork
<1>5. Idle(d) => Idle(d)'
  BY <1>2, <1>4 DEF Idle
<1>6. Requested(d) => Requested(d)'
  BY <1>2, <1>3, <1>4 DEF Requested
<1>7. Greeting(d) => Greeting(d)'
  BY <1>1, <1>2, <1>3 DEF Greeting, ClientSame
<1>8. Replying(d) => Replying(d)'
  <2>1. PICK a : a = reply[d]
    OBVIOUS
  <2>2. Fits(a) => Fits(a)'
    BY FitsKept
  <2>3. reply'[d] = a
    BY <1>2, <2>1
  <2>4. Fits(a)' => Fits(reply[d])'
    BY <2>3 DEF Fits, FitsHello, FitsArm, FitsData, FitsFinal, Snapshot
  <2>5. QED
    BY <1>2, <2>1, <2>2, <2>4 DEF Replying
<1>9. Delivered(d) => Delivered(d)'
  <2>1. PICK a : a = Head(outbox[d])
    OBVIOUS
  <2>2. Fits(a) => Fits(a)'
    BY FitsKept
  <2>3. Head(outbox'[d]) = a
    BY <1>2, <2>1
  <2>4. Fits(a)' => Fits(Head(outbox[d]))'
    BY <2>3 DEF Fits, FitsHello, FitsArm, FitsData, FitsFinal, Snapshot
  <2>5. QED
    BY <1>2, <1>4, <2>1, <2>2, <2>4 DEF Delivered
<1>10. QED
  BY <1>3, <1>5, <1>6, <1>7, <1>8, <1>9 DEF LockStepOn, Pending

\* A request is taken in lock step: it is the one the client waits for.
LEMMA RequestRead ==
  ASSUME TypeOK, NEW c \in Conns, LockStepOn(c), InStep(c),
         NEW kind, Read(c, kind)
  PROVE  /\ conn = c /\ Waiting /\ inbox[c] = <<Asked>> /\ Asked.type = kind
         /\ Head(inbox[c]) = Asked
         /\ inbox'[c] = <<>> /\ outbox'[c] = <<>>
<1>1. thread[c] = "reading" /\ inbox[c] # <<>>
  BY DEF Read
<1>2. Requested(c) /\ conn = c /\ Waiting
  BY <1>1 DEF LockStepOn, Idle, Pending, Requested, Greeting, Replying, Delivered
<1>3. inbox[c] = <<Asked>> /\ outbox[c] = <<>>
  BY <1>2 DEF Requested
<1>4. inbox'[c] = Tail(inbox[c]) /\ outbox' = outbox /\ Head(inbox[c]).type = kind
  BY DEF Read, TypeOK
<1>5. Head(<<Asked>>) = Asked /\ Tail(<<Asked>>) = <<>>
  OBVIOUS
<1>6. QED
  BY <1>2, <1>3, <1>4, <1>5

LEMMA StepAsked ==
  ASSUME Waiting
  PROVE  /\ Asked.type = "HELLO" => step = "hello"
         /\ Asked.type = "ARM_SERVER_CLOSE" => step = "arming"
         /\ Asked.type = "DATA" => step = "wait"
         /\ Asked.type = "FINAL_STATE" => step = "collect"
BY DEF Asked, Waiting

\* Once its answer is ready, the thread's connection is in lock step again.
LEMMA ReplyReady ==
  ASSUME TypeOK, Books, NEW c \in Conns, Thread(c), conn = c, Waiting,
         inbox'[c] = <<>>, outbox'[c] = <<>>, thread'[c] = "send",
         NEW a, reply'[c] = a, Fits(a)'
  PROVE  LockStepOn(c)'
<1>1. ClientSame
  BY ThreadStep
<1>2. Waiting' /\ conn' = c
  BY <1>1, AskedKept
<1>3. Fits(reply[c])'
  BY DEF Fits, FitsHello, FitsArm, FitsData, FitsFinal, Snapshot
<1>4. QED
  BY <1>2, <1>3 DEF LockStepOn, Pending, Replying

\* What the server knows and the client knows agree when nothing is under way.
LEMMA CleanLevel ==
  ASSUME IInv, Clean, step # "wait"
  PROVE  session.last_seq = last_seq /\ session.last_mem = last_mem
<1>1. session.last_seq = last_seq
  BY DEF IInv, Progress
<1>2. session.last_mem = Upto(session.last_seq) /\ last_mem = Upto(last_seq)
  BY DEF IInv, Books, BooksOf, View
<1>3. QED
  BY <1>1, <1>2

LEMMA OwnHello ==
  ASSUME IInv, NEW c \in Conns, HandleHello(c), InStep(c)
  PROVE  LockStepOn(c)'
<1>1. TypeOK /\ Books /\ LockStepOn(c) /\ Place /\ Thread(c)
  BY DEF IInv, LockStep, Thread
<1>2. ClientSame
  BY <1>1, ThreadStep
<1>3. /\ Read(c, "HELLO")
      /\ conn = c /\ Waiting /\ step = "hello" /\ inbox[c] # <<>>
      /\ inbox'[c] = <<>> /\ outbox'[c] = <<>>
  BY <1>1, RequestRead, StepAsked DEF HandleHello, Read
<1>4. thread \in [Conns -> {"reading", "greet", "send", "trigger",
                            "shutdown", "done"}]
      /\ reply \in [Conns -> Replies]
  BY <1>1 DEF TypeOK
<1>5. Clean => (session.known <=> conn = 2)
  <2>1. conn = 1 \/ conn = 2
    BY <1>1 DEF TypeOK, Conns
  <2>2. Clean /\ conn = 1 => ~session.known
    BY <1>3 DEF IInv, Progress, Starting, Before
  <2>3. Clean /\ conn = 2 => session.known
    BY DEF IInv, Progress, Starting, Before
  <2>4. QED
    BY <2>1, <2>2, <2>3
<1>6. CASE session.known
  <2>1. PICK a : a = HelloAck(TRUE)
    OBVIOUS
  <2>2. reply'[c] = a /\ thread'[c] = "send" /\ session' = session
    BY <1>4, <1>6, <2>1 DEF HandleHello, Reply, Goto
  <2>3. a \in Ack
    BY <1>1, <2>1, AckType
  <2>4. a.resumed = TRUE /\ a.last_seq = session.last_seq
        /\ a.last_mem = session.last_mem
    BY <2>1 DEF HelloAck
  <2>5. FitsHello(a)
    <3>1. ASSUME Clean
          PROVE  a.resumed = (conn = 2) /\ a.last_seq = last_seq
                 /\ a.last_mem = last_mem
      BY <1>3, <1>5, <1>6, <2>4, <3>1, CleanLevel
    <3>2. QED
      BY <2>3, <3>1 DEF FitsHello
  <2>6. Fits(a)
    BY <1>3, <2>5 DEF Fits
  <2>7. Fits(a)'
    BY <1>1, <2>6, FitsKept
  <2>8. QED
    BY <1>1, <1>3, <2>2, <2>7, ReplyReady
<1>7. CASE ~session.known
  <2>1. thread'[c] = "greet"
    BY <1>4, <1>7 DEF HandleHello, Goto
  <2>2. Clean => conn = 1
    BY <1>1, <1>5, <1>7 DEF TypeOK, Conns
  <2>3. /\ conn' = conn /\ step' = step /\ (Waiting' <=> Waiting)
        /\ (Clean' <=> Clean)
    BY <1>2, AskedKept DEF ClientSame
  <2>4. QED
    BY <1>3, <2>1, <2>2, <2>3 DEF LockStepOn, Pending, Greeting
<1>8. QED
  BY <1>6, <1>7

LEMMA OwnGreet ==
  ASSUME IInv, NEW c \in Conns, Greet(c), InStep(c)
  PROVE  LockStepOn(c)'
<1>1. TypeOK /\ Books /\ LockStepOn(c) /\ Thread(c)
  BY DEF IInv, LockStep, Thread
<1>2. thread[c] = "greet"
  BY DEF Greet
<1>3. Greeting(c) /\ conn = c /\ Waiting
  BY <1>1, <1>2 DEF LockStepOn, Idle, Pending, Requested, Greeting, Replying,
                    Delivered, AtWork
<1>4. inbox[c] = <<>> /\ outbox[c] = <<>> /\ step = "hello" /\ (Clean => conn = 1)
  BY <1>3 DEF Greeting
<1>5. PICK a : a = HelloAck(FALSE)
  OBVIOUS
<1>6. /\ reply'[c] = a /\ thread'[c] = "send" /\ session' = session
      /\ inbox' = inbox /\ outbox' = outbox
  BY <1>1, <1>5 DEF Greet, Reply, Goto, TypeOK
<1>7. a \in Ack
  BY <1>1, <1>5, AckType
<1>8. a.resumed = FALSE /\ a.last_seq = session.last_seq
      /\ a.last_mem = session.last_mem
  BY <1>5 DEF HelloAck
<1>9. FitsHello(a)
  <2>1. ASSUME Clean
        PROVE  a.resumed = (conn = 2) /\ a.last_seq = last_seq
               /\ a.last_mem = last_mem
    <3>1. a.last_seq = last_seq /\ a.last_mem = last_mem
      BY <1>4, <1>8, <2>1, CleanLevel
    <3>2. conn = 1
      BY <1>4, <2>1
    <3>3. (conn = 2) = FALSE
      BY <3>2
    <3>4. QED
      BY <1>8, <3>1, <3>3
  <2>2. QED
    BY <1>7, <2>1 DEF FitsHello
<1>10. Fits(a)
  BY <1>4, <1>9 DEF Fits
<1>11. Fits(a)'
  BY <1>1, <1>10, FitsKept
<1>12. QED
  BY <1>1, <1>3, <1>4, <1>6, <1>11, ReplyReady

LEMMA OwnArm ==
  ASSUME IInv, NEW c \in Conns, HandleArm(c), InStep(c)
  PROVE  LockStepOn(c)'
<1>1. TypeOK /\ Books /\ LockStepOn(c) /\ Place /\ Progress /\ Thread(c)
  BY DEF IInv, LockStep, Thread
<1>2. /\ conn = c /\ Waiting /\ step = "arming"
      /\ inbox'[c] = <<>> /\ outbox'[c] = <<>>
  BY <1>1, RequestRead, StepAsked DEF HandleArm
<1>3. PICK ok : ok = (session.known /\ point > session.last_seq)
  OBVIOUS
<1>4. ok \in BOOLEAN
  BY <1>3
<1>5. PICK a : a = [type |-> "ARM_ACK", ok |-> ok]
  OBVIOUS
<1>6. reply'[c] = a /\ thread'[c] = "send"
  BY <1>1, <1>3, <1>5 DEF HandleArm, Reply, Goto, TypeOK
<1>7. ASSUME Clean
      PROVE  ok
  <2>1. conn = 1
    BY <1>1, <1>2 DEF Place
  <2>2. session.known
    BY <1>1, <1>2, <1>7 DEF Progress, Starting, Before
  <2>3. seq = 1 /\ seq = last_seq + 1
    BY <1>1, <1>2, <1>7, <2>1 DEF Progress, Preparing, Before
  <2>4. session.last_seq = last_seq /\ last_seq \in Nat /\ point >= 1
        /\ point \in Nat
    BY <1>1, <1>2, <1>7, CleanLevel, TypeFacts
  <2>5. point > session.last_seq
    BY <2>3, <2>4
  <2>6. QED
    BY <1>3, <2>2, <2>5
<1>8. FitsArm(a)
  BY <1>4, <1>5, <1>7 DEF FitsArm
<1>9. Fits(a)
  BY <1>2, <1>8 DEF Fits
<1>10. Fits(a)'
  BY <1>1, <1>9, FitsKept
<1>11. QED
  BY <1>1, <1>2, <1>6, <1>10, ReplyReady

\* A message of a connection in lock step.
LEMMA DataInStep ==
  ASSUME IInv, NEW c \in Conns, HandleData(c), InStep(c)
  PROVE  LET packet == [type |-> "DATA", seq |-> seq, prev_mem |-> last_mem]
         IN  /\ conn = c /\ Waiting /\ step = "wait"
             /\ inbox[c] # <<>> /\ inbox'[c] = <<>> /\ outbox'[c] = <<>>
             /\ Head(inbox[c]) = packet
             /\ Clean => Verified(packet)
             /\ Verified(packet) /\ Chained => last_seq = session.last_seq
<1> DEFINE packet == [type |-> "DATA", seq |-> seq, prev_mem |-> last_mem]
<1>1. TypeOK /\ Books /\ View /\ LockStepOn(c) /\ Progress /\ Read(c, "DATA")
  BY DEF IInv, LockStep, HandleData
<1>2. /\ conn = c /\ Waiting /\ step = "wait"
      /\ inbox'[c] = <<>> /\ outbox'[c] = <<>>
      /\ Head(inbox[c]) = Asked
  BY <1>1, RequestRead, StepAsked
<1>3. inbox[c] # <<>>
  BY <1>1 DEF Read
<1>4. Asked = packet
  BY <1>2 DEF Asked
<1>5. last_mem = Upto(last_seq) /\ session.last_mem = Upto(session.last_seq)
  BY <1>1 DEF View, Books, BooksOf
<1>6. last_seq \in Nat /\ session.last_seq \in Nat
  BY <1>1, TypeFacts
<1>7. ASSUME Clean
      PROVE  Verified(packet)
  <2>1. session.last_seq = last_seq /\ seq = last_seq + 1
    BY <1>1, <1>2, <1>3, <1>7 DEF Progress
  <2>2. QED
    BY <1>5, <2>1 DEF Verified
<1>8. ASSUME Verified(packet), Chained
      PROVE  last_seq = session.last_seq
  <2>1. Upto(last_seq) = Upto(session.last_seq)
    BY <1>5, <1>8 DEF Verified
  <2>2. QED
    BY <1>6, <1>8, <2>1, UptoInjective
<1>9. QED
  BY <1>2, <1>3, <1>4, <1>7, <1>8

LEMMA OwnData ==
  ASSUME IInv, NEW c \in Conns, HandleData(c), InStep(c)
  PROVE  LockStepOn(c)'
<1>1. TypeOK /\ Books /\ LockStepOn(c) /\ Thread(c)
  BY DEF IInv, LockStep, Thread
<1>2. PICK packet : packet = [type |-> "DATA", seq |-> seq, prev_mem |-> last_mem]
  OBVIOUS
<1>3. /\ conn = c /\ Waiting /\ step = "wait"
      /\ inbox'[c] = <<>> /\ outbox'[c] = <<>>
      /\ Head(inbox[c]) = packet
      /\ Clean => Verified(packet)
      /\ Verified(packet) /\ Chained => last_seq = session.last_seq
  BY <1>2, DataInStep
<1>4. PICK a : a = reply'[c]
  OBVIOUS
<1>5. PICK ok : ok = Verified(packet)
  OBVIOUS
<1>6. PICK close : close = (Verified(packet) /\ packet.seq = session.armed)
  OBVIOUS
<1>7. /\ packet \in Data /\ session' = Counted(packet)
      /\ a = [type |-> "DATA", ok |-> ok, close |-> close]
      /\ thread'[c] = "send"
  BY <1>1, <1>3, <1>4, <1>5, <1>6, DataEffects
<1>8. ok \in BOOLEAN /\ close \in BOOLEAN
  BY <1>5, <1>6 DEF Verified
<1>9. a \in [type : {"DATA"}, ok : BOOLEAN, close : BOOLEAN] /\ a.ok = ok
  BY <1>7, <1>8
<1>10. ASSUME ok
       PROVE  seq <= session'.last_seq /\ (Chained => last_seq = seq - 1)
  <2>1. Verified(packet)
    BY <1>5, <1>10
  <2>2. seq = session.last_seq + 1
    BY <1>2, <2>1 DEF Verified
  <2>3. PICK new : new = Counted(packet)
    OBVIOUS
  <2>4. new.last_seq = packet.seq
    BY <1>1, <1>7, <2>1, <2>3, CountedFields, TypeFacts
  <2>5. session'.last_seq = seq
    BY <1>2, <1>7, <2>3, <2>4
  <2>6. seq \in Nat /\ last_seq \in Nat /\ session.last_seq \in Nat
    BY <1>1, TypeFacts
  <2>7. Chained => last_seq = seq - 1
    BY <1>3, <2>1, <2>2, <2>6
  <2>8. QED
    BY <2>5, <2>6, <2>7
<1>11. ClientSame
  BY <1>1, ThreadStep
<1>12. Clean => ok
  BY <1>3, <1>5
<1>13. Clean' <=> Clean
  BY <1>11, AskedKept
<1>14. FitsData(a)'
  BY <1>9, <1>10, <1>11, <1>12, <1>13 DEF FitsData, ClientSame, Chained
<1>15. Fits(a)'
  BY <1>3, <1>11, <1>14 DEF Fits, ClientSame
<1>16. reply'[c] = a
  BY <1>4
<1>17. QED
  BY <1>1, <1>3, <1>7, <1>15, <1>16, ReplyReady

LEMMA OwnFinalState ==
  ASSUME IInv, NEW c \in Conns, HandleFinalState(c), InStep(c)
  PROVE  LockStepOn(c)'
<1>1. /\ TypeOK /\ Books /\ LockStepOn(c) /\ Place /\ Progress /\ Thread(c)
  BY DEF IInv, LockStep, Thread
<1>2. /\ conn = c /\ Waiting /\ step = "collect"
      /\ inbox'[c] = <<>> /\ outbox'[c] = <<>>
  BY <1>1, RequestRead, StepAsked DEF HandleFinalState
<1>3. PICK a : a = reply'[c]
  OBVIOUS
<1>4. /\ a \in FinalState
      /\ a.total = session.last_seq + session.rejected
      /\ a.unique = session.last_seq
      /\ a.missing = MessageCount - session.last_seq
      /\ a.duplicates = session.duplicates
      /\ a.rejected = session.rejected
      /\ a.last_seq = session.last_seq
      /\ a.last_mem = session.last_mem
      /\ a.triggered = session.triggered
  BY <1>1, <1>3, FinalStateType
<1>5. ASSUME Clean
      PROVE  Snapshot(a)
  <2>1. /\ last_seq = MessageCount /\ session.rejected = 0
        /\ session.duplicates = 0
    BY <1>1, <1>2, <1>5 DEF Progress
  <2>2. session.last_seq = MessageCount
    BY <1>2, <1>5, <2>1, CleanLevel
  <2>3. session.last_mem = Upto(MessageCount)
    BY <1>1, <2>2 DEF Books, BooksOf
  <2>4. type = "server_close" /\ ~timed_out[1] => session.triggered
    BY <1>1, <1>2 DEF Place
  <2>5. MessageCount + 0 = MessageCount /\ MessageCount - MessageCount = 0
    BY SeqsFacts
  <2>6. QED
    BY <1>4, <2>1, <2>2, <2>3, <2>4, <2>5 DEF Snapshot
<1>6. Fits(a)
  BY <1>2, <1>4, <1>5 DEF Fits, FitsFinal
<1>7. Fits(a)'
  BY <1>1, <1>6, FitsKept
<1>8. thread'[c] = "send" /\ reply'[c] = a
  BY <1>1, <1>3 DEF HandleFinalState, Goto, TypeOK
<1>9. QED
  BY <1>1, <1>2, <1>7, <1>8, ReplyReady

LEMMA OwnSend ==
  ASSUME IInv, NEW c \in Conns, Send(c), InStep(c)
  PROVE  LockStepOn(c)'
<1>1. TypeOK /\ Books /\ LockStepOn(c) /\ Place /\ Thread(c)
  BY DEF IInv, LockStep, Thread
<1>2. thread[c] = "send"
  BY DEF Send
<1>3. Replying(c) /\ conn = c /\ Waiting
  BY <1>1, <1>2 DEF LockStepOn, Idle, Pending, Requested, Greeting, Replying,
                    Delivered, AtWork
<1>4. inbox[c] = <<>> /\ outbox[c] = <<>> /\ Fits(reply[c])
  BY <1>3 DEF Replying
<1>5. client_open[c]
  <2>1. step # "done" /\ (conn = 1 \/ conn = 2)
    BY <1>1, <1>3 DEF Waiting, TypeOK, Conns
  <2>2. QED
    BY <1>1, <1>3, <2>1 DEF Place
<1>6. PICK a : a = reply[c]
  OBVIOUS
<1>7. PICK sent \in BOOLEAN :
        /\ outbox' = IF client_open[c]
                     THEN [outbox EXCEPT ![c] = Append(@, reply[c])]
                     ELSE outbox
        /\ Goto(c, AfterSending(c, sent))
  BY DEF Send
<1>8. outbox'[c] = Append(<<>>, a) /\ inbox' = inbox
  BY <1>1, <1>4, <1>5, <1>6, <1>7 DEF Send, TypeOK
<1>9. outbox'[c] # <<>> /\ Tail(outbox'[c]) = <<>> /\ Head(outbox'[c]) = a
  <2>1. Append(<<>>, a) = <<a>>
    OBVIOUS
  <2>2. Head(<<a>>) = a /\ Tail(<<a>>) = <<>> /\ <<a>> # <<>>
    OBVIOUS
  <2>3. QED
    BY <1>8, <2>1, <2>2
<1>10. thread'[c] \notin {"greet", "send"}
  BY <1>1, <1>7 DEF Goto, AfterSending, TypeOK
<1>11. Fits(a)'
  BY <1>1, <1>4, <1>6, FitsKept
<1>12. Fits(Head(outbox[c]))'
  BY <1>9, <1>11 DEF Fits, FitsHello, FitsArm, FitsData, FitsFinal, Snapshot
<1>13. Delivered(c)'
  BY <1>4, <1>8, <1>9, <1>10, <1>12 DEF Delivered, AtWork
<1>14. Waiting' /\ conn' = c
  BY <1>1, <1>3, ThreadStep, AskedKept
<1>15. QED
  BY <1>13, <1>14 DEF LockStepOn, Pending

\* A thread that closes its connection, or goes on reading.
LEMMA OwnClose ==
  ASSUME IInv, NEW c \in Conns, InStep(c),
         Trigger(c) \/ Shutdown(c) \/ EndOfInput(c)
  PROVE  LockStepOn(c)'
<1>1. TypeOK /\ Books /\ LockStepOn(c) /\ Thread(c)
  BY DEF IInv, LockStep, Thread
<1>2. /\ thread[c] \notin {"greet", "send"} /\ thread'[c] \notin {"greet", "send"}
      /\ inbox' = inbox /\ outbox' = outbox /\ reply' = reply
  BY <1>1 DEF Trigger, Shutdown, EndOfInput, Goto, TypeOK
<1>3. ClientSame
  BY <1>1, ThreadStep
<1>4. /\ Asked' = Asked /\ (Waiting' <=> Waiting) /\ conn' = conn
      /\ (InStep(c)' <=> InStep(c))
  BY <1>3, AskedKept
<1>5. Idle(c) => Idle(c)'
  BY <1>2 DEF Idle, AtWork
<1>6. Requested(c) => Requested(c)'
  BY <1>2, <1>4 DEF Requested, AtWork
<1>7. Delivered(c) => Delivered(c)'
  <2>1. PICK a : a = Head(outbox[c])
    OBVIOUS
  <2>2. Fits(a) => Fits(a)'
    BY <1>1, FitsKept
  <2>3. Head(outbox'[c]) = a
    BY <1>2, <2>1
  <2>4. Fits(a)' => Fits(Head(outbox[c]))'
    BY <2>3 DEF Fits, FitsHello, FitsArm, FitsData, FitsFinal, Snapshot
  <2>5. QED
    BY <1>2, <2>1, <2>2, <2>4 DEF Delivered, AtWork
<1>8. ~Greeting(c) /\ ~Replying(c)
  BY <1>2 DEF Greeting, Replying
<1>9. QED
  BY <1>1, <1>4, <1>5, <1>6, <1>7, <1>8 DEF LockStepOn, Pending

LEMMA LockStepAfterThread ==
  ASSUME IInv, NEW c \in Conns, Thread(c)
  PROVE  LockStep'
<1>1. TypeOK /\ Books /\ LockStep
  BY DEF IInv
<1>2. ASSUME NEW d \in Conns, d # c
      PROVE  LockStepOn(d)'
  BY <1>1, <1>2, LockStepOther DEF LockStep
<1>3. LockStepOn(c)'
  <2>1. CASE InStep(c)
    BY <2>1, OwnHello, OwnGreet, OwnArm, OwnData, OwnFinalState, OwnSend,
       OwnClose DEF Thread
  <2>2. CASE ~InStep(c)
    <3>1. ~InStep(c)'
      BY <1>1, <2>2, ThreadStep, AskedKept
    <3>2. QED
      BY <3>1 DEF LockStepOn
  <2>3. QED
    BY <2>1, <2>2
<1>4. QED
  BY <1>2, <1>3 DEF LockStep

-----------------------------------------------------------------------------
(* How far a clean run is, after a step of a thread *)

LEMMA KnownStays ==
  ASSUME TypeOK, NEW c \in Conns, Thread(c)
  PROVE  /\ HandleHello(c) => session'.known
         /\ ~HandleHello(c) => session'.known = session.known
<1>1. session \in Session
  BY TypeFacts
<1>2. ASSUME HandleHello(c)
      PROVE  session'.known
  <2>1. CASE session.known
    BY <1>2, <2>1 DEF HandleHello
  <2>2. CASE ~session.known
    <3>1. session' = [session EXCEPT !.known = TRUE]
      BY <1>2, <2>2 DEF HandleHello
    <3>2. QED
      BY <1>1, <3>1 DEF Session
  <2>3. QED
    BY <2>1, <2>2
<1>3. ASSUME ~HandleHello(c)
      PROVE  session'.known = session.known
  <2>1. CASE HandleArm(c)
    BY <1>1, <2>1 DEF HandleArm, Session
  <2>2. CASE HandleData(c)
    <3>1. PICK packet : packet = Head(inbox[c])
      OBVIOUS
    <3>2. PICK a : a = reply'[c]
      OBVIOUS
    <3>3. packet \in Data /\ session' = Counted(packet)
      BY <2>2, <3>1, <3>2, DataEffects
    <3>4. PICK new : new = Counted(packet)
      OBVIOUS
    <3>5. new.known = session.known
      BY <1>1, <3>3, <3>4, CountedFields
    <3>6. QED
      BY <3>3, <3>4, <3>5
  <2>3. CASE Trigger(c)
    BY <1>1, <2>3 DEF Trigger, Session
  <2>4. CASE Greet(c) \/ HandleFinalState(c) \/ Send(c) \/ Shutdown(c)
             \/ EndOfInput(c)
    BY <2>4 DEF Greet, HandleFinalState, Send, Shutdown, EndOfInput
  <2>5. QED
    BY <1>3, <2>1, <2>2, <2>3, <2>4 DEF Thread
<1>4. QED
  BY <1>2, <1>3

LEMMA ProgressOfData ==
  ASSUME IInv, NEW c \in Conns, HandleData(c), Clean
  PROVE  Progress'
<1>1. TypeOK /\ Books /\ Place /\ Progress /\ Thread(c) /\ InStep(c)
  BY DEF IInv, Thread, InStep
<1>2. PICK packet : packet = [type |-> "DATA", seq |-> seq, prev_mem |-> last_mem]
  OBVIOUS
<1>3. /\ conn = c /\ step = "wait"
      /\ inbox[c] # <<>> /\ inbox'[c] = <<>>
      /\ Head(inbox[c]) = packet /\ Verified(packet)
  BY <1>1, <1>2, DataInStep
<1>4. PICK new : new = Counted(packet)
  OBVIOUS
<1>5. PICK a : a = reply'[c]
  OBVIOUS
<1>6. packet \in Data /\ session' = new
  BY <1>1, <1>3, <1>4, <1>5, DataEffects
<1>7. /\ session.received = [s \in Seqs |-> IF s <= session.last_seq THEN 1 ELSE 0]
      /\ session.rejected = 0 /\ session.duplicates = 0
      /\ session.last_seq = last_seq /\ seq = last_seq + 1
      /\ session.known \/ Starting
  BY <1>1, <1>3 DEF Progress
<1>8. packet.seq = seq /\ seq \in Seqs /\ seq \in Nat /\ last_seq \in Nat
  BY <1>1, <1>2, TypeFacts
<1>9. session \in Session
  BY <1>1, TypeFacts
<1>10. session.received[seq] = 0
  BY <1>7, <1>8
<1>11. /\ new.received = [session.received EXCEPT ![seq] = session.received[seq] + 1]
       /\ new.duplicates = IF session.received[seq] > 0
                           THEN session.duplicates + 1
                           ELSE session.duplicates
       /\ new.last_seq = seq /\ new.rejected = session.rejected
       /\ new.known = session.known
  BY <1>3, <1>4, <1>6, <1>8, <1>9, CountedFields
<1>12. new.duplicates = 0
  BY <1>7, <1>10, <1>11
<1>13. new.received = [s \in Seqs |-> IF s <= seq THEN 1 ELSE 0]
  <2>1. \A s \in Seqs : s \in Nat
    BY SeqsFacts
  <2>2. new.received = [session.received EXCEPT ![seq] = 1]
    BY <1>10, <1>11
  <2>3. ASSUME NEW s \in Seqs
        PROVE  session.received[s] = IF s <= last_seq THEN 1 ELSE 0
    BY <1>7
  <2>4. ASSUME NEW s \in Seqs
        PROVE  new.received[s] = IF s <= seq THEN 1 ELSE 0
    <3>1. session.received \in [Seqs -> Nat]
      BY <1>9, SessionFields
    <3>2. CASE s = seq
      BY <1>8, <2>2, <3>1, <3>2
    <3>3. CASE s # seq
      <4>1. s <= seq <=> s <= last_seq
        <5>1. seq = last_seq + 1 /\ s \in Nat
          BY <1>7, <2>1
        <5>2. QED
          BY <1>8, <3>3, <5>1
      <4>2. new.received[s] = session.received[s]
        BY <2>2, <3>1, <3>3
      <4>3. QED
        BY <2>3, <4>1, <4>2
    <3>4. QED
      BY <3>2, <3>3
  <2>5. new.received \in [Seqs -> Nat]
    <3>1. session.received \in [Seqs -> Nat]
      BY <1>9, SessionFields
    <3>2. [session.received EXCEPT ![seq] = 1] \in [Seqs -> Nat]
      BY <1>8, <3>1
    <3>3. QED
      BY <2>2, <3>2
  <2>6. QED
    BY <2>4, <2>5
<1>14. ClientSame
  BY <1>1, ThreadStep
<1>15. Starting' = Starting /\ Preparing' = Preparing /\ ~Starting /\ ~Preparing
  BY <1>3, <1>14 DEF Starting, Preparing, Before, ClientSame
<1>16. session'.last_seq = seq
  BY <1>6, <1>11
<1>17. inbox'[conn'] = <<>>
  BY <1>3, <1>14 DEF ClientSame
<1>18. session'.known /\ session'.rejected = 0
  BY <1>6, <1>7, <1>11, <1>15
<1>19. step' = "wait" /\ seq' = seq /\ last_seq' = last_seq
  BY <1>3, <1>14 DEF ClientSame
<1>20. QED
  BY <1>6, <1>7, <1>12, <1>13, <1>15, <1>16, <1>17, <1>18, <1>19
     DEF Progress

LEMMA ProgressAfterThread ==
  ASSUME IInv, NEW c \in Conns, Thread(c)
  PROVE  Progress'
<1>1. TypeOK /\ Books /\ Progress /\ LockStepOn(c)
  BY DEF IInv, LockStep
<1>2. ClientSame
  BY <1>1, ThreadStep
<1>3. SUFFICES ASSUME Clean, ~HandleData(c) PROVE Progress'
  <2>1. ~Clean => Progress'
    BY <1>2, AskedKept DEF Progress
  <2>2. HandleData(c) /\ Clean => Progress'
    BY ProgressOfData
  <2>3. QED
    BY <2>1, <2>2
<1>4. Starting' = Starting /\ Preparing' = Preparing
  BY <1>2 DEF Starting, Preparing, Before, ClientSame
<1>5. InStep(c)
  BY <1>3 DEF InStep
<1>6. \/ inbox' = inbox
      \/ /\ inbox'[c] = <<>> /\ conn = c
         /\ step \notin {"wait", "connect"} /\ (step = "hello" => HandleHello(c))
  <2>1. CASE HandleHello(c)
    <3>1. Read(c, "HELLO")
      BY <2>1 DEF HandleHello
    <3>2. inbox'[c] = <<>> /\ conn = c /\ step = "hello"
      BY <1>1, <1>5, <3>1, RequestRead, StepAsked
    <3>3. QED
      BY <2>1, <3>2
  <2>2. CASE HandleArm(c)
    <3>1. Read(c, "ARM_SERVER_CLOSE")
      BY <2>2 DEF HandleArm
    <3>2. inbox'[c] = <<>> /\ conn = c /\ step = "arming"
      BY <1>1, <1>5, <3>1, RequestRead, StepAsked
    <3>3. QED
      BY <3>2
  <2>3. CASE HandleFinalState(c)
    <3>1. Read(c, "FINAL_STATE")
      BY <2>3 DEF HandleFinalState
    <3>2. inbox'[c] = <<>> /\ conn = c /\ step = "collect"
      BY <1>1, <1>5, <3>1, RequestRead, StepAsked
    <3>3. QED
      BY <3>2
  <2>4. CASE Greet(c) \/ Send(c) \/ Trigger(c) \/ Shutdown(c) \/ EndOfInput(c)
    BY <2>4 DEF Greet, Send, Trigger, Shutdown, EndOfInput
  <2>5. QED
    BY <1>3, <2>1, <2>4, <2>2, <2>3 DEF Thread
<1>7. PICK new : new = session'
  OBVIOUS
<1>8. /\ new.received = session.received /\ new.rejected = session.rejected
      /\ new.duplicates = session.duplicates
      /\ new.last_seq = session.last_seq
  BY <1>1, <1>3, <1>7, SessionEffects
<1>9. /\ session.received = [s \in Seqs |-> IF s <= session.last_seq THEN 1 ELSE 0]
      /\ session.rejected = 0 /\ session.duplicates = 0
      /\ session.last_seq =
           IF step = "wait" /\ inbox[conn] = <<>> THEN seq ELSE last_seq
      /\ session.known \/ Starting
      /\ Starting => (session.known <=> (step = "hello" /\ inbox[1] = <<>>))
  BY <1>1, <1>3 DEF Progress
<1>10. session'.last_seq =
         IF step = "wait" /\ inbox'[conn] = <<>> THEN seq ELSE last_seq
  <2>1. step = "wait" => inbox' = inbox
    BY <1>6
  <2>2. QED
    BY <1>7, <1>8, <1>9, <2>1
<1>11. session'.known \/ Starting
  BY <1>1, <1>9, KnownStays
<1>12. Starting => (session'.known <=> (step = "hello" /\ inbox'[1] = <<>>))
  <2>1. CASE HandleHello(c)
    <3>1. Read(c, "HELLO")
      BY <2>1 DEF HandleHello
    <3>2. inbox'[c] = <<>> /\ conn = c /\ step = "hello"
      BY <1>1, <1>5, <3>1, RequestRead, StepAsked
    <3>3. session'.known
      BY <1>1, <2>1, KnownStays
    <3>4. QED
      BY <3>2, <3>3 DEF Starting, Before
  <2>2. CASE ~HandleHello(c)
    <3>1. session'.known = session.known
      BY <1>1, <2>2, KnownStays
    <3>2. Starting => inbox' = inbox
      BY <1>6, <2>2 DEF Starting, Before
    <3>3. QED
      BY <1>9, <3>1, <3>2
  <2>3. QED
    BY <2>1, <2>2
<1>13. /\ step \in {"send", "wait"} \/ Preparing => seq = last_seq + 1
       /\ Preparing => seq = 1
       /\ step \in {"final", "collect", "done"} => last_seq = MessageCount
       /\ ~Preparing /\ step \in {"connect", "hello", "close"} => last_seq = point
  BY <1>1, <1>3 DEF Progress
<1>14. QED
  BY <1>2, <1>4, <1>7, <1>8, <1>9, <1>10, <1>11, <1>12, <1>13
     DEF Progress, ClientSame

\* A step of a thread preserves the whole invariant.
LEMMA ThreadPreserves ==
  ASSUME IInv, NEW c \in Conns, Thread(c)
  PROVE  IInv'
<1>1. TypeOK /\ Books /\ Closing /\ Place /\ View /\ RunSoFar
  BY DEF IInv
<1>2. TypeOK' /\ Books' /\ Closing'
  BY <1>1, TypesAfterThread, BooksAfterThread, ClosingAfterThread
<1>3. Place' /\ View' /\ RunSoFar'
  BY <1>1, ClientKept
<1>4. LockStep' /\ Progress'
  BY LockStepAfterThread, ProgressAfterThread
<1>5. QED
  BY <1>2, <1>3, <1>4 DEF IInv

-----------------------------------------------------------------------------
(* A step of the client *)

ServerSame ==
  /\ protocol' = protocol /\ point' = point /\ type' = type
  /\ session' = session /\ thread' = thread /\ reply' = reply

\* A connection is never opened again.
LEMMA ServerKept ==
  ASSUME Books, Closing, ServerSame,
         \A c \in Conns : client_open'[c] => client_open[c]
  PROVE  Books' /\ Closing'
<1>1. Books'
  BY DEF Books, BooksOf, Upto, Chained, ServerSame
<1>2. Closing'
  BY DEF Closing, ClosesAfter, ServerSame
<1>3. QED
  BY <1>1, <1>2

LEMMA UptoSame ==
  ASSUME ServerSame, NEW n
  PROVE  (Upto(n))' = Upto(n)
BY DEF ServerSame, Upto, Chained

\* Asking on a connection where nothing is under way.
LEMMA AskInStep ==
  ASSUME TypeOK, LockStep, ServerSame, ~Waiting, Waiting', Clean' => Clean,
         conn' = conn, timed_out' = timed_out, outbox' = outbox,
         NEW request, request = Asked',
         inbox' = [inbox EXCEPT ![conn] = Append(@, request)]
  PROVE  LockStep' /\ (InStep(conn) => inbox'[conn] # <<>>)
<1>1. inbox \in [Conns -> Seq(Request)] /\ conn \in Conns
  BY DEF TypeOK
<1>2. ASSUME NEW c \in Conns
      PROVE  InStep(c)' => Idle(c)
  <2>1. InStep(c)' => InStep(c)
    BY DEF InStep
  <2>2. InStep(c) => Idle(c)
    BY DEF LockStep, LockStepOn
  <2>3. QED
    BY <2>1, <2>2
<1>3. InStep(conn) => inbox[conn] = <<>>
  BY <1>1 DEF LockStep, LockStepOn, Idle
<1>4. Append(<<>>, request) = <<request>> /\ <<request>> # <<>>
  OBVIOUS
<1>5. InStep(conn) => inbox'[conn] = <<request>>
  BY <1>1, <1>3, <1>4
<1>6. \A c \in Conns : AtWork(c)' <=> AtWork(c)
  BY DEF AtWork, ServerSame
<1>7. ASSUME NEW c \in Conns
      PROVE  LockStepOn(c)'
  <2>1. CASE c = conn
    <3>1. InStep(c)' => InStep(c)
      BY DEF InStep
    <3>2. InStep(c)' => Requested(c)'
      BY <1>2, <1>5, <1>6, <2>1, <3>1 DEF Requested, Idle
    <3>3. QED
      BY <2>1, <3>2 DEF LockStepOn, Pending
  <2>2. CASE c # conn
    <3>1. inbox'[c] = inbox[c]
      BY <1>1, <2>2
    <3>2. InStep(c)' => Idle(c)'
      BY <1>2, <1>6, <3>1 DEF Idle
    <3>3. QED
      BY <2>2, <3>2 DEF LockStepOn
  <2>3. QED
    BY <2>1, <2>2
<1>8. QED
  BY <1>4, <1>5, <1>7 DEF LockStep

\* Taking the answer to what was asked.
LEMMA AnswerFits ==
  ASSUME TypeOK, LockStep, Receive, Waiting, NEW a, a = Answer
  PROVE  /\ Fits(a) /\ a \in Replies /\ inbox[conn] = <<>> /\ ~AtWork(conn)
         /\ Tail(outbox[conn]) = <<>>
<1>1. InStep(conn) /\ outbox[conn] # <<>> /\ conn \in Conns
  BY DEF Receive, InStep, TypeOK
<1>2. Delivered(conn)
  BY <1>1 DEF LockStep, LockStepOn, Pending, Requested, Greeting, Replying
<1>3. outbox[conn] \in Seq(Replies)
  BY <1>1, TypeFacts
<1>4. a \in Replies
  BY <1>1, <1>3 DEF Answer
<1>5. Head(outbox[conn]) = a
  BY DEF Answer
<1>6. Fits(a)
  BY <1>2, <1>5 DEF Delivered
<1>7. QED
  BY <1>2, <1>4, <1>6 DEF Delivered

LEMMA ReceiveInStep ==
  ASSUME TypeOK, LockStep, ServerSame, Receive, Waiting, ~Waiting',
         Clean' => Clean
  PROVE  LockStep'
<1>1. /\ inbox' = inbox /\ conn' = conn /\ timed_out' = timed_out
      /\ outbox' = [outbox EXCEPT ![conn] = Tail(@)]
  BY DEF Receive
<1>2. inbox[conn] = <<>> /\ ~AtWork(conn) /\ Tail(outbox[conn]) = <<>>
  <2>1. PICK a : a = Answer
    OBVIOUS
  <2>2. QED
    BY <2>1, AnswerFits
<1>3. outbox \in [Conns -> Seq(Replies)] /\ conn \in Conns
  BY DEF TypeOK
<1>4. ASSUME NEW c \in Conns
      PROVE  LockStepOn(c)'
  <2>1. InStep(c)' => InStep(c)
    BY <1>1 DEF InStep
  <2>2. AtWork(c)' <=> AtWork(c)
    BY DEF AtWork, ServerSame
  <2>3. InStep(c)' => Idle(c)'
    <3>1. CASE c = conn
      BY <1>1, <1>2, <1>3, <2>2, <3>1 DEF Idle
    <3>2. CASE c # conn
      <4>1. outbox'[c] = outbox[c]
        BY <1>1, <1>3, <3>2
      <4>2. InStep(c)' => Idle(c)
        BY <2>1, <3>2 DEF LockStep, LockStepOn
      <4>3. QED
        BY <1>1, <2>2, <4>1, <4>2 DEF Idle
    <3>3. QED
      BY <3>1, <3>2
  <2>4. QED
    BY <2>3 DEF LockStepOn
<1>5. QED
  BY <1>4 DEF LockStep

\* Going on without asking and without taking anything.
LEMMA QuietInStep ==
  ASSUME TypeOK, LockStep, ServerSame, ~Waiting, ~Waiting',
         Clean' => Clean, \A c \in Conns : timed_out[c] => timed_out'[c],
         inbox' = inbox, outbox' = outbox
  PROVE  LockStep'
<1>1. ASSUME NEW c \in Conns
      PROVE  LockStepOn(c)'
  <2>1. InStep(c)' => InStep(c)
    BY DEF InStep
  <2>2. AtWork(c)' <=> AtWork(c)
    BY DEF AtWork, ServerSame
  <2>3. InStep(c)' => Idle(c)
    BY <2>1 DEF LockStep, LockStepOn
  <2>4. QED
    BY <2>2, <2>3 DEF LockStepOn, Idle
<1>2. QED
  BY <1>1 DEF LockStep

LEMMA AskTypes ==
  ASSUME TypeOK, ServerSame, NEW request \in Request, Ask(request),
         step' \in {"hello", "arming", "wait", "collect"}, run' \in Run
  PROVE  TypeOK'
<1>1. inbox' \in [Conns -> Seq(Request)]
  <2>1. inbox[conn] \in Seq(Request)
    BY DEF TypeOK
  <2>2. Append(inbox[conn], request) \in Seq(Request)
    BY <2>1
  <2>3. QED
    BY <2>2 DEF TypeOK, Ask
<1>2. QED
  BY <1>1 DEF TypeOK, ServerSame, Ask, adapter

LEMMA ConnectPreserves ==
  ASSUME IInv, Connect
  PROVE  IInv'
<1>1. /\ TypeOK /\ Books /\ Closing /\ Place /\ View /\ LockStep
      /\ Progress /\ RunSoFar
  BY DEF IInv
<1>2. ServerSame
  BY DEF Connect, At, ServerSame, parameters, server
<1>3. PICK request : request = [type |-> "HELLO"]
  OBVIOUS
<1>4. /\ step = "connect" /\ step' = "hello" /\ run' = run
      /\ inbox' = [inbox EXCEPT ![conn] = Append(@, request)]
      /\ outbox' = outbox /\ conn' = conn /\ seq' = seq
      /\ last_seq' = last_seq /\ last_mem' = last_mem /\ final' = final
      /\ client_open' = client_open /\ timed_out' = timed_out
  BY <1>3 DEF Connect, At, Ask, adapter
<1>5. Clean' <=> Clean
  BY <1>4 DEF Clean
<1>6. TypeOK'
  <2>1. request \in Request
    BY <1>3 DEF Request
  <2>2. run' \in Run
    BY <1>1, <1>4 DEF TypeOK
  <2>3. Ask(request)
    BY <1>3 DEF Connect
  <2>4. QED
    BY <1>1, <1>2, <1>4, <2>1, <2>2, <2>3, AskTypes
<1>7. LockStep' /\ (InStep(conn) => inbox'[conn] # <<>>)
  <2>1. ~Waiting /\ Waiting' /\ request = Asked'
    BY <1>3, <1>4 DEF Waiting, Asked
  <2>2. QED
    BY <1>1, <1>2, <1>4, <1>5, <2>1, AskInStep
<1>8. Place'
  BY <1>1, <1>2, <1>4, <1>5 DEF Place, ServerSame
<1>9. View'
  BY <1>1, <1>2, <1>4, UptoSame DEF View, ServerSame
<1>10. Starting' = Starting /\ Preparing' = Preparing
  BY <1>4 DEF Starting, Preparing, Before
<1>11. Progress'
  <2>1. SUFFICES ASSUME Clean PROVE Progress'
    BY <1>5 DEF Progress
  <2>2. inbox'[conn] # <<>>
    BY <1>7, <2>1 DEF InStep
  <2>3. Starting => inbox'[1] # <<>>
    BY <2>2 DEF Starting, Before
  <2>4. QED
    BY <1>1, <1>2, <1>4, <1>10, <2>1, <2>3 DEF Progress, ServerSame
<1>12. RunSoFar'
  BY <1>1, <1>2, <1>4, <1>5, <1>10 DEF RunSoFar, ServerSame
<1>13. Books' /\ Closing'
  BY <1>1, <1>2, <1>4, ServerKept
<1>14. QED
  BY <1>6, <1>7, <1>8, <1>9, <1>11, <1>12, <1>13 DEF IInv

LEMMA ArmServerClosePreserves ==
  ASSUME IInv, ArmServerClose
  PROVE  IInv'
<1>1. /\ TypeOK /\ Books /\ Closing /\ Place /\ View /\ LockStep
      /\ Progress /\ RunSoFar
  BY DEF IInv
<1>2. ServerSame
  BY DEF ArmServerClose, At, ServerSame, parameters, server
<1>3. PICK request : request = [type |-> "ARM_SERVER_CLOSE"]
  OBVIOUS
<1>4. /\ step = "arm" /\ step' = "arming" /\ run' = run
      /\ inbox' = [inbox EXCEPT ![conn] = Append(@, request)]
      /\ outbox' = outbox /\ conn' = conn /\ seq' = seq
      /\ last_seq' = last_seq /\ last_mem' = last_mem /\ final' = final
      /\ client_open' = client_open /\ timed_out' = timed_out
  BY <1>3 DEF ArmServerClose, At, Ask, adapter
<1>5. Clean' <=> Clean
  BY <1>4 DEF Clean
<1>6. TypeOK'
  <2>1. request \in Request
    BY <1>3 DEF Request
  <2>2. run' \in Run
    BY <1>1, <1>4 DEF TypeOK
  <2>3. Ask(request)
    BY <1>3 DEF ArmServerClose
  <2>4. QED
    BY <1>1, <1>2, <1>4, <2>1, <2>2, <2>3, AskTypes
<1>7. LockStep'
  <2>1. ~Waiting /\ Waiting' /\ request = Asked'
    BY <1>3, <1>4 DEF Waiting, Asked
  <2>2. QED
    BY <1>1, <1>2, <1>4, <1>5, <2>1, AskInStep
<1>8. Place'
  BY <1>1, <1>2, <1>4, <1>5 DEF Place, ServerSame
<1>9. View'
  BY <1>1, <1>2, <1>4, UptoSame DEF View, ServerSame
<1>10. ~Starting /\ ~Starting' /\ Preparing' = Preparing
  BY <1>4 DEF Starting, Preparing, Before
<1>11. Progress'
  BY <1>1, <1>2, <1>4, <1>5, <1>10 DEF Progress, ServerSame
<1>12. RunSoFar'
  BY <1>1, <1>2, <1>4, <1>5, <1>10 DEF RunSoFar, ServerSame
<1>13. Books' /\ Closing'
  BY <1>1, <1>2, <1>4, ServerKept
<1>14. QED
  BY <1>6, <1>7, <1>8, <1>9, <1>11, <1>12, <1>13 DEF IInv

LEMMA RequestFinalStatePreserves ==
  ASSUME IInv, RequestFinalState
  PROVE  IInv'
<1>1. /\ TypeOK /\ Books /\ Closing /\ Place /\ View /\ LockStep
      /\ Progress /\ RunSoFar
  BY DEF IInv
<1>2. ServerSame
  BY DEF RequestFinalState, At, ServerSame, parameters, server
<1>3. PICK request : request = [type |-> "FINAL_STATE"]
  OBVIOUS
<1>4. /\ step = "final" /\ step' = "collect" /\ run' = run
      /\ inbox' = [inbox EXCEPT ![conn] = Append(@, request)]
      /\ outbox' = outbox /\ conn' = conn /\ seq' = seq
      /\ last_seq' = last_seq /\ last_mem' = last_mem /\ final' = final
      /\ client_open' = client_open /\ timed_out' = timed_out
  BY <1>3 DEF RequestFinalState, At, Ask, adapter
<1>5. Clean' <=> Clean
  BY <1>4 DEF Clean
<1>6. TypeOK'
  <2>1. request \in Request
    BY <1>3 DEF Request
  <2>2. run' \in Run
    BY <1>1, <1>4 DEF TypeOK
  <2>3. Ask(request)
    BY <1>3 DEF RequestFinalState
  <2>4. QED
    BY <1>1, <1>2, <1>4, <2>1, <2>2, <2>3, AskTypes
<1>7. LockStep'
  <2>1. ~Waiting /\ Waiting' /\ request = Asked'
    BY <1>3, <1>4 DEF Waiting, Asked
  <2>2. QED
    BY <1>1, <1>2, <1>4, <1>5, <2>1, AskInStep
<1>8. Place'
  BY <1>1, <1>2, <1>4, <1>5 DEF Place, ServerSame
<1>9. View'
  BY <1>1, <1>2, <1>4, UptoSame DEF View, ServerSame
<1>10. ~Starting /\ ~Starting' /\ ~Preparing /\ ~Preparing'
  BY <1>4 DEF Starting, Preparing, Before
<1>11. Progress'
  BY <1>1, <1>2, <1>4, <1>5, <1>10 DEF Progress, ServerSame
<1>12. RunSoFar'
  BY <1>1, <1>2, <1>4, <1>5, <1>10 DEF RunSoFar, ServerSame
<1>13. Books' /\ Closing'
  BY <1>1, <1>2, <1>4, ServerKept
<1>14. QED
  BY <1>6, <1>7, <1>8, <1>9, <1>11, <1>12, <1>13 DEF IInv

LEMMA SendDataPreserves ==
  ASSUME IInv, SendData
  PROVE  IInv'
<1>1. /\ TypeOK /\ Books /\ Closing /\ Place /\ View /\ LockStep
      /\ Progress /\ RunSoFar
  BY DEF IInv
<1>2. ServerSame
  BY DEF SendData, At, ServerSame, parameters, server
<1>3. PICK request :
        request = [type |-> "DATA", seq |-> seq, prev_mem |-> last_mem]
  OBVIOUS
<1>4. /\ step = "send" /\ step' = "wait"
      /\ run' = [run EXCEPT !.sent = @ + 1]
      /\ inbox' = [inbox EXCEPT ![conn] = Append(@, request)]
      /\ outbox' = outbox /\ conn' = conn /\ seq' = seq
      /\ last_seq' = last_seq /\ last_mem' = last_mem /\ final' = final
      /\ client_open' = client_open /\ timed_out' = timed_out
  BY <1>3 DEF SendData, At, Ask, adapter
<1>5. /\ run'.sent = run.sent + 1 /\ run'.hello1 = run.hello1
      /\ run'.hello2 = run.hello2 /\ run'.armed = run.armed
      /\ run'.triggered = run.triggered /\ run'.observed = run.observed
      /\ run'.resumed = run.resumed /\ run'.resume_seq = run.resume_seq
      /\ run'.resume_match = run.resume_match
      /\ run'.internal = run.internal /\ run'.timeouts = run.timeouts
      /\ run'.accepted = run.accepted /\ run'.rejected = run.rejected
      /\ run' \in Run
  <2>1. run \in Run /\ run.sent \in Nat
    BY <1>1 DEF TypeOK, Run
  <2>2. PICK count \in Nat : count = run.sent + 1
    BY <2>1
  <2>3. run' = [run EXCEPT !.sent = count]
    BY <1>4, <2>2
  <2>4. run' \in Run
    BY <2>1, <2>3 DEF Run
  <2>5. QED
    BY <2>1, <2>2, <2>3, <2>4 DEF Run
<1>6. Clean' <=> Clean
  BY <1>5 DEF Clean
<1>7. TypeOK'
  <2>1. request \in Request
    BY <1>1, <1>3 DEF Request, TypeOK
  <2>2. Ask(request)
    BY <1>3 DEF SendData
  <2>3. QED
    BY <1>1, <1>2, <1>4, <1>5, <2>1, <2>2, AskTypes
<1>8. LockStep' /\ (InStep(conn) => inbox'[conn] # <<>>)
  <2>1. ~Waiting /\ Waiting' /\ request = Asked'
    BY <1>3, <1>4 DEF Waiting, Asked
  <2>2. QED
    BY <1>1, <1>2, <1>4, <1>6, <2>1, AskInStep
<1>9. Place'
  BY <1>1, <1>2, <1>4, <1>6 DEF Place, ServerSame
<1>10. View'
  BY <1>1, <1>2, <1>4, UptoSame DEF View, ServerSame
<1>11. ~Starting /\ ~Starting' /\ ~Preparing /\ ~Preparing'
  BY <1>4 DEF Starting, Preparing, Before
<1>12. Progress'
  <2>1. SUFFICES ASSUME Clean PROVE Progress'
    BY <1>6 DEF Progress
  <2>2. inbox'[conn'] # <<>>
    BY <1>4, <1>8, <2>1 DEF InStep
  <2>3. QED
    BY <1>1, <1>2, <1>4, <1>11, <2>1, <2>2 DEF Progress, ServerSame
<1>13. RunSoFar'
  BY <1>1, <1>2, <1>4, <1>5, <1>6, <1>11 DEF RunSoFar, ServerSame
<1>14. Books' /\ Closing'
  BY <1>1, <1>2, <1>4, ServerKept
<1>15. QED
  BY <1>7, <1>8, <1>9, <1>10, <1>12, <1>13, <1>14 DEF IInv

-----------------------------------------------------------------------------
(* The client takes an answer *)

LEMMA ReceiveTypes ==
  ASSUME TypeOK, ServerSame, Receive, run' \in Run,
         step' \in {"arm", "send", "close", "final", "done"},
         seq' \in Seqs, last_seq' \in {0} \union Seqs, last_mem' \in Memory,
         final' \in FinalState \union {Nothing},
         client_open' \in [Conns -> BOOLEAN]
  PROVE  TypeOK'
<1>1. outbox' \in [Conns -> Seq(Replies)]
  <2>1. outbox[conn] \in Seq(Replies) /\ outbox[conn] # <<>>
    BY DEF TypeOK, Receive
  <2>2. Tail(outbox[conn]) \in Seq(Replies)
    BY <2>1
  <2>3. QED
    BY <2>2 DEF TypeOK, Receive
<1>2. QED
  BY <1>1 DEF TypeOK, ServerSame, Receive

LEMMA GreetedPreserves ==
  ASSUME IInv, Greeted
  PROVE  IInv'
<1>1. /\ TypeOK /\ Books /\ Closing /\ Place /\ View /\ LockStep
      /\ Progress /\ RunSoFar
  BY DEF IInv
<1>2. ServerSame
  BY DEF Greeted, At, ServerSame, parameters, server
<1>3. /\ step = "hello" /\ conn = 1 /\ Receive
      /\ run' = [run EXCEPT !.hello1 = TRUE]
      /\ step' = IF type = "server_close" THEN "arm" ELSE "send"
      /\ inbox' = inbox /\ conn' = conn /\ seq' = seq
      /\ last_seq' = last_seq /\ last_mem' = last_mem /\ final' = final
      /\ client_open' = client_open /\ timed_out' = timed_out
  BY DEF Greeted, At, Receive, adapter
<1>4. run \in Run
  BY <1>1 DEF TypeOK
<1>5. run' \in Run
  BY <1>3, <1>4 DEF Run
<1>6. /\ run'.sent = run.sent /\ run'.hello1 = TRUE
      /\ run'.hello2 = run.hello2 /\ run'.armed = run.armed
      /\ run'.triggered = run.triggered /\ run'.observed = run.observed
      /\ run'.resumed = run.resumed /\ run'.resume_seq = run.resume_seq
      /\ run'.resume_match = run.resume_match
      /\ run'.internal = run.internal /\ run'.timeouts = run.timeouts
      /\ run'.accepted = run.accepted /\ run'.rejected = run.rejected
  BY <1>3, <1>4 DEF Run
<1>7. Clean' <=> Clean
  BY <1>6 DEF Clean
<1>8. Waiting /\ ~Waiting'
  BY <1>3 DEF Waiting
<1>9. inbox[1] = <<>>
  <2>1. PICK a : a = Answer
    OBVIOUS
  <2>2. QED
    BY <1>1, <1>3, <1>8, <2>1, AnswerFits
<1>10. TypeOK'
  BY <1>1, <1>2, <1>3, <1>5, ReceiveTypes DEF TypeOK
<1>11. LockStep'
  BY <1>1, <1>2, <1>3, <1>7, <1>8, ReceiveInStep
<1>12. Place'
  BY <1>1, <1>2, <1>3, <1>7 DEF Place, ServerSame
<1>13. View'
  BY <1>1, <1>2, <1>3, UptoSame DEF View, ServerSame
<1>14. Starting /\ Preparing /\ ~Starting' /\ (Preparing' <=> step' = "arm")
  BY <1>3 DEF Starting, Preparing, Before
<1>15. Progress'
  BY <1>1, <1>2, <1>3, <1>7, <1>9, <1>14 DEF Progress, ServerSame
<1>16. RunSoFar'
  BY <1>1, <1>2, <1>3, <1>6, <1>7, <1>14 DEF RunSoFar, ServerSame
<1>17. Books' /\ Closing'
  BY <1>1, <1>2, <1>3, ServerKept
<1>18. QED
  BY <1>10, <1>11, <1>12, <1>13, <1>15, <1>16, <1>17 DEF IInv

\* The request to close is never refused: nothing was sent before it.
LEMMA ArmedPreserves ==
  ASSUME IInv, Armed
  PROVE  IInv'
<1>1. /\ TypeOK /\ Books /\ Closing /\ Place /\ View /\ LockStep
      /\ Progress /\ RunSoFar
  BY DEF IInv
<1>2. ServerSame
  BY DEF Armed, At, ServerSame, parameters, server
<1>3. PICK a : a = Answer
  OBVIOUS
<1>4. /\ step = "arming" /\ Receive
      /\ run' = [run EXCEPT !.armed = a.ok, !.internal = ~a.ok]
      /\ step' = IF a.ok THEN "send" ELSE "close"
      /\ inbox' = inbox /\ conn' = conn /\ seq' = seq
      /\ last_seq' = last_seq /\ last_mem' = last_mem /\ final' = final
      /\ client_open' = client_open /\ timed_out' = timed_out
  BY <1>3 DEF Armed, At, Receive, adapter
<1>5. conn = 1 /\ Clean /\ ~timed_out[1]
  BY <1>1, <1>4 DEF Place
<1>6. Waiting
  BY <1>4 DEF Waiting
<1>7. a.ok
  BY <1>1, <1>3, <1>4, <1>5, <1>6, AnswerFits DEF Fits, FitsArm
<1>8. a.ok = TRUE
  <2>1. a.ok \in BOOLEAN
    BY <1>1, <1>3, <1>4, <1>6, AnswerFits DEF Fits, FitsArm
  <2>2. QED
    BY <1>7, <2>1
<1>9. run \in Run
  BY <1>1 DEF TypeOK
<1>10. run' = [run EXCEPT !.armed = TRUE, !.internal = FALSE] /\ step' = "send"
  BY <1>4, <1>8
<1>11. run' \in Run
  BY <1>9, <1>10 DEF Run
<1>12. /\ run'.sent = run.sent /\ run'.hello1 = run.hello1
       /\ run'.hello2 = run.hello2 /\ run'.armed = TRUE
       /\ run'.triggered = run.triggered /\ run'.observed = run.observed
       /\ run'.resumed = run.resumed /\ run'.resume_seq = run.resume_seq
       /\ run'.resume_match = run.resume_match
       /\ run'.internal = FALSE /\ run'.timeouts = run.timeouts
       /\ run'.accepted = run.accepted /\ run'.rejected = run.rejected
  BY <1>9, <1>10 DEF Run
<1>13. Clean'
  BY <1>5, <1>12 DEF Clean
<1>14. ~Waiting'
  BY <1>10 DEF Waiting
<1>15. TypeOK'
  BY <1>1, <1>2, <1>4, <1>10, <1>11, ReceiveTypes DEF TypeOK
<1>16. LockStep'
  BY <1>1, <1>2, <1>4, <1>5, <1>6, <1>14, ReceiveInStep
<1>17. Place'
  BY <1>1, <1>2, <1>4, <1>5, <1>10, <1>13 DEF Place, ServerSame
<1>18. View'
  BY <1>1, <1>2, <1>4, UptoSame DEF View, ServerSame
<1>19. ~Starting /\ Preparing /\ ~Starting' /\ ~Preparing'
  BY <1>4, <1>5, <1>10 DEF Starting, Preparing, Before
<1>20. Progress'
  BY <1>1, <1>2, <1>4, <1>5, <1>10, <1>19 DEF Progress, ServerSame
<1>21. RunSoFar'
  BY <1>1, <1>2, <1>4, <1>5, <1>10, <1>12, <1>19 DEF RunSoFar, ServerSame
<1>22. Books' /\ Closing'
  BY <1>1, <1>2, <1>4, ServerKept
<1>23. QED
  BY <1>15, <1>16, <1>17, <1>18, <1>20, <1>21, <1>22 DEF IInv

LEMMA FinalStateReceivedPreserves ==
  ASSUME IInv, FinalStateReceived
  PROVE  IInv'
<1>1. /\ TypeOK /\ Books /\ Closing /\ Place /\ View /\ LockStep
      /\ Progress /\ RunSoFar
  BY DEF IInv
<1>2. ServerSame
  BY DEF FinalStateReceived, At, ServerSame, parameters, server
<1>3. PICK a : a = Answer
  OBVIOUS
<1>4. PICK triggered : triggered = IF type = "server_close"
                                   THEN a.triggered ELSE run.triggered
  OBVIOUS
<1>5. /\ step = "collect" /\ Receive /\ step' = "done" /\ final' = a
      /\ run' = [run EXCEPT !.triggered = triggered]
      /\ client_open' = [client_open EXCEPT ![2] = FALSE]
      /\ inbox' = inbox /\ conn' = conn /\ seq' = seq
      /\ last_seq' = last_seq /\ last_mem' = last_mem
      /\ timed_out' = timed_out
  BY <1>3, <1>4 DEF FinalStateReceived, At, Receive, adapter
<1>6. conn = 2
  BY <1>1, <1>5 DEF Place
<1>7. Waiting /\ ~Waiting'
  BY <1>5 DEF Waiting
<1>8. FitsFinal(a)
  BY <1>1, <1>3, <1>5, <1>7, AnswerFits DEF Fits
<1>9. a \in FinalState /\ a.triggered \in BOOLEAN
  BY <1>8 DEF FitsFinal, FinalState
<1>10. run \in Run /\ run.triggered \in BOOLEAN
  BY <1>1 DEF TypeOK, Run
<1>11. triggered \in BOOLEAN
  BY <1>4, <1>9, <1>10
<1>12. run' \in Run
  BY <1>5, <1>10, <1>11 DEF Run
<1>13. /\ run'.sent = run.sent /\ run'.hello1 = run.hello1
       /\ run'.hello2 = run.hello2 /\ run'.armed = run.armed
       /\ run'.triggered = triggered /\ run'.observed = run.observed
       /\ run'.resumed = run.resumed /\ run'.resume_seq = run.resume_seq
       /\ run'.resume_match = run.resume_match
       /\ run'.internal = run.internal /\ run'.timeouts = run.timeouts
       /\ run'.accepted = run.accepted /\ run'.rejected = run.rejected
  BY <1>5, <1>10 DEF Run
<1>14. Clean' <=> Clean
  BY <1>13 DEF Clean
<1>15. client_open \in [Conns -> BOOLEAN] /\ client_open' \in [Conns -> BOOLEAN]
  BY <1>1, <1>5 DEF TypeOK
<1>16. TypeOK'
  BY <1>1, <1>2, <1>5, <1>9, <1>12, <1>15, ReceiveTypes DEF TypeOK
<1>17. LockStep'
  BY <1>1, <1>2, <1>5, <1>7, <1>14, ReceiveInStep
<1>18. Place'
  <2>1. (client_open'[1] <=> client_open[1]) /\ ~client_open'[2]
    BY <1>5, <1>15 DEF Conns
  <2>2. QED
    BY <1>1, <1>2, <1>5, <1>6, <1>14, <2>1 DEF Place, ServerSame
<1>19. View'
  BY <1>1, <1>2, <1>5, UptoSame DEF View, ServerSame
<1>20. ~Starting /\ ~Preparing /\ ~Starting' /\ ~Preparing'
  BY <1>5 DEF Starting, Preparing, Before
<1>21. Progress'
  BY <1>1, <1>2, <1>5, <1>14, <1>20 DEF Progress, ServerSame
<1>22. RunSoFar'
  <2>1. SUFFICES ASSUME Clean PROVE RunSoFar'
    BY <1>14 DEF RunSoFar
  <2>2. Snapshot(a)
    BY <1>8, <2>1 DEF FitsFinal
  <2>3. protocol' = protocol
    BY <1>2 DEF ServerSame
  <2>4. Snapshot(a)'
    BY <1>2, <1>5, <2>2 DEF Snapshot, Upto, Chained, ServerSame
  <2>5. Snapshot(final)'
    BY <1>5, <2>4 DEF Snapshot
  <2>6. type = "server_close" => triggered = a.triggered
    BY <1>4
  <2>7. type # "server_close" => triggered = run.triggered
    BY <1>4
  <2>8. QED
    BY <1>1, <1>2, <1>5, <1>6, <1>9, <1>13, <1>20, <2>1, <2>5, <2>6, <2>7
       DEF RunSoFar, ServerSame
<1>23. Books' /\ Closing'
  <2>1. \A c \in Conns : client_open'[c] => client_open[c]
    BY <1>5, <1>15
  <2>2. QED
    BY <1>1, <1>2, <2>1, ServerKept
<1>24. QED
  BY <1>16, <1>17, <1>18, <1>19, <1>21, <1>22, <1>23 DEF IInv

\* How the loop over a connection's messages goes on.
LEMMA LoopGoesOn ==
  ASSUME TypeOK, Place, step = "wait"
  PROVE  /\ conn = 1 => LastOf(conn) = point /\ seq <= point
         /\ conn = 2 => LastOf(conn) = MessageCount /\ seq > point
         /\ seq <= LastOf(conn) /\ LastOf(conn) <= MessageCount
         /\ seq # LastOf(conn) => seq + 1 <= LastOf(conn) /\ seq + 1 \in Seqs
<1>1. /\ seq \in Nat /\ seq >= 1 /\ seq <= MessageCount
      /\ point \in Nat /\ point < MessageCount /\ MessageCount \in Nat
  BY TypeFacts, SeqsFacts
<1>2. conn = 1 \/ conn = 2
  BY DEF TypeOK, Conns
<1>3. conn = 1 => LastOf(conn) = point /\ seq <= point
  BY DEF LastOf, Place
<1>4. conn = 2 => LastOf(conn) = MessageCount /\ seq > point
  BY DEF LastOf, Place
<1>5. seq <= LastOf(conn) /\ LastOf(conn) <= MessageCount /\ LastOf(conn) \in Nat
  BY <1>1, <1>2, <1>3, <1>4
<1>6. ASSUME seq # LastOf(conn)
      PROVE  seq + 1 <= LastOf(conn) /\ seq + 1 \in Seqs
  BY <1>1, <1>5, <1>6 DEF Seqs
<1>7. QED
  BY <1>3, <1>4, <1>5, <1>6

\* The client's place after an answer to a message, whatever the answer.
AnsweredNext ==
  /\ step = "wait" /\ Receive
  /\ \/ /\ seq = LastOf(conn) /\ seq' = seq
        /\ step' = IF conn = 1 THEN "close" ELSE "final"
     \/ seq # LastOf(conn) /\ seq' = seq + 1 /\ step' = "send"
  /\ inbox' = inbox /\ conn' = conn /\ final' = final
  /\ client_open' = client_open /\ timed_out' = timed_out

LEMMA AnsweredPlace ==
  ASSUME IInv, ServerSame, AnsweredNext, run' \in Run, Clean' <=> Clean
  PROVE  /\ seq' \in Seqs /\ step' \in {"send", "close", "final"}
         /\ Place' /\ LockStep' /\ Books' /\ Closing'
<1>1. TypeOK /\ Books /\ Closing /\ Place /\ LockStep
  BY DEF IInv
<1>2. /\ conn = 1 => LastOf(conn) = point /\ seq <= point
      /\ conn = 2 => LastOf(conn) = MessageCount /\ seq > point
      /\ seq <= LastOf(conn) /\ LastOf(conn) <= MessageCount
      /\ seq # LastOf(conn) => seq + 1 <= LastOf(conn) /\ seq + 1 \in Seqs
  BY <1>1, LoopGoesOn DEF AnsweredNext
<1>3. seq \in Seqs /\ seq \in Nat /\ (conn = 1 \/ conn = 2) /\ point \in Nat
  BY <1>1, TypeFacts DEF TypeOK, Conns
<1>4. seq' \in Seqs /\ step' \in {"send", "close", "final"}
  BY <1>2, <1>3 DEF AnsweredNext
<1>5. conn = 1 => seq' <= point
  BY <1>2, <1>3 DEF AnsweredNext
<1>6. conn = 2 => seq' > point
  BY <1>2, <1>3 DEF AnsweredNext
<1>7. /\ step' = "close" => conn = 1
      /\ step' = "final" => conn = 2
  BY <1>3 DEF AnsweredNext
<1>8. Place'
  BY <1>1, <1>4, <1>5, <1>6, <1>7 DEF Place, AnsweredNext, ServerSame
<1>9. Waiting /\ ~Waiting'
  BY <1>4 DEF Waiting, AnsweredNext
<1>10. LockStep'
  BY <1>1, <1>9, ReceiveInStep DEF AnsweredNext
<1>11. Books' /\ Closing'
  BY <1>1, ServerKept DEF AnsweredNext
<1>12. QED
  BY <1>4, <1>8, <1>10, <1>11

LEMMA AcceptedPreserves ==
  ASSUME IInv, Answered, Answer.ok
  PROVE  IInv'
<1>1. /\ TypeOK /\ Books /\ Closing /\ Place /\ View /\ LockStep
      /\ Progress /\ RunSoFar
  BY DEF IInv
<1>2. ServerSame
  BY DEF Answered, At, ServerSame, parameters, server
<1>3. PICK a : a = Answer
  OBVIOUS
<1>4. /\ AnsweredNext
      /\ last_seq' = seq /\ last_mem' = Extended(last_mem, seq)
      /\ run' = [run EXCEPT !.accepted[conn] = @ + 1]
  BY DEF Answered, AnsweredNext, At, Receive
<1>5. step = "wait" /\ Receive /\ Waiting /\ conn' = conn /\ inbox' = inbox
  BY <1>4 DEF AnsweredNext, Waiting
<1>6. FitsData(a) /\ a.ok /\ inbox[conn] = <<>>
  BY <1>1, <1>3, <1>5, AnswerFits DEF Fits
<1>7. seq <= session.last_seq /\ (Chained => last_seq = seq - 1)
  BY <1>6 DEF FitsData
<1>8. /\ run \in Run /\ conn \in Conns
      /\ run.accepted \in [Conns -> Nat]
  BY <1>1 DEF TypeOK, Run
<1>9. PICK counts : counts = [run.accepted EXCEPT ![conn] = run.accepted[conn] + 1]
  OBVIOUS
<1>10. counts \in [Conns -> Nat]
  BY <1>8, <1>9
<1>11. run' = [run EXCEPT !.accepted = counts]
  BY <1>4, <1>8, <1>9 DEF Run
<1>12. run' \in Run
  BY <1>8, <1>10, <1>11 DEF Run
<1>13. /\ run'.sent = run.sent /\ run'.hello1 = run.hello1
       /\ run'.hello2 = run.hello2 /\ run'.armed = run.armed
       /\ run'.triggered = run.triggered /\ run'.observed = run.observed
       /\ run'.resumed = run.resumed /\ run'.resume_seq = run.resume_seq
       /\ run'.resume_match = run.resume_match
       /\ run'.internal = run.internal /\ run'.timeouts = run.timeouts
       /\ run'.accepted = counts /\ run'.rejected = run.rejected
  BY <1>8, <1>11 DEF Run
<1>14. Clean' <=> Clean
  BY <1>13 DEF Clean
<1>15. /\ seq' \in Seqs /\ step' \in {"send", "close", "final"}
       /\ Place' /\ LockStep' /\ Books' /\ Closing'
  BY <1>2, <1>4, <1>12, <1>14, AnsweredPlace
<1>16. seq \in Seqs /\ seq \in Nat /\ seq >= 1 /\ last_seq \in Nat
  BY <1>1, TypeFacts
<1>17. last_mem' = Upto(seq)
  <2>1. last_mem = Upto(last_seq)
    BY <1>1 DEF View
  <2>2. CASE Chained
    <3>1. seq = last_seq + 1
      BY <1>7, <1>16, <2>2
    <3>2. QED
      BY <1>4, <1>16, <2>1, <3>1, UptoNext
  <2>3. CASE ~Chained
    BY <1>4, <2>1, <2>3 DEF Extended, Upto
  <2>4. QED
    BY <2>2, <2>3
<1>18. TypeOK'
  <2>1. last_mem' \in Memory
    BY <1>16, <1>17, UptoType
  <2>2. QED
    BY <1>1, <1>2, <1>4, <1>5, <1>12, <1>15, <1>16, <2>1, ReceiveTypes
       DEF TypeOK, AnsweredNext
<1>19. View'
  BY <1>2, <1>4, <1>7, <1>17, UptoSame DEF View, ServerSame
<1>20. ~Starting /\ ~Preparing /\ ~Starting' /\ ~Preparing'
  BY <1>5, <1>15 DEF Starting, Preparing, Before
<1>21. /\ conn = 1 => LastOf(conn) = point
       /\ conn = 2 => LastOf(conn) = MessageCount
       /\ conn = 1 \/ conn = 2
  BY <1>1, <1>5, LoopGoesOn DEF TypeOK, Conns
<1>22. /\ step' = "send" => seq' = seq + 1
       /\ step' = "close" => conn = 1 /\ seq = point
       /\ step' = "final" => conn = 2 /\ seq = MessageCount
  BY <1>4, <1>21 DEF AnsweredNext
<1>23. Progress'
  <2>1. SUFFICES ASSUME Clean PROVE Progress'
    BY <1>14 DEF Progress
  <2>2. session.last_seq = seq
    BY <1>1, <1>5, <1>6, <2>1 DEF Progress
  <2>3. QED
    BY <1>1, <1>2, <1>4, <1>15, <1>20, <1>22, <2>1, <2>2
       DEF Progress, ServerSame
<1>24. RunSoFar'
  <2>1. SUFFICES ASSUME Clean PROVE RunSoFar'
    BY <1>14 DEF RunSoFar
  <2>2. seq = last_seq + 1
    BY <1>1, <1>5, <2>1 DEF Progress
  <2>3. run.accepted = [c \in Conns |-> IF conn = 1
                                        THEN IF c = 1 THEN last_seq ELSE 0
                                        ELSE IF c = 1 THEN point
                                                      ELSE last_seq - point]
    BY <1>1, <2>1 DEF RunSoFar
  <2>4. point \in Nat
    BY <1>1, TypeFacts
  <2>5. counts = [c \in Conns |-> IF conn = 1
                                  THEN IF c = 1 THEN seq ELSE 0
                                  ELSE IF c = 1 THEN point ELSE seq - point]
    <3>1. ASSUME NEW c \in Conns
          PROVE  counts[c] = IF conn = 1
                             THEN IF c = 1 THEN seq ELSE 0
                             ELSE IF c = 1 THEN point ELSE seq - point
      <4>1. c = 1 \/ c = 2
        BY DEF Conns
      <4>2. CASE c = conn
        <5>1. counts[c] = run.accepted[c] + 1
          BY <1>8, <1>9, <4>2
        <5>2. run.accepted[c] = IF conn = 1 THEN last_seq ELSE last_seq - point
          BY <1>21, <2>3, <4>2
        <5>3. QED
          BY <1>16, <1>21, <2>2, <2>4, <4>2, <5>1, <5>2
      <4>3. CASE c # conn
        <5>1. counts[c] = run.accepted[c]
          BY <1>8, <1>9, <4>3
        <5>2. run.accepted[c] = IF conn = 1 THEN 0 ELSE point
          BY <1>21, <2>3, <4>1, <4>3
        <5>3. QED
          BY <1>21, <4>1, <4>3, <5>1, <5>2
      <4>4. QED
        BY <4>2, <4>3
    <3>2. QED
      BY <1>10, <3>1
  <2>6. /\ run.sent = last_seq + 1 /\ run.rejected = 0 /\ run.hello1
        /\ type = "server_close" => run.armed
        /\ conn = 2 => /\ run.observed /\ run.triggered
                       /\ run.hello2 /\ run.resumed
                       /\ run.resume_seq = point /\ run.resume_match
    BY <1>1, <1>5, <1>20, <2>1 DEF RunSoFar
  <2>7. run'.sent = last_seq'
    BY <1>4, <1>13, <2>2, <2>6
  <2>8. step' # "wait" /\ step' # "done"
    BY <1>15
  <2>9. type' = type /\ point' = point
    BY <1>2 DEF ServerSame
  <2>10. QED
    BY <1>4, <1>5, <1>13, <2>5, <2>6, <2>7, <2>8, <2>9 DEF RunSoFar
<1>25. QED
  BY <1>15, <1>18, <1>19, <1>23, <1>24 DEF IInv

LEMMA RejectedPreserves ==
  ASSUME IInv, Answered, ~Answer.ok
  PROVE  IInv'
<1>1. /\ TypeOK /\ Books /\ Closing /\ Place /\ View /\ LockStep
      /\ Progress /\ RunSoFar
  BY DEF IInv
<1>2. ServerSame
  BY DEF Answered, At, ServerSame, parameters, server
<1>3. PICK a : a = Answer
  OBVIOUS
<1>4. /\ AnsweredNext
      /\ last_seq' = last_seq /\ last_mem' = last_mem
      /\ run' = [run EXCEPT !.rejected = @ + 1]
  BY DEF Answered, AnsweredNext, At, Receive, adapter
<1>5. step = "wait" /\ Receive /\ Waiting
  BY <1>4 DEF AnsweredNext, Waiting
<1>6. ~Clean
  BY <1>1, <1>3, <1>5, AnswerFits DEF Fits, FitsData
<1>7. run \in Run /\ run.rejected \in Nat
  BY <1>1 DEF TypeOK, Run
<1>8. PICK count \in Nat : count = run.rejected + 1
  BY <1>7
<1>9. run' = [run EXCEPT !.rejected = count]
  BY <1>4, <1>8
<1>10. run' \in Run
  BY <1>7, <1>9 DEF Run
<1>11. run'.internal = run.internal /\ run'.timeouts = run.timeouts
  BY <1>7, <1>9 DEF Run
<1>12. ~Clean'
  BY <1>6, <1>11 DEF Clean
<1>13. /\ seq' \in Seqs /\ step' \in {"send", "close", "final"}
       /\ Place' /\ LockStep' /\ Books' /\ Closing'
  BY <1>2, <1>4, <1>6, <1>10, <1>12, AnsweredPlace
<1>14. TypeOK'
  BY <1>1, <1>2, <1>4, <1>5, <1>10, <1>13, ReceiveTypes
     DEF TypeOK, AnsweredNext
<1>15. View'
  BY <1>1, <1>2, <1>4, UptoSame DEF View, ServerSame
<1>16. Progress' /\ RunSoFar'
  BY <1>12 DEF Progress, RunSoFar
<1>17. QED
  BY <1>13, <1>14, <1>15, <1>16 DEF IInv

LEMMA ResumedPreserves ==
  ASSUME IInv, Resumed
  PROVE  IInv'
<1>1. /\ TypeOK /\ Books /\ Closing /\ Place /\ View /\ LockStep
      /\ Progress /\ RunSoFar
  BY DEF IInv
<1>2. ServerSame
  BY DEF Resumed, At, ServerSame, parameters, server
<1>3. PICK a : a = Answer
  OBVIOUS
<1>4. PICK match : match = (/\ a.last_seq = point /\ last_seq = point
                            /\ Chained => a.last_mem = last_mem)
  OBVIOUS
<1>5. PICK internal : internal = (run.internal \/ ~run.hello1)
  OBVIOUS
<1>6. match \in BOOLEAN /\ internal \in BOOLEAN
  BY <1>4, <1>5
<1>7. /\ step = "hello" /\ conn = 2 /\ Receive
      /\ run' = [run EXCEPT !.hello2 = TRUE, !.resumed = a.resumed,
                            !.resume_seq = a.last_seq,
                            !.resume_match = match, !.internal = internal]
      /\ \/ /\ run.hello1 /\ step' = "send" /\ seq' = point + 1
            /\ client_open' = client_open
         \/ /\ ~run.hello1 /\ step' = "done" /\ seq' = seq
            /\ client_open' = [client_open EXCEPT ![2] = FALSE]
      /\ inbox' = inbox /\ conn' = conn /\ final' = final
      /\ last_seq' = last_seq /\ last_mem' = last_mem
      /\ timed_out' = timed_out
  BY <1>3, <1>4, <1>5 DEF Resumed, At, Receive, adapter
<1>8. Waiting /\ ~Waiting'
  BY <1>7 DEF Waiting
<1>9. FitsHello(a)
  BY <1>1, <1>3, <1>7, <1>8, AnswerFits DEF Fits
<1>10. a \in Ack
  BY <1>9 DEF FitsHello
<1>11. /\ a.resumed \in BOOLEAN /\ a.last_seq \in {0} \union Seqs
       /\ a.last_mem \in Memory
  BY <1>10 DEF Ack
<1>12. run \in Run
  BY <1>1 DEF TypeOK
<1>13. run' \in Run
  BY <1>6, <1>7, <1>11, <1>12 DEF Run
<1>14. /\ run'.sent = run.sent /\ run'.hello1 = run.hello1
       /\ run'.hello2 = TRUE /\ run'.armed = run.armed
       /\ run'.triggered = run.triggered /\ run'.observed = run.observed
       /\ run'.resumed = a.resumed /\ run'.resume_seq = a.last_seq
       /\ run'.resume_match = match
       /\ run'.internal = internal /\ run'.timeouts = run.timeouts
       /\ run'.accepted = run.accepted /\ run'.rejected = run.rejected
  BY <1>7, <1>12 DEF Run
<1>15. Clean' <=> Clean /\ run.hello1
  BY <1>5, <1>14 DEF Clean
<1>16. Clean => run.hello1
  BY <1>1, <1>7 DEF RunSoFar, Starting, Before
<1>17. client_open \in [Conns -> BOOLEAN] /\ client_open' \in [Conns -> BOOLEAN]
  BY <1>1, <1>7 DEF TypeOK
<1>18. /\ point \in Nat /\ point + 1 \in Seqs /\ seq \in Seqs /\ last_seq \in Nat
  <2>1. point \in Nat /\ point >= 1 /\ point < MessageCount /\ MessageCount \in Nat
    BY <1>1, TypeFacts, SeqsFacts
  <2>2. point + 1 \in 1..MessageCount
    BY <2>1
  <2>3. QED
    BY <1>1, <2>1, <2>2, TypeFacts DEF Seqs
<1>19. TypeOK'
  <2>1. seq' \in Seqs /\ step' \in {"send", "done"}
    BY <1>7, <1>18
  <2>2. QED
    BY <1>1, <1>2, <1>7, <1>13, <1>17, <2>1, ReceiveTypes DEF TypeOK
<1>20. LockStep'
  BY <1>1, <1>2, <1>7, <1>8, <1>15, ReceiveInStep
<1>21. Place'
  <2>1. /\ client_open'[1] <=> client_open[1]
        /\ client_open'[2] <=> step' # "done"
    BY <1>1, <1>7, <1>17 DEF Place, Conns
  <2>2. step' = "send" => seq' > point
    BY <1>7, <1>18
  <2>3. step' \in {"send", "done"}
    BY <1>7
  <2>4. QED
    BY <1>1, <1>2, <1>7, <1>15, <1>16, <2>1, <2>2, <2>3 DEF Place, ServerSame
<1>22. View'
  BY <1>1, <1>2, <1>7, UptoSame DEF View, ServerSame
<1>23. Books' /\ Closing'
  <2>1. \A c \in Conns : client_open'[c] => client_open[c]
    BY <1>7, <1>17
  <2>2. QED
    BY <1>1, <1>2, <2>1, ServerKept
<1>24. ~Starting /\ ~Preparing /\ ~Starting' /\ ~Preparing'
  BY <1>7 DEF Starting, Preparing, Before
<1>25. Clean => last_seq = point /\ session.last_seq = last_seq
  BY <1>1, <1>7, <1>24 DEF Progress
<1>26. Clean' => step' = "send" /\ seq' = last_seq + 1
  BY <1>7, <1>15, <1>25
<1>27. Progress'
  BY <1>1, <1>2, <1>7, <1>15, <1>24, <1>25, <1>26 DEF Progress, ServerSame
<1>28. RunSoFar'
  <2>1. SUFFICES ASSUME Clean' PROVE RunSoFar'
    BY DEF RunSoFar
  <2>2. Clean /\ step' = "send"
    BY <1>15, <1>26, <2>1
  <2>3. a.resumed = (conn = 2) /\ a.last_seq = last_seq /\ a.last_mem = last_mem
    BY <1>9, <2>2 DEF FitsHello
  <2>4. a.resumed /\ a.last_seq = point
    BY <1>7, <1>25, <2>2, <2>3
  <2>5. match
    BY <1>4, <1>25, <2>2, <2>3, <2>4
  <2>6. QED
    BY <1>1, <1>2, <1>7, <1>14, <1>24, <2>2, <2>4, <2>5 DEF RunSoFar, ServerSame
<1>29. QED
  BY <1>19, <1>20, <1>21, <1>22, <1>23, <1>27, <1>28 DEF IInv

-----------------------------------------------------------------------------
(* The client gives up, or closes its first connection *)

\* The three ways through phase 2 have this in common.
Disconnected ==
  /\ step = "close" /\ step' = "connect" /\ conn' = 2
  /\ client_open' = [client_open EXCEPT ![1] = FALSE]
  /\ inbox' = inbox /\ outbox' = outbox /\ seq' = seq
  /\ last_seq' = last_seq /\ last_mem' = last_mem /\ final' = final

LEMMA DisconnectPreserves ==
  ASSUME IInv, ServerSame, Disconnected, NEW observed \in BOOLEAN,
         run' = [run EXCEPT !.observed = observed, !.triggered = observed],
         \/ timed_out' = timed_out
         \/ timed_out' = [timed_out EXCEPT ![1] = TRUE],
         Clean => observed,
         type = "server_close" /\ ~timed_out'[1] => session.triggered
  PROVE  IInv'
<1>1. /\ TypeOK /\ Books /\ Closing /\ Place /\ View /\ LockStep
      /\ Progress /\ RunSoFar
  BY DEF IInv
<1>2. /\ step = "close" /\ step' = "connect" /\ conn' = 2
      /\ inbox' = inbox /\ outbox' = outbox /\ seq' = seq
      /\ last_seq' = last_seq /\ last_mem' = last_mem /\ final' = final
  BY DEF Disconnected
<1>3. conn = 1
  BY <1>1, <1>2 DEF Place
<1>4. run \in Run /\ run' \in Run
  BY <1>1 DEF TypeOK, Run
<1>5. /\ run'.sent = run.sent /\ run'.hello1 = run.hello1
      /\ run'.hello2 = run.hello2 /\ run'.armed = run.armed
      /\ run'.triggered = observed /\ run'.observed = observed
      /\ run'.internal = run.internal /\ run'.timeouts = run.timeouts
      /\ run'.accepted = run.accepted /\ run'.rejected = run.rejected
  BY <1>4 DEF Run
<1>6. Clean' <=> Clean
  BY <1>5 DEF Clean
<1>7. /\ client_open \in [Conns -> BOOLEAN] /\ timed_out \in [Conns -> BOOLEAN]
      /\ client_open' \in [Conns -> BOOLEAN] /\ timed_out' \in [Conns -> BOOLEAN]
      /\ 1 \in Conns /\ 2 \in Conns
  <2>1. /\ client_open \in [Conns -> BOOLEAN]
        /\ timed_out \in [Conns -> BOOLEAN]
    BY <1>1 DEF TypeOK
  <2>2. 1 \in Conns /\ 2 \in Conns
    BY DEF Conns
  <2>3. client_open' \in [Conns -> BOOLEAN]
    BY <2>1 DEF Disconnected
  <2>4. timed_out' \in [Conns -> BOOLEAN]
    BY <2>1
  <2>5. QED
    BY <2>1, <2>2, <2>3, <2>4
<1>8. \A c \in Conns : timed_out[c] => timed_out'[c]
  BY <1>7
<1>9. /\ ~client_open'[1] /\ (client_open'[2] <=> client_open[2])
      /\ \A c \in Conns : client_open'[c] => client_open[c]
  BY <1>7 DEF Disconnected
<1>10. TypeOK'
  BY <1>1, <1>2, <1>4, <1>7 DEF TypeOK, ServerSame
<1>11. LockStep'
  <2>1. ~Waiting /\ ~Waiting'
    BY <1>2 DEF Waiting
  <2>2. QED
    BY <1>1, <1>2, <1>6, <1>8, <2>1, QuietInStep
<1>12. Place'
  <2>1. (\A c \in Conns : ~timed_out'[c]) => Clean
    BY <1>1, <1>8 DEF Place
  <2>2. client_open[2]
    BY <1>1, <1>2 DEF Place
  <2>3. QED
    BY <1>2, <1>6, <1>9, <2>1, <2>2 DEF Place, ServerSame
<1>13. View'
  BY <1>1, <1>2, UptoSame DEF View, ServerSame
<1>14. ~Starting /\ ~Preparing /\ ~Starting' /\ ~Preparing'
  BY <1>2 DEF Starting, Preparing, Before
<1>15. Clean => last_seq = point
  BY <1>1, <1>2, <1>14 DEF Progress
<1>16. Progress'
  BY <1>1, <1>2, <1>6, <1>14 DEF Progress, ServerSame
<1>17. RunSoFar'
  <2>1. SUFFICES ASSUME Clean PROVE RunSoFar'
    BY <1>6 DEF RunSoFar
  <2>2. run.accepted = [c \in Conns |-> IF c = 1 THEN point ELSE 0]
    BY <1>1, <1>3, <1>15, <2>1 DEF RunSoFar
  <2>3. last_seq - point = 0
    BY <1>1, <1>15, <2>1, TypeFacts
  <2>4. /\ run.sent = last_seq /\ run.rejected = 0 /\ run.hello1
        /\ type = "server_close" => run.armed
    BY <1>1, <1>2, <1>14, <2>1 DEF RunSoFar
  <2>5. observed
    BY <2>1
  <2>6. type' = type /\ point' = point
    BY DEF ServerSame
  <2>7. run'.accepted = [c \in Conns |-> IF c = 1 THEN point ELSE last_seq - point]
    BY <1>5, <2>2, <2>3
  <2>8. QED
    BY <1>2, <1>5, <1>14, <2>4, <2>5, <2>6, <2>7 DEF RunSoFar
<1>18. Books' /\ Closing'
  BY <1>1, <1>9, ServerKept
<1>19. QED
  BY <1>10, <1>11, <1>12, <1>13, <1>16, <1>17, <1>18 DEF IInv

LEMMA ClosePreserves ==
  ASSUME IInv, ClientClose \/ ServerClose \/ CloseTimesOut
  PROVE  IInv'
<1>1. TypeOK /\ Place /\ Closing /\ LockStep /\ Progress /\ RunSoFar
  BY DEF IInv
<1>2. ServerSame
  BY DEF ClientClose, ServerClose, CloseTimesOut, At, ServerSame, parameters,
         server
<1>3. Disconnected
  BY DEF ClientClose, ServerClose, CloseTimesOut, At, Disconnect, Disconnected,
         adapter
<1>4. step = "close" /\ conn = 1 /\ client_open[1]
  BY <1>1, <1>3 DEF Place, Disconnected
<1>5. 1 \in Conns /\ timed_out \in [Conns -> BOOLEAN]
  BY <1>1 DEF TypeOK, Conns
<1>6. CASE ClientClose
  <2>1. PICK observed : observed = (run.accepted[1] = point)
    OBVIOUS
  <2>2. observed \in BOOLEAN
    BY <2>1
  <2>3. /\ run' = [run EXCEPT !.observed = observed, !.triggered = observed]
        /\ timed_out' = timed_out /\ type = "client_close"
    BY <1>6, <2>1 DEF ClientClose, Disconnect
  <2>4. ASSUME Clean
        PROVE  observed
    <3>1. last_seq = point
      BY <1>1, <1>4, <2>4 DEF Progress, Preparing, Before
    <3>2. run.accepted[1] = last_seq
      BY <1>1, <1>4, <1>5, <2>4 DEF RunSoFar
    <3>3. QED
      BY <2>1, <3>1, <3>2
  <2>5. QED
    BY <1>2, <1>3, <2>2, <2>3, <2>4, DisconnectPreserves
<1>7. CASE ServerClose
  <2>1. PICK observed : observed = (timed_out[1] \/ outbox[1] = <<>>)
    OBVIOUS
  <2>2. observed \in BOOLEAN
    BY <2>1
  <2>3. /\ run' = [run EXCEPT !.observed = observed, !.triggered = observed]
        /\ timed_out' = timed_out
        /\ timed_out[1] \/ outbox[1] # <<>> \/ thread[1] = "done"
    BY <1>7, <2>1 DEF ServerClose, Disconnect
  <2>4. InStep(1) => outbox[1] = <<>>
    BY <1>1, <1>4, <1>5 DEF LockStep, LockStepOn, Waiting, Idle
  <2>5. Clean => observed
    BY <2>1, <2>4 DEF InStep
  <2>6. ~timed_out[1] => session.triggered
    BY <1>1, <1>4, <1>5, <2>3, <2>4 DEF InStep, Closing
  <2>7. QED
    BY <1>2, <1>3, <2>2, <2>3, <2>5, <2>6, DisconnectPreserves
<1>8. CASE CloseTimesOut
  <2>1. /\ run' = [run EXCEPT !.observed = TRUE, !.triggered = TRUE]
        /\ timed_out' = [timed_out EXCEPT ![1] = TRUE]
    BY <1>8 DEF CloseTimesOut, Disconnect
  <2>2. timed_out'[1]
    BY <1>5, <2>1
  <2>3. QED
    BY <1>2, <1>3, <2>1, <2>2, DisconnectPreserves
<1>9. QED
  BY <1>6, <1>7, <1>8

LEMMA ReadFailsPreserves ==
  ASSUME IInv, ReadFails
  PROVE  IInv'
<1>1. /\ TypeOK /\ Books /\ Closing /\ Place /\ View /\ LockStep
      /\ Progress /\ RunSoFar
  BY DEF IInv
<1>2. ServerSame
  BY DEF ReadFails, At, ServerSame, parameters, server
<1>3. PICK timeouts : timeouts = IF step = "wait" THEN run.timeouts + 1
                                 ELSE run.timeouts
  OBVIOUS
<1>4. PICK internal : internal = (run.internal \/ conn = 1 \/ step # "wait")
  OBVIOUS
<1>5. /\ step \in {"hello", "arming", "wait", "collect"}
      /\ timed_out' = [timed_out EXCEPT ![conn] = TRUE]
      /\ run' = [run EXCEPT !.timeouts = timeouts, !.internal = internal]
      /\ step' = IF conn = 1 THEN "close"
                 ELSE IF step = "wait" THEN "final" ELSE "done"
      /\ client_open' = IF step' = "done"
                        THEN [client_open EXCEPT ![2] = FALSE]
                        ELSE client_open
      /\ inbox' = inbox /\ outbox' = outbox /\ conn' = conn /\ seq' = seq
      /\ last_seq' = last_seq /\ last_mem' = last_mem /\ final' = final
  BY <1>3, <1>4 DEF ReadFails, At, adapter
<1>6. run \in Run /\ run.timeouts \in Nat /\ run.internal \in BOOLEAN
  BY <1>1 DEF TypeOK, Run
<1>7. timeouts \in Nat /\ internal \in BOOLEAN
  BY <1>3, <1>4, <1>6
<1>8. run' \in Run
  BY <1>5, <1>6, <1>7 DEF Run
<1>9. run'.timeouts = timeouts /\ run'.internal = internal
  BY <1>5, <1>6 DEF Run
<1>10. ~Clean'
  <2>1. step = "wait" => timeouts # 0
    BY <1>3, <1>6
  <2>2. step # "wait" => internal
    BY <1>4
  <2>3. QED
    BY <1>9, <2>1, <2>2 DEF Clean
<1>11. /\ client_open \in [Conns -> BOOLEAN] /\ timed_out \in [Conns -> BOOLEAN]
       /\ 1 \in Conns /\ 2 \in Conns /\ conn \in Conns
       /\ conn = 1 \/ conn = 2
  BY <1>1 DEF TypeOK, Conns
<1>12. client_open' \in [Conns -> BOOLEAN] /\ timed_out' \in [Conns -> BOOLEAN]
  BY <1>5, <1>11
<1>13. TypeOK'
  <2>1. step' \in {"close", "final", "done"}
    BY <1>5
  <2>2. QED
    BY <1>1, <1>2, <1>5, <1>8, <1>12, <2>1 DEF TypeOK, ServerSame
<1>14. timed_out'[conn] /\ \A c \in Conns : timed_out[c] => timed_out'[c]
  BY <1>5, <1>11
<1>15. LockStep'
  <2>1. ASSUME NEW c \in Conns
        PROVE  LockStepOn(c)'
    <3>1. CASE c = conn
      <4>1. ~InStep(c)'
        BY <1>10, <1>14, <3>1 DEF InStep
      <4>2. QED
        BY <4>1 DEF LockStepOn
    <3>2. CASE c # conn
      <4>1. InStep(c)' => Idle(c)
        BY <1>1, <1>10, <1>14, <3>2 DEF InStep, LockStep, LockStepOn
      <4>2. Idle(c) => Idle(c)'
        BY <1>2, <1>5 DEF Idle, AtWork, ServerSame
      <4>3. QED
        BY <1>5, <3>2, <4>1, <4>2 DEF LockStepOn
    <3>3. QED
      BY <3>1, <3>2
  <2>2. QED
    BY <2>1 DEF LockStep
<1>16. Place'
  <2>1. step # "done" /\ step # "close"
    BY <1>5
  <2>2. /\ client_open'[1] <=> conn = 1
        /\ client_open'[2] <=> step' # "done"
    BY <1>1, <1>5, <1>11, <2>1 DEF Place
  <2>3. conn = 1 => ~timed_out'[2] /\ step' = "close"
    BY <1>1, <1>5, <1>11 DEF Place
  <2>4. conn = 2 => step' \in {"final", "done"} /\ (timed_out'[1] <=> timed_out[1])
    BY <1>5, <1>11
  <2>5. QED
    BY <1>1, <1>2, <1>5, <1>11, <1>14, <2>2, <2>3, <2>4 DEF Place, ServerSame
<1>17. View'
  BY <1>1, <1>2, <1>5, UptoSame DEF View, ServerSame
<1>18. Progress' /\ RunSoFar'
  BY <1>10 DEF Progress, RunSoFar
<1>19. Books' /\ Closing'
  <2>1. \A c \in Conns : client_open'[c] => client_open[c]
    BY <1>5, <1>11
  <2>2. QED
    BY <1>1, <1>2, <2>1, ServerKept
<1>20. QED
  BY <1>13, <1>15, <1>16, <1>17, <1>18, <1>19 DEF IInv

-----------------------------------------------------------------------------
(* The inductive invariant holds *)

LEMMA InitialSession ==
  ASSUME Init
  PROVE  session \in Session /\ Books
<1>1. session = [known |-> FALSE, last_seq |-> 0, last_mem |-> <<>>,
                 received |-> [s \in Seqs |-> 0], accepted |-> {},
                 rejected |-> 0, duplicates |-> 0, armed |-> 0,
                 triggered |-> FALSE]
  BY DEF Init
<1>2. /\ session.last_seq = 0 /\ session.last_mem = <<>>
      /\ session.received = [s \in Seqs |-> 0] /\ session.accepted = {}
      /\ session.rejected = 0 /\ session.duplicates = 0
  BY <1>1
<1>3. session \in Session
  <2>1. [s \in Seqs |-> 0] \in [Seqs -> Nat]
    OBVIOUS
  <2>2. <<>> \in Memory
    BY DEF Memory
  <2>3. QED
    BY <1>1, <2>1, <2>2 DEF Session
<1>4. Total(session.received) = 0
  BY <1>2, SeqsFacts, SumOfZeros, TotalIsSum
<1>5. Total(Again(session.received)) = 0
  <2>1. /\ DOMAIN Again(session.received) = Seqs
        /\ \A s \in Seqs : Again(session.received)[s] = 0
    BY <1>2 DEF Again
  <2>2. QED
    BY <2>1, SeqsFacts, SumOfZeros, TotalIsSum
<1>6. Books
  <2>1. 1..0 = {}
    OBVIOUS
  <2>2. Total(session.received) = session.last_seq + session.rejected
    BY <1>2, <1>4
  <2>3. QED
    BY <1>2, <1>5, <2>1, <2>2, UptoZero DEF Books, BooksOf
<1>7. QED
  BY <1>3, <1>6

LEMMA InitInv ==
  ASSUME Init
  PROVE  IInv
<1>1. session \in Session /\ Books
  BY InitialSession
<1>2. /\ session.known = FALSE /\ session.last_seq = 0 /\ session.armed = 0
      /\ session.received = [s \in Seqs |-> 0] /\ session.rejected = 0
      /\ session.duplicates = 0 /\ session.triggered = FALSE
  BY DEF Init
<1>3. /\ step = "connect" /\ conn = 1 /\ seq = 1 /\ last_seq = 0
      /\ last_mem = <<>> /\ 1 \in Conns /\ 2 \in Conns
      /\ point \in 1..(MessageCount - 1)
  BY DEF Init, Conns
<1>4. run \in Run
  <2>1. [c \in Conns |-> 0] \in [Conns -> Nat]
    OBVIOUS
  <2>2. QED
    BY <2>1 DEF Init, Run
<1>5. /\ run.hello1 = FALSE /\ run.internal = FALSE /\ run.timeouts = 0
      /\ run.sent = 0 /\ run.accepted = [c \in Conns |-> 0]
      /\ run.rejected = 0
  BY DEF Init
<1>6. TypeOK
  <2>1. /\ inbox \in [Conns -> Seq(Request)]
        /\ outbox \in [Conns -> Seq(Replies)]
    BY DEF Init
  <2>2. reply \in [Conns -> Replies]
    BY DEF Init, Replies
  <2>3. /\ thread \in [Conns -> {"reading", "greet", "send", "trigger",
                                 "shutdown", "done"}]
        /\ client_open \in [Conns -> BOOLEAN]
        /\ timed_out \in [Conns -> BOOLEAN]
    BY DEF Init
  <2>4. seq \in Seqs /\ last_mem \in Memory
    BY <1>3, SeqsFacts DEF Memory
  <2>5. QED
    BY <1>1, <1>3, <1>4, <2>1, <2>2, <2>3, <2>4 DEF Init, TypeOK
<1>7. Closing
  BY <1>2 DEF Init, Closing
<1>8. Clean
  BY <1>5 DEF Clean
<1>9. Place
  BY <1>3, <1>8 DEF Init, Place
<1>10. View
  BY <1>2, <1>3, UptoZero DEF View
<1>11. LockStep
  <2>1. ~Waiting
    BY <1>3 DEF Waiting
  <2>2. ASSUME NEW c \in Conns PROVE Idle(c)
    BY DEF Init, Idle, AtWork
  <2>3. QED
    BY <2>1, <2>2 DEF LockStep, LockStepOn
<1>12. Starting /\ Preparing
  BY <1>3 DEF Starting, Preparing, Before
<1>13. Progress
  <2>1. session.received
          = [s \in Seqs |-> IF s <= session.last_seq THEN 1 ELSE 0]
    BY <1>2, SeqsFacts
  <2>2. QED
    BY <1>2, <1>3, <1>12, <2>1 DEF Progress
<1>14. RunSoFar
  <2>1. run.accepted = [c \in Conns |-> IF conn = 1
                                       THEN IF c = 1 THEN last_seq ELSE 0
                                       ELSE IF c = 1 THEN point
                                                     ELSE last_seq - point]
    BY <1>3, <1>5
  <2>2. QED
    BY <1>3, <1>5, <1>12, <2>1 DEF RunSoFar
<1>15. QED
  BY <1>1, <1>6, <1>7, <1>9, <1>10, <1>11, <1>13, <1>14 DEF IInv

LEMMA StutterPreserves ==
  ASSUME IInv, UNCHANGED vars
  PROVE  IInv'
<1>1. /\ TypeOK /\ Books /\ Closing /\ Place /\ View /\ LockStep
      /\ Progress /\ RunSoFar
  BY DEF IInv
<1>2. ServerSame /\ ClientSame /\ inbox' = inbox /\ outbox' = outbox
  BY DEF vars, parameters, server, client, adapter, ServerSame, ClientSame
<1>3. TypeOK'
  BY <1>1, <1>2 DEF TypeOK, ServerSame, ClientSame
<1>4. Books' /\ Closing'
  BY <1>1, <1>2, ServerKept DEF ClientSame
<1>5. Place' /\ View' /\ RunSoFar'
  <2>1. Place'
    BY <1>1, <1>2 DEF Place, Clean, ServerSame, ClientSame
  <2>2. View'
    BY <1>1, <1>2, UptoSame DEF View, ServerSame, ClientSame
  <2>3. RunSoFar'
    BY <1>1, <1>2 DEF RunSoFar, Clean, Starting, Preparing, Before, Snapshot,
       Upto, Chained, ServerSame, ClientSame
  <2>4. QED
    BY <2>1, <2>2, <2>3
<1>6. Progress'
  <2>1. Clean' <=> Clean
    BY <1>2 DEF Clean, ClientSame
  <2>2. (Starting' <=> Starting) /\ (Preparing' <=> Preparing)
    BY <1>2 DEF Starting, Preparing, Before, ClientSame
  <2>3. QED
    BY <1>1, <1>2, <2>1, <2>2 DEF Progress, ServerSame, ClientSame
<1>7. LockStep'
  BY <1>1, <1>2 DEF LockStep, LockStepOn, InStep, Clean, Waiting, Pending,
     Requested, Greeting, Replying, Delivered, Idle, AtWork, Asked, Fits,
     FitsHello, FitsArm, FitsData, FitsFinal, Snapshot, Upto, Chained,
     ServerSame, ClientSame
<1>8. QED
  BY <1>1, <1>3, <1>4, <1>5, <1>6, <1>7 DEF IInv

LEMMA NextPreserves == IInv /\ [Next]_vars => IInv'
<1>1. SUFFICES ASSUME IInv, [Next]_vars PROVE IInv'
  OBVIOUS
<1>2. CASE \E c \in Conns : Thread(c)
  BY <1>1, <1>2, ThreadPreserves
<1>3. CASE Client
  <2>1. CASE Connect
    BY <1>1, <2>1, ConnectPreserves
  <2>2. CASE Greeted
    BY <1>1, <2>2, GreetedPreserves
  <2>3. CASE ArmServerClose
    BY <1>1, <2>3, ArmServerClosePreserves
  <2>4. CASE Armed
    BY <1>1, <2>4, ArmedPreserves
  <2>5. CASE SendData
    BY <1>1, <2>5, SendDataPreserves
  <2>6. CASE Answered
    BY <1>1, <2>6, AcceptedPreserves, RejectedPreserves
  <2>7. CASE ClientClose \/ ServerClose
    BY <1>1, <2>7, ClosePreserves
  <2>8. CASE Resumed
    BY <1>1, <2>8, ResumedPreserves
  <2>9. CASE RequestFinalState
    BY <1>1, <2>9, RequestFinalStatePreserves
  <2>10. CASE FinalStateReceived
    BY <1>1, <2>10, FinalStateReceivedPreserves
  <2>11. QED
    BY <1>3, <2>1, <2>2, <2>3, <2>4, <2>5, <2>6, <2>7, <2>8, <2>9, <2>10
       DEF Client
<1>4. CASE ReadFails
  BY <1>1, <1>4, ReadFailsPreserves
<1>5. CASE CloseTimesOut
  BY <1>1, <1>5, ClosePreserves
<1>6. CASE UNCHANGED vars
  BY <1>1, <1>6, StutterPreserves
<1>7. QED
  BY <1>1, <1>2, <1>3, <1>4, <1>5, <1>6 DEF Next

\* The inductive invariant holds of every state a run of the experiment
\* reaches: whatever times out, the books balance, and as long as nothing
\* did the two sides are in lock step.
THEOREM Invariance == Spec => []IInv
<1>1. Init => IInv
  BY InitInv
<1>2. IInv /\ [Next]_vars => IInv'
  BY NextPreserves
<1>3. QED
  BY <1>1, <1>2, PTL DEF Spec

\* The types of the variables, as the session, the threads and the client go
\* on.
THEOREM TypeCorrect == Spec => []TypeOK
<1>1. IInv => TypeOK
  BY DEF IInv
<1>2. QED
  BY <1>1, Invariance, PTL

-----------------------------------------------------------------------------
(* What the invariant says of the server's books *)

\* Whatever two connections interleave, what the server counts is what
\* happened to it: everything received was accepted or rejected, and the
\* numbers up to last_seq were accepted, each once.
THEOREM Balance == Spec => []AccountsBalance
<1>1. ASSUME IInv PROVE AccountsBalance
  <2>1. TypeOK /\ BooksOf(session)
    BY <1>1 DEF IInv, Books
  <2>2. session.last_seq \in Nat
    BY <2>1, TypeFacts
  <2>3. session.accepted = 1..session.last_seq
    BY <2>1 DEF BooksOf
  <2>4. Cardinality(session.accepted) = session.last_seq
    BY <2>2, <2>3, FS_Interval
  <2>5. /\ Total(session.received)
             = Cardinality(session.accepted) + session.rejected
        /\ session.duplicates = Total(Again(session.received))
    BY <2>1, <2>4 DEF BooksOf
  <2>6. QED
    BY <2>3, <2>5 DEF AccountsBalance, Total, Again
<1>2. QED
  BY <1>1, Invariance, PTL

-----------------------------------------------------------------------------
(* The verdict on a run that was clean *)

\* A run judged valid had no failed read before its disconnect or its end.
LEMMA ValidIsClean ==
  ASSUME RunValid
  PROVE  Clean
BY DEF RunValid, ExecutionValid, Clean

\* How a clean run ends.
LEMMA CleanEnd ==
  ASSUME IInv, Finished, Clean
  PROVE  /\ session.received = [s \in Seqs |-> 1]
         /\ session.last_seq = MessageCount /\ session.rejected = 0
         /\ last_seq = MessageCount /\ last_mem = Upto(MessageCount)
         /\ last_mem = session.last_mem
         /\ run.accepted = <<point, MessageCount - point>>
         /\ run.sent = MessageCount /\ run.rejected = 0
         /\ run.hello1 /\ run.hello2 /\ run.resumed
         /\ run.resume_seq = point /\ run.resume_match /\ run.observed
         /\ type = "server_close" => run.armed
         /\ final \in FinalState /\ Snapshot(final)
         /\ run.triggered <=> (type = "server_close" => final.triggered)
<1>1. /\ TypeOK /\ Books /\ Place /\ View /\ Progress /\ RunSoFar
  BY DEF IInv
<1>2. step = "done" /\ conn = 2
  BY <1>1 DEF Finished, Place
<1>3. ~Starting /\ ~Preparing
  BY <1>2 DEF Starting, Preparing, Before
<1>4. /\ last_seq = MessageCount /\ session.last_seq = MessageCount
      /\ session.rejected = 0
      /\ session.received
           = [s \in Seqs |-> IF s <= MessageCount THEN 1 ELSE 0]
  BY <1>1, <1>2 DEF Progress
<1>5. session.received = [s \in Seqs |-> 1]
  <2>1. \A s \in Seqs : s <= MessageCount
    BY SeqsFacts
  <2>2. QED
    BY <1>4, <2>1
<1>6. last_mem = Upto(MessageCount) /\ last_mem = session.last_mem
  BY <1>1, <1>4 DEF View, Books, BooksOf
<1>7. run.accepted = <<point, MessageCount - point>>
  <2>1. run.accepted
          = [c \in Conns |-> IF c = 1 THEN point ELSE MessageCount - point]
    BY <1>1, <1>2, <1>4 DEF RunSoFar
  <2>2. QED
    BY <2>1 DEF Conns
<1>8. /\ run.sent = MessageCount /\ run.rejected = 0
      /\ run.hello1 /\ run.hello2 /\ run.resumed
      /\ run.resume_seq = point /\ run.resume_match /\ run.observed
      /\ type = "server_close" => run.armed
      /\ final \in FinalState /\ Snapshot(final)
      /\ type = "server_close" => run.triggered = final.triggered
      /\ type # "server_close" => run.triggered
  BY <1>1, <1>2, <1>3, <1>4 DEF RunSoFar
<1>9. QED
  BY <1>2, <1>4, <1>5, <1>6, <1>7, <1>8

\* A run that is judged valid was one: each message was received once, in
\* order and with its acknowledgement, the memories agree, and the server
\* closed if it was to, after it had acknowledged the message number point.
THEOREM ValidSound == Spec => []RunValidSound
<1>1. ASSUME IInv, Finished, RunValid
      PROVE  /\ session.received = [s \in Seqs |-> 1]
             /\ session.last_seq = MessageCount /\ session.rejected = 0
             /\ run.accepted = <<point, MessageCount - point>>
             /\ last_mem = session.last_mem
             /\ type = "server_close" => session.triggered /\ session.armed = 0
  <2>1. Clean
    BY <1>1, ValidIsClean
  <2>2. /\ session.received = [s \in Seqs |-> 1]
        /\ session.last_seq = MessageCount /\ session.rejected = 0
        /\ run.accepted = <<point, MessageCount - point>>
        /\ last_mem = session.last_mem
    BY <1>1, <2>1, CleanEnd
  <2>3. type = "server_close" => final.triggered
    BY <1>1, <2>1, CleanEnd DEF RunValid, ExecutionValid, DisconnectValid
  <2>4. final.triggered => session.triggered
    BY <1>1, <2>1, CleanEnd DEF Snapshot
  <2>5. session.triggered => session.armed = 0
    BY <1>1 DEF IInv, Closing
  <2>6. QED
    BY <2>2, <2>3, <2>4, <2>5
<1>2. IInv => RunValidSound
  BY <1>1 DEF RunValidSound
<1>3. QED
  BY <1>2, Invariance, PTL

\* A clean run whose close was noted by both sides is judged valid.
LEMMA CleanEndIsValid ==
  ASSUME IInv, Finished, Clean, type = "server_close" => final.triggered
  PROVE  RunValid
<1>1. /\ Snapshot(final) /\ final \in FinalState
      /\ last_seq = MessageCount /\ last_mem = Upto(MessageCount)
  BY CleanEnd
<1>2. final # Nothing
  BY <1>1 DEF FinalState, Nothing
<1>3. DisconnectValid
  BY CleanEnd DEF DisconnectValid
<1>4. ExecutionValid
  BY <1>2, <1>3, CleanEnd DEF ExecutionValid, Clean
<1>5. FinalStateMatches
  BY <1>1 DEF FinalStateMatches, Snapshot
<1>6. QED
  BY <1>1, <1>4, <1>5 DEF RunValid, Snapshot, Clean

\* A run none of whose reads timed out is judged valid.
THEOREM FalseAlarm == Spec => []NoFalseAlarm
<1>1. ASSUME IInv, Finished, \A c \in Conns : ~timed_out[c]
      PROVE  RunValid
  <2>1. Clean /\ ~timed_out[1]
    BY <1>1 DEF IInv, Place, Conns
  <2>2. Snapshot(final)
    BY <1>1, <2>1, CleanEnd
  <2>3. type = "server_close" => final.triggered
    BY <2>1, <2>2 DEF Snapshot
  <2>4. QED
    BY <1>1, <2>1, <2>3, CleanEndIsValid
<1>2. IInv => NoFalseAlarm
  BY <1>1 DEF NoFalseAlarm
<1>3. QED
  BY <1>2, Invariance, PTL

\* The publication gate passes every run that was judged valid.
THEOREM Gate == Spec => []GateAgrees
<1>1. ASSUME IInv, Finished, RunValid
      PROVE  GatePasses
  <2>1. Clean
    BY <1>1, ValidIsClean
  <2>2. /\ Snapshot(final) /\ run.sent = MessageCount /\ run.rejected = 0
        /\ run.accepted = <<point, MessageCount - point>>
    BY <1>1, <2>1, CleanEnd
  <2>3. run.accepted[1] + run.accepted[2] = MessageCount
    <3>1. point \in Nat /\ MessageCount \in Nat
      BY <1>1, TypeFacts, SeqsFacts DEF IInv
    <3>2. run.accepted[1] = point /\ run.accepted[2] = MessageCount - point
      BY <2>2
    <3>3. QED
      BY <3>1, <3>2
  <2>4. CountsMatch
    BY <2>2, <2>3 DEF CountsMatch, Snapshot
  <2>5. FinalStateMatches /\ DisconnectValid
    BY <1>1 DEF RunValid, ExecutionValid
  <2>6. QED
    BY <1>1, <2>2, <2>3, <2>4, <2>5 DEF GatePasses, Snapshot
<1>2. IInv => GateAgrees
  BY <1>1 DEF GateAgrees
<1>3. QED
  BY <1>2, Invariance, PTL

-----------------------------------------------------------------------------
(* The refinement: a history, and the client's view of it *)

\* A thread extends the history by one number, or leaves it alone.
LEMMA ThreadExtends ==
  ASSUME IInv, NEW c \in Conns, Thread(c)
  PROVE  History!Extend \/ UNCHANGED <<session.last_mem, last_mem>>
<1>1. TypeOK /\ session \in Session
  BY TypeFacts DEF IInv
<1>2. last_mem' = last_mem
  BY <1>1, ThreadStep DEF ClientSame
<1>3. PICK new : new = session'
  OBVIOUS
<1>4. CASE HandleData(c)
  <2>1. PICK packet : packet = Head(inbox[c])
    OBVIOUS
  <2>2. packet \in Data /\ new = Counted(packet)
    BY <1>1, <1>3, <1>4, <2>1, DataEffects
  <2>3. packet.seq \in Seqs
    BY <2>2 DEF Data
  <2>4. \/ new.last_mem = session.last_mem
        \/ new.last_mem = Append(session.last_mem, packet.seq)
    BY <1>1, <2>2, CountedFields DEF Extended
  <2>5. QED
    BY <1>2, <1>3, <2>3, <2>4 DEF History!Extend
<1>5. CASE ~HandleData(c)
  <2>1. new.last_mem = session.last_mem
    BY <1>1, <1>3, <1>5, SessionEffects
  <2>2. QED
    BY <1>2, <1>3, <2>1
<1>6. QED
  BY <1>4, <1>5

\* Where the server does nothing, the client's view may only catch up.
LEMMA ClientCatchesUp ==
  ASSUME IInv, IInv', ServerSame,
         \/ last_mem' = last_mem
         \/ last_mem' = Extended(last_mem, seq)
  PROVE  History!CatchUp \/ UNCHANGED <<session.last_mem, last_mem>>
<1>1. /\ TypeOK /\ View /\ BooksOf(session) /\ TypeOK' /\ View'
  BY DEF IInv, Books
<1>2. PICK n : n = last_seq'
  OBVIOUS
<1>3. /\ last_seq \in Nat /\ n \in {0} \union Seqs /\ n \in Nat
      /\ session.last_seq \in Nat /\ n <= session.last_seq
  <2>1. last_seq \in Nat /\ session.last_seq \in Nat
    BY <1>1, TypeFacts
  <2>2. last_seq' \in {0} \union Seqs /\ last_seq' <= session.last_seq
    BY <1>1 DEF TypeOK, View, ServerSame, Seqs
  <2>3. QED
    BY <1>2, <2>1, <2>2, SeqsFacts
<1>4. last_mem' = Upto(n)
  BY <1>1, <1>2, UptoSame DEF View
<1>5. /\ session'.last_mem = session.last_mem
      /\ session.last_mem = Upto(session.last_seq) /\ last_mem = Upto(last_seq)
  BY <1>1 DEF ServerSame, View, BooksOf
<1>6. CASE ~Chained
  BY <1>4, <1>5, <1>6 DEF Upto
<1>7. CASE Chained
  <2>1. /\ Len(Upto(session.last_seq)) = session.last_seq
        /\ Len(Upto(last_seq)) = last_seq /\ Len(Upto(n)) = n
        /\ SubSeq(Upto(session.last_seq), 1, n) = Upto(n)
    BY <1>3, <1>7, UptoPrefix
  <2>2. Len(last_mem') >= Len(last_mem)
    <3>1. last_mem \in Seq(Seqs)
      BY <1>1 DEF TypeOK, Memory
    <3>2. Len(Append(last_mem, seq)) = Len(last_mem) + 1
      BY <3>1
    <3>3. QED
      BY <1>3, <1>5, <2>1, <3>2 DEF Extended
  <2>3. n \in Len(last_mem)..Len(session.last_mem)
    BY <1>3, <1>4, <1>5, <2>1, <2>2
  <2>4. last_mem' = SubSeq(session.last_mem, 1, n)
    BY <1>4, <1>5, <2>1
  <2>5. QED
    BY <1>5, <2>3, <2>4 DEF History!CatchUp
<1>8. QED
  BY <1>6, <1>7

\* A step of the client, or one of its reads that fails.
LEMMA ClientStep ==
  ASSUME Client \/ ReadFails \/ CloseTimesOut
  PROVE  /\ ServerSame
         /\ last_mem' = last_mem \/ last_mem' = Extended(last_mem, seq)
<1> USE DEF At, Ask, Receive, Disconnect, parameters, server, adapter,
            ServerSame
<1>1. CASE Connect \/ ArmServerClose \/ SendData \/ RequestFinalState
  BY <1>1 DEF Connect, ArmServerClose, SendData, RequestFinalState
<1>2. CASE Greeted \/ Armed \/ Resumed \/ FinalStateReceived
  BY <1>2 DEF Greeted, Armed, Resumed, FinalStateReceived
<1>3. CASE Answered
  BY <1>3 DEF Answered
<1>4. CASE ClientClose \/ ServerClose \/ CloseTimesOut
  BY <1>4 DEF ClientClose, ServerClose, CloseTimesOut
<1>5. CASE ReadFails
  BY <1>5 DEF ReadFails
<1>6. QED
  BY <1>1, <1>2, <1>3, <1>4, <1>5 DEF Client

\* The server's memory and the client's are a history that only grows and a
\* view of it that only catches up, however the two connections overlap.
THEOREM Refinement == Spec => ImplementsSharedHistory
<1>1. Init => History!Init
  BY DEF Init, History!Init
<1>2. ASSUME IInv, IInv', [Next]_vars
      PROVE  [History!Next]_<<session.last_mem, last_mem>>
  <2>1. CASE \E c \in Conns : Thread(c)
    BY <1>2, <2>1, ThreadExtends DEF History!Next
  <2>2. CASE Client \/ ReadFails \/ CloseTimesOut
    BY <1>2, <2>2, ClientStep, ClientCatchesUp DEF History!Next
  <2>3. CASE UNCHANGED vars
    BY <2>3 DEF vars, server, client, adapter
  <2>4. QED
    BY <1>2, <2>1, <2>2, <2>3 DEF Next
<1>3. QED
  BY <1>1, <1>2, Invariance, PTL DEF Spec, ImplementsSharedHistory, History!Spec

=============================================================================
