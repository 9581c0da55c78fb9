------------------------ MODULE BaselineServerProofs ------------------------
(***************************************************************************)
(* Theorems about BaselineServer, for any number of sessions, connections  *)
(* and epochs, and any of the protocols; and, from the same lemmas about   *)
(* the verifiers, about BaselineComparison.                                *)
(*                                                                         *)
(* The verdict is "ok" only when every comparison of the protocol holds.   *)
(* From that follows, for each context, that its number, its hash, its     *)
(* chain and its counters are those of the history it stands for, up to    *)
(* the one step between the two assignments of an update (Sound), which    *)
(* nobody sees who does not hold the lock.                                 *)
(*                                                                         *)
(* A run of the comparison in which no read fails is in step: one packet   *)
(* is under way, or its answer (CompareInv).                               *)
(***************************************************************************)
EXTENDS BaselineServer, CollectionLemmas

-----------------------------------------------------------------------------
(* Comparisons *)

\* A set at or above n has a least element if it has one when it is above n.
LEMMA MinOfEight ==
  ASSUME NEW I, I \subseteq 1..8, I # {}
  PROVE  Min(I) \in I
<1> DEFINE From(n) == (\A y \in I : n <= y) => Min(I) \in I
<1>1. ASSUME NEW n \in Int, NEW m \in Int, m = n + 1, From(m)
      PROVE  From(n)
  <2>1. SUFFICES ASSUME \A y \in I : n <= y
                 PROVE  Min(I) \in I
    OBVIOUS
  <2>2. CASE n \in I
    BY <2>1, <2>2 DEF Min
  <2>3. CASE n \notin I
    BY <1>1, <2>1, <2>3
  <2>4. QED
    BY <2>2, <2>3
<1>2. From(9)
  <2>1. PICK x \in I : x \in 1..8
    OBVIOUS
  <2>2. ~(9 <= x)
    BY <2>1
  <2>3. QED
    BY <2>2
<1>3. From(1) => Min(I) \in I
  OBVIOUS
<1> HIDE DEF From
<1>4. From(5)
  BY <1>1, <1>2
<1>5. QED
  BY <1>1, <1>3, <1>4

\* What the comparisons the theorems need say when they hold.
LEMMA OrderHolds ==
  ASSUME NEW state, NEW packet,
         OldCheck(state, packet).holds, GapCheck(state, packet).holds
  PROVE  packet.seq > state.last_seq /\ packet.seq <= state.last_seq + 1
BY DEF OldCheck, GapCheck, Check

LEMMA TagHolds ==
  ASSUME NEW p, NEW packet, NEW reason, TagCheck(p, packet, reason).holds
  PROVE  packet.tag = Covered(p, packet)
BY DEF TagCheck, Check

LEMMA PrevHolds ==
  ASSUME NEW state, NEW packet, NEW reason, PrevCheck(state, packet, reason).holds
  PROVE  packet.prev = state.last
BY DEF PrevCheck, Check

\* When the first comparison that fails is none, every comparison holds.
LEMMA FirstFails ==
  ASSUME NEW checks, Len(checks) \in 0..8,
         \A i \in 1..Len(checks) : checks[i].reason # "ok",
         LET first == SelectInSeq(checks, LAMBDA check : ~check.holds) IN
         (IF first = 0 THEN "ok" ELSE checks[first].reason) = "ok"
  PROVE  \A i \in 1..Len(checks) : checks[i].holds
<1> DEFINE I == {i \in 1..Len(checks) : ~checks[i].holds}
<1>1. LET first == IF I # {} THEN Min(I) ELSE 0 IN
      (IF first = 0 THEN "ok" ELSE checks[first].reason) = "ok"
  BY DEF SelectInSeq
<1>2. I \subseteq 1..8 /\ I \subseteq 1..Len(checks)
  OBVIOUS
<1> HIDE DEF I
<1>3. CASE I # {}
  <2>1. Min(I) \in I
    BY <1>2, <1>3, MinOfEight
  <2>2. QED
    BY <1>1, <1>2, <1>3, <2>1
<1>4. CASE I = {}
  BY <1>4 DEF I
<1>5. QED
  BY <1>3, <1>4

\* No reason is "ok", so the verdict is "ok" only when every comparison holds.
LEMMA VerdictChecks ==
  ASSUME NEW p \in Protocols, NEW state, NEW packet,
         Verdict(p, state, packet) = "ok"
  PROVE  \A i \in 1..Len(Checks(p, state, packet)) :
           Checks(p, state, packet)[i].holds
<1> DEFINE checks == Checks(p, state, packet)
<1>1. /\ Len(checks) \in 0..8
      /\ \A i \in 1..Len(checks) : checks[i].reason # "ok"
  <2>1. CASE p = "gmcp"
    <3>1. checks = GmcpChecks(state, packet)
      BY <2>1 DEF Checks
    <3>2. Len(GmcpChecks(state, packet)) = 8
      BY DEF GmcpChecks
    <3>3. GmcpChecks(state, packet)[1].reason # "ok"
      BY DEF GmcpChecks, Check, TagCheck, SessionCheck, SenderCheck,
             EpochCheck, OldCheck, GapCheck, PayloadCheck, PrevCheck
    <3>4. GmcpChecks(state, packet)[2].reason # "ok"
      BY DEF GmcpChecks, Check, TagCheck, SessionCheck, SenderCheck,
             EpochCheck, OldCheck, GapCheck, PayloadCheck, PrevCheck
    <3>5. GmcpChecks(state, packet)[3].reason # "ok"
      BY DEF GmcpChecks, Check, TagCheck, SessionCheck, SenderCheck,
             EpochCheck, OldCheck, GapCheck, PayloadCheck, PrevCheck
    <3>6. GmcpChecks(state, packet)[4].reason # "ok"
      BY DEF GmcpChecks, Check, TagCheck, SessionCheck, SenderCheck,
             EpochCheck, OldCheck, GapCheck, PayloadCheck, PrevCheck
    <3>7. GmcpChecks(state, packet)[5].reason # "ok"
      BY DEF GmcpChecks, Check, TagCheck, SessionCheck, SenderCheck,
             EpochCheck, OldCheck, GapCheck, PayloadCheck, PrevCheck
    <3>8. GmcpChecks(state, packet)[6].reason # "ok"
      BY DEF GmcpChecks, Check, TagCheck, SessionCheck, SenderCheck,
             EpochCheck, OldCheck, GapCheck, PayloadCheck, PrevCheck
    <3>9. GmcpChecks(state, packet)[7].reason # "ok"
      BY DEF GmcpChecks, Check, TagCheck, SessionCheck, SenderCheck,
             EpochCheck, OldCheck, GapCheck, PayloadCheck, PrevCheck
    <3>10. GmcpChecks(state, packet)[8].reason # "ok"
      BY DEF GmcpChecks, Check, TagCheck, SessionCheck, SenderCheck,
             EpochCheck, OldCheck, GapCheck, PayloadCheck, PrevCheck
    <3>11. QED
      BY <3>1, <3>2, <3>3, <3>4, <3>5, <3>6, <3>7, <3>8, <3>9, <3>10
  <2>2. CASE p = "hash_chain"
    <3>1. checks = HashChainChecks(state, packet)
      BY <2>2 DEF Checks
    <3>2. Len(HashChainChecks(state, packet)) = 7
      BY DEF HashChainChecks
    <3>3. HashChainChecks(state, packet)[1].reason # "ok"
      BY DEF HashChainChecks, Check, TagCheck, SessionCheck, SenderCheck,
             EpochCheck, OldCheck, GapCheck, PayloadCheck, PrevCheck
    <3>4. HashChainChecks(state, packet)[2].reason # "ok"
      BY DEF HashChainChecks, Check, TagCheck, SessionCheck, SenderCheck,
             EpochCheck, OldCheck, GapCheck, PayloadCheck, PrevCheck
    <3>5. HashChainChecks(state, packet)[3].reason # "ok"
      BY DEF HashChainChecks, Check, TagCheck, SessionCheck, SenderCheck,
             EpochCheck, OldCheck, GapCheck, PayloadCheck, PrevCheck
    <3>6. HashChainChecks(state, packet)[4].reason # "ok"
      BY DEF HashChainChecks, Check, TagCheck, SessionCheck, SenderCheck,
             EpochCheck, OldCheck, GapCheck, PayloadCheck, PrevCheck
    <3>7. HashChainChecks(state, packet)[5].reason # "ok"
      BY DEF HashChainChecks, Check, TagCheck, SessionCheck, SenderCheck,
             EpochCheck, OldCheck, GapCheck, PayloadCheck, PrevCheck
    <3>8. HashChainChecks(state, packet)[6].reason # "ok"
      BY DEF HashChainChecks, Check, TagCheck, SessionCheck, SenderCheck,
             EpochCheck, OldCheck, GapCheck, PayloadCheck, PrevCheck
    <3>9. HashChainChecks(state, packet)[7].reason # "ok"
      BY DEF HashChainChecks, Check, TagCheck, SessionCheck, SenderCheck,
             EpochCheck, OldCheck, GapCheck, PayloadCheck, PrevCheck
    <3>10. QED
      BY <3>1, <3>2, <3>3, <3>4, <3>5, <3>6, <3>7, <3>8, <3>9
  <2>3. CASE p = "authenticated_hash_chain"
    <3>1. checks = AuthHashChainChecks(state, packet)
      BY <2>3 DEF Checks
    <3>2. Len(AuthHashChainChecks(state, packet)) = 8
      BY DEF AuthHashChainChecks
    <3>3. AuthHashChainChecks(state, packet)[1].reason # "ok"
      BY DEF AuthHashChainChecks, Check, TagCheck, SessionCheck,
             SenderCheck, EpochCheck, OldCheck, GapCheck, PayloadCheck, PrevCheck
    <3>4. AuthHashChainChecks(state, packet)[2].reason # "ok"
      BY DEF AuthHashChainChecks, Check, TagCheck, SessionCheck,
             SenderCheck, EpochCheck, OldCheck, GapCheck, PayloadCheck, PrevCheck
    <3>5. AuthHashChainChecks(state, packet)[3].reason # "ok"
      BY DEF AuthHashChainChecks, Check, TagCheck, SessionCheck,
             SenderCheck, EpochCheck, OldCheck, GapCheck, PayloadCheck, PrevCheck
    <3>6. AuthHashChainChecks(state, packet)[4].reason # "ok"
      BY DEF AuthHashChainChecks, Check, TagCheck, SessionCheck,
             SenderCheck, EpochCheck, OldCheck, GapCheck, PayloadCheck, PrevCheck
    <3>7. AuthHashChainChecks(state, packet)[5].reason # "ok"
      BY DEF AuthHashChainChecks, Check, TagCheck, SessionCheck,
             SenderCheck, EpochCheck, OldCheck, GapCheck, PayloadCheck, PrevCheck
    <3>8. AuthHashChainChecks(state, packet)[6].reason # "ok"
      BY DEF AuthHashChainChecks, Check, TagCheck, SessionCheck,
             SenderCheck, EpochCheck, OldCheck, GapCheck, PayloadCheck, PrevCheck
    <3>9. AuthHashChainChecks(state, packet)[7].reason # "ok"
      BY DEF AuthHashChainChecks, Check, TagCheck, SessionCheck,
             SenderCheck, EpochCheck, OldCheck, GapCheck, PayloadCheck, PrevCheck
    <3>10. AuthHashChainChecks(state, packet)[8].reason # "ok"
      BY DEF AuthHashChainChecks, Check, TagCheck, SessionCheck,
             SenderCheck, EpochCheck, OldCheck, GapCheck, PayloadCheck, PrevCheck
    <3>11. QED
      BY <3>1, <3>2, <3>3, <3>4, <3>5, <3>6, <3>7, <3>8, <3>9, <3>10
  <2>4. CASE p = "seq_mac"
    <3>1. checks = SeqMacChecks(state, packet)
      BY <2>4 DEF Checks
    <3>2. Len(SeqMacChecks(state, packet)) = 5
      BY DEF SeqMacChecks
    <3>3. SeqMacChecks(state, packet)[1].reason # "ok"
      BY DEF SeqMacChecks, Check, TagCheck, SessionCheck, SenderCheck,
             EpochCheck, OldCheck, GapCheck, PayloadCheck, PrevCheck
    <3>4. SeqMacChecks(state, packet)[2].reason # "ok"
      BY DEF SeqMacChecks, Check, TagCheck, SessionCheck, SenderCheck,
             EpochCheck, OldCheck, GapCheck, PayloadCheck, PrevCheck
    <3>5. SeqMacChecks(state, packet)[3].reason # "ok"
      BY DEF SeqMacChecks, Check, TagCheck, SessionCheck, SenderCheck,
             EpochCheck, OldCheck, GapCheck, PayloadCheck, PrevCheck
    <3>6. SeqMacChecks(state, packet)[4].reason # "ok"
      BY DEF SeqMacChecks, Check, TagCheck, SessionCheck, SenderCheck,
             EpochCheck, OldCheck, GapCheck, PayloadCheck, PrevCheck
    <3>7. SeqMacChecks(state, packet)[5].reason # "ok"
      BY DEF SeqMacChecks, Check, TagCheck, SessionCheck, SenderCheck,
             EpochCheck, OldCheck, GapCheck, PayloadCheck, PrevCheck
    <3>8. QED
      BY <3>1, <3>2, <3>3, <3>4, <3>5, <3>6, <3>7
  <2>5. CASE p = "ticket_only"
    <3>1. checks = TicketOnlyChecks(state, packet)
      BY <2>5 DEF Checks
    <3>2. Len(TicketOnlyChecks(state, packet)) = 5
      BY DEF TicketOnlyChecks
    <3>3. TicketOnlyChecks(state, packet)[1].reason # "ok"
      BY DEF TicketOnlyChecks, Check, TagCheck, SessionCheck, SenderCheck,
             EpochCheck, OldCheck, GapCheck, PayloadCheck, PrevCheck
    <3>4. TicketOnlyChecks(state, packet)[2].reason # "ok"
      BY DEF TicketOnlyChecks, Check, TagCheck, SessionCheck, SenderCheck,
             EpochCheck, OldCheck, GapCheck, PayloadCheck, PrevCheck
    <3>5. TicketOnlyChecks(state, packet)[3].reason # "ok"
      BY DEF TicketOnlyChecks, Check, TagCheck, SessionCheck, SenderCheck,
             EpochCheck, OldCheck, GapCheck, PayloadCheck, PrevCheck
    <3>6. TicketOnlyChecks(state, packet)[4].reason # "ok"
      BY DEF TicketOnlyChecks, Check, TagCheck, SessionCheck, SenderCheck,
             EpochCheck, OldCheck, GapCheck, PayloadCheck, PrevCheck
    <3>7. TicketOnlyChecks(state, packet)[5].reason # "ok"
      BY DEF TicketOnlyChecks, Check, TagCheck, SessionCheck, SenderCheck,
             EpochCheck, OldCheck, GapCheck, PayloadCheck, PrevCheck
    <3>8. QED
      BY <3>1, <3>2, <3>3, <3>4, <3>5, <3>6, <3>7
  <2>6. QED
    BY <2>1, <2>2, <2>3, <2>4, <2>5 DEF Protocols
<1>2. QED
  BY <1>1, FirstFails DEF Verdict

\* What an accepted packet is, whatever the protocol: the next one, built on the
\* last one where the protocol links its packets, and as its tag says, except in
\* ticket_only.
LEMMA Accepted ==
  ASSUME NEW p \in Protocols, NEW state, NEW packet,
         Verdict(p, state, packet) = "ok"
  PROVE  /\ packet.seq > state.last_seq /\ packet.seq <= state.last_seq + 1
         /\ p \in Linked => packet.prev = state.last
         /\ p # "ticket_only" => packet.tag = Covered(p, packet)
<1> DEFINE checks == Checks(p, state, packet)
<1>1. \A i \in 1..Len(checks) : checks[i].holds
  BY VerdictChecks
<1>2. CASE p = "gmcp"
  <2>1. /\ checks = GmcpChecks(state, packet)
        /\ Len(GmcpChecks(state, packet)) = 8
    BY <1>2 DEF Checks, GmcpChecks
  <2>2. OldCheck(state, packet).holds /\ GapCheck(state, packet).holds
    <3>1. /\ GmcpChecks(state, packet)[5] = OldCheck(state, packet)
          /\ GmcpChecks(state, packet)[6] = GapCheck(state, packet)
      BY DEF GmcpChecks
    <3>2. checks[5].holds /\ checks[6].holds
      BY <1>1, <2>1
    <3>3. QED
      BY <1>2, <2>1, <3>1, <3>2
  <2>3. TagCheck(p, packet, "auth_tag verification failed").holds
    <3>1. GmcpChecks(state, packet)[1] =
            TagCheck("gmcp", packet, "auth_tag verification failed")
      BY DEF GmcpChecks
    <3>2. checks[1].holds
      BY <1>1, <2>1
    <3>3. QED
      BY <1>2, <2>1, <3>1, <3>2
  <2>4. PrevCheck(state, packet, "prev_mem mismatch").holds
    <3>1. GmcpChecks(state, packet)[8] =
            PrevCheck(state, packet, "prev_mem mismatch")
      BY DEF GmcpChecks
    <3>2. checks[8].holds
      BY <1>1, <2>1
    <3>3. QED
      BY <1>2, <2>1, <3>1, <3>2
  <2>5. QED
    BY <1>2, <2>2, OrderHolds, <2>3, TagHolds, <2>4, PrevHolds
<1>3. CASE p = "hash_chain"
  <2>1. /\ checks = HashChainChecks(state, packet)
        /\ Len(HashChainChecks(state, packet)) = 7
    BY <1>3 DEF Checks, HashChainChecks
  <2>2. OldCheck(state, packet).holds /\ GapCheck(state, packet).holds
    <3>1. /\ HashChainChecks(state, packet)[1] = OldCheck(state, packet)
          /\ HashChainChecks(state, packet)[2] = GapCheck(state, packet)
      BY DEF HashChainChecks
    <3>2. checks[1].holds /\ checks[2].holds
      BY <1>1, <2>1
    <3>3. QED
      BY <1>3, <2>1, <3>1, <3>2
  <2>3. TagCheck(p, packet, "chain_hash mismatch").holds
    <3>1. HashChainChecks(state, packet)[6] =
            TagCheck("hash_chain", packet, "chain_hash mismatch")
      BY DEF HashChainChecks
    <3>2. checks[6].holds
      BY <1>1, <2>1
    <3>3. QED
      BY <1>3, <2>1, <3>1, <3>2
  <2>4. PrevCheck(state, packet, "prev_hash mismatch").holds
    <3>1. HashChainChecks(state, packet)[7] =
            PrevCheck(state, packet, "prev_hash mismatch")
      BY DEF HashChainChecks
    <3>2. checks[7].holds
      BY <1>1, <2>1
    <3>3. QED
      BY <1>3, <2>1, <3>1, <3>2
  <2>5. QED
    BY <1>3, <2>2, OrderHolds, <2>3, TagHolds, <2>4, PrevHolds
<1>4. CASE p = "authenticated_hash_chain"
  <2>1. /\ checks = AuthHashChainChecks(state, packet)
        /\ Len(AuthHashChainChecks(state, packet)) = 8
    BY <1>4 DEF Checks, AuthHashChainChecks
  <2>2. OldCheck(state, packet).holds /\ GapCheck(state, packet).holds
    <3>1. /\ AuthHashChainChecks(state, packet)[1] = OldCheck(state, packet)
          /\ AuthHashChainChecks(state, packet)[2] = GapCheck(state, packet)
      BY DEF AuthHashChainChecks
    <3>2. checks[1].holds /\ checks[2].holds
      BY <1>1, <2>1
    <3>3. QED
      BY <1>4, <2>1, <3>1, <3>2
  <2>3. TagCheck(p, packet, "auth_tag mismatch").holds
    <3>1. AuthHashChainChecks(state, packet)[3] =
            TagCheck("authenticated_hash_chain", packet, "auth_tag mismatch")
      BY DEF AuthHashChainChecks
    <3>2. checks[3].holds
      BY <1>1, <2>1
    <3>3. QED
      BY <1>4, <2>1, <3>1, <3>2
  <2>4. PrevCheck(state, packet, "prev_hash mismatch").holds
    <3>1. AuthHashChainChecks(state, packet)[8] =
            PrevCheck(state, packet, "prev_hash mismatch")
      BY DEF AuthHashChainChecks
    <3>2. checks[8].holds
      BY <1>1, <2>1
    <3>3. QED
      BY <1>4, <2>1, <3>1, <3>2
  <2>5. QED
    BY <1>4, <2>2, OrderHolds, <2>3, TagHolds, <2>4, PrevHolds
<1>5. CASE p = "seq_mac"
  <2>1. /\ checks = SeqMacChecks(state, packet)
        /\ Len(SeqMacChecks(state, packet)) = 5
    BY <1>5 DEF Checks, SeqMacChecks
  <2>2. OldCheck(state, packet).holds /\ GapCheck(state, packet).holds
    <3>1. /\ SeqMacChecks(state, packet)[1] = OldCheck(state, packet)
          /\ SeqMacChecks(state, packet)[2] = GapCheck(state, packet)
      BY DEF SeqMacChecks
    <3>2. checks[1].holds /\ checks[2].holds
      BY <1>1, <2>1
    <3>3. QED
      BY <1>5, <2>1, <3>1, <3>2
  <2>3. TagCheck(p, packet, "mac mismatch").holds
    <3>1. SeqMacChecks(state, packet)[5] =
            TagCheck("seq_mac", packet, "mac mismatch")
      BY DEF SeqMacChecks
    <3>2. checks[5].holds
      BY <1>1, <2>1
    <3>3. QED
      BY <1>5, <2>1, <3>1, <3>2
  <2>4. QED
    BY <1>5, <2>2, OrderHolds, <2>3, TagHolds DEF Linked
<1>6. CASE p = "ticket_only"
  <2>1. /\ checks = TicketOnlyChecks(state, packet)
        /\ Len(TicketOnlyChecks(state, packet)) = 5
    BY <1>6 DEF Checks, TicketOnlyChecks
  <2>2. OldCheck(state, packet).holds /\ GapCheck(state, packet).holds
    <3>1. /\ TicketOnlyChecks(state, packet)[1] = OldCheck(state, packet)
          /\ TicketOnlyChecks(state, packet)[2] = GapCheck(state, packet)
      BY DEF TicketOnlyChecks
    <3>2. checks[1].holds /\ checks[2].holds
      BY <1>1, <2>1
    <3>3. QED
      BY <1>6, <2>1, <3>1, <3>2
  <2>3. QED
    BY <1>6, <2>2, OrderHolds DEF Linked
<1>7. QED
  BY <1>2, <1>3, <1>4, <1>5, <1>6 DEF Protocols

-----------------------------------------------------------------------------
(* Packets *)

\* What a client puts in a packet.
LEMMA BuildFields ==
  ASSUME NEW p, NEW session, NEW sender, NEW epoch, NEW seq, NEW prev, NEW payload
  PROVE  LET packet == Build(p, session, sender, epoch, seq, prev, payload) IN
         /\ packet.protocol = p /\ packet.session = session
         /\ packet.seq = seq /\ packet.payload = payload /\ packet.prev = prev
         /\ packet.sender = sender /\ packet.epoch = epoch
         /\ packet.payload_hash = payload
BY DEF Build

\* Another payload shows in the tag of every protocol whose tag covers it.
LEMMA AlteredShows ==
  ASSUME NEW p \in Protocols, p # "ticket_only", NEW S, NEW prev \in Seq(S),
         NEW session, NEW sender, NEW epoch, NEW seq,
         NEW payload \in S, NEW other \in S, other # payload
  PROVE  LET packet  == Build(p, session, sender, epoch, seq, prev, payload)
             altered == [packet EXCEPT !.payload = other]
         IN  altered.tag # Covered(p, altered)
<1> DEFINE packet == Build(p, session, sender, epoch, seq, prev, payload)
           altered == [packet EXCEPT !.payload = other]
<1>1. /\ packet.session = session /\ packet.sender = sender /\ packet.epoch = epoch
      /\ packet.seq = seq /\ packet.prev = prev /\ packet.payload_hash = payload
      /\ packet.payload = payload
  BY DEF Build
<1>2. /\ altered.session = session /\ altered.sender = sender
      /\ altered.epoch = epoch /\ altered.seq = seq /\ altered.prev = prev
      /\ altered.payload_hash = payload /\ altered.payload = other
      /\ altered.tag = packet.tag
  BY <1>1 DEF Build
<1>3. Append(prev, payload) # Append(prev, other)
  <2>1. /\ Append(prev, payload)[Len(prev) + 1] = payload
        /\ Append(prev, other)[Len(prev) + 1] = other
    OBVIOUS
  <2>2. QED
    BY <2>1
<1>4. packet.tag = Covered(p, packet)
  BY DEF Build, Covered, GmcpTag, HashChainTag, Link, AuthHashChainTag, SeqMacTag,
         TicketOnlyTag
<1>5. altered.tag # Covered(p, altered)
  <2> HIDE DEF packet, altered
  <2>1. CASE p = "gmcp"
    BY <1>1, <1>2, <1>4, <2>1 DEF Covered, GmcpTag
  <2>2. CASE p = "hash_chain"
    BY <1>1, <1>2, <1>3, <1>4, <2>2 DEF Covered, HashChainTag, Link
  <2>3. CASE p = "authenticated_hash_chain"
    BY <1>1, <1>2, <1>4, <2>3 DEF Covered, AuthHashChainTag
  <2>4. CASE p = "seq_mac"
    BY <1>1, <1>2, <1>4, <2>4 DEF Covered, SeqMacTag
  <2>5. QED
    BY <2>1, <2>2, <2>3, <2>4 DEF Protocols
<1>6. QED
  BY <1>5

-----------------------------------------------------------------------------
(* Types *)

Payloads == Conns \union {Altered}

\* What a hash or a memory is computed from.
Hash == Seq(Sessions \union Payloads)

Entry == [seq : Nat, hash : Hash]

State == [session : Sessions, sender : {CLIENT_ID}, epoch : {EPOCH},
          last_seq : Nat, last : Hash, hash_chain : Seq(Entry)]

Context == [state : State, accepted : Nat, rejected : Nat, total : Nat,
            log : Seq(Payloads)]

\* What a verifier may rely on in a packet a client built.  A payload changed
\* on the way shows in the tag of every protocol whose tag covers it.
GoodPacket(packet) ==
  /\ packet.protocol \in Spoken /\ packet.session \in Sessions
  /\ packet.seq \in Nat /\ packet.payload \in Payloads /\ packet.prev \in Hash
  /\ packet.protocol # "ticket_only" /\ packet.payload = Altered =>
       packet.tag # Covered(packet.protocol, packet)

Types ==
  /\ registry \in [Keys -> Context \union {Missing}]
  /\ owner \in [Keys -> Conns \union {NoConn}]
  /\ pc \in [Conns -> {"reading", "enter", "chain", "recover", "send"}]
  /\ line = [c \in Conns |-> line[c]]
  /\ reply = [c \in Conns |-> reply[c]]
  /\ bound = [c \in Conns |-> bound[c]]
  /\ \A ack \in acked : ack[1] \in Keys /\ ack[2] \in Nat \ {0}

-----------------------------------------------------------------------------
(* The inductive invariant *)

\* The history, from its session on, up to its n-th payload.
Prefix(k, log, n) == <<k[2]>> \o SubSeq(log, 1, n)

\* The first n entries a chain verifier keeps of a history.
ChainOf(k, log, n) == [i \in 1..n |-> [seq |-> i, hash |-> Prefix(k, log, i)]]

\* How many updates of a context are complete.
Complete(k) ==
  IF owner[k] = NoConn THEN Len(ContextOf(k).log) ELSE Len(ContextOf(k).log) - 1

\* What a context keeps is what its history says, n updates being complete.
Good(k, context, n) ==
  LET log == context.log IN
  /\ context \in Context /\ n \in 0..Len(log)
  /\ context.state.session = k[2]
  /\ context.state.last_seq = Len(log)
  /\ k[1] \in Linked => context.state.last = Prefix(k, log, Len(log))
  /\ k[1] \in Chained => context.state.hash_chain = ChainOf(k, log, n)
  /\ context.accepted = n
  /\ context.total = context.accepted + context.rejected
  /\ k[1] # "ticket_only" => \A i \in 1..Len(log) : log[i] # Altered

Sound(k) == Good(k, ContextOf(k), Complete(k))

Covers(chain, n, last) == Len(chain) >= n /\ (n > 0 => chain[n].hash = last)

Responses ==
  [type : {"RECOVERY_RESPONSE"}, ok : {TRUE}, reason : {"ok"}, key : Keys,
   server_last_seq : Nat, last : Hash, hash_chain : {<<>>}]

\* A response to a recovery, by the time it is sent.
Recovered(response) ==
  LET k == response.key IN
  /\ response \in Responses /\ Made(k)
  /\ k[1] \in Chained =>
       Covers(registry[k].state.hash_chain, response.server_last_seq, response.last)

\* A response to an accepted packet.
Acknowledged(c, seq) ==
  /\ KeyOf(c) \in Keys /\ Made(KeyOf(c))
  /\ seq \in 1..Len(registry[KeyOf(c)].log)
  /\ registry[KeyOf(c)].log[seq] = line[c].payload

Thread(c) ==
  /\ pc[c] = "enter" => GoodPacket(line[c])
  /\ pc[c] = "recover" => KeyOf(c) \in Keys
  /\ pc[c] = "chain" =>
       /\ KeyOf(c) \in Keys /\ owner[KeyOf(c)] = c
       /\ Acknowledged(c, registry[KeyOf(c)].state.last_seq)
  /\ pc[c] = "send" =>
       /\ reply[c].type = "DATA" /\ reply[c].ok => Acknowledged(c, reply[c].last_seq)
       /\ reply[c].type = "RECOVERY_RESPONSE" => Recovered(reply[c])

\* A lock is held for the key of the thread that holds it, in its update.
Owned(k) ==
  owner[k] # NoConn =>
    /\ Made(k) /\ owner[k] \in Conns
    /\ pc[owner[k]] = "chain" /\ KeyOf(owner[k]) = k

IInv ==
  /\ Types
  /\ \A k \in Keys : Sound(k) /\ Owned(k)
  /\ \A c \in Conns : Thread(c)
  /\ AckedInLog
  /\ AnswersCoverSnapshot

-----------------------------------------------------------------------------
(* Contexts *)

LEMMA KeyParts ==
  ASSUME NEW k \in Keys
  PROVE  /\ k[1] \in Spoken /\ k[1] \in Protocols /\ k[2] \in Sessions
         /\ k = <<k[1], k[2]>>
BY SpokenAssumption DEF Keys

LEMMA MissingIsNoContext ==
  Missing \notin Context
<1>1. ASSUME NEW context \in Context
      PROVE  context # Missing
  <2>1. "log" \in DOMAIN context
    BY DEF Context
  <2>2. "log" \notin DOMAIN Missing
    BY DEF Missing
  <2>3. QED
    BY <2>1, <2>2
<1>2. QED
  BY <1>1

LEMMA NewIsGood ==
  ASSUME NEW k \in Keys
  PROVE  Good(k, NewContext(k), 0) /\ NewContext(k).log = <<>>
<1>1. k[2] \in Sessions
  BY KeyParts
<1>2. InitialState(k[2], CLIENT_ID, EPOCH) \in State
  BY <1>1 DEF InitialState, State, Hash
<1>3. /\ NewContext(k) \in Context
      /\ NewContext(k).log = <<>>
      /\ NewContext(k).state.session = k[2]
      /\ NewContext(k).state.last_seq = 0
      /\ NewContext(k).state.last = <<k[2]>>
      /\ NewContext(k).state.hash_chain = <<>>
      /\ NewContext(k).accepted = 0 /\ NewContext(k).rejected = 0
      /\ NewContext(k).total = 0
  BY <1>2 DEF NewContext, Context, InitialState
<1>4. Prefix(k, <<>>, 0) = <<k[2]>>
  <2>1. SubSeq(<<>>, 1, 0) = <<>>
    OBVIOUS
  <2>2. <<k[2]>> \o <<>> = <<k[2]>>
    OBVIOUS
  <2>3. QED
    BY <2>1, <2>2 DEF Prefix
<1>5. ChainOf(k, <<>>, 0) = <<>>
  BY DEF ChainOf
<1>6. QED
  BY <1>3, <1>4, <1>5 DEF Good

\* The hash of a history with one more payload links the hash of the history,
\* and every earlier hash stays.
LEMMA PrefixSteps ==
  ASSUME NEW k \in Keys, NEW log \in Seq(Payloads), NEW payload \in Payloads
  PROVE  /\ Prefix(k, log, Len(log)) \in Hash
         /\ Append(log, payload) \in Seq(Payloads)
         /\ Len(Append(log, payload)) = Len(log) + 1
         /\ Prefix(k, Append(log, payload), Len(log) + 1) =
              Append(Prefix(k, log, Len(log)), payload)
         /\ \A n \in 0..Len(log) :
              Prefix(k, Append(log, payload), n) = Prefix(k, log, n)
<1> DEFINE S == Sessions \union Payloads
<1>1. k[2] \in S /\ payload \in S
  BY KeyParts
<1>2. log \in Seq(S)
  OBVIOUS
<1> HIDE DEF S
<1>3. SubSeq(log, 1, Len(log)) = log
  BY <1>2, SubSeqWhole
<1>4. /\ Append(log, payload) \in Seq(S)
      /\ Len(Append(log, payload)) = Len(log) + 1
  BY <1>1, <1>2
<1>5. SubSeq(Append(log, payload), 1, Len(log) + 1) = Append(log, payload)
  BY <1>4, SubSeqWhole
<1>6. <<k[2]>> \o Append(log, payload) = Append(<<k[2]>> \o log, payload)
  BY <1>1, <1>2
<1>7. <<k[2]>> \o log \in Seq(S)
  BY <1>1, <1>2
<1>8. \A n \in 0..Len(log) : SubSeq(Append(log, payload), 1, n) = SubSeq(log, 1, n)
  BY <1>1, <1>2, SubSeqOfAppend
<1>9. Append(log, payload) \in Seq(Payloads)
  OBVIOUS
<1>10. QED
  BY <1>3, <1>4, <1>5, <1>6, <1>7, <1>8, <1>9 DEF Prefix, Hash, S

LEMMA ChainSteps ==
  ASSUME NEW k \in Keys, NEW log \in Seq(Payloads), NEW payload \in Payloads
  PROVE  /\ ChainOf(k, Append(log, payload), Len(log)) = ChainOf(k, log, Len(log))
         /\ \A n \in 0..Len(log) : /\ ChainOf(k, log, n) \in Seq(Entry)
                                   /\ Len(ChainOf(k, log, n)) = n
         /\ \A n \in 1..Len(log) :
              /\ ChainOf(k, log, n) =
                   Append(ChainOf(k, log, n - 1), [seq |-> n, hash |-> Prefix(k, log, n)])
              /\ ChainOf(k, log, n)[n].hash = Prefix(k, log, n)
<1>1. \A i \in 1..Len(log) : Prefix(k, Append(log, payload), i) = Prefix(k, log, i)
  BY PrefixSteps
<1>2. \A n \in 0..Len(log) : Prefix(k, log, n) \in Hash
  <2>1. SUFFICES ASSUME NEW n \in 0..Len(log)
                 PROVE  <<k[2]>> \o SubSeq(log, 1, n) \in Hash
    BY DEF Prefix
  <2>2. SubSeq(log, 1, n) \in Seq(Payloads)
    OBVIOUS
  <2>3. QED
    BY <2>2, KeyParts DEF Hash
<1>3. ChainOf(k, Append(log, payload), Len(log)) = ChainOf(k, log, Len(log))
  BY <1>1 DEF ChainOf
<1>4. ASSUME NEW n \in 0..Len(log)
      PROVE  ChainOf(k, log, n) \in Seq(Entry) /\ Len(ChainOf(k, log, n)) = n
  BY <1>2 DEF ChainOf, Entry
<1>5. ASSUME NEW n \in 1..Len(log)
      PROVE  /\ ChainOf(k, log, n) =
                  Append(ChainOf(k, log, n - 1),
                         [seq |-> n, hash |-> Prefix(k, log, n)])
             /\ ChainOf(k, log, n)[n].hash = Prefix(k, log, n)
  <2> DEFINE e == [seq |-> n, hash |-> Prefix(k, log, n)]
             short == ChainOf(k, log, n - 1)
  <2>1. short \in Seq(Entry) /\ Len(short) = n - 1
    BY <1>4
  <2>2. \A i \in 1..(n - 1) : short[i] = [seq |-> i, hash |-> Prefix(k, log, i)]
    BY DEF ChainOf
  <2> HIDE DEF short
  <2>3. /\ Len(Append(short, e)) = n /\ Append(short, e)[n] = e
        /\ \A i \in 1..(n - 1) : Append(short, e)[i] = short[i]
        /\ Append(short, e) = [i \in 1..n |-> Append(short, e)[i]]
    BY <2>1
  <2>4. \A i \in 1..n : Append(short, e)[i] = [seq |-> i, hash |-> Prefix(k, log, i)]
    BY <2>2, <2>3
  <2>5. Append(short, e) = ChainOf(k, log, n)
    BY <2>3, <2>4 DEF ChainOf
  <2>6. QED
    BY <2>3, <2>5 DEF short
<1>6. QED
  BY <1>3, <1>4, <1>5

\* A context after the first assignment of an update, after the second, and
\* after a rejected packet.
Updated(k, context, packet) ==
  [context EXCEPT !.state = Advanced(k[1], context.state, packet),
                  !.log = Placed(context.log, packet)]

Completed(k, context) ==
  [context EXCEPT !.state = Chain(k[1], context.state),
                  !.total = context.total + 1,
                  !.accepted = context.accepted + 1]

Refused(context) ==
  [context EXCEPT !.total = context.total + 1, !.rejected = context.rejected + 1]

\* The first assignment of an update: the verdict makes the packet the next one
\* of the history, and its payload the one its client sent.
LEMMA GoodVerify ==
  ASSUME NEW k \in Keys, NEW context, Good(k, context, Len(context.log)),
         NEW packet, GoodPacket(packet), packet.protocol = k[1],
         Verdict(k[1], context.state, packet) = "ok"
  PROVE  LET new == Updated(k, context, packet) IN
             /\ Good(k, new, Len(context.log))
             /\ new.log = Append(context.log, packet.payload)
             /\ new.state.last_seq = Len(context.log) + 1
             /\ new.state.hash_chain = context.state.hash_chain
<1> DEFINE state == context.state
           log   == context.log
           after == Advanced(k[1], state, packet)
           new   == [context EXCEPT !.state = after, !.log = Placed(log, packet)]
           p     == packet.payload
<1>1. /\ context \in Context /\ state \in State /\ log \in Seq(Payloads)
      /\ Len(log) \in Nat /\ state.last_seq = Len(log)
  BY DEF Good, Context
<1>2. /\ packet.seq \in Nat /\ p \in Payloads /\ k[1] \in Protocols
      /\ packet.prev \in Hash
  BY KeyParts DEF GoodPacket
<1>3. /\ packet.seq > state.last_seq /\ packet.seq <= state.last_seq + 1
      /\ k[1] \in Linked => packet.prev = state.last
      /\ k[1] # "ticket_only" => packet.tag = Covered(k[1], packet)
  BY <1>2, Accepted
<1>4. packet.seq = Len(log) + 1
  BY <1>1, <1>2, <1>3
<1>5. Placed(log, packet) = Append(log, p)
  <2>1. packet.seq - 1 = Len(log)
    BY <1>1, <1>4
  <2>2. QED
    BY <1>1, <2>1, SubSeqWhole DEF Placed
<1>6. /\ after \in State
      /\ after.session = state.session /\ after.last_seq = Len(log) + 1
      /\ after.hash_chain = state.hash_chain
      /\ k[1] \in Linked => after.last = Append(packet.prev, p)
  <2>1. /\ state.session \in Sessions /\ state.sender = CLIENT_ID
        /\ state.epoch = EPOCH /\ state.last \in Hash
        /\ state.hash_chain \in Seq(Entry)
        /\ DOMAIN state =
             {"session", "sender", "epoch", "last_seq", "last", "hash_chain"}
    BY <1>1 DEF State
  <2>2. Append(packet.prev, p) \in Hash
    BY <1>2 DEF Hash
  <2>3. /\ after.session = state.session /\ after.sender = state.sender
        /\ after.epoch = state.epoch /\ after.last_seq = packet.seq
        /\ after.hash_chain = state.hash_chain
        /\ DOMAIN after = DOMAIN state
    BY <2>1 DEF Advanced
  <2>4. after.last =
          IF k[1] \in Linked THEN Append(packet.prev, p) ELSE state.last
    BY <2>1 DEF Advanced, Link
  <2>5. after.last \in Hash
    BY <2>1, <2>2, <2>4
  <2>6. after \in State
    BY <1>1, <1>2, <2>1, <2>3, <2>5 DEF Advanced, State
  <2>7. QED
    BY <1>4, <2>3, <2>4, <2>6
<1>7. /\ Prefix(k, log, Len(log)) \in Hash
      /\ Append(log, p) \in Seq(Payloads) /\ Len(Append(log, p)) = Len(log) + 1
      /\ Prefix(k, Append(log, p), Len(log) + 1) =
           Append(Prefix(k, log, Len(log)), p)
      /\ ChainOf(k, Append(log, p), Len(log)) = ChainOf(k, log, Len(log))
  BY <1>1, <1>2, PrefixSteps, ChainSteps
<1>8. /\ new \in Context /\ new.state = after /\ new.log = Append(log, p)
      /\ new.accepted = context.accepted /\ new.rejected = context.rejected
      /\ new.total = context.total
  BY <1>1, <1>5, <1>6, <1>7 DEF Context
<1>9. k[1] \in Linked =>
        new.state.last = Prefix(k, new.log, Len(new.log))
  BY <1>3, <1>6, <1>7, <1>8 DEF Good
<1>10. k[1] \in Chained =>
        new.state.hash_chain = ChainOf(k, new.log, Len(log))
  BY <1>6, <1>7, <1>8 DEF Good
<1>11. k[1] # "ticket_only" => \A i \in 1..Len(new.log) : new.log[i] # Altered
  <2>1. SUFFICES ASSUME k[1] # "ticket_only", NEW i \in 1..Len(log) + 1
                 PROVE  Append(log, p)[i] # Altered
    BY <1>7, <1>8
  <2>2. CASE i = Len(log) + 1
    <3>1. p # Altered
      BY <1>3, <2>1 DEF GoodPacket
    <3>2. QED
      BY <1>1, <2>2, <3>1
  <2>3. CASE i \in 1..Len(log)
    <3>1. Append(log, p)[i] = log[i]
      BY <1>1, <1>2, <2>3
    <3>2. QED
      BY <2>1, <2>3, <3>1 DEF Good
  <2>4. QED
    BY <1>1, <2>2, <2>3
<1> HIDE DEF new, after
<1>12. Good(k, new, Len(log))
  BY <1>1, <1>6, <1>7, <1>8, <1>9, <1>10, <1>11 DEF Good
<1>13. QED
  BY <1>6, <1>8, <1>12 DEF new, after, Updated

LEMMA GoodReject ==
  ASSUME NEW k \in Keys, NEW context, NEW n, Good(k, context, n)
  PROVE  LET new == Refused(context) IN
             /\ Good(k, new, n)
             /\ new.log = context.log /\ new.state = context.state
<1> DEFINE new == [context EXCEPT !.total = context.total + 1,
                                  !.rejected = context.rejected + 1]
<1>1. /\ context \in Context /\ context.accepted \in Nat
      /\ context.rejected \in Nat /\ context.total \in Nat
  BY DEF Good, Context
<1>2. /\ new \in Context /\ new.log = context.log /\ new.state = context.state
      /\ new.accepted = context.accepted
      /\ new.rejected = context.rejected + 1 /\ new.total = context.total + 1
  <2>1. /\ context.state \in State /\ context.log \in Seq(Payloads)
        /\ DOMAIN context = {"state", "accepted", "rejected", "total", "log"}
    BY <1>1 DEF Context
  <2>2. /\ new.log = context.log /\ new.state = context.state
        /\ new.accepted = context.accepted
        /\ new.rejected = context.rejected + 1 /\ new.total = context.total + 1
    BY <2>1
  <2>3. context.rejected + 1 \in Nat /\ context.total + 1 \in Nat
    BY <1>1
  <2>4. new \in Context
    BY <1>1, <2>1, <2>3 DEF Context
  <2>5. QED
    BY <2>2, <2>4
<1> HIDE DEF new
<1>3. new.total = new.accepted + new.rejected
  BY <1>1, <1>2 DEF Good
<1>4. Good(k, new, n)
  BY <1>2, <1>3 DEF Good
<1>5. QED
  BY <1>2, <1>4 DEF new, Refused

\* The second assignment, and the counters.
LEMMA GoodAccept ==
  ASSUME NEW k \in Keys, NEW context, Good(k, context, Len(context.log) - 1)
  PROVE  LET new == Completed(k, context) IN
             /\ Good(k, new, Len(context.log))
             /\ new.log = context.log
             /\ k[1] \in Chained =>
                  IsPrefix(context.state.hash_chain, new.state.hash_chain)
<1> DEFINE state == context.state
           log   == context.log
           after == Chain(k[1], state)
           new   == [context EXCEPT !.state = after,
                                    !.total = context.total + 1,
                                    !.accepted = context.accepted + 1]
           e     == [seq |-> state.last_seq, hash |-> state.last]
<1>1. /\ context \in Context /\ state \in State /\ log \in Seq(Payloads)
      /\ Len(log) \in Nat /\ state.last_seq = Len(log) /\ Len(log) \in 1..Len(log)
      /\ context.accepted \in Nat /\ context.rejected \in Nat
      /\ context.total \in Nat
  BY DEF Good, Context
<1>2. /\ after.session = state.session /\ after.last_seq = state.last_seq
      /\ after.last = state.last /\ after \in State
      /\ k[1] \in Chained => after.hash_chain = Append(state.hash_chain, e)
  <2>1. /\ state.session \in Sessions /\ state.sender = CLIENT_ID
        /\ state.epoch = EPOCH /\ state.last \in Hash
        /\ state.last_seq \in Nat /\ state.hash_chain \in Seq(Entry)
    BY <1>1 DEF State
  <2>2. e \in Entry
    BY <2>1 DEF Entry
  <2>3. Append(state.hash_chain, e) \in Seq(Entry)
    BY <2>1, <2>2
  <2>4. CASE k[1] \in Chained
    <3>1. after = [state EXCEPT !.hash_chain = Append(state.hash_chain, e)]
      BY <2>4 DEF Chain
    <3>2. QED
      BY <1>1, <2>1, <2>3, <3>1 DEF State
  <2>5. CASE k[1] \notin Chained
    BY <1>1, <2>5 DEF Chain
  <2>6. QED
    BY <2>4, <2>5
<1>3. /\ new \in Context /\ new.log = log /\ new.state = after
      /\ new.accepted = context.accepted + 1
      /\ new.rejected = context.rejected /\ new.total = context.total + 1
  <2>1. /\ DOMAIN context = {"state", "accepted", "rejected", "total", "log"}
    BY <1>1 DEF Context
  <2> HIDE DEF after
  <2>2. /\ new.log = log /\ new.state = after
        /\ new.accepted = context.accepted + 1
        /\ new.rejected = context.rejected /\ new.total = context.total + 1
    BY <2>1
  <2>3. context.accepted + 1 \in Nat /\ context.total + 1 \in Nat
    BY <1>1
  <2>4. new \in Context
    BY <1>1, <1>2, <2>1, <2>3 DEF Context
  <2>5. QED
    BY <2>2, <2>4
<1>4. k[1] \in Chained =>
        /\ after.hash_chain = ChainOf(k, log, Len(log))
        /\ IsPrefix(state.hash_chain, after.hash_chain)
  <2>1. SUFFICES ASSUME k[1] \in Chained
                 PROVE  /\ after.hash_chain = ChainOf(k, log, Len(log))
                        /\ IsPrefix(state.hash_chain, after.hash_chain)
    OBVIOUS
  <2>2. state.hash_chain = ChainOf(k, log, Len(log) - 1)
    BY <2>1 DEF Good
  <2>3. state.last = Prefix(k, log, Len(log))
    BY <2>1 DEF Good, Chained, Linked
  <2>4. Altered \in Payloads
    BY DEF Payloads
  <2>5. ChainOf(k, log, Len(log)) =
          Append(ChainOf(k, log, Len(log) - 1),
                 [seq |-> Len(log), hash |-> Prefix(k, log, Len(log))])
    BY <1>1, <2>4, ChainSteps
  <2>6. after.hash_chain = ChainOf(k, log, Len(log))
    BY <1>1, <1>2, <2>1, <2>2, <2>3, <2>5
  <2>7. state.hash_chain \in Seq(Entry) /\ e \in Entry
    BY <1>1 DEF State, Entry
  <2>8. IsPrefix(state.hash_chain, Append(state.hash_chain, e))
    BY <2>7, PrefixReflexive, PrefixOfAppend
  <2>9. QED
    BY <1>2, <2>1, <2>6, <2>8
<1> HIDE DEF new, after
<1>5. new.accepted = Len(log) /\ new.total = new.accepted + new.rejected
  BY <1>1, <1>3 DEF Good
<1>6. Good(k, new, Len(log))
  BY <1>1, <1>2, <1>3, <1>4, <1>5, KeyParts DEF Good, Chained, Linked
<1>7. QED
  BY <1>3, <1>4, <1>6 DEF new, after, Completed

-----------------------------------------------------------------------------
(* Packets *)

LEMMA PacketsBuilt ==
  ASSUME NEW c, NEW packet \in DataPackets(c)
  PROVE  \E k \in Keys : \E n \in 0..Len(ContextOf(k).log), e \in Epochs :
           \/ packet = Built(c, k, n, e)
           \/ packet = [Built(c, k, n, e) EXCEPT !.payload = Altered]
<1> DEFINE clean == UNION {{Built(c, k, n, e) :
                              n \in 0..Len(ContextOf(k).log), e \in Epochs} :
                            k \in Keys}
<1>1. packet \in clean \union {[p EXCEPT !.payload = Altered] : p \in clean}
  BY DEF DataPackets
<1>2. ASSUME NEW p \in clean
      PROVE  \E k \in Keys : \E n \in 0..Len(ContextOf(k).log), e \in Epochs :
               p = Built(c, k, n, e)
  OBVIOUS
<1> HIDE DEF clean
<1>3. \/ packet \in clean
      \/ \E p \in clean : packet = [p EXCEPT !.payload = Altered]
  BY <1>1
<1>4. QED
  BY <1>2, <1>3

LEMMA PacketsGood ==
  ASSUME NEW c \in Conns, NEW packet \in DataPackets(c),
         \A k \in Keys : ContextOf(k).log \in Seq(Payloads)
  PROVE  GoodPacket(packet)
<1>1. PICK k \in Keys :
        \E n \in 0..Len(ContextOf(k).log), e \in Epochs :
          \/ packet = Built(c, k, n, e)
          \/ packet = [Built(c, k, n, e) EXCEPT !.payload = Altered]
  BY PacketsBuilt
<1>2. PICK n \in 0..Len(ContextOf(k).log), e \in Epochs :
        \/ packet = Built(c, k, n, e)
        \/ packet = [Built(c, k, n, e) EXCEPT !.payload = Altered]
  BY <1>1
<1> DEFINE prev  == IF k[1] \in Linked THEN Prefix(k, ContextOf(k).log, n)
                    ELSE <<k[2]>>
           built == Built(c, k, n, e)
<1>3. /\ built.protocol = k[1] /\ built.session = k[2] /\ built.seq = n + 1
      /\ built.payload = c /\ built.prev = prev
  BY DEF Built, Build, Prefix
<1>4. c \in Payloads /\ Altered \in Payloads /\ c # Altered
  BY ConnsAssumption DEF Payloads
<1>5. prev \in Hash
  <2>1. CASE k[1] \in Linked
    <3>1. ContextOf(k).log \in Seq(Payloads)
      OBVIOUS
    <3>2. SubSeq(ContextOf(k).log, 1, n) \in Seq(Payloads)
      BY <3>1
    <3>3. QED
      BY <2>1, <3>2, KeyParts DEF Prefix, Hash
  <2>2. CASE k[1] \notin Linked
    BY <2>2, KeyParts DEF Hash
  <2>3. QED
    BY <2>1, <2>2
<1>6. n + 1 \in Nat
  BY <1>2
<1>7. CASE packet = built
  BY <1>3, <1>4, <1>5, <1>6, <1>7, KeyParts DEF GoodPacket
<1>8. CASE packet = [built EXCEPT !.payload = Altered]
  <2>1. /\ packet.protocol = k[1] /\ packet.session = k[2] /\ packet.seq = n + 1
        /\ packet.payload = Altered /\ packet.prev = prev
    BY <1>3, <1>8 DEF Built, Build, Prefix
  <2>2. k[1] # "ticket_only" => packet.tag # Covered(k[1], packet)
    <3>1. SUFFICES ASSUME k[1] # "ticket_only"
                   PROVE  packet.tag # Covered(k[1], packet)
      OBVIOUS
    <3>2. /\ prev \in Seq(Sessions \union Payloads) /\ k[1] \in Protocols
          /\ c \in Sessions \union Payloads /\ Altered \in Sessions \union Payloads
      BY <1>4, <1>5, KeyParts DEF Hash
    <3>3. built = Build(k[1], k[2], CLIENT_ID, e, n + 1, prev, c)
      BY DEF Built, Prefix
    <3> HIDE DEF built, prev
    <3>4. QED
      BY <1>4, <1>8, <3>1, <3>2, <3>3, AlteredShows
  <2>3. QED
    BY <1>4, <1>5, <1>6, <2>1, <2>2, KeyParts DEF GoodPacket
<1>9. QED
  BY <1>2, <1>7, <1>8

-----------------------------------------------------------------------------
(* What a step of a thread does to the server *)

\* A context stays, and what it keeps of its history only grows.
Grows(k) ==
  /\ Made(k) => Made(k)'
  /\ IsPrefix(ContextOf(k).log, ContextOf(k).log')
  /\ k[1] \in Chained =>
       IsPrefix(ContextOf(k).state.hash_chain, ContextOf(k).state.hash_chain')

\* A thread leaves the contexts alone that others have locked, and takes locks
\* for itself only.
ServerStep(c) ==
  /\ registry' \in [Keys -> Context \union {Missing}]
  /\ owner' \in [Keys -> Conns \union {NoConn}]
  /\ \A k \in Keys : Sound(k)' /\ Grows(k)
  /\ \A k \in Keys :
       owner[k] \notin {c, NoConn} =>
         owner'[k] = owner[k] /\ registry'[k] = registry[k]
  /\ \A k \in Keys : owner'[k] \in {owner[k], c, NoConn}

LEMMA ContextTyped ==
  ASSUME NEW k \in Keys, registry[k] \in Context \union {Missing}
  PROVE  /\ ContextOf(k) \in Context
         /\ ContextOf(k).log \in Seq(Payloads)
         /\ ContextOf(k).state.hash_chain \in Seq(Entry)
<1>1. ContextOf(k) \in Context
  BY NewIsGood DEF ContextOf, Made, Good
<1>2. ContextOf(k).state \in State
  BY <1>1 DEF Context
<1>3. QED
  BY <1>1, <1>2 DEF Context, State

LEMMA QuietServer ==
  ASSUME Types, \A k \in Keys : Sound(k), NEW c, UNCHANGED server
  PROVE  ServerStep(c)
<1>1. registry' = registry /\ owner' = owner
  BY DEF server
<1>2. ASSUME NEW k \in Keys
      PROVE  Sound(k)' /\ Grows(k)
  <2>1. ContextOf(k)' = ContextOf(k) /\ Complete(k)' = Complete(k)
        /\ Made(k)' = Made(k)
    BY <1>1 DEF ContextOf, Complete, Made
  <2>2. registry[k] \in Context \union {Missing}
    BY DEF Types
  <2>3. Sound(k)'
    BY <2>1 DEF Sound
  <2>4. Grows(k)
    BY <2>1, <2>2, ContextTyped, PrefixReflexive DEF Grows
  <2>5. QED
    BY <2>3, <2>4
<1>3. QED
  BY <1>1, <1>2 DEF ServerStep, Types

LEMMA OneContext ==
  ASSUME Types, \A j \in Keys : Sound(j), NEW c, NEW k \in Keys,
         NEW new, NEW o \in {c, NoConn}, c \in Conns, owner[k] \in {c, NoConn},
         registry' = [registry EXCEPT ![k] = new],
         owner' = [owner EXCEPT ![k] = o],
         NEW n, n = IF o = NoConn THEN Len(new.log) ELSE Len(new.log) - 1,
         Good(k, new, n),
         IsPrefix(ContextOf(k).log, new.log),
         k[1] \in Chained =>
           IsPrefix(ContextOf(k).state.hash_chain, new.state.hash_chain)
  PROVE  /\ ServerStep(c)
         /\ Made(k)' /\ registry'[k] = new /\ owner'[k] = o
<1>1. /\ registry \in [Keys -> Context \union {Missing}]
      /\ owner \in [Keys -> Conns \union {NoConn}]
  BY DEF Types
<1>2. new \in Context /\ new # Missing
  BY MissingIsNoContext DEF Good
<1>3. registry' \in [Keys -> Context \union {Missing}] /\ registry'[k] = new
  BY <1>1, <1>2
<1>4. owner' \in [Keys -> Conns \union {NoConn}] /\ owner'[k] = o
  BY <1>1
<1>5. Made(k)' /\ ContextOf(k)' = new
  BY <1>2, <1>3 DEF Made, ContextOf
<1>6. Sound(k)' /\ Grows(k)
  <2>1. Complete(k)' = IF o = NoConn THEN Len(new.log) ELSE Len(new.log) - 1
    BY <1>4, <1>5 DEF Complete
  <2>2. Sound(k)'
    BY <1>5, <2>1 DEF Sound
  <2>3. Grows(k)
    BY <1>5 DEF Grows
  <2>4. QED
    BY <2>2, <2>3
<1>7. ASSUME NEW j \in Keys, j # k
      PROVE  Sound(j)' /\ Grows(j) /\ owner'[j] = owner[j]
             /\ registry'[j] = registry[j]
  <2>1. registry'[j] = registry[j] /\ owner'[j] = owner[j]
    BY <1>1, <1>7
  <2>2. ContextOf(j)' = ContextOf(j) /\ Complete(j)' = Complete(j)
        /\ Made(j)' = Made(j)
    BY <2>1 DEF ContextOf, Complete, Made
  <2>3. Sound(j)'
    BY <2>2 DEF Sound
  <2>4. Grows(j)
    BY <1>1, <2>2, ContextTyped, PrefixReflexive DEF Grows
  <2>5. QED
    BY <2>1, <2>3, <2>4
<1>8. QED
  BY <1>3, <1>4, <1>5, <1>6, <1>7 DEF ServerStep

-----------------------------------------------------------------------------
(* What a step of a thread does to the thread *)

\* The variables of the other threads are theirs.
Local(c) ==
  /\ pc' \in [Conns -> {"reading", "enter", "chain", "recover", "send"}]
  /\ line' = [d \in Conns |-> line'[d]]
  /\ reply' = [d \in Conns |-> reply'[d]]
  /\ bound' = [d \in Conns |-> bound'[d]]
  /\ \A d \in Conns \ {c} :
       pc'[d] = pc[d] /\ line'[d] = line[d] /\ reply'[d] = reply[d]

\* What the thread has done is what its next step relies on.
Own(c) ==
  /\ Thread(c)'
  /\ \A k \in Keys :
       owner'[k] = c => Made(k)' /\ pc'[c] = "chain" /\ KeyOf(c)' = k

LEMMA LocalStep ==
  ASSUME Types, NEW c \in Conns,
         Verify(c) \/ Accept(c) \/ Recover(c) \/ Send(c) \/ Hello(c)
           \/ ReadData(c) \/ ReadRequest(c) \/ EndOfInput(c)
  PROVE  Local(c)
<1>1. /\ pc \in [Conns -> {"reading", "enter", "chain", "recover", "send"}]
      /\ line = [d \in Conns |-> line[d]]
      /\ reply = [d \in Conns |-> reply[d]]
      /\ bound = [d \in Conns |-> bound[d]]
  BY DEF Types
<1>2. CASE Verify(c)
  BY <1>1, <1>2 DEF Verify, Goto, Answer, Local
<1>3. CASE Accept(c)
  BY <1>1, <1>3 DEF Accept, Goto, Answer, Local
<1>4. CASE Recover(c)
  BY <1>1, <1>4 DEF Recover, Goto, Answer, Local
<1>5. CASE Send(c)
  BY <1>1, <1>5 DEF Send, Goto, Close, Local
<1>6. CASE Hello(c)
  BY <1>1, <1>6 DEF Hello, Goto, Answer, Local
<1>7. CASE ReadData(c)
  BY <1>1, <1>7 DEF ReadData, Goto, Answer, Local
<1>8. CASE ReadRequest(c)
  BY <1>1, <1>8 DEF ReadRequest, Goto, Answer, Local
<1>9. CASE EndOfInput(c)
  BY <1>1, <1>9 DEF EndOfInput, Goto, Close, Local
<1>10. QED
  BY <1>2, <1>3, <1>4, <1>5, <1>6, <1>7, <1>8, <1>9

\* A thread outside its update holds no lock.
LEMMA HoldsNone ==
  ASSUME \A k \in Keys : Owned(k), NEW c \in Conns, c # NoConn, pc[c] # "chain"
  PROVE  \A k \in Keys : owner[k] # c
BY DEF Owned

LEMMA VerifyKey ==
  ASSUME IInv, NEW c \in Conns, pc[c] = "enter"
  PROVE  /\ KeyOf(c) \in Keys /\ GoodPacket(line[c])
         /\ KeyOf(c)[1] = line[c].protocol
BY DEF IInv, Thread, GoodPacket, KeyOf, Keys

\* A packet that is accepted is the next of its session's history.
LEMMA VerifyAccepts ==
  ASSUME IInv, NEW c \in Conns, Verify(c), NEW k \in Keys, k = KeyOf(c),
         Verdict(k[1], ContextOf(k).state, line[c]) = "ok"
  PROVE  /\ ServerStep(c) /\ Own(c)
         /\ Made(k)'
         /\ registry'[k].log = Append(ContextOf(k).log, line[c].payload)
         /\ \A j \in Keys \ {k} : registry'[j] = registry[j]
<1>1. PICK context : context = ContextOf(k)
  OBVIOUS
<1>2. PICK new : new = Updated(k, context, line[c])
  OBVIOUS
<1>3. /\ pc[c] = "enter" /\ owner[k] = NoConn
      /\ owner' = [owner EXCEPT ![k] = c]
      /\ registry' = [registry EXCEPT ![k] = new]
      /\ pc' = [pc EXCEPT ![c] = "chain"]
      /\ line' = line /\ reply' = reply
  BY <1>1, <1>2 DEF Verify, Free, Goto, Updated
<1>4. /\ GoodPacket(line[c]) /\ line[c].protocol = k[1]
      /\ line[c].payload \in Payloads
  BY <1>3, VerifyKey DEF GoodPacket
<1>5. Types /\ (\A j \in Keys : Sound(j)) /\ (\A j \in Keys : Owned(j))
  BY DEF IInv
<1>6. Good(k, context, Len(context.log))
  BY <1>1, <1>3, <1>5 DEF Sound, Complete
<1>7. /\ Good(k, new, Len(context.log))
      /\ new.log = Append(context.log, line[c].payload)
      /\ new.state.last_seq = Len(context.log) + 1
      /\ new.state.hash_chain = context.state.hash_chain
  BY <1>1, <1>2, <1>4, <1>6, GoodVerify
<1>8. /\ context.log \in Seq(Payloads)
      /\ context.state.hash_chain \in Seq(Entry)
  BY <1>1, <1>5, ContextTyped DEF Types
<1>9. IsPrefix(context.log, new.log)
  BY <1>4, <1>7, <1>8, PrefixReflexive, PrefixOfAppend
<1>10. IsPrefix(context.state.hash_chain, new.state.hash_chain)
  BY <1>7, <1>8, PrefixReflexive
<1>11. Len(new.log) = Len(context.log) + 1 /\ Len(new.log) - 1 = Len(context.log)
  BY <1>4, <1>7, <1>8
<1>12. c # NoConn
  BY ConnsAssumption
<1>13. /\ ServerStep(c)
       /\ Made(k)' /\ registry'[k] = new /\ owner'[k] = c
  <2>1. Len(context.log) = IF c = NoConn THEN Len(new.log) ELSE Len(new.log) - 1
    BY <1>11, <1>12
  <2>2. c \in {c, NoConn} /\ owner[k] \in {c, NoConn}
    BY <1>3
  <2>3. QED
    BY <1>1, <1>3, <1>5, <1>7, <1>9, <1>10, <2>1, <2>2, OneContext
<1>14. pc'[c] = "chain" /\ KeyOf(c)' = k /\ line'[c] = line[c]
  BY <1>3, <1>5 DEF KeyOf, Types
<1>15. PICK seq : seq = new.state.last_seq
  OBVIOUS
<1>16. Acknowledged(c, seq)'
  <2>1. new.state.last_seq \in 1..Len(new.log)
    BY <1>7, <1>8, <1>11
  <2>2. new.log[new.state.last_seq] = line[c].payload
    BY <1>4, <1>7, <1>8
  <2>3. QED
    BY <1>15, <1>3, <1>13, <1>14, <2>1, <2>2 DEF Acknowledged
<1>17. Thread(c)'
  BY <1>15, <1>13, <1>14, <1>16 DEF Thread
<1>18. ASSUME NEW j \in Keys, owner'[j] = c
       PROVE  j = k
  BY <1>3, <1>5, <1>12, <1>18, HoldsNone DEF Types
<1>19. Own(c)
  BY <1>13, <1>14, <1>17, <1>18 DEF Own
<1>20. \A j \in Keys \ {k} : registry'[j] = registry[j]
  BY <1>3, <1>5 DEF Types
<1>21. QED
  BY <1>1, <1>7, <1>13, <1>19, <1>20

LEMMA VerifyRejects ==
  ASSUME IInv, NEW c \in Conns, Verify(c), NEW k \in Keys, k = KeyOf(c),
         Verdict(k[1], ContextOf(k).state, line[c]) # "ok"
  PROVE  /\ ServerStep(c) /\ Own(c)
         /\ \A j \in Keys : ContextOf(j).log' = ContextOf(j).log
<1>1. PICK context : context = ContextOf(k)
  OBVIOUS
<1>2. PICK new : new = Refused(context)
  OBVIOUS
<1>3. /\ pc[c] = "enter" /\ owner[k] = NoConn /\ owner' = owner
      /\ registry' = [registry EXCEPT ![k] = new]
      /\ pc' = [pc EXCEPT ![c] = "send"]
      /\ line' = line
  BY <1>1, <1>2 DEF Verify, Free, Goto, Answer, Refused
<1>4. \E reason, state :
        reply' = [reply EXCEPT ![c] = DataResponse(FALSE, reason, state)]
  BY DEF Verify, Answer
<1>5. Types /\ (\A j \in Keys : Sound(j)) /\ (\A j \in Keys : Owned(j))
  BY DEF IInv
<1>6. Good(k, context, Len(context.log))
  BY <1>1, <1>3, <1>5 DEF Sound, Complete
<1>7. /\ Good(k, new, Len(context.log))
      /\ new.log = context.log /\ new.state = context.state
  BY <1>2, <1>6, GoodReject
<1>8. /\ context.log \in Seq(Payloads)
      /\ context.state.hash_chain \in Seq(Entry)
  BY <1>1, <1>5, ContextTyped DEF Types
<1>9. /\ IsPrefix(context.log, new.log)
      /\ IsPrefix(context.state.hash_chain, new.state.hash_chain)
  BY <1>7, <1>8, PrefixReflexive
<1>10. c # NoConn
  BY ConnsAssumption
<1>11. owner' = [owner EXCEPT ![k] = NoConn]
  BY <1>3, <1>5 DEF Types
<1>12. ServerStep(c) /\ Made(k)' /\ registry'[k] = new /\ owner'[k] = NoConn
  <2>1. /\ NoConn \in {c, NoConn} /\ owner[k] \in {c, NoConn}
        /\ Len(context.log) =
             IF NoConn = NoConn THEN Len(new.log) ELSE Len(new.log) - 1
    BY <1>3, <1>7
  <2>2. /\ IsPrefix(ContextOf(k).log, new.log)
        /\ IsPrefix(ContextOf(k).state.hash_chain, new.state.hash_chain)
    BY <1>1, <1>9
  <2>3. QED
    <3>1. registry' = [registry EXCEPT ![k] = new]
      BY <1>3
    <3>2. \A j \in Keys : Sound(j)
      BY <1>5
    <3>3. Types
      BY <1>5
    <3>4. Good(k, new, Len(context.log))
      BY <1>7
    <3>5. QED
      BY <1>11, <2>1, <2>2, <3>1, <3>2, <3>3, <3>4, OneContext
<1>13. pc'[c] = "send" /\ reply'[c].type = "DATA" /\ ~reply'[c].ok
  BY <1>3, <1>4, <1>5 DEF Types, DataResponse
<1>14. Thread(c)'
  BY <1>13 DEF Thread
<1>15. \A j \in Keys : owner'[j] # c
  BY <1>3, <1>5, <1>10, HoldsNone
<1>16. ASSUME NEW j \in Keys
       PROVE  ContextOf(j).log' = ContextOf(j).log
  <2>1. CASE j = k
    BY <1>1, <1>7, <1>12, <2>1 DEF ContextOf
  <2>2. CASE j # k
    BY <1>3, <1>5, <2>2 DEF ContextOf, Made, Types
  <2>3. QED
    BY <2>1, <2>2
<1>17. QED
  BY <1>12, <1>14, <1>15, <1>16 DEF Own

\* The thread that holds the lock completes its update.
LEMMA AcceptStep ==
  ASSUME IInv, NEW c \in Conns, Accept(c)
  PROVE  /\ ServerStep(c) /\ Own(c)
         /\ \A j \in Keys : ContextOf(j).log' = ContextOf(j).log
<1>1. PICK k : k = KeyOf(c)
  OBVIOUS
<1>2. PICK context : context = registry[k]
  OBVIOUS
<1>3. PICK new : new = Completed(k, context)
  OBVIOUS
<1>4. PICK seq : seq = context.state.last_seq
  OBVIOUS
<1>5. /\ pc[c] = "chain"
      /\ owner' = [owner EXCEPT ![k] = NoConn]
      /\ registry' = [registry EXCEPT ![k] = new]
      /\ pc' = [pc EXCEPT ![c] = "send"]
      /\ reply' = [reply EXCEPT ![c] = DataResponse(TRUE, "ok", context.state)]
      /\ line' = line
  BY <1>1, <1>2, <1>3 DEF Accept, Release, Goto, Answer, Completed
<1>6. Types /\ (\A j \in Keys : Sound(j)) /\ (\A j \in Keys : Owned(j))
  BY DEF IInv
<1>7. k \in Keys /\ owner[k] = c /\ Acknowledged(c, seq)
  BY <1>1, <1>2, <1>4, <1>5 DEF IInv, Thread
<1>8. Made(k) /\ ContextOf(k) = context /\ c # NoConn
  BY <1>2, <1>6, <1>7, ConnsAssumption DEF Owned, ContextOf
<1>9. Good(k, context, Len(context.log) - 1)
  BY <1>6, <1>7, <1>8 DEF Sound, Complete
<1>10. /\ Good(k, new, Len(context.log))
       /\ new.log = context.log
       /\ k[1] \in Chained =>
            IsPrefix(context.state.hash_chain, new.state.hash_chain)
  BY <1>3, <1>7, <1>9, GoodAccept
<1>11. IsPrefix(context.log, new.log)
  BY <1>6, <1>7, <1>8, <1>10, ContextTyped, PrefixReflexive DEF Types
<1>12. ServerStep(c) /\ Made(k)' /\ registry'[k] = new /\ owner'[k] = NoConn
  <2>1. /\ NoConn \in {c, NoConn} /\ owner[k] \in {c, NoConn}
        /\ Len(context.log) =
             IF NoConn = NoConn THEN Len(new.log) ELSE Len(new.log) - 1
    BY <1>7, <1>10
  <2>2. QED
    BY <1>5, <1>6, <1>7, <1>8, <1>10, <1>11, <2>1, OneContext
<1>13. /\ pc'[c] = "send" /\ reply'[c].type = "DATA"
       /\ reply'[c].last_seq = seq
       /\ KeyOf(c)' = k /\ line'[c] = line[c]
  BY <1>1, <1>4, <1>5, <1>6 DEF Types, DataResponse, KeyOf
<1>14. Acknowledged(c, seq)'
  <2>1. seq \in 1..Len(context.log) /\ context.log[seq] = line[c].payload
    BY <1>1, <1>2, <1>7 DEF Acknowledged
  <2>2. QED
    BY <1>7, <1>10, <1>12, <1>13, <2>1 DEF Acknowledged
<1>15. Thread(c)'
  BY <1>13, <1>14 DEF Thread
<1>16. ASSUME NEW j \in Keys
       PROVE  owner'[j] # c
  <2>1. CASE j = k
    BY <1>8, <1>12, <2>1
  <2>2. CASE j # k
    <3>1. owner[j] # c
      BY <1>1, <1>6, <1>8, <2>2 DEF Owned
    <3>2. QED
      BY <1>5, <1>6, <2>2, <3>1 DEF Types
  <2>3. QED
    BY <2>1, <2>2
<1>17. ASSUME NEW j \in Keys
       PROVE  ContextOf(j).log' = ContextOf(j).log
  <2>1. CASE j = k
    BY <1>8, <1>10, <1>12, <2>1 DEF ContextOf
  <2>2. CASE j # k
    BY <1>5, <1>6, <2>2 DEF ContextOf, Made, Types
  <2>3. QED
    BY <2>1, <2>2
<1>18. QED
  BY <1>12, <1>15, <1>16, <1>17 DEF Own

\* A recovery reads a context nobody is updating.
LEMMA RecoverStep ==
  ASSUME IInv, NEW c \in Conns, Recover(c)
  PROVE  /\ ServerStep(c) /\ Own(c)
         /\ \A j \in Keys : ContextOf(j).log' = ContextOf(j).log
<1>1. PICK k : k = KeyOf(c)
  OBVIOUS
<1>2. PICK context : context = ContextOf(k)
  OBVIOUS
<1>3. PICK response : response = RecoveryResponse(k, context)
  OBVIOUS
<1>4. /\ pc[c] = "recover" /\ owner[k] = NoConn /\ owner' = owner
      /\ registry' = [registry EXCEPT ![k] = context]
      /\ pc' = [pc EXCEPT ![c] = "send"]
      /\ reply' = [reply EXCEPT ![c] = response]
      /\ line' = line
  BY <1>1, <1>2, <1>3 DEF Recover, Free, Goto, Answer
<1>5. Types /\ (\A j \in Keys : Sound(j)) /\ (\A j \in Keys : Owned(j))
  BY DEF IInv
<1>6. k \in Keys
  BY <1>1, <1>4 DEF IInv, Thread
<1>7. Good(k, context, Len(context.log))
  BY <1>2, <1>4, <1>5, <1>6 DEF Sound, Complete
<1>8. /\ context.log \in Seq(Payloads)
      /\ context.state.hash_chain \in Seq(Entry)
      /\ context.state.last_seq \in Nat /\ context.state.last \in Hash
  <2>1. context \in Context /\ context.state \in State
    BY <1>7 DEF Good, Context
  <2>2. QED
    BY <2>1 DEF Context, State
<1>9. /\ IsPrefix(context.log, context.log)
      /\ IsPrefix(context.state.hash_chain, context.state.hash_chain)
  BY <1>8, PrefixReflexive
<1>10. c # NoConn
  BY ConnsAssumption
<1>11. owner' = [owner EXCEPT ![k] = NoConn]
  BY <1>4, <1>5 DEF Types
<1>12. ServerStep(c) /\ Made(k)' /\ registry'[k] = context /\ owner'[k] = NoConn
  <2>1. /\ NoConn \in {c, NoConn} /\ owner[k] \in {c, NoConn}
        /\ Len(context.log) =
             IF NoConn = NoConn THEN Len(context.log) ELSE Len(context.log) - 1
    BY <1>4
  <2>2. QED
    BY <1>2, <1>4, <1>5, <1>6, <1>7, <1>9, <1>11, <2>1, OneContext
<1>13. /\ pc'[c] = "send" /\ reply'[c] = response
       /\ response.type = "RECOVERY_RESPONSE" /\ response.key = k
       /\ response.server_last_seq = context.state.last_seq
       /\ response.last = context.state.last
  BY <1>3, <1>4, <1>5 DEF Types, RecoveryResponse
<1>14. response \in Responses
  BY <1>3, <1>6, <1>8 DEF RecoveryResponse, Responses
<1>15. k[1] \in Chained =>
         Covers(context.state.hash_chain, context.state.last_seq, context.state.last)
  <2>1. SUFFICES ASSUME k[1] \in Chained
                 PROVE  Covers(context.state.hash_chain, context.state.last_seq,
                               context.state.last)
    OBVIOUS
  <2>2. /\ context.state.hash_chain = ChainOf(k, context.log, Len(context.log))
        /\ context.state.last = Prefix(k, context.log, Len(context.log))
        /\ context.state.last_seq = Len(context.log)
    BY <1>7, <2>1 DEF Good, Linked, Chained
  <2>3. Altered \in Payloads /\ Len(context.log) \in Nat
    BY <1>8 DEF Payloads
  <2>4. Len(ChainOf(k, context.log, Len(context.log))) = Len(context.log)
    BY <1>6, <1>8, <2>3, ChainSteps
  <2>5. Len(context.log) > 0 =>
          ChainOf(k, context.log, Len(context.log))[Len(context.log)].hash =
            Prefix(k, context.log, Len(context.log))
    <3>1. Len(context.log) > 0 => Len(context.log) \in 1..Len(context.log)
      BY <2>3
    <3>2. QED
      BY <1>6, <1>8, <2>3, <3>1, ChainSteps
  <2>6. QED
    BY <2>2, <2>3, <2>4, <2>5 DEF Covers
<1>16. Recovered(response)'
  BY <1>12, <1>13, <1>14, <1>15 DEF Recovered
<1>17. Thread(c)'
  BY <1>13, <1>16 DEF Thread
<1>18. \A j \in Keys : owner'[j] # c
  BY <1>4, <1>5, <1>10, HoldsNone
<1>19. ASSUME NEW j \in Keys
       PROVE  ContextOf(j).log' = ContextOf(j).log
  <2>1. CASE j = k
    BY <1>2, <1>12, <2>1 DEF ContextOf
  <2>2. CASE j # k
    BY <1>4, <1>5, <2>2 DEF ContextOf, Made, Types
  <2>3. QED
    BY <2>1, <2>2
<1>20. QED
  BY <1>12, <1>17, <1>18, <1>19 DEF Own

\* Reading a line leaves the server alone, and hands the next step a packet a
\* client built, or a request for a protocol the server supports.
LEMMA ReadStep ==
  ASSUME IInv, NEW c \in Conns,
         Hello(c) \/ ReadData(c) \/ ReadRequest(c) \/ EndOfInput(c)
  PROVE  /\ ServerStep(c) /\ Own(c)
         /\ UNCHANGED <<registry, acked, answers>>
<1>1. /\ UNCHANGED server /\ UNCHANGED <<registry, acked, answers>>
      /\ pc[c] = "reading"
  BY DEF Hello, ReadData, ReadRequest, EndOfInput, server, clients
<1>2. Types /\ (\A k \in Keys : Sound(k)) /\ (\A k \in Keys : Owned(k))
  BY DEF IInv
<1>3. ServerStep(c)
  BY <1>1, <1>2, QuietServer
<1>4. \A k \in Keys : owner'[k] # c
  BY <1>1, <1>2, ConnsAssumption, HoldsNone DEF server
<1>5. Thread(c)'
  <2>1. CASE Hello(c)
    <3>1. PICK response :
            Answer(c, response) /\ response.type \in {"HELLO_ACK", "REFUSAL"}
      <4>1. [type |-> "HELLO_ACK", ok |-> TRUE, reason |-> "ok"].type = "HELLO_ACK"
        OBVIOUS
      <4>2. Refusal("HELLO auth_tag invalid").type = "REFUSAL"
        BY DEF Refusal
      <4>3. QED
        BY <2>1, <4>1, <4>2 DEF Hello
    <3>2. pc'[c] = "send" /\ reply'[c] = response
      BY <1>2, <3>1 DEF Answer, Goto, Types
    <3>3. QED
      BY <3>1, <3>2 DEF Thread
  <2>2. CASE ReadData(c)
    <3>1. \/ \E packet \in DataPackets(c) :
                line' = [line EXCEPT ![c] = packet] /\ Goto(c, "enter")
          \/ \E refusal : Answer(c, Refusal(refusal))
      BY <2>2 DEF ReadData
    <3>2. \A k \in Keys : ContextOf(k).log \in Seq(Payloads)
      BY <1>2, ContextTyped DEF Types
    <3>3. ASSUME NEW packet \in DataPackets(c),
                 line' = [line EXCEPT ![c] = packet], Goto(c, "enter")
          PROVE  Thread(c)'
      <4>1. pc'[c] = "enter" /\ line'[c] = packet
        BY <1>2, <3>3 DEF Goto, Types
      <4>2. GoodPacket(packet)
        BY <3>2, PacketsGood
      <4>3. GoodPacket(line[c])'
        BY <4>1, <4>2 DEF GoodPacket
      <4>4. QED
        BY <4>1, <4>3 DEF Thread
    <3>4. CASE \E refusal : Answer(c, Refusal(refusal))
      <4>1. pc'[c] = "send" /\ reply'[c].type = "REFUSAL"
        BY <1>2, <3>4 DEF Answer, Goto, Refusal, Types
      <4>2. QED
        BY <4>1 DEF Thread
    <3>5. QED
      BY <3>1, <3>3, <3>4
  <2>3. CASE ReadRequest(c)
    <3>1. PICK request \in Requests, tag_valid \in BOOLEAN :
            \/ /\ RequestRefusal(c, request, tag_valid) = "none"
               /\ line' = [line EXCEPT ![c] = request]
               /\ Goto(c, "recover")
            \/ \E refusal : Answer(c, Refusal(refusal))
      BY <2>3 DEF ReadRequest
    <3>2. CASE /\ RequestRefusal(c, request, tag_valid) = "none"
               /\ line' = [line EXCEPT ![c] = request]
               /\ Goto(c, "recover")
      <4>1. request.protocol \in Protocols
        BY <3>2 DEF RequestRefusal
      <4>2. request.protocol \in Spoken /\ request.session \in Sessions
        BY <4>1 DEF Requests, Named, Protocols
      <4>3. pc'[c] = "recover" /\ line'[c] = request
        BY <1>2, <3>2 DEF Goto, Types
      <4>4. (KeyOf(c) \in Keys)'
        BY <4>2, <4>3 DEF KeyOf, Keys
      <4>5. QED
        BY <4>3, <4>4 DEF Thread
    <3>3. CASE \E refusal : Answer(c, Refusal(refusal))
      <4>1. pc'[c] = "send" /\ reply'[c].type = "REFUSAL"
        BY <1>2, <3>3 DEF Answer, Goto, Refusal, Types
      <4>2. QED
        BY <4>1 DEF Thread
    <3>4. QED
      BY <3>1, <3>2, <3>3
  <2>4. CASE EndOfInput(c)
    <3>1. pc'[c] = "reading"
      BY <1>2, <2>4 DEF EndOfInput, Close, Goto, Types
    <3>2. QED
      BY <3>1 DEF Thread
  <2>5. QED
    BY <2>1, <2>2, <2>3, <2>4
<1>6. QED
  BY <1>1, <1>3, <1>4, <1>5 DEF Own

LEMMA SendStep ==
  ASSUME IInv, NEW c \in Conns, Send(c)
  PROVE  /\ ServerStep(c) /\ Own(c)
         /\ UNCHANGED registry
<1>1. UNCHANGED server /\ UNCHANGED registry /\ pc[c] = "send"
  BY DEF Send, server
<1>2. Types /\ (\A k \in Keys : Sound(k)) /\ (\A k \in Keys : Owned(k))
  BY DEF IInv
<1>3. ServerStep(c)
  BY <1>1, <1>2, QuietServer
<1>4. \A k \in Keys : owner'[k] # c
  BY <1>1, <1>2, ConnsAssumption, HoldsNone DEF server
<1>5. pc'[c] = "reading"
  BY <1>2 DEF Send, Close, Goto, Types
<1>6. Thread(c)'
  BY <1>5 DEF Thread
<1>7. QED
  BY <1>1, <1>3, <1>4, <1>6 DEF Own

-----------------------------------------------------------------------------
(* The other threads, and the clients *)

\* What a context has acknowledged stays acknowledged.
LEMMA AcknowledgedStays ==
  ASSUME Types, registry' \in [Keys -> Context \union {Missing}],
         NEW k \in Keys, Grows(k), Made(k),
         NEW seq \in 1..Len(registry[k].log)
  PROVE  /\ Made(k)' /\ seq \in 1..Len(registry'[k].log)
         /\ registry'[k].log[seq] = registry[k].log[seq]
<1>1. /\ Made(k)' /\ ContextOf(k) = registry[k] /\ ContextOf(k)' = registry'[k]
  BY DEF Grows, ContextOf, Made
<1>2. /\ registry[k].log \in Seq(Payloads)
      /\ registry'[k].log \in Seq(Payloads)
  BY <1>1 DEF Types, Made, Context
<1>3. IsPrefix(registry[k].log, registry'[k].log)
  BY <1>1 DEF Grows
<1>4. /\ Len(registry[k].log) <= Len(registry'[k].log)
      /\ \A i \in 1..Len(registry[k].log) :
           registry[k].log[i] = registry'[k].log[i]
  BY <1>2, <1>3, PrefixElements
<1>5. QED
  BY <1>1, <1>2, <1>4

LEMMA CoversStays ==
  ASSUME Types, registry' \in [Keys -> Context \union {Missing}],
         NEW k \in Keys, Grows(k), Made(k), k[1] \in Chained,
         NEW n \in Nat, NEW last, Covers(registry[k].state.hash_chain, n, last)
  PROVE  Covers(registry'[k].state.hash_chain, n, last)
<1>1. /\ Made(k)' /\ ContextOf(k) = registry[k] /\ ContextOf(k)' = registry'[k]
  BY DEF Grows, ContextOf, Made
<1>2. registry[k].state \in State /\ registry'[k].state \in State
  BY <1>1 DEF Types, Made, Context
<1>3. PICK old \in Seq(Entry) : old = registry[k].state.hash_chain
  BY <1>2 DEF State
<1>4. PICK new \in Seq(Entry) : new = registry'[k].state.hash_chain
  BY <1>2 DEF State
<1>5. IsPrefix(old, new)
  BY <1>1, <1>3, <1>4 DEF Grows
<1>6. Len(old) <= Len(new) /\ \A i \in 1..Len(old) : old[i] = new[i]
  BY <1>5, PrefixElements
<1>7. QED
  BY <1>3, <1>4, <1>6 DEF Covers

\* A thread that does nothing can still rely on what it could rely on.
LEMMA OthersKept ==
  ASSUME IInv, NEW c \in Conns, ServerStep(c), Local(c), NEW d \in Conns \ {c}
  PROVE  Thread(d)'
<1>1. pc'[d] = pc[d] /\ line'[d] = line[d] /\ reply'[d] = reply[d]
  BY DEF Local
<1>2. PICK k : k = KeyOf(d)
  OBVIOUS
<1>3. KeyOf(d)' = k
  BY <1>1, <1>2 DEF KeyOf
<1>4. Types /\ Thread(d) /\ registry' \in [Keys -> Context \union {Missing}]
  BY DEF IInv, ServerStep
<1>5. ASSUME NEW seq, Acknowledged(d, seq)
      PROVE  Acknowledged(d, seq)'
  <2>1. /\ k \in Keys /\ Made(k) /\ seq \in 1..Len(registry[k].log)
        /\ registry[k].log[seq] = line[d].payload
    BY <1>2, <1>5 DEF Acknowledged
  <2>2. /\ Made(k)' /\ seq \in 1..Len(registry'[k].log)
        /\ registry'[k].log[seq] = registry[k].log[seq]
    BY <1>4, <2>1, AcknowledgedStays DEF ServerStep
  <2>3. QED
    BY <1>1, <1>3, <2>1, <2>2 DEF Acknowledged
<1>6. CASE pc[d] = "enter"
  <2>1. PICK packet : packet = line[d] /\ GoodPacket(packet)
    BY <1>4, <1>6 DEF Thread
  <2>2. line'[d] = packet /\ pc'[d] = "enter"
    BY <1>1, <1>6, <2>1
  <2>3. GoodPacket(line[d])'
    BY <2>1, <2>2 DEF GoodPacket
  <2>4. QED
    BY <2>2, <2>3 DEF Thread
<1>7. CASE pc[d] = "recover"
  <2>1. k \in Keys
    BY <1>2, <1>4, <1>7 DEF Thread
  <2>2. QED
    BY <1>1, <1>3, <1>7, <2>1 DEF Thread, Keys
<1>8. CASE pc[d] = "chain"
  <2>1. PICK seq : seq = registry[k].state.last_seq
    OBVIOUS
  <2>2. k \in Keys /\ owner[k] = d /\ Acknowledged(d, seq)
    BY <1>2, <1>4, <1>8, <2>1 DEF Thread
  <2>3. d \notin {c, NoConn}
    BY ConnsAssumption
  <2>4. owner'[k] = d /\ registry'[k] = registry[k]
    BY <2>2, <2>3 DEF ServerStep
  <2>5. Acknowledged(d, seq)'
    BY <1>5, <2>2
  <2>6. QED
    BY <1>1, <1>3, <1>8, <2>1, <2>2, <2>4, <2>5 DEF Thread, Keys
<1>9. CASE pc[d] = "send"
  <2>1. PICK response : response = reply[d]
    OBVIOUS
  <2>2. ASSUME response.type = "DATA", response.ok
        PROVE  Acknowledged(d, response.last_seq)'
    <3>1. PICK seq : seq = response.last_seq
      OBVIOUS
    <3>2. Acknowledged(d, seq)
      BY <1>4, <1>9, <2>1, <2>2, <3>1 DEF Thread
    <3>3. Acknowledged(d, seq)'
      BY <1>5, <3>2
    <3>4. QED
      BY <3>1, <3>3
  <2>3. ASSUME response.type = "RECOVERY_RESPONSE"
        PROVE  Recovered(response)'
    <3>1. Recovered(response)
      BY <1>4, <1>9, <2>1, <2>3 DEF Thread
    <3>2. PICK j \in Keys : j = response.key
      BY <3>1 DEF Recovered, Responses
    <3>3. response \in Responses /\ Made(j) /\ response.server_last_seq \in Nat
      BY <3>1, <3>2 DEF Recovered, Responses
    <3>4. Made(j)'
      BY <3>3 DEF ServerStep, Grows
    <3>5. j[1] \in Chained =>
            Covers(registry'[j].state.hash_chain, response.server_last_seq,
                   response.last)
      BY <1>4, <3>1, <3>2, <3>3, CoversStays DEF Recovered, ServerStep
    <3>6. QED
      BY <3>2, <3>3, <3>4, <3>5 DEF Recovered
  <2>4. pc'[d] = "send" /\ reply'[d] = response
    BY <1>1, <1>9, <2>1
  <2>5. QED
    BY <2>2, <2>3, <2>4 DEF Thread
<1>10. CASE pc[d] = "reading"
  BY <1>1, <1>10 DEF Thread
<1>11. QED
  BY <1>4, <1>6, <1>7, <1>8, <1>9, <1>10 DEF Types

LEMMA OwnedKept ==
  ASSUME IInv, NEW c \in Conns, ServerStep(c), Local(c), Own(c), NEW k \in Keys
  PROVE  Owned(k)'
<1>1. CASE owner'[k] = NoConn
  BY <1>1 DEF Owned
<1>2. CASE owner'[k] = c
  BY <1>2 DEF Own, Owned
<1>3. CASE owner'[k] \notin {c, NoConn}
  <2>1. PICK d \in Conns \ {c} : owner[k] = d /\ owner'[k] = d
    BY <1>3 DEF ServerStep
  <2>2. Made(k) /\ pc[d] = "chain" /\ KeyOf(d) = k
    BY <1>3, <2>1 DEF IInv, Owned
  <2>3. pc'[d] = "chain" /\ KeyOf(d)' = k
    BY <2>1, <2>2 DEF Local, KeyOf
  <2>4. Made(k)'
    BY <2>2 DEF ServerStep, Grows
  <2>5. QED
    BY <2>1, <2>3, <2>4 DEF Owned
<1>4. QED
  BY <1>1, <1>2, <1>3

\* What was acknowledged to a client stays in its place.
LEMMA AckedKept ==
  ASSUME IInv, NEW c \in Conns, ServerStep(c), NEW ack \in acked
  PROVE  /\ ack[1] \in Keys /\ ack[2] \in Nat \ {0}
         /\ ack[2] <= Len(Logs[ack[1]]') /\ Logs[ack[1]]'[ack[2]] = ack[3]
<1>1. PICK k \in Keys : k = ack[1]
  BY DEF IInv, Types
<1>2. PICK seq \in Nat \ {0} : seq = ack[2]
  BY DEF IInv, Types
<1>3. PICK old \in Seq(Payloads) : old = ContextOf(k).log
  BY ContextTyped DEF IInv, Types
<1>4. PICK new \in Seq(Payloads) : new = ContextOf(k).log'
  BY DEF ServerStep, Sound, Good, Context
<1>5. Logs[k] = old /\ Logs[k]' = new
  BY <1>3, <1>4 DEF Logs
<1>6. seq <= Len(old) /\ old[seq] = ack[3]
  BY <1>1, <1>2, <1>5 DEF IInv, AckedInLog
<1>7. IsPrefix(old, new)
  BY <1>3, <1>4 DEF ServerStep, Grows
<1>8. Len(old) <= Len(new) /\ \A i \in 1..Len(old) : old[i] = new[i]
  BY <1>7, PrefixElements
<1>9. QED
  BY <1>1, <1>2, <1>5, <1>6, <1>8

\* What a client receives with an acknowledgement is in the history.
LEMMA AckedSent ==
  ASSUME IInv, NEW c \in Conns, Send(c), reply[c].type = "DATA", reply[c].ok
  PROVE  /\ KeyOf(c) \in Keys /\ reply[c].last_seq \in Nat \ {0}
         /\ reply[c].last_seq <= Len(Logs[KeyOf(c)])
         /\ Logs[KeyOf(c)][reply[c].last_seq] = line[c].payload
<1>1. Acknowledged(c, reply[c].last_seq)
  BY DEF IInv, Thread, Send
<1>2. PICK k \in Keys : k = KeyOf(c) /\ Made(k)
  BY <1>1 DEF Acknowledged
<1>3. PICK log \in Seq(Payloads) : log = registry[k].log
  BY <1>2 DEF IInv, Types, Made, Context
<1>4. Logs[k] = log
  BY <1>2, <1>3 DEF Logs, ContextOf
<1>5. reply[c].last_seq \in 1..Len(log) /\ log[reply[c].last_seq] = line[c].payload
  BY <1>1, <1>2, <1>3 DEF Acknowledged
<1>6. QED
  BY <1>2, <1>3, <1>4, <1>5

LEMMA AckedNext ==
  ASSUME IInv, NEW c \in Conns, ServerStep(c), registry' = registry \/ acked' = acked,
         Send(c) \/ acked' = acked
  PROVE  /\ \A ack \in acked' : ack[1] \in Keys /\ ack[2] \in Nat \ {0}
         /\ AckedInLog'
<1>1. ASSUME NEW ack \in acked'
      PROVE  /\ ack[1] \in Keys /\ ack[2] \in Nat \ {0}
             /\ ack[2] <= Len(Logs[ack[1]]') /\ Logs[ack[1]]'[ack[2]] = ack[3]
  <2>1. CASE ack \in acked
    BY <2>1, AckedKept
  <2>2. CASE ack \notin acked
    <3>1. /\ Send(c) /\ reply[c].type = "DATA" /\ reply[c].ok
          /\ ack = <<KeyOf(c), reply[c].last_seq, line[c].payload>>
          /\ registry' = registry
      BY <1>1, <2>2 DEF Send
    <3>2. PICK k, seq, payload :
            k = KeyOf(c) /\ seq = reply[c].last_seq /\ payload = line[c].payload
      OBVIOUS
    <3>3. /\ k \in Keys /\ seq \in Nat \ {0} /\ seq <= Len(Logs[k])
          /\ Logs[k][seq] = payload
      BY <3>1, <3>2, AckedSent
    <3>4. Logs[k]' = Logs[k]
      BY <3>1, <3>3 DEF Logs, ContextOf, Made
    <3>5. ack[1] = k /\ ack[2] = seq /\ ack[3] = payload
      BY <3>1, <3>2
    <3>6. QED
      BY <3>3, <3>4, <3>5
  <2>3. QED
    BY <2>1, <2>2
<1>2. AckedInLog'
  BY <1>1 DEF AckedInLog
<1>3. QED
  BY <1>1, <1>2

\* The chain an answer is sent with covers what was read under the lock.
LEMMA AnswersNext ==
  ASSUME IInv, NEW c \in Conns, Send(c) \/ answers' = answers
  PROVE  AnswersCoverSnapshot'
<1>1. ASSUME NEW answer \in answers', answer.key[1] \in Chained
      PROVE  Covers(answer.hash_chain, answer.server_last_seq, answer.last)
  <2>1. CASE answer \in answers
    BY <1>1, <2>1 DEF IInv, AnswersCoverSnapshot, Covers
  <2>2. CASE answer \notin answers
    <3>1. PICK response : response = reply[c]
      OBVIOUS
    <3>2. /\ pc[c] = "send" /\ response.type = "RECOVERY_RESPONSE"
          /\ answer = [response EXCEPT !.hash_chain =
                         registry[response.key].state.hash_chain]
      BY <1>1, <2>2, <3>1 DEF Send
    <3>3. Recovered(response)
      BY <3>1, <3>2 DEF IInv, Thread
    <3>4. /\ answer.key = response.key /\ answer.last = response.last
          /\ answer.server_last_seq = response.server_last_seq
          /\ answer.hash_chain = registry[response.key].state.hash_chain
      BY <3>2, <3>3 DEF Recovered, Responses
    <3>5. QED
      BY <1>1, <3>3, <3>4 DEF Recovered
  <2>3. QED
    BY <2>1, <2>2
<1>2. QED
  BY <1>1 DEF AnswersCoverSnapshot, Covers

-----------------------------------------------------------------------------
(* The invariant *)

\* Each action is a step of one thread.
LEMMA ThreadStep ==
  ASSUME IInv, NEW c \in Conns,
         Serve(c) \/ Hello(c) \/ ReadData(c) \/ ReadRequest(c) \/ EndOfInput(c)
  PROVE  /\ ServerStep(c) /\ Own(c) /\ Local(c)
         /\ registry' = registry \/ acked' = acked
         /\ Send(c) \/ (acked' = acked /\ answers' = answers)
<1>1. Types
  BY DEF IInv
<1>2. CASE Verify(c)
  <2>1. PICK k \in Keys : k = KeyOf(c)
    BY <1>2, VerifyKey DEF Verify
  <2>2. ServerStep(c) /\ Own(c)
    BY <1>2, <2>1, VerifyAccepts, VerifyRejects
  <2>3. acked' = acked /\ answers' = answers
    BY <1>2 DEF Verify, clients
  <2>4. QED
    BY <1>1, <1>2, <2>2, <2>3, LocalStep
<1>3. CASE Accept(c)
  <2>1. acked' = acked /\ answers' = answers
    BY <1>3 DEF Accept, clients
  <2>2. QED
    BY <1>1, <1>3, <2>1, AcceptStep, LocalStep
<1>4. CASE Recover(c)
  <2>1. acked' = acked /\ answers' = answers
    BY <1>4 DEF Recover, clients
  <2>2. QED
    BY <1>1, <1>4, <2>1, RecoverStep, LocalStep
<1>5. CASE Send(c)
  BY <1>1, <1>5, SendStep, LocalStep
<1>6. CASE Hello(c) \/ ReadData(c) \/ ReadRequest(c) \/ EndOfInput(c)
  BY <1>1, <1>6, ReadStep, LocalStep
<1>7. QED
  BY <1>2, <1>3, <1>4, <1>5, <1>6 DEF Serve

LEMMA StepIInv ==
  ASSUME IInv, [Next]_vars
  PROVE  IInv'
<1>1. CASE Next
  <2>1. PICK c \in Conns :
          Serve(c) \/ Hello(c) \/ ReadData(c) \/ ReadRequest(c) \/ EndOfInput(c)
    BY <1>1 DEF Next
  <2>2. /\ ServerStep(c) /\ Own(c) /\ Local(c)
        /\ registry' = registry \/ acked' = acked
        /\ Send(c) \/ (acked' = acked /\ answers' = answers)
    BY <2>1, ThreadStep
  <2>3. /\ \A ack \in acked' : ack[1] \in Keys /\ ack[2] \in Nat \ {0}
        /\ AckedInLog'
    BY <2>2, AckedNext
  <2>4. Types'
    BY <2>2, <2>3 DEF Types, ServerStep, Local
  <2>5. \A k \in Keys : Sound(k)' /\ Owned(k)'
    BY <2>2, OwnedKept DEF ServerStep
  <2>6. \A d \in Conns : Thread(d)'
    BY <2>2, OthersKept DEF Own
  <2>7. AnswersCoverSnapshot'
    BY <2>2, AnswersNext
  <2>8. QED
    BY <2>3, <2>4, <2>5, <2>6, <2>7 DEF IInv
<1>2. CASE UNCHANGED vars
  <2>1. /\ registry' = registry /\ owner' = owner /\ pc' = pc /\ bound' = bound
        /\ line' = line /\ reply' = reply /\ acked' = acked /\ answers' = answers
    BY <1>2 DEF vars, server, clients
  <2>2. Types'
    BY <2>1 DEF IInv, Types
  <2>3. ASSUME NEW k \in Keys
        PROVE  Sound(k)' /\ Owned(k)'
    <3>1. /\ ContextOf(k)' = ContextOf(k) /\ Complete(k)' = Complete(k)
          /\ Made(k)' = Made(k) /\ owner'[k] = owner[k]
      BY <2>1 DEF ContextOf, Complete, Made
    <3>2. Owned(k)'
      BY <2>1, <3>1 DEF IInv, Owned, KeyOf
    <3>3. Sound(k)'
      BY <3>1 DEF IInv, Sound
    <3>4. QED
      BY <3>2, <3>3
  <2>4. ASSUME NEW c \in Conns
        PROVE  Thread(c)'
    BY <2>1 DEF IInv, Thread, KeyOf, Keys, GoodPacket, Acknowledged, Recovered, Made
  <2>5. AckedInLog'
    BY <2>1 DEF IInv, AckedInLog, Logs, ContextOf, Made
  <2>6. AnswersCoverSnapshot'
    BY <2>1 DEF IInv, AnswersCoverSnapshot
  <2>7. QED
    BY <2>2, <2>3, <2>4, <2>5, <2>6 DEF IInv
<1>3. QED
  BY <1>1, <1>2

LEMMA InitIInv ==
  ASSUME Init
  PROVE  IInv
<1>1. Types
  BY DEF Init, Types
<1>2. ASSUME NEW k \in Keys
      PROVE  Sound(k) /\ Owned(k)
  <2>1. ContextOf(k) = NewContext(k) /\ owner[k] = NoConn
    BY DEF Init, ContextOf, Made
  <2>2. Complete(k) = 0
    BY <2>1, NewIsGood DEF Complete
  <2>3. QED
    BY <2>1, <2>2, NewIsGood DEF Sound, Owned
<1>3. \A c \in Conns : Thread(c)
  BY DEF Init, Thread
<1>4. AckedInLog /\ AnswersCoverSnapshot
  BY DEF Init, AckedInLog, AnswersCoverSnapshot
<1>5. QED
  BY <1>1, <1>2, <1>3, <1>4 DEF IInv

\* The invariant holds in every state the server reaches.
THEOREM Invariance == Spec => []IInv
<1>1. Init => IInv
  BY InitIInv
<1>2. IInv /\ [Next]_vars => IInv'
  BY StepIInv
<1>3. QED
  BY <1>1, <1>2, PTL DEF Spec

-----------------------------------------------------------------------------
(* Theorems *)

\* Whenever nobody is between the two assignments of an update, the number, the
\* hash, the chain and the counters of a context are those of its history, in
\* every protocol.
THEOREM Agreement == Spec => []ContextsAgree
<1>1. ASSUME IInv
      PROVE  ContextsAgree
  <2>1. SUFFICES ASSUME NEW k \in Keys, Made(k), owner[k] = NoConn,
                        NEW context, context = registry[k]
        PROVE  /\ context.state.last_seq = Len(context.log)
               /\ k[1] \in Linked => context.state.last = <<k[2]>> \o context.log
               /\ k[1] \in Chained =>
                    context.state.hash_chain =
                      [i \in 1..Len(context.log) |->
                         [seq |-> i,
                          hash |-> <<k[2]>> \o SubSeq(context.log, 1, i)]]
               /\ context.accepted = Len(context.log)
               /\ context.total = context.accepted + context.rejected
    BY DEF ContextsAgree
  <2>2. Good(k, context, Len(context.log))
    BY <1>1, <2>1 DEF IInv, Sound, Complete, ContextOf
  <2>3. SubSeq(context.log, 1, Len(context.log)) = context.log
    BY <2>2, SubSeqWhole DEF Good, Context
  <2>4. QED
    BY <2>2, <2>3 DEF Good, Prefix, ChainOf
<1>2. QED
  BY <1>1, Invariance, PTL

\* An acknowledged message stays in its session's history, at the place the
\* acknowledgement named.
THEOREM AckedStay == Spec => []AckedInLog
<1>1. IInv => AckedInLog
  BY DEF IInv
<1>2. QED
  BY <1>1, Invariance, PTL

\* No protocol accepts a payload changed on the way, except ticket_only, whose
\* ticket says nothing of the payload.
THEOREM AlteredRejected == Spec => []AlteredNeverAccepted
<1>1. ASSUME IInv
      PROVE  AlteredNeverAccepted
  <2>1. SUFFICES ASSUME NEW k \in Keys, k[1] # "ticket_only"
                 PROVE  ~Contains(Logs[k], Altered)
    BY DEF AlteredNeverAccepted
  <2>2. Logs[k] = ContextOf(k).log
    BY DEF Logs
  <2>3. \A i \in 1..Len(ContextOf(k).log) : ContextOf(k).log[i] # Altered
    BY <1>1, <2>1 DEF IInv, Sound, Good
  <2>4. QED
    BY <2>2, <2>3 DEF Contains
<1>2. QED
  BY <1>1, Invariance, PTL

\* A recovery answer, sent after its lock was released with the list of entries
\* as it is by then, covers the sequence number and the hash read under the lock.
THEOREM AnswersCover == Spec => []AnswersCoverSnapshot
<1>1. IInv => AnswersCoverSnapshot
  BY DEF IInv
<1>2. QED
  BY <1>1, Invariance, PTL

\* An update is one step of the abstract sessions, and every other step none.
LEMMA StepRefines ==
  ASSUME IInv, [Next]_vars
  PROVE  [Atomic!Next]_<<Logs, <<>>, {}>>
<1>1. CASE UNCHANGED vars
  <2>1. registry' = registry
    BY <1>1 DEF vars, server
  <2>2. Logs' = Logs
    BY <2>1 DEF Logs, ContextOf, Made
  <2>3. QED
    BY <2>2
<1>2. ASSUME \A k \in Keys : ContextOf(k).log' = ContextOf(k).log
      PROVE  [Atomic!Next]_<<Logs, <<>>, {}>>
  <2>1. Logs' = Logs
    BY <1>2 DEF Logs
  <2>2. QED
    BY <2>1
<1>3. ASSUME NEW c \in Conns,
             Serve(c) \/ Hello(c) \/ ReadData(c) \/ ReadRequest(c) \/ EndOfInput(c)
      PROVE  [Atomic!Next]_<<Logs, <<>>, {}>>
  <2>1. CASE Verify(c)
    <3>1. PICK k \in Keys : k = KeyOf(c)
      BY <2>1, VerifyKey DEF Verify
    <3>2. CASE Verdict(k[1], ContextOf(k).state, line[c]) = "ok"
      <4>1. /\ Made(k)' /\ registry'[k].log = Append(ContextOf(k).log, line[c].payload)
            /\ \A j \in Keys \ {k} : registry'[j] = registry[j]
        BY <2>1, <3>1, <3>2, VerifyAccepts
      <4>2. PICK payload \in Payloads : payload = line[c].payload
        BY <2>1, VerifyKey DEF Verify, GoodPacket
      <4>3. ContextOf(k).log' = Append(ContextOf(k).log, payload)
        BY <4>1, <4>2 DEF ContextOf
      <4>4. \A j \in Keys \ {k} : ContextOf(j).log' = ContextOf(j).log
        BY <4>1 DEF ContextOf, Made
      <4>5. Logs' = [Logs EXCEPT ![k] = Append(Logs[k], payload)]
        BY <4>3, <4>4 DEF Logs
      <4>6. Atomic!Accept(k)
        BY <4>2, <4>5 DEF Atomic!Accept, Payloads
      <4>7. QED
        BY <4>6 DEF Atomic!Next
    <3>3. CASE Verdict(k[1], ContextOf(k).state, line[c]) # "ok"
      BY <1>2, <2>1, <3>1, <3>3, VerifyRejects
    <3>4. QED
      BY <3>2, <3>3
  <2>2. CASE Accept(c)
    BY <1>2, <2>2, AcceptStep
  <2>3. CASE Recover(c)
    BY <1>2, <2>3, RecoverStep
  <2>4. CASE Send(c) \/ Hello(c) \/ ReadData(c) \/ ReadRequest(c) \/ EndOfInput(c)
    <3>1. registry' = registry
      BY <2>4, SendStep, ReadStep
    <3>2. QED
      BY <1>2, <3>1 DEF ContextOf, Made
  <2>5. QED
    BY <1>3, <2>1, <2>2, <2>3, <2>4 DEF Serve
<1>4. QED
  BY <1>1, <1>3 DEF Next

\* The threads and locks of the server implement sessions that accept one packet
\* at a time and never take one back.
THEOREM Refinement == Spec => ImplementsAtomicSessions
<1>1. Init => Atomic!Init
  BY DEF Init, Atomic!Init, Logs, ContextOf, Made, NewContext
<1>2. IInv /\ [Next]_vars => [Atomic!Next]_<<Logs, <<>>, {}>>
  BY StepRefines
<1>3. QED
  BY <1>1, <1>2, Invariance, PTL DEF Spec, ImplementsAtomicSessions, Atomic!Spec

-----------------------------------------------------------------------------
(* One run of the comparison.  Its verifiers are those above, seen over one *)
(* connection: what they take is the next packet, built on the last one.    *)

CONSTANTS Compared, Disturbances, MessageCount, MayTimeOut, MayBreak
VARIABLES protocol, disturbance, at, turn, client, row, dead, open, requests, replies,
          verifier, history

Compare == INSTANCE BaselineComparison
  WITH pc <- at, seq <- turn, state <- client, server <- verifier, log <- history

\* BaselineComparison's protocols are those of BaselineServer.
LEMMA SameChecks ==
  ASSUME NEW p, NEW s, NEW k
  PROVE  Compare!Checks(p, s, k) = Checks(p, s, k)
BY DEF Compare!Checks, Checks, Compare!GmcpChecks, GmcpChecks, Compare!HashChainChecks,
       HashChainChecks, Compare!AuthHashChainChecks, AuthHashChainChecks,
       Compare!SeqMacChecks, SeqMacChecks, Compare!TicketOnlyChecks, TicketOnlyChecks,
       Compare!TagCheck, TagCheck, Compare!SessionCheck, SessionCheck,
       Compare!SenderCheck, SenderCheck, Compare!EpochCheck, EpochCheck,
       Compare!OldCheck, OldCheck, Compare!GapCheck, GapCheck, Compare!PayloadCheck,
       PayloadCheck, Compare!PrevCheck, PrevCheck, Compare!Check, Check,
       Compare!TicketOnlyTag, TicketOnlyTag, Compare!Covered, Covered, Compare!GmcpTag, GmcpTag,
       Compare!HashChainTag, HashChainTag, Compare!AuthHashChainTag, AuthHashChainTag,
       Compare!SeqMacTag, SeqMacTag, Compare!Link, Link

\* The first comparison that fails is the same one.
LEMMA SameFirst ==
  ASSUME NEW checks
  PROVE  Compare!SelectInSeq(checks, LAMBDA check : ~check.holds)
           = SelectInSeq(checks, LAMBDA check : ~check.holds)
<1> DEFINE I == {i \in 1..Len(checks) : ~checks[i].holds}
<1>1. Compare!Min(I) = Min(I)
  BY DEF Compare!Min, Min
<1>2. QED
  BY <1>1 DEF Compare!SelectInSeq, SelectInSeq

LEMMA SameVerdict ==
  ASSUME NEW p, NEW s, NEW k
  PROVE  Compare!Verdict(p, s, k) = Verdict(p, s, k)
<1> DEFINE first == SelectInSeq(Checks(p, s, k), LAMBDA check : ~check.holds)
<1>1. Compare!Verdict(p, s, k) = IF first = 0 THEN "ok" ELSE Checks(p, s, k)[first].reason
  BY SameChecks, SameFirst DEF Compare!Verdict
<1>2. Verdict(p, s, k) = IF first = 0 THEN "ok" ELSE Checks(p, s, k)[first].reason
  BY DEF Verdict
<1>3. QED
  BY <1>1, <1>2

\* When every comparison holds the verdict is "ok".
LEMMA AllHold ==
  ASSUME NEW p, NEW s, NEW k,
         \A i \in 1..Len(Checks(p, s, k)) : Checks(p, s, k)[i].holds
  PROVE  Verdict(p, s, k) = "ok"
<1> DEFINE checks == Checks(p, s, k)
<1>1. SelectInSeq(checks, LAMBDA check : ~check.holds) = 0
  <2>1. {i \in 1..Len(checks) : ~checks[i].holds} = {}
    OBVIOUS
  <2>2. QED
    BY <2>1 DEF SelectInSeq
<1>2. QED
  BY <1>1 DEF Verdict

\* What a verifier takes: the next packet, built on its last one, with the tag
\* that it expects.
Follows(p, s, k) ==
  /\ k.session = s.session /\ k.sender = s.sender /\ k.epoch = s.epoch
  /\ k.seq = s.last_seq + 1
  /\ p # "ticket_only" => k.payload_hash = k.payload
  /\ p \in Linked => k.prev = s.last
  /\ k.tag = IF p = "ticket_only" THEN TicketOnlyTag(s) ELSE Covered(p, k)

LEMMA FollowsIsAccepted ==
  ASSUME NEW p \in Protocols, NEW s, s.last_seq \in Nat, NEW k, Follows(p, s, k)
  PROVE  Verdict(p, s, k) = "ok"
<1>1. /\ OldCheck(s, k).holds = (k.seq > s.last_seq)
      /\ GapCheck(s, k).holds = (k.seq <= s.last_seq + 1)
      /\ SessionCheck(s, k).holds = (k.session = s.session)
      /\ SenderCheck(s, k).holds = (k.sender = s.sender)
      /\ EpochCheck(s, k).holds = (k.epoch = s.epoch)
  BY DEF OldCheck, GapCheck, SessionCheck, SenderCheck, EpochCheck, Check
<1>2. /\ OldCheck(s, k).holds /\ GapCheck(s, k).holds /\ SessionCheck(s, k).holds
      /\ SenderCheck(s, k).holds /\ EpochCheck(s, k).holds
  <2>1. k.seq > s.last_seq /\ k.seq <= s.last_seq + 1
    BY DEF Follows
  <2>2. k.session = s.session /\ k.sender = s.sender /\ k.epoch = s.epoch
    BY DEF Follows
  <2>3. QED
    BY <1>1, <2>1, <2>2, Zenon
<1>3. p # "ticket_only" => PayloadCheck(k).holds
  BY DEF Follows, PayloadCheck, Check
<1>4. ASSUME NEW reason, p # "ticket_only"
      PROVE  TagCheck(p, k, reason).holds
  BY <1>4 DEF Follows, TagCheck, Check
<1>5. ASSUME NEW reason, p \in Linked
      PROVE  PrevCheck(s, k, reason).holds
  BY <1>5 DEF Follows, PrevCheck, Check
<1>6. CASE p = "gmcp"
  <2> DEFINE checks == GmcpChecks(s, k)
  <2>1. Checks(p, s, k) = checks
    BY <1>6 DEF Checks
  <2>2. Len(checks) = 8
    BY DEF GmcpChecks
  <2>3. checks[1].holds
    <3>1. checks[1] = TagCheck("gmcp", k, "auth_tag verification failed")
      BY DEF GmcpChecks
    <3>2. TagCheck("gmcp", k, "auth_tag verification failed").holds
      BY <1>4, <1>6
    <3>3. QED
      BY <3>1, <3>2
  <2>4. checks[2].holds
    <3>1. checks[2] = SessionCheck(s, k)
      BY DEF GmcpChecks
    <3>2. SessionCheck(s, k).holds
      BY <1>2, <1>6
    <3>3. QED
      BY <3>1, <3>2
  <2>5. checks[3].holds
    <3>1. checks[3] = SenderCheck(s, k)
      BY DEF GmcpChecks
    <3>2. SenderCheck(s, k).holds
      BY <1>2, <1>6
    <3>3. QED
      BY <3>1, <3>2
  <2>6. checks[4].holds
    <3>1. checks[4] = EpochCheck(s, k)
      BY DEF GmcpChecks
    <3>2. EpochCheck(s, k).holds
      BY <1>2, <1>6
    <3>3. QED
      BY <3>1, <3>2
  <2>7. checks[5].holds
    <3>1. checks[5] = OldCheck(s, k)
      BY DEF GmcpChecks
    <3>2. OldCheck(s, k).holds
      BY <1>2, <1>6
    <3>3. QED
      BY <3>1, <3>2
  <2>8. checks[6].holds
    <3>1. checks[6] = GapCheck(s, k)
      BY DEF GmcpChecks
    <3>2. GapCheck(s, k).holds
      BY <1>2, <1>6
    <3>3. QED
      BY <3>1, <3>2
  <2>9. checks[7].holds
    <3>1. checks[7] = PayloadCheck(k)
      BY DEF GmcpChecks
    <3>2. PayloadCheck(k).holds
      BY <1>3, <1>6
    <3>3. QED
      BY <3>1, <3>2
  <2>10. checks[8].holds
    <3>1. checks[8] = PrevCheck(s, k, "prev_mem mismatch")
      BY DEF GmcpChecks
    <3>2. PrevCheck(s, k, "prev_mem mismatch").holds
      <4>1. p \in Linked
        BY <1>6 DEF Linked
      <4>2. QED
        BY <1>5, <4>1
    <3>3. QED
      BY <3>1, <3>2
  <2> HIDE DEF checks
  <2>11. \A i \in 1..Len(checks) : checks[i].holds
    BY <2>2, <2>3, <2>4, <2>5, <2>6, <2>7, <2>8, <2>9, <2>10
  <2>12. QED
    BY <2>1, <2>11, AllHold
<1>7. CASE p = "hash_chain"
  <2> DEFINE checks == HashChainChecks(s, k)
  <2>1. Checks(p, s, k) = checks
    BY <1>7 DEF Checks
  <2>2. Len(checks) = 7
    BY DEF HashChainChecks
  <2>3. checks[1].holds
    <3>1. checks[1] = OldCheck(s, k)
      BY DEF HashChainChecks
    <3>2. OldCheck(s, k).holds
      BY <1>2, <1>7
    <3>3. QED
      BY <3>1, <3>2
  <2>4. checks[2].holds
    <3>1. checks[2] = GapCheck(s, k)
      BY DEF HashChainChecks
    <3>2. GapCheck(s, k).holds
      BY <1>2, <1>7
    <3>3. QED
      BY <3>1, <3>2
  <2>5. checks[3].holds
    <3>1. checks[3] = SessionCheck(s, k)
      BY DEF HashChainChecks
    <3>2. SessionCheck(s, k).holds
      BY <1>2, <1>7
    <3>3. QED
      BY <3>1, <3>2
  <2>6. checks[4].holds
    <3>1. checks[4] = EpochCheck(s, k)
      BY DEF HashChainChecks
    <3>2. EpochCheck(s, k).holds
      BY <1>2, <1>7
    <3>3. QED
      BY <3>1, <3>2
  <2>7. checks[5].holds
    <3>1. checks[5] = PayloadCheck(k)
      BY DEF HashChainChecks
    <3>2. PayloadCheck(k).holds
      BY <1>3, <1>7
    <3>3. QED
      BY <3>1, <3>2
  <2>8. checks[6].holds
    <3>1. checks[6] = TagCheck("hash_chain", k, "chain_hash mismatch")
      BY DEF HashChainChecks
    <3>2. TagCheck("hash_chain", k, "chain_hash mismatch").holds
      BY <1>4, <1>7
    <3>3. QED
      BY <3>1, <3>2
  <2>9. checks[7].holds
    <3>1. checks[7] = PrevCheck(s, k, "prev_hash mismatch")
      BY DEF HashChainChecks
    <3>2. PrevCheck(s, k, "prev_hash mismatch").holds
      <4>1. p \in Linked
        BY <1>7 DEF Linked
      <4>2. QED
        BY <1>5, <4>1
    <3>3. QED
      BY <3>1, <3>2
  <2> HIDE DEF checks
  <2>10. \A i \in 1..Len(checks) : checks[i].holds
    BY <2>2, <2>3, <2>4, <2>5, <2>6, <2>7, <2>8, <2>9
  <2>11. QED
    BY <2>1, <2>10, AllHold
<1>8. CASE p = "authenticated_hash_chain"
  <2> DEFINE checks == AuthHashChainChecks(s, k)
  <2>1. Checks(p, s, k) = checks
    BY <1>8 DEF Checks
  <2>2. Len(checks) = 8
    BY DEF AuthHashChainChecks
  <2>3. checks[1].holds
    <3>1. checks[1] = OldCheck(s, k)
      BY DEF AuthHashChainChecks
    <3>2. OldCheck(s, k).holds
      BY <1>2, <1>8
    <3>3. QED
      BY <3>1, <3>2
  <2>4. checks[2].holds
    <3>1. checks[2] = GapCheck(s, k)
      BY DEF AuthHashChainChecks
    <3>2. GapCheck(s, k).holds
      BY <1>2, <1>8
    <3>3. QED
      BY <3>1, <3>2
  <2>5. checks[3].holds
    <3>1. checks[3] = TagCheck("authenticated_hash_chain", k, "auth_tag mismatch")
      BY DEF AuthHashChainChecks
    <3>2. TagCheck("authenticated_hash_chain", k, "auth_tag mismatch").holds
      BY <1>4, <1>8
    <3>3. QED
      BY <3>1, <3>2
  <2>6. checks[4].holds
    <3>1. checks[4] = SessionCheck(s, k)
      BY DEF AuthHashChainChecks
    <3>2. SessionCheck(s, k).holds
      BY <1>2, <1>8
    <3>3. QED
      BY <3>1, <3>2
  <2>7. checks[5].holds
    <3>1. checks[5] = SenderCheck(s, k)
      BY DEF AuthHashChainChecks
    <3>2. SenderCheck(s, k).holds
      BY <1>2, <1>8
    <3>3. QED
      BY <3>1, <3>2
  <2>8. checks[6].holds
    <3>1. checks[6] = EpochCheck(s, k)
      BY DEF AuthHashChainChecks
    <3>2. EpochCheck(s, k).holds
      BY <1>2, <1>8
    <3>3. QED
      BY <3>1, <3>2
  <2>9. checks[7].holds
    <3>1. checks[7] = PayloadCheck(k)
      BY DEF AuthHashChainChecks
    <3>2. PayloadCheck(k).holds
      BY <1>3, <1>8
    <3>3. QED
      BY <3>1, <3>2
  <2>10. checks[8].holds
    <3>1. checks[8] = PrevCheck(s, k, "prev_hash mismatch")
      BY DEF AuthHashChainChecks
    <3>2. PrevCheck(s, k, "prev_hash mismatch").holds
      <4>1. p \in Linked
        BY <1>8 DEF Linked
      <4>2. QED
        BY <1>5, <4>1
    <3>3. QED
      BY <3>1, <3>2
  <2> HIDE DEF checks
  <2>11. \A i \in 1..Len(checks) : checks[i].holds
    BY <2>2, <2>3, <2>4, <2>5, <2>6, <2>7, <2>8, <2>9, <2>10
  <2>12. QED
    BY <2>1, <2>11, AllHold
<1>9. CASE p = "seq_mac"
  <2> DEFINE checks == SeqMacChecks(s, k)
  <2>1. Checks(p, s, k) = checks
    BY <1>9 DEF Checks
  <2>2. Len(checks) = 5
    BY DEF SeqMacChecks
  <2>3. checks[1].holds
    <3>1. checks[1] = OldCheck(s, k)
      BY DEF SeqMacChecks
    <3>2. OldCheck(s, k).holds
      BY <1>2, <1>9
    <3>3. QED
      BY <3>1, <3>2
  <2>4. checks[2].holds
    <3>1. checks[2] = GapCheck(s, k)
      BY DEF SeqMacChecks
    <3>2. GapCheck(s, k).holds
      BY <1>2, <1>9
    <3>3. QED
      BY <3>1, <3>2
  <2>5. checks[3].holds
    <3>1. checks[3] = SessionCheck(s, k)
      BY DEF SeqMacChecks
    <3>2. SessionCheck(s, k).holds
      BY <1>2, <1>9
    <3>3. QED
      BY <3>1, <3>2
  <2>6. checks[4].holds
    <3>1. checks[4] = EpochCheck(s, k)
      BY DEF SeqMacChecks
    <3>2. EpochCheck(s, k).holds
      BY <1>2, <1>9
    <3>3. QED
      BY <3>1, <3>2
  <2>7. checks[5].holds
    <3>1. checks[5] = TagCheck("seq_mac", k, "mac mismatch")
      BY DEF SeqMacChecks
    <3>2. TagCheck("seq_mac", k, "mac mismatch").holds
      BY <1>4, <1>9
    <3>3. QED
      BY <3>1, <3>2
  <2> HIDE DEF checks
  <2>8. \A i \in 1..Len(checks) : checks[i].holds
    BY <2>2, <2>3, <2>4, <2>5, <2>6, <2>7
  <2>9. QED
    BY <2>1, <2>8, AllHold
<1>10. CASE p = "ticket_only"
  <2> DEFINE checks == TicketOnlyChecks(s, k)
  <2>1. Checks(p, s, k) = checks
    BY <1>10 DEF Checks
  <2>2. Len(checks) = 5
    BY DEF TicketOnlyChecks
  <2>3. checks[1].holds
    <3>1. checks[1] = OldCheck(s, k)
      BY DEF TicketOnlyChecks
    <3>2. OldCheck(s, k).holds
      BY <1>2, <1>10
    <3>3. QED
      BY <3>1, <3>2
  <2>4. checks[2].holds
    <3>1. checks[2] = GapCheck(s, k)
      BY DEF TicketOnlyChecks
    <3>2. GapCheck(s, k).holds
      BY <1>2, <1>10
    <3>3. QED
      BY <3>1, <3>2
  <2>5. checks[3].holds
    <3>1. checks[3] = SessionCheck(s, k)
      BY DEF TicketOnlyChecks
    <3>2. SessionCheck(s, k).holds
      BY <1>2, <1>10
    <3>3. QED
      BY <3>1, <3>2
  <2>6. checks[4].holds
    <3>1. checks[4] = EpochCheck(s, k)
      BY DEF TicketOnlyChecks
    <3>2. EpochCheck(s, k).holds
      BY <1>2, <1>10
    <3>3. QED
      BY <3>1, <3>2
  <2>7. checks[5].holds
    <3>1. checks[5] = Check(k.tag = TicketOnlyTag(s), "invalid ticket")
      BY DEF TicketOnlyChecks
    <3>2. Check(k.tag = TicketOnlyTag(s), "invalid ticket").holds
      BY <1>10 DEF Follows, Check
    <3>3. QED
      BY <3>1, <3>2
  <2> HIDE DEF checks
  <2>8. \A i \in 1..Len(checks) : checks[i].holds
    BY <2>2, <2>3, <2>4, <2>5, <2>6, <2>7
  <2>9. QED
    BY <2>1, <2>8, AllHold
<1>11. QED
  BY <1>6, <1>7, <1>8, <1>9, <1>10 DEF Protocols

-----------------------------------------------------------------------------
(* Types *)

ComparisonAssumptions ==
  /\ Compare!ComparedAssumption /\ Compare!DisturbancesAssumption
  /\ Compare!CountAssumption /\ Compare!FaultsAssumption

\* Payloads, and what a memory consists of.
Sent == {"message", "altered"} \X Nat
Links == Seq({"session", "forged", "tampered"} \union Sent)

VerifierState ==
  [session : {"session"}, sender : {"client"}, epoch : {1}, last_seq : Nat,
   last : Links, hash_chain : Seq([seq : Nat, hash : Links])]

Fields ==
  [protocol : Protocols, session : {"session", "cross-session"}, sender : {"client"},
   epoch : Nat, seq : Nat, payload : Sent, payload_hash : Sent, prev : Links,
   tag : {<<>>}]
Tags == {Covered(p, fields) : p \in Protocols, fields \in Fields}
DataPacket ==
  [protocol : Protocols, session : {"session", "cross-session"}, sender : {"client"},
   epoch : Nat, seq : Nat, payload : Sent, payload_hash : Sent, prev : Links,
   tag : Tags]

\* What a response may give as its reason.
Reasons ==
  {"", "ok", "connection session mismatch", "connection epoch mismatch"} \union
    {Verdict(v[1], v[2], v[3]) : v \in Protocols \X VerifierState \X DataPacket}

RowType ==
  [sent : Nat, accepted : Nat, rejected : Nat, timeout : Nat, error : Nat,
   attack_done : BOOLEAN, attack_injected : BOOLEAN, attack_detected : BOOLEAN,
   attack_accepted : BOOLEAN, reason : Reasons, resynchronized : BOOLEAN,
   run_valid : BOOLEAN]
AnswerType == [ok : BOOLEAN, reason : Reasons, last_seq : Nat, last : Links]

CompareTypes ==
  /\ protocol \in Compared /\ disturbance \in Disturbances
  /\ at \in {"hello", "hello_ack", "loop", "wait", "wait_attack", "wait_cross",
             "wait_retry", "done"}
  /\ turn \in 1..MessageCount + 1
  /\ client \in VerifierState /\ verifier \in VerifierState
  /\ row \in RowType /\ dead \in BOOLEAN /\ open \in BOOLEAN
  /\ requests \in Seq(DataPacket \union {Compare!HELLO})
  /\ replies \in Seq(AnswerType) /\ history \in Seq(Sent)

LEMMA SameSets ==
  /\ Compare!Protocols = Protocols /\ Compare!Linked = Linked
  /\ Compare!Chained = Chained
BY DEF Compare!Protocols, Protocols, Compare!Linked, Linked, Compare!Chained, Chained

LEMMA SameCovered ==
  ASSUME NEW p, NEW k
  PROVE  Compare!Covered(p, k) = Covered(p, k)
BY DEF Compare!Covered, Covered, Compare!GmcpTag, GmcpTag, Compare!HashChainTag,
       HashChainTag, Compare!AuthHashChainTag, AuthHashChainTag, Compare!SeqMacTag,
       SeqMacTag, Compare!TicketOnlyTag, TicketOnlyTag, Compare!Link, Link

LEMMA SameBuild ==
  ASSUME NEW p, NEW session, NEW sender, NEW epoch, NEW seq, NEW prev, NEW payload
  PROVE  Compare!Build(p, session, sender, epoch, seq, prev, payload)
           = Build(p, session, sender, epoch, seq, prev, payload)
BY SameCovered DEF Compare!Build, Build

\* HELLO is no packet.
LEMMA HelloIsNoData ==
  ASSUME NEW k \in DataPacket
  PROVE  k # Compare!HELLO
<1>1. "seq" \in DOMAIN k
  BY DEF DataPacket
<1>2. "seq" \notin DOMAIN Compare!HELLO
  BY DEF Compare!HELLO
<1>3. QED
  BY <1>1, <1>2

LEMMA PayloadIsSent ==
  ASSUME NEW n \in Nat
  PROVE  Compare!Payload(n) \in Sent /\ <<"altered", n>> \in Sent
BY DEF Compare!Payload, Sent

\* A packet that is built has the fields it was built from, and a tag of them.
LEMMA BuiltIsData ==
  ASSUME NEW p \in Protocols, NEW session \in {"session", "cross-session"},
         NEW epoch \in Nat, NEW n \in Nat, NEW prev \in Links, NEW payload \in Sent
  PROVE  LET k == Build(p, session, "client", epoch, n, prev, payload) IN
         /\ k \in DataPacket /\ k.tag = Covered(p, k)
         /\ k.session = session /\ k.sender = "client" /\ k.epoch = epoch
         /\ k.seq = n /\ k.prev = prev /\ k.payload = payload /\ k.payload_hash = payload
<1> DEFINE fields == [protocol |-> p, session |-> session, sender |-> "client",
                      epoch |-> epoch, seq |-> n, payload |-> payload,
                      payload_hash |-> payload, prev |-> prev, tag |-> <<>>]
           k == [fields EXCEPT !.tag = Covered(p, fields)]
<1>1. fields \in Fields
  BY DEF Fields
<1>2. Covered(p, fields) \in Tags
  BY <1>1 DEF Tags
<1>3. k \in DataPacket
  <2> HIDE DEF fields
  <2>1. QED
    BY <1>1, <1>2 DEF Fields, DataPacket
<1>4. Covered(p, k) = Covered(p, fields)
  BY DEF Covered, GmcpTag, HashChainTag, AuthHashChainTag, SeqMacTag, TicketOnlyTag
<1>5. k.tag = Covered(p, fields)
  OBVIOUS
<1>6. Build(p, session, "client", epoch, n, prev, payload) = k
  BY DEF Build
<1>7. /\ k.session = session /\ k.sender = "client" /\ k.epoch = epoch
      /\ k.seq = n /\ k.prev = prev /\ k.payload = payload /\ k.payload_hash = payload
  OBVIOUS
<1> HIDE DEF k
<1>8. QED
  BY <1>3, <1>4, <1>5, <1>6, <1>7

\* A packet the client makes has these fields, in ticket_only with the ticket of
\* its state.
MadeOf(k, session, epoch, n, prev) ==
  /\ k \in DataPacket
  /\ k.tag = IF protocol = "ticket_only" THEN TicketOnlyTag(client)
                                         ELSE Covered(protocol, k)
  /\ k.session = session /\ k.sender = "client" /\ k.epoch = epoch
  /\ k.seq = n /\ k.prev = prev
  /\ k.payload = Compare!Payload(turn) /\ k.payload_hash = Compare!Payload(turn)

LEMMA PacketIsData ==
  ASSUME protocol \in Protocols, client \in VerifierState,
         NEW session \in {"session", "cross-session"}, NEW epoch \in Nat, NEW n \in Nat,
         NEW prev \in Links, turn \in Nat
  PROVE  MadeOf(Compare!Packet(session, epoch, n, prev), session, epoch, n, prev)
<1> DEFINE b == Build(protocol, session, "client", epoch, n, prev, Compare!Payload(turn))
           t == TicketOnlyTag(client)
<1>1. /\ b \in DataPacket /\ b.tag = Covered(protocol, b)
      /\ b.session = session /\ b.sender = "client" /\ b.epoch = epoch
      /\ b.seq = n /\ b.prev = prev /\ b.payload = Compare!Payload(turn)
      /\ b.payload_hash = Compare!Payload(turn)
  <2>1. Compare!Payload(turn) \in Sent
    BY PayloadIsSent
  <2> HIDE DEF Compare!Payload
  <2>2. QED
    BY <2>1, BuiltIsData
<1>2. Compare!Packet(session, epoch, n, prev)
        = IF protocol = "ticket_only" THEN [b EXCEPT !.tag = t] ELSE b
  BY SameBuild DEF Compare!Packet, Compare!CLIENT_ID, Compare!TicketOnlyTag, TicketOnlyTag
<1>3. t \in Tags
  <2> DEFINE f == [protocol |-> "gmcp", session |-> "session", sender |-> "client",
                   epoch |-> 1, seq |-> 1, payload |-> <<"message", 1>>,
                   payload_hash |-> <<"message", 1>>, prev |-> <<>>, tag |-> <<>>]
  <2>1. f \in Fields
    BY DEF Fields, Protocols, Sent, Links
  <2>2. Covered("ticket_only", f) = t
    BY DEF Covered, TicketOnlyTag, VerifierState
  <2>3. QED
    BY <2>1, <2>2 DEF Tags, Protocols
<1> HIDE DEF b, t
<1>4. CASE protocol = "ticket_only"
  BY <1>1, <1>2, <1>3, <1>4 DEF DataPacket, MadeOf, t
<1>5. CASE protocol # "ticket_only"
  BY <1>1, <1>2, <1>5 DEF MadeOf
<1>6. QED
  BY <1>4, <1>5

-----------------------------------------------------------------------------
(* What the server makes of the packets *)

LEMMA CleanIsData ==
  ASSUME ComparisonAssumptions, CompareTypes
  PROVE  LET k == Compare!CleanPacket IN
         /\ k \in DataPacket
         /\ k.tag = IF protocol = "ticket_only" THEN TicketOnlyTag(client)
                                                ELSE Covered(protocol, k)
         /\ k.session = "session" /\ k.sender = "client" /\ k.epoch = 1
         /\ k.seq = turn /\ k.prev = client.last
         /\ k.payload = Compare!Payload(turn) /\ k.payload_hash = Compare!Payload(turn)
<1>1. /\ protocol \in Protocols /\ turn \in Nat
      /\ client \in VerifierState /\ client.last \in Links
  BY SameSets DEF ComparisonAssumptions, Compare!ComparedAssumption, CompareTypes,
                  Compare!CountAssumption, VerifierState
<1>2. Compare!CleanPacket = Compare!Packet("session", 1, turn, client.last)
  BY DEF Compare!CleanPacket, Compare!Session, Compare!EPOCH
<1>3. MadeOf(Compare!CleanPacket, "session", 1, turn, client.last)
  BY <1>1, <1>2, PacketIsData
<1>4. QED
  BY <1>3 DEF MadeOf

LEMMA FirstIsData ==
  ASSUME ComparisonAssumptions, CompareTypes
  PROVE  Compare!FirstPacket \in DataPacket /\ Compare!FirstPacket.seq = 1
<1>1. protocol \in Protocols
  BY SameSets DEF ComparisonAssumptions, Compare!ComparedAssumption, CompareTypes
<1>2. <<"session">> \in Links
  BY DEF Links
<1>3. Compare!Payload(1) \in Sent
  BY PayloadIsSent
<1>4. Compare!FirstPacket
        = Build(protocol, "session", "client", 1, 1, <<"session">>, Compare!Payload(1))
  BY SameBuild DEF Compare!FirstPacket, Compare!Session, Compare!EPOCH, Compare!CLIENT_ID
<1> HIDE DEF Compare!Payload
<1>5. QED
  BY <1>1, <1>2, <1>3, <1>4, BuiltIsData

LEMMA DisturbedIsData ==
  ASSUME ComparisonAssumptions, CompareTypes, disturbance # "none"
  PROVE  /\ Compare!DisturbedPacket \in DataPacket
         /\ disturbance \in {"modify_unsigned", "forged_prev_mem_valid_mac",
                             "cross_session_valid_mac", "cross_epoch_valid_mac"}
              => Compare!DisturbedPacket.seq = turn
<1>1. /\ protocol \in Protocols /\ turn \in Nat
      /\ client \in VerifierState /\ client.last \in Links /\ disturbance \in Compare!AttackTypes
  <2>1. /\ protocol \in Protocols /\ turn \in Nat
        /\ client \in VerifierState /\ client.last \in Links
    BY SameSets DEF ComparisonAssumptions, Compare!ComparedAssumption, CompareTypes,
                    Compare!CountAssumption, VerifierState
  <2>2. disturbance \in Compare!AttackTypes
    BY DEF ComparisonAssumptions, Compare!DisturbancesAssumption, CompareTypes, Compare!AttackTypes
  <2>3. QED
    BY <2>1, <2>2
<1>2. <<"forged">> \in Links /\ <<"tampered">> \in Links
  BY DEF Links
<1>3. Compare!CleanPacket \in DataPacket /\ Compare!CleanPacket.seq = turn
  BY CleanIsData
<1>4. <<"altered", turn>> \in Sent
  BY <1>1, PayloadIsSent
<1>5. CASE disturbance = "modify_unsigned"
  <2>1. Compare!DisturbedPacket = [Compare!CleanPacket EXCEPT !.payload = <<"altered", turn>>]
    BY <1>5 DEF Compare!DisturbedPacket, Compare!ModifyUnsigned
  <2> HIDE DEF Compare!CleanPacket
  <2>2. QED
    BY <1>3, <1>4, <2>1 DEF DataPacket
<1>6. CASE disturbance = "metadata_tamper"
  <2> DEFINE prev == IF protocol \in Linked THEN <<"tampered">> ELSE Compare!CleanPacket.prev
  <2>1. Compare!DisturbedPacket
          = [Compare!CleanPacket EXCEPT !.seq = Compare!CleanPacket.seq + 100, !.prev = prev]
    BY <1>6, SameSets DEF Compare!DisturbedPacket, Compare!MetadataTamper
  <2>2. prev \in Links
    BY <1>2, <1>3 DEF DataPacket
  <2>3. ASSUME NEW k \in DataPacket, NEW n \in Nat, NEW last \in Links
        PROVE  [k EXCEPT !.seq = n, !.prev = last] \in DataPacket
    BY <2>3 DEF DataPacket
  <2> HIDE DEF Compare!CleanPacket, prev
  <2>4. Compare!CleanPacket.seq + 100 \in Nat
    BY <1>1, <1>3
  <2>5. Compare!DisturbedPacket \in DataPacket
    BY <1>3, <2>1, <2>2, <2>3, <2>4
  <2>6. QED
    BY <1>6, <2>5
<1>7. CASE disturbance = "exact_replay"
  BY <1>7, FirstIsData DEF Compare!DisturbedPacket
<1>8. CASE disturbance = "forged_prev_mem_valid_mac"
  <2>1. Compare!DisturbedPacket = Compare!Packet("session", 1, turn, <<"forged">>)
    BY <1>8 DEF Compare!DisturbedPacket, Compare!Session, Compare!EPOCH
  <2>2. MadeOf(Compare!DisturbedPacket, "session", 1, turn, <<"forged">>)
    BY <1>1, <1>2, <2>1, PacketIsData
  <2>3. QED
    BY <1>8, <2>2 DEF MadeOf
<1>9. CASE disturbance = "sequence_gap_valid_mac"
  <2>1. Compare!DisturbedPacket = Compare!Packet("session", 1, turn + 5, client.last)
    BY <1>9 DEF Compare!DisturbedPacket, Compare!Session, Compare!EPOCH
  <2>2. MadeOf(Compare!DisturbedPacket, "session", 1, turn + 5, client.last)
    BY <1>1, <1>9, <2>1, PacketIsData
  <2>3. QED
    BY <1>9, <2>2 DEF MadeOf
<1>10. CASE disturbance = "cross_session_valid_mac"
  <2>1. Compare!DisturbedPacket = Compare!Packet("cross-session", 1, turn, client.last)
    BY <1>10 DEF Compare!DisturbedPacket, Compare!EPOCH
  <2>2. MadeOf(Compare!DisturbedPacket, "cross-session", 1, turn, client.last)
    BY <1>1, <2>1, PacketIsData
  <2>3. QED
    BY <1>10, <2>2 DEF MadeOf
<1>11. CASE disturbance = "cross_epoch_valid_mac"
  <2>1. Compare!DisturbedPacket = Compare!Packet("session", 999, turn, client.last)
    BY <1>11 DEF Compare!DisturbedPacket, Compare!Session
  <2>2. MadeOf(Compare!DisturbedPacket, "session", 999, turn, client.last)
    BY <1>1, <2>1, PacketIsData
  <2>3. QED
    BY <1>11, <2>2 DEF MadeOf
<1>12. QED
  BY <1>1, <1>5, <1>6, <1>7, <1>8, <1>9, <1>10, <1>11 DEF Compare!AttackTypes

\* What is taken is the next packet, built on the last one in a linked protocol.
LEMMA TakenIsNext ==
  ASSUME ComparisonAssumptions, CompareTypes, NEW k \in DataPacket,
         Compare!Refusal(k) = "ok"
  PROVE  /\ k.session = "session" /\ k.epoch = 1 /\ k.seq = verifier.last_seq + 1
         /\ protocol \in Linked => k.prev = verifier.last
         /\ protocol # "ticket_only" => k.tag = Covered(protocol, k)
<1>1. protocol \in Protocols /\ verifier.last_seq \in Nat /\ k.seq \in Nat
  BY SameSets DEF ComparisonAssumptions, Compare!ComparedAssumption, CompareTypes,
                  VerifierState, DataPacket
<1>2. k.session = "session" /\ k.epoch = 1 /\ Verdict(protocol, verifier, k) = "ok"
  BY SameVerdict DEF Compare!Refusal, Compare!Session, Compare!EPOCH
<1>3. /\ k.seq > verifier.last_seq /\ k.seq <= verifier.last_seq + 1
      /\ protocol \in Linked => k.prev = verifier.last
      /\ protocol # "ticket_only" => k.tag = Covered(protocol, k)
  BY <1>1, <1>2, Accepted
<1>4. QED
  BY <1>1, <1>2, <1>3

\* Client and verifier agree on n messages.
Synced(n) ==
  client.last_seq = n /\ verifier.last_seq = n /\ client.last = verifier.last

\* The server takes the message of a client that agrees with it.
LEMMA CleanIsTaken ==
  ASSUME ComparisonAssumptions, CompareTypes, Synced(turn - 1)
  PROVE  Compare!Refusal(Compare!CleanPacket) = "ok"
<1> DEFINE k == Compare!CleanPacket
<1>1. /\ protocol \in Protocols /\ verifier.last_seq \in Nat /\ turn \in Nat
      /\ verifier.session = "session" /\ verifier.sender = "client" /\ verifier.epoch = 1
      /\ client.session = "session" /\ client.epoch = 1
  BY SameSets DEF ComparisonAssumptions, Compare!ComparedAssumption, CompareTypes,
                  VerifierState, Compare!CountAssumption
<1>2. /\ k.tag = IF protocol = "ticket_only" THEN TicketOnlyTag(client)
                                             ELSE Covered(protocol, k)
      /\ k.session = "session" /\ k.sender = "client" /\ k.epoch = 1
      /\ k.seq = turn /\ k.prev = client.last /\ k.payload = k.payload_hash
  BY CleanIsData
<1> HIDE DEF k
<1>3. TicketOnlyTag(client) = TicketOnlyTag(verifier)
  BY <1>1 DEF TicketOnlyTag
<1>4. k.seq = verifier.last_seq + 1 /\ k.prev = verifier.last
  BY <1>1, <1>2 DEF Synced
<1>5. Follows(protocol, verifier, k)
  BY <1>1, <1>2, <1>3, <1>4 DEF Follows
<1>6. Verdict(protocol, verifier, k) = "ok"
  BY <1>1, <1>5, FollowsIsAccepted
<1>7. Compare!Refusal(k) = Compare!Verdict(protocol, verifier, k)
  BY <1>2 DEF Compare!Refusal, Compare!Session, Compare!EPOCH
<1>8. QED
  BY <1>6, <1>7, SameVerdict DEF k

\* An altered payload passes where the tag does not cover it.
Weak == protocol = "ticket_only" /\ disturbance = "modify_unsigned"

\* And it refuses the disturbed packet in its place, except for that.
LEMMA DisturbedIsRefused ==
  ASSUME ComparisonAssumptions, CompareTypes, Synced(turn - 1), turn >= 2,
         disturbance # "none", Compare!Applicable,
         client.last # <<>>, client.last[1] = "session"
  PROVE  IF Weak THEN /\ Compare!Refusal(Compare!DisturbedPacket) = "ok"
                      /\ Compare!DisturbedPacket.seq = turn
                 ELSE Compare!Refusal(Compare!DisturbedPacket) # "ok"
<1> DEFINE k == Compare!DisturbedPacket
           c == Compare!CleanPacket
<1>1. /\ protocol \in Protocols /\ verifier.last_seq \in Nat /\ turn \in Nat
      /\ verifier.session = "session" /\ verifier.sender = "client" /\ verifier.epoch = 1
      /\ client.session = "session" /\ client.epoch = 1
      /\ client \in VerifierState /\ client.last \in Links /\ disturbance \in Compare!AttackTypes
  <2>1. /\ protocol \in Protocols /\ verifier.last_seq \in Nat /\ turn \in Nat
        /\ verifier.session = "session" /\ verifier.sender = "client" /\ verifier.epoch = 1
        /\ client.session = "session" /\ client.epoch = 1
        /\ client \in VerifierState /\ client.last \in Links
    BY SameSets DEF ComparisonAssumptions, Compare!ComparedAssumption, CompareTypes,
                    VerifierState, Compare!CountAssumption
  <2>2. disturbance \in Compare!AttackTypes
    BY DEF ComparisonAssumptions, Compare!DisturbancesAssumption, CompareTypes, Compare!AttackTypes
  <2>3. QED
    BY <2>1, <2>2
<1>2. /\ c \in DataPacket
      /\ c.tag = IF protocol = "ticket_only" THEN TicketOnlyTag(client)
                                             ELSE Covered(protocol, c)
      /\ c.session = "session" /\ c.sender = "client" /\ c.epoch = 1
      /\ c.seq = turn /\ c.prev = client.last
      /\ c.payload = Compare!Payload(turn) /\ c.payload_hash = Compare!Payload(turn)
  BY CleanIsData
<1>3. k \in DataPacket
  BY DisturbedIsData
<1>4. verifier.last_seq = turn - 1 /\ verifier.last = client.last
  BY DEF Synced
<1>5. CASE disturbance = "modify_unsigned"
  <2>1. k = [c EXCEPT !.payload = <<"altered", turn>>]
    BY <1>5 DEF Compare!DisturbedPacket, Compare!ModifyUnsigned
  <2>2. CASE protocol = "ticket_only"
    <3> HIDE DEF k, c
    <3>1. /\ k.tag = TicketOnlyTag(client) /\ k.session = "session" /\ k.sender = "client"
          /\ k.epoch = 1 /\ k.seq = turn
      BY <1>2, <2>1, <2>2 DEF DataPacket
    <3>2. TicketOnlyTag(client) = TicketOnlyTag(verifier)
      BY <1>1 DEF TicketOnlyTag
    <3>3. k.seq = verifier.last_seq + 1
      BY <1>1, <1>4, <3>1
    <3>4. Follows(protocol, verifier, k)
      BY <1>1, <2>2, <3>1, <3>2, <3>3 DEF Follows, Linked
    <3>5. Verdict(protocol, verifier, k) = "ok"
      BY <1>1, <3>4, FollowsIsAccepted
    <3>6. Compare!Refusal(k) = Compare!Verdict(protocol, verifier, k)
      BY <3>1 DEF Compare!Refusal, Compare!Session, Compare!EPOCH
    <3>7. Weak /\ Compare!Refusal(k) = "ok"
      BY <1>5, <2>2, <3>5, <3>6, SameVerdict DEF Weak
    <3>8. QED
      BY <3>1, <3>7 DEF k
  <2>3. CASE protocol # "ticket_only"
    <3> DEFINE S == {"session", "forged", "tampered"} \union Sent
               b == Build(protocol, "session", "client", 1, turn, client.last,
                          Compare!Payload(turn))
    <3>1. c = b
      BY <2>3, SameBuild DEF Compare!CleanPacket, Compare!Packet, Compare!Session,
                             Compare!EPOCH, Compare!CLIENT_ID
    <3>2. /\ client.last \in Seq(S) /\ Compare!Payload(turn) \in S
          /\ <<"altered", turn>> \in S
      BY <1>1, PayloadIsSent DEF Links
    <3>3. <<"altered", turn>> # Compare!Payload(turn)
      BY DEF Compare!Payload
    <3>4. [b EXCEPT !.payload = <<"altered", turn>>].tag
            # Covered(protocol, [b EXCEPT !.payload = <<"altered", turn>>])
      <4> HIDE DEF Compare!Payload, S
      <4>1. QED
        BY <1>1, <2>3, <3>2, <3>3, AlteredShows
    <3>5. k.tag # Covered(protocol, k)
      BY <2>1, <3>1, <3>4
    <3> HIDE DEF k
    <3>6. QED
      BY <1>3, <2>3, <3>5, TakenIsNext DEF Weak, k
  <2>4. QED
    BY <2>2, <2>3
<1>6. CASE disturbance = "metadata_tamper"
  <2>1. k.seq = turn + 100
    <3>1. k = [c EXCEPT !.seq = c.seq + 100,
                        !.prev = IF protocol \in Linked THEN <<"tampered">> ELSE c.prev]
      BY <1>6, SameSets DEF Compare!DisturbedPacket, Compare!MetadataTamper
    <3> HIDE DEF k, c
    <3>2. QED
      BY <1>2, <3>1 DEF DataPacket
  <2> HIDE DEF k
  <2>2. QED
    BY <1>1, <1>3, <1>4, <1>6, <2>1, TakenIsNext DEF Weak, k
<1>7. CASE disturbance = "exact_replay"
  <2>1. k.seq = 1
    BY <1>7, FirstIsData DEF Compare!DisturbedPacket
  <2> HIDE DEF k
  <2>2. QED
    BY <1>1, <1>3, <1>4, <1>7, <2>1, TakenIsNext DEF Weak, k
<1>8. CASE disturbance = "forged_prev_mem_valid_mac"
  <2>1. k = Compare!Packet("session", 1, turn, <<"forged">>)
    BY <1>8 DEF Compare!DisturbedPacket, Compare!Session, Compare!EPOCH
  <2>2. <<"forged">> \in Links
    BY DEF Links
  <2>3. k.prev = <<"forged">>
    <3>1. MadeOf(k, "session", 1, turn, <<"forged">>)
      BY <1>1, <2>1, <2>2, PacketIsData
    <3>2. QED
      BY <3>1 DEF MadeOf
  <2>4. <<"forged">> # client.last
    BY <1>1
  <2>5. protocol \in Linked
    BY <1>8, SameSets DEF Compare!Applicable
  <2> HIDE DEF k
  <2>6. QED
    BY <1>3, <1>4, <1>8, <2>3, <2>4, <2>5, TakenIsNext DEF Weak, k
<1>9. CASE disturbance = "sequence_gap_valid_mac"
  <2>1. k = Compare!Packet("session", 1, turn + 5, client.last)
    BY <1>9 DEF Compare!DisturbedPacket, Compare!Session, Compare!EPOCH
  <2>2. k.seq = turn + 5
    <3>1. turn + 5 \in Nat
      BY <1>1
    <3>2. MadeOf(k, "session", 1, turn + 5, client.last)
      <4> DEFINE n == turn + 5
      <4>1. n \in Nat
        BY <3>1
      <4> HIDE DEF n
      <4>2. MadeOf(Compare!Packet("session", 1, n, client.last), "session", 1, n, client.last)
        BY <1>1, <4>1, PacketIsData
      <4>3. QED
        BY <2>1, <4>2 DEF n
    <3>3. QED
      BY <3>2 DEF MadeOf
  <2> HIDE DEF k
  <2>3. QED
    BY <1>1, <1>3, <1>4, <1>9, <2>2, TakenIsNext DEF Weak, k
<1>10. CASE disturbance = "cross_session_valid_mac"
  <2>1. k = Compare!Packet("cross-session", 1, turn, client.last)
    BY <1>10 DEF Compare!DisturbedPacket, Compare!EPOCH
  <2>2. k.session = "cross-session"
    <3>1. MadeOf(k, "cross-session", 1, turn, client.last)
      BY <1>1, <2>1, PacketIsData
    <3>2. QED
      BY <3>1 DEF MadeOf
  <2> HIDE DEF k
  <2>3. QED
    BY <1>3, <1>10, <2>2, TakenIsNext DEF Weak, k
<1>11. CASE disturbance = "cross_epoch_valid_mac"
  <2>1. k = Compare!Packet("session", 999, turn, client.last)
    BY <1>11 DEF Compare!DisturbedPacket, Compare!Session
  <2>2. k.epoch = 999
    <3>1. MadeOf(k, "session", 999, turn, client.last)
      BY <1>1, <2>1, PacketIsData
    <3>2. QED
      BY <3>1 DEF MadeOf
  <2> HIDE DEF k
  <2>3. QED
    BY <1>3, <1>11, <2>2, TakenIsNext DEF Weak, k
<1>12. QED
  BY <1>1, <1>5, <1>6, <1>7, <1>8, <1>9, <1>10, <1>11 DEF Compare!AttackTypes

-----------------------------------------------------------------------------
(* The invariant of a comparison run *)

Waits == {"wait", "wait_attack", "wait_cross", "wait_retry"}
AttackWaits == {"wait_attack", "wait_cross"}

\* No read failed and nothing went wrong with the disturbed packet.
Clean == row.timeout = 0 /\ row.error = 0 /\ row.run_valid

Places ==
  /\ at \in Waits => turn <= MessageCount
  /\ at \in {"hello", "hello_ack"} => turn = 1
  /\ at = "done" /\ Clean => turn = MessageCount + 1
  /\ at \in AttackWaits \union {"wait_retry"} =>
       turn = Compare!AttackSeq /\ disturbance # "none" /\ Compare!Applicable
  /\ at = "wait_attack" => disturbance # "cross_session_valid_mac"
  /\ at = "wait_cross" => disturbance = "cross_session_valid_mac"

Books ==
  /\ row.run_valid =>
       row.sent = row.accepted + row.rejected + row.timeout + row.error
                    + (IF at \in Waits THEN 1 ELSE 0)
  /\ row.timeout = IF dead THEN 1 ELSE 0
  /\ ~Clean => dead \/ ~open \/ at = "done"
  /\ row.sent <= MessageCount + 1
  /\ at \in {"hello", "hello_ack"} => row.sent = 0
  /\ at = "loop" => row.sent <= turn - 1 + (IF row.attack_detected THEN 1 ELSE 0)
  /\ at \in Waits => row.sent <= turn + (IF row.attack_detected THEN 1 ELSE 0)
  /\ row.attack_detected => row.attack_done
  /\ at \in AttackWaits => ~row.attack_detected
  /\ at = "wait_retry" => row.attack_detected

\* The client knows nothing the server did not say, and the server takes no more
\* than was sent to it.
Behind ==
  /\ verifier.last_seq = Len(history)
  /\ verifier.last_seq + Len(requests) <= MessageCount
  /\ verifier.last_seq + Len(requests) <=
       IF at \in {"hello", "loop"} THEN turn - 1 ELSE turn
  /\ client.last_seq <= verifier.last_seq /\ row.accepted <= verifier.last_seq
  /\ client.last # <<>> /\ client.last[1] = "session"
  /\ verifier.last # <<>> /\ verifier.last[1] = "session"
  /\ ~open => replies = <<>>

\* In a clean run the client waits for the answer to the one packet under way.
Expected == IF at \in AttackWaits THEN Compare!DisturbedPacket ELSE Compare!CleanPacket

Pending == requests = <<Expected>> /\ replies = <<>> /\ Synced(turn - 1)

Told ==
  /\ replies[1].last_seq = turn /\ verifier.last_seq = turn
  /\ replies[1].last = verifier.last
  /\ verifier.last = IF protocol \in Linked
                     THEN Append(client.last, Compare!Payload(turn)) ELSE client.last
  /\ at \notin AttackWaits => history[turn] = Compare!Payload(turn)

Answered ==
  /\ requests = <<>> /\ Len(replies) = 1
  /\ replies[1].ok <=> (at \in AttackWaits => Weak)
  /\ client.last_seq = turn - 1
  /\ replies[1].ok => Told
  /\ ~replies[1].ok => Synced(turn - 1)

UnderWay ==
  /\ at = "hello" => requests = <<>> /\ replies = <<>> /\ Synced(0)
  /\ at = "hello_ack" =>
       /\ Synced(0)
       /\ \/ requests = <<Compare!HELLO>> /\ replies = <<>>
          \/ requests = <<>> /\ Len(replies) <= 1
  /\ at \in {"loop", "done"} => requests = <<>> /\ replies = <<>> /\ Synced(turn - 1)
  /\ at \in Waits /\ open => Pending \/ Answered

RowSoFar ==
  /\ row.accepted = turn - 1
  /\ row.rejected = IF row.attack_detected THEN 1 ELSE 0

HistorySoFar ==
  at \in {"loop", "done"} \/ open =>
    \A n \in 1..turn - 1 :
      history[n] = Compare!Payload(n) \/ (row.attack_accepted /\ n = Compare!AttackSeq)

\* The flags of the attack follow from how far the run is.
Flags ==
  /\ row.attack_done <=>
       disturbance # "none"
         /\ (turn > Compare!AttackSeq \/ (turn = Compare!AttackSeq /\ at \in Waits))
  /\ at \notin AttackWaits \union {"wait_retry"} =>
       /\ row.attack_injected <=> row.attack_done /\ Compare!Applicable
       /\ row.attack_detected <=> row.attack_injected /\ ~Weak
       /\ row.attack_accepted <=> row.attack_injected /\ Weak
       /\ row.resynchronized <=> row.attack_detected
  /\ at \in AttackWaits => ~row.attack_accepted /\ ~row.resynchronized
  /\ at = "wait_attack" => row.attack_injected
  /\ at = "wait_retry" =>
       row.attack_injected /\ ~row.attack_accepted /\ ~row.resynchronized /\ ~Weak

InStep == UnderWay /\ RowSoFar /\ HistorySoFar /\ Flags

CompareInv ==
  CompareTypes /\ Places /\ Books /\ Behind /\ (Clean => InStep)

\* What the parts range over.
Numbers ==
  /\ MessageCount \in Nat \ {0} /\ turn \in 1..MessageCount + 1 /\ turn \in Nat
  /\ protocol \in Protocols /\ Compare!AttackSeq \in Nat /\ Compare!AttackSeq >= 2
  /\ client.last_seq \in Nat /\ verifier.last_seq \in Nat /\ Len(requests) \in Nat
  /\ client.last \in Links /\ verifier.last \in Links /\ Len(history) \in Nat
  /\ row.sent \in Nat /\ row.accepted \in Nat /\ row.rejected \in Nat
  /\ row.timeout \in Nat /\ row.error \in Nat

LEMMA NumbersAre ==
  ASSUME ComparisonAssumptions, CompareTypes
  PROVE  Numbers
<1>1. MessageCount \in Nat \ {0} /\ turn \in 1..MessageCount + 1
  BY DEF ComparisonAssumptions, Compare!CountAssumption, CompareTypes
<1>2. protocol \in Protocols
  BY SameSets DEF ComparisonAssumptions, Compare!ComparedAssumption, CompareTypes
<1>3. Compare!AttackSeq \in Nat /\ Compare!AttackSeq >= 2
  BY <1>1 DEF Compare!AttackSeq
<1>4. /\ client.last_seq \in Nat /\ verifier.last_seq \in Nat
      /\ client.last \in Links /\ verifier.last \in Links
  BY DEF CompareTypes, VerifierState
<1>5. Len(requests) \in Nat /\ Len(history) \in Nat
  BY DEF CompareTypes
<1>6. /\ row.sent \in Nat /\ row.accepted \in Nat /\ row.rejected \in Nat
      /\ row.timeout \in Nat /\ row.error \in Nat
  BY DEF CompareTypes, RowType
<1>7. turn \in Nat
  BY <1>1
<1>8. QED
  BY <1>1, <1>2, <1>3, <1>4, <1>5, <1>6, <1>7 DEF Numbers

LEMMA ComparisonStarts ==
  ASSUME ComparisonAssumptions, Compare!Init
  PROVE  CompareInv
<1>1. /\ client = [session |-> "session", sender |-> "client", epoch |-> 1, last_seq |-> 0,
                   last |-> <<"session">>, hash_chain |-> <<>>]
      /\ verifier = client
  BY DEF Compare!Init, Compare!InitialState, Compare!Session, Compare!CLIENT_ID, Compare!EPOCH
<1>2. /\ at = "hello" /\ turn = 1 /\ dead = FALSE /\ open = TRUE /\ requests = <<>>
      /\ replies = <<>> /\ history = <<>> /\ protocol \in Compared
      /\ disturbance \in Disturbances
  BY DEF Compare!Init
<1>3. /\ row \in RowType /\ row.sent = 0 /\ row.accepted = 0 /\ row.rejected = 0
      /\ row.timeout = 0 /\ row.error = 0 /\ ~row.attack_done /\ ~row.attack_injected
      /\ ~row.attack_detected /\ ~row.attack_accepted /\ ~row.resynchronized /\ row.run_valid
  <2>1. row = Compare!Row
    BY DEF Compare!Init
  <2>2. Compare!Row \in RowType
    <3>1. "" \in Reasons
      BY DEF Reasons
    <3>2. QED
      BY <3>1 DEF Compare!Row, RowType
  <2>3. /\ Compare!Row.sent = 0 /\ Compare!Row.accepted = 0 /\ Compare!Row.rejected = 0
        /\ Compare!Row.timeout = 0 /\ Compare!Row.error = 0
    BY DEF Compare!Row
  <2>4. /\ ~Compare!Row.attack_done /\ ~Compare!Row.attack_injected
        /\ ~Compare!Row.attack_detected /\ ~Compare!Row.attack_accepted
        /\ ~Compare!Row.resynchronized /\ Compare!Row.run_valid
    BY DEF Compare!Row
  <2> HIDE DEF Compare!Row
  <2>5. QED
    BY <2>1, <2>2, <2>3, <2>4
<1>4. CompareTypes
  <2>1. MessageCount \in Nat \ {0}
    BY DEF ComparisonAssumptions, Compare!CountAssumption
  <2>2. client \in VerifierState
    BY <1>1 DEF VerifierState, Links
  <2>3. turn \in 1..MessageCount + 1 /\ at \in {"hello", "hello_ack", "loop", "wait",
          "wait_attack", "wait_cross", "wait_retry", "done"}
    BY <1>2, <2>1
  <2>4. /\ requests \in Seq(DataPacket \union {Compare!HELLO})
        /\ replies \in Seq(AnswerType) /\ history \in Seq(Sent)
    BY <1>2
  <2>5. dead \in BOOLEAN /\ open \in BOOLEAN
    BY <1>2
  <2>6. QED
    BY <1>1, <1>2, <1>3, <2>2, <2>3, <2>4, <2>5, Zenon DEF CompareTypes
<1>5. QED
  <2>1. Numbers
    BY <1>4, NumbersAre
  <2>2. Places
    BY <1>2 DEF Places, Waits, AttackWaits
  <2>3. Books
    BY <1>2, <1>3, <2>1 DEF Books, Waits, AttackWaits, Clean, Numbers
  <2>4. Synced(0) /\ client.last # <<>> /\ client.last[1] = "session"
    BY <1>1 DEF Synced
  <2>5. Behind
    BY <1>1, <1>2, <1>3, <2>1, <2>4 DEF Behind, Numbers
  <2>6. UnderWay
    BY <1>2, <2>4 DEF UnderWay, Waits
  <2>7. RowSoFar /\ HistorySoFar
    BY <1>2, <1>3 DEF RowSoFar, HistorySoFar
  <2>8. Flags
    BY <1>2, <1>3, <2>1 DEF Flags, Waits, AttackWaits, Numbers
  <2>9. QED
    BY <1>4, <2>2, <2>3, <2>5, <2>6, <2>7, <2>8 DEF CompareInv, InStep

LEMMA BreakKeeps ==
  ASSUME ComparisonAssumptions, CompareInv, Compare!Break
  PROVE  CompareInv'
<1>1. /\ open' = FALSE /\ replies' = <<>>
      /\ UNCHANGED <<protocol, disturbance, at, turn, client, row, dead, requests,
                     verifier, history>>
  BY DEF Compare!Break, Compare!run, Compare!client
<1>2. CompareTypes'
  <2>1. replies' \in Seq(AnswerType)
    BY <1>1
  <2>2. QED
    BY <1>1, <2>1 DEF CompareInv, CompareTypes
<1>3. Places'
  BY <1>1 DEF CompareInv, Places, Clean, Compare!AttackSeq, Compare!Applicable
<1>4. Books'
  BY <1>1 DEF CompareInv, Books, Clean
<1>5. Behind'
  BY <1>1 DEF CompareInv, Behind
<1>6. ASSUME Clean' PROVE InStep'
  <2>1. InStep
    BY <1>1, <1>6 DEF CompareInv, Clean
  <2>2. UnderWay'
    BY <1>1, <2>1 DEF InStep, UnderWay, Synced
  <2>3. RowSoFar' /\ HistorySoFar'
    BY <1>1, <2>1 DEF InStep, RowSoFar, HistorySoFar, Compare!AttackSeq
  <2>4. Flags'
    BY <1>1, <2>1 DEF InStep, Flags, Weak, Compare!AttackSeq, Compare!Applicable
  <2>5. QED
    BY <2>2, <2>3, <2>4 DEF InStep
<1>7. QED
  BY <1>2, <1>3, <1>4, <1>5, <1>6 DEF CompareInv

\* What the verifier becomes.
LEMMA VerifiedIs ==
  ASSUME NEW p \in Protocols, NEW s \in VerifierState, NEW k \in DataPacket
  PROVE  LET v == Compare!Verified(p, s, k) IN
         /\ v \in VerifierState /\ v.last_seq = k.seq
         /\ v.last = IF p \in Linked THEN Append(k.prev, k.payload) ELSE s.last
<1> DEFINE last == IF p \in Linked THEN Append(k.prev, k.payload) ELSE s.last
           a == [s EXCEPT !.last_seq = k.seq, !.last = last]
           b == [a EXCEPT !.hash_chain = Append(@, [seq |-> a.last_seq, hash |-> a.last])]
<1>1. last \in Links /\ k.seq \in Nat
  <2>1. Sent \subseteq {"session", "forged", "tampered"} \union Sent
    OBVIOUS
  <2>2. k.prev \in Links /\ k.payload \in Sent /\ s.last \in Links /\ k.seq \in Nat
    BY DEF DataPacket, VerifierState
  <2>3. Append(k.prev, k.payload) \in Links
    BY <2>1, <2>2 DEF Links
  <2>4. QED
    BY <2>2, <2>3
<1>2. a \in VerifierState /\ a.last_seq = k.seq /\ a.last = last
  <2> HIDE DEF last
  <2>1. QED
    BY <1>1 DEF VerifierState
<1>3. Compare!Advanced(p, s, k) = a
  BY SameSets DEF Compare!Advanced, Compare!Link
<1>4. b \in VerifierState /\ b.last_seq = k.seq /\ b.last = last
  <2> HIDE DEF a, last
  <2>1. [seq |-> a.last_seq, hash |-> a.last] \in [seq : Nat, hash : Links]
    BY <1>1, <1>2
  <2>2. Append(a.hash_chain, [seq |-> a.last_seq, hash |-> a.last])
          \in Seq([seq : Nat, hash : Links])
    BY <1>2, <2>1 DEF VerifierState
  <2>3. QED
    BY <1>2, <2>2 DEF VerifierState
<1>5. Compare!Verified(p, s, k) = IF p \in Chained THEN b ELSE a
  BY <1>3, SameSets DEF Compare!Verified, Compare!Chain
<1> HIDE DEF a, b, last
<1>6. QED
  BY <1>2, <1>4, <1>5 DEF last

\* The server's step: it takes the packet as the next one of its history, or it
\* stays as it is.
LEMMA ServeEffect ==
  ASSUME ComparisonAssumptions, CompareTypes, verifier.last_seq = Len(history),
         Compare!Serve
  PROVE  \E k \in DataPacket \union {Compare!HELLO}, ok \in BOOLEAN :
           /\ k = requests[1] /\ requests' = Tail(requests) /\ requests # <<>>
           /\ ok <=> k = Compare!HELLO \/ Compare!Refusal(k) = "ok"
           /\ IF ok /\ k # Compare!HELLO
              THEN /\ k \in DataPacket /\ k.seq = verifier.last_seq + 1
                   /\ verifier' \in VerifierState /\ verifier'.last_seq = k.seq
                   /\ verifier'.last = IF protocol \in Linked
                        THEN Append(verifier.last, k.payload) ELSE verifier.last
                   /\ history' = Append(history, k.payload) /\ k.payload \in Sent
              ELSE UNCHANGED <<verifier, history>>
           /\ \E answer \in AnswerType :
                /\ answer.ok = ok /\ answer.last_seq = verifier'.last_seq
                /\ answer.last = verifier'.last
                /\ replies' = IF open THEN Append(replies, answer) ELSE replies
           /\ UNCHANGED <<protocol, disturbance, at, turn, client, row, dead, open>>
<1> DEFINE k == Head(requests)
           reason == IF k = Compare!HELLO THEN "ok" ELSE Compare!Refusal(k)
           ok == reason = "ok"
           answer == [ok |-> ok, reason |-> reason, last_seq |-> verifier'.last_seq,
                      last |-> verifier'.last]
<1>1. /\ requests # <<>> /\ requests' = Tail(requests)
      /\ replies' = IF open THEN Append(replies, answer) ELSE replies
      /\ UNCHANGED <<protocol, disturbance, at, turn, client, row, dead, open>>
  BY DEF Compare!Serve, Compare!run, Compare!client
<1>2. IF k # Compare!HELLO /\ ok
      THEN /\ verifier' = Compare!Verified(protocol, verifier, k)
           /\ history' = Append(SubSeq(history, 1, k.seq - 1), k.payload)
      ELSE UNCHANGED <<verifier, history>>
  BY DEF Compare!Serve
<1>3. k = requests[1] /\ k \in DataPacket \union {Compare!HELLO}
  BY <1>1 DEF CompareTypes
<1>4. /\ protocol \in Protocols /\ verifier \in VerifierState /\ verifier.last_seq \in Nat
      /\ history \in Seq(Sent)
  BY NumbersAre DEF CompareTypes, Numbers
<1>5. ASSUME ok, k # Compare!HELLO
      PROVE  /\ k \in DataPacket /\ k.seq = verifier.last_seq + 1
             /\ verifier' \in VerifierState /\ verifier'.last_seq = k.seq
             /\ verifier'.last = IF protocol \in Linked
                  THEN Append(verifier.last, k.payload) ELSE verifier.last
             /\ history' = Append(history, k.payload) /\ k.payload \in Sent
  <2> HIDE DEF k
  <2>1. k \in DataPacket /\ Compare!Refusal(k) = "ok"
    BY <1>3, <1>5
  <2>2. k.seq = verifier.last_seq + 1 /\ (protocol \in Linked => k.prev = verifier.last)
    BY <2>1, TakenIsNext
  <2>3. /\ verifier' \in VerifierState /\ verifier'.last_seq = k.seq
        /\ verifier'.last = IF protocol \in Linked
             THEN Append(k.prev, k.payload) ELSE verifier.last
    BY <1>2, <1>4, <1>5, <2>1, VerifiedIs
  <2>4. SubSeq(history, 1, k.seq - 1) = history
    BY <1>4, <2>2
  <2>5. history' = Append(history, k.payload) /\ k.payload \in Sent
    BY <1>2, <1>5, <2>1, <2>4 DEF DataPacket
  <2>6. QED
    BY <2>1, <2>2, <2>3, <2>5
<1>6. ~(ok /\ k # Compare!HELLO) => UNCHANGED <<verifier, history>>
  BY <1>2
<1>7. reason \in Reasons
  <2>1. CASE k = Compare!HELLO
    BY <2>1 DEF Reasons
  <2>2. CASE k # Compare!HELLO
    <3>1. k \in DataPacket
      BY <1>3, <2>2
    <3>2. Verdict(protocol, verifier, k) \in Reasons
      <4> DEFINE v == <<protocol, verifier, k>>
      <4>1. v \in Protocols \X VerifierState \X DataPacket
        BY <1>4, <3>1
      <4>2. v[1] = protocol /\ v[2] = verifier /\ v[3] = k
        OBVIOUS
      <4> HIDE DEF v
      <4>3. QED
        BY <4>1, <4>2 DEF Reasons
    <3>3. /\ "connection session mismatch" \in Reasons
          /\ "connection epoch mismatch" \in Reasons
      BY DEF Reasons
    <3> HIDE DEF k
    <3>4. Compare!Refusal(k) \in Reasons
      BY <3>2, <3>3, SameVerdict DEF Compare!Refusal
    <3>5. QED
      BY <2>2, <3>4
  <2>3. QED
    BY <2>1, <2>2
<1>8. verifier' \in VerifierState
  BY <1>4, <1>5, <1>6
<1>9. ok \in BOOLEAN
  OBVIOUS
<1>10. ok <=> k = Compare!HELLO \/ Compare!Refusal(k) = "ok"
  OBVIOUS
<1> HIDE DEF k, reason, ok
<1>11. answer \in AnswerType
  <2>1. verifier'.last_seq \in Nat /\ verifier'.last \in Links
    BY <1>8 DEF VerifierState
  <2>2. QED
    BY <1>7, <1>9, <2>1 DEF AnswerType
<1>12. answer.ok = ok /\ answer.last_seq = verifier'.last_seq /\ answer.last = verifier'.last
  OBVIOUS
<1> HIDE DEF answer
<1>13. \E a \in AnswerType :
        /\ a.ok = ok /\ a.last_seq = verifier'.last_seq /\ a.last = verifier'.last
        /\ replies' = IF open THEN Append(replies, a) ELSE replies
  BY <1>1, <1>11, <1>12
<1>14. IF ok /\ k # Compare!HELLO
       THEN /\ k \in DataPacket /\ k.seq = verifier.last_seq + 1
            /\ verifier' \in VerifierState /\ verifier'.last_seq = k.seq
            /\ verifier'.last = IF protocol \in Linked
                 THEN Append(verifier.last, k.payload) ELSE verifier.last
            /\ history' = Append(history, k.payload) /\ k.payload \in Sent
       ELSE UNCHANGED <<verifier, history>>
  BY <1>5, <1>6
<1>15. QED
  BY <1>1, <1>3, <1>9, <1>10, <1>13, <1>14

LEMMA AppendKeepsFirst ==
  ASSUME NEW S, NEW s \in Seq(S), s # <<>>, NEW x
  PROVE  Append(s, x) # <<>> /\ Append(s, x)[1] = s[1]
<1>1. Len(s) >= 1
  OBVIOUS
<1>2. QED
  BY <1>1

\* In a clean run the packet under way is the expected one, and its answer fits.
LEMMA ServeAnswers ==
  ASSUME ComparisonAssumptions, CompareInv, Compare!Serve, Clean, at \in Waits, open
  PROVE  Answered' /\ Pending
<1>1. PICK k \in DataPacket \union {Compare!HELLO}, ok \in BOOLEAN :
        /\ k = requests[1] /\ requests' = Tail(requests) /\ requests # <<>>
        /\ ok <=> k = Compare!HELLO \/ Compare!Refusal(k) = "ok"
        /\ IF ok /\ k # Compare!HELLO
           THEN /\ k \in DataPacket /\ k.seq = verifier.last_seq + 1
                /\ verifier' \in VerifierState /\ verifier'.last_seq = k.seq
                /\ verifier'.last = IF protocol \in Linked
                     THEN Append(verifier.last, k.payload) ELSE verifier.last
                /\ history' = Append(history, k.payload) /\ k.payload \in Sent
           ELSE UNCHANGED <<verifier, history>>
        /\ \E answer \in AnswerType :
             /\ answer.ok = ok /\ answer.last_seq = verifier'.last_seq
             /\ answer.last = verifier'.last
             /\ replies' = IF open THEN Append(replies, answer) ELSE replies
        /\ UNCHANGED <<protocol, disturbance, at, turn, client, row, dead, open>>
  BY ServeEffect DEF CompareInv, Behind
<1>2. /\ Numbers /\ InStep /\ verifier.last_seq = Len(history)
      /\ client.last # <<>> /\ client.last[1] = "session"
  BY NumbersAre DEF CompareInv, Behind
<1>3. Pending
  <2>1. Pending \/ Answered
    BY <1>2 DEF InStep, UnderWay
  <2>2. QED
    BY <1>1, <2>1 DEF Answered
<1>4. k = Expected /\ replies = <<>> /\ requests' = <<>>
  BY <1>1, <1>3 DEF Pending
<1>5. PICK answer \in AnswerType :
        /\ answer.ok = ok /\ answer.last_seq = verifier'.last_seq
        /\ answer.last = verifier'.last
        /\ replies' = IF open THEN Append(replies, answer) ELSE replies
  BY <1>1
<1>6. Len(replies') = 1 /\ replies'[1] = answer
  BY <1>4, <1>5
<1>7. /\ Synced(turn - 1) /\ turn \in Nat /\ (at \in AttackWaits <=> at' \in AttackWaits)
      /\ UNCHANGED <<protocol, disturbance, at, turn, client>>
  BY <1>1, <1>2, <1>3 DEF Pending, Numbers
<1>8. CASE at \in AttackWaits
  <2>1. /\ turn = Compare!AttackSeq /\ disturbance # "none" /\ Compare!Applicable
        /\ turn >= 2
    BY <1>2, <1>8 DEF CompareInv, Places, Numbers
  <2>2. k = Compare!DisturbedPacket /\ k \in DataPacket /\ k # Compare!HELLO
    BY <1>4, <1>8, <2>1, DisturbedIsData, HelloIsNoData DEF Expected, CompareInv
  <2>3. IF Weak THEN Compare!Refusal(k) = "ok" /\ k.seq = turn
                ELSE Compare!Refusal(k) # "ok"
    BY <1>2, <1>7, <2>1, <2>2, DisturbedIsRefused DEF CompareInv
  <2>4. CASE Weak
    <3>1. ok /\ verifier'.last_seq = turn /\ verifier'.last = client.last
          /\ protocol \notin Linked
      BY <1>1, <1>7, <2>2, <2>3, <2>4 DEF Weak, Synced, Linked
    <3>2. Told'
      BY <1>5, <1>6, <1>7, <1>8, <3>1 DEF Told
    <3>3. Weak'
      BY <1>7, <2>4 DEF Weak
    <3>4. QED
      BY <1>3, <1>4, <1>5, <1>6, <1>7, <1>8, <3>1, <3>2, <3>3 DEF Answered, Synced
  <2>5. CASE ~Weak
    <3>1. ~ok /\ verifier' = verifier
      BY <1>1, <2>2, <2>3, <2>5
    <3>2. Synced(turn - 1)' /\ client'.last_seq = turn' - 1
      BY <1>7, <3>1 DEF Synced
    <3>3. ~Weak'
      BY <1>7, <2>5 DEF Weak
    <3>4. QED
      BY <1>3, <1>4, <1>5, <1>6, <1>7, <1>8, <3>1, <3>2, <3>3 DEF Answered
  <2>6. QED
    BY <2>4, <2>5
<1>9. CASE at \notin AttackWaits
  <2>1. /\ k = Compare!CleanPacket /\ k \in DataPacket /\ k # Compare!HELLO
        /\ k.seq = turn /\ k.payload = Compare!Payload(turn)
    BY <1>4, <1>9, CleanIsData, HelloIsNoData DEF Expected, CompareInv
  <2>2. ok
    BY <1>1, <1>7, <2>1, CleanIsTaken DEF CompareInv
  <2>3. /\ verifier'.last_seq = turn
        /\ verifier'.last = IF protocol \in Linked
             THEN Append(client.last, Compare!Payload(turn)) ELSE client.last
        /\ history' = Append(history, Compare!Payload(turn))
    BY <1>1, <1>7, <2>1, <2>2 DEF Synced
  <2>4. history'[turn] = Compare!Payload(turn)
    <3>1. Len(history) = turn - 1 /\ history \in Seq(Sent)
      BY <1>2, <1>7 DEF CompareInv, CompareTypes, Synced
    <3> HIDE DEF Compare!Payload
    <3>2. QED
      BY <1>7, <2>3, <3>1
  <2> HIDE DEF Compare!Payload
  <2>5. Told'
    BY <1>5, <1>6, <1>7, <2>3, <2>4 DEF Told
  <2>6. QED
    BY <1>3, <1>4, <1>5, <1>6, <1>7, <1>9, <2>2, <2>5 DEF Answered, Synced
<1>10. QED
  BY <1>8, <1>9

LEMMA ServeKeeps ==
  ASSUME ComparisonAssumptions, CompareInv, Compare!Serve
  PROVE  CompareInv'
<1>1. PICK k \in DataPacket \union {Compare!HELLO}, ok \in BOOLEAN :
        /\ k = requests[1] /\ requests' = Tail(requests) /\ requests # <<>>
        /\ ok <=> k = Compare!HELLO \/ Compare!Refusal(k) = "ok"
        /\ IF ok /\ k # Compare!HELLO
           THEN /\ k \in DataPacket /\ k.seq = verifier.last_seq + 1
                /\ verifier' \in VerifierState /\ verifier'.last_seq = k.seq
                /\ verifier'.last = IF protocol \in Linked
                     THEN Append(verifier.last, k.payload) ELSE verifier.last
                /\ history' = Append(history, k.payload) /\ k.payload \in Sent
           ELSE UNCHANGED <<verifier, history>>
        /\ \E answer \in AnswerType :
             /\ answer.ok = ok /\ answer.last_seq = verifier'.last_seq
             /\ answer.last = verifier'.last
             /\ replies' = IF open THEN Append(replies, answer) ELSE replies
        /\ UNCHANGED <<protocol, disturbance, at, turn, client, row, dead, open>>
  BY ServeEffect DEF CompareInv, Behind
<1>2. PICK answer \in AnswerType :
        replies' = IF open THEN Append(replies, answer) ELSE replies
  BY <1>1
<1>3. CompareTypes /\ Numbers /\ Behind /\ Places /\ Books
  BY NumbersAre DEF CompareInv
<1>4. UNCHANGED <<protocol, disturbance, at, turn, client, row, dead, open>>
  BY <1>1
<1>5. CompareTypes'
  <2>1. requests' \in Seq(DataPacket \union {Compare!HELLO}) /\ replies' \in Seq(AnswerType)
    BY <1>1, <1>2, <1>3 DEF CompareTypes
  <2>2. verifier' \in VerifierState /\ history' \in Seq(Sent)
    <3>1. CASE ok /\ k # Compare!HELLO
      <4>1. /\ verifier' \in VerifierState /\ history' = Append(history, k.payload)
            /\ k.payload \in Sent
        BY <1>1, <3>1
      <4>2. history \in Seq(Sent)
        BY <1>3 DEF CompareTypes
      <4>3. Append(history, k.payload) \in Seq(Sent)
        BY <4>1, <4>2
      <4>4. QED
        BY <4>1, <4>3
    <3>2. CASE ~(ok /\ k # Compare!HELLO)
      BY <1>1, <1>3, <3>2 DEF CompareTypes
    <3>3. QED
      BY <3>1, <3>2
  <2>3. QED
    BY <1>3, <1>4, <2>1, <2>2 DEF CompareTypes
<1>6. Places'
  BY <1>3, <1>4 DEF Places, Clean, Compare!AttackSeq, Compare!Applicable
<1>7. Books'
  BY <1>3, <1>4 DEF Books, Clean
<1>8. Behind'
  <2>1. Len(requests') = Len(requests) - 1
    BY <1>1, <1>3 DEF CompareTypes
  <2>2. /\ verifier'.last_seq = Len(history')
        /\ verifier'.last_seq \in {verifier.last_seq, verifier.last_seq + 1}
    BY <1>1, <1>3 DEF Behind, CompareTypes
  <2>3. verifier'.last # <<>> /\ verifier'.last[1] = "session"
    BY <1>1, <1>3, AppendKeepsFirst DEF Behind, Numbers, Links
  <2>4. ~open' => replies' = <<>>
    BY <1>2, <1>3, <1>4 DEF Behind
  <2>5. /\ verifier'.last_seq + Len(requests') <= verifier.last_seq + Len(requests)
        /\ verifier.last_seq <= verifier'.last_seq /\ verifier'.last_seq \in Nat
        /\ Len(requests') \in Nat
    BY <1>3, <2>1, <2>2, <1>5 DEF Numbers, CompareTypes
  <2>6. /\ verifier'.last_seq + Len(requests') <= MessageCount
        /\ verifier'.last_seq + Len(requests') <=
             IF at \in {"hello", "loop"} THEN turn - 1 ELSE turn
        /\ client.last_seq <= verifier'.last_seq /\ row.accepted <= verifier'.last_seq
    BY <1>3, <2>5 DEF Behind, Numbers
  <2>7. QED
    BY <1>3, <1>4, <2>2, <2>3, <2>4, <2>6 DEF Behind
<1>9. ASSUME Clean' PROVE InStep'
  <2>1. Clean /\ InStep
    BY <1>4, <1>9 DEF CompareInv, Clean
  <2>2. RowSoFar' /\ Flags'
    BY <1>4, <2>1 DEF InStep, RowSoFar, Flags, Weak, Compare!AttackSeq, Compare!Applicable
  <2>3. at \notin {"hello", "loop", "done"}
    BY <1>1, <2>1 DEF InStep, UnderWay
  <2>4. CASE at = "hello_ack"
    <3>1. Synced(0) /\ requests = <<Compare!HELLO>> /\ replies = <<>>
      BY <1>1, <2>1, <2>4 DEF InStep, UnderWay
    <3>2. verifier' = verifier /\ requests' = <<>> /\ Len(replies') <= 1
      BY <1>1, <1>2, <3>1
    <3>3. UnderWay'
      BY <1>4, <2>4, <3>1, <3>2 DEF UnderWay, Synced, Waits
    <3>4. HistorySoFar'
      BY <1>3, <1>4, <2>4 DEF HistorySoFar, Places
    <3>5. QED
      BY <2>2, <3>3, <3>4 DEF InStep
  <2>5. CASE at \in Waits /\ open
    <3>1. Answered' /\ Pending
      BY <2>1, <2>5, ServeAnswers
    <3>2. UnderWay'
      BY <1>4, <2>5, <3>1 DEF UnderWay, Waits
    <3>3. HistorySoFar'
      <4>1. /\ Len(history) = turn - 1 /\ turn \in Nat /\ history \in Seq(Sent)
            /\ HistorySoFar
        BY <1>3, <2>1, <3>1 DEF Pending, Synced, Behind, Numbers, CompareTypes, InStep
      <4>2. ASSUME NEW n \in 1..turn - 1
            PROVE  history'[n] = history[n]
        BY <1>1, <4>1
      <4> HIDE DEF Compare!Payload, Compare!AttackSeq
      <4>3. \A n \in 1..turn - 1 :
              history'[n] = Compare!Payload(n) \/ (row.attack_accepted /\ n = Compare!AttackSeq)
        BY <2>5, <4>1, <4>2 DEF HistorySoFar
      <4>4. Compare!AttackSeq' = Compare!AttackSeq
        BY DEF Compare!AttackSeq
      <4>5. QED
        BY <1>4, <4>3, <4>4 DEF HistorySoFar
    <3>4. QED
      BY <2>2, <3>2, <3>3 DEF InStep
  <2>6. CASE at \in Waits /\ ~open
    <3>1. UnderWay' /\ HistorySoFar'
      BY <1>4, <2>6 DEF UnderWay, HistorySoFar, Waits
    <3>2. QED
      BY <2>2, <3>1 DEF InStep
  <2>7. QED
    BY <1>3, <2>3, <2>4, <2>5, <2>6 DEF CompareTypes, Waits
<1>10. QED
  BY <1>5, <1>6, <1>7, <1>8, <1>9 DEF CompareInv

-----------------------------------------------------------------------------
(* The client's steps *)

\* The run is cut short.
LEMMA FailKeeps ==
  ASSUME ComparisonAssumptions, CompareInv, at # "done", Compare!Fail,
         UNCHANGED <<protocol, disturbance, open, requests, replies, verifier, history>>
  PROVE  CompareInv'
<1>1. /\ at' = "done" /\ row' = [row EXCEPT !.run_valid = FALSE]
      /\ UNCHANGED <<turn, client, dead>>
  BY DEF Compare!Fail
<1>2. CompareTypes /\ Numbers /\ Places /\ Books /\ Behind
  BY NumbersAre DEF CompareInv
<1>3. /\ row' \in RowType /\ ~row'.run_valid
      /\ row'.sent = row.sent /\ row'.accepted = row.accepted
      /\ row'.timeout = row.timeout /\ row'.attack_done = row.attack_done
      /\ row'.attack_detected = row.attack_detected
  <2>1. row \in RowType
    BY <1>2 DEF CompareTypes
  <2>2. QED
    BY <1>1, <2>1 DEF RowType
<1>4. ~Clean'
  BY <1>3 DEF Clean
<1>5. CompareTypes'
  BY <1>1, <1>2, <1>3 DEF CompareTypes
<1>6. Places'
  BY <1>1, <1>4 DEF Places, Waits, AttackWaits
<1>7. Books'
  BY <1>1, <1>2, <1>3 DEF Books, Waits, AttackWaits
<1>8. Behind'
  BY <1>1, <1>2, <1>3 DEF Behind, Numbers
<1>9. QED
  BY <1>4, <1>5, <1>6, <1>7, <1>8 DEF CompareInv

\* A read fails and the loop goes on.
LEMMA ReadFailsKeeps ==
  ASSUME ComparisonAssumptions, CompareInv, at \in Waits, NEW attacked \in BOOLEAN,
         Compare!ReadFails(attacked),
         UNCHANGED <<protocol, disturbance, open, requests, verifier, history>>
  PROVE  CompareInv'
<1>1. /\ at' = "loop" /\ turn' = turn + 1 /\ UNCHANGED <<client, replies>>
      /\ \/ Compare!TimesOut /\ row' = Compare!TimedOut(attacked) /\ dead' = TRUE
         \/ Compare!ReadRaises /\ row' = Compare!Raised /\ UNCHANGED dead
  BY DEF Compare!ReadFails, Compare!NextMessage
<1>2. CompareTypes /\ Numbers /\ Places /\ Books /\ Behind
  BY NumbersAre DEF CompareInv
<1>3. turn <= MessageCount /\ turn' \in 1..MessageCount + 1
  BY <1>1, <1>2 DEF Places, Numbers
<1>4. /\ row' \in RowType /\ row'.sent = row.sent /\ row'.accepted = row.accepted
      /\ row'.rejected = row.rejected
      /\ row'.attack_done = row.attack_done /\ row'.attack_detected = row.attack_detected
      /\ row'.run_valid => row.run_valid
      /\ \/ ~dead /\ dead' = TRUE /\ row'.timeout = row.timeout + 1 /\ row'.error = row.error
         \/ (dead \/ ~open) /\ dead' = dead /\ ~row'.run_valid /\ row'.timeout = row.timeout
  <2>1. row \in RowType
    BY <1>2 DEF CompareTypes
  <2>2. CASE Compare!TimesOut /\ row' = Compare!TimedOut(attacked) /\ dead' = TRUE
    <3>1. row' = [row EXCEPT !.timeout = row.timeout + 1,
                             !.run_valid = row.run_valid /\ ~attacked]
      BY <2>2 DEF Compare!TimedOut
    <3>2. ~dead
      BY <2>2 DEF Compare!TimesOut
    <3>3. (row.run_valid /\ ~attacked) \in BOOLEAN /\ row.timeout + 1 \in Nat
      BY <1>2 DEF Numbers
    <3>4. row' \in RowType
      BY <2>1, <3>1, <3>3 DEF RowType
    <3>5. /\ row'.sent = row.sent /\ row'.accepted = row.accepted
          /\ row'.rejected = row.rejected
          /\ row'.attack_done = row.attack_done
          /\ row'.attack_detected = row.attack_detected
          /\ row'.timeout = row.timeout + 1 /\ row'.error = row.error
          /\ row'.run_valid = (row.run_valid /\ ~attacked)
      BY <2>1, <3>1 DEF RowType
    <3>6. QED
      BY <2>2, <3>2, <3>4, <3>5
  <2>3. CASE Compare!ReadRaises /\ row' = Compare!Raised /\ UNCHANGED dead
    <3>1. row' = [row EXCEPT !.error = row.error + 1, !.run_valid = FALSE]
      BY <2>3 DEF Compare!Raised
    <3>2. dead \/ ~open
      BY <2>3 DEF Compare!ReadRaises
    <3>3. row.error + 1 \in Nat
      BY <1>2 DEF Numbers
    <3>4. row' \in RowType
      BY <2>1, <3>1, <3>3 DEF RowType
    <3>5. /\ row'.sent = row.sent /\ row'.accepted = row.accepted
          /\ row'.rejected = row.rejected
          /\ row'.attack_done = row.attack_done
          /\ row'.attack_detected = row.attack_detected
          /\ row'.timeout = row.timeout /\ ~row'.run_valid
      BY <2>1, <3>1 DEF RowType
    <3>6. QED
      BY <2>3, <3>2, <3>4, <3>5
  <2>4. QED
    BY <1>1, <2>2, <2>3
<1>5. ~Clean'
  BY <1>2, <1>4 DEF Clean, Numbers
<1>6. CompareTypes'
  BY <1>1, <1>2, <1>3, <1>4 DEF CompareTypes
<1>7. Places'
  BY <1>1, <1>5 DEF Places, Waits, AttackWaits
<1>8. Books'
  <2>1. row'.run_valid => row'.sent = row'.accepted + row'.rejected + row'.timeout + row'.error
                                        + (IF at' \in Waits THEN 1 ELSE 0)
    <3>1. at' \notin Waits
      BY <1>1 DEF Waits
    <3>2. row.run_valid =>
            row.sent = row.accepted + row.rejected + row.timeout + row.error + 1
      BY <1>2 DEF Books
    <3>3. /\ row.sent \in Nat /\ row.accepted \in Nat /\ row.rejected \in Nat
          /\ row.timeout \in Nat /\ row.error \in Nat
      BY <1>2 DEF Numbers
    <3>4. ASSUME row'.run_valid
          PROVE  row'.sent = row'.accepted + row'.rejected + row'.timeout + row'.error
      <4>1. row.run_valid /\ row'.timeout = row.timeout + 1 /\ row'.error = row.error
        BY <1>4, <3>4
      <4>2. /\ row'.sent = row.sent /\ row'.accepted = row.accepted
            /\ row'.rejected = row.rejected
        BY <1>4
      <4>3. row.sent = row.accepted + row.rejected + row.timeout + row.error + 1
        BY <3>2, <4>1
      <4>4. QED
        BY <3>3, <4>1, <4>2, <4>3
    <3>5. /\ row'.accepted \in Nat /\ row'.rejected \in Nat
          /\ row'.timeout \in Nat /\ row'.error \in Nat
      BY <1>4 DEF RowType
    <3>6. QED
      BY <3>1, <3>4, <3>5
  <2>2. row'.timeout = IF dead' THEN 1 ELSE 0
    BY <1>2, <1>4 DEF Books
  <2>3. dead' \/ ~open'
    BY <1>4
  <2>4. /\ row'.sent <= MessageCount + 1
        /\ row'.sent <= turn' - 1 + (IF row'.attack_detected THEN 1 ELSE 0)
        /\ row'.attack_detected => row'.attack_done
    BY <1>1, <1>2, <1>4 DEF Books, Numbers
  <2>5. QED
    BY <1>1, <2>1, <2>2, <2>3, <2>4 DEF Books, Waits, AttackWaits
<1>9. Behind'
  <2>1. /\ verifier.last_seq + Len(requests) <= turn
    BY <1>2 DEF Behind, Waits
  <2>2. QED
    BY <1>1, <1>2, <1>4, <2>1 DEF Behind, Numbers
<1>10. QED
  BY <1>5, <1>6, <1>7, <1>8, <1>9 DEF CompareInv

LEMMA SendHelloKeeps ==
  ASSUME ComparisonAssumptions, CompareInv, Compare!SendHello
  PROVE  CompareInv'
<1>1. /\ at = "hello"
      /\ UNCHANGED <<protocol, disturbance, open, replies, verifier, history>>
  BY DEF Compare!SendHello, Compare!run
<1>2. CompareTypes /\ Numbers /\ Places /\ Books /\ Behind
  BY NumbersAre DEF CompareInv
<1>3. CASE Compare!SendFails /\ Compare!Fail
  BY <1>1, <1>3, FailKeeps DEF Compare!SendFails
<1>4. CASE /\ Compare!Send(Compare!HELLO) /\ at' = "hello_ack"
           /\ UNCHANGED <<turn, client, row, dead>>
  <2>1. open /\ requests' = Append(requests, Compare!HELLO)
    BY <1>4 DEF Compare!Send
  <2>2. /\ requests' \in Seq(DataPacket \union {Compare!HELLO})
        /\ Len(requests') = Len(requests) + 1
    BY <1>2, <2>1 DEF CompareTypes
  <2>3. CompareTypes'
    BY <1>1, <1>2, <1>4, <2>2 DEF CompareTypes
  <2>4. Places'
    BY <1>1, <1>2, <1>4 DEF Places, Waits, AttackWaits
  <2>5. Books'
    BY <1>1, <1>2, <1>4 DEF Books, Clean, Waits, AttackWaits
  <2>6. Behind'
    <3>1. turn = 1 /\ verifier.last_seq + Len(requests) <= 0
      BY <1>1, <1>2 DEF Places, Behind, Numbers
    <3>2. QED
      BY <1>1, <1>2, <1>4, <2>2, <3>1 DEF Behind, Numbers
  <2>7. ASSUME Clean' PROVE InStep'
    <3>1. InStep /\ turn = 1
      BY <1>1, <1>2, <1>4, <2>7 DEF CompareInv, Clean, Places
    <3>2. Synced(0) /\ requests = <<>> /\ replies = <<>>
      BY <1>1, <3>1 DEF InStep, UnderWay
    <3>3. UnderWay'
      <4>1. requests' = <<Compare!HELLO>>
        BY <2>1, <3>2
      <4>2. QED
        BY <1>1, <1>4, <3>2, <4>1 DEF UnderWay, Synced, Waits
    <3>4. RowSoFar' /\ HistorySoFar'
      BY <1>4, <3>1 DEF InStep, RowSoFar, HistorySoFar
    <3>5. Flags'
      BY <1>1, <1>4, <3>1 DEF InStep, Flags, Weak, Waits, AttackWaits,
                              Compare!AttackSeq, Compare!Applicable
    <3>6. QED
      BY <3>3, <3>4, <3>5 DEF InStep
  <2>8. QED
    BY <2>3, <2>4, <2>5, <2>6, <2>7 DEF CompareInv
<1>5. QED
  BY <1>3, <1>4 DEF Compare!SendHello

LEMMA HelloAckKeeps ==
  ASSUME ComparisonAssumptions, CompareInv, Compare!HelloAck
  PROVE  CompareInv'
<1>1. /\ at = "hello_ack"
      /\ UNCHANGED <<protocol, disturbance, open, requests, verifier, history>>
  BY DEF Compare!HelloAck, Compare!run
<1>2. CompareTypes /\ Numbers /\ Places /\ Books /\ Behind
  BY NumbersAre DEF CompareInv
<1>3. CASE Compare!Fail /\ UNCHANGED replies
  BY <1>1, <1>3, FailKeeps
<1>4. CASE /\ Compare!Received /\ at' = "loop" /\ UNCHANGED <<turn, client, row, dead>>
  <2>1. ~dead /\ replies # <<>> /\ replies' = Tail(replies)
    BY <1>4 DEF Compare!Received
  <2>2. Clean
    BY <1>1, <1>2, <2>1 DEF Books, Behind
  <2>3. InStep /\ turn = 1
    BY <1>1, <1>2, <2>2 DEF CompareInv, Places
  <2>4. Synced(0) /\ requests = <<>> /\ Len(replies) <= 1
    BY <1>1, <2>1, <2>3 DEF InStep, UnderWay
  <2>5. replies' = <<>>
    BY <1>2, <2>1, <2>4 DEF CompareTypes
  <2>6. CompareTypes'
    BY <1>1, <1>2, <1>4, <2>5 DEF CompareTypes
  <2>7. Places'
    BY <1>1, <1>2, <1>4 DEF Places, Waits, AttackWaits
  <2>8. Books'
    BY <1>1, <1>2, <1>4, <2>3 DEF Books, Clean, Waits, AttackWaits, Numbers
  <2>9. Behind'
    BY <1>1, <1>2, <1>4, <2>3, <2>4, <2>5 DEF Behind, Synced, Numbers
  <2>10. InStep'
    <3>1. UnderWay'
      BY <1>1, <1>4, <2>3, <2>4, <2>5 DEF UnderWay, Synced, Waits
    <3>2. RowSoFar' /\ HistorySoFar'
      BY <1>4, <2>3 DEF InStep, RowSoFar, HistorySoFar
    <3>3. Flags'
      BY <1>1, <1>4, <2>3 DEF InStep, Flags, Weak, Waits, AttackWaits,
                              Compare!AttackSeq, Compare!Applicable
    <3>4. QED
      BY <3>1, <3>2, <3>3 DEF InStep
  <2>11. QED
    BY <2>6, <2>7, <2>8, <2>9, <2>10 DEF CompareInv
<1>5. QED
  BY <1>3, <1>4 DEF Compare!HelloAck

LEMMA LoopEndsKeeps ==
  ASSUME ComparisonAssumptions, CompareInv, Compare!LoopEnds
  PROVE  CompareInv'
<1>1. /\ at = "loop" /\ turn > MessageCount /\ at' = "done"
      /\ UNCHANGED <<protocol, disturbance, open, requests, verifier, history, turn,
                     client, row, dead, replies>>
  BY DEF Compare!LoopEnds, Compare!run
<1>2. CompareTypes /\ Numbers /\ Places /\ Books /\ Behind
  BY NumbersAre DEF CompareInv
<1>3. CompareTypes'
  BY <1>1, <1>2 DEF CompareTypes
<1>4. Places'
  <2>1. turn' = MessageCount + 1
    BY <1>1, <1>2 DEF Numbers
  <2>2. QED
    BY <1>1, <2>1 DEF Places, Waits, AttackWaits
<1>5. Books'
  BY <1>1, <1>2 DEF Books, Waits, AttackWaits
<1>6. Behind'
  BY <1>1, <1>2 DEF Behind, Numbers
<1>7. ASSUME Clean' PROVE InStep'
  <2>1. InStep
    BY <1>1, <1>7 DEF CompareInv, Clean
  <2>2. UnderWay'
    BY <1>1, <2>1 DEF InStep, UnderWay, Synced, Waits
  <2>3. RowSoFar' /\ HistorySoFar'
    BY <1>1, <2>1 DEF InStep, RowSoFar, HistorySoFar, Compare!AttackSeq
  <2>4. Flags'
    BY <1>1, <2>1 DEF InStep, Flags, Weak, Waits, AttackWaits,
                      Compare!AttackSeq, Compare!Applicable
  <2>5. QED
    BY <2>2, <2>3, <2>4 DEF InStep
<1>8. QED
  BY <1>3, <1>4, <1>5, <1>6, <1>7 DEF CompareInv

LEMMA SamePackets ==
  ASSUME UNCHANGED <<protocol, disturbance, turn, client>>
  PROVE  /\ Compare!CleanPacket' = Compare!CleanPacket
         /\ Compare!DisturbedPacket' = Compare!DisturbedPacket
BY DEF Compare!DisturbedPacket, Compare!ModifyUnsigned, Compare!MetadataTamper,
       Compare!CleanPacket, Compare!FirstPacket, Compare!Packet

\* The message, or the disturbed packet in its place, is sent.
LEMMA SendMessageKeeps ==
  ASSUME ComparisonAssumptions, CompareInv, Compare!SendMessage
  PROVE  CompareInv'
<1> DEFINE injects == Compare!Attacks /\ Compare!Applicable
           crosses == disturbance = "cross_session_valid_mac"
           packet == IF injects THEN Compare!DisturbedPacket ELSE Compare!CleanPacket
<1>1. /\ at = "loop" /\ turn <= MessageCount
      /\ UNCHANGED <<protocol, disturbance, open, replies, verifier, history>>
  BY DEF Compare!SendMessage, Compare!run
<1>2. CompareTypes /\ Numbers /\ Places /\ Books /\ Behind
  BY NumbersAre DEF CompareInv
<1>3. CASE Compare!SendFails /\ Compare!Fail
  BY <1>1, <1>3, FailKeeps DEF Compare!SendFails
<1>4. CASE /\ Compare!Send(packet)
           /\ row' = [row EXCEPT !.sent = row.sent + 1,
                                 !.attack_done = row.attack_done \/ Compare!Attacks,
                                 !.attack_injected = row.attack_injected
                                                       \/ (injects /\ ~crosses)]
           /\ at' = IF injects THEN IF crosses THEN "wait_cross" ELSE "wait_attack"
                    ELSE "wait"
           /\ UNCHANGED <<turn, client, dead>>
  <2>1. /\ open /\ requests' = Append(requests, packet)
        /\ Compare!Attacks <=>
             disturbance # "none" /\ turn = Compare!AttackSeq /\ ~row.attack_done
    BY <1>4 DEF Compare!Send, Compare!Attacks
  <2>2. packet \in DataPacket
    BY <1>2, <2>1, CleanIsData, DisturbedIsData
  <2>3. /\ at' \in Waits /\ at' \notin {"hello", "hello_ack", "loop", "wait_retry", "done"}
        /\ at' \in AttackWaits <=> injects
        /\ at' = "wait_attack" <=> injects /\ ~crosses
        /\ at' = "wait_cross" <=> injects /\ crosses
    BY <1>4 DEF Waits, AttackWaits
  <2>4. /\ row' \in RowType /\ row'.sent = row.sent + 1 /\ row'.accepted = row.accepted
        /\ row'.rejected = row.rejected /\ row'.timeout = row.timeout
        /\ row'.error = row.error /\ row'.run_valid = row.run_valid
        /\ row'.attack_done <=> row.attack_done \/ Compare!Attacks
        /\ row'.attack_injected <=> row.attack_injected \/ (injects /\ ~crosses)
        /\ row'.attack_detected = row.attack_detected
        /\ row'.attack_accepted = row.attack_accepted
        /\ row'.resynchronized = row.resynchronized
    <3> DEFINE done == row.attack_done \/ Compare!Attacks
               injected == row.attack_injected \/ (injects /\ ~crosses)
    <3>1. row \in RowType /\ row.sent + 1 \in Nat
      BY <1>2 DEF CompareTypes, Numbers
    <3>2. done \in BOOLEAN /\ injected \in BOOLEAN
      BY Zenon
    <3>3. row' = [row EXCEPT !.sent = row.sent + 1, !.attack_done = done,
                             !.attack_injected = injected]
      BY <1>4
    <3> HIDE DEF done, injected
    <3>4. /\ row' \in RowType /\ row'.sent = row.sent + 1 /\ row'.accepted = row.accepted
          /\ row'.rejected = row.rejected /\ row'.timeout = row.timeout
          /\ row'.error = row.error /\ row'.run_valid = row.run_valid
          /\ row'.attack_done = done /\ row'.attack_injected = injected
          /\ row'.attack_detected = row.attack_detected
          /\ row'.attack_accepted = row.attack_accepted
          /\ row'.resynchronized = row.resynchronized
      BY <3>1, <3>2, <3>3 DEF RowType
    <3>5. QED
      BY <3>4 DEF done, injected
  <2> HIDE DEF packet, injects, crosses
  <2>5. /\ requests' \in Seq(DataPacket \union {Compare!HELLO})
        /\ Len(requests') = Len(requests) + 1
    BY <1>2, <2>1, <2>2 DEF CompareTypes
  <2>6. CompareTypes'
    <3>1. at' \in {"hello", "hello_ack", "loop", "wait", "wait_attack", "wait_cross",
                   "wait_retry", "done"}
      BY <2>3 DEF Waits
    <3>2. QED
      BY <1>1, <1>2, <1>4, <2>4, <2>5, <3>1 DEF CompareTypes
  <2>7. Places'
    <3>1. Compare!AttackSeq' = Compare!AttackSeq
      BY DEF Compare!AttackSeq
    <3>2. Compare!Applicable' <=> Compare!Applicable
      BY <1>1 DEF Compare!Applicable
    <3>3. injects => turn = Compare!AttackSeq /\ disturbance # "none" /\ Compare!Applicable
      BY <2>1 DEF injects
    <3>4. QED
      BY <1>1, <1>4, <2>3, <3>1, <3>2, <3>3 DEF Places, crosses
  <2>8. Books'
    <3>1. injects => ~row.attack_detected
      BY <1>2, <2>1 DEF Books, injects
    <3>2. row.sent <= turn - 1 + (IF row.attack_detected THEN 1 ELSE 0)
      BY <1>1, <1>2 DEF Books
    <3>3. /\ row'.sent <= turn + (IF row.attack_detected THEN 1 ELSE 0)
          /\ row'.sent <= MessageCount + 1
      BY <1>1, <1>2, <2>4, <3>2 DEF Numbers
    <3>4. row'.run_valid =>
            row'.sent = row'.accepted + row'.rejected + row'.timeout + row'.error + 1
      BY <1>1, <1>2, <2>4 DEF Books, Waits, Numbers
    <3>5. row'.timeout = IF dead' THEN 1 ELSE 0
      BY <1>2, <1>4, <2>4 DEF Books
    <3>6. ~Clean' => dead' \/ ~open' \/ at' = "done"
      BY <1>1, <1>2, <1>4, <2>4 DEF Books, Clean
    <3>7. row'.attack_detected => row'.attack_done
      BY <1>2, <2>4 DEF Books
    <3>8. QED
      BY <1>4, <2>3, <2>4, <3>1, <3>3, <3>4, <3>5, <3>6, <3>7 DEF Books
  <2>9. Behind'
    <3>1. verifier.last_seq + Len(requests) <= turn - 1
      BY <1>1, <1>2 DEF Behind
    <3>2. /\ verifier.last_seq + Len(requests') <= turn
          /\ verifier.last_seq + Len(requests') <= MessageCount
      BY <1>1, <1>2, <2>5, <3>1 DEF Numbers
    <3>3. QED
      BY <1>1, <1>2, <1>4, <2>3, <2>4, <3>2 DEF Behind
  <2>10. ASSUME Clean' PROVE InStep'
    <3>1. InStep
      BY <1>2, <2>4, <2>10 DEF CompareInv, Clean
    <3>2. requests = <<>> /\ replies = <<>> /\ Synced(turn - 1)
      BY <1>1, <3>1 DEF InStep, UnderWay
    <3>3. Pending'
      <4>1. requests' = <<packet>>
        BY <2>1, <3>2
      <4>2. Expected' = packet
        BY <1>1, <1>4, <2>3, SamePackets DEF Expected, packet
      <4>3. QED
        BY <1>1, <1>4, <3>2, <4>1, <4>2 DEF Pending, Synced
    <3>4. UnderWay'
      BY <2>3, <3>3 DEF UnderWay
    <3>5. RowSoFar'
      BY <1>4, <2>4, <3>1 DEF InStep, RowSoFar
    <3>6. HistorySoFar'
      <4>1. Compare!AttackSeq' = Compare!AttackSeq
        BY DEF Compare!AttackSeq
      <4>2. \A n \in 1..turn - 1 :
              history[n] = Compare!Payload(n) \/ (row.attack_accepted /\ n = Compare!AttackSeq)
        BY <1>1, <3>1 DEF InStep, HistorySoFar
      <4>3. QED
        BY <1>1, <1>4, <2>4, <4>1, <4>2 DEF HistorySoFar
    <3>7. Flags'
      <4>1. /\ Compare!AttackSeq' = Compare!AttackSeq
            /\ Compare!Applicable' <=> Compare!Applicable
            /\ Weak' <=> Weak
        BY <1>1 DEF Compare!AttackSeq, Compare!Applicable, Weak
      <4>2. /\ row.attack_done <=> disturbance # "none" /\ turn > Compare!AttackSeq
            /\ row.attack_injected <=> row.attack_done /\ Compare!Applicable
            /\ row.attack_detected <=> row.attack_injected /\ ~Weak
            /\ row.attack_accepted <=> row.attack_injected /\ Weak
            /\ row.resynchronized <=> row.attack_detected
        BY <1>1, <3>1 DEF InStep, Flags, Waits, AttackWaits
      <4>3. row'.attack_done <=>
              disturbance # "none" /\ (turn > Compare!AttackSeq \/ turn = Compare!AttackSeq)
        BY <2>1, <2>4, <4>2
      <4>4. injects => ~row.attack_done
        BY <2>1 DEF injects
      <4>5. CASE injects
        BY <1>1, <1>4, <2>3, <2>4, <4>1, <4>2, <4>3, <4>4, <4>5 DEF Flags
      <4>6. CASE ~injects
        <5>1. at' = "wait" /\ at' \notin AttackWaits \union {"wait_retry"}
          BY <1>4, <4>6 DEF AttackWaits, injects
        <5>2. Compare!Attacks => ~Compare!Applicable /\ ~row.attack_done
          BY <2>1, <4>6 DEF injects
        <5>3. QED
          BY <1>1, <1>4, <2>3, <2>4, <4>1, <4>2, <4>3, <4>6, <5>1, <5>2 DEF Flags
      <4>7. QED
        BY <4>5, <4>6
    <3>8. QED
      BY <3>4, <3>5, <3>6, <3>7 DEF InStep
  <2>11. QED
    BY <2>6, <2>7, <2>8, <2>9, <2>10 DEF CompareInv
<1>5. QED
  BY <1>3, <1>4 DEF Compare!SendMessage

\* An answer that is read is the one to the packet under way.
LEMMA ReceivedInStep ==
  ASSUME ComparisonAssumptions, CompareInv, at \in Waits, Compare!Received
  PROVE  /\ Clean /\ InStep /\ Answered /\ open /\ ~dead
         /\ replies' = <<>> /\ Head(replies) = replies[1] /\ replies[1] \in AnswerType
<1>1. CompareTypes /\ Books /\ Behind
  BY DEF CompareInv
<1>2. ~dead /\ replies # <<>> /\ replies' = Tail(replies) /\ Head(replies) = replies[1]
  BY DEF Compare!Received
<1>3. open
  BY <1>1, <1>2 DEF Behind
<1>4. Clean
  BY <1>1, <1>2, <1>3 DEF Books, Waits
<1>5. InStep
  BY <1>4 DEF CompareInv
<1>6. Answered
  BY <1>2, <1>3, <1>5 DEF InStep, UnderWay, Pending
<1>7. Len(replies) = 1 /\ replies \in Seq(AnswerType)
  BY <1>1, <1>6 DEF Answered, CompareTypes
<1>8. replies' = <<>> /\ replies[1] \in AnswerType
  BY <1>2, <1>7
<1>9. QED
  BY <1>2, <1>3, <1>4, <1>5, <1>6, <1>8

\* What the client's state becomes is what the server's state is.
LEMMA AcceptedSyncs ==
  ASSUME ComparisonAssumptions, CompareTypes, Answered, replies[1] \in AnswerType,
         replies[1].ok, NEW k,
         protocol \in Chained => k.prev = client.last /\ k.payload = Compare!Payload(turn)
  PROVE  LET s == Compare!Accepted(k, replies[1]) IN
         s \in VerifierState /\ s.last_seq = turn /\ s.last = verifier.last
<1> DEFINE a == replies[1]
           s == Compare!Accepted(k, a)
<1>1. /\ a.last_seq = turn /\ a.last = verifier.last
      /\ verifier.last = IF protocol \in Linked
                         THEN Append(client.last, Compare!Payload(turn)) ELSE client.last
  BY DEF Answered, Told
<1>2. Numbers /\ client \in VerifierState /\ verifier.last \in Links /\ turn \in Nat
  BY NumbersAre DEF CompareTypes, Numbers
<1>3. ASSUME NEW n \in Nat, NEW last \in Links
      PROVE  /\ [client EXCEPT !.last_seq = n, !.last = last] \in VerifierState
             /\ [client EXCEPT !.last_seq = n, !.last = last].last_seq = n
             /\ [client EXCEPT !.last_seq = n, !.last = last].last = last
             /\ [client EXCEPT !.last_seq = n] \in VerifierState
             /\ [client EXCEPT !.last_seq = n].last_seq = n
             /\ [client EXCEPT !.last_seq = n].last = client.last
  BY <1>2, <1>3 DEF VerifierState
<1>4. ASSUME protocol = "gmcp"
      PROVE  s \in VerifierState /\ s.last_seq = turn /\ s.last = verifier.last
  <2>1. s = [client EXCEPT !.last_seq = a.last_seq, !.last = a.last]
    BY <1>4, SameSets DEF Compare!Accepted, Chained
  <2>2. s = [client EXCEPT !.last_seq = turn, !.last = verifier.last]
    BY <1>1, <2>1
  <2> HIDE DEF s, a
  <2>3. QED
    BY <1>2, <1>3, <2>2
<1>5. ASSUME protocol \in Chained
      PROVE  s \in VerifierState /\ s.last_seq = turn /\ s.last = verifier.last
  <2>1. s = [client EXCEPT !.last_seq = turn, !.last = Append(k.prev, k.payload)]
    BY <1>5, SameSets DEF Compare!Accepted, Chained, Compare!Link
  <2>2. protocol \in Linked /\ k.prev = client.last /\ k.payload = Compare!Payload(turn)
    BY <1>5 DEF Chained, Linked
  <2>3. s = [client EXCEPT !.last_seq = turn, !.last = verifier.last]
    BY <1>1, <2>1, <2>2
  <2> HIDE DEF s, a
  <2>4. QED
    BY <1>2, <1>3, <2>3
<1>6. ASSUME protocol \in {"seq_mac", "ticket_only"}
      PROVE  s \in VerifierState /\ s.last_seq = turn /\ s.last = verifier.last
  <2>1. s = [client EXCEPT !.last_seq = turn]
    BY <1>6, SameSets DEF Compare!Accepted, Chained
  <2>2. verifier.last = client.last
    BY <1>1, <1>6 DEF Linked
  <2> HIDE DEF s, a
  <2>3. QED
    BY <1>2, <1>3, <2>1, <2>2
<1>7. s \in VerifierState /\ s.last_seq = turn /\ s.last = verifier.last
  BY <1>2, <1>4, <1>5, <1>6 DEF Numbers, Protocols, Chained
<1>8. QED
  BY <1>7

\* An answer that accepts moves client and run on by one message.
LEMMA AcceptKeeps ==
  ASSUME ComparisonAssumptions, CompareInv, at \in Waits, Compare!Received, replies[1].ok,
         NEW k,
         protocol \in Chained => k.prev = client.last /\ k.payload = Compare!Payload(turn),
         client' = Compare!Accepted(k, replies[1]), at' = "loop", turn' = turn + 1,
         UNCHANGED <<protocol, disturbance, dead, open, requests, verifier, history>>,
         row' \in RowType, row'.sent = row.sent, row'.accepted = row.accepted + 1,
         row'.rejected = row.rejected, row'.timeout = row.timeout, row'.error = row.error,
         row'.attack_done = row.attack_done, row'.attack_detected = row.attack_detected,
         row'.run_valid = row.run_valid,
         row'.attack_injected <=> row.attack_injected \/ at \in AttackWaits,
         row'.attack_accepted <=> row.attack_accepted \/ at \in AttackWaits,
         row'.resynchronized <=> row.resynchronized \/ at = "wait_retry"
  PROVE  CompareInv'
<1>1. /\ Clean /\ InStep /\ Answered /\ open /\ ~dead /\ replies' = <<>>
      /\ replies[1] \in AnswerType
  BY ReceivedInStep
<1>2. CompareTypes /\ Numbers /\ Places /\ Books /\ Behind
  BY NumbersAre DEF CompareInv
<1>3. client' \in VerifierState /\ client'.last_seq = turn /\ client'.last = verifier.last
  BY <1>1, <1>2, AcceptedSyncs
<1>4. /\ requests = <<>> /\ verifier.last_seq = turn /\ turn <= MessageCount
      /\ (at \in AttackWaits => Weak)
      /\ at \notin AttackWaits => history[turn] = Compare!Payload(turn)
  BY <1>1, <1>2 DEF Answered, Told, Places
<1>5. row.accepted = turn - 1 /\ row.rejected = IF row.attack_detected THEN 1 ELSE 0
  BY <1>1 DEF InStep, RowSoFar
<1>6. Clean'
  BY <1>1 DEF Clean
<1>7. CompareTypes'
  <2>1. turn' \in 1..MessageCount + 1
    BY <1>2, <1>4 DEF Numbers
  <2>2. replies' \in Seq(AnswerType)
    BY <1>1
  <2>3. QED
    BY <1>2, <1>3, <2>1, <2>2 DEF CompareTypes
<1>8. Places'
  BY DEF Places, Waits, AttackWaits
<1>9. Books'
  <2>1. row.sent = row.accepted + row.rejected + row.timeout + row.error + 1
    BY <1>1, <1>2 DEF Books, Clean
  <2>2. row'.sent = row'.accepted + row'.rejected + row'.timeout + row'.error + 0
    BY <1>2, <2>1 DEF Numbers
  <2>3. row.sent <= turn + (IF row.attack_detected THEN 1 ELSE 0)
    BY <1>2 DEF Books
  <2>4. row'.sent <= turn' - 1 + (IF row'.attack_detected THEN 1 ELSE 0)
    BY <1>2, <2>3 DEF Numbers
  <2>5. /\ row'.timeout = IF dead' THEN 1 ELSE 0
        /\ row'.sent <= MessageCount + 1
        /\ row'.attack_detected => row'.attack_done
    BY <1>2 DEF Books
  <2>6. QED
    BY <1>6, <2>2, <2>4, <2>5 DEF Books, Waits, AttackWaits
<1>10. Behind'
  <2>1. verifier'.last_seq + Len(requests') = turn /\ row'.accepted = turn
    BY <1>2, <1>4, <1>5 DEF Numbers
  <2>2. turn <= turn' - 1 /\ turn \in Nat
    BY <1>2 DEF Numbers
  <2>3. QED
    BY <1>1, <1>2, <1>3, <1>4, <2>1, <2>2 DEF Behind
<1>11. InStep'
  <2>1. UnderWay'
    <3>1. turn' - 1 = turn
      BY <1>2 DEF Numbers
    <3>2. QED
      BY <1>1, <1>3, <1>4, <3>1 DEF UnderWay, Synced, Waits
  <2>2. RowSoFar'
    BY <1>2, <1>5 DEF RowSoFar, Numbers
  <2>3. Compare!AttackSeq' = Compare!AttackSeq
    BY DEF Compare!AttackSeq
  <2>4. HistorySoFar'
    <3>1. \A n \in 1..turn - 1 :
            history[n] = Compare!Payload(n) \/ (row.attack_accepted /\ n = Compare!AttackSeq)
      BY <1>1 DEF InStep, HistorySoFar
    <3>2. \/ history[turn] = Compare!Payload(turn)
          \/ row'.attack_accepted /\ turn = Compare!AttackSeq
      BY <1>2, <1>4 DEF Places
    <3>3. 1..turn' - 1 = (1..turn - 1) \union {turn}
      BY <1>2 DEF Numbers
    <3> HIDE DEF Compare!Payload
    <3>4. \A n \in 1..turn' - 1 :
            history[n] = Compare!Payload(n) \/ (row'.attack_accepted /\ n = Compare!AttackSeq)
      BY <3>1, <3>2, <3>3
    <3>5. QED
      BY <2>3, <3>4 DEF HistorySoFar
  <2>5. Flags'
    <3>1. (Compare!Applicable' <=> Compare!Applicable) /\ (Weak' <=> Weak)
      BY DEF Compare!Applicable, Weak
    <3>2. row'.attack_done <=> disturbance # "none" /\ turn' > Compare!AttackSeq
      <4>1. row.attack_done <=>
              disturbance # "none" /\ (turn > Compare!AttackSeq \/ turn = Compare!AttackSeq)
        BY <1>1 DEF InStep, Flags
      <4>2. QED
        BY <1>2, <4>1 DEF Numbers
    <3>3. /\ row'.attack_injected <=> row'.attack_done /\ Compare!Applicable
          /\ row'.attack_detected <=> row'.attack_injected /\ ~Weak
          /\ row'.attack_accepted <=> row'.attack_injected /\ Weak
          /\ row'.resynchronized <=> row'.attack_detected
      <4>1. CASE at = "wait"
        BY <1>1, <4>1 DEF InStep, Flags, AttackWaits
      <4>2. CASE at \in AttackWaits
        <5>1. /\ turn = Compare!AttackSeq /\ disturbance # "none" /\ Compare!Applicable
              /\ ~row.attack_detected /\ ~row.attack_accepted /\ ~row.resynchronized
              /\ at # "wait_retry"
          BY <1>1, <1>2, <4>2 DEF InStep, Places, Books, Flags, AttackWaits
        <5>2. turn' > Compare!AttackSeq
          BY <1>2, <5>1 DEF Numbers
        <5>3. QED
          BY <1>4, <3>2, <4>2, <5>1, <5>2
      <4>3. CASE at = "wait_retry"
        BY <1>1, <1>2, <4>3 DEF InStep, Places, Books, Flags, AttackWaits
      <4>4. QED
        BY <4>1, <4>2, <4>3 DEF Waits, AttackWaits
    <3>4. QED
      BY <2>3, <3>1, <3>2, <3>3 DEF Flags, Waits, AttackWaits
  <2>6. QED
    BY <2>1, <2>2, <2>4, <2>5 DEF InStep
<1>12. QED
  BY <1>7, <1>8, <1>9, <1>10, <1>11 DEF CompareInv

LEMMA ReceiveAnswerKeeps ==
  ASSUME ComparisonAssumptions, CompareInv, Compare!ReceiveAnswer
  PROVE  CompareInv'
<1>1. /\ at = "wait" /\ at \in Waits /\ at \notin AttackWaits
      /\ UNCHANGED <<protocol, disturbance, open, requests, verifier, history>>
  BY DEF Compare!ReceiveAnswer, Compare!run, Waits, AttackWaits
<1>2. CASE Compare!ReadFails(FALSE)
  BY <1>1, <1>2, ReadFailsKeeps
<1>3. CASE /\ Compare!Received
           /\ IF Head(replies).ok
              THEN /\ row' = [row EXCEPT !.accepted = row.accepted + 1]
                   /\ client' = Compare!Accepted(Compare!CleanPacket, Head(replies))
              ELSE /\ row' = [row EXCEPT !.rejected = row.rejected + 1]
                   /\ UNCHANGED client
           /\ Compare!NextMessage /\ UNCHANGED dead
  <2>1. Head(replies) = replies[1] /\ replies[1].ok
    BY <1>1, <1>3, ReceivedInStep DEF Answered
  <2>2. /\ Compare!CleanPacket.prev = client.last
        /\ Compare!CleanPacket.payload = Compare!Payload(turn)
    BY CleanIsData DEF CompareInv
  <2>3. row \in RowType /\ row.accepted + 1 \in Nat
    BY NumbersAre DEF CompareInv, CompareTypes, Numbers
  <2>4. row' = [row EXCEPT !.accepted = row.accepted + 1]
    BY <1>3, <2>1
  <2>5. /\ row' \in RowType /\ row'.accepted = row.accepted + 1
        /\ row'.sent = row.sent /\ row'.rejected = row.rejected
        /\ row'.timeout = row.timeout /\ row'.error = row.error
        /\ row'.attack_done = row.attack_done
        /\ row'.attack_detected = row.attack_detected /\ row'.run_valid = row.run_valid
        /\ row'.attack_injected = row.attack_injected
        /\ row'.attack_accepted = row.attack_accepted
        /\ row'.resynchronized = row.resynchronized
    BY <2>3, <2>4 DEF RowType
  <2>6. /\ client' = Compare!Accepted(Compare!CleanPacket, replies[1])
        /\ at' = "loop" /\ turn' = turn + 1 /\ UNCHANGED dead
    BY <1>3, <2>1 DEF Compare!NextMessage
  <2>7. QED
    BY <1>1, <1>3, <2>1, <2>2, <2>5, <2>6, AcceptKeeps
<1>4. QED
  BY <1>2, <1>3 DEF Compare!ReceiveAnswer

\* After the refusal the message itself is sent.
LEMMA RefusedKeeps ==
  ASSUME ComparisonAssumptions, CompareInv, at \in AttackWaits, Compare!Received,
         ~replies[1].ok, requests' = Append(requests, Compare!CleanPacket),
         row' \in RowType, row'.sent = row.sent + 1, row'.rejected = row.rejected + 1,
         row'.accepted = row.accepted, row'.timeout = row.timeout, row'.error = row.error,
         row'.attack_done = row.attack_done, row'.attack_injected, row'.attack_detected,
         row'.attack_accepted = row.attack_accepted,
         row'.resynchronized = row.resynchronized, row'.run_valid = row.run_valid,
         at' = "wait_retry",
         UNCHANGED <<protocol, disturbance, turn, client, dead, open, verifier, history>>
  PROVE  CompareInv'
<1>1. at \in Waits /\ at' \in Waits
  BY DEF Waits, AttackWaits
<1>2. /\ Clean /\ InStep /\ Answered /\ open /\ ~dead /\ replies' = <<>>
      /\ replies[1] \in AnswerType
  BY <1>1, ReceivedInStep
<1>3. CompareTypes /\ Numbers /\ Places /\ Books /\ Behind
  BY NumbersAre DEF CompareInv
<1>4. requests = <<>> /\ Synced(turn - 1) /\ ~Weak
  BY <1>2 DEF Answered
<1>5. /\ turn = Compare!AttackSeq /\ disturbance # "none" /\ Compare!Applicable
      /\ turn <= MessageCount /\ ~row.attack_detected
      /\ ~row.attack_accepted /\ ~row.resynchronized
  BY <1>1, <1>2, <1>3 DEF Places, Books, InStep, Flags
<1>6. row.accepted = turn - 1 /\ row.rejected = 0
  BY <1>2, <1>5 DEF InStep, RowSoFar
<1>7. Clean'
  BY <1>2 DEF Clean
<1>8. /\ Compare!AttackSeq' = Compare!AttackSeq /\ (Compare!Applicable' <=> Compare!Applicable)
      /\ (Weak' <=> Weak)
  BY DEF Compare!AttackSeq, Compare!Applicable, Weak
<1>9. requests' = <<Compare!CleanPacket>> /\ Compare!CleanPacket \in DataPacket
  BY <1>3, <1>4, CleanIsData
<1>10. CompareTypes'
  <2>1. requests' \in Seq(DataPacket \union {Compare!HELLO})
    BY <1>9
  <2>2. replies' \in Seq(AnswerType)
    BY <1>2
  <2>3. QED
    BY <1>3, <2>1, <2>2 DEF CompareTypes
<1>11. Places'
  BY <1>5, <1>8 DEF Places, AttackWaits
<1>12. Books'
  <2>1. row.sent = row.accepted + row.rejected + row.timeout + row.error + 1
    BY <1>1, <1>2, <1>3 DEF Books, Clean
  <2>2. row'.sent = row'.accepted + row'.rejected + row'.timeout + row'.error + 1
    <3>1. /\ row.sent \in Nat /\ row.accepted \in Nat /\ row.rejected \in Nat
          /\ row.timeout \in Nat /\ row.error \in Nat
      BY <1>3 DEF Numbers
    <3>2. row.sent = (row.accepted + row.rejected + row.timeout + row.error) + 1
      BY <2>1
    <3> DEFINE s == row.sent  a == row.accepted  r == row.rejected  t == row.timeout
               e == row.error
    <3>3. s \in Nat /\ a \in Nat /\ r \in Nat /\ t \in Nat /\ e \in Nat
      BY <3>1
    <3>4. s = a + r + t + e + 1
      BY <3>2
    <3>5. /\ row'.sent = s + 1 /\ row'.accepted = a /\ row'.rejected = r + 1
          /\ row'.timeout = t /\ row'.error = e
      OBVIOUS
    <3> HIDE DEF s, a, r, t, e
    <3>6. s + 1 = a + (r + 1) + t + e + 1
      BY <3>3, <3>4
    <3>7. QED
      BY <3>5, <3>6
  <2>3. row.sent <= turn + 0
    BY <1>1, <1>3, <1>5 DEF Books
  <2>4. row'.sent <= turn' + 1 /\ row'.sent <= MessageCount + 1
    BY <1>3, <1>5, <2>3 DEF Numbers
  <2>5. row'.timeout = (IF dead' THEN 1 ELSE 0) /\ row'.attack_done
    <3>1. row.attack_done
      BY <1>1, <1>2, <1>5 DEF InStep, Flags
    <3>2. QED
      BY <1>3, <3>1 DEF Books
  <2>6. QED
    BY <1>1, <1>7, <2>2, <2>4, <2>5 DEF Books, AttackWaits
<1>13. Behind'
  <2>1. Len(requests') = 1
    BY <1>9
  <2>2. verifier.last_seq = turn - 1
    BY <1>4 DEF Synced
  <2>3. verifier'.last_seq + Len(requests') = turn
    BY <1>3, <2>1, <2>2 DEF Numbers
  <2>4. QED
    BY <1>2, <1>3, <1>5, <2>3 DEF Behind
<1>14. InStep'
  <2>1. Pending'
    <3>1. Expected' = Compare!CleanPacket
      BY SamePackets DEF Expected, AttackWaits
    <3>2. Synced(turn - 1)'
      BY <1>4 DEF Synced
    <3>3. QED
      BY <1>2, <1>9, <3>1, <3>2 DEF Pending
  <2>2. UnderWay'
    BY <1>1, <2>1 DEF UnderWay
  <2>3. RowSoFar'
    BY <1>6 DEF RowSoFar
  <2>4. HistorySoFar'
    BY <1>2, <1>8 DEF InStep, HistorySoFar
  <2>5. Flags'
    <3>1. row.attack_done
      BY <1>1, <1>2, <1>5 DEF InStep, Flags
    <3>2. QED
      BY <1>1, <1>4, <1>5, <1>8, <3>1 DEF Flags, AttackWaits
  <2>6. QED
    BY <2>2, <2>3, <2>4, <2>5 DEF InStep
<1>15. QED
  BY <1>10, <1>11, <1>12, <1>13, <1>14 DEF CompareInv

LEMMA ReceiveAttackAnswerKeeps ==
  ASSUME ComparisonAssumptions, CompareInv, Compare!ReceiveAttackAnswer
  PROVE  CompareInv'
<1>1. /\ at \in Waits /\ at \in AttackWaits /\ at # "wait_retry" /\ at # "done"
      /\ UNCHANGED <<protocol, disturbance, open, verifier, history>>
  BY DEF Compare!ReceiveAttackAnswer, Compare!run, Waits, AttackWaits
<1>2. CASE Compare!Fail /\ UNCHANGED <<requests, replies>>
  BY <1>1, <1>2, FailKeeps
<1>3. CASE Compare!ReadFails(TRUE) /\ UNCHANGED requests
  BY <1>1, <1>3, ReadFailsKeeps
<1>4. CASE Compare!AttackAnswered
  <2>1. Compare!Received /\ UNCHANGED dead
    BY <1>4 DEF Compare!AttackAnswered
  <2>2. /\ Clean /\ InStep /\ Answered /\ open /\ Head(replies) = replies[1]
        /\ replies[1] \in AnswerType
    BY <1>1, <2>1, ReceivedInStep
  <2>3. /\ row \in RowType /\ row.sent + 1 \in Nat /\ row.accepted + 1 \in Nat
        /\ row.rejected + 1 \in Nat /\ replies[1].reason \in Reasons
    <3>1. CompareTypes /\ Numbers
      BY NumbersAre DEF CompareInv
    <3>2. replies[1].reason \in Reasons
      BY <2>2 DEF AnswerType
    <3>3. QED
      BY <3>1, <3>2 DEF CompareTypes, Numbers
  <2>4. CASE replies[1].ok
    <3>1. /\ row' = [row EXCEPT !.accepted = row.accepted + 1, !.attack_injected = TRUE,
                                !.attack_accepted = TRUE]
          /\ client' = Compare!Accepted(Compare!DisturbedPacket, replies[1])
          /\ at' = "loop" /\ turn' = turn + 1 /\ UNCHANGED requests
      BY <1>4, <2>2, <2>4 DEF Compare!AttackAnswered, Compare!NextMessage
    <3>2. /\ row' \in RowType /\ row'.accepted = row.accepted + 1
          /\ row'.sent = row.sent /\ row'.rejected = row.rejected
          /\ row'.timeout = row.timeout /\ row'.error = row.error
          /\ row'.attack_done = row.attack_done
          /\ row'.attack_detected = row.attack_detected /\ row'.run_valid = row.run_valid
          /\ row'.attack_injected /\ row'.attack_accepted
          /\ row'.resynchronized = row.resynchronized
      BY <2>3, <3>1 DEF RowType
    <3>3. protocol \notin Chained
      BY <1>1, <2>2, <2>4 DEF Answered, Weak, Chained
    <3>4. QED
      BY <1>1, <2>1, <2>4, <3>1, <3>2, <3>3, AcceptKeeps
  <2>5. CASE ~replies[1].ok
    <3> DEFINE refused == [row EXCEPT !.rejected = row.rejected + 1,
                                      !.reason = replies[1].reason,
                                      !.attack_injected = TRUE, !.attack_detected = TRUE]
    <3>1. /\ requests' = Append(requests, Compare!CleanPacket)
          /\ row' = [refused EXCEPT !.sent = refused.sent + 1]
          /\ at' = "wait_retry" /\ UNCHANGED <<turn, client>>
      BY <1>4, <2>2, <2>5 DEF Compare!AttackAnswered, Compare!Send, Compare!SendFails
    <3>2. /\ refused \in RowType /\ refused.rejected = row.rejected + 1
          /\ refused.sent = row.sent /\ refused.accepted = row.accepted
          /\ refused.timeout = row.timeout /\ refused.error = row.error
          /\ refused.attack_done = row.attack_done
          /\ refused.attack_injected /\ refused.attack_detected
          /\ refused.attack_accepted = row.attack_accepted
          /\ refused.resynchronized = row.resynchronized
          /\ refused.run_valid = row.run_valid
      BY <2>3 DEF RowType
    <3> HIDE DEF refused
    <3>3. /\ row' \in RowType /\ row'.sent = row.sent + 1
          /\ row'.rejected = row.rejected + 1
          /\ row'.accepted = row.accepted /\ row'.timeout = row.timeout
          /\ row'.error = row.error /\ row'.attack_done = row.attack_done
          /\ row'.attack_injected /\ row'.attack_detected
          /\ row'.attack_accepted = row.attack_accepted
          /\ row'.resynchronized = row.resynchronized /\ row'.run_valid = row.run_valid
      BY <2>3, <3>1, <3>2 DEF RowType
    <3>4. QED
      BY <1>1, <2>1, <2>5, <3>1, <3>3, RefusedKeeps
  <2>6. QED
    BY <2>4, <2>5
<1>5. QED
  BY <1>2, <1>3, <1>4 DEF Compare!ReceiveAttackAnswer

LEMMA ReceiveRetryAnswerKeeps ==
  ASSUME ComparisonAssumptions, CompareInv, Compare!ReceiveRetryAnswer
  PROVE  CompareInv'
<1>1. /\ at = "wait_retry" /\ at \in Waits /\ at \notin AttackWaits
      /\ UNCHANGED <<protocol, disturbance, open, requests, verifier, history>>
  BY DEF Compare!ReceiveRetryAnswer, Compare!run, Waits, AttackWaits
<1>2. CASE Compare!Fail /\ UNCHANGED replies
  BY <1>1, <1>2, FailKeeps
<1>3. CASE Compare!ReadFails(TRUE)
  BY <1>1, <1>3, ReadFailsKeeps
<1>4. CASE /\ Compare!Received
           /\ IF Head(replies).ok
              THEN /\ row' = [row EXCEPT !.accepted = row.accepted + 1,
                                         !.resynchronized = TRUE]
                   /\ client' = Compare!Accepted(Compare!CleanPacket, Head(replies))
                   /\ Compare!NextMessage
              ELSE /\ row' = [row EXCEPT !.rejected = row.rejected + 1, !.run_valid = FALSE]
                   /\ at' = "done"
                   /\ UNCHANGED <<turn, client>>
           /\ UNCHANGED dead
  <2>1. Head(replies) = replies[1] /\ replies[1].ok
    BY <1>1, <1>4, ReceivedInStep DEF Answered
  <2>2. /\ Compare!CleanPacket.prev = client.last
        /\ Compare!CleanPacket.payload = Compare!Payload(turn)
    BY CleanIsData DEF CompareInv
  <2>3. row \in RowType /\ row.accepted + 1 \in Nat
    BY NumbersAre DEF CompareInv, CompareTypes, Numbers
  <2>4. row' = [row EXCEPT !.accepted = row.accepted + 1, !.resynchronized = TRUE]
    BY <1>4, <2>1
  <2>5. /\ row' \in RowType /\ row'.accepted = row.accepted + 1
        /\ row'.sent = row.sent /\ row'.rejected = row.rejected
        /\ row'.timeout = row.timeout /\ row'.error = row.error
        /\ row'.attack_done = row.attack_done
        /\ row'.attack_detected = row.attack_detected /\ row'.run_valid = row.run_valid
        /\ row'.attack_injected = row.attack_injected
        /\ row'.attack_accepted = row.attack_accepted /\ row'.resynchronized
    BY <2>3, <2>4 DEF RowType
  <2>6. /\ client' = Compare!Accepted(Compare!CleanPacket, replies[1])
        /\ at' = "loop" /\ turn' = turn + 1 /\ UNCHANGED dead
    BY <1>4, <2>1 DEF Compare!NextMessage
  <2>7. QED
    BY <1>1, <1>4, <2>1, <2>2, <2>5, <2>6, AcceptKeeps
<1>5. QED
  BY <1>2, <1>3, <1>4 DEF Compare!ReceiveRetryAnswer

LEMMA ComparisonStep ==
  ASSUME ComparisonAssumptions, CompareInv, [Compare!Next]_Compare!vars
  PROVE  CompareInv'
<1>1. CASE Compare!Client
  BY <1>1, SendHelloKeeps, HelloAckKeeps, SendMessageKeeps, LoopEndsKeeps,
     ReceiveAnswerKeeps, ReceiveAttackAnswerKeeps, ReceiveRetryAnswerKeeps
     DEF Compare!Client
<1>2. CASE Compare!Serve
  BY <1>2, ServeKeeps
<1>3. CASE Compare!Break
  BY <1>3, BreakKeeps
<1>4. CASE UNCHANGED Compare!vars
  <2>1. UNCHANGED <<protocol, disturbance, at, turn, client, row, dead, open, requests,
                    replies, verifier, history>>
    BY <1>4 DEF Compare!vars, Compare!run, Compare!client
  <2>2. CompareTypes' /\ Places' /\ Books' /\ Behind'
    BY <2>1 DEF CompareInv, CompareTypes, Places, Books, Behind, Clean, Compare!AttackSeq,
                Compare!Applicable
  <2>3. ASSUME Clean' PROVE InStep'
    <3>1. InStep
      BY <2>1, <2>3 DEF CompareInv, Clean
    <3>2. Expected' = Expected
      BY <2>1, SamePackets DEF Expected
    <3>3. Compare!AttackSeq' = Compare!AttackSeq /\ (Compare!Applicable' <=> Compare!Applicable)
          /\ (Weak' <=> Weak)
      BY <2>1 DEF Compare!AttackSeq, Compare!Applicable, Weak
    <3>4. (Pending' <=> Pending) /\ (Answered' <=> Answered)
      BY <2>1, <3>2, <3>3 DEF Pending, Answered, Synced, Told
    <3>5. UnderWay'
      BY <2>1, <3>1, <3>4 DEF InStep, UnderWay, Synced
    <3>6. RowSoFar' /\ HistorySoFar' /\ Flags'
      BY <2>1, <3>1, <3>3 DEF InStep, RowSoFar, HistorySoFar, Flags
    <3>7. QED
      BY <3>5, <3>6 DEF InStep
  <2>4. QED
    BY <2>2, <2>3 DEF CompareInv
<1>5. QED
  BY <1>1, <1>2, <1>3, <1>4 DEF Compare!Next, Compare!Idle

\* CompareInv holds of every run of the comparison.
LEMMA ComparisonAlways ==
  ASSUME ComparisonAssumptions
  PROVE  Compare!Spec => []CompareInv
<1>1. Compare!Init => CompareInv
  BY ComparisonStarts
<1>2. CompareInv /\ [Compare!Next]_Compare!vars => CompareInv'
  BY ComparisonStep
<1>3. QED
  BY <1>1, <1>2, PTL DEF Compare!Spec

-----------------------------------------------------------------------------
(* What a comparison run shows *)

\* The counters, the places in the loop and the server's history stay in their
\* bounds.
THEOREM ComparisonTyped ==
  ASSUME ComparisonAssumptions
  PROVE  Compare!Spec => []Compare!TypeOK
<1>1. ASSUME CompareInv
      PROVE  Compare!TypeOK
  <2>1. CompareTypes /\ Numbers /\ Books /\ Behind
    BY <1>1, NumbersAre DEF CompareInv
  <2>2. row.timeout <= 1 /\ row.sent <= MessageCount + 1
    BY <2>1 DEF Books
  <2>3. verifier.last_seq = Len(history) /\ Len(history) <= MessageCount
    BY <2>1 DEF Behind, Numbers
  <2>4. QED
    BY <2>1, <2>2, <2>3 DEF Compare!TypeOK, CompareTypes
<1>2. QED
  BY <1>1, ComparisonAlways, PTL

\* A row that is judged valid was a complete experiment, whatever was lost or
\* disturbed on the way (baseline_results_valid).
THEOREM ValidRowsComplete ==
  ASSUME ComparisonAssumptions
  PROVE  Compare!Spec => []Compare!ValidRowsAreComplete
<1>1. ASSUME CompareInv, at = "done", Compare!RowValid
      PROVE  /\ row.accepted = MessageCount /\ Len(history) = MessageCount
             /\ \A n \in 1..MessageCount :
                  history[n] = Compare!Payload(n)
                    \/ (row.attack_accepted /\ n = Compare!AttackSeq)
             /\ client.last_seq = verifier.last_seq /\ client.last = verifier.last
  <2>1. Clean
    BY <1>1 DEF Clean, Compare!RowValid
  <2>2. InStep /\ turn - 1 = MessageCount
    BY <1>1, <2>1, NumbersAre DEF CompareInv, Places, Numbers
  <2>3. Synced(MessageCount) /\ row.accepted = MessageCount
    BY <1>1, <2>2 DEF InStep, UnderWay, RowSoFar
  <2>4. Len(history) = MessageCount
    BY <1>1, <2>3 DEF CompareInv, Behind, Synced
  <2>5. \A n \in 1..MessageCount :
          history[n] = Compare!Payload(n) \/ (row.attack_accepted /\ n = Compare!AttackSeq)
    BY <1>1, <2>2 DEF InStep, HistorySoFar
  <2>6. QED
    BY <2>3, <2>4, <2>5 DEF Synced
<1>2. CompareInv => Compare!ValidRowsAreComplete
  BY <1>1 DEF Compare!ValidRowsAreComplete
<1>3. QED
  BY <1>2, ComparisonAlways, PTL

\* In a valid row a detected disturbance left no trace in the server's history,
\* and the message itself was taken after it.
THEOREM DetectionLeavesNoTrace ==
  ASSUME ComparisonAssumptions
  PROVE  Compare!Spec => []Compare!DetectedLeavesNoTrace
<1>1. ASSUME CompareInv, at = "done", Compare!RowValid, row.attack_detected
      PROVE  history = Compare!Messages /\ row.resynchronized
  <2>1. Clean
    BY <1>1 DEF Clean, Compare!RowValid
  <2>2. InStep /\ turn - 1 = MessageCount /\ CompareTypes /\ MessageCount \in Nat
    BY <1>1, <2>1, NumbersAre DEF CompareInv, Places, Numbers
  <2>3. ~row.attack_accepted /\ row.resynchronized
    BY <1>1, <2>2 DEF InStep, Flags, AttackWaits
  <2>4. Len(history) = MessageCount /\ history \in Seq(Sent)
    BY <1>1, <2>2 DEF CompareInv, Behind, InStep, UnderWay, Synced, CompareTypes
  <2>5. \A n \in 1..MessageCount : history[n] = Compare!Payload(n)
    BY <1>1, <2>2, <2>3 DEF InStep, HistorySoFar
  <2> HIDE DEF Compare!Payload
  <2>6. history = Compare!Messages
    BY <2>2, <2>4, <2>5 DEF Compare!Messages
  <2>7. QED
    BY <2>3, <2>6
<1>2. CompareInv => Compare!DetectedLeavesNoTrace
  BY <1>1 DEF Compare!DetectedLeavesNoTrace
<1>3. QED
  BY <1>2, ComparisonAlways, PTL

\* The matrix of detections, for every valid row of an experiment that sends at
\* least two messages: the disturbed packet takes the place of the second one at
\* the earliest.
THEOREM MatrixHolds ==
  ASSUME ComparisonAssumptions, MessageCount > 1
  PROVE  Compare!Spec => []Compare!MatrixAsExpected
<1>1. ASSUME CompareInv, at = "done", Compare!RowValid, disturbance # "none"
      PROVE  /\ row.attack_injected <=> Compare!Applicable
             /\ row.attack_injected => (row.attack_detected <=> ~Weak)
  <2>1. Clean
    BY <1>1 DEF Clean, Compare!RowValid
  <2>2. InStep /\ turn = MessageCount + 1 /\ MessageCount \in Nat
    BY <1>1, <2>1, NumbersAre DEF CompareInv, Places, Numbers
  <2>3. turn > Compare!AttackSeq
    BY <2>2 DEF Compare!AttackSeq
  <2>4. QED
    BY <1>1, <2>2, <2>3 DEF InStep, Flags, AttackWaits
<1>2. CompareInv => Compare!MatrixAsExpected
  BY <1>1 DEF Compare!MatrixAsExpected, Weak
<1>3. QED
  BY <1>2, ComparisonAlways, PTL

\* Every packet sent ends in one counter, and no answer is counted twice.
THEOREM RowsBalance ==
  ASSUME ComparisonAssumptions
  PROVE  Compare!Spec => []Compare!CountersBalance
<1>1. ASSUME CompareInv, at = "done"
      PROVE  /\ row.run_valid =>
                  row.sent = row.accepted + row.rejected + row.timeout + row.error
             /\ row.accepted <= Len(history)
  <2>1. Numbers /\ Books /\ Behind
    BY <1>1, NumbersAre DEF CompareInv
  <2>2. row.run_valid =>
          row.sent = row.accepted + row.rejected + row.timeout + row.error
    BY <1>1, <2>1 DEF Books, Waits, Numbers
  <2>3. QED
    BY <2>1, <2>2 DEF Behind
<1>2. CompareInv => Compare!CountersBalance
  BY <1>1 DEF Compare!CountersBalance
<1>3. QED
  BY <1>2, ComparisonAlways, PTL

\* The client never counts a message the server has not taken, also after an
\* answer was lost.
THEOREM ClientBehindServer ==
  ASSUME ComparisonAssumptions
  PROVE  Compare!Spec => []Compare!ClientNeverAhead
<1>1. CompareInv => Compare!ClientNeverAhead
  BY DEF CompareInv, Behind, Compare!ClientNeverAhead
<1>2. QED
  BY <1>1, ComparisonAlways, PTL

=============================================================================
