-------------------------- MODULE BaselineProtocols --------------------------
(***************************************************************************)
(* The five protocols the baseline experiments compare: how each builds a  *)
(* DATA packet (gmcp/packet.py and gmcp/baselines/*.py), and what its      *)
(* verifier compares, in which order, before it updates its state.         *)
(*                                                                         *)
(* Hashes and MACs are ideal.  A memory, or the hash of a chain, is the    *)
(* sequence it was computed from: the session, then the payloads in order. *)
(* The tag of a packet is the tuple of fields it was computed over, so a   *)
(* field changed afterwards shows in the comparison when, and only when,   *)
(* the protocol's tag covers that field.                                   *)
(***************************************************************************)
EXTENDS Integers, Sequences, SequencesExt

Protocols ==
  {"gmcp", "hash_chain", "authenticated_hash_chain", "seq_mac", "ticket_only"}

\* The protocols whose state has a hash of the history, and those that also
\* keep the history itself.
Linked  == {"gmcp", "hash_chain", "authenticated_hash_chain"}
Chained == {"hash_chain", "authenticated_hash_chain"}

-----------------------------------------------------------------------------
(* Packets *)

\* compute_chain_hash and update_memory.
Link(prev, payload) == Append(prev, payload)

\* What each protocol's auth_tag, chain_hash, mac or ticket is computed from.
GmcpTag(fields) ==
  <<fields.session, fields.sender, fields.epoch, fields.seq, fields.payload,
    fields.payload_hash, fields.prev>>
HashChainTag(fields) == Link(fields.prev, fields.payload)
AuthHashChainTag(fields) ==
  <<fields.session, fields.sender, fields.epoch, fields.seq, fields.payload,
    fields.payload_hash, fields.prev, HashChainTag(fields)>>
SeqMacTag(fields) == <<fields.seq, fields.payload>>
TicketOnlyTag(fields) == <<fields.session, fields.epoch>>

Covered(p, fields) ==
  CASE p = "gmcp"        -> GmcpTag(fields)
    [] p = "hash_chain"  -> HashChainTag(fields)
    [] p = "seq_mac"     -> SeqMacTag(fields)
    [] p = "ticket_only" -> TicketOnlyTag(fields)
    [] OTHER             -> AuthHashChainTag(fields)

Build(p, session, sender, epoch, seq, prev, payload) ==
  LET fields == [protocol |-> p, session |-> session, sender |-> sender,
                 epoch |-> epoch, seq |-> seq, payload |-> payload,
                 payload_hash |-> payload, prev |-> prev, tag |-> <<>>]
  IN  [fields EXCEPT !.tag = Covered(p, fields)]

-----------------------------------------------------------------------------
(* Verifiers *)

InitialState(session, sender, epoch) ==
  [session |-> session, sender |-> sender, epoch |-> epoch,
   last_seq |-> 0, last |-> <<session>>, hash_chain |-> <<>>]

\* One comparison of verify_data_packet: what must hold, and the reason given
\* when it does not.
Check(holds, reason) == [holds |-> holds, reason |-> reason]

SessionCheck(state, packet) ==
  Check(packet.session = state.session, "session_id mismatch")
SenderCheck(state, packet) ==
  Check(packet.sender = state.sender, "sender_id mismatch")
EpochCheck(state, packet) ==
  Check(packet.epoch = state.epoch, "epoch mismatch")
\* Mutant: an old packet is not told from the next one.
OldCheckMissing(state, packet) == Check(TRUE, "replay or old packet detected")
OldCheck(state, packet) ==
  Check(packet.seq > state.last_seq, "replay or old packet detected")
GapCheck(state, packet) ==
  Check(packet.seq <= state.last_seq + 1, "seq gap detected")
PayloadCheck(packet) ==
  Check(packet.payload_hash = packet.payload, "payload_hash mismatch")
PrevCheck(state, packet, reason) == Check(packet.prev = state.last, reason)
TagCheck(p, packet, reason) == Check(packet.tag = Covered(p, packet), reason)

GmcpChecks(state, packet) ==
  <<TagCheck("gmcp", packet, "auth_tag verification failed"),
    SessionCheck(state, packet), SenderCheck(state, packet),
    EpochCheck(state, packet), OldCheck(state, packet), GapCheck(state, packet),
    PayloadCheck(packet), PrevCheck(state, packet, "prev_mem mismatch")>>

HashChainChecks(state, packet) ==
  <<OldCheck(state, packet), GapCheck(state, packet),
    SessionCheck(state, packet), EpochCheck(state, packet),
    PayloadCheck(packet), TagCheck("hash_chain", packet, "chain_hash mismatch"),
    PrevCheck(state, packet, "prev_hash mismatch")>>

\* The packet's chain_hash is one of the fields its auth_tag covers, and is
\* right whenever the tag is.
AuthHashChainChecks(state, packet) ==
  <<OldCheck(state, packet), GapCheck(state, packet),
    TagCheck("authenticated_hash_chain", packet, "auth_tag mismatch"),
    SessionCheck(state, packet), SenderCheck(state, packet),
    EpochCheck(state, packet), PayloadCheck(packet),
    PrevCheck(state, packet, "prev_hash mismatch")>>

\* Mutant: the mac is not compared.
SeqMacChecksNoMac(state, packet) ==
  <<OldCheck(state, packet), GapCheck(state, packet),
    SessionCheck(state, packet), EpochCheck(state, packet)>>

SeqMacChecks(state, packet) ==
  <<OldCheck(state, packet), GapCheck(state, packet),
    SessionCheck(state, packet), EpochCheck(state, packet),
    TagCheck("seq_mac", packet, "mac mismatch")>>

\* The ticket is compared with that of the session the verifier expects.
TicketOnlyChecks(state, packet) ==
  <<OldCheck(state, packet), GapCheck(state, packet),
    SessionCheck(state, packet), EpochCheck(state, packet),
    Check(packet.tag = TicketOnlyTag(state), "invalid ticket")>>

Checks(p, state, packet) ==
  CASE p = "gmcp"        -> GmcpChecks(state, packet)
    [] p = "hash_chain"  -> HashChainChecks(state, packet)
    [] p = "seq_mac"     -> SeqMacChecks(state, packet)
    [] p = "ticket_only" -> TicketOnlyChecks(state, packet)
    [] OTHER             -> AuthHashChainChecks(state, packet)

\* The reason of the first comparison that fails, or "ok".
Verdict(p, state, packet) ==
  LET checks == Checks(p, state, packet)
      first  == SelectInSeq(checks, LAMBDA check : ~check.holds)
  IN  IF first = 0 THEN "ok" ELSE checks[first].reason

\* What an accepted packet changes first ...
Advanced(p, state, packet) ==
  [state EXCEPT
     !.last_seq = packet.seq,
     !.last = IF p \in Linked THEN Link(packet.prev, packet.payload) ELSE @]

\* ... and the entry a chain verifier then keeps: the payload is not in it.
Chain(p, state) ==
  IF p \in Chained
  THEN [state EXCEPT !.hash_chain =
          Append(@, [seq |-> state.last_seq, hash |-> state.last])]
  ELSE state

Verified(p, state, packet) == Chain(p, Advanced(p, state, packet))

-----------------------------------------------------------------------------
(* Recovery from a chain *)

\* recover_from_chain follows the entries from start to end, and expects each
\* hash to link the one before it with entry.get("payload", ""): the entries
\* have no payload.
RecoverFromChain(chain, start, end) ==
  LET at       == SelectInSeq(chain, LAMBDA entry : entry.seq = start)
      replayed == {i \in at + 1 .. Len(chain) :
                     \A j \in at + 1 .. i : chain[j].seq <= end}
  IN  CASE chain = <<>> -> "empty hash chain"
        [] chain # <<>> /\ at = 0 -> "seq not found in chain"
        [] chain # <<>> /\ at > 0 ->
             IF \A i \in replayed : chain[i].hash = Link(chain[i - 1].hash, "")
             THEN "ok" ELSE "chain broken"

=============================================================================
