---------------------------- MODULE PlainServer ----------------------------
(***************************************************************************)
(* The servers without tickets: real_tcp_server.py (one JSON line per      *)
(* packet over TCP), real_server.py and server.py (one datagram per        *)
(* packet).  All of them hand a DATA packet to the GMCPVerifier of its     *)
(* session and answer with the verdict and the state after it.  A session  *)
(* comes to life with its first packet (server.py has one from the start); *)
(* a fresh session and one that does not exist yet answer alike, so both   *)
(* are FreshSession.                                                       *)
(*                                                                         *)
(* Memory.  last_mem is a hash chain: with a collision-free hash it stands *)
(* for the packets it was built from, so a memory is modelled as the       *)
(* sequence of their sequence numbers.  The payload of a number is fixed   *)
(* by make_payload; FakeMemory is a string no chain value equals.          *)
(***************************************************************************)
EXTENDS Integers, Sequences, SequencesExt

FakeMemory == <<0>>
FreshSession == [last_seq |-> 0, last_mem |-> <<>>]

\* build_data_packet: signed with DATA_AUTH_KEY.
DataPacket(seq, prev) ==
  [seq |-> seq, prev_mem |-> prev, signed |-> TRUE, hash_fits |-> TRUE]

\* modify_payload_attack leaves the tag and the hash of the payload as they
\* were: neither fits the packet any more.
ModifyPayload(p) == [p EXCEPT !.signed = FALSE, !.hash_fits = FALSE]

\* Mutant: the tag is left as it was.
ModifyPrevMemOldTag(p, rightKey) ==
  [p EXCEPT !.prev_mem = FakeMemory, !.signed = FALSE]

\* modify_prev_mem_attack: the tag is computed anew, with the right key or
\* with another one.
ModifyPrevMem(p, rightKey) ==
  [p EXCEPT !.prev_mem = FakeMemory, !.signed = rightKey]

\* GMCPVerifier.verify_data_packet.  The packets of these clients are whole
\* and carry the session, sender and epoch the server expects.
Reason(s, p) ==
  IF ~p.signed THEN "auth_tag verification failed"
  ELSE IF p.seq <= s.last_seq THEN "replay or old packet detected"
  ELSE IF p.seq # s.last_seq + 1 THEN "seq gap detected"
  ELSE IF ~p.hash_fits THEN "payload_hash mismatch"
  ELSE IF p.prev_mem # s.last_mem THEN "prev_mem mismatch"
  ELSE "ok"

\* Mutant: last_seq is assigned before prev_mem is compared.
AfterSeqFirst(s, p) ==
  IF Reason(s, p) = "ok"
  THEN [last_seq |-> p.seq, last_mem |-> Append(s.last_mem, p.seq)]
  ELSE IF Reason(s, p) = "prev_mem mismatch"
  THEN [s EXCEPT !.last_seq = p.seq]
  ELSE s

After(s, p) ==
  IF Reason(s, p) = "ok"
  THEN [last_seq |-> p.seq, last_mem |-> Append(s.last_mem, p.seq)]
  ELSE s

\* The response to a DATA packet.
Verdict(s, p) ==
  [ok |-> Reason(s, p) = "ok", reason |-> Reason(s, p),
   last_seq |-> After(s, p).last_seq, last_mem |-> After(s, p).last_mem]

\* What an honest history of n packets looks like.
History(n) == [i \in 1..n |-> i]
=============================================================================
