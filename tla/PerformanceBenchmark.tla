----------------------- MODULE PerformanceBenchmark -----------------------
(***************************************************************************)
(* run_performance_benchmark.py: the cost of a protocol's messages,        *)
(* measured inside one process (local) or over a connection to             *)
(* real_baseline_server.py (network).  In local mode the builder of the    *)
(* packets and their verifier share one state object, and the verdicts are *)
(* not looked at by what is reported.  In network mode no HELLO is sent;   *)
(* NeedsHello says whether the server insists on one (it does).            *)
(*                                                                         *)
(* GMCP-R is "gmcp" in the packets (gmcp/packet.py's default).  Times are  *)
(* left out; what is kept of a measurement is whether the verifier         *)
(* accepted the packet it was taken from.                                  *)
(***************************************************************************)
EXTENDS BaselineProtocols, FiniteSetsExt

CONSTANTS
  Modes,             \* of "local" and "network"
  PROTOCOLS,         \* the protocols measured
  Messages,          \* msg_count
  WarmUps,           \* messages before the measurement (5)
  NeedsHello,        \* whether the server wants a HELLO first
  MaxFaults          \* bound: timeouts and a closed connection

\* Of the constants; MC modules state them (ASSUME) for their instances.
BenchmarkAssumption ==
  /\ PROTOCOLS \subseteq Protocols /\ Messages \in Nat /\ WarmUps \in Nat
  /\ NeedsHello \in BOOLEAN /\ MaxFaults \in Nat

VARIABLES
  mode, protocol,
  pc, seq,
  state,             \* of the builder
  verifier,          \* the state its verifier holds (the server's, in network mode)
  measured,          \* the verdicts of the packets that were measured
  accepted, rejected, errors, sent,
  request, response, \* on the connection
  usable, closed,    \* the file object; the server's end
  faults

counts == <<accepted, rejected, errors, sent>>
net == <<request, response, usable, closed>>
vars == <<mode, protocol, pc, seq, state, verifier, measured, counts, net, faults>>

CLIENT_ID == "client"
EPOCH == 1
Session == "bench"

make_payload(n) == <<"bench", n>>

create_state == InitialState(Session, CLIENT_ID, EPOCH)

build_packet(s, n) ==
  Build(protocol, Session, CLIENT_ID, EPOCH, n, s.last, make_payload(n))

\* The client's copy of what the server now has.
update_state_after_acceptSeq(s, packet, answer) ==  \* Mutant
  [s EXCEPT !.last_seq = packet.seq]
update_state_after_accept(s, packet, answer) ==
  CASE protocol = "gmcp" -> [s EXCEPT !.last_seq = answer.last_seq, !.last = answer.last]
    [] protocol = "hash_chain" ->
         [s EXCEPT !.last_seq = packet.seq, !.last = Link(packet.prev, packet.payload)]
    [] OTHER -> [s EXCEPT !.last_seq = packet.seq]

Judged(v, packet) ==
  IF Verdict(protocol, v, packet) = "ok" THEN Verified(protocol, v, packet) ELSE v

Init ==
  /\ mode \in Modes /\ protocol \in PROTOCOLS
  /\ pc = (IF mode = "local" THEN "warm_up" ELSE "connect") /\ seq = 1
  /\ state = create_state /\ verifier = create_state /\ measured = <<>>
  /\ accepted = 0 /\ rejected = 0 /\ errors = 0 /\ sent = 0
  /\ request = <<>> /\ response = <<>> /\ usable = TRUE /\ closed = FALSE /\ faults = 0

-----------------------------------------------------------------------------
(* run_local_benchmark_single: state and verifier are one object. *)

WarmUp ==
  /\ pc = "warm_up" /\ seq <= WarmUps
  /\ verifier' = Judged(verifier, build_packet(state, seq)) /\ state' = verifier'
  /\ seq' = seq + 1
  /\ UNCHANGED <<mode, protocol, pc, measured, counts, net, faults>>

\* A new state and a new verifier for what is measured.
ResetVerifierOnly ==  \* Mutant
  /\ pc = "warm_up" /\ seq > WarmUps
  /\ pc' = "measure" /\ seq' = 1 /\ verifier' = create_state /\ UNCHANGED state
  /\ UNCHANGED <<mode, protocol, measured, counts, net, faults>>
Reset ==
  /\ pc = "warm_up" /\ seq > WarmUps
  /\ pc' = "measure" /\ seq' = 1 /\ state' = create_state /\ verifier' = create_state
  /\ UNCHANGED <<mode, protocol, measured, counts, net, faults>>

MeasureUnshared ==  \* Mutant
  LET packet == build_packet(state, seq)
      ok == Verdict(protocol, verifier, packet) = "ok"
      told == [last_seq |-> seq, last |-> state.last]
  IN /\ pc = "measure" /\ seq <= Messages
     /\ verifier' = Judged(verifier, packet)
     /\ state' = IF ok THEN update_state_after_accept(state, packet, told) ELSE state
     /\ measured' = Append(measured, ok) /\ seq' = seq + 1
     /\ UNCHANGED <<mode, protocol, pc, counts, net, faults>>
Measure ==
  LET packet == build_packet(state, seq)
      after == Judged(verifier, packet)
      ok == Verdict(protocol, verifier, packet) = "ok"
      told == [last_seq |-> seq, last |-> after.last]
  IN /\ pc = "measure" /\ seq <= Messages
     /\ verifier' = IF ok THEN update_state_after_accept(after, packet, told) ELSE after
     /\ state' = verifier'
     /\ measured' = Append(measured, ok) /\ seq' = seq + 1
     /\ UNCHANGED <<mode, protocol, pc, counts, net, faults>>

EndLocal ==
  /\ pc = "measure" /\ seq > Messages /\ pc' = "done"
  /\ UNCHANGED <<mode, protocol, seq, state, verifier, measured, counts, net, faults>>

-----------------------------------------------------------------------------
(* run_network_benchmark_single. *)

Connect ==
  /\ pc = "connect"
  /\ \/ pc' = "send" /\ UNCHANGED faults
     \/ faults < MaxFaults /\ faults' = faults + 1 /\ pc' = "done"
  /\ UNCHANGED <<mode, protocol, seq, state, verifier, measured, counts, net>>

\* An error of the send is caught outside the loop, and ends it.
Send ==
  /\ pc = "send" /\ seq <= Messages
  /\ \/ /\ request' = Append(request, build_packet(state, seq)) /\ sent' = sent + 1 /\ pc' = "receive"
     \/ closed /\ pc' = "done" /\ UNCHANGED <<request, sent>>
  /\ UNCHANGED <<mode, protocol, seq, state, verifier, measured,
                 accepted, rejected, errors, response, usable, closed, faults>>

EndNetwork ==
  /\ pc = "send" /\ seq > Messages /\ pc' = "done"
  /\ UNCHANGED <<mode, protocol, seq, state, verifier, measured, counts, net, faults>>

Serve ==
  /\ request # <<>> /\ ~closed
  /\ LET packet == Head(request)
         ok == ~NeedsHello /\ Verdict(protocol, verifier, packet) = "ok"
     IN /\ verifier' = IF ok THEN Verified(protocol, verifier, packet) ELSE verifier
        /\ response' = Append(response, [ok |-> ok, of |-> packet,
                                         last_seq |-> verifier'.last_seq, last |-> verifier'.last])
  /\ request' = Tail(request)
  /\ UNCHANGED <<mode, protocol, pc, seq, state, measured, counts, usable, closed, faults>>

CloseConnection ==
  /\ mode = "network" /\ ~closed /\ pc \in {"send", "receive"} /\ faults < MaxFaults
  /\ faults' = faults + 1 /\ closed' = TRUE
  /\ UNCHANGED <<mode, protocol, pc, seq, state, verifier, measured, counts, request, response, usable>>

Receive ==
  /\ pc = "receive" /\ usable /\ response # <<>>
  /\ LET r == Head(response)
         packet == build_packet(state, seq)
     IN /\ IF r.ok
             THEN /\ accepted' = accepted + 1 /\ UNCHANGED rejected
                  /\ state' = update_state_after_accept(state, packet, r)
             ELSE rejected' = rejected + 1 /\ UNCHANGED <<accepted, state>>
        /\ measured' = Append(measured, r.ok /\ r.of = packet)
  /\ response' = Tail(response) /\ seq' = seq + 1 /\ pc' = "send"
  /\ UNCHANGED <<mode, protocol, verifier, errors, sent, request, usable, closed, faults>>

\* A timeout, or an error of the read.
ReceiveFailsTwice ==  \* Mutant
  /\ pc = "receive"
  /\ \/ /\ usable /\ response = <<>> /\ ~closed /\ faults < MaxFaults
        /\ faults' = faults + 1 /\ usable' = FALSE
     \/ (~usable \/ (closed /\ response = <<>>)) /\ UNCHANGED <<faults, usable>>
  /\ errors' = errors + 2 /\ seq' = seq + 1 /\ pc' = "send"
  /\ UNCHANGED <<mode, protocol, state, verifier, measured, accepted, rejected, sent,
                 request, response, closed>>
ReceiveFails ==
  /\ pc = "receive"
  /\ \/ /\ usable /\ response = <<>> /\ ~closed /\ faults < MaxFaults
        /\ faults' = faults + 1 /\ usable' = FALSE
     \/ (~usable \/ (closed /\ response = <<>>)) /\ UNCHANGED <<faults, usable>>
  /\ errors' = errors + 1 /\ seq' = seq + 1 /\ pc' = "send"
  /\ UNCHANGED <<mode, protocol, state, verifier, measured, accepted, rejected, sent,
                 request, response, closed>>

Done == pc = "done" /\ UNCHANGED vars

Next ==
  \/ WarmUp \/ Reset \/ Measure \/ EndLocal
  \/ Connect \/ Send \/ EndNetwork \/ Serve \/ CloseConnection \/ Receive \/ ReceiveFails
  \/ Done

Spec == Init /\ [][Next]_vars

-----------------------------------------------------------------------------
(* Properties. *)

\* TypeOK: the variables stay in their domains.
TypeOK ==
  /\ seq \in 1..(Messages + WarmUps + 2) /\ Len(measured) <= Messages
  /\ accepted + rejected + errors <= Messages /\ faults \in 0..MaxFaults

\* MeasuredIsAccepted: in local mode every packet that is measured is one
\* its verifier accepted, for all protocols: no figure is the cost of a
\* refusal (run_local_benchmark_single, which does not look).
MeasuredIsAccepted ==
  mode = "local" => \A i \in DOMAIN measured : measured[i]

\* LocalIsWhole: a local measurement ends with the state of a session that
\* sent all its messages, and the warm-up is not part of it.
LocalIsWhole ==
  mode = "local" /\ pc = "done" =>
    /\ Len(measured) = Messages /\ verifier.last_seq = Messages
    /\ protocol \in Linked =>
         verifier.last = <<Session>> \o [i \in 1..Messages |-> make_payload(i)]

\* NetworkAccounts: every message sent over the network is counted once, and
\* a round trip time belongs to a response that was taken as accepted or
\* rejected (run_network_benchmark_single).
NetworkAccounts ==
  mode = "network" /\ pc = "done" =>
    /\ accepted + rejected + errors = sent
    /\ Len(measured) = accepted + rejected

\* AnswersFit: a round trip time is taken from the answer to the packet just
\* sent, and while all is accepted the client continues the server's history.
AnswersFit ==
  mode = "network" =>
    /\ \A i \in DOMAIN measured : ~NeedsHello => measured[i]
    /\ pc = "send" /\ errors = 0 => state.last_seq = verifier.last_seq
    /\ pc = "send" /\ errors = 0 /\ protocol \in {"gmcp", "hash_chain"} =>
         state.last = verifier.last

=============================================================================
