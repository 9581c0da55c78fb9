---------------------------- MODULE SharedHistory ----------------------------
(***************************************************************************)
(* What GMCP-R promises a session, with the protocol left out: a history   *)
(* of accepted payloads that only grows, and a client whose view of it is  *)
(* always a beginning of that history and never becomes shorter.           *)
(* Accepting DATA extends the history (GMCPVerifier.verify_data_packet);   *)
(* an acknowledgement or a recovery lets the client catch up with it.      *)
(***************************************************************************)
EXTENDS Naturals, Sequences

CONSTANT Payloads

VARIABLES log,   \* the accepted payloads
          view   \* the client's idea of them

Init == log = <<>> /\ view = <<>>

Extend ==
  /\ \E payload \in Payloads : log' = Append(log, payload)
  /\ UNCHANGED view

CatchUp ==
  /\ \E n \in Len(view)..Len(log) : view' = SubSeq(log, 1, n)
  /\ UNCHANGED log

Next == Extend \/ CatchUp

Spec == Init /\ [][Next]_<<log, view>>

==============================================================================
