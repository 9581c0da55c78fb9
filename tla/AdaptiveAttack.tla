--------------------------- MODULE AdaptiveAttack ---------------------------
(***************************************************************************)
(* run_hash_chain_adaptive_attack.py: on each of two protocols, a session  *)
(* of three packets and a fourth one whose payload is replaced, with every *)
(* public hash computed anew and the auth_tag left as it was.  A plain     *)
(* hash chain accepts it; the authenticated one refuses it.                *)
(*                                                                         *)
(* The program sends no HELLO.  The baseline server of the repository      *)
(* refuses whatever comes on such a connection (hello_required); the       *)
(* program was written for one without that rule.                          *)
(***************************************************************************)
EXTENDS BaselineProtocols, FiniteSets

CONSTANTS
  Normal,       \* the packets before the altered one
  HelloRules,   \* which values hello_required may have
  MayBreak      \* may a connection fail, or an answer time out?

\* Of the constants; MC modules state them (ASSUME) for their instances.
AdaptiveAssumption ==
  Normal \in Nat \ {0} /\ HelloRules \subseteq BOOLEAN /\ MayBreak \in BOOLEAN

CLIENT_ID == "client"
EPOCH == 1
Attacked == <<"hash_chain", "authenticated_hash_chain">>

VARIABLES
  hello_required, spawn_server,
  pc,           \* "start", "open", "send", "answer", "write", "verify",
                \* "finally" or "done"
  server_proc,  \* "none", "running" or "terminated"
  results, csv, exit_code,
  (* run_adaptive_attack, on the next protocol *)
  seq, state, accepted_packets,
  (* The server's session, and the answer on its way. *)
  server, answer

program == <<hello_required, spawn_server>>
one     == <<seq, state, accepted_packets>>
vars    == <<program, pc, server_proc, results, csv, exit_code, one, server,
             answer>>

protocol == Attacked[Len(results) + 1]
NewState == InitialState("s", CLIENT_ID, EPOCH)
NoAnswer == "none"

Init ==
  /\ hello_required \in HelloRules /\ spawn_server \in BOOLEAN
  /\ pc = "start" /\ server_proc = "none"
  /\ results = <<>> /\ csv = <<>> /\ exit_code = "none"
  /\ seq = 1 /\ state = NewState /\ accepted_packets = 0
  /\ server = NewState /\ answer = NoAnswer

-----------------------------------------------------------------------------

\* The process is started, and two seconds pass.
Start ==
  /\ pc = "start"
  /\ server_proc' = IF spawn_server THEN "running" ELSE "none"
  /\ pc' = "open"
  /\ UNCHANGED <<program, results, csv, exit_code, one, server, answer>>

\* A session of its own for the protocol.
Open ==
  /\ pc = "open" /\ Len(results) < Len(Attacked)
  /\ seq' = 1 /\ state' = NewState /\ accepted_packets' = 0
  /\ server' = NewState
  /\ pc' = "send"
  /\ UNCHANGED <<program, server_proc, results, csv, exit_code, answer>>

NormalPacket ==
  Build(protocol, "s", CLIENT_ID, EPOCH, seq, state.last, <<"normal", seq>>)

\* Mutant: the chain hash is not computed anew.
TamperedPart ==
  [NormalPacket EXCEPT !.payload = "TAMPERED-DATA",
                       !.payload_hash = "TAMPERED-DATA"]

\* payload_hash and chain_hash are made to fit; the hash chain has no other
\* tag than its chain_hash.
Tampered ==
  LET packet == [NormalPacket EXCEPT !.payload = "TAMPERED-DATA",
                                     !.payload_hash = "TAMPERED-DATA"]
  IN  IF protocol = "hash_chain"
      THEN [packet EXCEPT !.tag = HashChainTag(packet)] ELSE packet

Attacking == seq = Normal + 1
Packet == IF Attacking THEN Tampered ELSE NormalPacket

\* The packet is sent, and the server answers it.
Send ==
  /\ pc = "send"
  /\ LET reason == IF hello_required
                   THEN "connection not bound: HELLO required"
                   ELSE Verdict(protocol, server, Packet)
     IN  /\ answer' = reason
         /\ server' = IF reason = "ok" THEN Verified(protocol, server, Packet)
                      ELSE server
  /\ pc' = "answer"
  /\ UNCHANGED <<program, server_proc, results, csv, exit_code, one>>

\* A refusal of a normal packet is not counted, and the next one is sent.
ReceiveNormal ==
  /\ pc = "answer" /\ ~Attacking
  /\ IF answer = "ok"
     THEN /\ state' = [state EXCEPT !.last_seq = seq,
                         !.last = Link(@, <<"normal", seq>>)]
          /\ accepted_packets' = accepted_packets + 1
     ELSE UNCHANGED <<state, accepted_packets>>
  /\ seq' = seq + 1
  /\ answer' = NoAnswer
  /\ pc' = "send"
  /\ UNCHANGED <<program, server_proc, results, csv, exit_code, server>>

ReceiveAttacked ==
  /\ pc = "answer" /\ Attacking
  /\ results' = Append(results,
       [protocol |-> protocol, attack_accepted |-> answer = "ok",
        reason |-> answer, accepted_before_attack |-> accepted_packets,
        kept |-> server.last])
  /\ answer' = NoAnswer
  /\ pc' = IF Len(results') = Len(Attacked) THEN "write" ELSE "open"
  /\ UNCHANGED <<program, server_proc, csv, exit_code, one, server>>

\* No exception is handled: no row is written, not even a complete one.
Raises ==
  /\ MayBreak /\ pc \in {"open", "send", "answer"}
  /\ exit_code' = "raised"
  /\ pc' = "finally"
  /\ UNCHANGED <<program, server_proc, results, csv, one, server, answer>>

Write ==
  /\ pc = "write"
  /\ csv' = results
  /\ pc' = "verify"
  /\ UNCHANGED <<program, server_proc, results, exit_code, one, server, answer>>

Verify ==
  /\ pc = "verify"
  /\ exit_code' = IF results[1].attack_accepted /\ ~results[2].attack_accepted
                  THEN "0" ELSE "1"
  /\ pc' = "finally"
  /\ UNCHANGED <<program, server_proc, results, csv, one, server, answer>>

\* Mutant: after an exception the process is left running.
FinallyUnlessRaised ==
  /\ pc = "finally"
  /\ server_proc' = IF server_proc = "running" /\ exit_code # "raised"
                    THEN "terminated" ELSE server_proc
  /\ pc' = "done"
  /\ UNCHANGED <<program, results, csv, exit_code, one, server, answer>>

\* The process is terminated, and waited for.
Finally ==
  /\ pc = "finally"
  /\ server_proc' = IF server_proc = "running" THEN "terminated" ELSE server_proc
  /\ pc' = "done"
  /\ UNCHANGED <<program, results, csv, exit_code, one, server, answer>>

Work == Start \/ Open \/ Send \/ ReceiveNormal \/ ReceiveAttacked \/ Raises
          \/ Write \/ Verify \/ Finally

Done == pc = "done" /\ UNCHANGED vars

Next == Work \/ Done

\* A read ends with an answer or with its timeout.
Spec == Init /\ [][Next]_vars /\ WF_vars(Work)

-----------------------------------------------------------------------------
(* Properties *)

\* TypeOK: the program's variables stay in their domains.
TypeOK ==
  /\ pc \in {"start", "open", "send", "answer", "write", "verify", "finally",
             "done"}
  /\ server_proc \in {"none", "running", "terminated"}
  /\ exit_code \in {"none", "0", "1", "raised"}
  /\ Len(results) <= Len(Attacked) /\ seq \in 1..(Normal + 1)
  /\ accepted_packets <= Normal

\* BlockedByTheTag: when the program says that all its expectations are met,
\* the authenticated chain refused the packet for its tag, and not because the
\* packets before it had been refused, which the program does not look at.
BlockedByTheTag ==
  exit_code = "0" =>
    /\ \A i \in DOMAIN csv : csv[i].accepted_before_attack = Normal
    /\ csv[1].kept[Len(csv[1].kept)] = "TAMPERED-DATA"
    /\ csv[2].reason = "auth_tag mismatch" /\ Len(csv[2].kept) = Normal + 1

\* WeaknessShows: against the server it was written for, a program that writes
\* its rows finds the weakness of the one chain and the strength of the other;
\* against a server that asks for a HELLO it never does.
WeaknessShows ==
  pc = "done" /\ csv # <<>> => (exit_code = "0" <=> ~hello_required)

\* The program is over, and so is the server it started.
Over == pc = "done" /\ server_proc # "running"

=============================================================================
