------------------------- MODULE ConcurrentClients -------------------------
(***************************************************************************)
(* run_concurrent_experiment.py: one test with several clients in a pool   *)
(* of threads.  All wait at a barrier with the main thread, each opens a   *)
(* connection of its own, and each sends and receives under a lock, its    *)
(* own or one they share.  The server is one of PlainServer, a session and *)
(* a connection per client.                                                *)
(*                                                                         *)
(* The packets name their protocol "gmcp_r".  Which names the verifier of  *)
(* the server takes is a constant: GMCPVerifier takes "gmcp" alone, and    *)
(* the runs that ask about the clients themselves assume another one.      *)
(* After a timeout a file made by makefile refuses every further read.     *)
(***************************************************************************)
EXTENDS PlainServer, FiniteSets

CONSTANTS
  Clients,
  Messages,          \* message_count
  lock_strategy,     \* "per_session_lock" or "global_lock"
  VerifierTakes,     \* the protocol names the server's verifier takes
  Main,              \* the main thread, a party of the barrier
  Nobody,              \* nobody holds the lock
  MaxTimeouts,       \* bound: reads that time out
  MaxFaults          \* bound: barrier timeouts, failing connects and closes

\* Of the constants; MC modules state them (ASSUME) for their instances.
ConcurrentAssumption ==
  /\ Messages \in Nat /\ MaxTimeouts \in Nat /\ MaxFaults \in Nat
  /\ lock_strategy \in {"per_session_lock", "global_lock"}
  /\ Main \notin Clients /\ Nobody \notin Clients

VARIABLES
  pc,                \* of the clients and the main thread
  broken, arrived,   \* the barrier
  lock,              \* lock -> who holds it
  seq,               \* of each client: the message it is about
  state,             \* of each client: last_seq and last_mem it was told
  usable,            \* whether its file object can still be read
  count,             \* its sent, accepted, rejected, timeout and error counts
  inbox, answers,    \* its connection, both ways
  closed,            \* whether the server has closed it
  server,            \* the state of its session
  results,           \* the clients the main thread has collected
  timeouts, faults

barrier == <<broken, arrived>>
client == <<seq, state, usable, count>>
net == <<inbox, answers, closed, server>>
bounds == <<timeouts, faults>>
vars == <<pc, barrier, lock, client, net, results, bounds>>

Parties == Clients \union {Main}
LockOf(c) == IF lock_strategy = "global_lock" THEN Main ELSE c

Zero == [sent |-> 0, accepted |-> 0, rejected |-> 0, timeout |-> 0, error |-> 0]

Init ==
  /\ pc = [p \in Parties |-> "arriving"] /\ broken = FALSE /\ arrived = {}
  /\ lock = [p \in Parties |-> Nobody]
  /\ seq = [c \in Clients |-> 1] /\ state = [c \in Clients |-> FreshSession]
  /\ usable = [c \in Clients |-> TRUE] /\ count = [c \in Clients |-> Zero]
  /\ inbox = [c \in Clients |-> <<>>] /\ answers = [c \in Clients |-> <<>>]
  /\ closed = [c \in Clients |-> FALSE] /\ server = [c \in Clients |-> FreshSession]
  /\ results = {} /\ timeouts = 0 /\ faults = 0

Goto(p, where) == pc' = [pc EXCEPT ![p] = where]
Count(c, what) == count' = [count EXCEPT ![c][what] = @ + 1]

-----------------------------------------------------------------------------
(* The barrier. *)

Arrive(p) ==
  /\ pc[p] = "arriving"
  /\ IF broken THEN UNCHANGED arrived ELSE arrived' = arrived \union {p}
  /\ Goto(p, "waiting")
  /\ UNCHANGED <<broken, lock, client, net, results, bounds>>

\* The parties are through when all have arrived, or learn that the barrier
\* is broken: then a client has failed and the main thread goes on.
LeaveAnyway(p) ==  \* Mutant
  /\ pc[p] = "waiting" /\ (arrived = Parties \/ broken)
  /\ Goto(p, IF p = Main THEN "collecting" ELSE "open")
  /\ UNCHANGED <<barrier, lock, client, net, results, bounds>>
Leave(p) ==
  /\ pc[p] = "waiting" /\ (arrived = Parties \/ broken)
  /\ Goto(p, IF p = Main THEN "collecting" ELSE IF broken THEN "failed" ELSE "open")
  /\ UNCHANGED <<barrier, lock, client, net, results, bounds>>

\* A party has waited 30 seconds for the others.
BarrierTimeout(p) ==
  /\ pc[p] = "waiting" /\ arrived # Parties /\ ~broken /\ faults < MaxFaults
  /\ broken' = TRUE /\ faults' = faults + 1
  /\ UNCHANGED <<pc, arrived, lock, client, net, results, timeouts>>

-----------------------------------------------------------------------------
(* run_single_client. *)

OpenTCP(c) ==
  /\ pc[c] = "open"
  /\ \/ Goto(c, "next") /\ UNCHANGED faults
     \/ faults < MaxFaults /\ faults' = faults + 1 /\ Goto(c, "failed")
  /\ UNCHANGED <<barrier, lock, client, net, results, timeouts>>

\* The head of the loop: the packet is built from what the client was told.
NextMessage(c) ==
  /\ pc[c] = "next" /\ Goto(c, IF seq[c] > Messages THEN "ended" ELSE "to_send")
  /\ UNCHANGED <<barrier, lock, client, net, results, bounds>>

Acquire(c, at, where) ==
  /\ pc[c] = at /\ lock[LockOf(c)] = Nobody
  /\ lock' = [lock EXCEPT ![LockOf(c)] = c] /\ Goto(c, where)

AcquireToSend(c) ==
  Acquire(c, "to_send", "sending") /\ UNCHANGED <<barrier, client, net, results, bounds>>
AcquireToReceive(c) ==
  Acquire(c, "to_receive", "receiving") /\ UNCHANGED <<barrier, client, net, results, bounds>>

Release(c) == lock' = [lock EXCEPT ![LockOf(c)] = Nobody]

Send(c) ==
  /\ pc[c] = "sending" /\ Release(c)
  /\ \/ /\ inbox' = [inbox EXCEPT ![c] = Append(@, DataPacket(seq[c], state[c].last_mem))]
        /\ Count(c, "sent") /\ Goto(c, "to_receive") /\ UNCHANGED seq
     \/ /\ closed[c] /\ Count(c, "error") /\ Goto(c, "next")
        /\ seq' = [seq EXCEPT ![c] = @ + 1] /\ UNCHANGED inbox
  /\ UNCHANGED <<barrier, state, usable, answers, closed, server, results, bounds>>

\* A read ends with the next response, with a timeout, or with an error.
\* (The lock is given back when it ends, whichever way.)
Receive(c) ==
  /\ pc[c] = "receiving" /\ usable[c] /\ answers[c] # <<>>
  /\ LET r == Head(answers[c])
     IN /\ Count(c, IF r.ok THEN "accepted" ELSE "rejected")
        /\ state' = [state EXCEPT ![c] =
                       IF r.ok THEN [last_seq |-> r.last_seq, last_mem |-> r.last_mem] ELSE @]
  /\ answers' = [answers EXCEPT ![c] = Tail(@)]
  /\ Release(c) /\ Goto(c, "next") /\ seq' = [seq EXCEPT ![c] = @ + 1]
  /\ UNCHANGED <<barrier, usable, inbox, closed, server, results, bounds>>

ReceiveTimeoutUsable(c) ==  \* Mutant
  /\ pc[c] = "receiving" /\ usable[c] /\ answers[c] = <<>> /\ ~closed[c]
  /\ timeouts < MaxTimeouts /\ timeouts' = timeouts + 1
  /\ Count(c, "timeout") /\ UNCHANGED usable
  /\ Release(c) /\ Goto(c, "next") /\ seq' = [seq EXCEPT ![c] = @ + 1]
  /\ UNCHANGED <<barrier, state, net, results, faults>>
ReceiveTimeoutAccepted(c) ==  \* Mutant
  /\ pc[c] = "receiving" /\ usable[c] /\ answers[c] = <<>> /\ ~closed[c]
  /\ timeouts < MaxTimeouts /\ timeouts' = timeouts + 1
  /\ Count(c, "accepted") /\ usable' = [usable EXCEPT ![c] = FALSE]
  /\ Release(c) /\ Goto(c, "next") /\ seq' = [seq EXCEPT ![c] = @ + 1]
  /\ UNCHANGED <<barrier, state, net, results, faults>>
ReceiveTimeout(c) ==
  /\ pc[c] = "receiving" /\ usable[c] /\ answers[c] = <<>> /\ ~closed[c]
  /\ timeouts < MaxTimeouts /\ timeouts' = timeouts + 1
  /\ Count(c, "timeout") /\ usable' = [usable EXCEPT ![c] = FALSE]
  /\ Release(c) /\ Goto(c, "next") /\ seq' = [seq EXCEPT ![c] = @ + 1]
  /\ UNCHANGED <<barrier, state, net, results, faults>>

ReceiveErrorKeeping(c) ==  \* Mutant
  /\ pc[c] = "receiving" /\ (~usable[c] \/ (closed[c] /\ answers[c] = <<>>))
  /\ Count(c, "error") /\ UNCHANGED lock
  /\ Goto(c, "next") /\ seq' = [seq EXCEPT ![c] = @ + 1]
  /\ UNCHANGED <<barrier, state, usable, net, results, bounds>>
ReceiveErrorUncounted(c) ==  \* Mutant
  /\ pc[c] = "receiving" /\ (~usable[c] \/ (closed[c] /\ answers[c] = <<>>))
  /\ UNCHANGED count /\ Release(c)
  /\ Goto(c, "next") /\ seq' = [seq EXCEPT ![c] = @ + 1]
  /\ UNCHANGED <<barrier, state, usable, net, results, bounds>>
ReceiveErrorRetry(c) ==  \* Mutant
  /\ pc[c] = "receiving" /\ (~usable[c] \/ (closed[c] /\ answers[c] = <<>>))
  /\ Release(c) /\ Goto(c, "to_receive")
  /\ UNCHANGED <<barrier, client, net, results, bounds>>
ReceiveError(c) ==
  /\ pc[c] = "receiving" /\ (~usable[c] \/ (closed[c] /\ answers[c] = <<>>))
  /\ Count(c, "error") /\ Release(c)
  /\ Goto(c, "next") /\ seq' = [seq EXCEPT ![c] = @ + 1]
  /\ UNCHANGED <<barrier, state, usable, net, results, bounds>>

-----------------------------------------------------------------------------
(* The server, and the main thread. *)

Takes(s, p) ==
  IF "gmcp_r" \in VerifierTakes THEN Verdict(s, p)
  ELSE [ok |-> FALSE, reason |-> "protocol mismatch",
        last_seq |-> s.last_seq, last_mem |-> s.last_mem]

Serve(c) ==
  /\ inbox[c] # <<>> /\ ~closed[c]
  /\ LET p == Head(inbox[c])
         r == Takes(server[c], p)
     IN /\ server' = [server EXCEPT ![c] = [last_seq |-> r.last_seq, last_mem |-> r.last_mem]]
        /\ answers' = [answers EXCEPT ![c] =
                       Append(@, [of |-> p.seq, ok |-> r.ok, last_seq |-> r.last_seq,
                                  last_mem |-> r.last_mem])]
  /\ inbox' = [inbox EXCEPT ![c] = Tail(@)]
  /\ UNCHANGED <<pc, barrier, lock, client, closed, results, bounds>>

\* The server gives up a connection that was silent for 30 seconds.
CloseConnection(c) ==
  /\ ~closed[c] /\ pc[c] \in {"to_send", "to_receive", "receiving"} /\ faults < MaxFaults
  /\ faults' = faults + 1 /\ closed' = [closed EXCEPT ![c] = TRUE]
  /\ UNCHANGED <<pc, barrier, lock, client, inbox, answers, server, results, timeouts>>

\* as_completed.
Collect(c) ==
  /\ pc[Main] = "collecting" /\ pc[c] \in {"ended", "failed"} /\ c \notin results
  /\ results' = results \union {c}
  /\ UNCHANGED <<pc, barrier, lock, client, net, bounds>>

Summarise ==
  /\ pc[Main] = "collecting" /\ results = Clients /\ Goto(Main, "done")
  /\ UNCHANGED <<barrier, lock, client, net, results, bounds>>

ClientStep(c) ==
  \/ OpenTCP(c) \/ NextMessage(c) \/ AcquireToSend(c) \/ Send(c)
  \/ AcquireToReceive(c) \/ Receive(c) \/ ReceiveTimeout(c) \/ ReceiveError(c)

Done == pc[Main] = "done" /\ UNCHANGED vars

Next ==
  \/ \E p \in Parties : Arrive(p) \/ Leave(p) \/ BarrierTimeout(p)
  \/ \E c \in Clients : ClientStep(c) \/ Serve(c) \/ CloseConnection(c) \/ Collect(c)
  \/ Summarise \/ Done

Spec == Init /\ [][Next]_vars

-----------------------------------------------------------------------------
(* Properties. *)

Ended(c) == pc[c] = "ended"
Running == {"open", "next", "to_send", "sending", "to_receive", "receiving", "ended"}

\* TypeOK: the variables stay in their domains.
TypeOK ==
  /\ lock \in [Parties -> Clients \union {Nobody}] /\ results \subseteq Clients
  /\ \A c \in Clients :
       /\ seq[c] \in 1..(Messages + 1)
       /\ count[c] \in [{"sent", "accepted", "rejected", "timeout", "error"} -> 0..Messages]

\* StartTogether: no client sends anything before every party has reached
\* the barrier (run_concurrent_test: all threads start at the same time).
StartTogether == \A c \in Clients : pc[c] \in Running => arrived = Parties

\* EveryMessageCounted: whatever times out or fails, and in whichever order
\* the threads run, a client that ends has counted each message once
\* (run_single_client).
EveryMessageCounted ==
  \A c \in Clients :
     Ended(c) => LET n == count[c]
                 IN n.accepted + n.rejected + n.timeout + n.error = Messages

\* AnswersFit: the response a client is about to take is that to the packet it
\* has just sent; one that comes after its timeout is never taken for the next
\* packet's (run_single_client).
AnswersFit ==
  \A c \in Clients :
    pc[c] = "receiving" /\ usable[c] /\ answers[c] # <<>> => Head(answers[c]).of = seq[c]

\* TheServersWord: the memory a client continues from is one its session has
\* had, and it counts no message as accepted that the session did not accept.
TheServersWord ==
  \A c \in Clients :
     /\ state[c].last_mem = History(state[c].last_seq)
     /\ state[c].last_seq <= server[c].last_seq
     /\ count[c].accepted <= server[c].last_seq

\* LocksGivenBack: a client that waits for nothing holds no lock, so that no
\* way a read can end keeps the others out (run_single_client).
LocksGivenBack ==
  \A p \in Parties : lock[p] # Nobody => pc[lock[p]] \in {"sending", "receiving"}

\* TestEnds: under either lock strategy the test ends, though connections
\* close, reads time out and the barrier breaks.
Over == pc[Main] = "done"

=============================================================================
