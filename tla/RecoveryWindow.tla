--------------------------- MODULE RecoveryWindow ---------------------------
(***************************************************************************)
(* run_recovery_window_experiment.py and the ticket server it may start    *)
(* itself: rows of five scenarios, each with a session of its own, then a  *)
(* judgement of every row that decides the exit code.                      *)
(*                                                                         *)
(* _spawn_server gives the server a pipe as its standard output, and       *)
(* nobody reads it.  The server prints a line for a connection, for a      *)
(* checkpoint, for each step of a recovery; a thread that prints into a    *)
(* full pipe stops there for good.  PipeCapacity counts lines.             *)
(*                                                                         *)
(* The client sends the messages of a session in order, so a memory is     *)
(* told by the number of messages in it.  A ticket is the number it was    *)
(* issued at and its checkpoint; a session uses one ticket, the last of    *)
(* phase 1, and nonce_used says whether its nonce is consumed.  The        *)
(* hundred of the source is TicketInterval.                                *)
(***************************************************************************)
EXTENDS Integers, SequencesExt

CONSTANTS
  TicketInterval,    \* TICKET_INTERVAL, and the length of phase 1
  Intervals,         \* CHECKPOINT_INTERVALS
  RaceIntervals,     \* the first two of them
  Rows,              \* bound: rows of one run
  Drained,           \* FALSE: --spawn-server, nobody reads the server's output
  PipeCapacity,      \* lines the pipe takes
  Faults             \* may a call fail although the server works?

\* Of the constants; MC modules state them (ASSUME) for their instances.
WindowAssumption ==
  /\ TicketInterval \in Nat \ {0} /\ Rows \in Nat /\ PipeCapacity \in Nat
  /\ Intervals \subseteq Nat \ {0} /\ RaceIntervals \subseteq Intervals
  /\ Drained \in BOOLEAN /\ Faults \in BOOLEAN

VARIABLES
  pc,                \* where main is: "row", "hello", "data", "recover",
                     \* "resubmit", "race", "judge" or "end"
  count,             \* rows judged
  scenario, interval,
  seq,               \* the DATA packet under way
  saved_ticket,
  row,               \* the result dict of the row
  invalid,           \* is there an entry in violations?
  (* The server: the row's session, and its output. *)
  last_seq, checkpoints, nonce_used, pipe,
  (* The connections: what each thread of the server was asked. *)
  call,
  results            \* of the two workers of a race

session == <<last_seq, checkpoints, nonce_used>>
config == <<scenario, interval>>
vars == <<pc, count, config, seq, saved_ticket, row, invalid, session, pipe,
          call, results>>

Conns == {0, 1}
Nothing == [kind |-> "nothing"]
Stuck == [kind |-> "stuck"]
Hello == [kind |-> "hello"]
Data(n) == [kind |-> "data", seq |-> n]
Recovery(t) == [kind |-> "recovery", ticket |-> t]
NoTicket == [last_seq |-> 0, checkpoint_seq |-> 0]

-----------------------------------------------------------------------------
(* The scenarios.  Each advances the server to a number, and presents the  *)
(* ticket of phase 1; resubmits says when it presents the ticket again, to *)
(* see whether its nonce is consumed.                                      *)

run_control ==
  [target |-> TicketInterval, resubmits |-> {TRUE}]

run_ack_loss ==
  [target |-> TicketInterval + TicketInterval \div 2 - 1, resubmits |-> {TRUE}]

\* Mutant: the advance reaches the next checkpoint.
run_old_ticketAt(k) ==
  [target |-> (TicketInterval \div k + 1) * k, resubmits |-> {TRUE}]
run_old_ticket_within_window(k) ==
  [target |-> (TicketInterval \div k + 1) * k - 1, resubmits |-> {TRUE}]

run_below_floor ==
  [target |-> 2 * TicketInterval, resubmits |-> {TRUE, FALSE}]

run_nonce_race ==
  [target |-> TicketInterval, resubmits |-> {}]

Scenarios == {"control", "ack_loss", "old_ticket_within_window",
              "below_floor", "nonce_race"}
Plan ==
  CASE scenario = "control" -> run_control
    [] scenario = "ack_loss" -> run_ack_loss
    [] scenario = "old_ticket_within_window"
         -> run_old_ticket_within_window(interval)
    [] scenario = "below_floor" -> run_below_floor
    [] OTHER -> run_nonce_race

ErrorRow ==
  [server_last_seq_before |-> 0, server_last_seq_after |-> 0,
   recovery_floor |-> 0, ticket_last_seq |-> 0, auth_ok |-> FALSE,
   nonce_consumed |-> FALSE, race_winner_count |-> 0,
   state_unchanged |-> FALSE, success |-> FALSE, error |-> TRUE]

Init ==
  /\ pc = "row" /\ count = 0 /\ scenario = "control" /\ interval \in Intervals
  /\ seq = 0 /\ saved_ticket = NoTicket /\ row = ErrorRow /\ invalid = FALSE
  /\ last_seq = 0 /\ checkpoints = <<>> /\ nonce_used = FALSE /\ pipe = 0
  /\ call = [c \in Conns |-> Nothing]
  /\ results = [c \in Conns |-> Nothing]

-----------------------------------------------------------------------------
(* The server's threads. *)

Room(n) == Drained \/ pipe + n <= PipeCapacity
Output(n) == pipe' = IF Drained THEN 0
                    ELSE IF Room(n) THEN pipe + n ELSE PipeCapacity
\* The answer is sent after n lines, unless one of them finds no room.
AnswerAfter(c, n, answer) ==
  /\ Output(n)
  /\ call' = [call EXCEPT ![c] = IF Room(n) THEN answer ELSE Stuck]

\* The thread starts with a line, then binds the connection.
ServeHello(c) ==
  /\ call[c].kind = "hello"
  /\ AnswerAfter(c, 1, [kind |-> "answer"])
  /\ UNCHANGED session

\* A DATA packet, in order: a checkpoint with a ticket, or a ticket alone,
\* which needs a checkpoint too if there is none yet.
ServeData(c) ==
  /\ call[c].kind = "data"
  /\ LET n == call[c].seq
         due == n % interval = 0
         ticketDue == due \/ n % TicketInterval = 0
         created == due \/ (ticketDue /\ checkpoints = <<>>)
         stored == IF created THEN Append(checkpoints, n) ELSE checkpoints
         lines == (IF created THEN 1 ELSE 0) + (IF ticketDue THEN 1 ELSE 0)
                    + (IF due THEN 1 ELSE 0)
     IN  /\ last_seq' = n
         /\ checkpoints' = stored
         /\ AnswerAfter(c, lines,
              [kind |-> "answer", last_seq |-> n,
               memory_ticket |->
                 IF ticketDue
                 THEN [last_seq |-> n, checkpoint_seq |-> Last(stored)]
                 ELSE NoTicket])
  /\ UNCHANGED nonce_used

RecoveryFloor == IF checkpoints = <<>> THEN 0 ELSE Last(checkpoints)

RecoveryAnswer(ok, reason, ticket) ==
  [kind |-> "answer", ok |-> ok, reason |-> reason,
   server_last_seq |-> last_seq, recovery_floor |-> RecoveryFloor,
   ticket_last_seq |-> ticket.last_seq]

\* Mutant: used nonces are not looked up.
RefusalAnyNonce(ticket) ==
  IF ticket.last_seq < RecoveryFloor THEN "rollback"
  ELSE IF ticket.checkpoint_seq \notin Range(checkpoints)
            \/ ticket.last_seq > last_seq
       THEN "checkpoint"
  ELSE "none"
Refusal(ticket) ==
  IF ticket.last_seq < RecoveryFloor THEN "rollback"
  ELSE IF nonce_used THEN "replay"
  ELSE IF ticket.checkpoint_seq \notin Range(checkpoints)
            \/ ticket.last_seq > last_seq
       THEN "checkpoint"
  ELSE "none"

\* Mutant: a refusal consumes the nonce.
RefuseRecoveryConsuming(c) ==
  /\ call[c].kind = "recovery"
  /\ Refusal(call[c].ticket) # "none"
  /\ AnswerAfter(c, 1, RecoveryAnswer(FALSE, Refusal(call[c].ticket),
                                      call[c].ticket))
  /\ nonce_used' = TRUE
  /\ UNCHANGED <<last_seq, checkpoints>>

RefuseRecovery(c) ==
  /\ call[c].kind = "recovery"
  /\ Refusal(call[c].ticket) # "none"
  /\ AnswerAfter(c, 1, RecoveryAnswer(FALSE, Refusal(call[c].ticket),
                                      call[c].ticket))
  /\ UNCHANGED session

\* Under the session's lock: two lines, the nonce, a third line.
AcceptRecovery(c) ==
  /\ call[c].kind = "recovery"
  /\ Refusal(call[c].ticket) = "none"
  /\ AnswerAfter(c, 3, RecoveryAnswer(TRUE, "ok", call[c].ticket))
  /\ nonce_used' = (nonce_used \/ Room(2))
  /\ UNCHANGED <<last_seq, checkpoints>>

Serve ==
  /\ \E c \in Conns : \/ ServeHello(c) \/ ServeData(c)
                      \/ RefuseRecovery(c) \/ AcceptRecovery(c)
  /\ UNCHANGED <<pc, count, config, seq, saved_ticket, row, invalid, results>>

-----------------------------------------------------------------------------
(* The client: one row without a race. *)

Answered(c) == call[c].kind = "answer"
Ask(c, message) == call' = [call EXCEPT ![c] = message]

Start ==
  /\ pc = "row" /\ count < Rows
  /\ \E s \in Scenarios :
       /\ scenario' = s
       /\ interval' \in IF s = "nonce_race" THEN RaceIntervals ELSE Intervals
  /\ last_seq' = 0 /\ checkpoints' = <<>> /\ nonce_used' = FALSE
  /\ saved_ticket' = NoTicket /\ row' = ErrorRow
  /\ results' = [c \in Conns |-> Nothing]
  /\ Ask(0, Hello)
  /\ pc' = "hello"
  /\ UNCHANGED <<count, seq, invalid, pipe>>

FirstData ==
  /\ pc = "hello" /\ Answered(0)
  /\ seq' = 1 /\ Ask(0, Data(1))
  /\ pc' = "data"
  /\ UNCHANGED <<count, config, saved_ticket, row, invalid, session, pipe,
                 results>>

\* A ticket is kept in phase 1 only; phase 2 discards the responses.
Kept == IF call[0].memory_ticket # NoTicket /\ seq <= TicketInterval
        THEN call[0].memory_ticket ELSE saved_ticket

NextData ==
  /\ pc = "data" /\ Answered(0) /\ seq < Plan.target
  /\ saved_ticket' = Kept
  /\ seq' = seq + 1 /\ Ask(0, Data(seq + 1))
  /\ UNCHANGED <<pc, count, config, row, invalid, session, pipe, results>>

SendRecovery ==
  /\ pc = "data" /\ Answered(0) /\ seq = Plan.target
  /\ scenario # "nonce_race"
  /\ saved_ticket' = Kept
  /\ row' = [row EXCEPT !.server_last_seq_before = call[0].last_seq]
  /\ Ask(0, Recovery(Kept))
  /\ pc' = "recover"
  /\ UNCHANGED <<count, config, seq, invalid, session, pipe, results>>

Recovered ==
  /\ pc = "recover" /\ Answered(0)
  /\ row' = [row EXCEPT
       !.server_last_seq_after = call[0].server_last_seq,
       !.recovery_floor = call[0].recovery_floor,
       !.ticket_last_seq = call[0].ticket_last_seq,
       !.auth_ok = TRUE, !.error = FALSE, !.success = call[0].ok,
       !.state_unchanged =
         row.server_last_seq_before = call[0].server_last_seq]
  /\ IF call[0].ok \in Plan.resubmits
     THEN pc' = "resubmit" /\ Ask(0, Recovery(saved_ticket))
     ELSE pc' = "judge" /\ UNCHANGED call
  /\ UNCHANGED <<count, config, seq, saved_ticket, invalid, session, pipe,
                 results>>

\* Mutant: any refusal is taken for a consumed nonce.
NonceConsumedIfRefused(answer) == ~answer.ok
NonceConsumed(answer) == ~answer.ok /\ answer.reason = "replay"

Resubmitted ==
  /\ pc = "resubmit" /\ Answered(0)
  /\ row' = [row EXCEPT !.nonce_consumed = NonceConsumed(call[0])]
  /\ pc' = "judge"
  /\ UNCHANGED <<count, config, seq, saved_ticket, invalid, session, pipe,
                 call, results>>

-----------------------------------------------------------------------------
(* The client: a race. *)

\* The setup connection is closed; two workers open one each.
StartRace ==
  /\ pc = "data" /\ Answered(0) /\ seq = Plan.target
  /\ scenario = "nonce_race"
  /\ saved_ticket' = Kept
  /\ call' = [c \in Conns |-> Hello]
  /\ Output(1)
  /\ pc' = "race"
  /\ UNCHANGED <<count, config, seq, row, invalid, session, results>>

WorkerHello(c) ==
  /\ pc = "race" /\ results[c] = Nothing /\ Answered(c)
  /\ "ok" \notin DOMAIN call[c]
  /\ Ask(c, Recovery(saved_ticket))
  /\ UNCHANGED <<pc, count, config, seq, saved_ticket, row, invalid, session,
                 pipe, results>>

WorkerEnds(c) ==
  /\ pc = "race" /\ results[c] = Nothing /\ Answered(c)
  /\ "ok" \in DOMAIN call[c]
  /\ results' = [results EXCEPT ![c] = [kind |-> "result", ok |-> call[c].ok,
                                        auth |-> TRUE, response |-> call[c]]]
  /\ UNCHANGED <<pc, count, config, seq, saved_ticket, row, invalid, session,
                 pipe, call>>

\* A call that fails: the server's thread is stuck, or the network fails it.
CallFails(c) == call[c] = Stuck \/ (Faults /\ call[c] # Nothing)

WorkerFails(c) ==
  /\ pc = "race" /\ results[c] = Nothing /\ CallFails(c)
  /\ results' = [results EXCEPT ![c] = [kind |-> "result", ok |-> FALSE,
                                        auth |-> FALSE, response |-> Nothing]]
  /\ UNCHANGED <<pc, count, config, seq, saved_ticket, row, invalid, session,
                 pipe, call>>

winners == {c \in Conns : results[c] # Nothing /\ results[c].ok}

RaceRow ==
  LET won == [kind |-> "answer", recovery_floor |-> saved_ticket.last_seq,
              ticket_last_seq |-> saved_ticket.last_seq]
      winner_resp == IF winners = {} THEN won
                     ELSE results[CHOOSE c \in winners : TRUE].response
  IN [server_last_seq_before |-> TicketInterval,
      server_last_seq_after |-> IF winners = {} THEN 0 ELSE TicketInterval,
      recovery_floor |-> winner_resp.recovery_floor,
      ticket_last_seq |-> winner_resp.ticket_last_seq,
      auth_ok |-> \A c \in Conns : results[c] # Nothing => results[c].auth,
      nonce_consumed |-> winners # {},
      race_winner_count |-> Cardinality(winners),
      state_unchanged |-> FALSE,
      success |-> Cardinality(winners) = 1, error |-> FALSE]

\* Each join waits fifteen seconds, and each of a worker's three calls may
\* take ten.  With no result at all, max() raises and main writes an error.
Join ==
  /\ pc = "race"
  /\ Faults \/ \A c \in Conns : results[c] # Nothing
  /\ row' = IF \A c \in Conns : results[c] = Nothing THEN ErrorRow ELSE RaceRow
  /\ pc' = "judge"
  /\ UNCHANGED <<count, config, seq, saved_ticket, invalid, session, pipe,
                 call, results>>

-----------------------------------------------------------------------------
(* Main: an exception makes an error row; every row is judged. *)

\* Mutant: a read that times out is repeated.
RowFailsPatient ==
  /\ pc \in {"hello", "data", "recover", "resubmit"} /\ CallFails(0)
  /\ UNCHANGED vars
RowFails ==
  /\ pc \in {"hello", "data", "recover", "resubmit"} /\ CallFails(0)
  /\ row' = ErrorRow
  /\ pc' = "judge"
  /\ UNCHANGED <<count, config, seq, saved_ticket, invalid, session, pipe,
                 call, results>>

\* violations: what main holds against a row.
Violates(r) ==
  \/ ~r.auth_ok
  \/ scenario \in {"control", "ack_loss", "old_ticket_within_window"}
       /\ ~r.success
  \/ scenario = "below_floor" /\ (r.success \/ ~r.state_unchanged)
  \/ scenario = "nonce_race" /\ r.race_winner_count # 1

\* The connections are closed, and each thread that can still print says so.
Judge ==
  /\ pc = "judge"
  /\ invalid' = (invalid \/ Violates(row))
  /\ count' = count + 1
  /\ Output(Cardinality({c \in Conns : call[c] \notin {Nothing, Stuck}}))
  /\ call' = [c \in Conns |-> Nothing]
  /\ pc' = IF count + 1 = Rows THEN "end" ELSE "row"
  /\ UNCHANGED <<config, seq, saved_ticket, row, session, results>>

Done == pc = "end" /\ UNCHANGED vars

Client == Start \/ FirstData \/ NextData \/ SendRecovery \/ Recovered
            \/ Resubmitted \/ StartRace \/ Join \/ RowFails \/ Judge
            \/ \E c \in Conns : WorkerHello(c) \/ WorkerEnds(c) \/ WorkerFails(c)
Next == Client \/ Serve \/ Done

\* The client goes on, and so does a server thread that is not stuck.
Spec == Init /\ [][Next]_vars /\ WF_vars(Client) /\ WF_vars(Serve)

-----------------------------------------------------------------------------
(* Properties. *)

judged == pc = "judge" /\ ~row.error

\* TypeOK: the server never has more messages than the scenario sends, its
\* checkpoints are in order, and its output fits the pipe.
TypeOK ==
  /\ count \in 0..Rows /\ invalid \in BOOLEAN /\ nonce_used \in BOOLEAN
  /\ pc \in {"row", "hello", "data", "recover", "resubmit", "race", "judge",
             "end"}
  /\ pc \notin {"row", "hello", "end"} => last_seq <= Plan.target
  /\ \A i, j \in DOMAIN checkpoints : i < j => checkpoints[i] < checkpoints[j]
  /\ pipe <= PipeCapacity

\* RowsPass: in a run that nothing disturbs no row is reported as a violation,
\* whatever the checkpoint interval: this is the window arithmetic of the
\* scenarios against the floor of the server.  A spawned server disturbs it.
RowsPass == pc = "judge" => ~Violates(row)

\* AcceptedRowsAreTrue: a row without a violation tells what the server did,
\* also when calls fail: the ticket was at or above the floor and is consumed,
\* or it was below and is not.
AcceptedRowsAreTrue ==
  judged /\ ~Violates(row) =>
    IF scenario = "below_floor"
    THEN ~nonce_used /\ row.ticket_last_seq < row.recovery_floor
    ELSE nonce_used /\ row.ticket_last_seq >= row.recovery_floor

\* NonceColumnIsTrue: nonce_consumed, found by presenting the ticket again,
\* is the server's own knowledge (outside the race, which infers it).
NonceColumnIsTrue ==
  judged /\ scenario # "nonce_race" => row.nonce_consumed = nonce_used

\* AtMostOneWinner: however the race goes, the nonce makes one winner at most.
AtMostOneWinner == Cardinality(winners) <= 1

=============================================================================
