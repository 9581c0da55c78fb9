--------------------------- MODULE CheckpointCost ---------------------------
(***************************************************************************)
(* run_checkpoint_cost_comparison.py: write a history to two files, then   *)
(* measure how GMCP-R recovers from the checkpoint at n - k and how the    *)
(* authenticated chain recovers from the start, each by reading its file   *)
(* line by line and verifying every line.                                  *)
(*                                                                         *)
(* A memory (or a chain hash) is the sequence of the payloads it was built *)
(* from, a payload the number it was made for.  The files may be edited or *)
(* cut between the writing and the measuring, by one edit each: that is    *)
(* what the line checks are for.  An edited line fails its tag; a line     *)
(* that was moved, repeated or taken from elsewhere keeps it.  Lines count *)
(* as equally long; where an edit moves the seek position into the middle  *)
(* of a line, reading raises.  Times and byte counts are left out.         *)
(***************************************************************************)
EXTENDS Integers, Sequences, SequencesExt, FiniteSetsExt

CONSTANTS
  SessionLengths,        \* n_values
  CheckpointIntervals    \* k_values

\* Of the constants; MC modules state them (ASSUME) for their instances.
CostAssumption ==
  SessionLengths \subseteq Nat \ {0} /\ CheckpointIntervals \subseteq Nat \ {0}

VARIABLES
  n, k,
  checkpoint_record,     \* its memory, next line, and whether its tag fits
  history_file, chain_file,
  rows,                  \* the measurements written
  measuring,             \* the measurement under way, or Nothing
  pc,                    \* "prepare", "measure", "raised" or "exit"
  exit_code

vars == <<n, k, checkpoint_record, history_file, chain_file, rows, measuring,
          pc, exit_code>>
files == <<n, k, checkpoint_record, history_file, chain_file>>

Nothing == [protocol |-> "none"]

History(i) == [j \in 1..i |-> j]
checkpoint_seq == n - k
offsets == {1, k \div 2, k - 1}

-----------------------------------------------------------------------------
(* prepare_history. *)

\* "of" names what differs from this run: nothing, or one of the identities.
Line(seq) == [seq |-> seq, of |-> "this", authentic |-> TRUE, whole |-> TRUE,
              payload |-> seq, prev |-> History(seq - 1), mem |-> History(seq)]

prepared_lines == [seq \in 1..n |-> Line(seq)]

Init ==
  /\ n \in SessionLengths /\ k \in CheckpointIntervals
  /\ checkpoint_record = [memory |-> <<>>, next |-> 0, authentic |-> TRUE]
  /\ history_file = <<>> /\ chain_file = <<>>
  /\ rows = <<>> /\ measuring = Nothing
  /\ pc = "prepare" /\ exit_code = 0

\* An interval that does not fit the session is skipped, and so is its file.
Skip ==
  /\ pc = "prepare" /\ k >= n
  /\ pc' = "exit"
  /\ UNCHANGED <<files, rows, measuring, exit_code>>

prepare_history ==
  /\ pc = "prepare" /\ k < n
  /\ checkpoint_record' = [memory |-> History(checkpoint_seq),
                           next |-> checkpoint_seq + 1, authentic |-> TRUE]
  /\ history_file' = prepared_lines /\ chain_file' = prepared_lines
  /\ pc' = "edit"
  /\ UNCHANGED <<n, k, rows, measuring, exit_code>>

Edits(lines) ==
  {lines}
    \union {RemoveAt(lines, i) : i \in DOMAIN lines}
    \union {InsertAt(lines, i, lines[i]) : i \in DOMAIN lines}
    \union {SubSeq(lines, 1, i) : i \in 0..(Len(lines) - 1)}
    \union {[lines EXCEPT ![i] = lines[j], ![j] = lines[i]] :
              i \in DOMAIN lines, j \in DOMAIN lines}
    \union {[lines EXCEPT ![i].authentic = FALSE] : i \in DOMAIN lines}
    \union {[lines EXCEPT ![i].whole = FALSE] : i \in DOMAIN lines}
    \union {[lines EXCEPT ![i].of = other, ![i].prev = <<0>>, ![i].mem = <<0>>] :
              i \in DOMAIN lines, other \in {"session", "sender", "epoch"}}

\* Not in the program: what may have become of the files and the checkpoint.
Edit ==
  /\ pc = "edit"
  /\ \/ history_file' \in Edits(history_file) /\ UNCHANGED chain_file
     \/ chain_file' \in Edits(chain_file) /\ UNCHANGED history_file
  /\ \E fits \in BOOLEAN :
       checkpoint_record' = [checkpoint_record EXCEPT !.authentic = fits]
  /\ pc' = "measure"
  /\ UNCHANGED <<n, k, rows, measuring, exit_code>>

-----------------------------------------------------------------------------
(* The measurements, in main's order: for each offset both protocols. *)

Protocols == <<"gmcp_r", "authenticated_hash_chain">>

\* The offset and the protocol of the i-th row.
Measured(i) ==
  [offset |-> SetToSortSeq(offsets, <)[(i + 1) \div 2],
   protocol |-> Protocols[2 - (i % 2)]]

Measurement(offset, protocol) ==
  [protocol |-> protocol, offset |-> offset,
   target_seq |-> checkpoint_seq + offset,
   state |-> IF protocol = "gmcp_r" THEN checkpoint_record.memory ELSE <<>>,
   replay_count |-> 0, records_scanned |-> 0, auth_records_verified |-> 0,
   recovery_valid |-> FALSE, failure_reason |-> ""]

\* Mutant: the checkpoint's tag is not verified.
MeasureGmcpTrusting ==
  /\ pc = "measure" /\ measuring = Nothing
  /\ Len(rows) < 2 * Cardinality(offsets)
  /\ LET row == Measured(Len(rows) + 1)
     IN /\ row.protocol = "gmcp_r"
        /\ measuring' = [Measurement(row.offset, row.protocol)
                           EXCEPT !.auth_records_verified = 1]
  /\ UNCHANGED <<files, rows, pc, exit_code>>
MeasureGmcp ==
  /\ pc = "measure" /\ measuring = Nothing
  /\ Len(rows) < 2 * Cardinality(offsets)
  /\ LET row == Measured(Len(rows) + 1)
         m == Measurement(row.offset, row.protocol)
     IN /\ row.protocol = "gmcp_r"
        /\ IF checkpoint_record.authentic
           THEN /\ measuring' = [m EXCEPT !.auth_records_verified = 1]
                /\ UNCHANGED rows
           ELSE /\ rows' = Append(rows, [m EXCEPT !.auth_records_verified = 1,
                               !.state = <<>>,
                               !.failure_reason = "checkpoint_auth_failed"])
                /\ UNCHANGED measuring
  /\ UNCHANGED <<files, pc, exit_code>>

MeasureChain ==
  /\ pc = "measure" /\ measuring = Nothing
  /\ Len(rows) < 2 * Cardinality(offsets)
  /\ LET row == Measured(Len(rows) + 1)
     IN /\ row.protocol = "authenticated_hash_chain"
        /\ measuring' = Measurement(row.offset, row.protocol)
  /\ UNCHANGED <<files, rows, pc, exit_code>>

Gmcp == measuring.protocol = "gmcp_r"
Lines == IF Gmcp THEN history_file ELSE chain_file
FirstLine == IF Gmcp THEN checkpoint_record.next ELSE 1
Wanted == IF Gmcp THEN measuring.offset ELSE measuring.target_seq
Position == FirstLine + measuring.records_scanned
ExpectedSeq == IF Gmcp THEN checkpoint_seq + measuring.replay_count + 1
               ELSE measuring.replay_count + 1

Reading == pc = "measure" /\ measuring # Nothing
             /\ measuring.records_scanned < Wanted

Reasons(failures) ==
  IF failures = <<>> THEN "" ELSE failures[1]

\* Mutant: the line's number and the memory before it are not compared.
GmcpReasonUnordered(line) ==
  Reasons(SelectSeq(
    <<IF line.authentic THEN "" ELSE "record_auth_failed",
      IF line.of # "session" THEN "" ELSE "session_id_mismatch",
      IF line.of # "sender" THEN "" ELSE "sender_id_mismatch",
      IF line.of # "epoch" THEN "" ELSE "epoch_mismatch">>,
    LAMBDA failure : failure # ""))
\* The checks of one GMCP-R record, the first failure counting.
GmcpReason(line) ==
  Reasons(SelectSeq(
    <<IF line.authentic THEN "" ELSE "record_auth_failed",
      IF line.of # "session" THEN "" ELSE "session_id_mismatch",
      IF line.of # "sender" THEN "" ELSE "sender_id_mismatch",
      IF line.of # "epoch" THEN "" ELSE "epoch_mismatch",
      IF line.seq = ExpectedSeq THEN "" ELSE "seq_continuity_failed",
      IF line.prev = measuring.state THEN "" ELSE "chain_continuity_failed",
      IF line.payload = line.seq THEN "" ELSE "payload_hash_failed",
      IF line.mem = Append(measuring.state, line.payload)
      THEN "" ELSE "stored_mem_failed">>,
    LAMBDA failure : failure # ""))

\* And of one chain record: the number first, then verify_packet.
ChainReason(line) ==
  Reasons(SelectSeq(
    <<IF line.seq = ExpectedSeq THEN "" ELSE "seq_continuity_failed",
      IF line.authentic THEN "" ELSE "auth_tag mismatch",
      IF line.of # "session" THEN "" ELSE "session_id mismatch",
      IF line.of # "sender" THEN "" ELSE "sender_id mismatch",
      IF line.of # "epoch" THEN "" ELSE "epoch mismatch",
      IF line.payload = line.seq THEN "" ELSE "payload_hash mismatch",
      IF line.mem = Append(line.prev, line.payload)
      THEN "" ELSE "chain_hash mismatch",
      IF line.prev = measuring.state THEN "" ELSE "prev_hash mismatch">>,
    LAMBDA failure : failure # ""))

Reason(line) == IF Gmcp THEN GmcpReason(line) ELSE ChainReason(line)

Fail(m, reason) ==
  /\ rows' = Append(rows, [m EXCEPT !.failure_reason = reason])
  /\ measuring' = Nothing
  /\ UNCHANGED <<files, pc, exit_code>>

EndOfFile ==
  /\ Reading /\ Position > Len(Lines)
  /\ Fail(measuring, "unexpected_eof")

Replay ==
  /\ Reading /\ Position <= Len(Lines)
  /\ LET line == Lines[Position]
     IN /\ line.whole /\ Reason(line) = ""
        /\ measuring' = [measuring EXCEPT !.records_scanned = @ + 1,
                           !.auth_records_verified = @ + 1,
                           !.replay_count = @ + 1,
                           !.state = Append(@, line.payload)]
  /\ UNCHANGED <<files, rows, pc, exit_code>>

\* The first record that fails ends the measurement.
BadRecord ==
  /\ Reading /\ Position <= Len(Lines)
  /\ LET line == Lines[Position]
     IN /\ line.whole /\ Reason(line) # ""
        /\ Fail([measuring EXCEPT !.records_scanned = @ + 1,
                   !.auth_records_verified = @ + 1], Reason(line))

\* A line cut short, or a seek into the middle of one, is not JSON: nothing
\* catches what json.loads raises, and the program ends with its traceback.
Raise ==
  /\ Reading /\ Position <= Len(Lines)
  /\ \/ ~Lines[Position].whole
     \/ Gmcp /\ measuring.records_scanned = 0
          /\ SubSeq(Lines, 1, checkpoint_seq)
               # SubSeq(prepared_lines, 1, checkpoint_seq)
  /\ pc' = "raised" /\ exit_code' = 1
  /\ UNCHANGED <<files, rows, measuring>>

Complete ==
  /\ pc = "measure" /\ measuring # Nothing /\ measuring.records_scanned = Wanted
  /\ rows' = Append(rows, [measuring EXCEPT !.recovery_valid =
       /\ measuring.target_seq \in 1..n
       /\ measuring.state = History(measuring.target_seq)
       /\ measuring.replay_count = Wanted])
  /\ measuring' = Nothing
  /\ UNCHANGED <<files, pc, exit_code>>

Invalid == {i \in DOMAIN rows : ~rows[i].recovery_valid}

\* Mutant: only the last measurement decides.
ExitLast ==
  /\ pc = "measure" /\ Len(rows) = 2 * Cardinality(offsets)
  /\ exit_code' = IF Len(rows) \in Invalid THEN 1 ELSE 0
  /\ pc' = "exit"
  /\ UNCHANGED <<files, rows, measuring>>
Exit ==
  /\ pc = "measure" /\ Len(rows) = 2 * Cardinality(offsets)
  /\ exit_code' = IF Invalid # {} THEN 1 ELSE 0
  /\ pc' = "exit"
  /\ UNCHANGED <<files, rows, measuring>>

Ended == pc \in {"raised", "exit"} /\ UNCHANGED vars

Next == Skip \/ prepare_history \/ Edit \/ MeasureGmcp \/ MeasureChain
          \/ EndOfFile \/ Replay \/ BadRecord \/ Raise \/ Complete \/ Exit \/ Ended
Spec == Init /\ [][Next]_vars

-----------------------------------------------------------------------------
(* Properties. *)

\* TypeOK: the counters of a measurement keep within what it may read: a line
\* after the target is never read, and at most one line read is not replayed.
TypeOK ==
  /\ pc \in {"prepare", "edit", "measure", "raised", "exit"}
  /\ exit_code \in 0..1
  /\ \A m \in Range(rows) \union ({measuring} \ {Nothing}) :
       /\ m.records_scanned <= IF m.protocol = "gmcp_r" THEN m.offset
                               ELSE m.target_seq
       /\ m.records_scanned - m.replay_count \in 0..1
       /\ m.target_seq \in 1..n

\* The lines a measurement has to read.
Window(m) ==
  IF m.protocol = "gmcp_r" THEN (checkpoint_seq + 1)..m.target_seq
  ELSE 1..m.target_seq

Intact(m) ==
  LET file == IF m.protocol = "gmcp_r" THEN history_file ELSE chain_file
  IN /\ m.protocol = "gmcp_r" => checkpoint_record.authentic
     /\ \A i \in Window(m) : i \in DOMAIN file /\ file[i] = prepared_lines[i]

\* ValidIffIntact: a recovery counts as valid exactly when every line it needs
\* stands where it was written; then it ends in the state of its target.
ValidIffIntact ==
  \A m \in Range(rows) :
    /\ m.recovery_valid <=> Intact(m)
    /\ m.recovery_valid => m.state = History(m.target_seq)

\* VerifiedIsHistory: even a recovery that fails has only rebuilt a state the
\* session went through.
VerifiedIsHistory ==
  \A m \in Range(rows) \union ({measuring} \ {Nothing}) :
    m.state = History(Len(m.state))

\* ExitReports: the exit code is zero exactly if every measurement is valid,
\* and an invalid one says why.
ExitReports ==
  /\ pc = "exit" => (exit_code = 0 <=> Invalid = {})
  /\ \A i \in Invalid : rows[i].failure_reason # ""
=============================================================================
