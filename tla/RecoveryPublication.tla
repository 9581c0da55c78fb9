------------------------ MODULE RecoveryPublication ------------------------
(***************************************************************************)
(* The main program of run_recovery_validation.py: its arguments, the      *)
(* guards on the names of its output, the temporary file its rows go to,   *)
(* the check of what was written, the publication under the final name and *)
(* what an exception leaves behind.  Several runners may share a directory *)
(* and a port; a --server-only process may hold the port.                  *)
(*                                                                         *)
(* A name refers to a file, not to its content: a runner whose temporary   *)
(* file was renamed or linked goes on writing into the same file.  A file  *)
(* is known by the runner that created it.  Whether a row passes the gate  *)
(* is RecoveryValidation's subject; here it passes or it does not.         *)
(***************************************************************************)
EXTENDS Integers, Sequences, SequencesExt, FiniteSetsExt

CONSTANTS
  Runners,           \* the processes; each runs main once
  None,              \* no override, no file, no holder
  Old,               \* a file an earlier run left
  Invocations,       \* the assignments of arguments to runners
  PROTOCOLS, DISCONNECT_POINTS, DISCONNECT_TYPES, REPEAT_COUNT,
  FIXED_MESSAGE_COUNT, FIXED_PAYLOAD_SIZE,
  Leftovers,         \* whether earlier runs may have left files
  MaxCrashes,        \* bound: processes that are killed
  MaxInterrupts      \* bound: exceptions raised from outside the program's control

\* Of the constants; MC modules state them (ASSUME) for their instances.
PublicationAssumption ==
  /\ None \notin Runners /\ Old \notin Runners /\ Old # None /\ None \notin {0, 1, 2}
  /\ REPEAT_COUNT \in Nat \ {0} /\ FIXED_MESSAGE_COUNT \in Nat \ {0}
  /\ FIXED_PAYLOAD_SIZE \in Nat \ {0}
  /\ Leftovers \in BOOLEAN /\ MaxCrashes \in Nat /\ MaxInterrupts \in Nat

VARIABLES
  args, pc, code,    \* of each runner: arguments, where it is, exit code
  final, tmp,        \* mode -> the file of that name, or None
  failed,            \* <<mode, attempt>> -> the file of that name, or None
  conflicts,         \* the files under names made unique
  rows,              \* file -> the rows it holds
  server,            \* runner -> whether its server listens
  crashes, interrupts

names == <<final, tmp, failed, conflicts>>
vars == <<args, pc, code, names, rows, server, crashes, interrupts>>

Modes == {"formal", "quick", "development"}
Attempts == {1, 2, 3}

\* What the parser makes of the arguments; the defaults are the module's lists.
ArgumentsAssumption ==
  /\ PROTOCOLS \in Seq(STRING) /\ DISCONNECT_TYPES \in Seq(STRING)
  /\ DISCONNECT_POINTS \in Seq(Int) /\ Len(DISCONNECT_POINTS) >= 2
  /\ \A a \in Invocations, r \in Runners :
       /\ a[r].mode \in Modes
       /\ a[r].protocols # None => a[r].protocols \in Seq(STRING)
       /\ a[r].points # None => a[r].points \in Seq(Int)
       /\ a[r].types # None => a[r].types \in Seq(STRING)
       /\ a[r].repeats # None => a[r].repeats \in Int

-----------------------------------------------------------------------------
(* The arguments. *)

Given(value, default) == IF value = None THEN default ELSE value

IsUnique(list) == list # <<>> /\ Len(list) = Cardinality(ToSet(list))

\* resolve_mode_config for the locked modes: no override is accepted.
Locked(a) ==
  /\ a.protocols = None /\ a.points = None /\ a.types = None /\ a.repeats = None
  /\ a.message_count = FIXED_MESSAGE_COUNT /\ a.payload_size = FIXED_PAYLOAD_SIZE

Matrix(a) ==
  CASE a.mode = "formal" ->
         [protocols |-> PROTOCOLS, points |-> DISCONNECT_POINTS,
          types |-> DISCONNECT_TYPES, repeats |-> REPEAT_COUNT]
    [] a.mode = "quick" ->
         [protocols |-> PROTOCOLS, points |-> SubSeq(DISCONNECT_POINTS, 1, 2),
          types |-> DISCONNECT_TYPES, repeats |-> 1]
    [] a.mode = "development" ->
         [protocols |-> Given(a.protocols, PROTOCOLS),
          points |-> Given(a.points, DISCONNECT_POINTS),
          types |-> Given(a.types, DISCONNECT_TYPES),
          repeats |-> Given(a.repeats, REPEAT_COUNT)]

AcceptsRepeated(a) ==  \* Mutant
  LET m == Matrix(a)
  IN /\ a.mode \in {"formal", "quick"} => Locked(a)
     /\ m.protocols # <<>> /\ ToSet(m.protocols) \subseteq ToSet(PROTOCOLS)
     /\ IsUnique(m.types) /\ m.repeats > 0 /\ a.message_count > 0 /\ IsUnique(m.points)
Accepts(a) ==
  LET m == Matrix(a)
  IN /\ a.mode \in {"formal", "quick"} => Locked(a)
     /\ IsUnique(m.protocols) /\ ToSet(m.protocols) \subseteq ToSet(PROTOCOLS)
     /\ IsUnique(m.types) /\ ToSet(m.types) \subseteq ToSet(DISCONNECT_TYPES)
     /\ m.repeats > 0 /\ a.message_count > 0 /\ a.payload_size > 0
     /\ IsUnique(m.points)
     /\ \A p \in ToSet(m.points) : 0 < p /\ p < a.message_count

\* main's four loops, the last one fastest: the cell of the n-th row.
Cell(a, n) ==
  LET m == Matrix(a)
      r == m.repeats
      t == r * Len(m.types)
      p == t * Len(m.points)
      i == n - 1
  IN <<m.protocols[i \div p + 1], m.points[(i % p) \div t + 1],
       m.types[(i % t) \div r + 1], (i % r) + 1>>

Total(a) ==
  LET m == Matrix(a) IN Len(m.protocols) * Len(m.points) * Len(m.types) * m.repeats

Expected(a) ==
  LET m == Matrix(a)
  IN ToSet(m.protocols) \X ToSet(m.points) \X ToSet(m.types) \X (1..m.repeats)

\* validate_recovery_rows over a file's rows.
GateLoose(a, rs) == Len(rs) = Total(a)  \* Mutant
Gate(a, rs) ==
  /\ Len(rs) = Cardinality(Expected(a))
  /\ {rs[i].cell : i \in DOMAIN rs} = Expected(a)
  /\ \A i \in DOMAIN rs : rs[i].ok

-----------------------------------------------------------------------------

\* The directory is absolute, can be made and written, and is outside Git.
validate_run_dir(a) == a.dir = "usable"

Mode(r) == args[r].mode
Artifact(r) == <<Mode(r), args[r].attempt>>

Init ==
  /\ args \in Invocations
  /\ pc = [r \in Runners |-> "start"] /\ code = [r \in Runners |-> None]
  /\ final \in [Modes -> IF Leftovers THEN {None, Old} ELSE {None}]
  /\ tmp = [m \in Modes |-> None]
  /\ failed \in [Modes \X Attempts -> IF Leftovers THEN {None, Old} ELSE {None}]
  /\ \A x, y \in Modes \X Attempts : failed[x] = failed[y]
  /\ \A x, y \in Modes : final[x] = final[y]
  /\ conflicts = {} /\ rows = [f \in Runners |-> <<>>]
  /\ server = [r \in Runners |-> FALSE] /\ crashes = 0 /\ interrupts = 0

Goto(r, where) == pc' = [pc EXCEPT ![r] = where] /\ UNCHANGED code
Exit(r, c) ==
  /\ pc' = [pc EXCEPT ![r] = "exited"] /\ code' = [code EXCEPT ![r] = c]

files == <<names, rows>>
faults == <<crashes, interrupts>>

\* Two sockets cannot listen on one port; port 0 is always free.
PortFree(r) ==
  args[r].port = "any" \/ \A q \in Runners : server[q] => args[q].port = "any"

\* A --server-only process listens until a signal comes.
ServerOnly(r) ==
  /\ pc[r] = "start" /\ args[r].server_only
  /\ \/ PortFree(r) /\ server' = [server EXCEPT ![r] = TRUE] /\ Goto(r, "serving")
     \/ ~PortFree(r) /\ Exit(r, 1) /\ UNCHANGED server
  /\ UNCHANGED <<args, files, faults>>

Signalled(r) ==
  /\ pc[r] = "serving" /\ server' = [server EXCEPT ![r] = FALSE]
  /\ Exit(r, 0) /\ UNCHANGED <<args, files, faults>>

\* The parser's errors, resolve_mode_config, validate_run_dir.
resolve_mode_config(r) ==
  /\ pc[r] = "start" /\ ~args[r].server_only
  /\ IF Accepts(args[r]) /\ validate_run_dir(args[r]) /\ args[r].attempt \in Attempts
       THEN Goto(r, "guard_final") ELSE Exit(r, 2)
  /\ UNCHANGED <<args, files, server, faults>>

\* enforce_startup_output_guards: two tests, one after the other.
GuardFinal(r) ==
  /\ pc[r] = "guard_final"
  /\ IF /\ Mode(r) \in {"quick", "formal"} \/ args[r].no_overwrite
        /\ final[Mode(r)] # None
       THEN Exit(r, 1) ELSE Goto(r, "guard_tmp")
  /\ UNCHANGED <<args, files, server, faults>>

\* The second guard, and then the provenance of the client's worktree.
GuardTmp(r) ==
  /\ pc[r] = "guard_tmp"
  /\ IF tmp[Mode(r)] # None \/ args[r].dirty THEN Exit(r, 1) ELSE Goto(r, "bind")
  /\ UNCHANGED <<args, files, server, faults>>

-----------------------------------------------------------------------------
(* The try block: every failure goes to "except". *)

StartServer(r) ==
  /\ pc[r] = "bind"
  /\ IF PortFree(r) THEN server' = [server EXCEPT ![r] = TRUE] /\ Goto(r, "open")
                    ELSE Goto(r, "except") /\ UNCHANGED server
  /\ UNCHANGED <<args, files, faults>>

\* open(tmp_csv, "x").
OpenTmpTruncating(r) ==  \* Mutant
  /\ pc[r] = "open" /\ Goto(r, "rows")
  /\ tmp' = [tmp EXCEPT ![Mode(r)] = r]
  /\ UNCHANGED <<args, final, failed, conflicts, rows, server, faults>>
OpenTmp(r) ==
  /\ pc[r] = "open"
  /\ IF tmp[Mode(r)] = None
       THEN Goto(r, "rows") /\ tmp' = [tmp EXCEPT ![Mode(r)] = r]
       ELSE Goto(r, "except") /\ UNCHANGED tmp
  /\ UNCHANGED <<args, final, failed, conflicts, rows, server, faults>>

\* One experiment; its row is flushed.
WriteRow(r) ==
  /\ pc[r] = "rows" /\ Len(rows[r]) < Total(args[r])
  /\ \E ok \in BOOLEAN :
       rows' = [rows EXCEPT ![r] =
                  Append(@, [cell |-> Cell(args[r], Len(@) + 1), ok |-> ok])]
  /\ UNCHANGED <<args, pc, code, names, server, faults>>

\* fsync, close, srv.stop().
StopServer(r) ==
  /\ pc[r] = "rows" /\ Len(rows[r]) = Total(args[r])
  /\ server' = [server EXCEPT ![r] = FALSE]
  /\ Goto(r, "validate") /\ UNCHANGED <<args, files, faults>>

\* The file is read back by its name.
Validate(r) ==
  LET f == tmp[Mode(r)]
  IN /\ pc[r] = "validate"
     /\ IF f # None /\ Gate(args[r], rows[f]) THEN Goto(r, "link") ELSE Goto(r, "except")
     /\ UNCHANGED <<args, files, server, faults>>

\* publish_tmp_no_clobber.
LinkReplacing(r) ==  \* Mutant
  /\ pc[r] = "link" /\ tmp[Mode(r)] # None
  /\ final' = [final EXCEPT ![Mode(r)] = tmp[Mode(r)]] /\ Goto(r, "unlink")
  /\ UNCHANGED <<args, tmp, failed, conflicts, rows, server, faults>>
Link(r) ==
  /\ pc[r] = "link"
  /\ IF tmp[Mode(r)] # None /\ final[Mode(r)] = None
       THEN final' = [final EXCEPT ![Mode(r)] = tmp[Mode(r)]] /\ Goto(r, "unlink")
       ELSE Goto(r, "except") /\ UNCHANGED final
  /\ UNCHANGED <<args, tmp, failed, conflicts, rows, server, faults>>

Unlink(r) ==
  /\ pc[r] = "unlink"
  /\ IF tmp[Mode(r)] # None
       THEN tmp' = [tmp EXCEPT ![Mode(r)] = None] /\ Exit(r, 0)
       ELSE Goto(r, "except") /\ UNCHANGED tmp
  /\ UNCHANGED <<args, final, failed, conflicts, rows, server, faults>>

\* An experiment or a call raises, or the user interrupts the program.
Raise(r) ==
  /\ pc[r] \in {"bind", "open", "rows", "validate", "link", "unlink"}
  /\ interrupts < MaxInterrupts /\ interrupts' = interrupts + 1
  /\ Goto(r, "except") /\ UNCHANGED <<args, files, server, crashes>>

-----------------------------------------------------------------------------
(* The except block. *)

ExceptListening(r) ==  \* Mutant
  /\ pc[r] = "except" /\ UNCHANGED server
  /\ IF tmp[Mode(r)] # None THEN Goto(r, "preserve") ELSE Exit(r, 1)
  /\ UNCHANGED <<args, files, faults>>
Except(r) ==
  /\ pc[r] = "except" /\ server' = [server EXCEPT ![r] = FALSE]
  /\ IF tmp[Mode(r)] # None THEN Goto(r, "preserve") ELSE Exit(r, 1)
  /\ UNCHANGED <<args, files, faults>>

\* preserve_failed_artifact looks whether its target exists ...
PickArtifactPlain(r) ==  \* Mutant
  /\ pc[r] = "preserve" /\ Goto(r, "rename_failed")
  /\ UNCHANGED <<args, files, server, faults>>
PickArtifact(r) ==
  /\ pc[r] = "preserve"
  /\ Goto(r, IF failed[Artifact(r)] = None THEN "rename_failed" ELSE "rename_conflict")
  /\ UNCHANGED <<args, files, server, faults>>

\* ... and renames what the temporary name refers to by then.  A rename
\* takes the place of an existing target; one without a source is caught.
PreserveAgain(r) ==  \* Mutant
  /\ pc[r] \in {"rename_failed", "rename_conflict"} /\ Goto(r, "preserve")
  /\ UNCHANGED <<args, files, server, faults>>
Preserve(r) ==
  /\ pc[r] \in {"rename_failed", "rename_conflict"} /\ Exit(r, 1)
  /\ IF tmp[Mode(r)] = None
       THEN UNCHANGED <<tmp, failed, conflicts>>
       ELSE /\ tmp' = [tmp EXCEPT ![Mode(r)] = None]
            /\ IF pc[r] = "rename_failed"
                 THEN /\ failed' = [failed EXCEPT ![Artifact(r)] = tmp[Mode(r)]]
                      /\ UNCHANGED conflicts
                 ELSE /\ conflicts' = conflicts \union {tmp[Mode(r)]}
                      /\ UNCHANGED failed
  /\ UNCHANGED <<args, final, rows, server, faults>>

Crash(r) ==
  /\ pc[r] \notin {"start", "exited", "dead"} /\ crashes < MaxCrashes
  /\ pc' = [pc EXCEPT ![r] = "dead"] /\ crashes' = crashes + 1
  /\ server' = [server EXCEPT ![r] = FALSE]
  /\ UNCHANGED <<args, code, files, interrupts>>

Step(r) ==
  \/ ServerOnly(r) \/ resolve_mode_config(r) \/ GuardFinal(r) \/ GuardTmp(r)
  \/ StartServer(r) \/ OpenTmp(r) \/ WriteRow(r) \/ StopServer(r)
  \/ Validate(r) \/ Link(r) \/ Unlink(r)
  \/ Except(r) \/ PickArtifact(r) \/ Preserve(r)

Ended == \A r \in Runners : pc[r] \in {"exited", "dead", "serving"}
Done == Ended /\ UNCHANGED vars

Next ==
  \/ \E r \in Runners : Step(r) \/ Signalled(r) \/ Raise(r) \/ Crash(r)
  \/ Done

Spec == Init /\ [][Next]_vars

-----------------------------------------------------------------------------
(* Properties. *)

Files == Runners \union {Old}

\* TypeOK: the variables stay in their domains.
TypeOK ==
  /\ final \in [Modes -> Files \union {None}] /\ tmp \in [Modes -> Runners \union {None}]
  /\ failed \in [Modes \X Attempts -> Files \union {None}] /\ conflicts \subseteq Runners
  /\ code \in [Runners -> {None, 0, 1, 2}] /\ server \in [Runners -> BOOLEAN]
  /\ \A r \in Runners : /\ pc[r] = "exited" <=> code[r] # None
                        /\ rows[r] # <<>> => Len(rows[r]) <= Total(args[r])

\* FinalIsWhole: what a final name refers to is the complete matrix of the
\* runner that wrote it, every row valid (main, validate_recovery_rows):
\* no reader ever finds a part of a run under that name.
Complete(a, rs) ==
  rs = [n \in 1..Total(a) |-> [cell |-> Cell(a, n), ok |-> TRUE]]
FinalIsWhole ==
  \A m \in Modes : final[m] \in Runners => Complete(args[final[m]], rows[final[m]])

\* AcceptedRunsPublish: whatever arguments are accepted, a run all of whose
\* rows are valid passes the gate: its loops produce exactly the matrix the
\* gate expects (resolve_mode_config, main, validate_recovery_rows).
AcceptedRunsPublish ==
  \A r \in Runners :
     /\ pc[r] \notin {"start", "exited", "dead", "serving"}
     /\ Len(rows[r]) = Total(args[r]) /\ \A i \in DOMAIN rows[r] : rows[r][i].ok
     => Gate(args[r], rows[r])

\* FinalImmutable: once published, a final name never refers to anything
\* else, whoever races for it (publish_tmp_no_clobber, :161).
FinalImmutable == \A m \in Modes : final[m] # None => final'[m] = final[m]

\* NothingLost: rows that were written stay reachable under some name,
\* whether the run succeeded, failed or was killed (main, and
\* preserve_failed_artifact, :167).
Named(f) ==
  \/ \E m \in Modes : f \in {final[m], tmp[m]}
  \/ \E x \in Modes \X Attempts : failed[x] = f
  \/ f \in conflicts
NothingLost == \A r \in Runners : rows[r] # <<>> => Named(r)

\* ArtifactsStay: no failed artifact takes the place of another
\* (preserve_failed_artifact).
ArtifactsStay ==
  \A x \in Modes \X Attempts : failed[x] # None => failed'[x] = failed[x]

\* SuccessIsPublished: a runner that ends well has published its own file.
SuccessIsPublished ==
  \A r \in Runners : code[r] = 0 /\ ~args[r].server_only => final[Mode(r)] = r

\* ServerStopped: however a program ends, its server no longer listens.
ServerStopped ==
  \A r \in Runners : server[r] => pc[r] \notin {"exited", "dead", "validate", "link", "unlink"}

=============================================================================
