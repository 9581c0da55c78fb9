-------------------------- MODULE ResourceMonitor --------------------------
(***************************************************************************)
(* monitor_resources.py: a thread samples a process at intervals into      *)
(* parallel lists, one append after the other, while the thread that owns  *)
(* the monitor reads them, stops it (waiting for the thread no longer than *)
(* three intervals), takes a last sample itself and sums up.  It may be    *)
(* started again, and a thread that stop gave up on then goes on beside    *)
(* the new one.  Any read of the sampled process may raise, because it has *)
(* ended or denies access.                                                 *)
(*                                                                         *)
(* A sample is kept as its number, in every list: lists are aligned when   *)
(* the same position holds the same number.  get_stats and get_timeseries  *)
(* only read the lists.                                                    *)
(***************************************************************************)
EXTENDS Integers, Sequences, FiniteSets

CONSTANTS
  Samplers,          \* the threads start may make, one per start
  Owner,             \* the thread that calls start and stop
  None,
  MaxSamples,        \* bound: samples taken
  MaxUnread          \* bound: samples in which a read raises

\* Of the constants; MC modules state them (ASSUME) for their instances.
MonitorAssumption ==
  Owner \notin Samplers /\ None \notin Samplers /\ {MaxSamples, MaxUnread} \subseteq Nat

Threads == Samplers \union {Owner}

VARIABLES
  running,           \* _running
  thread,            \* _thread
  timestamps, system_cpu, cpu, rss, num_threads, sent,  \* the lists (vms is like rss)
  pc,                \* where each thread is in its sample, or in its calls
  tick,              \* the sample each thread is taking
  ticks,             \* samples begun
  unread,            \* samples for which zeros stand in
  abandoned          \* threads a join gave up on

lists == <<timestamps, system_cpu, cpu, rss, num_threads, sent>>
control == <<running, thread, abandoned>>
vars == <<control, lists, pc, tick, ticks, unread>>

Init ==
  /\ running = FALSE /\ thread = None /\ abandoned = {} /\ unread = {}
  /\ timestamps = <<>> /\ system_cpu = <<>> /\ cpu = <<>>
  /\ rss = <<>> /\ num_threads = <<>> /\ sent = <<>>
  /\ pc = [t \in Threads |-> IF t = Owner THEN "idle" ELSE "unborn"]
  /\ tick = [t \in Threads |-> 0] /\ ticks = 0

Goto(t, where) == pc' = [pc EXCEPT ![t] = where]

\* _sample_once is called.
EnterSample(t) ==
  /\ ticks < MaxSamples /\ ticks' = ticks + 1
  /\ tick' = [tick EXCEPT ![t] = ticks'] /\ Goto(t, "time")

-----------------------------------------------------------------------------
(* The sampling thread looks at _running between samples. *)

\* Bound: one sample is left for stop.
BeginSample(t) ==
  /\ t \in Samplers /\ pc[t] = "loop" /\ running
  /\ ticks < MaxSamples - 1 /\ EnterSample(t)
  /\ UNCHANGED <<control, lists, unread>>

EndThreadAgain(t) ==  \* Mutant
  /\ t \in Samplers /\ pc[t] = "loop" /\ ~running /\ UNCHANGED vars
EndThread(t) ==
  /\ t \in Samplers /\ pc[t] = "loop" /\ ~running /\ Goto(t, "ended")
  /\ UNCHANGED <<control, lists, tick, ticks, unread>>

-----------------------------------------------------------------------------
(* _sample_once, by the sampling thread or by stop. *)

Read(t, here, next) ==
  pc[t] = here /\ Goto(t, next) /\ UNCHANGED <<control, tick, ticks>>

SampleTime(t) ==
  /\ Read(t, "time", "system") /\ timestamps' = Append(timestamps, tick[t])
  /\ UNCHANGED <<system_cpu, cpu, rss, num_threads, sent, unread>>

SampleSystem(t) ==
  /\ Read(t, "system", "cpu") /\ system_cpu' = Append(system_cpu, tick[t])
  /\ UNCHANGED <<timestamps, cpu, rss, num_threads, sent, unread>>

SampleCPU(t) ==
  /\ Read(t, "cpu", "memory") /\ cpu' = Append(cpu, tick[t])
  /\ UNCHANGED <<timestamps, system_cpu, rss, num_threads, sent, unread>>

SampleMemory(t) ==
  /\ Read(t, "memory", "threads") /\ rss' = Append(rss, tick[t])
  /\ UNCHANGED <<timestamps, system_cpu, cpu, num_threads, sent, unread>>

SampleThreads(t) ==
  /\ Read(t, "threads", "net") /\ num_threads' = Append(num_threads, tick[t])
  /\ UNCHANGED <<timestamps, system_cpu, cpu, rss, sent, unread>>

\* Mutant: the handler leaves the number of threads out.
UnreadableShort(t) ==
  /\ \E here \in {"cpu", "memory", "threads"} : Read(t, here, "net")
  /\ cpu' = Append(cpu, tick[t]) /\ rss' = Append(rss, tick[t])
  /\ unread' = unread \union {tick[t]}
  /\ UNCHANGED <<timestamps, system_cpu, num_threads, sent>>

\* A read of the process raises, or there was none to read from the start:
\* zeros go into all its lists, beside what has been read of it already.
Unreadable(t) ==
  /\ Cardinality(unread) < MaxUnread
  /\ \E here \in {"cpu", "memory", "threads"} : Read(t, here, "net")
  /\ cpu' = Append(cpu, tick[t]) /\ rss' = Append(rss, tick[t])
  /\ num_threads' = Append(num_threads, tick[t])
  /\ unread' = unread \union {tick[t]}
  /\ UNCHANGED <<timestamps, system_cpu, sent>>

SampleNet(t) ==
  /\ Read(t, "net", IF t = Owner THEN "stopped" ELSE "loop")
  /\ sent' = Append(sent, tick[t])
  /\ UNCHANGED <<timestamps, system_cpu, cpu, rss, num_threads, unread>>

Sample(t) ==
  \/ SampleTime(t) \/ SampleSystem(t) \/ SampleCPU(t) \/ SampleMemory(t)
  \/ SampleThreads(t) \/ Unreadable(t) \/ SampleNet(t)

-----------------------------------------------------------------------------
(* The owner. *)

\* Bound: there is a sample left for the stop that follows.
start ==
  /\ pc[Owner] \in {"idle", "stopped"} /\ ~running /\ ticks < MaxSamples
  /\ \E t \in Samplers : pc[t] = "unborn" /\ thread' = t
                         /\ pc' = [pc EXCEPT ![t] = "loop", ![Owner] = "idle"]
  /\ running' = TRUE
  /\ UNCHANGED <<lists, tick, ticks, unread, abandoned>>

\* Called of a monitor that does not run, stop only takes a sample.
stop ==
  /\ pc[Owner] \in {"idle", "stopped"} /\ running' = FALSE
  /\ IF thread = None THEN EnterSample(Owner)
                      ELSE Goto(Owner, "joining") /\ UNCHANGED <<tick, ticks>>
  /\ UNCHANGED <<thread, lists, unread, abandoned>>

\* join has come back: stop drops the thread and takes the last sample.
Joined ==
  /\ pc[Owner] = "joining" /\ thread' = None /\ EnterSample(Owner)
  /\ UNCHANGED <<running, lists, unread>>

JoinNot == Joined /\ UNCHANGED abandoned  \* Mutant
Join == Joined /\ pc[thread] = "ended" /\ UNCHANGED abandoned

\* The sample under way takes longer than three intervals.
JoinTimesOut ==
  Joined /\ pc[thread] # "ended" /\ abandoned' = abandoned \union {thread}

\* The owner may leave it at that.
Done == pc[Owner] = "stopped" /\ UNCHANGED vars

Next ==
  \/ \E t \in Threads : Sample(t) \/ BeginSample(t) \/ EndThread(t)
  \/ start \/ stop \/ Join \/ JoinTimesOut \/ Done

Spec == Init /\ [][Next]_vars
Work ==
  Join \/ JoinTimesOut \/ \E t \in Threads : Sample(t) \/ BeginSample(t) \/ EndThread(t)

-----------------------------------------------------------------------------
(* Properties. *)

Sampling == {"time", "system", "cpu", "memory", "threads", "net"}
AtWork(t) == pc[t] \in Sampling \union {"loop"}

\* TypeOK: the variables stay in their domains.
TypeOK ==
  /\ running \in BOOLEAN /\ thread \in Samplers \union {None} /\ ticks \in 0..MaxSamples
  /\ abandoned \subseteq Samplers /\ unread \subseteq 1..MaxSamples
  /\ \A i \in DOMAIN lists : lists[i] \in Seq(1..MaxSamples)

\* OneSampler: however often the monitor is stopped and started, the threads
\* at work are the one _thread names and those that outlasted a join; while
\* the owner samples and after stop has returned, only the latter (start,
\* stop, _run_loop).
OneSampler ==
  /\ \A t \in Samplers : AtWork(t) => t = thread \/ t \in abandoned
  /\ pc[Owner] \in Sampling \union {"stopped"} => thread = None

\* A list with exactly one entry of sample k.
Once(list, k) ==
  \E i \in DOMAIN list : \A j \in DOMAIN list : list[j] = k <=> j = i

\* EverySampleOnce: a sample that is not under way has one entry in every
\* list, whichever threads sampled at once; only where a read raised may the
\* lists of the process's figures hold one entry more of it (_sample_once).
EverySampleOnce ==
  \A k \in 1..ticks : (\A t \in Threads : pc[t] \in Sampling => tick[t] # k) =>
    /\ Once(timestamps, k) /\ Once(system_cpu, k)
    /\ Once(num_threads, k) /\ Once(sent, k)
    /\ IF k \in unread THEN \E i \in DOMAIN cpu, j \in DOMAIN rss : cpu[i] = k /\ rss[j] = k
                       ELSE Once(cpu, k) /\ Once(rss, k)

\* SeriesAligned: once stop has returned, no join having been given up, the
\* lists of the system's figures hold the samples at the same positions as
\* the axis of time that get_timeseries returns with them, also when the
\* process has ended; so do the lists of its own figures if no read raised.
SeriesAligned ==
  pc[Owner] = "stopped" /\ abandoned = {} =>
    /\ timestamps = system_cpu /\ timestamps = num_threads /\ timestamps = sent
    /\ unread = {} => timestamps = cpu /\ timestamps = rss

\* Over: a call of stop comes back, and of a monitor that is left stopped
\* every thread ends, also one that stop gave up on (stop, _run_loop).
Over == pc[Owner] # "joining" /\ (running \/ \A t \in Samplers : ~AtWork(t))

=============================================================================
