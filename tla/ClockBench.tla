---------------------------- MODULE ClockBench ----------------------------
(***************************************************************************)
(* The clocks of the testbench API (sim/testbench.py): fork(),             *)
(* schedule_clock(), run(max_time) and run_step() on one event queue.  The *)
(* design is whatever listens to the clock signals; the history variable   *)
(* edges is what it hears.  Several calls share _clock_next_edge, which    *)
(* says from when on the edges of a signal are not queued yet.             *)
(***************************************************************************)
EXTENDS Naturals, Sequences, FiniteSetsExt

CONSTANTS
    Signals,              \* clock signals
    High, Low,            \* [Signals -> Nat]: Clock.high_time, Clock.low_time
    None,
    MaxTime,              \* bound on the max_time of a call
    MaxCalls              \* bound on the calls of the testbench

ASSUME ClockAssumption ==
    /\ High \in [Signals -> Nat \ {0}] /\ Low \in [Signals -> Nat \ {0}]
    /\ MaxTime \in Nat /\ MaxCalls \in Nat /\ None \notin Nat

VARIABLES
    clocks,               \* _clocks
    nextEdge,             \* _clock_next_edge
    queue,                \* EventQueue: the clock toggles due
    time,
    level,                \* of the clock signals
    limit,                \* max_time of the run() under way, None between calls
    calls,
    edges,                \* history: the changes of each signal since it was set to 0
    stepped,              \* history: has a time step been run?
    mixed                 \* history: were calls mixed as the docstrings forbid?

vars == <<clocks, nextEdge, queue, time, level, limit, calls, edges, stepped, mixed>>

Period(s) == High[s] + Low[s]

----------------------------------------------------------------------------
(* _schedule_clock_events: pairs of edges, from the first one not queued   *)
(* yet, while the rising one is not after max.                             *)

\* Fault: every call starts at time 0 again.
FromZero(next, s) == 0

From(next, s) == IF next[s] = None THEN 0 ELSE next[s]

\* Fault: a rising edge at max itself is left out.
RisesBefore(next, s, max) == {t \in From(next, s) .. max - 1 : (t - From(next, s)) % Period(s) = 0}

Rises(next, s, max) == {t \in From(next, s) .. max : (t - From(next, s)) % Period(s) = 0}
Toggle(s, t, v) == [time |-> t, sig |-> s, value |-> v]

TogglesTo(next, s, max) ==
    {Toggle(s, t, 1) : t \in Rises(next, s, max)}
        \cup {Toggle(s, t + High[s], 0) : t \in Rises(next, s, max)}
NextEdge(next, s, max) ==
    [next EXCEPT ![s] = IF Rises(next, s, max) = {} THEN From(next, s)
                        ELSE Max(Rises(next, s, max)) + Period(s)]

\* The first call for a signal sets it to 0, without an edge.
Started(S) == [s \in Signals |-> IF s \in S /\ nextEdge[s] = None THEN 0 ELSE level[s]]

ScheduleAll(S, max) ==
    /\ queue' = queue \cup UNION {TogglesTo(nextEdge, s, max) : s \in S}
    /\ nextEdge' = [s \in Signals |-> IF s \in S THEN NextEdge(nextEdge, s, max)[s] ELSE nextEdge[s]]
    /\ level' = Started(S)

----------------------------------------------------------------------------
(* The calls of the testbench, one after the other.                        *)

Call == limit = None /\ calls < MaxCalls /\ calls' = calls + 1

\* The documented use: "must call fork() before run()".
Fork(s) ==
    /\ Call
    /\ clocks' = clocks \cup {s}
    /\ mixed' = (mixed \/ stepped)
    /\ UNCHANGED <<nextEdge, queue, time, level, limit, stepped, edges>>

\* schedule_clock; its docstring asks: "Call this once before stepping".
ScheduleClock(s, max) ==
    /\ Call
    /\ ScheduleAll({s}, max)
    /\ mixed' = (mixed \/ stepped)
    /\ UNCHANGED <<clocks, time, limit, stepped, edges>>

Run(max) ==
    /\ Call
    /\ ScheduleAll(clocks, max)
    /\ limit' = max
    /\ UNCHANGED <<clocks, time, stepped, mixed, edges>>

\* _run_single_step at the earliest time of the queue.
Due == {e \in queue : \A o \in queue : e.time <= o.time}
Heard(s) == {e \in Due : e.sig = s /\ e.value # level[s]}
SingleStep ==
    /\ \E e \in Due : time' = e.time
    /\ queue' = queue \ Due
    /\ level' = [s \in Signals |-> IF Heard(s) = {} THEN level[s] ELSE 1 - level[s]]
    /\ edges' = [s \in Signals |-> IF Heard(s) = {} THEN edges[s]
                                    ELSE Append(edges[s], [time |-> time', value |-> level'[s]])]
    /\ stepped' = TRUE

\* "fork() is for clocks driven by run() instead": run_step() queues no edges.
RunStep ==
    /\ Call /\ queue # {}
    /\ SingleStep
    /\ mixed' = (mixed \/ clocks # {})
    /\ UNCHANGED <<clocks, nextEdge, limit>>

\* _run_time_step: a step of run(), or its return.
RunAdvances ==
    /\ limit # None /\ \E e \in queue : e.time <= limit
    /\ SingleStep
    /\ UNCHANGED <<clocks, nextEdge, limit, calls, mixed>>

RunReturns ==
    /\ limit # None /\ \A e \in queue : e.time > limit
    /\ limit' = None
    /\ UNCHANGED <<clocks, nextEdge, queue, time, level, stepped, mixed, calls, edges>>

Init ==
    /\ clocks = {} /\ nextEdge = [s \in Signals |-> None]
    /\ queue = {} /\ time = 0 /\ level = [s \in Signals |-> None]
    /\ limit = None /\ calls = 0
    /\ stepped = FALSE /\ mixed = FALSE
    /\ edges = [s \in Signals |-> <<>>]

Next ==
    \/ \E s \in Signals : Fork(s) \/ \E max \in 0 .. MaxTime : ScheduleClock(s, max)
    \/ \E max \in 0 .. MaxTime : Run(max)
    \/ RunStep \/ RunAdvances \/ RunReturns

Spec == Init /\ [][Next]_vars

----------------------------------------------------------------------------

\* A clock signal has the waveform of one Clock started at time 0, whatever
\* the calls that made it: each edge heard once, in order and on time.  None is
\* due in the past, unless fork() or schedule_clock() comes after a time step
\* or run_step() after a fork().
EdgeTime(s, i) == ((i - 1) \div 2) * Period(s) + (IF i % 2 = 0 THEN High[s] ELSE 0)
Waveform(s) ==
    \A i \in 1 .. Len(edges[s]) : edges[s][i] = [time |-> EdgeTime(s, i), value |-> i % 2]
OneWaveform ==
    /\ \A s \in Signals : Waveform(s)
    /\ ~mixed => \A e \in queue : e.time >= time

\* When run(max) is about to return, the design has heard every edge of the
\* forked clocks up to max, whatever was scheduled and stepped before.
RunHearsAll ==
    limit # None /\ (\A e \in queue : e.time > limit) =>
        \A s \in clocks : EdgeTime(s, Len(edges[s]) + 1) > limit
=============================================================================
