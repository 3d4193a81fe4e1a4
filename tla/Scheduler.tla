----------------------------- MODULE Scheduler -----------------------------
(***************************************************************************)
(* The reference simulation kernel: class Scheduler of sim/scheduler.py    *)
(* with the parts of StatementExecutor it relies on (nba_queue, apply_nba, *)
(* execute_coroutine) and its EventQueue.                                  *)
(*                                                                         *)
(* The elaborated design is a parameter: signals, continuous assigns in    *)
(* declaration order, and processes.  What a process does between two      *)
(* suspension points is the constant operator Exec.  The kernel is one     *)
(* thread; the interleavings are those of the API calls (drive_signal,     *)
(* settle, run, run_step, schedule_at), of the on_time_step callback's     *)
(* drives, and of the process activations inside one call.                 *)
(***************************************************************************)
EXTENDS Naturals, Sequences, FiniteSets

CONSTANTS
    Sigs,             \* ctx._signals: scalar signals
    InitSigs,         \* their declared initial values, CAs settled (elaborate)
    NCA,              \* number of continuous assigns, in declaration order
    CALhs,            \* [1..NCA -> Sigs]          assign.lhs
    CAReads,          \* [1..NCA -> SUBSET Sigs]   ContinuousProcess.sensitivity
    CARhs(_, _),      \* CARhs(i, r): value of assign.rhs, r the signals it reads
    Combos,           \* _combo_procs
    StartCombos,      \* the always_comb / always_latch ones (_start_procs)
    Sens,             \* [Combos -> SUBSET Sigs]   AlwaysProcess.sensitivity
    SelfSens,         \* [Combos -> SUBSET Sigs]   AlwaysProcess.self_sens
    Seqs,             \* _seq_procs
    Edges,            \* [Seqs -> [Sigs -> Edge]]  AlwaysProcess.edge_signals
    TimedSeqs,        \* the members of Seqs whose body has timing (has_timing)
    Initials,         \* _initial_procs, a sequence
    Timers,           \* _timing_procs (always, timing, no list), a sequence
    Toggles,          \* _ClockToggle objects queued by the testbench
    Exec(_, _, _),    \* Exec(p, pc, sigs): p's code from pc to its next stop
    MaxPc,            \* coroutine positions are 0..MaxPc
    DeltaLimit,       \* delta_limit
    MaxRun,           \* bound: last time a step is taken
    MaxDelay,         \* bound: longest #delay
    MaxCalls,         \* bound: API calls (and callback drives) explored
    Inputs,           \* signals the testbench drives
    CallbackInputs,   \* signals the on_time_step callback drives
    Api,              \* the API calls the testbench makes
    Disciplined       \* the testbench settles its drives before a run_step()

X == 2                              \* x (and z: one encoding)
Val == 0 .. 2
NoVal == 3                          \* dict.get(...) is None
Edge == {"none", "posedge", "negedge", "level"}
Horizon == MaxRun + MaxDelay
Time == 0 .. Horizon
Launch == Initials \o Timers         \* what run() queues at time 0, in order
Elems(s) == {s[i] : i \in DOMAIN s}
Procs == Combos \cup Seqs \cup Elems(Launch) \cup Toggles
Coroutines == TimedSeqs \cup Elems(Launch)
Pc == 0 .. MaxPc
Dead == MaxPc + 1                   \* a generator that raised

\* What one activation does: blocking writes (NoVal: not written), queued
\* NBAs, why it stopped, where it resumes.  "wait": SuspendExecution with
\* neither delay nor events, from wait(cond) on a false cond or @*.  "raise":
\* SuspendExecution thrown and not yielded, by a timing control in a task or in
\* a block that is no generator; its delay is 0 for #0, an event or a wait.
Outcome == [wr : [Sigs -> Val \cup {NoVal}], nba : Seq(Sigs \X Val),
            stop : {"end", "delay", "event", "wait", "raise", "finish"},
            delay : 0 .. MaxDelay, on : [Sigs -> Edge], pc : Pc]

Phases == {"idle", "launch", "ca", "exec", "delta", "nba", "collect", "resettle",
           "extcollect", "wake", "boot", "fullca", "bootcombos", "bootdrives",
           "next", "settle", "settleboot", "settlecollect", "callback", "stepend", "error"}
\* Where the continuous-assign loop goes on.
Returns == {"idle", "delta", "collect", "resettle", "extcollect", "fullca", "bootcombos",
            "bootdrives", "next", "settleboot", "settlecollect", "stepend"}
ApiCalls == {"drive", "settle", "run", "run_step", "schedule"}

ASSUME DesignAssumption ==
    /\ InitSigs \in [Sigs -> Val]
    /\ NCA \in Nat
    /\ CALhs \in [1 .. NCA -> Sigs]
    /\ CAReads \in [1 .. NCA -> SUBSET Sigs]
    /\ Procs \subseteq Nat
    /\ Initials \in Seq(Nat) /\ Timers \in Seq(Nat)
    /\ StartCombos \subseteq Combos
    /\ Sens \in [Combos -> SUBSET Sigs]
    /\ SelfSens \in [Combos -> SUBSET Sigs]
    /\ Edges \in [Seqs -> [Sigs -> Edge]]
    /\ TimedSeqs \subseteq Seqs
    /\ MaxPc \in Nat
    /\ DeltaLimit \in Nat \ {0}
    /\ MaxRun \in Nat /\ MaxDelay \in Nat /\ MaxCalls \in Nat
    /\ Inputs \subseteq Sigs /\ CallbackInputs \subseteq Sigs
    /\ Api \subseteq ApiCalls

ASSUME RhsAssumption ==
    \A i \in 1 .. NCA : \A r \in [CAReads[i] -> Val] : CARhs(i, r) \in Val

ASSUME ExecAssumption ==
    \A p \in Procs, c \in Pc : \A s \in [Sigs -> Val] :
        /\ Exec(p, c, s) \in Outcome
        /\ p \notin Coroutines => Exec(p, c, s).stop \in {"end", "raise", "finish"}

\* The value of the i-th continuous assign's right-hand side.
Rhs(i, s) == CARhs(i, [r \in CAReads[i] |-> s[r]])
Wires == {CALhs[i] : i \in 1 .. NCA}

\* elaborate() leaves the assigns stable; a net has one driver, which is not
\* a procedural block and not the testbench.
ASSUME DriverAssumption ==
    /\ \A i \in 1 .. NCA : InitSigs[CALhs[i]] = Rhs(i, InitSigs)
    /\ \A i, j \in 1 .. NCA : CALhs[i] = CALhs[j] => i = j
    /\ (Inputs \cup CallbackInputs) \cap Wires = {}
    /\ \A p \in Procs, c \in Pc : \A s \in [Sigs -> Val] :
          /\ \A w \in Wires : Exec(p, c, s).wr[w] = NoVal
          /\ \A k \in 1 .. Len(Exec(p, c, s).nba) : Exec(p, c, s).nba[k][1] \notin Wires

\* A Process object is in one of the kernel's lists, once.
ASSUME ProcessAssumption ==
    /\ (Combos \cup Seqs \cup Toggles) \cap Elems(Launch) = {}
    /\ \A i, j \in DOMAIN Launch : Launch[i] = Launch[j] => i = j

VARIABLES
    time, sigs, nba, queue,
    pstate,        \* Process.state
    pcs,           \* the suspended generator's position
    waiting,       \* _event_waiting, in registration order
    prev,          \* _prev_signals
    edgeChanged,   \* _edge_changed
    trigSeq,       \* _triggered_seq_procs
    own,           \* _own_changes, as pairs <<signal, process>>
    pending,       \* _pending_drives
    settleSnap,    \* _settle_snapshot
    lastRun,       \* _last_run_signals
    booted,        \* _combo_bootstrapped
    finish,        \* _finish_requested
    \* the call in progress
    phase, call, maxTime,
    stage,         \* whose delta loop is running: "ext", "boot", "step", "settle"
    ca,            \* the continuous-assign loop
    batch, woken,  \* processes still to run: popped (in order), triggered
    orig,          \* ctx._originals
    ownNow,        \* the region's own
    act,           \* active_dirty
    lpos,          \* run(): next member of Launch to look at
    acc,           \* active_dirty of the bootstrap's first region
    drv,           \* drives / boot_dirty of the bootstrap
    delta,
    nbaDirty,      \* nba_dirty while apply_nba runs
    starting,      \* settle(): nothing had run or settled before
    caOverflow,    \* history: a CA loop gave up after DeltaLimit passes
    base, fires,   \* history: signals before the drives since the last settle()
                   \* or run(), and activations of each sequential block since
    owed,          \* history: a drive since the last settle() or run()
    lost,          \* history: processes whose last suspension nothing recorded
    calls          \* bound

kernel == <<time, sigs, nba, queue, pstate, pcs, waiting, finish>>
detect == <<prev, edgeChanged, trigSeq, own>>
extern == <<pending, settleSnap, lastRun, booted>>
region == <<batch, woken, orig, ownNow>>
loop   == <<act, acc, drv, delta, nbaDirty>>
ctl    == <<phase, call, maxTime, stage, lpos, starting>>
hist   == <<caOverflow, base, fires, owed, lost>>
vars   == <<kernel, detect, extern, region, loop, ctl, ca, hist, calls>>
-----------------------------------------------------------------------------
\* The n-th pass over the continuous assigns begins: dirty set d, all assigns
\* or those that read it, and where the loop goes on.
CAPass(d, n, all, ret) ==
    [dirty |-> d, pos |-> 1, chg |-> FALSE, n |-> n, all |-> all, ret |-> ret]

Init ==
    /\ time = 0 /\ sigs = InitSigs /\ nba = <<>>
    /\ queue = [t \in Time |-> <<>>]
    /\ pstate = [p \in Procs |-> "IDLE"]
    /\ pcs = [p \in Procs |-> 0]
    /\ waiting = <<>> /\ finish = FALSE
    /\ prev = [s \in Sigs |-> NoVal]
    /\ edgeChanged = {} /\ trigSeq = {} /\ own = {}
    /\ pending = {} /\ settleSnap = InitSigs
    /\ lastRun = [s \in Sigs |-> NoVal]
    /\ booted = FALSE
    /\ phase = "idle" /\ call = "none" /\ maxTime = 0 /\ stage = "none"
    /\ lpos = 1 /\ starting = FALSE
    /\ ca = CAPass({}, 1, FALSE, "idle")
    /\ batch = <<>> /\ woken = {} /\ ownNow = {}
    /\ orig = [s \in Sigs |-> NoVal]
    /\ act = {} /\ acc = {} /\ drv = {} /\ delta = 0 /\ nbaDirty = {}
    /\ caOverflow = FALSE /\ calls = 0
    /\ base = [s \in Sigs |-> NoVal] /\ fires = [p \in Seqs |-> 0] /\ owed = FALSE
    /\ lost = {}

\* EventQueue.schedule: FIFO among the events of one time.
Schedule(q, t, p) == [q EXCEPT ![t] = Append(@, p)]

\* Fault: any queued time will do.
PeekAny(t) == queue[t] # <<>>

\* EventQueue.peek_time returns t.
PeekTime(t) == queue[t] # <<>> /\ \A u \in Time : u < t => queue[u] = <<>>

\* _edge_direction.
EdgeDirection(old, new) ==
    CASE old = NoVal                      -> "none"
      [] old # NoVal /\ new = X           -> IF old = X THEN "none"
                                             ELSE IF old = 1 THEN "negedge" ELSE "posedge"
      [] new = 1 /\ old \in {0, X}        -> "posedge"
      [] new = 0 /\ old \in {1, X}        -> "negedge"
      [] OTHER                            -> "none"

\* _event_edge_fired, for one signal of the edge dictionary.
EventFired(kind, old, new) ==
    /\ old # NoVal
    /\ \/ /\ kind = "posedge"
          /\ (new = 1 /\ old \in {0, X}) \/ (new = X /\ old = 0)
       \/ /\ kind = "negedge"
          /\ (new = 0 /\ old \in {1, X}) \/ (new = X /\ old = 1)
       \/ kind = "level" /\ old # new

\* The signals whose value differs from a snapshot that has them.
Changed(snap) == {s \in Sigs : snap[s] # NoVal /\ snap[s] # sigs[s]}

\* Start the "for _ in range(delta_limit): if not _run_..._assigns: break" loop.
StartCA(d, all, ret) ==
    /\ phase' = "ca"
    /\ ca' = CAPass(d, 1, all, ret)

\* Enter _run_active_region with popped processes b or triggered ones w.
StartRegion(b, w) ==
    /\ phase' = "exec" /\ batch' = b /\ woken' = w
    /\ orig' = [s \in Sigs |-> NoVal] /\ ownNow' = {}

\* Fault: every drive takes a new snapshot.
DriveSignalLast(s, v) ==
    settleSnap' = sigs /\ sigs' = [sigs EXCEPT ![s] = v] /\ pending' = pending \cup {s}

\* Fault: the snapshot is never renewed.
DriveSignalStale(s, v) ==
    sigs' = [sigs EXCEPT ![s] = v] /\ pending' = pending \cup {s} /\ UNCHANGED settleSnap

\* Fault: the driven value keeps its own width.
DriveSignalWide(s, v) ==
    settleSnap' = sigs /\ sigs' = [sigs EXCEPT ![s] = v + 2] /\ pending' = pending \cup {s}

\* drive_signal (scalar signals).
DriveSignal(s, v) ==
    /\ settleSnap' = IF pending = {} THEN sigs ELSE settleSnap
    /\ sigs' = [sigs EXCEPT ![s] = v]
    /\ pending' = pending \cup {s}

-----------------------------------------------------------------------------
(* _collect_triggered(dirty, others), against the snapshot pv.             *)

\* Fault: a block wakes only when all it reads has changed.
CombosHitAll(dirty, others) == {p \in Combos : Sens[p] \subseteq dirty}

CombosHit(dirty, others) ==
    LET kept == {e \in own : e[1] \notin others}
    IN  {p \in Combos : \E s \in Sens[p] \cap dirty : <<s, p>> \notin kept}

EdgeNames == {s \in Sigs : \E p \in Seqs : Edges[p][s] \in {"posedge", "negedge"}}

SeqsHit(changed, pv) ==
    {p \in Seqs : \E s \in changed :
        Edges[p][s] # "none" /\ Edges[p][s] = EdgeDirection(pv[s], sigs[s])}

\* The detection state that is left.
CollectTriggered(dirty, pv, changed, fired) ==
    /\ edgeChanged' = changed \cup (dirty \cap EdgeNames)
    /\ trigSeq' = fired \cup SeqsHit(changed \cup (dirty \cap EdgeNames), pv)
    /\ own' = {}
    /\ prev' = pv

\* Fault: a block runs in every delta cycle that still shows its edge.
TriggeredAgain(dirty, others, pv, changed, fired) ==
    CombosHit(dirty, others) \cup SeqsHit(changed \cup (dirty \cap EdgeNames), pv)

\* The processes to run: a sequential one once per detection snapshot.
Triggered(dirty, others, pv, changed, fired) ==
    CombosHit(dirty, others)
        \cup (SeqsHit(changed \cup (dirty \cap EdgeNames), pv) \ fired)
-----------------------------------------------------------------------------
(* The continuous-assign loop: _run_continuous_assigns (ca.all) and        *)
(* _run_dirty_continuous_assigns, whose dirty set grows as outputs change. *)

\* Fault: outputs do not join the dirty set.
MarkNothing(d, i) == d

\* A changed output wakes the assigns that read it, in this pass or the next.
MarkOutputs(d, i) == d \cup {CALhs[i]}

CAEval ==
    /\ phase = "ca" /\ ca.pos <= NCA
    /\ LET i == ca.pos
           v == Rhs(i, sigs)
           hit == (ca.all \/ CAReads[i] \cap ca.dirty # {}) /\ v # sigs[CALhs[i]]
       IN  /\ sigs' = IF hit THEN [sigs EXCEPT ![CALhs[i]] = v] ELSE sigs
           /\ ca' = [dirty |-> IF hit THEN MarkOutputs(ca.dirty, i) ELSE ca.dirty,
                     pos |-> i + 1, chg |-> (ca.chg \/ hit),
                     n |-> ca.n, all |-> ca.all, ret |-> ca.ret]
    /\ UNCHANGED <<time, nba, queue, pstate, pcs, waiting, finish,
                   detect, extern, region, loop, ctl, hist, calls>>

CAPassEnd ==
    /\ phase = "ca" /\ ca.pos > NCA
    /\ LET again == ca.chg /\ ca.n < DeltaLimit
           back  == ~again /\ ca.ret = "delta"
       IN  /\ phase' = IF again THEN phase ELSE ca.ret
           /\ ca' = IF again THEN CAPass(ca.dirty, ca.n + 1, ca.all, ca.ret) ELSE ca
           /\ act' = IF back THEN acc \cup ca.dirty ELSE act
           /\ acc' = IF back THEN {} ELSE acc
           /\ caOverflow' = (caOverflow \/ (ca.chg /\ ~again))
    /\ UNCHANGED <<kernel, detect, extern, region, drv, delta, nbaDirty,
                   call, maxTime, stage, lpos, starting, base, fires, owed, lost, calls>>

-----------------------------------------------------------------------------
(* _run_active_region: popped processes in queue order, triggered ones in  *)
(* declaration order, combinational before sequential.                     *)

Before(p, q) == IF p \in Combos <=> q \in Combos THEN p < q ELSE p \in Combos

NextProc(p) ==
    \/ batch # <<>> /\ p = Head(batch)
    \/ batch = <<>> /\ p \in woken /\ \A q \in woken \ {p} : Before(p, q)

\* A generator that raised StopExecution only raises StopIteration.
Exhausted == [wr |-> [s \in Sigs |-> NoVal], nba |-> <<>>, stop |-> "end",
              delay |-> 0, on |-> [s \in Sigs |-> "none"], pc |-> 0]

\* Fault: non-blocking assignments take effect at once.
ActivationBlocking(p) ==
    LET r == Exec(p, pcs[p], sigs)
        last(s) == {k \in 1 .. Len(r.nba) : r.nba[k][1] = s}
    IN  [r EXCEPT !.nba = <<>>,
                  !.wr = [s \in Sigs |-> IF last(s) = {} THEN r.wr[s]
                                         ELSE r.nba[CHOOSE k \in last(s) : TRUE][2]]]

\* One resumption of the process, up to where it stops.
Activation(p) == IF pcs[p] = Dead THEN Exhausted ELSE Exec(p, pcs[p], sigs)

Written(r) == {s \in Sigs : r.wr[s] # NoVal}

\* Fault: every delay is a #0.
ResumeNow(r) == time

\* When a #delay ends; #0 stays in this time step's successor.
ResumeTime(r) == time + r.delay

\* _execute_process, _schedule_suspend and the handler of _run_active_region:
\* where the process goes next.  A coroutine of an always block that ends is
\* queued again at once; a generator that raised is dead; a suspension with
\* neither delay nor events puts the process nowhere.
Suspend(p, r) ==
    LET waits   == r.stop = "event" /\ \E s \in Sigs : r.on[s] # "none"
        timed   == r.stop = "delay" \/ (r.stop = "raise" /\ r.delay > 0)
        nowhere == r.stop = "wait" \/ (r.stop = "raise" /\ r.delay = 0)
        again   == \/ r.stop = "event" /\ ~waits
                   \/ r.stop = "end" /\ p \in Coroutines \ Elems(Initials)
    IN  /\ queue' = IF timed THEN Schedule(queue, ResumeTime(r), p)
                    ELSE IF again THEN Schedule(queue, time, p) ELSE queue
        /\ waiting' = IF waits THEN Append(waiting, [proc |-> p, on |-> r.on]) ELSE waiting
        /\ pcs' = [pcs EXCEPT ![p] = IF p \notin Coroutines \/ r.stop = "end" THEN 0
                                     ELSE IF r.stop \in {"finish", "raise"} THEN Dead ELSE r.pc]
        /\ pstate' = [pstate EXCEPT ![p] =
                IF r.stop = "end" /\ p \in Elems(Initials) THEN "DONE"
                ELSE IF p \in Coroutines \/ r.stop # "end" THEN "ACTIVE" ELSE "IDLE"]
        /\ lost' = IF nowhere THEN lost \cup {p} ELSE lost \ {p}

\* Signals p is the first of the region to write, among those it also reads:
\* its own change to them will not wake it.
OwnWrites(p, r) ==
    IF p \in Combos THEN {s \in SelfSens[p] \cap Written(r) : orig[s] = NoVal} ELSE {}

Execute(p) ==
    /\ phase = "exec" /\ NextProc(p)
    /\ LET r == Activation(p)
       IN  /\ sigs' = [s \in Sigs |-> IF s \in Written(r) THEN r.wr[s] ELSE sigs[s]]
           /\ nba' = nba \o r.nba
           /\ orig' = [s \in Sigs |-> IF s \in Written(r) /\ orig[s] = NoVal
                                      THEN sigs[s] ELSE orig[s]]
           /\ ownNow' = {e \in ownNow : e[1] \notin Written(r)} \cup (OwnWrites(p, r) \X {p})
           /\ finish' = (finish \/ r.stop = "finish")
           /\ Suspend(p, r)
    /\ batch' = IF batch # <<>> THEN Tail(batch) ELSE batch
    /\ woken' = IF batch # <<>> THEN woken ELSE woken \ {p}
    /\ fires' = IF p \in Seqs THEN [fires EXCEPT ![p] = IF @ < 2 THEN @ + 1 ELSE @] ELSE fires
    /\ UNCHANGED <<time, detect, extern, loop, ctl, ca, caOverflow, base, owed, calls>>

\* The region's dirty set is what finally differs; its CAs run before it
\* returns (settle() runs them once more).
RegionEnd ==
    /\ phase = "exec" /\ batch = <<>> /\ woken = {}
    /\ own' = ownNow
    /\ StartCA(Changed(orig), FALSE,
               CASE stage = "start"  -> "bootdrives"
                 [] stage = "settle" -> "resettle"
                 [] OTHER            -> "delta")
    /\ UNCHANGED <<kernel, prev, edgeChanged, trigSeq, extern, region, loop,
                   call, maxTime, stage, lpos, starting, hist, calls>>

Resettle ==
    /\ phase = "resettle"
    /\ StartCA(ca.dirty, FALSE, "delta")
    /\ UNCHANGED <<kernel, detect, extern, region, loop,
                   call, maxTime, stage, lpos, starting, hist, calls>>

-----------------------------------------------------------------------------
(* The delta loop shared by _run_single_step, _process_external_drives,    *)
(* settle and _bootstrap_combos: apply NBAs, propagate, re-trigger.        *)

\* Fault: queued NBAs alone do not keep the loop going.
MoreActive == act # {}

\* The loop's condition: active_dirty or nba_queue.
MoreDeltas == act # {} \/ nba # <<>>

DeltaBegin ==
    /\ phase = "delta" /\ MoreDeltas
    /\ delta < DeltaLimit
    /\ delta' = delta + 1
    /\ nbaDirty' = {}
    /\ phase' = "nba"
    /\ UNCHANGED <<kernel, detect, extern, region, act, acc, drv, ca,
                   call, maxTime, stage, lpos, starting, hist, calls>>

\* apply_nba, one queued update per step; a later one to the same signal wins.
ApplyNba ==
    /\ phase = "nba" /\ nba # <<>>
    /\ LET s == Head(nba)[1]
           v == Head(nba)[2]
       IN  /\ sigs' = [sigs EXCEPT ![s] = v]
           /\ nbaDirty' = IF v # sigs[s] THEN nbaDirty \cup {s} ELSE nbaDirty
    /\ nba' = Tail(nba)
    /\ UNCHANGED <<time, queue, pstate, pcs, waiting, finish, detect, extern, region,
                   act, acc, drv, delta, ctl, ca, hist, calls>>

NbaDone ==
    /\ phase = "nba" /\ nba = <<>>
    /\ StartCA(nbaDirty, FALSE, "collect")
    /\ UNCHANGED <<kernel, detect, extern, region, loop,
                   call, maxTime, stage, lpos, starting, hist, calls>>

\* RuntimeError: delta cycle limit exceeded.
DeltaLimitError ==
    /\ phase = "delta" /\ MoreDeltas
    /\ delta >= DeltaLimit
    /\ phase' = "error"
    /\ UNCHANGED <<kernel, detect, extern, region, loop, ca,
                   call, maxTime, stage, lpos, starting, hist, calls>>

Collect ==
    /\ phase = "collect"
    /\ LET dirty == act \cup ca.dirty
           trig == Triggered(dirty, ca.dirty, prev, edgeChanged, trigSeq)
       IN  /\ CollectTriggered(dirty, prev, edgeChanged, trigSeq)
           /\ IF trig # {} \/ ca.dirty # {}
              THEN StartRegion(<<>>, trig) /\ UNCHANGED act
              ELSE phase' = "delta" /\ act' = {} /\ UNCHANGED region
    /\ UNCHANGED <<kernel, extern, acc, drv, delta, nbaDirty, ca,
                   call, maxTime, stage, lpos, starting, hist, calls>>

\* The delta loop of each caller ends.
DeltaDone ==
    /\ phase = "delta" /\ ~MoreDeltas
    /\ \/ stage \in {"step", "ext"} /\ phase' = "wake" /\ UNCHANGED lastRun
       \/ stage = "boot" /\ call = "run" /\ phase' = "next" /\ UNCHANGED lastRun
       \/ stage = "boot" /\ call = "settle" /\ phase' = "settle" /\ UNCHANGED lastRun
       \/ stage = "settle" /\ phase' = "idle" /\ lastRun' = sigs
    /\ UNCHANGED <<kernel, detect, pending, settleSnap, booted, region, loop, ca,
                   call, maxTime, stage, lpos, starting, hist, calls>>
-----------------------------------------------------------------------------
(* _run_single_step, around its delta loop.                                *)

StepBegin(t) ==
    /\ time' = t
    /\ prev' = sigs /\ edgeChanged' = {} /\ trigSeq' = {}
    /\ queue' = [queue EXCEPT ![t] = <<>>]
    /\ StartRegion(queue[t], {})
    /\ stage' = "step" /\ delta' = 0 /\ act' = {} /\ acc' = {}
    /\ UNCHANGED <<sigs, nba, pstate, pcs, waiting, finish, own, extern, drv, nbaDirty, ca,
                   maxTime, lpos, starting, hist>>

Fires(w) == \E s \in Sigs : EventFired(w.on[s], prev[s], sigs[s])

\* _check_event_waiting, one waiting process per step, in list order.
WakeOne ==
    /\ phase = "wake"
    /\ \E i \in DOMAIN waiting :
          /\ Fires(waiting[i])
          /\ \A j \in 1 .. (i - 1) : ~Fires(waiting[j])
          /\ queue' = Schedule(queue, time, waiting[i].proc)
          /\ waiting' = SubSeq(waiting, 1, i - 1) \o SubSeq(waiting, i + 1, Len(waiting))
    /\ UNCHANGED <<time, sigs, nba, pstate, pcs, finish, detect, extern, region, loop,
                   ctl, ca, hist, calls>>

WakeDone ==
    /\ phase = "wake"
    /\ \A i \in DOMAIN waiting : ~Fires(waiting[i])
    /\ phase' = IF stage = "step" THEN "callback" ELSE "boot"
    /\ UNCHANGED <<kernel, detect, extern, region, loop, ca,
                   call, maxTime, stage, lpos, starting, hist, calls>>

\* _on_time_step: nothing, or a drive; its continuous assigns follow at once.
CallbackQuiet ==
    /\ phase = "callback" /\ phase' = "stepend"
    /\ UNCHANGED <<kernel, detect, extern, region, loop, ca,
                   call, maxTime, stage, lpos, starting, hist, calls>>

CallbackDrive ==
    /\ phase = "callback" /\ calls < MaxCalls /\ calls' = calls + 1
    /\ \E s \in CallbackInputs, v \in {0, 1} :
          /\ DriveSignal(s, v)
          /\ StartCA({s} \cap {t \in Sigs : v # sigs[t]}, FALSE, "stepend")
    /\ UNCHANGED <<time, nba, queue, pstate, pcs, waiting, finish, detect,
                   lastRun, booted, region, loop,
                   call, maxTime, stage, lpos, starting, hist>>

\* Fault: $finish leaves the queue as it is.
QueueKept == queue

\* $finish ends the simulation once its time step is complete.
QueueAfterStep == IF finish THEN [t \in Time |-> <<>>] ELSE queue

StepEnd ==
    /\ phase = "stepend"
    /\ settleSnap' = IF pending # {} THEN sigs ELSE settleSnap
    /\ queue' = QueueAfterStep
    /\ phase' = IF call = "run" /\ ~finish THEN "next" ELSE "idle"
    /\ lastRun' = IF phase' = "idle" THEN sigs ELSE lastRun
    /\ UNCHANGED <<time, sigs, nba, pstate, pcs, waiting, finish, detect,
                   pending, booted, region, loop, ca,
                   call, maxTime, stage, lpos, starting, hist, calls>>

-----------------------------------------------------------------------------
(* run(max_time): launch, external drives, bootstrap, event loop.          *)

\* Fault: only finished threads are left out.
LaunchableAgain(p) == pstate[p] # "DONE"

\* Initial blocks and timed always blocks still IDLE are queued at time 0.
Launchable(p) == pstate[p] = "IDLE"

RunLaunch ==
    /\ phase = "launch" /\ lpos <= Len(Launch)
    /\ queue' = IF Launchable(Launch[lpos]) THEN Schedule(queue, 0, Launch[lpos]) ELSE queue
    /\ lpos' = lpos + 1
    /\ UNCHANGED <<time, sigs, nba, pstate, pcs, waiting, finish, detect, extern, region,
                   loop, ca, phase, call, maxTime, stage, starting, hist, calls>>

\* _process_external_drives: what differs from the last run()'s end.
ExternalDrives ==
    /\ phase = "launch" /\ lpos > Len(Launch)
    /\ IF Changed(lastRun) = {} THEN phase' = "boot" /\ UNCHANGED ca
       ELSE StartCA(Changed(lastRun), FALSE, "extcollect")
    /\ UNCHANGED <<kernel, detect, extern, region, loop,
                   call, maxTime, stage, lpos, starting, hist, calls>>

ExternalCollect ==
    /\ phase = "extcollect"
    /\ LET dirty == Changed(lastRun)
           trig == Triggered(dirty, dirty, lastRun, {}, {})
       IN  IF dirty = {}
           THEN phase' = "boot" /\ UNCHANGED <<detect, region, stage>>
           ELSE /\ CollectTriggered(dirty, lastRun, {}, {})
                /\ stage' = "ext"
                /\ IF trig # {} THEN StartRegion(<<>>, trig)
                   ELSE phase' = "wake" /\ UNCHANGED region
    /\ act' = {} /\ acc' = {} /\ delta' = 0
    /\ UNCHANGED <<kernel, extern, drv, nbaDirty, ca, call, maxTime, lpos, starting, hist, calls>>

\* The first run(): drives made so far wake their readers, not as edges.
BootDrives ==
    /\ phase = "boot"
    /\ pending' = IF booted THEN pending ELSE {}
    /\ IF booted \/ pending = {}
       THEN phase' = "fullca" /\ ca' = CAPass({}, 1, FALSE, "idle")
       ELSE StartCA(pending, FALSE, "fullca")
    /\ drv' = {}
    /\ act' = {} /\ acc' = {} /\ delta' = 0
    /\ UNCHANGED <<kernel, detect, settleSnap, lastRun, booted, region, nbaDirty,
                   call, maxTime, stage, lpos, starting, hist, calls>>

FullCA ==
    /\ phase = "fullca"
    /\ drv' = IF booted THEN {} ELSE ca.dirty
    /\ StartCA({}, TRUE, IF booted THEN "next" ELSE "bootcombos")
    /\ UNCHANGED <<kernel, detect, extern, region, act, acc, delta, nbaDirty,
                   call, maxTime, stage, lpos, starting, hist, calls>>

\* _bootstrap_combos: the always_comb blocks once, then the readers of drv.
BootCombos ==
    /\ phase = "bootcombos"
    /\ booted' = TRUE
    /\ stage' = "start"
    /\ ca' = CAPass({}, 1, FALSE, "idle")
    /\ IF StartCombos # {} THEN StartRegion(<<>>, StartCombos)
       ELSE phase' = "bootdrives" /\ UNCHANGED region
    /\ UNCHANGED <<kernel, detect, pending, settleSnap, lastRun, loop,
                   call, maxTime, lpos, starting, hist, calls>>

BootReaders ==
    /\ phase = "bootdrives"
    /\ stage' = "boot"
    /\ LET wake == CombosHit(drv, drv) \ StartCombos
       IN  IF call = "run" /\ drv # {}
           THEN /\ CollectTriggered(drv, sigs, edgeChanged, trigSeq)
                /\ IF wake # {}
                   THEN StartRegion(<<>>, wake) /\ acc' = ca.dirty /\ UNCHANGED act
                   ELSE phase' = "delta" /\ act' = ca.dirty /\ UNCHANGED <<acc, region>>
           ELSE /\ phase' = "delta" /\ act' = ca.dirty
                /\ UNCHANGED <<detect, acc, region>>
    /\ UNCHANGED <<kernel, extern, drv, delta, nbaDirty, ca, call, maxTime, lpos, starting, hist, calls>>

\* _run_time_step: the next event not after max_time, or the end of run().
RunNext ==
    /\ phase = "next"
    /\ \E t \in 0 .. maxTime : PeekTime(t) /\ StepBegin(t)
    /\ UNCHANGED <<call, calls>>

RunReturn ==
    /\ phase = "next"
    /\ \A t \in 0 .. maxTime : queue[t] = <<>>
    /\ phase' = "idle" /\ lastRun' = sigs
    /\ UNCHANGED <<kernel, detect, pending, settleSnap, booted, region, loop, ca,
                   call, maxTime, stage, lpos, starting, hist, calls>>
-----------------------------------------------------------------------------
(* settle().                                                               *)

\* First settle(): fan the pending drives out, then bootstrap the combos.
SettleBoot ==
    /\ phase = "settleboot"
    /\ drv' = IF pending # {} THEN ca.dirty ELSE {}
    /\ phase' = "bootcombos"
    /\ UNCHANGED <<kernel, detect, extern, region, act, acc, delta, nbaDirty, ca,
                   call, maxTime, stage, lpos, starting, hist, calls>>

\* Consume the pending drives; before anything started they are no edges.
SettleDrives ==
    /\ phase = "settle"
    /\ IF pending = {}
       THEN phase' = "idle" /\ UNCHANGED <<pending, detect, ca>>
       ELSE /\ pending' = {}
            /\ prev' = IF starting THEN sigs ELSE settleSnap
            /\ edgeChanged' = {} /\ trigSeq' = {} /\ UNCHANGED own
            /\ StartCA(pending \cup drv, FALSE, "settlecollect")
    /\ UNCHANGED <<kernel, settleSnap, lastRun, booted, region, loop,
                   call, maxTime, stage, lpos, starting, hist, calls>>

\* Blocks that the bootstrap just ran do not run again for the same drives.
SettleCollect ==
    /\ phase = "settlecollect"
    /\ LET trig == Triggered(ca.dirty, ca.dirty, prev, edgeChanged, trigSeq)
                     \ (IF starting /\ Combos # {} THEN StartCombos ELSE {})
       IN  /\ CollectTriggered(ca.dirty, prev, edgeChanged, trigSeq)
           /\ stage' = "settle"
           /\ IF trig # {} THEN StartRegion(<<>>, trig) /\ UNCHANGED lastRun
              ELSE phase' = "idle" /\ lastRun' = sigs /\ UNCHANGED region
    /\ act' = {} /\ acc' = {} /\ delta' = 0
    /\ UNCHANGED <<kernel, pending, settleSnap, booted, drv, nbaDirty, ca,
                   call, maxTime, lpos, starting, hist, calls>>

-----------------------------------------------------------------------------
(* API calls of the testbench.                                             *)

Call(op) == phase = "idle" /\ op \in Api /\ calls < MaxCalls /\ calls' = calls + 1

CallDrive ==
    /\ Call("drive")
    /\ \E s \in Inputs, v \in {0, 1} : DriveSignal(s, v)
    /\ call' = "drive" /\ owed' = TRUE
    /\ IF booted /\ ~owed THEN base' = sigs /\ fires' = [p \in Seqs |-> 0]
       ELSE UNCHANGED <<base, fires>>
    /\ UNCHANGED <<time, nba, queue, pstate, pcs, waiting, finish, detect, lastRun, booted,
                   region, loop, phase, maxTime, stage, lpos, starting, ca, caOverflow, lost>>

CallSchedule ==
    /\ Call("schedule")
    /\ \E p \in Toggles, t \in time .. MaxRun : queue' = Schedule(queue, t, p)
    /\ call' = "schedule"
    /\ UNCHANGED <<time, sigs, nba, pstate, pcs, waiting, finish, detect, extern, region,
                   loop, phase, maxTime, stage, lpos, starting, ca, hist>>

CallRun ==
    /\ Call("run")
    /\ \E m \in time .. MaxRun : maxTime' = m
    /\ call' = "run" /\ phase' = "launch" /\ lpos' = 1 /\ owed' = FALSE
    /\ UNCHANGED <<kernel, detect, extern, region, loop, ca, stage, starting,
                   caOverflow, base, fires, lost>>

CallRunStep ==
    /\ Call("run_step")
    /\ Disciplined => ~owed
    /\ call' = "run_step"
    /\ \E t \in 0 .. MaxRun : PeekTime(t) /\ StepBegin(t)

CallSettle ==
    /\ Call("settle")
    /\ call' = "settle" /\ booted' = TRUE /\ owed' = FALSE
    /\ starting' = ~booted
    /\ act' = {} /\ acc' = {} /\ drv' = {} /\ delta' = 0
    /\ IF booted \/ Combos = {} THEN phase' = "settle" /\ UNCHANGED ca
       ELSE IF pending # {} THEN StartCA(pending, FALSE, "settleboot")
            ELSE phase' = "settleboot" /\ UNCHANGED ca
    /\ UNCHANGED <<kernel, detect, pending, settleSnap, lastRun, region, nbaDirty,
                   maxTime, stage, lpos, caOverflow, base, fires, lost>>

Kernel ==
    \/ CAEval \/ CAPassEnd
    \/ \E p \in Procs : Execute(p)
    \/ RegionEnd \/ Resettle
    \/ DeltaBegin \/ ApplyNba \/ NbaDone \/ DeltaLimitError \/ Collect \/ DeltaDone
    \/ WakeOne \/ WakeDone \/ CallbackQuiet \/ CallbackDrive \/ StepEnd
    \/ RunLaunch \/ ExternalDrives \/ ExternalCollect
    \/ BootDrives \/ FullCA \/ BootCombos \/ BootReaders \/ RunNext \/ RunReturn
    \/ SettleBoot \/ SettleDrives \/ SettleCollect

Testbench == CallDrive \/ CallSchedule \/ CallRun \/ CallRunStep \/ CallSettle

\* The testbench has made all its calls.
Done == phase = "idle" /\ calls = MaxCalls /\ UNCHANGED vars

Next == Kernel \/ Testbench \/ Done

\* A call runs to its end: one Python thread, no await and no lock inside.
Spec == Init /\ [][Next]_vars /\ WF_vars(Kernel)
-----------------------------------------------------------------------------
(* Properties.                                                             *)

Snapshot == [Sigs -> Val \cup {NoVal}]

KernelOK ==
    /\ time \in 0 .. MaxRun /\ sigs \in [Sigs -> Val] /\ nba \in Seq(Sigs \X Val)
    /\ queue \in [Time -> Seq(Procs)]
    /\ pstate \in [Procs -> {"IDLE", "ACTIVE", "DONE"}]
    /\ pcs \in [Procs -> Pc \cup {Dead}]
    /\ waiting \in Seq([proc : Procs, on : [Sigs -> Edge]])
    /\ finish \in BOOLEAN
DetectOK ==
    /\ prev \in Snapshot /\ edgeChanged \in SUBSET Sigs /\ trigSeq \in SUBSET Seqs
    /\ own \in SUBSET (Sigs \X Procs)
ExternOK ==
    /\ pending \in SUBSET Sigs /\ settleSnap \in [Sigs -> Val] /\ lastRun \in Snapshot
    /\ booted \in BOOLEAN
RegionOK ==
    /\ batch \in Seq(Procs) /\ woken \in SUBSET Procs
    /\ orig \in Snapshot /\ ownNow \in SUBSET (Sigs \X Procs)
LoopOK ==
    /\ act \in SUBSET Sigs /\ acc \in SUBSET Sigs /\ drv \in SUBSET Sigs
    /\ delta \in 0 .. DeltaLimit /\ nbaDirty \in SUBSET Sigs
CtlOK ==
    /\ phase \in Phases /\ call \in ApiCalls \cup {"none"} /\ maxTime \in 0 .. MaxRun
    /\ stage \in {"none", "ext", "start", "boot", "step", "settle"}
    /\ lpos \in 1 .. Len(Launch) + 1 /\ starting \in BOOLEAN
CaOK ==
    ca \in [dirty : SUBSET Sigs, pos : 1 .. NCA + 1, chg : BOOLEAN,
            n : 1 .. DeltaLimit, all : BOOLEAN, ret : Returns]
HistOK ==
    /\ caOverflow \in BOOLEAN /\ base \in Snapshot /\ fires \in [Seqs -> 0 .. 2]
    /\ owed \in BOOLEAN /\ lost \in SUBSET Procs

\* The domain of every variable: what each attribute of Scheduler may hold.
TypeOK ==
    /\ KernelOK /\ DetectOK /\ ExternOK /\ RegionOK /\ LoopOK /\ CtlOK /\ CaOK /\ HistOK
    /\ calls \in 0 .. MaxCalls

\* The assign shows the value of its right-hand side.
CAConsistent(i) == sigs[CALhs[i]] = Rhs(i, sigs)

\* The signals as they were when the active region was entered.
RegionStart == [s \in Sigs |-> IF orig[s] = NoVal THEN sigs[s] ELSE orig[s]]

\* At every point of every call, a continuous assign that does not show its
\* right-hand side is one the kernel will come back to: it reads a pending
\* drive, a signal written in the region or by the NBAs being applied, or the
\* assign loop has it ahead or will make another pass.
NoAssignForgotten ==
    ~caOverflow => \A i \in 1 .. NCA :
        \/ CAReads[i] \cap pending # {}
        \/ phase # "exec" /\ CAConsistent(i)
        \/ phase = "exec" /\ RegionStart[CALhs[i]] = Rhs(i, RegionStart)
        \/ phase = "nba" /\ CAReads[i] \cap nbaDirty # {}
        \/ /\ phase = "ca"
           /\ ca.all \/ CAReads[i] \cap ca.dirty # {}
           /\ i >= ca.pos \/ ca.chg

\* A net is written by its continuous assign alone.
OneDriver ==
    /\ \A w \in Wires : orig[w] = NoVal
    /\ \A k \in 1 .. Len(nba) : nba[k][1] \notin Wires

\* A settle() or run() has returned and no drive followed it.
AfterSettling == phase = "idle" /\ call \in {"settle", "run"}

\* The always_comb blocks that do not read what they write.
PureCombos == {p \in StartCombos : SelfSens[p] = {}}

\* The block shows the value of its code.
Fresh(p, s) == LET r == Exec(p, 0, s) IN \A x \in Written(r) : r.wr[x] = s[x]

\* When settle() or run() returns, every always_comb block that does not read
\* its own outputs shows the value of its code: no activation was missed,
\* unless an assign loop gave up.
CombosSettled == AfterSettling /\ ~caOverflow => \A p \in PureCombos : Fresh(p, sigs)

\* The rules of the language for these blocks, out[p] the signals that p
\* writes: what the block writes depends on its sensitivity list alone and is
\* written by nobody else, it does not wait, and what it reads is written by
\* one always block at most.
CombRules(out) ==
    /\ \A p \in Procs, c \in Pc : \A s \in [Sigs -> Val] :
          LET r == Exec(p, c, s)
          IN  /\ Written(r) \subseteq out[p]
              /\ \A k \in 1 .. Len(r.nba) : \A q \in PureCombos : r.nba[k][1] \notin out[q]
    /\ \A p \in PureCombos :
          /\ p \notin Seqs \cup Toggles
          /\ out[p] \cap (Sens[p] \cup Inputs) = {}
          /\ \A q \in Procs \ {p} : out[p] \cap out[q] = {}
          /\ \A q1, q2 \in Combos \cup Seqs : out[q1] \cap out[q2] \cap Sens[p] # {} => q1 = q2
          /\ \A s \in [Sigs -> Val] :
                LET r == Exec(p, 0, s)
                    known == [x \in Sigs |-> IF x \in Sens[p] THEN s[x] ELSE 0]
                IN  r.stop \in {"end", "finish"} /\ r.wr = Exec(p, 0, known).wr

\* Every edge a time step leaves behind, relative to its start, has triggered
\* the blocks waiting for it before event waits are checked.
Served(p) == \E s \in Sigs : /\ Edges[p][s] # "none"
                             /\ Edges[p][s] = EdgeDirection(prev[s], sigs[s])
EdgesServed == phase = "wake" => \A p \in Seqs : Served(p) => p \in trigSeq

\* A block clocked only by testbench drives: between two settle()/run() calls
\* an edge it waits for has been driven.
DrivenOnly(p) == \A s \in Sigs \ Inputs : Edges[p][s] = "none"
DrivenEdge(p) == \E s \in Sigs : /\ Edges[p][s] # "none"
                                 /\ Edges[p][s] = EdgeDirection(base[s], sigs[s])

\* What they need of the design: the testbench alone writes its inputs, and a
\* block clocked by them is in no other list of the kernel and does not wait.
DriveRules ==
    /\ \A p \in Procs, c \in Pc : \A s \in [Sigs -> Val] :
          LET r == Exec(p, c, s)
          IN  /\ Written(r) \cap Inputs = {}
              /\ \A k \in 1 .. Len(r.nba) : r.nba[k][1] \notin Inputs
    /\ \A p \in Seqs : DrivenOnly(p) =>
          /\ p \notin Combos \cup Toggles \cup TimedSeqs
          /\ \A s \in [Sigs -> Val] : Exec(p, 0, s).stop \in {"end", "finish"}

\* A driven edge has run the block by the time settle() or run() returns.
DrivenEdgeNotLost ==
    AfterSettling => \A p \in Seqs : DrivenOnly(p) /\ DrivenEdge(p) => fires[p] > 0

\* One driven edge runs the block once, and no edge not at all, however many
\* settle() and run() calls follow the drive.
DrivenEdgeNotDoubled ==
    AfterSettling => \A p \in Seqs : DrivenOnly(p) => fires[p] <= IF DrivenEdge(p) THEN 1 ELSE 0

\* Where a thread is due to be resumed from: the event queue, the event waits
\* or the popped batch.
Dues(p) ==
    Cardinality(UNION {{<<t, i>> : i \in {j \in DOMAIN queue[t] : queue[t][j] = p}} : t \in Time})
        + Cardinality({i \in DOMAIN waiting : waiting[i].proc = p})
        + Cardinality({i \in DOMAIN batch : batch[i] = p})

\* A thread suspended by a delay or an event list is due exactly once -- its
\* wake-up is neither lost nor doubled -- until $finish drops the queue.  One
\* that has finished, or that stopped at a false wait(cond), an empty event list
\* or a timing control without a delay in a task, is never resumed.
ThreadsDueOnce ==
    \A p \in Elems(Launch) :
        /\ Dues(p) <= 1
        /\ pstate[p] = "DONE" \/ p \in lost => Dues(p) = 0
        /\ pstate[p] = "ACTIVE" /\ ~finish /\ p \notin lost => Dues(p) = 1

\* Every suspension is recorded: a thread that has started and not finished is
\* due, so that it is resumed when its condition is met (SuspendExecution).
SuspensionsRecorded ==
    \A p \in Elems(Launch) : pstate[p] = "ACTIVE" /\ ~finish => Dues(p) > 0

\* A time step completes even when $finish ran in it: no NBA and no triggered
\* process is left over between calls, and no thread is queued afterwards.
StepsComplete ==
    phase = "idle" =>
        /\ nba = <<>> /\ batch = <<>> /\ woken = {} /\ act = {}
        /\ finish => \A t \in Time : Elems(queue[t]) \cap Elems(Launch) = {}

\* Simulation time never goes back, but for run() launching at time 0 what
\* an earlier run_step() did not.
TimeForward ==
    [][time' >= time \/ \E i \in DOMAIN queue[0] : pstate[queue[0][i]] = "IDLE"]_vars

\* Every API call returns, or raises the delta-limit error.
CallsReturn == phase # "idle" ~> phase \in {"idle", "error"}
=============================================================================
