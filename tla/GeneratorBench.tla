-------------------------- MODULE GeneratorBench --------------------------
(***************************************************************************)
(* GeneratorEndpoint of sim/endpoints/_generator.py under the coordinator, *)
(* running the counter of its documentation:                               *)
(*                                                                         *)
(*     val = 0                      # a local, or kept outside             *)
(*     for _ in range(Cycles):                                             *)
(*         drive(val)                                                      *)
(*         yield                    # tick_pre done                        *)
(*         val = val + 1                                                   *)
(*         yield                    # tick_post done (the last: TailYield) *)
(***************************************************************************)
EXTENDS Coordinator

CONSTANTS
    Own,            \* the endpoint's domain
    Cycles,         \* iterations before the generator returns
    TailYield,      \* the last iteration ends with a yield too
    MayStop,        \* the clocks may run out of events
    MaxEdges      \* bound: rising edges of its clock

ASSUME GeneratorAssumption ==
    /\ Own \in Domains /\ Cycles \in Nat \ {0} /\ MaxEdges \in Nat
    /\ TailYield \in BOOLEAN /\ MayStop \in BOOLEAN

VARIABLES
    local,          \* val is a local variable of the generator, as in the documentation
    gen,            \* _gen: iterations begun and whether at the first yield
    postCalled,     \* _post_called
    val, wire,      \* the counter and the signal it drives
    edges           \* history: rising edges of its clock

vars == <<coordination, local, gen, postCalled, val, wire, edges>>

NoGen == [n |-> 0, pos |-> "none"]
Fresh == [n |-> 0, pos |-> "start"]
Undriven == MaxEdges + 1

Init ==
    /\ CoordinatorInit /\ local \in BOOLEAN
    /\ gen = NoGen /\ postCalled = TRUE
    /\ val = 0 /\ wire = Undriven /\ edges = 0

\* Fault: a generator that missed its tick_post is resumed as it is.
UsableResumed == gen

\* The generator tick_pre resumes: one left at its first yield is discarded.
Usable == IF postCalled THEN gen ELSE NoGen

\* next() returns: no iteration is left, or there is no generator yet.
Exhausted(g) == g.pos = "none" \/ (g.pos # "yielded" /\ g.n = Cycles)

\* next(gen) in tick_pre, to the first yield of an iteration; an exhausted
\* generator is replaced by a new one, whose locals start afresh.
TickPre ==
    /\ TickPrePhase
    /\ LET g == IF Exhausted(Usable) THEN Fresh ELSE Usable
           v == IF g = Fresh /\ local THEN 0 ELSE val
       IN  IF g.pos = "yielded"
           THEN val' = v + 1 /\ gen' = [g EXCEPT !.pos = "second"] /\ UNCHANGED wire
           ELSE val' = v /\ gen' = [n |-> g.n + 1, pos |-> "yielded"] /\ wire' = v
    /\ postCalled' = FALSE
    /\ UNCHANGED <<local, edges>>

Settle == SettlePhase /\ UNCHANGED <<local, gen, postCalled, val, wire, edges>>

\* sample_pre does nothing.
SamplePre == SamplePrePhase /\ UNCHANGED <<local, gen, postCalled, val, wire, edges>>

RunStep(toggled) ==
    /\ edges < MaxEdges
    /\ RunStepPhase(toggled)
    /\ UNCHANGED <<local, gen, postCalled, val, wire, edges>>

Stop == MayStop /\ StopPhase /\ UNCHANGED <<local, gen, postCalled, val, wire, edges>>

\* Fault: an edge of any clock is committed.
CommitsAny == TRUE

Commits == Own \in risen

\* next(gen) in tick_post: the commit code, to the second yield or the end.
TickPost ==
    /\ TickPostPhase
    /\ IF Commits
       THEN /\ val' = val + 1
            /\ gen' = IF gen.n = Cycles /\ ~TailYield THEN NoGen ELSE [gen EXCEPT !.pos = "second"]
            /\ postCalled' = TRUE
       ELSE UNCHANGED <<gen, postCalled, val>>
    /\ edges' = IF Own \in risen THEN edges + 1 ELSE edges
    /\ UNCHANGED <<local, wire>>

\* The bound on edges is reached.
Done == phase = "advance" /\ edges = MaxEdges /\ UNCHANGED vars

Next ==
    \/ TickPre \/ Settle \/ SamplePre \/ Stop \/ TickPost \/ Done
    \/ \E t \in SUBSET Domains : RunStep(t)

Spec == Init /\ [][Next]_vars
-----------------------------------------------------------------------------
\* A generator whose state outlives it advances once per edge of its own clock:
\* after n edges it drives the n-th value, however often tick_pre ran.
OneValuePerEdge ==
    phase = "settle" /\ ~local => wire = edges

\* A tick_pre after an edge of another domain, or after a step that failed,
\* discards the generator: what it keeps outside is driven again, what it kept
\* in a local is lost and its first value is driven.
Redrives ==
    [][phase = "idle" /\ phase' = "settle" /\ wire # Undriven /\ Own \notin risen
        => wire' = IF local THEN 0 ELSE wire]_vars
=============================================================================
