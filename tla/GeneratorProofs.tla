-------------------------- MODULE GeneratorProofs --------------------------
(***************************************************************************)
(* A generator whose counter is kept outside it (~local) advances once per *)
(* edge of its own clock, and one with a local counter starts afresh when  *)
(* its edge did not come, for every set of domains, every number of        *)
(* iterations and every bound on the edges.  The argument: tick_pre never  *)
(* resumes a generator left at its first yield, so only tick_post counts.  *)
(***************************************************************************)
EXTENDS GeneratorBench, TLAPS

TypeOK ==
    /\ CoordinatorOK
    /\ gen \in [n : Nat, pos : {"none", "start", "yielded", "second"}]
    /\ postCalled \in BOOLEAN /\ local \in BOOLEAN
    /\ val \in Nat /\ wire \in Nat /\ edges \in Nat

\* A generator still at its first yield is one whose tick_post is missing.
ResumedAfterPost == postCalled => gen.pos # "yielded"

\* From tick_pre until the edge of its clock a generator's tick_post is missing.
PostMissing == phase # "idle" \/ (wire # Undriven /\ Own \notin risen) => ~postCalled

\* The signal carries the counter from tick_pre until the next own edge.
WireHolds ==
    \/ phase # "idle" /\ wire = val
    \/ phase = "idle" /\ (wire = val \/ wire = Undriven \/ Own \in risen)

GeneratorInv ==
    /\ TypeOK /\ ResumedAfterPost /\ PostMissing
    /\ ~local => WireHolds /\ val = edges

\* Every state at the start satisfies the inductive invariant.
LEMMA GeneratorInit == Init => GeneratorInv
BY GeneratorAssumption
   DEF Init, CoordinatorInit, NoGen, Undriven, GeneratorInv, TypeOK, CoordinatorOK,
       ResumedAfterPost, PostMissing, WireHolds

\* tick_pre drives the counter: as it is when it is kept outside, from 0 when
\* it is local and the generator has to be made again.
LEMMA TickPreDrives ==
    ASSUME GeneratorInv, TickPre
    PROVE  /\ val' \in Nat /\ wire' = val'
           /\ ~local => val' = val
           /\ local /\ ~postCalled => val' = 0
           /\ gen' \in [n : Nat, pos : {"yielded"}]
<1> DEFINE g == IF Exhausted(Usable) THEN Fresh ELSE Usable
<1>1. g \in [n : Nat, pos : {"start", "second"}]
  <2>1. CASE postCalled
    BY <2>1 DEF GeneratorInv, TypeOK, ResumedAfterPost, Usable, Exhausted, Fresh
  <2>2. CASE ~postCalled
    BY <2>2 DEF Usable, Exhausted, Fresh, NoGen
  <2> QED
    BY <2>1, <2>2
<1>2. g.pos # "yielded" /\ g.n \in Nat
  BY <1>1
<1>3. /\ val' = (IF g = Fresh /\ local THEN 0 ELSE val) /\ wire' = val'
      /\ gen' = [n |-> g.n + 1, pos |-> "yielded"]
  BY <1>2 DEF TickPre
<1>4. ~postCalled => g = Fresh
  BY DEF Usable, Exhausted, NoGen
<1>5. val \in Nat
  BY DEF GeneratorInv, TypeOK
<1> HIDE DEF g
<1> QED
  BY <1>2, <1>3, <1>4, <1>5

\* Every step keeps the inductive invariant.
LEMMA GeneratorStep ==
    GeneratorInv /\ [Next]_vars => GeneratorInv'
<1> SUFFICES ASSUME GeneratorInv, [Next]_vars PROVE GeneratorInv'
  OBVIOUS
<1> USE DEF GeneratorInv, TypeOK, CoordinatorOK, ResumedAfterPost, PostMissing, WireHolds, Undriven
<1>1. CASE TickPre
  <2>1. /\ val' \in Nat /\ wire' = val' /\ (~local => val' = val)
        /\ gen' \in [n : Nat, pos : {"yielded"}]
    BY <1>1, TickPreDrives
  <2> QED
    BY <1>1, <2>1 DEF TickPre, TickPrePhase
<1>2. CASE Settle
  BY <1>2 DEF Settle, SettlePhase
<1>3. CASE SamplePre
  BY <1>3 DEF SamplePre, SamplePrePhase
<1>4. CASE Stop
  BY <1>4 DEF Stop, StopPhase
<1>5. CASE TickPost
  <2>1. CASE Own \in risen
    <3>1. gen' \in [n : Nat, pos : {"none", "second"}]
      BY <1>5, <2>1 DEF TickPost, Commits, NoGen
    <3> QED
      BY <1>5, <2>1, <3>1 DEF TickPost, TickPostPhase, Commits
  <2>2. CASE Own \notin risen
    BY <1>5, <2>2 DEF TickPost, TickPostPhase, Commits
  <2> QED
    BY <2>1, <2>2
<1>6. CASE Done
  BY <1>6 DEF Done, vars, coordination
<1>7. ASSUME NEW t \in SUBSET Domains, RunStep(t) PROVE GeneratorInv'
  <2>1. clk' \in [Domains -> 0 .. 1] /\ risen' \in SUBSET Domains
    BY <1>7 DEF RunStep, RunStepPhase, ClockLevels, Rising
  <2> QED
    BY <1>7, <2>1 DEF RunStep, RunStepPhase
<1>8. CASE UNCHANGED vars
  BY <1>8 DEF vars, coordination
<1> QED
  BY <1>1, <1>2, <1>3, <1>4, <1>5, <1>6, <1>7, <1>8 DEF Next

\* A counter kept outside the generator (_generator.py) takes one value per edge
\* of the endpoint's own clock, however many edges the other domains have.
THEOREM OneValuePerEdgeHolds == Spec => []OneValuePerEdge
<1>1. GeneratorInv => OneValuePerEdge
  BY DEF GeneratorInv, WireHolds, OneValuePerEdge
<1> QED
  BY <1>1, GeneratorInit, GeneratorStep, PTL DEF Spec

\* A tick_pre that follows an edge of another domain, or a step that failed,
\* drives the value already on the signal when the counter is kept outside the
\* generator, and the first value when it is a local of it (_generator.py's
\* own example).
THEOREM RedrivesHolds == Spec => Redrives
<1>1. ASSUME GeneratorInv, [Next]_vars
      PROVE  [phase = "idle" /\ phase' = "settle" /\ wire # Undriven /\ Own \notin risen
                => wire' = IF local THEN 0 ELSE wire]_vars
  <2> SUFFICES ASSUME phase = "idle", phase' = "settle", wire # Undriven, Own \notin risen
               PROVE  wire' = IF local THEN 0 ELSE wire
    OBVIOUS
  <2>1. TickPre
    BY <1>1 DEF Next, vars, coordination, Settle, SettlePhase, SamplePre, SamplePrePhase,
                Stop, StopPhase, TickPost, TickPostPhase, Done, RunStep, RunStepPhase
  <2>2. /\ wire' = val' /\ (~local => val' = val)
        /\ (local /\ ~postCalled => val' = 0)
    BY <1>1, <2>1, TickPreDrives
  <2>3. ~postCalled /\ local \in BOOLEAN
    BY <1>1 DEF GeneratorInv, PostMissing, TypeOK
  <2> QED
    BY <1>1, <2>2, <2>3 DEF GeneratorInv, WireHolds
<1> QED
  BY <1>1, GeneratorInit, GeneratorStep, PTL DEF Spec, Redrives
=============================================================================
