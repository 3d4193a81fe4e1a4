------------------------- MODULE StreamBenchProofs -------------------------
(***************************************************************************)
(* Source, design and sink implement a first-in first-out channel, for any *)
(* depth of the design, any two clocks and any pauses; and the monitor of  *)
(* an AXI-Stream sink, which the same steps run, never accuses the design. *)
(***************************************************************************)
EXTENDS AxisBench, SequenceTheorems, TLAPS

\* From tick_pre to tick_post the wires show what the endpoints mean to drive.
WiresDriven ==
    phase # "idle" =>
        /\ valid <=> ~paused /\ current # <<>>
        /\ valid => data = Head(current)
        /\ ready <=> ~sinkPaused

\* From settle to the edge the outputs of the design follow its registers.
OutputsSettled ==
    phase \in {"sample", "advance"} =>
        /\ dutReady <=> IF Depth = 0 THEN ready ELSE Len(store) < Depth
        /\ dutValid <=> IF Depth = 0 THEN valid ELSE store # <<>>
        /\ dutValid => dutData = IF Depth = 0 THEN data ELSE Head(store)

\* Before the edge the sampled flags are the handshakes on the wires.
HandshakesSampled ==
    phase = "advance" =>
        /\ sampled <=> valid /\ dutReady
        /\ sinkSampled <=> dutValid /\ ready
        /\ sinkSampled => sinkData = dutData

\* After the edge they are what is left to commit.
CommitsPending ==
    phase = "post" =>
        /\ sampled => ~paused /\ current # <<>>
        /\ sinkSampled => ~sinkPaused /\ sinkData \in Items
        /\ Depth = 0 => (sampled <=> sinkSampled) /\ (sampled => current = <<sinkData>>)

PhaseInv == WiresDriven /\ OutputsSettled /\ HandshakesSampled /\ CommitsPending
BenchInv == TypeOK /\ PhaseInv
-----------------------------------------------------------------------------
\* What the other proofs use of sequences of items.
LEMMA OptionSeq ==
    ASSUME NEW s \in Option(Items)
    PROVE  /\ s \in Seq(Items)
           /\ s # <<>> => Head(s) \in Items /\ s = <<Head(s)>>
<1>1. CASE s = <<>>
    BY <1>1
<1>2. CASE \E i \in Items : s = <<i>>
    <2> PICK i \in Items : s = <<i>>
        BY <1>2
    <2> QED
        OBVIOUS
<1> QED
    BY <1>1, <1>2 DEF Option

\* A sequence is its head followed by its tail.
LEMMA HeadThenTail ==
    ASSUME NEW s \in Seq(Items), s # <<>>
    PROVE  /\ Head(s) \in Items /\ Tail(s) \in Seq(Items)
           /\ <<Head(s)>> \in Seq(Items)
           /\ <<Head(s)>> \o Tail(s) = s
           /\ Len(Tail(s)) = Len(s) - 1
<1>1. Head(s) \in Items /\ Tail(s) \in Seq(Items) /\ Len(Tail(s)) = Len(s) - 1
    BY HeadTailProperties
<1>2. s[1] = Head(s) /\ SubSeq(s, 2, Len(s)) = Tail(s) /\ Len(s) \in Nat \ {0}
    BY TailIsSubSeq, EmptySeq
<1>3. SubSeq(s, 1, Len(s)) = <<s[1]>> \o SubSeq(s, 1 + 1, Len(s))
    BY <1>2, SubSeqRecursiveFirst
<1>4. SubSeq(s, 1, Len(s)) = s
    BY SubSeqFull
<1> QED
    BY <1>1, <1>2, <1>3, <1>4

\* An item in front is the head, and what follows it the tail.
LEMMA FrontItem ==
    ASSUME NEW i \in Items, NEW s \in Seq(Items)
    PROVE  /\ <<i>> \in Seq(Items)
           /\ <<i>> \o s # <<>>
           /\ Head(<<i>> \o s) = i
           /\ Tail(<<i>> \o s) = s
<1>1. <<i>> \in Seq(Items) /\ Len(<<i>>) = 1
    OBVIOUS
<1>2. /\ <<i>> \o s \in Seq(Items)
      /\ Len(<<i>> \o s) = 1 + Len(s)
      /\ (<<i>> \o s)[1] = i
    BY <1>1, ConcatProperties, LenProperties
<1>3. <<i>> \o s # <<>> /\ Head(<<i>> \o s) = i
    BY <1>2, LenProperties
<1>4. Tail(<<i>> \o s) = s
    BY <1>1, <1>2, <1>3, SubSeqOfConcat2, TailIsSubSeq
<1> QED
    BY <1>1, <1>3, <1>4
-----------------------------------------------------------------------------
\* Before the first step() nothing is driven, sampled or stored.
LEMMA InitEstablishes == Init => BenchInv
<1> SUFFICES ASSUME Init PROVE BenchInv
    OBVIOUS
<1>1. TypeOK
    <2>1. CoordinatorOK
        BY DEF Init, CoordinatorInit, CoordinatorOK
    <2>2. store = <<>> /\ Len(store) <= Depth /\ store \in Seq(Items)
        BY BenchAssumption, EmptySeq DEF Init
    <2>3. queue \in Seq(Items) /\ received \in Seq(Items) /\ current \in Option(Items)
        BY EmptySeq DEF Init, Option
    <2>4. sent \in 0 .. MaxSent
        BY BenchAssumption DEF Init
    <2> QED
        BY <2>1, <2>2, <2>3, <2>4 DEF Init, TypeOK
<1>2. PhaseInv
    BY DEF Init, CoordinatorInit, PhaseInv, WiresDriven, OutputsSettled, HandshakesSampled, CommitsPending
<1> QED
    BY <1>1, <1>2 DEF BenchInv

\* Calls of the testbench touch the queues between steps only.
LEMMA CallsPreserve ==
    ASSUME BenchInv, (\E i \in Items : Send(i)) \/ Recv
    PROVE  BenchInv'
<1>1. CASE \E i \in Items : Send(i)
    <2> PICK i \in Items : Send(i)
        BY <1>1
    <2>1. queue' \in Seq(Items) /\ sent' \in 0 .. MaxSent
        BY BenchAssumption, AppendProperties DEF Send, BenchInv, TypeOK
    <2>2. TypeOK'
        BY <2>1 DEF Send, BenchInv, TypeOK, CoordinatorOK, coordination, sink, driven, design
    <2>3. PhaseInv'
        BY DEF Send, coordination, PhaseInv, WiresDriven, OutputsSettled, HandshakesSampled, CommitsPending
    <2> QED
        BY <2>2, <2>3 DEF BenchInv
<1>2. CASE Recv
    <2>1. received' \in Seq(Items)
        BY <1>2, HeadThenTail DEF Recv, BenchInv, TypeOK
    <2>2. TypeOK'
        BY <1>2, <2>1 DEF Recv, BenchInv, TypeOK, CoordinatorOK, coordination, source, driven, design
    <2>3. PhaseInv'
        BY <1>2 DEF Recv, coordination, PhaseInv, WiresDriven, OutputsSettled, HandshakesSampled, CommitsPending
    <2> QED
        BY <2>2, <2>3 DEF BenchInv
<1> QED
    BY <1>1, <1>2

\* tick_pre drives the wires from the endpoints' state.
LEMMA TickPrePreserves ==
    ASSUME BenchInv, TickPre
    PROVE  BenchInv'
<1> PICK p \in Pauses, q \in Pauses : SourceTickPre(p) /\ SinkTickPre(q)
    BY DEF TickPre
<1>0. p \in BOOLEAN /\ q \in BOOLEAN
    BY BenchAssumption
<1>1. queue' \in Seq(Items) /\ current' \in Option(Items)
    <2>1. CASE Fetches
        BY <2>1, HeadThenTail DEF Fetches, SourceTickPre, BenchInv, TypeOK, Option
    <2>2. CASE ~Fetches
        BY <2>2 DEF SourceTickPre, BenchInv, TypeOK
    <2> QED
        BY <2>1, <2>2
<1>2. /\ valid' \in BOOLEAN /\ data' \in Items \cup {NoItem}
      /\ valid' <=> ~paused' /\ current' # <<>>
      /\ valid' => data' = Head(current')
    BY <1>1, OptionSeq DEF SourceTickPre
<1>3. TypeOK'
    BY <1>0, <1>1, <1>2
    DEF TickPre, TickPrePhase, SourceTickPre, SinkTickPre, BenchInv, TypeOK, CoordinatorOK, design
<1>4. PhaseInv'
    BY <1>2 DEF TickPre, TickPrePhase, SinkTickPre,
        PhaseInv, WiresDriven, OutputsSettled, HandshakesSampled, CommitsPending
<1> QED
    BY <1>3, <1>4 DEF BenchInv

\* The design's outputs have their types, whatever its registers hold.
LEMMA OutputsTyped ==
    ASSUME TypeOK, NEW s \in Seq(Items), Outputs(s)
    PROVE  dutReady' \in BOOLEAN /\ dutValid' \in BOOLEAN /\ dutData' \in Items \cup {NoItem}
<1>1. dutReady' \in BOOLEAN
    <2>1. CASE Depth = 0
        BY <2>1 DEF Outputs, TypeOK
    <2>2. CASE Depth # 0
        BY <2>2 DEF Outputs
    <2> QED
        BY <2>1, <2>2
<1>2. dutValid' \in BOOLEAN
    <2>1. CASE Depth = 0
        BY <2>1 DEF Outputs, TypeOK
    <2>2. CASE Depth # 0
        BY <2>2 DEF Outputs
    <2> QED
        BY <2>1, <2>2
<1>3. CASE Depth = 0 \/ s = <<>>
    BY <1>1, <1>2, <1>3 DEF Outputs, TypeOK
<1>4. CASE Depth # 0 /\ s # <<>>
    <2>1. Head(s) \in Items
        BY <1>4, HeadThenTail
    <2> QED
        BY <1>1, <1>2, <1>4, <2>1 DEF Outputs
<1> QED
    BY <1>3, <1>4

\* sim.settle() brings the outputs up to date.
LEMMA SettlePreserves ==
    ASSUME BenchInv, Settle
    PROVE  BenchInv'
<1>1. dutReady' \in BOOLEAN /\ dutValid' \in BOOLEAN /\ dutData' \in Items \cup {NoItem}
    <2>1. TypeOK /\ store \in Seq(Items) /\ Outputs(store)
        BY DEF Settle, BenchInv, TypeOK
    <2> QED
        BY <2>1, OutputsTyped
<1>2. TypeOK'
    BY <1>1 DEF Settle, SettlePhase, BenchInv, TypeOK, CoordinatorOK, source, sink, driven
<1>3. OutputsSettled'
    BY DEF Settle, Outputs, OutputsSettled, driven
<1>4. WiresDriven' /\ HandshakesSampled' /\ CommitsPending'
    BY DEF Settle, SettlePhase, BenchInv, PhaseInv, WiresDriven, HandshakesSampled, CommitsPending, source, sink, driven
<1> QED
    BY <1>2, <1>3, <1>4 DEF BenchInv, PhaseInv

\* sample_pre records the handshakes on settled wires.
LEMMA SamplePrePreserves ==
    ASSUME BenchInv, SamplePre
    PROVE  BenchInv'
<1>1. /\ sampled' \in BOOLEAN /\ sinkSampled' \in BOOLEAN /\ sinkData' \in Items \cup {NoItem}
      /\ sampled' <=> ~paused /\ current # <<>> /\ dutReady
      /\ sinkSampled' <=> ~sinkPaused /\ dutValid /\ ready
      /\ sinkSampled' => sinkData' = dutData
    BY DEF SamplePre, SourceSamplePre, SinkSamplePre, BenchInv, TypeOK
<1>2. TypeOK'
    BY <1>1 DEF SamplePre, SamplePrePhase, BenchInv, TypeOK, CoordinatorOK, driven, design
<1>3. WiresDriven' /\ OutputsSettled' /\ CommitsPending'
    BY DEF SamplePre, SamplePrePhase, BenchInv, PhaseInv, WiresDriven, OutputsSettled, CommitsPending, driven, design
<1>4. HandshakesSampled'
    BY <1>1 DEF SamplePre, SamplePrePhase, BenchInv, PhaseInv, WiresDriven, HandshakesSampled, driven, design
<1> QED
    BY <1>2, <1>3, <1>4 DEF BenchInv, PhaseInv

\* tick_post commits items only, and ends the step.
LEMMA TickPostPreserves ==
    ASSUME BenchInv, TickPost
    PROVE  BenchInv'
<1>1. current' \in Option(Items)
    BY DEF TickPost, SourceTickPost, BenchInv, TypeOK, Option
<1>2. received' \in Seq(Items)
    <2>1. CASE received' = received
        BY <2>1 DEF BenchInv, TypeOK
    <2>2. CASE sinkSampled /\ received' = Append(received, sinkData)
        <3>1. sinkData \in Items
            BY <2>2 DEF TickPost, TickPostPhase, BenchInv, PhaseInv, CommitsPending
        <3>2. received \in Seq(Items)
            BY DEF BenchInv, TypeOK
        <3> QED
            BY <2>2, <3>1, <3>2, AppendProperties
    <2> QED
        BY <2>1, <2>2 DEF TickPost, SinkTickPost
<1>3. TypeOK'
    BY <1>1, <1>2 DEF TickPost, TickPostPhase, BenchInv, TypeOK, CoordinatorOK, driven, design
<1>4. PhaseInv'
    BY DEF TickPost, TickPostPhase, PhaseInv, WiresDriven, OutputsSettled, HandshakesSampled, CommitsPending
<1> QED
    BY <1>3, <1>4 DEF BenchInv

\* A step() that gives up leaves the endpoints as they are.
LEMMA StopPreserves ==
    ASSUME BenchInv, Stop
    PROVE  BenchInv'
<1>1. CoordinatorOK'
    BY DEF Stop, StopPhase, BenchInv, TypeOK, CoordinatorOK
<1>2. TypeOK'
    BY <1>1 DEF Stop, BenchInv, TypeOK, source, sink, driven, design
<1>3. PhaseInv'
    BY DEF Stop, StopPhase, PhaseInv, WiresDriven, OutputsSettled, HandshakesSampled, CommitsPending
<1> QED
    BY <1>2, <1>3 DEF BenchInv

\* At the edge the design hands over and accepts exactly what was sampled.
LEMMA ClockedAsSampled ==
    ASSUME BenchInv, phase = "advance", NEW rose \in SUBSET Domains
    PROVE  /\ Pops(rose) <=> Depth > 0 /\ SinkDomain \in rose /\ sinkSampled
           /\ Pushes(rose) <=> Depth > 0 /\ SourceDomain \in rose /\ sampled
           /\ Pops(rose) => store # <<>> /\ sinkData = Head(store)
           /\ Pushes(rose) => Len(store) < Depth /\ current = <<data>> /\ data \in Items
<1>1. sampled <=> valid /\ dutReady
    BY DEF BenchInv, PhaseInv, HandshakesSampled
<1>2. /\ sinkSampled <=> dutValid /\ ready
      /\ sinkSampled => sinkData = dutData
    BY DEF BenchInv, PhaseInv, HandshakesSampled
<1>3. Depth \in Nat
    BY BenchAssumption
<1>4. ASSUME Depth > 0, dutValid PROVE store # <<>> /\ dutData = Head(store)
    BY <1>3, <1>4 DEF BenchInv, PhaseInv, OutputsSettled
<1>5. ASSUME Depth > 0, dutReady PROVE Len(store) < Depth
    BY <1>3, <1>5 DEF BenchInv, PhaseInv, OutputsSettled
<1>6. ASSUME valid PROVE current = <<data>> /\ data \in Items
    <2>1. current # <<>> /\ data = Head(current)
        BY <1>6 DEF BenchInv, PhaseInv, WiresDriven
    <2>2. current \in Option(Items)
        BY DEF BenchInv, TypeOK
    <2> QED
        BY <2>1, <2>2, OptionSeq
<1> QED
    BY <1>1, <1>2, <1>4, <1>5, <1>6 DEF Pops, Pushes

\* The registers hold items, no more than there is room for.
LEMMA ClockedTyped ==
    ASSUME BenchInv, phase = "advance", NEW rose \in SUBSET Domains
    PROVE  Clocked(rose) \in Seq(Items) /\ Len(Clocked(rose)) <= Depth
<1> DEFINE kept == IF Pops(rose) THEN Tail(store) ELSE store
           new == IF Pushes(rose) THEN <<data>> ELSE <<>>
<1>1. store \in Seq(Items) /\ Len(store) \in Nat /\ Len(store) <= Depth /\ Depth \in Nat
    BY BenchAssumption, LenProperties DEF BenchInv, TypeOK
<1>2. kept \in Seq(Items) /\ Len(kept) \in Nat /\ Len(kept) <= Len(store)
    <2>1. CASE Pops(rose)
        BY <1>1, <2>1, ClockedAsSampled, HeadThenTail, LenProperties
    <2>2. CASE ~Pops(rose)
        BY <1>1, <2>2
    <2> QED
        BY <2>1, <2>2
<1>3. CASE Pushes(rose)
    <2>1. Len(store) < Depth /\ data \in Items
        BY <1>3, ClockedAsSampled
    <2>2. new \in Seq(Items) /\ Len(new) = 1
        BY <1>3, <2>1
    <2> HIDE DEF kept, new
    <2>3. kept \o new \in Seq(Items) /\ Len(kept \o new) = Len(kept) + 1
        <3>1. kept \o new \in Seq(Items) /\ Len(kept \o new) = Len(kept) + Len(new)
            BY <1>2, <2>2, ConcatProperties
        <3> QED
            BY <2>2, <3>1
    <2>4. Len(kept \o new) <= Depth
        BY <1>1, <1>2, <2>1, <2>3
    <2> QED
        BY <2>3, <2>4 DEF Clocked, kept, new
<1>4. CASE ~Pushes(rose)
    <2>1. new = <<>>
        BY <1>4
    <2> HIDE DEF kept, new
    <2>2. kept \o new = kept
        BY <1>2, <2>1, ConcatEmptySeq
    <2>3. kept \o new \in Seq(Items) /\ Len(kept \o new) <= Depth
        BY <1>1, <1>2, <2>2
    <2> QED
        BY <2>3 DEF Clocked, kept, new
<1> QED
    BY <1>3, <1>4

\* The sink samples items, and through a wire the one the source offers.
LEMMA SampledItem ==
    ASSUME BenchInv, phase = "advance"
    PROVE  /\ sinkSampled => ~sinkPaused /\ sinkData \in Items
           /\ Depth = 0 => (sampled <=> sinkSampled) /\ (sampled => current = <<sinkData>>)
<1>1. sinkSampled => ~sinkPaused
    BY DEF BenchInv, PhaseInv, WiresDriven, HandshakesSampled
<1>2. ASSUME valid PROVE current = <<data>> /\ data \in Items
    <2>1. current # <<>> /\ data = Head(current)
        BY <1>2 DEF BenchInv, PhaseInv, WiresDriven
    <2>2. current \in Option(Items)
        BY DEF BenchInv, TypeOK
    <2> QED
        BY <2>1, <2>2, OptionSeq
<1>3. CASE Depth = 0
    <2>1. (dutReady <=> ready) /\ (dutValid <=> valid) /\ (dutValid => dutData = data)
        BY <1>3 DEF BenchInv, PhaseInv, OutputsSettled
    <2> QED
        BY <1>1, <1>2, <2>1 DEF BenchInv, PhaseInv, HandshakesSampled
<1>4. CASE Depth # 0
    <2>1. dutValid => store # <<>> /\ dutData = Head(store)
        BY <1>4 DEF BenchInv, PhaseInv, OutputsSettled
    <2>2. dutValid => dutData \in Items
        BY <2>1, HeadThenTail DEF BenchInv, TypeOK
    <2> QED
        BY <1>1, <1>4, <2>2 DEF BenchInv, PhaseInv, HandshakesSampled
<1> QED
    BY <1>3, <1>4

\* Between sampling and the edge nothing changes; at the edge the flags become
\* what is to be committed.
LEMMA RunStepPreserves ==
    ASSUME BenchInv, NEW t \in SUBSET Domains, RunStep(t)
    PROVE  BenchInv'
<1>0. phase = "advance" /\ Rising(t) \in SUBSET Domains /\ phase' \in {"advance", "post"}
    BY DEF RunStep, RunStepPhase, Rising
<1>1. store' \in Seq(Items) /\ Len(store') <= Depth
    BY <1>0, ClockedTyped DEF RunStep
<1>2. dutReady' \in BOOLEAN /\ dutValid' \in BOOLEAN /\ dutData' \in Items \cup {NoItem}
    BY <1>1, OutputsTyped DEF RunStep, BenchInv
<1>3. CoordinatorOK'
    BY <1>0 DEF RunStep, RunStepPhase, ClockLevels, BenchInv, TypeOK, CoordinatorOK
<1>4. TypeOK'
    BY <1>1, <1>2, <1>3 DEF RunStep, BenchInv, TypeOK, source, sink, driven
<1>5. WiresDriven'
    BY <1>0 DEF RunStep, BenchInv, PhaseInv, WiresDriven, source, sink, driven
<1>6. OutputsSettled'
    BY DEF RunStep, Outputs, OutputsSettled, driven
<1>7. CASE phase' = "advance"
    <2>1. Rising(t) = {}
        BY <1>7 DEF RunStep, RunStepPhase
    <2>2. store' = store
        <3>1. ~Pops(Rising(t)) /\ ~Pushes(Rising(t))
            BY <2>1 DEF Pops, Pushes
        <3>2. store \in Seq(Items)
            BY DEF BenchInv, TypeOK
        <3> QED
            BY <3>1, <3>2, ConcatEmptySeq DEF RunStep, Clocked
    <2>3. (dutReady' <=> dutReady) /\ (dutValid' <=> dutValid) /\ (dutValid => dutData' = dutData)
        BY <1>0, <1>6, <1>7, <2>2 DEF RunStep, BenchInv, PhaseInv, OutputsSettled, driven
    <2>4. HandshakesSampled'
        BY <1>0, <2>3 DEF RunStep, BenchInv, PhaseInv, HandshakesSampled, source, sink, driven
    <2>5. CommitsPending'
        BY <1>7 DEF CommitsPending
    <2> QED
        BY <1>4, <1>5, <1>6, <2>4, <2>5 DEF BenchInv, PhaseInv
<1>8. CASE phase' = "post"
    <2>1. HandshakesSampled'
        BY <1>8 DEF HandshakesSampled
    <2>2. sampled => ~paused /\ current # <<>>
        BY <1>0 DEF BenchInv, PhaseInv, WiresDriven, HandshakesSampled
    <2>3. sinkSampled => ~sinkPaused /\ sinkData \in Items
        BY <1>0, SampledItem
    <2>4. Depth = 0 => (sampled <=> sinkSampled) /\ (sampled => current = <<sinkData>>)
        BY <1>0, SampledItem
    <2>5. CommitsPending'
        BY <2>2, <2>3, <2>4 DEF RunStep, CommitsPending, source, sink
    <2> QED
        BY <1>4, <1>5, <1>6, <2>1, <2>5 DEF BenchInv, PhaseInv
<1> QED
    BY <1>0, <1>7, <1>8
-----------------------------------------------------------------------------
\* Every step keeps the invariant.
LEMMA StepPreserves ==
    ASSUME BenchInv, [Next]_vars
    PROVE  BenchInv'
<1>1. CASE Step
    BY <1>1, TickPrePreserves, SettlePreserves, SamplePrePreserves, TickPostPreserves, RunStepPreserves DEF Step
<1>2. CASE Stop
    BY <1>2, StopPreserves
<1>3. CASE (\E i \in Items : Send(i)) \/ Recv
    BY <1>3, CallsPreserve
<1>4. CASE UNCHANGED vars
    BY <1>4 DEF vars, coordination, source, sink, driven, design, BenchInv, TypeOK, CoordinatorOK,
        PhaseInv, WiresDriven, OutputsSettled, HandshakesSampled, CommitsPending
<1> QED
    BY <1>1, <1>2, <1>3, <1>4 DEF Next

\* The invariant of the phases of step() holds for ever.
LEMMA BenchInvariant == Spec => []BenchInv
BY InitEstablishes, StepPreserves, PTL DEF Spec

\* The endpoints' attributes, the wires and the design keep their domains: in
\* particular tick_post never receives anything but an item, and no edge
\* overfills the design.
THEOREM BenchTyped == Spec => []TypeOK
<1>1. BenchInv => TypeOK
    BY DEF BenchInv
<1> QED
    BY <1>1, BenchInvariant, PTL

\* At an edge the design accepts an item exactly if the source's sample_pre
\* said so, and hands over exactly the item the sink's sample_pre took.
THEOREM SidesAgree == Spec => []BothSidesAgree
<1>1. BenchInv => BothSidesAgree
    <2> SUFFICES ASSUME BenchInv, phase = "advance", Depth > 0
                 PROVE  /\ sampled <=> valid /\ dutReady
                        /\ sinkSampled <=> dutValid /\ ready
                        /\ sinkSampled => sinkData = Head(store)
        BY DEF BothSidesAgree
    <2>1. Depth # 0
        BY BenchAssumption
    <2> QED
        BY <2>1 DEF BenchInv, PhaseInv, HandshakesSampled, OutputsSettled
<1> QED
    BY <1>1, BenchInvariant, PTL
-----------------------------------------------------------------------------
(* The refinement of Channel.                                              *)

\* Concatenation of sequences of items is associative.
LEMMA ItemsAssociative == \A r, s, t \in Seq(Items) : (r \o s) \o t = r \o (s \o t)
BY ConcatAssociative

\* Appending to the last part appends to the whole.
LEMMA AppendLast ==
    ASSUME NEW s \in Seq(Items), NEW t \in Seq(Items), NEW i \in Items
    PROVE  s \o Append(t, i) = Append(s \o t, i)
<1>1. <<i>> \in Seq(Items) /\ s \o t \in Seq(Items)
    BY ConcatProperties
<1>2. Append(t, i) = t \o <<i>> /\ Append(s \o t, i) = (s \o t) \o <<i>>
    BY <1>1, AppendIsConcat
<1> QED
    BY <1>1, <1>2, ConcatAssociative

\* The parts of InFlight are sequences of items.
LEMMA PartsTyped ==
    ASSUME BenchInv
    PROVE  /\ Arriving \in Seq(Items) /\ Leaving \in Seq(Items)
           /\ store \in Seq(Items) /\ queue \in Seq(Items) /\ current \in Seq(Items)
<1>1. store \in Seq(Items) /\ queue \in Seq(Items) /\ current \in Seq(Items)
    BY OptionSeq DEF BenchInv, TypeOK
<1>2. Leaving \in Seq(Items)
    BY <1>1, EmptySeq DEF Leaving
<1>3. CASE phase = "post" /\ SinkDomain \in risen /\ sinkSampled
    <2>1. sinkData \in Items
        BY <1>3 DEF BenchInv, PhaseInv, CommitsPending
    <2>2. Arriving = <<sinkData>>
        BY <1>3 DEF Arriving
    <2> QED
        BY <1>1, <1>2, <2>1, <2>2
<1>4. CASE ~(phase = "post" /\ SinkDomain \in risen /\ sinkSampled)
    BY <1>1, <1>2, <1>4, EmptySeq DEF Arriving
<1> QED
    BY <1>3, <1>4

\* Outside the post phase nothing is arriving or leaving.
LEMMA QuietInFlight ==
    ASSUME BenchInv, phase # "post"
    PROVE  InFlight = (store \o current) \o queue
<1>1. Arriving = <<>> /\ Leaving = current
    BY DEF Arriving, Leaving
<1>2. <<>> \o store = store
    BY PartsTyped, ConcatEmptySeq
<1> QED
    BY <1>1, <1>2 DEF InFlight

\* A call of send() puts the item, one of recv() gets one.
LEMMA CallsSimulate ==
    ASSUME BenchInv, BenchInv', (\E i \in Items : Send(i)) \/ Recv
    PROVE  Abstract!Next
<1>1. CASE \E i \in Items : Send(i)
    <2> PICK i \in Items : Send(i)
        BY <1>1
    <2>1. phase # "post" /\ phase' # "post" /\ store' = store /\ current' = current
        BY DEF Send, coordination, design
    <2>2. InFlight = (store \o current) \o queue /\ InFlight' = (store \o current) \o Append(queue, i)
        BY <2>1, QuietInFlight DEF Send, InFlight, Arriving, Leaving
    <2>3. store \o current \in Seq(Items) /\ queue \in Seq(Items)
        BY PartsTyped, ConcatProperties
    <2>4. InFlight' = Append(InFlight, i)
        BY <2>2, <2>3, AppendLast
    <2> QED
        BY <2>4 DEF Send, sink, Abstract!Next, Abstract!Put
<1>2. CASE Recv
    <2>1. InFlight' = InFlight
        BY <1>2 DEF Recv, coordination, source, design, InFlight, Arriving, Leaving
    <2> QED
        BY <1>2, <2>1 DEF Recv, Abstract!Next, Abstract!Get
<1> QED
    BY <1>1, <1>2

\* tick_pre moves an item from the queue to _current, which is next to it.
LEMMA TickPreStutters ==
    ASSUME BenchInv, BenchInv', TickPre
    PROVE  InFlight' = InFlight /\ received' = received
<1>1. phase # "post" /\ phase' # "post" /\ store' = store /\ received' = received
    BY DEF TickPre, TickPrePhase, design
<1>2. PICK p \in Pauses : SourceTickPre(p)
    BY DEF TickPre
<1>3. InFlight = (store \o current) \o queue /\ InFlight' = (store \o current') \o queue'
    BY <1>1, QuietInFlight DEF InFlight, Arriving, Leaving
<1>4. CASE Fetches
    <2>1. current = <<>> /\ queue # <<>> /\ current' = <<Head(queue)>> /\ queue' = Tail(queue)
        BY <1>2, <1>4 DEF SourceTickPre, Fetches
    <2>2. <<Head(queue)>> \in Seq(Items) /\ Tail(queue) \in Seq(Items) /\ <<Head(queue)>> \o Tail(queue) = queue
        BY <2>1, PartsTyped, HeadThenTail
    <2>3. (store \o <<Head(queue)>>) \o Tail(queue) = store \o (<<Head(queue)>> \o Tail(queue))
        BY <2>2, PartsTyped, ConcatAssociative
    <2>4. store \o <<>> = store
        BY PartsTyped, ConcatEmptySeq
    <2> QED
        BY <1>1, <1>3, <2>1, <2>2, <2>3, <2>4
<1>5. CASE ~Fetches
    BY <1>1, <1>2, <1>3, <1>5 DEF SourceTickPre
<1> QED
    BY <1>4, <1>5

\* An edge only moves items within what is in flight.
LEMMA RunStepStutters ==
    ASSUME BenchInv, BenchInv', NEW t \in SUBSET Domains, RunStep(t)
    PROVE  InFlight' = InFlight /\ received' = received
<1> DEFINE rose == Rising(t)
           popped == IF SinkDomain \in rose /\ sinkSampled THEN <<sinkData>> ELSE <<>>
           held == IF SourceDomain \in rose /\ sampled THEN <<>> ELSE current
<1>1. /\ phase = "advance" /\ rose \in SUBSET Domains
      /\ queue' = queue /\ current' = current /\ received' = received /\ store' = Clocked(rose)
      /\ sampled' = sampled /\ sinkSampled' = sinkSampled /\ sinkData' = sinkData
    BY DEF RunStep, RunStepPhase, Rising, source, sink
<1>2. Arriving' = popped /\ Leaving' = held
    <2>1. risen' = rose /\ (phase' = "post" <=> rose # {})
        BY DEF RunStep, RunStepPhase
    <2> QED
        BY <1>1, <2>1 DEF Arriving, Leaving
<1>3. (popped \o Clocked(rose)) \o held = store \o current
    <2>0. /\ store \in Seq(Items) /\ current \in Seq(Items)
          /\ <<>> \o current = current /\ store \o <<>> = store /\ <<>> \o store = store
        BY PartsTyped, ConcatEmptySeq
    <2>1. CASE Depth = 0
        <3>1. store = <<>>
            BY <2>0, <2>1, EmptySeq DEF BenchInv, TypeOK
        <3>2. ~Pops(rose) /\ ~Pushes(rose)
            BY <2>1 DEF Pops, Pushes
        <3>3. Clocked(rose) = <<>>
            BY <2>0, <3>1, <3>2 DEF Clocked
        <3>4. SourceDomain = SinkDomain
            BY <2>1, BenchAssumption
        <3>5. (sampled <=> sinkSampled) /\ (sampled => current = <<sinkData>>)
            BY <1>1, <2>1, SampledItem
        <3>6. CASE SinkDomain \in rose /\ sinkSampled
            <4>1. popped = current /\ held = <<>>
                BY <3>4, <3>5, <3>6
            <4> QED
                BY <2>0, <3>1, <3>3, <4>1, ConcatEmptySeq
        <3>7. CASE ~(SinkDomain \in rose /\ sinkSampled)
            <4>1. popped = <<>> /\ held = current
                BY <3>4, <3>5, <3>7
            <4> QED
                BY <2>0, <3>1, <3>3, <4>1
        <3> QED
            BY <3>6, <3>7
    <2>2. CASE Depth > 0
        <3> DEFINE kept == IF Pops(rose) THEN Tail(store) ELSE store
                   new == IF Pushes(rose) THEN <<data>> ELSE <<>>
        <3>1. popped \in Seq(Items) /\ kept \in Seq(Items) /\ popped \o kept = store
            <4>1. CASE Pops(rose)
                BY <1>1, <2>0, <2>2, <4>1, ClockedAsSampled, HeadThenTail
            <4>2. CASE ~Pops(rose)
                <5>1. popped = <<>> /\ kept = store
                    BY <1>1, <2>2, <4>2, ClockedAsSampled
                <5> QED
                    BY <2>0, <5>1, EmptySeq
            <4> QED
                BY <4>1, <4>2
        <3>2. new \in Seq(Items) /\ held \in Seq(Items) /\ new \o held = current
            <4>1. CASE Pushes(rose)
                <5>1. held = <<>> /\ new = current
                    BY <1>1, <2>2, <4>1, ClockedAsSampled
                <5> QED
                    BY <2>0, <5>1, EmptySeq, ConcatEmptySeq
            <4>2. CASE ~Pushes(rose)
                <5>1. held = current /\ new = <<>>
                    BY <1>1, <2>2, <4>2, ClockedAsSampled
                <5> QED
                    BY <2>0, <5>1, EmptySeq
            <4> QED
                BY <4>1, <4>2
        <3>3. Clocked(rose) = kept \o new
            BY DEF Clocked
        <3> HIDE DEF popped, held, kept, new, rose
        <3>4. (popped \o kept) \o new = popped \o (kept \o new)
            BY <3>1, <3>2, ItemsAssociative
        <3>5. (store \o new) \o held = store \o (new \o held)
            BY <2>0, <3>2, ItemsAssociative
        <3> QED
            BY <3>1, <3>2, <3>3, <3>4, <3>5
    <2>3. Depth = 0 \/ Depth > 0
        BY BenchAssumption
    <2> HIDE DEF rose, popped, held
    <2> QED
        BY <2>1, <2>2, <2>3
<1> HIDE DEF rose, popped, held
<1>4. InFlight = (store \o current) \o queue
    BY <1>1, QuietInFlight
<1> QED
    BY <1>1, <1>2, <1>3, <1>4 DEF InFlight

\* tick_post hands the arriving item over, if there is one.
LEMMA TickPostSimulates ==
    ASSUME BenchInv, BenchInv', TickPost
    PROVE  Abstract!Move \/ (InFlight' = InFlight /\ received' = received)
<1>1. /\ phase = "post" /\ phase' = "idle" /\ risen' = risen /\ store' = store /\ queue' = queue
    BY DEF TickPost, TickPostPhase, design
<1>2. current' = Leaving
    BY <1>1 DEF TickPost, SourceTickPost, Commits, Leaving, BenchInv, PhaseInv, CommitsPending
<1>3. InFlight' = (store \o Leaving) \o queue
    <2>1. Arriving' = <<>> /\ Leaving' = Leaving
        BY <1>1, <1>2 DEF Arriving, Leaving
    <2>2. <<>> \o store = store
        BY PartsTyped, ConcatEmptySeq
    <2> QED
        BY <1>1, <2>1, <2>2 DEF InFlight
<1>4. CASE SinkDomain \in risen /\ sinkSampled
    <2>1. Arriving = <<sinkData>> /\ sinkData \in Items /\ received' = Append(received, sinkData)
        BY <1>1, <1>4 DEF Arriving, TickPost, SinkTickPost, Commits, BenchInv, PhaseInv, CommitsPending
    <2>2. (store \o Leaving) \o queue \in Seq(Items) /\ <<sinkData>> \in Seq(Items)
        BY <2>1, PartsTyped, ConcatProperties
    <2>3. InFlight = <<sinkData>> \o ((store \o Leaving) \o queue)
        <3>1. (<<sinkData>> \o store) \o Leaving = <<sinkData>> \o (store \o Leaving)
            BY <2>2, PartsTyped, ConcatAssociative
        <3>2. store \o Leaving \in Seq(Items)
            BY PartsTyped, ConcatProperties
        <3>3. (<<sinkData>> \o (store \o Leaving)) \o queue = <<sinkData>> \o ((store \o Leaving) \o queue)
            BY <2>2, <3>2, PartsTyped, ConcatAssociative
        <3> QED
            BY <2>1, <3>1, <3>3 DEF InFlight
    <2> QED
        BY <1>3, <2>1, <2>2, <2>3, FrontItem DEF Abstract!Move
<1>5. CASE ~(SinkDomain \in risen /\ sinkSampled)
    <2>1. Arriving = <<>> /\ received' = received
        BY <1>1, <1>5 DEF Arriving, TickPost, SinkTickPost, Commits
    <2>2. InFlight = (store \o Leaving) \o queue
        BY <2>1, PartsTyped, ConcatEmptySeq DEF InFlight
    <2> QED
        BY <1>3, <2>1, <2>2
<1> QED
    BY <1>4, <1>5

\* Every step of the bench is a step of the channel or leaves it alone.
LEMMA StepSimulates ==
    ASSUME BenchInv, BenchInv', [Next]_vars
    PROVE  [Abstract!Next]_<<InFlight, received>>
<1>1. CASE TickPre \/ (\E t \in SUBSET Domains : RunStep(t))
    BY <1>1, TickPreStutters, RunStepStutters
<1>2. CASE Settle \/ SamplePre \/ Stop \/ UNCHANGED vars
    <2>1. /\ store' = store /\ current' = current /\ queue' = queue /\ received' = received
          /\ (phase # "post" /\ phase' # "post") \/ UNCHANGED vars
        BY <1>2 DEF Settle, SettlePhase, SamplePre, SamplePrePhase, Stop, StopPhase,
            vars, source, sink, design
    <2>2. Arriving' = Arriving /\ Leaving' = Leaving
        <3>1. CASE phase # "post" /\ phase' # "post"
            BY <2>1, <3>1 DEF Arriving, Leaving
        <3>2. CASE UNCHANGED vars
            BY <3>2 DEF Arriving, Leaving, vars, coordination, source, sink
        <3> QED
            BY <2>1, <3>1, <3>2
    <2>3. InFlight' = InFlight
        BY <2>1, <2>2 DEF InFlight
    <2> QED
        BY <2>1, <2>3
<1>3. CASE TickPost
    BY <1>3, TickPostSimulates DEF Abstract!Next
<1>4. CASE (\E i \in Items : Send(i)) \/ Recv
    BY <1>4, CallsSimulate
<1> QED
    BY <1>1, <1>2, <1>3, <1>4 DEF Next, Step

\* The source, the design and the sink are a first-in first-out channel: for
\* every depth, every pair of clocks and every pattern of pauses, tick_post
\* delivers each item sent once and in order.
THEOREM BenchIsChannel == Spec => Implements
<1>1. Init => Abstract!Init
    BY EmptySeq, ConcatEmptySeq DEF Init, CoordinatorInit, Abstract!Init, InFlight, Arriving, Leaving
<1> QED
    BY <1>1, BenchInvariant, StepSimulates, PTL DEF Spec, Implements, Abstract!Spec
-----------------------------------------------------------------------------
(* The monitor of a strict AXI-Stream sink, for a design with registers.   *)

\* What a frame that is sent can put on the wires.
BeatItems == (UNION {{ToBeats(f)[b] : b \in 1 .. BeatCount(f)} : f \in Frames}) \cup {NoItem}

BeatsTyped ==
    /\ frames \in Seq(Frames)
    /\ queue \in Seq(BeatItems) /\ current \in Option(BeatItems)
    /\ data \in BeatItems /\ store \in Seq(BeatItems)

\* The outputs show the registers in every phase, not only from settle on.
OutputsHeld ==
    /\ dutValid <=> store # <<>>
    /\ dutValid => dutData = Head(store)

\* A beat that was seen and not taken is still the first one, and the sink
\* does not get ready before its next tick_pre.
UntakenHeld ==
    mon.valid /\ ~mon.handshake =>
        /\ store # <<>> /\ Watched(Head(store)) = mon.beat
        /\ phase \in {"advance", "post"} => ~ready

MonitorInv == BeatsTyped /\ OutputsHeld /\ UntakenHeld /\ ~alarm

\* The beats of a frame, as many as there are.
LEMMA ToBeatsType ==
    ASSUME NEW f \in Frames
    PROVE  ToBeats(f) \in Seq(BeatItems)
<1>1. BeatCount(f) \in Nat
    <2>1. Len(f.elems) \in Nat /\ f.per \in Nat \ {0}
        BY AxisAssumption, LenProperties
    <2>2. \A m \in Nat, n \in Nat \ {0} : (m + n - 1) \div n \in Nat
        OBVIOUS
    <2> QED
        BY <2>1, <2>2 DEF BeatCount
<1>2. DOMAIN ToBeats(f) = 1 .. BeatCount(f)
    BY DEF ToBeats
<1>3. \A b \in 1 .. BeatCount(f) : ToBeats(f)[b] \in BeatItems
    BY DEF BeatItems
<1>4. ToBeats(f) \in [1 .. BeatCount(f) -> BeatItems]
    BY <1>2, <1>3 DEF ToBeats
<1> QED
    BY <1>1, <1>4, SeqDef

\* A sequence with a first element is that element and the rest.
LEMMA FirstBeat ==
    ASSUME NEW S, NEW s \in Seq(S), s # <<>>
    PROVE  /\ Head(s) \in S /\ Tail(s) \in Seq(S)
           /\ \A d \in S : s \o <<d>> # <<>> /\ Head(s \o <<d>>) = Head(s)
<1>1. Head(s) \in S /\ Tail(s) \in Seq(S)
    BY HeadTailProperties
<1>2. Len(s) \in Nat \ {0}
    BY EmptySeq, LenProperties
<1>3. \A d \in S : /\ s \o <<d>> \in Seq(S) /\ Len(s \o <<d>>) = Len(s) + 1
                   /\ (s \o <<d>>)[1] = s[1]
    BY <1>2, ConcatProperties
<1>4. ASSUME NEW d \in S PROVE s \o <<d>> # <<>> /\ Head(s \o <<d>>) = Head(s)
    <2>1. Len(s \o <<d>>) # 0 /\ Head(s \o <<d>>) = (s \o <<d>>)[1] /\ Head(s) = s[1]
        BY <1>2, <1>3
    <2> QED
        BY <1>3, <2>1
<1> QED
    BY <1>1, <1>4

LEMMA MonitorInit == AxisInit => MonitorInv
<1> SUFFICES ASSUME AxisInit PROVE MonitorInv
    OBVIOUS
<1>1. BeatsTyped
    BY EmptySeq DEF AxisInit, Init, BeatsTyped, BeatItems, Option
<1>2. OutputsHeld /\ UntakenHeld /\ ~alarm
    BY DEF AxisInit, Init, OutputsHeld, UntakenHeld
<1> QED
    BY <1>1, <1>2 DEF MonitorInv

\* What the monitor and the outputs depend on, when the handlers leave it alone.
Observed == <<store, dutValid, dutData, mon, alarm>>

LEMMA ObservedHolds ==
    ASSUME MonitorInv, UNCHANGED Observed, ready' = ready,
           phase' \in {"advance", "post"} => phase \in {"advance", "post"}
    PROVE  OutputsHeld' /\ UntakenHeld' /\ ~alarm'
BY DEF MonitorInv, OutputsHeld, UntakenHeld, Observed, Watched

\* tick_pre loads beats of a frame that was sent.
LEMMA AxisTickPreHolds ==
    ASSUME MonitorInv, AxisTickPre
    PROVE  MonitorInv'
<1> USE DEF MonitorInv, BeatsTyped
<1>1. PICK p \in Pauses, q \in Pauses : AxisSourceTickPre(p) /\ SinkTickPre(q)
    BY DEF AxisTickPre
<1>2. /\ UNCHANGED Observed
      /\ phase = "idle" /\ phase' = "settle"
    BY DEF AxisTickPre, TickPrePhase, monitor, design, Observed
<1>3. frames' \in Seq(Frames) /\ Beats \in Seq(BeatItems)
    <2>1. CASE Loads
        <3>1. Head(frames) \in Frames /\ Tail(frames) \in Seq(Frames)
            BY <2>1, HeadTailProperties DEF Loads
        <3> QED
            BY <1>1, <2>1, <3>1, ToBeatsType DEF Beats, AxisSourceTickPre
    <2>2. CASE ~Loads
        BY <1>1, <2>2 DEF Beats, AxisSourceTickPre
    <2> QED
        BY <2>1, <2>2
<1>4. queue' \in Seq(BeatItems) /\ current' \in Option(BeatItems)
    <2>1. CASE FetchesBeat
        <3>1. Head(Beats) \in BeatItems /\ Tail(Beats) \in Seq(BeatItems)
            BY <1>3, <2>1, HeadTailProperties DEF FetchesBeat
        <3> QED
            BY <1>1, <2>1, <3>1 DEF AxisSourceTickPre, Option
    <2>2. CASE ~FetchesBeat
        BY <1>1, <1>3, <2>2 DEF AxisSourceTickPre
    <2> QED
        BY <2>1, <2>2
<1>5. data' \in BeatItems
    <2>1. CASE valid'
        <3>1. current' # <<>> /\ data' = Head(current')
            BY <1>1, <2>1 DEF AxisSourceTickPre
        <3>2. PICK i \in BeatItems : current' = <<i>>
            BY <1>4, <3>1 DEF Option
        <3> QED
            BY <3>1, <3>2
    <2>2. CASE ~valid'
        BY <1>1, <2>2 DEF AxisSourceTickPre, BeatItems
    <2> QED
        BY <2>1, <2>2
<1>6. OutputsHeld' /\ UntakenHeld' /\ ~alarm'
    BY <1>2 DEF OutputsHeld, UntakenHeld, Observed, Watched
<1>7. store' = store
    BY <1>2 DEF Observed
<1> QED
    BY <1>3, <1>4, <1>5, <1>6, <1>7

\* sample_pre finds the beat it saw before, if that one was not taken.
LEMMA AxisSamplePreHolds ==
    ASSUME Depth > 0, MonitorInv, AxisSamplePre
    PROVE  MonitorInv'
<1> USE DEF MonitorInv
<1>1. BeatsTyped'
    BY DEF BeatsTyped, AxisSamplePre, SamplePre, framing, driven, design
<1>2. /\ store' = store /\ dutValid' = dutValid /\ dutData' = dutData /\ ready' = ready
      /\ AxisMonitor
    BY DEF AxisSamplePre, SamplePre, driven, design
<1>3. OutputsHeld'
    BY <1>2 DEF OutputsHeld
<1>4. ~alarm'
    BY <1>2 DEF AxisMonitor, Unstable, UntakenHeld, OutputsHeld
<1>5. UntakenHeld'
    BY <1>2 DEF AxisMonitor, UntakenHeld, OutputsHeld, Watched
<1> QED
    BY <1>1, <1>3, <1>4, <1>5

\* An edge takes the first beat only if it was offered to a ready sink.
LEMMA AxisRunStepHolds ==
    ASSUME Depth > 0, MonitorInv, NEW t \in SUBSET Domains, AxisRunStep(t)
    PROVE  MonitorInv'
<1> USE DEF MonitorInv
<1>1. /\ phase = "advance" /\ store' = Clocked(Rising(t)) /\ Outputs(store')
      /\ UNCHANGED <<source, sink, driven, framing, monitor>>
    BY DEF AxisRunStep, RunStep, RunStepPhase
<1> DEFINE left == IF Pops(Rising(t)) THEN Tail(store) ELSE store
<1>2. left \in Seq(BeatItems)
    <2>1. CASE Pops(Rising(t))
        BY <2>1, HeadTailProperties DEF Pops, OutputsHeld, BeatsTyped
    <2>2. CASE ~Pops(Rising(t))
        BY <2>2 DEF BeatsTyped
    <2> QED
        BY <2>1, <2>2
<1>3. data \in BeatItems
    BY DEF BeatsTyped
<1>4. store' = left \o (IF Pushes(Rising(t)) THEN <<data>> ELSE <<>>)
    BY <1>1 DEF Clocked
<1> HIDE DEF left
<1>5. store' = left \/ store' = left \o <<data>>
    BY <1>2, <1>4, ConcatEmptySeq
<1>6. store' \in Seq(BeatItems)
    BY <1>2, <1>3, <1>5, ConcatProperties
<1>7. BeatsTyped'
    BY <1>1, <1>6 DEF BeatsTyped, source, driven, framing
<1>8. OutputsHeld'
    <2>1. Depth # 0
        BY BenchAssumption
    <2>2. dutValid' = (store' # <<>>) /\ dutData' = IF store' # <<>> THEN Head(store') ELSE NoItem
        BY <1>1, <2>1 DEF Outputs
    <2> QED
        BY <2>2 DEF OutputsHeld
<1>9. UntakenHeld'
    <2> SUFFICES ASSUME mon'.valid, ~mon'.handshake
                 PROVE  /\ store' # <<>> /\ Watched(Head(store')) = mon'.beat
                        /\ ~ready'
        BY DEF UntakenHeld, Watched
    <2>1. mon' = mon /\ ready' = ready
        BY <1>1 DEF monitor, driven
    <2>2. store # <<>> /\ Watched(Head(store)) = mon.beat /\ ~ready
        BY <1>1, <2>1 DEF UntakenHeld
    <2>3. left = store
        BY <2>2 DEF left, Pops
    <2>4. store' # <<>> /\ Head(store') = Head(store)
        BY <1>2, <1>3, <1>5, <2>2, <2>3, FirstBeat
    <2> QED
        BY <2>1, <2>2, <2>4
<1> QED
    BY <1>1, <1>7, <1>8, <1>9 DEF monitor

\* settle() shows the registers again.
LEMMA AxisSettleHolds ==
    ASSUME Depth > 0, MonitorInv, Settle, UNCHANGED <<framing, monitor>>
    PROVE  MonitorInv'
<1> USE DEF MonitorInv
<1>1. BeatsTyped'
    BY DEF BeatsTyped, Settle, source, driven, framing
<1>2. /\ dutValid' = (store # <<>>) /\ dutData' = IF store # <<>> THEN Head(store) ELSE NoItem
      /\ store' = store /\ phase' = "sample" /\ mon' = mon /\ alarm' = alarm
    BY BenchAssumption DEF Settle, SettlePhase, Outputs, monitor
<1>3. OutputsHeld' /\ UntakenHeld' /\ ~alarm'
    BY <1>2 DEF OutputsHeld, UntakenHeld, Watched
<1> QED
    BY <1>1, <1>3

\* The rest of step(), and the calls of the test, leave the design alone.
LEMMA AxisRestHolds ==
    ASSUME MonitorInv,
           \/ RefuseFrame \/ AxisTickPost \/ AxisRecv
           \/ Stop /\ UNCHANGED <<framing, monitor>>
           \/ \E f \in Frames : AxisSend(f)
           \/ UNCHANGED axisVars
    PROVE  MonitorInv'
<1> USE DEF MonitorInv, BeatsTyped
<1>1. CASE RefuseFrame
    <2>1. frames' \in Seq(Frames)
        BY <1>1, HeadTailProperties DEF RefuseFrame, Loads
    <2>2. UNCHANGED Observed /\ ready' = ready /\ phase' = phase
        BY <1>1 DEF RefuseFrame, Observed, coordination, driven, design, monitor
    <2>3. queue' = queue /\ current' = current /\ data' = data
        BY <1>1 DEF RefuseFrame, driven
    <2> QED
        BY <2>1, <2>2, <2>3, ObservedHolds DEF Observed
<1>2. CASE AxisTickPost
    <2>1. current' = current \/ current' = <<>>
        BY <1>2 DEF AxisTickPost, SourceTickPost
    <2>2. current' \in Option(BeatItems)
        BY <2>1 DEF Option
    <2>3. UNCHANGED Observed /\ ready' = ready /\ phase' = "idle"
        BY <1>2 DEF AxisTickPost, TickPostPhase, Observed, driven, design, monitor
    <2>4. queue' = queue /\ data' = data /\ frames' = frames
        BY <1>2 DEF AxisTickPost, driven
    <2> QED
        BY <2>2, <2>3, <2>4, ObservedHolds DEF Observed
<1>3. CASE AxisRecv
    <2>1. UNCHANGED Observed /\ ready' = ready /\ phase' = phase
        BY <1>3 DEF AxisRecv, vars, coordination, Observed, driven, design, monitor
    <2>2. queue' = queue /\ current' = current /\ data' = data /\ frames' = frames
        BY <1>3 DEF AxisRecv, vars, source, driven
    <2> QED
        BY <2>1, <2>2, ObservedHolds DEF Observed
<1>4. CASE Stop /\ UNCHANGED <<framing, monitor>>
    <2>1. UNCHANGED Observed /\ ready' = ready /\ phase' = "idle"
        BY <1>4 DEF Stop, StopPhase, Observed, driven, design, monitor
    <2>2. queue' = queue /\ current' = current /\ data' = data /\ frames' = frames
        BY <1>4 DEF Stop, source, driven, framing
    <2> QED
        BY <2>1, <2>2, ObservedHolds DEF Observed
<1>5. ASSUME NEW f \in Frames, AxisSend(f) PROVE MonitorInv'
    <2>1. frames' \in Seq(Frames)
        BY <1>5, AppendProperties DEF AxisSend
    <2>2. UNCHANGED Observed /\ ready' = ready /\ phase' = phase
        BY <1>5 DEF AxisSend, Observed, coordination, driven, design, monitor
    <2>3. queue' = queue /\ current' = current /\ data' = data
        BY <1>5 DEF AxisSend, source, driven
    <2> QED
        BY <2>1, <2>2, <2>3, ObservedHolds DEF Observed
<1>6. CASE UNCHANGED axisVars
    <2>1. UNCHANGED Observed /\ ready' = ready /\ phase' = phase
        BY <1>6 DEF axisVars, vars, coordination, Observed, driven, design, monitor
    <2>2. queue' = queue /\ current' = current /\ data' = data /\ frames' = frames
        BY <1>6 DEF axisVars, vars, source, driven, framing
    <2> QED
        BY <2>1, <2>2, ObservedHolds DEF Observed
<1> QED
    BY <1>1, <1>2, <1>3, <1>4, <1>5, <1>6

\* Whatever the frames, the packing, the pauses and the clocks: the check that
\* strict mode makes in every sample_pre, at the edges of other clocks too,
\* never fails for a design that holds its output until it is taken.
THEOREM NoFalseAlarmHolds == AxisSpec => []NoFalseAlarm
<1>1. CASE Depth > 0
    <2>1. AxisInit => MonitorInv
        BY MonitorInit
    <2>2. MonitorInv /\ [AxisNext]_axisVars => MonitorInv'
        <3> SUFFICES ASSUME MonitorInv, [AxisNext]_axisVars PROVE MonitorInv'
            OBVIOUS
        <3>1. CASE AxisTickPre
            BY <3>1, AxisTickPreHolds
        <3>2. CASE AxisSamplePre
            BY <1>1, <3>2, AxisSamplePreHolds
        <3>3. CASE Settle /\ UNCHANGED <<framing, monitor>>
            BY <1>1, <3>3, AxisSettleHolds
        <3>4. ASSUME NEW t \in SUBSET Domains, AxisRunStep(t) PROVE MonitorInv'
            BY <1>1, <3>4, AxisRunStepHolds
        <3> QED
            BY <3>1, <3>2, <3>3, <3>4, AxisRestHolds DEF AxisNext, AxisStep
    <2>3. MonitorInv => NoFalseAlarm
        BY DEF MonitorInv, NoFalseAlarm
    <2> QED
        BY <2>1, <2>2, <2>3, PTL DEF AxisSpec
<1>2. CASE ~(Depth > 0)
    <2>1. NoFalseAlarm
        BY <1>2 DEF NoFalseAlarm
    <2> QED
        BY <2>1, PTL
<1> QED
    BY <1>1, <1>2
=============================================================================
