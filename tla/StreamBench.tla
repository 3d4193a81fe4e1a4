---------------------------- MODULE StreamBench ----------------------------
(***************************************************************************)
(* A StreamSource and a StreamSink around a design under test, each in its *)
(* clock domain, stepped by the coordinator, with pauses that may come and *)
(* go at every tick_pre.  The design is a FIFO of Depth places, or for     *)
(* Depth = 0 a wire from its input to its output.                          *)
(***************************************************************************)
EXTENDS Coordinator, Sequences

CONSTANTS
    Items, NoItem,       \* what send() queues; the idle value of a data wire
    Depth,               \* of the design under test
    SourceDomain, SinkDomain,
    Pauses,              \* the values pause() may return
    MaxSent              \* bound: items sent

ASSUME BenchAssumption ==
    /\ Depth \in Nat /\ MaxSent \in Nat
    /\ SourceDomain \in Domains /\ SinkDomain \in Domains
    /\ Depth = 0 => SourceDomain = SinkDomain
    /\ Pauses \subseteq BOOLEAN /\ Pauses # {}
    /\ NoItem \notin Items

VARIABLES
    queue, current,            \* StreamSource: queue, _current (at most one)
    paused, sampled,           \* _paused_this_cycle, _sampled_handshake
    received,                  \* StreamSink.queue
    sinkPaused, sinkSampled, sinkData,
    valid, data, ready,        \* the wires the endpoints drive
    store,                     \* registers of the design
    dutReady, dutValid, dutData,  \* its outputs as last settled
    sent                       \* bound

source == <<queue, current, paused, sampled>>
sink == <<received, sinkPaused, sinkSampled, sinkData>>
driven == <<valid, data, ready>>
design == <<store, dutReady, dutValid, dutData>>
vars == <<coordination, source, sink, driven, design, sent>>

Init ==
    /\ CoordinatorInit
    /\ queue = <<>> /\ current = <<>> /\ paused = FALSE /\ sampled = FALSE
    /\ received = <<>> /\ sinkPaused = FALSE /\ sinkSampled = FALSE /\ sinkData = NoItem
    /\ valid = FALSE /\ data = NoItem /\ ready = FALSE
    /\ store = <<>> /\ dutReady = FALSE /\ dutValid = FALSE /\ dutData = NoItem
    /\ sent = 0
-----------------------------------------------------------------------------
(* The design under test.                                                  *)

\* Its outputs follow its registers s and, through a wire, its inputs.
Outputs(s) ==
    /\ dutReady' = IF Depth = 0 THEN ready ELSE Len(s) < Depth
    /\ dutValid' = IF Depth = 0 THEN valid ELSE s # <<>>
    /\ dutData' = IF Depth = 0 THEN data ELSE IF s # <<>> THEN Head(s) ELSE NoItem

Pops(rose) == Depth > 0 /\ SinkDomain \in rose /\ dutValid /\ ready
Pushes(rose) == Depth > 0 /\ SourceDomain \in rose /\ valid /\ dutReady
Clocked(rose) ==
    (IF Pops(rose) THEN Tail(store) ELSE store) \o (IF Pushes(rose) THEN <<data>> ELSE <<>>)
-----------------------------------------------------------------------------
(* StreamSource.                                                           *)

Send(i) ==
    /\ phase = "idle" /\ sent < MaxSent
    /\ queue' = Append(queue, i) /\ sent' = sent + 1
    /\ UNCHANGED <<coordination, current, paused, sampled, sink, driven, design>>

\* Fault: the last item of the queue is not fetched.
FetchesSpare == current = <<>> /\ Len(queue) > 1

Fetches == current = <<>> /\ queue # <<>>

SourceTickPre(p) ==
    /\ paused' = p
    /\ current' = IF Fetches THEN <<Head(queue)>> ELSE current
    /\ queue' = IF Fetches THEN Tail(queue) ELSE queue
    /\ valid' = (~p /\ current' # <<>>)
    /\ data' = IF valid' THEN Head(current') ELSE NoItem
    /\ UNCHANGED sampled

\* Fault: an earlier handshake is not cleared.
SourceSamplePreKept == sampled' = (sampled \/ (~paused /\ current # <<>> /\ dutReady))

SourceSamplePre == sampled' = (~paused /\ current # <<>> /\ dutReady)

SourceTickPost ==
    current' = IF ~paused /\ current # <<>> /\ sampled THEN <<>> ELSE current
-----------------------------------------------------------------------------
(* StreamSink.                                                             *)

Recv ==
    /\ phase = "idle" /\ received # <<>>
    /\ received' = Tail(received)
    /\ UNCHANGED <<coordination, source, sinkPaused, sinkSampled, sinkData, driven, design, sent>>

SinkTickPre(p) == sinkPaused' = p /\ ready' = ~p

SinkSamplePre ==
    /\ sinkSampled' = (~sinkPaused /\ dutValid /\ ready)
    /\ sinkData' = IF sinkSampled' THEN dutData ELSE sinkData

\* Fault: what was sampled before is received again.
SinkTickPostAlways ==
    received' = IF ~sinkPaused THEN Append(received, sinkData) ELSE received

SinkTickPost ==
    received' = IF ~sinkPaused /\ sinkSampled THEN Append(received, sinkData) ELSE received
-----------------------------------------------------------------------------
(* step().                                                                 *)

TickPre ==
    /\ TickPrePhase
    /\ \E p, q \in Pauses : SourceTickPre(p) /\ SinkTickPre(q)
    /\ UNCHANGED <<received, sinkSampled, sinkData, design, sent>>

Settle ==
    /\ SettlePhase
    /\ Outputs(store)
    /\ UNCHANGED <<source, sink, driven, store, sent>>

SamplePre ==
    /\ SamplePrePhase
    /\ SourceSamplePre /\ SinkSamplePre
    /\ UNCHANGED <<queue, current, paused, received, sinkPaused, driven, design, sent>>

RunStep(toggled) ==
    /\ RunStepPhase(toggled)
    /\ store' = Clocked(Rising(toggled))
    /\ Outputs(store')
    /\ UNCHANGED <<source, sink, driven, sent>>

Stop ==
    /\ StopPhase
    /\ UNCHANGED <<source, sink, driven, design, sent>>

\* Fault: every domain commits, whichever clock rose.
CommitsAll(d) == TRUE

Commits(d) == d \in risen

TickPost ==
    /\ TickPostPhase
    /\ IF Commits(SourceDomain) THEN SourceTickPost ELSE UNCHANGED current
    /\ IF Commits(SinkDomain) THEN SinkTickPost ELSE UNCHANGED received
    /\ UNCHANGED <<queue, paused, sampled, sinkPaused, sinkSampled, sinkData, driven, design, sent>>

Step ==
    \/ TickPre \/ Settle \/ SamplePre \/ TickPost
    \/ \E t \in SUBSET Domains : RunStep(t)

Next == Step \/ Stop \/ (\E i \in Items : Send(i)) \/ Recv

\* step() is called again and again, and no clock stops.
Toggles(d) == \E t \in SUBSET Domains : d \in t /\ RunStep(t)
Spec ==
    /\ Init /\ [][Next]_vars
    /\ WF_vars(Step)
    /\ \A d \in Domains : SF_vars(Toggles(d))
-----------------------------------------------------------------------------
Option(S) == {<<>>} \cup {<<i>> : i \in S}

\* The domains of the endpoints' attributes, of the wires and of the design.
TypeOK ==
    /\ CoordinatorOK
    /\ queue \in Seq(Items) /\ current \in Option(Items)
    /\ paused \in BOOLEAN /\ sampled \in BOOLEAN
    /\ received \in Seq(Items)
    /\ sinkPaused \in BOOLEAN /\ sinkSampled \in BOOLEAN /\ sinkData \in Items \cup {NoItem}
    /\ valid \in BOOLEAN /\ data \in Items \cup {NoItem} /\ ready \in BOOLEAN
    /\ store \in Seq(Items) /\ Len(store) <= Depth
    /\ dutReady \in BOOLEAN /\ dutValid \in BOOLEAN /\ dutData \in Items \cup {NoItem}
    /\ sent \in 0 .. MaxSent

\* Sampled at this edge and not yet committed by tick_post.
Arriving == IF phase = "post" /\ SinkDomain \in risen /\ sinkSampled THEN <<sinkData>> ELSE <<>>
Leaving == IF phase = "post" /\ SourceDomain \in risen /\ sampled THEN <<>> ELSE current
InFlight == Arriving \o store \o Leaving \o queue

Abstract == INSTANCE Channel WITH inflight <- InFlight, out <- received

\* Source, design and sink together are a first-in first-out channel: no
\* pause and no edge of another clock loses, doubles or reorders an item.
Implements == Abstract!Spec

\* The design accepts an item at an edge exactly if the source will take it as
\* sent, and hands one over exactly if the sink has sampled it.
BothSidesAgree ==
    phase = "advance" /\ Depth > 0 =>
        /\ sampled <=> valid /\ dutReady
        /\ sinkSampled <=> dutValid /\ ready
        /\ sinkSampled => sinkData = Head(store)

\* Every item sent reaches the sink's queue, if the pauses end at some time,
\* whatever they were before and however the two clocks interleave.
AllArrives ==
    <>[](~paused /\ ~sinkPaused) => \A n \in 1 .. MaxSent : sent >= n ~> sent - Len(InFlight) >= n
=============================================================================
