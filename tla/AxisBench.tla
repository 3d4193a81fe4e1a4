----------------------------- MODULE AxisBench -----------------------------
(***************************************************************************)
(* AXIStreamSource, AXIStreamSink and AXIStreamFrame (axis_source.py,      *)
(* axis_sink.py, frame.py of sim/endpoints).  On the wire they are the     *)
(* stream endpoints of StreamBench, whose items are now beats: queue is    *)
(* _beat_queue, current is _current_beat, received the _pending lists.     *)
(* Here are the frames on either side of the beats, and the monitor of a   *)
(* strict sink.  A frame is made with the default last flags.              *)
(***************************************************************************)
EXTENDS StreamBench, SequencesExt

CONSTANTS
    Elements,             \* values of an element; Zero is what unused lanes carry
    Sides,                \* tdest, tid and tuser of an element, as one value
    Zero,
    PerBeat,              \* elements_per_beat of the two endpoints
    BigEndian,            \* endian of the endpoints and the frames
    Frames                \* the frames the test sends

ElementRecords == [v : Elements, keep : BOOLEAN, side : Sides]

\* A frame keeps the elements_per_beat it was made with, not the source's.
ASSUME AxisAssumption ==
    /\ PerBeat \in Nat \ {0} /\ BigEndian \in BOOLEAN /\ Zero \in Elements
    /\ \A f \in Frames : f.elems \in Seq(ElementRecords) /\ f.per \in 1 .. PerBeat

VARIABLES
    frames,               \* AXIStreamSource.queue
    outbox,               \* AXIStreamSink.queue
    mon,                  \* _mon_prev_valid, _mon_prev_handshake and what was seen
    alarm                 \* would strict mode have raised?

framing == <<frames, outbox>>
monitor == <<mon, alarm>>
axisVars == <<vars, framing, monitor>>

----------------------------------------------------------------------------
(* AXIStreamFrame.                                                         *)

\* The lane of the element at position p, counted from 0, of a beat.
Lane(p, per) == IF BigEndian THEN per - 1 - p ELSE p

BeatOf(i, f) == (i - 1) \div f.per + 1
LaneOf(i, f) == Lane((i - 1) % f.per, f.per)
BeatCount(f) == (Len(f.elems) + f.per - 1) \div f.per

\* to_beats raises: the elements of a beat must agree on the side band.
Mixed(f) ==
    \E i, j \in DOMAIN f.elems : BeatOf(i, f) = BeatOf(j, f) /\ f.elems[i].side # f.elems[j].side

Beat(f, b) ==
    LET members == {i \in DOMAIN f.elems : BeatOf(i, f) = b}
        at(l) == {i \in members : LaneOf(i, f) = l}
    IN [data |-> [l \in 0 .. PerBeat - 1 |->
                     IF at(l) = {} THEN Zero ELSE f.elems[CHOOSE i \in at(l) : TRUE].v],
        keep |-> {LaneOf(i, f) : i \in {j \in members : f.elems[j].keep}},
        side |-> f.elems[CHOOSE i \in members : TRUE].side,
        last |-> b = BeatCount(f)]
ToBeats(f) == [b \in 1 .. BeatCount(f) |-> Beat(f, b)]

\* from_beats: the kept lanes of each beat in order.  The final element is
\* flagged last only if the final beat keeps one.
Kept(b) == SelectSeq([p \in 1 .. PerBeat |-> Lane(p - 1, PerBeat)], LAMBDA l : l \in b.keep)
Unpacked(b) ==
    LET lanes == Kept(b) IN [k \in DOMAIN lanes |-> [v |-> b.data[lanes[k]], side |-> b.side]]
FromBeats(bs) ==
    [elems |-> FlattenSeq([k \in DOMAIN bs |-> Unpacked(bs[k])]),
     closed |-> bs[Len(bs)].keep # {}]

----------------------------------------------------------------------------
(* AXIStreamSource.                                                        *)

AxisSend(f) ==
    /\ phase = "idle" /\ sent < MaxSent
    /\ frames' = Append(frames, f) /\ sent' = sent + 1
    /\ UNCHANGED <<coordination, source, sink, driven, design, outbox, monitor>>

\* Fault: a frame without elements is not taken from the queue.
LoadsFilled == queue = <<>> /\ frames # <<>> /\ Head(frames).elems # <<>>

\* _load_next_frame, one frame at most for each tick_pre.
Loads == queue = <<>> /\ frames # <<>>
Beats == IF Loads THEN ToBeats(Head(frames)) ELSE queue
FetchesBeat == current = <<>> /\ Beats # <<>>

AxisSourceTickPre(p) ==
    /\ paused' = p
    /\ frames' = IF Loads THEN Tail(frames) ELSE frames
    /\ current' = IF FetchesBeat THEN <<Head(Beats)>> ELSE current
    /\ queue' = IF FetchesBeat THEN Tail(Beats) ELSE Beats
    /\ valid' = (~p /\ current' # <<>>)
    /\ data' = IF valid' THEN Head(current') ELSE NoItem

\* tick_pre raises ValueError out of step(), the frame having been popped.
RefuseFrame ==
    /\ phase = "idle" /\ Loads /\ Mixed(Head(frames))
    /\ frames' = Tail(frames)
    /\ \E p \in Pauses : paused' = p
    /\ UNCHANGED <<coordination, queue, current, sampled, sink, driven, design, sent, outbox, monitor>>

----------------------------------------------------------------------------
(* AXIStreamSink.                                                          *)

AxisRecv ==
    /\ phase = "idle" /\ outbox # <<>>
    /\ outbox' = Tail(outbox)
    /\ UNCHANGED <<vars, frames, monitor>>

\* What the monitor looks at; tdest, tid and tuser are not part of it.
Watched(b) == [data |-> b.data, keep |-> b.keep, last |-> b.last]

\* Fault: a completed handshake does not release the source.
UnstableStrict == mon.valid /\ (~dutValid \/ Watched(dutData) # mon.beat)

\* The stability check of sample_pre, against the sample of the step before.
Unstable == mon.valid /\ ~mon.handshake /\ (~dutValid \/ Watched(dutData) # mon.beat)

AxisMonitor ==
    /\ alarm' = (alarm \/ Unstable)
    /\ mon' = [valid |-> dutValid, handshake |-> dutValid /\ ready,
               beat |-> IF dutValid THEN Watched(dutData) ELSE mon.beat]

AcceptsBeat == ~sinkPaused /\ sinkSampled

\* Fault: the pending beats stay when the frame is complete.
AxisSinkTickPostKeeps ==
    /\ received' = IF AcceptsBeat THEN Append(received, sinkData) ELSE received
    /\ outbox' = IF AcceptsBeat /\ sinkData.last THEN Append(outbox, FromBeats(received')) ELSE outbox

AxisSinkTickPost ==
    LET pending == IF AcceptsBeat THEN Append(received, sinkData) ELSE received
        complete == AcceptsBeat /\ sinkData.last
    IN /\ received' = IF complete THEN <<>> ELSE pending
       /\ outbox' = IF complete THEN Append(outbox, FromBeats(pending)) ELSE outbox

----------------------------------------------------------------------------
(* step().                                                                 *)

AxisInit ==
    /\ Init
    /\ frames = <<>> /\ outbox = <<>>
    /\ mon = [valid |-> FALSE, handshake |-> FALSE, beat |-> NoItem]
    /\ alarm = FALSE

AxisTickPre ==
    /\ ~(Loads /\ Mixed(Head(frames)))
    /\ TickPrePhase
    /\ \E p, q \in Pauses : AxisSourceTickPre(p) /\ SinkTickPre(q)
    /\ UNCHANGED <<sampled, received, sinkSampled, sinkData, design, sent, outbox, monitor>>

AxisSamplePre ==
    /\ SamplePre /\ AxisMonitor
    /\ UNCHANGED framing

AxisTickPost ==
    /\ TickPostPhase
    /\ IF Commits(SourceDomain) THEN SourceTickPost ELSE UNCHANGED current
    /\ IF Commits(SinkDomain) THEN AxisSinkTickPost ELSE UNCHANGED <<received, outbox>>
    /\ UNCHANGED <<queue, paused, sampled, sinkPaused, sinkSampled, sinkData, driven, design,
                   sent, frames, monitor>>

AxisRunStep(toggled) == RunStep(toggled) /\ UNCHANGED <<framing, monitor>>

AxisStep ==
    \/ AxisTickPre \/ RefuseFrame \/ AxisSamplePre \/ AxisTickPost
    \/ Settle /\ UNCHANGED <<framing, monitor>>
    \/ \E t \in SUBSET Domains : AxisRunStep(t)

AxisNext ==
    \/ AxisStep \/ AxisRecv
    \/ Stop /\ UNCHANGED <<framing, monitor>>
    \/ \E f \in Frames : AxisSend(f)

AxisToggles(d) == \E t \in SUBSET Domains : d \in t /\ AxisRunStep(t)
AxisSpec ==
    /\ AxisInit /\ [][AxisNext]_axisVars
    /\ WF_axisVars(AxisStep)
    /\ \A d \in Domains : SF_axisVars(AxisToggles(d))

----------------------------------------------------------------------------

\* What the sink should make of a frame: its kept elements, in order.
KeptIn(f) == SelectSeq(f.elems, LAMBDA e : e.keep)
Delivery(f) ==
    [elems |-> LET es == KeptIn(f) IN [k \in DOMAIN es |-> [v |-> es[k].v, side |-> es[k].side]],
     closed |-> \E i \in DOMAIN f.elems : f.elems[i].keep /\ BeatOf(i, f) = BeatCount(f)]

\* An empty frame has no beats; a mixed one is refused.
Deliverable(f) == f.elems # <<>> /\ ~Mixed(f)

\* Beats up to each last make a frame.
Ends(bs) == SelectSeq([i \in 1 .. Len(bs) |-> i], LAMBDA i : bs[i].last)
Assembled(bs) ==
    LET ends == Ends(bs)
    IN [k \in DOMAIN ends |-> FromBeats(SubSeq(bs, IF k = 1 THEN 1 ELSE ends[k - 1] + 1, ends[k]))]
DeliveryOf == [f \in {g \in Frames : Deliverable(g)} |-> Delivery(f)]
Waiting ==
    LET fs == SelectSeq(frames, LAMBDA f : f \in DOMAIN DeliveryOf)
    IN [k \in DOMAIN fs |-> DeliveryOf[fs[k]]]
FramesInFlight == Assembled(received \o InFlight) \o Waiting

FrameChannel == INSTANCE Channel WITH Items <- Range(DeliveryOf), inflight <- FramesInFlight, out <- outbox

\* Source, design and sink are a first-in first-out channel of frames: each
\* arrives whole, once and in order with exactly its kept elements, whatever
\* its packing into beats, the pauses and the other clock.
FramesWhole == FrameChannel!Spec

\* A strict sink does not accuse a design that holds its output until it is
\* taken, although it looks at it at the edges of other clocks too.
NoFalseAlarm == Depth > 0 => ~alarm

\* Every frame arrives, or is refused, if the pauses end at some time: an empty
\* or refused frame does not hold up the ones behind it.
FramesArrive == <>[](~paused /\ ~sinkPaused) => <>[](frames = <<>> /\ FramesInFlight = <<>>)
=============================================================================
