---------------------------- MODULE AxiLiteBench ----------------------------
(***************************************************************************)
(* AXILiteMaster (sim/endpoints/axi_lite_master.py) and AXILiteResponder   *)
(* (axi_lite_responder.py) on the same ports, nothing between them, as in  *)
(* test_axi_lite_master_responder_on_bare_stub.  The test calls the        *)
(* master; the master steps the simulator until its clock rises; the       *)
(* responder runs as a pre-step callback before each time step and as a    *)
(* time-step callback after it (Simulator.run_step).  The simulation may   *)
(* stop under a call: $finish in the step, or no event left to run.  The   *)
(* call then ends without driving its signals idle; the test may go on.    *)
(***************************************************************************)
EXTENDS Naturals, Sequences

CONSTANTS
    Addrs,
    Lanes,                \* the byte lanes of the data bus
    Bytes,                \* values of a byte
    Data,                 \* the words the test writes
    Zero,                 \* the byte 0, what unwritten memory holds
    Timeout,              \* default_timeout_cycles
    Pauses,               \* what responder.pause may yield
    Options,              \* sets of responder options: hold cycles, wait for READY
    MaxOps,               \* bound on the calls of the test
    MaxAfter,             \* bound on its calls after the simulation stopped under one
    MaxQueued             \* bound on explicitly queued responses

ASSUME AxiLiteAssumption ==
    /\ Zero \in Bytes /\ Data \subseteq [Lanes -> Bytes] /\ Pauses \subseteq BOOLEAN /\ Timeout \in Nat \ {0}
    /\ Options \subseteq [hold : Nat, wait : BOOLEAN]
    /\ MaxOps \in Nat /\ MaxAfter \in Nat /\ MaxQueued \in Nat

ZeroWord == [l \in Lanes |-> Zero]
Okay == 0
SlvErr == 2

Calls == [kind : {"write"}, addr : Addrs, data : Data, strb : SUBSET Lanes]
             \cup [kind : {"read"}, addr : Addrs]
Kinds == {"write", "read"}
Channels(kind) == IF kind = "write" THEN {"aw", "w"} ELSE {"ar"}
Requests(call) == Channels(call.kind)
NoCall == [kind |-> "none"]

VARIABLES
    clk,
    calls,                \* the calls made so far
    \* --- the master
    pc,                   \* where write() or read() is
    call,                 \* what it is doing
    asserted,             \* the VALIDs and READYs driven high
    payload,              \* of each kind of request, the call whose address and data are driven
    accepting,            \* aw_accepting, w_accepting, ar_accepting
    done,                 \* aw_done, w_done
    left,                 \* iterations left of the current loop
    stepping,             \* inside _step_cycle
    outcome,              \* how the last call ended
    finished,             \* $finish ran: every run_step() returns False
    \* --- the responder
    r,
    \* --- history
    acked,                \* the writes that returned
    faulty,               \* is an explicit error response due to this call?
    stalled,              \* did this call find READY low?
    cut                   \* the first call the simulation stopped under, 0 when none

master == <<pc, call, asserted, payload, accepting, done, left, stepping, outcome>>
hist == <<acked, faulty, stalled, cut>>
vars == <<clk, calls, master, finished, r, hist>>

----------------------------------------------------------------------------
(* The responder's _on_time_step, clock low.                               *)

\* Fault: the strobes are not looked at.
StrobedAll(old, c) == c.data

Strobed(old, c) == [l \in Lanes |-> IF l \in c.strb THEN c.data[l] ELSE old[l]]
Rest(s) == IF s = <<>> THEN s ELSE Tail(s)
NextOf(s, default) == IF s = <<>> THEN default ELSE Head(s)

\* Fault: nothing remembers that the beat was taken.
TakeWriteAgain(x) ==
    LET c == payload["write"]
    IN IF {"aw", "w"} \subseteq asserted /\ x.ready
       THEN [x EXCEPT !.writeLog = Append(@, c), !.memory[c.addr] = Strobed(@, c),
                      !.pendingB = Append(@, NextOf(x.queuedB, Okay)), !.queuedB = Rest(@)]
       ELSE x

\* A write counts when both channels are valid and ready, once until one of
\* them is seen idle.
TakeWrite(x) ==
    LET fire == {"aw", "w"} \subseteq asserted /\ x.ready
        c == payload["write"]
    IN IF fire /\ ~x.writeSeen
       THEN [x EXCEPT !.writeLog = Append(@, c), !.writeSeen = TRUE,
                      !.memory[c.addr] = Strobed(@, c),
                      !.pendingB = Append(@, NextOf(x.queuedB, Okay)), !.queuedB = Rest(@)]
       ELSE [x EXCEPT !.writeSeen = fire]

TakeRead(x) ==
    LET fire == "ar" \in asserted /\ x.ready
        c == payload["read"]
        answer == [data |-> x.memory[c.addr], resp |-> Okay]
    IN IF fire /\ ~x.readSeen
       THEN [x EXCEPT !.readLog = Append(@, c.addr), !.readSeen = TRUE,
                      !.pendingR = Append(@, NextOf(x.queuedR, answer)), !.queuedR = Rest(@)]
       ELSE [x EXCEPT !.readSeen = fire]

StartB(x) ==
    IF ~x.bvalid /\ x.pendingB # <<>> /\ (x.waitB => "b" \in asserted)
    THEN [x EXCEPT !.bresp = Head(x.pendingB), !.pendingB = Tail(@), !.bvalid = TRUE, !.clearB = 0]
    ELSE x

StartR(x) ==
    IF ~x.rvalid /\ x.pendingR # <<>> /\ (x.waitR => "r" \in asserted)
    THEN [x EXCEPT !.rpay = Head(x.pendingR), !.pendingR = Tail(@), !.rvalid = TRUE, !.clearR = 0]
    ELSE x

\* 0 stands for None: the counts set here are at least 1.
ArmClear(x) ==
    [x EXCEPT !.clearB = IF x.bvalid /\ "b" \in asserted /\ @ = 0 THEN x.holdB + 1 ELSE @,
              !.clearR = IF x.rvalid /\ "r" \in asserted /\ @ = 0 THEN x.holdR + 1 ELSE @]

LowPhase(x) == ArmClear(StartR(StartB(TakeRead(TakeWrite(x)))))

(* ... and on a rising edge.                                               *)

Valids == asserted \cap {"aw", "w", "ar"}

\* _check_channel_stability and _update_strict_state: a VALID that was not
\* accepted at the last edge is still there, with the same payload.  Where
\* strict mode would raise, accused is set.
CheckStability(x) ==
    [x EXCEPT !.accused = \/ @ \/ x.unacked \ Valids # {}
                          \/ \E k \in Kinds : x.unacked \cap Channels(k) # {} /\ x.snapshot[k] # payload[k]]
UpdateStrict(x) ==
    LET waiting == IF x.ready THEN {} ELSE Valids
    IN [x EXCEPT !.unacked = waiting,
                 !.snapshot = [k \in Kinds |-> IF waiting \cap Channels(k) = {} THEN NoCall ELSE payload[k]]]

\* Fault: BVALID is not taken down when its count ends.
CountDownKeeps(x) ==
    [x EXCEPT !.clearB = IF @ = 0 THEN 0 ELSE @ - 1,
              !.rvalid = @ /\ x.clearR # 1, !.clearR = IF @ = 0 THEN 0 ELSE @ - 1]

CountDown(x) ==
    [x EXCEPT !.bvalid = @ /\ x.clearB # 1, !.clearB = IF @ = 0 THEN 0 ELSE @ - 1,
              !.rvalid = @ /\ x.clearR # 1, !.clearR = IF @ = 0 THEN 0 ELSE @ - 1]

RisingEdge(x, paused) == CountDown([UpdateStrict(CheckStability(x)) EXCEPT !.ready = ~paused])

----------------------------------------------------------------------------
(* Simulator.run_step: the pre-step callback sees the level of before, the *)
(* time-step callback the new one.                                         *)

Outcome(how, data) == [how |-> how, call |-> call, data |-> data]

\* run_step() returned False and _step_cycle raises: the call is over, what it
\* drives stays.
Raise ==
    /\ pc' = "idle" /\ outcome' = Outcome("stopped", ZeroWord)
    /\ call' = NoCall /\ accepting' = {} /\ done' = {} /\ left' = 0 /\ stepping' = FALSE
    /\ cut' = IF cut = 0 THEN calls ELSE cut
    /\ UNCHANGED <<calls, asserted, payload, acked, faulty, stalled>>

\* A step in which $finish ran is performed to its end.
StepUp(paused) ==
    /\ stepping /\ clk = 0 /\ clk' = 1
    /\ r' = RisingEdge(LowPhase(r), paused)
    /\ \/ /\ ~finished /\ stepping' = FALSE
          /\ UNCHANGED <<calls, pc, call, asserted, payload, accepting, done, left, outcome, finished, hist>>
       \/ Raise /\ finished' = TRUE

StepDown ==
    /\ stepping /\ clk = 1 /\ clk' = 0
    /\ r' = LowPhase(r)
    /\ \/ ~finished /\ UNCHANGED <<calls, master, finished, hist>>
       \/ Raise /\ finished' = TRUE

\* No event is left: only the pre-step callback ran.
NoStep ==
    /\ stepping /\ r' = IF clk = 0 THEN LowPhase(r) ELSE r
    /\ Raise
    /\ UNCHANGED <<clk, finished>>

----------------------------------------------------------------------------
(* The master: write() and read().                                         *)

Start(c) ==
    /\ pc = "idle" /\ calls < MaxOps /\ (cut # 0 => calls < cut + MaxAfter)
    /\ calls' = calls + 1
    /\ call' = c
    /\ asserted' = asserted \cup Requests(c)
    /\ payload' = [payload EXCEPT ![c.kind] = c]
    /\ pc' = "sample" /\ left' = Timeout
    /\ outcome' = [how |-> "none"]
    /\ faulty' = ((IF c.kind = "write" THEN r.queuedB ELSE r.queuedR) # <<>>)
    /\ stalled' = FALSE
    /\ UNCHANGED <<clk, accepting, done, stepping, finished, r, acked, cut>>

\* READY is sampled before the edge ...
Sample ==
    /\ pc = "sample" /\ pc' = "accept"
    /\ accepting' = IF r.ready THEN Requests(call) \ done ELSE {}
    /\ stepping' = TRUE
    /\ stalled' = (stalled \/ ~r.ready)
    /\ UNCHANGED <<clk, calls, call, asserted, payload, done, left, outcome, finished, r, acked, faulty, cut>>

\* _drive_idle, and the call returns or raises.
EndCall(o) ==
    /\ pc' = "idle" /\ outcome' = o
    /\ call' = NoCall /\ asserted' = {} /\ payload' = [k \in Kinds |-> NoCall]
    /\ accepting' = {} /\ done' = {} /\ left' = 0

\* ... and once more after it: either way the channel counts as accepted.
Accepted == done \cup accepting \cup (IF r.ready THEN Requests(call) ELSE {})
Accept ==
    /\ pc = "accept" /\ ~stepping
    /\ \/ /\ Accepted = Requests(call)
          /\ pc' = "response" /\ left' = Timeout
          /\ asserted' = (asserted \ Accepted) \cup (IF call.kind = "write" THEN {"b"} ELSE {"r"})
          /\ accepting' = {} /\ done' = Accepted
          /\ UNCHANGED <<call, payload, outcome>>
       \/ /\ Accepted # Requests(call) /\ left > 1
          /\ pc' = "sample" /\ left' = left - 1
          /\ asserted' = asserted \ Accepted
          /\ accepting' = {} /\ done' = Accepted
          /\ UNCHANGED <<call, payload, outcome>>
       \/ /\ Accepted # Requests(call) /\ left = 1
          /\ EndCall(Outcome("timeout", ZeroWord))
    /\ UNCHANGED <<clk, calls, stepping, finished, r, hist>>

\* bresp, or rresp with rdata.
Answered == IF call.kind = "write" THEN r.bvalid ELSE r.rvalid
Answer == IF call.kind = "write" THEN [data |-> ZeroWord, resp |-> r.bresp] ELSE r.rpay

Await ==
    /\ pc = "response" /\ ~stepping
    /\ \/ /\ left > 0 /\ Answered
          /\ pc' = "last" /\ stepping' = TRUE
          /\ outcome' = Outcome(IF Answer.resp = Okay THEN "ok" ELSE "error", Answer.data)
          /\ UNCHANGED <<call, asserted, payload, accepting, done, left>>
       \/ /\ left > 0 /\ ~Answered
          /\ left' = left - 1 /\ stepping' = TRUE
          /\ UNCHANGED <<pc, call, asserted, payload, accepting, done, outcome>>
       \/ /\ left = 0
          /\ EndCall(Outcome("timeout", ZeroWord))
          /\ UNCHANGED stepping
    /\ UNCHANGED <<clk, calls, finished, r, hist>>

Finish ==
    /\ pc = "last" /\ ~stepping
    /\ EndCall(outcome)
    /\ acked' = IF call.kind = "write" THEN Append(acked, call) ELSE acked
    /\ UNCHANGED <<clk, calls, stepping, finished, r, faulty, stalled, cut>>

\* queue_write_response and queue_read_response, between calls: an error.
QueueWriteResponse ==
    /\ pc = "idle" /\ Len(r.queuedB) + Len(r.queuedR) < MaxQueued
    /\ r' = [r EXCEPT !.queuedB = Append(@, SlvErr)]
    /\ UNCHANGED <<clk, calls, master, finished, hist>>

QueueReadResponse ==
    /\ pc = "idle" /\ Len(r.queuedB) + Len(r.queuedR) < MaxQueued
    /\ r' = [r EXCEPT !.queuedR = Append(@, [data |-> ZeroWord, resp |-> SlvErr])]
    /\ UNCHANGED <<clk, calls, master, finished, hist>>

----------------------------------------------------------------------------

\* AXILiteResponder.__init__ with its options, AXILiteMaster.__init__.
Init ==
    /\ clk \in 0 .. 1 /\ calls = 0
    /\ pc = "idle" /\ call = NoCall /\ asserted = {} /\ payload = [k \in Kinds |-> NoCall]
    /\ accepting = {} /\ done = {} /\ finished = FALSE
    /\ left = 0 /\ stepping = FALSE /\ outcome = [how |-> "none"]
    /\ \E ob, or \in Options :
          r = [ready |-> TRUE, bvalid |-> FALSE, bresp |-> Okay,
               rvalid |-> FALSE, rpay |-> [data |-> ZeroWord, resp |-> Okay],
               writeLog |-> <<>>, readLog |-> <<>>, memory |-> [a \in Addrs |-> ZeroWord],
               pendingB |-> <<>>, pendingR |-> <<>>, queuedB |-> <<>>, queuedR |-> <<>>,
               clearB |-> 0, clearR |-> 0, writeSeen |-> FALSE, readSeen |-> FALSE,
               unacked |-> {}, snapshot |-> [k \in Kinds |-> NoCall], accused |-> FALSE,
               holdB |-> ob.hold, holdR |-> or.hold, waitB |-> ob.wait, waitR |-> or.wait]
    /\ acked = <<>> /\ faulty = FALSE /\ stalled = FALSE /\ cut = 0

Next ==
    \/ \E c \in Calls : Start(c)
    \/ Sample \/ Accept \/ Await \/ Finish
    \/ StepDown \/ (\E p \in Pauses : StepUp(p)) \/ NoStep
    \/ QueueWriteResponse \/ QueueReadResponse

Spec == Init /\ [][Next]_vars

----------------------------------------------------------------------------

\* Up to and including the first call the simulation stopped under: after it
\* the VALIDs of that call are still driven, and nothing is claimed.
Orderly == cut \in {0, calls}
StoppedIn(kind) == outcome.how = "stopped" /\ outcome.call.kind = kind

\* Between calls the responder has logged each write that returned exactly
\* once and in order, and no other: not one that timed out.  A write the
\* simulation stopped under may have been logged too, once and last.
WritesOnceInOrder ==
    pc = "idle" /\ Orderly =>
        \/ r.writeLog = acked
        \/ StoppedIn("write") /\ r.writeLog = Append(acked, outcome.call)

\* A call ends with the response to its own request, not with one left over
\* on the bus or one of the next: an error exactly when one was queued for it.
\* It times out only when it found READY low at least once, and no response
\* stays behind for a later call.  A call the simulation stopped under leaves
\* at most one behind, its own, and a write only if it was logged.
OwnResponse ==
    pc = "idle" /\ Orderly /\ outcome.how # "none" =>
        /\ \/ outcome.how = IF faulty THEN "error" ELSE "ok"
           \/ outcome.how = "timeout" /\ stalled
           \/ outcome.how = "stopped" /\ cut = calls
        /\ r.pendingB = <<>> \/ (StoppedIn("write") /\ Len(r.pendingB) = 1 /\ r.writeLog = Append(acked, outcome.call))
        /\ r.pendingR = <<>> \/ (StoppedIn("read") /\ Len(r.pendingR) = 1)

\* A read returns what the writes so far left at its address, lane by lane.
LastWriter(a, l) == {i \in 1 .. Len(acked) : acked[i].addr = a /\ l \in acked[i].strb}
ReadsLastWrite ==
    pc = "idle" /\ cut = 0 /\ outcome.how = "ok" /\ outcome.call.kind = "read" =>
        \A l \in Lanes :
            LET ws == LastWriter(outcome.call.addr, l)
            IN outcome.data[l] = IF ws = {} THEN Zero
                                 ELSE acked[CHOOSE i \in ws : \A j \in ws : j <= i].data[l]

\* "the protocol already requires the source to hold VALID/DATA stable until
\* the handshake completes": the strict responder never accuses the master
\* while no call was stopped.
ValidHeld == cut = 0 => ~r.accused
=============================================================================
