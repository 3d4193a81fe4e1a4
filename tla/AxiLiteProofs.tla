--------------------------- MODULE AxiLiteProofs ---------------------------
(***************************************************************************)
(* Proofs about AxiLiteBench: a call of the AXI-Lite master is taken once  *)
(* by the responder, ends with its own response, and a read returns what   *)
(* the writes before it left, whatever the pauses, the explicitly queued   *)
(* errors and the number of calls.                                         *)
(*                                                                         *)
(* The argument follows one call.  READY is one flag for all channels, and *)
(* only a rising edge changes it: what the master samples before the edge  *)
(* is what the responder sees while the clock is low, so a request is      *)
(* taken exactly when it was sampled READY, and then only once.  What      *)
(* remains is to follow the response from the queue to the bus and off it  *)
(* again, by its countdown, until the call has returned.                   *)
(*                                                                         *)
(* A call the simulation stops under is cut off anywhere on that path.     *)
(* Midway says where the responder can then be: what every state of the    *)
(* path has in common, and so what is left for a reader to rely on.        *)
(***************************************************************************)
EXTENDS AxiLiteBench, TLAPS

\* The options under which the countdown fits this master, which looks at
\* VALID after rising edges only and gives up after Timeout looks.  Another
\* hold leaves a response on the bus into the answer phase of the next call,
\* or takes it away before the master has looked.
InTime ==
    \A o \in Options :
        \/ ~o.wait /\ o.hold = 0
        \/ Timeout > 1 /\ o.hold = 1
        \/ Timeout > 1 /\ o.wait /\ o.hold = 2

----------------------------------------------------------------------------
(* Types.                                                                  *)

Words == [Lanes -> Bytes]
Responses == [data : Words, resp : {Okay, SlvErr}]
Holds == {[hold |-> h, wait |-> w] : h \in 0 .. 2, w \in BOOLEAN}

Responders ==
    [ready : BOOLEAN, bvalid : BOOLEAN, bresp : {Okay, SlvErr},
     rvalid : BOOLEAN, rpay : Responses,
     writeLog : Seq(Calls), readLog : Seq(Addrs), memory : [Addrs -> Words],
     pendingB : Seq({Okay, SlvErr}), pendingR : Seq(Responses),
     queuedB : Seq({SlvErr}), queuedR : Seq({[data |-> ZeroWord, resp |-> SlvErr]}),
     clearB : Nat, clearR : Nat, writeSeen : BOOLEAN, readSeen : BOOLEAN,
     unacked : SUBSET {"aw", "w", "ar"}, snapshot : [Kinds -> Calls \cup {NoCall}], accused : BOOLEAN,
     holdB : Nat, holdR : Nat, waitB : BOOLEAN, waitR : BOOLEAN]

TypeOK ==
    /\ clk \in 0 .. 1
    /\ pc \in {"idle", "sample", "accept", "response", "last"}
    /\ call \in Calls \cup {NoCall} /\ payload \in [Kinds -> Calls \cup {NoCall}]
    /\ stepping \in BOOLEAN /\ faulty \in BOOLEAN /\ stalled \in BOOLEAN
    /\ left \in Nat
    /\ r \in Responders
    /\ acked \in Seq(Calls)

----------------------------------------------------------------------------
(* One response channel, seen the same way for writes and for reads.       *)

Channel(valid, pay, pending, clear, seen, hold, wait) ==
    [valid |-> valid, pay |-> pay, pending |-> pending, clear |-> clear,
     seen |-> seen, hold |-> hold, wait |-> wait]

Side(x, k) ==
    IF k = "write"
    THEN Channel(x.bvalid, x.bresp, x.pendingB, x.clearB, x.writeSeen, x.holdB, x.waitB)
    ELSE Channel(x.rvalid, x.rpay, x.pendingR, x.clearR, x.readSeen, x.holdR, x.waitR)

\* The response due to the call c from the responder x, an error if f.
DueTo(x, c, f) ==
    IF c.kind = "write" THEN IF f THEN SlvErr ELSE Okay
    ELSE [data |-> IF f THEN ZeroWord ELSE x.memory[c.addr],
          resp |-> IF f THEN SlvErr ELSE Okay]
Due(x) == DueTo(x, call, faulty)

Fits(s) == \/ ~s.wait /\ s.hold = 0
           \/ Timeout > 1 /\ s.hold = 1
           \/ Timeout > 1 /\ s.wait /\ s.hold = 2

\* Nothing to answer; what is still shown goes with the next rising edge.
Leaving(s) == s.clear = (IF s.valid THEN 1 ELSE 0) /\ (s.valid => s.hold > 0)
Hushed(s) == s.pending = <<>> /\ ~s.seen /\ Leaving(s)
Silent(s) == Hushed(s) /\ ~s.valid

\* The response d waits, it is shown and not counted down, or it has n edges.
Waits(s, d) == s.pending = <<d>> /\ Leaving(s) /\ s.hold > 0
Shown(s, d) == s.valid /\ s.pay = d /\ s.pending = <<>> /\ s.clear = 0 /\ ~s.wait
Counts(s, d, n) == s.valid /\ s.pay = d /\ s.pending = <<>> /\ s.clear = n /\ ~s.seen

----------------------------------------------------------------------------
(* The inductive invariant: how far the responder is with the call.        *)

Queued(x, kind) == IF kind = "write" THEN x.queuedB ELSE x.queuedR
Untaken(x) == x.writeLog = acked /\ (faulty <=> Queued(x, call.kind) # <<>>)
Taken(x) == x.writeLog = IF call.kind = "write" THEN Append(acked, call) ELSE acked
Lost(x, s) == Silent(s) /\ stalled /\ x.writeLog = acked

\* The response is not counted down yet.
Open(s, d) == (Waits(s, d) /\ ~s.valid) \/ Shown(s, d)

Sampling(x, s) ==
    pc = "sample" =>
        ~stepping /\ done = {} /\ asserted = Requests(call) /\ Untaken(x) /\ Hushed(s)

Requesting(x, s) ==
    pc = "accept" =>
        /\ done = {} /\ asserted = Requests(call)
        /\ accepting \in {Requests(call), {}}
        /\ stepping => (x.ready <=> accepting # {})
        /\ accepting = {} => stalled
        /\ ~stepping => clk = 1
        /\ \/ stepping /\ Untaken(x) /\ Hushed(s) 
           \/ stepping /\ clk = 0 /\ accepting # {} /\ Taken(x) /\ s.seen /\ (Waits(s, Due(x)) \/ Shown(s, Due(x)))
           \/ ~stepping /\ accepting = {} /\ Untaken(x) /\ Silent(s)
           \/ ~stepping /\ accepting # {} /\ Taken(x) /\ Open(s, Due(x))

Responding(x, s) ==
    pc = "response" =>
        /\ asserted = (IF call.kind = "write" THEN {"b"} ELSE {"r"})
        /\ ~stepping => clk = 1
        /\ \/ Lost(x, s)
           \/ ~stepping /\ Taken(x) /\ left = Timeout /\ Open(s, Due(x))
           \/ ~stepping /\ Taken(x) /\ left > 0 /\ s.hold > 0 /\ Counts(s, Due(x), s.hold)
           \/ stepping /\ clk = 1 /\ Taken(x) /\ left > 0 /\ Waits(s, Due(x)) /\ ~s.valid
           \/ stepping /\ clk = 0 /\ Taken(x) /\ left > 0 /\ s.hold > 0 /\ Counts(s, Due(x), s.hold + 1)

\* What the call returns.
Outcomes ==
    \/ outcome.how = "none"
    \/ outcome.how = (IF faulty THEN "error" ELSE "ok")
    \/ outcome.how = "timeout" /\ stalled
ReadRight(x) ==
    outcome.how = "ok" /\ outcome.call.kind = "read" =>
        /\ outcome.call.addr \in Addrs
        /\ outcome.data = x.memory[outcome.call.addr]
NotYet == outcome.how = "none"

Ending(x, s) ==
    pc = "last" =>
        /\ asserted = (IF call.kind = "write" THEN {"b"} ELSE {"r"})
        /\ Taken(x) /\ outcome.how = (IF faulty THEN "error" ELSE "ok") /\ outcome.call = call
        /\ \/ ~stepping /\ Hushed(s)
           \/ stepping /\ clk = 1 /\ Shown(s, Due(x))
           \/ stepping /\ clk = 1 /\ s.hold > 0 /\ Counts(s, Due(x), s.hold)
           \/ stepping /\ clk = 0 /\ ~s.wait /\ Counts(s, Due(x), s.hold + 1)
           \/ stepping /\ clk = 0 /\ s.hold > 0 /\ Counts(s, Due(x), s.hold)

Idling(x) ==
    IF pc = "idle"
    THEN /\ ~stepping /\ call = NoCall /\ asserted = {} /\ accepting = {} /\ done = {}
         /\ x.writeLog = acked /\ Outcomes
    ELSE call \in Calls /\ payload[call.kind] = call /\ (pc # "last" => NotYet)

\* The byte an address holds after the writes of a log.
LastTo(log, a, l) == {i \in 1 .. Len(log) : log[i].addr = a /\ l \in log[i].strb}
ByteOf(log, a, l) ==
    LET ws == LastTo(log, a, l)
    IN IF ws = {} THEN Zero ELSE log[CHOOSE i \in ws : \A j \in ws : j <= i].data[l]
HasLast(ws) == ws # {} => \E i \in ws : \A j \in ws : j <= i
Remembers(memory, log) ==
    \A a \in Addrs, l \in Lanes : HasLast(LastTo(log, a, l)) /\ memory[a][l] = ByteOf(log, a, l)

CallInv(x) ==
    LET s == Side(x, call.kind)
    IN Sampling(x, s) /\ Requesting(x, s) /\ Responding(x, s) /\ Ending(x, s)
SidesInv(x) ==
    \A k \in {"write", "read"} : Fits(Side(x, k)) /\ (call.kind # k => Hushed(Side(x, k)))

AxiInv ==
    /\ TypeOK /\ Idling(r) /\ ReadRight(r) /\ CallInv(r) /\ SidesInv(r)
    /\ Remembers(r.memory, r.writeLog)

----------------------------------------------------------------------------
(* The responder's phases, one channel at a time.                          *)

Fire(x, k) == x.ready /\ (IF k = "write" THEN {"aw", "w"} \subseteq asserted ELSE "ar" \in asserted)
Wanted(k) == (IF k = "write" THEN "b" ELSE "r") \in asserted
Offer(x, k) ==
    IF k = "write" THEN NextOf(x.queuedB, Okay)
    ELSE NextOf(x.queuedR, [data |-> TakeWrite(x).memory[call.addr], resp |-> Okay])

Took(s, fire, due) ==
    Channel(s.valid, s.pay, IF fire /\ ~s.seen THEN Append(s.pending, due) ELSE s.pending, s.clear,
            fire, s.hold, s.wait)
Begun(s, wanted) ==
    IF ~s.valid /\ s.pending # <<>> /\ (s.wait => wanted)
    THEN Channel(TRUE, Head(s.pending), Tail(s.pending), 0, s.seen, s.hold, s.wait)
    ELSE s
Armed(s, wanted) ==
    Channel(s.valid, s.pay, s.pending, IF s.valid /\ wanted /\ s.clear = 0 THEN s.hold + 1 ELSE s.clear,
            s.seen, s.hold, s.wait)
Low(s, fire, due, wanted) == Armed(Begun(Took(s, fire, due), wanted), wanted)
Counted(s) ==
    Channel(s.valid /\ s.clear # 1, s.pay, s.pending, IF s.clear = 0 THEN 0 ELSE s.clear - 1,
            s.seen, s.hold, s.wait)

\* What is asserted belongs to the call under way.
Driven ==
    /\ "aw" \in asserted => call \in Calls /\ call.kind = "write" /\ payload["write"] = call
    /\ "ar" \in asserted => call \in Calls /\ call.kind = "read" /\ payload["read"] = call

\* The shape of a call: a write has data and strobes, a read an address only.
LEMMA CallFields ==
    ASSUME NEW c \in Calls
    PROVE  /\ c.addr \in Addrs /\ c.kind \in {"write", "read"}
           /\ c.kind = "write" => c.data \in Data /\ c.strb \in SUBSET Lanes
           /\ c # NoCall
BY DEF Calls, NoCall

\* A strobed word is a word: Strobed is the byte-wise merge of the responder.
LEMMA StrobedType ==
    ASSUME NEW c \in Calls, c.kind = "write", NEW w \in Words
    PROVE  Strobed(w, c) \in Words
<1>1. c.data \in Data /\ c.data \in [Lanes -> Bytes]
  BY CallFields, AxiLiteAssumption
<1> QED
  BY <1>1 DEF Words, Strobed

\* The word of unwritten memory is a word.
LEMMA ZeroType == ZeroWord \in Words
BY AxiLiteAssumption DEF ZeroWord, Words

\* NextOf and Rest: what an explicitly queued response stands for.
LEMMA QueueHead ==
    ASSUME NEW T, NEW s \in Seq(T), NEW D, NEW d \in D, T \subseteq D
    PROVE  NextOf(s, d) \in D /\ Rest(s) \in Seq(T)
BY DEF NextOf, Rest

\* The fields a taken write sets.
WriteSet(x, a, m, p, q) ==
    [x EXCEPT !.writeLog = a, !.writeSeen = TRUE, !.memory = m, !.pendingB = p, !.queuedB = q]

\* ... and that they stay of their types.
LEMMA WriteFields ==
    ASSUME NEW x \in Responders, NEW a \in Seq(Calls), NEW m \in [Addrs -> Words],
           NEW p \in Seq({Okay, SlvErr}), NEW q \in Seq({SlvErr})
    PROVE  WriteSet(x, a, m, p, q) \in Responders
BY Zenon DEF Responders, WriteSet

\* TakeWrite keeps a responder a responder.
LEMMA TakeWriteType ==
    ASSUME TypeOK, Driven, NEW x \in Responders
    PROVE  TakeWrite(x) \in Responders
<1> DEFINE fire == {"aw", "w"} \subseteq asserted /\ x.ready
<1>1. CASE fire /\ ~x.writeSeen
  <2>1. call \in Calls /\ call.kind = "write" /\ call.addr \in Addrs /\ payload["write"] = call
    BY <1>1, CallFields DEF Driven
  <2>2. x.memory[call.addr] \in Words
    BY <2>1 DEF Responders
  <2>3. Strobed(x.memory[call.addr], call) \in Words
    BY <2>1, <2>2, StrobedType
  <2>4. NextOf(x.queuedB, Okay) \in {Okay, SlvErr} /\ Rest(x.queuedB) \in Seq({SlvErr})
    <3>1. x.queuedB \in Seq({SlvErr})
      BY DEF Responders
    <3> QED
      BY <3>1, QueueHead
  <2>5. /\ Append(x.writeLog, call) \in Seq(Calls)
        /\ Append(x.pendingB, NextOf(x.queuedB, Okay)) \in Seq({Okay, SlvErr})
    BY <2>1, <2>4 DEF Responders
  <2> DEFINE a == Append(x.writeLog, call)
             m == [x.memory EXCEPT ![call.addr] = Strobed(x.memory[call.addr], call)]
             p == Append(x.pendingB, NextOf(x.queuedB, Okay))
             q == Rest(x.queuedB)
  <2>6. m \in [Addrs -> Words]
    BY <2>3 DEF Responders
  <2>7. TakeWrite(x) = WriteSet(x, a, m, p, q)
    BY <1>1, <2>1 DEF TakeWrite, Responders, WriteSet
  <2>8. a \in Seq(Calls) /\ p \in Seq({Okay, SlvErr}) /\ q \in Seq({SlvErr})
    BY <2>4, <2>5
  <2> HIDE DEF a, m, p, q
  <2> QED
    BY <2>6, <2>7, <2>8, WriteFields
<1>2. CASE ~(fire /\ ~x.writeSeen)
  <2>1. TakeWrite(x) = [x EXCEPT !.writeSeen = fire]
    BY <1>2 DEF TakeWrite
  <2>2. fire \in BOOLEAN
    OBVIOUS
  <2> HIDE DEF fire
  <2> QED
    BY <2>1, <2>2 DEF Responders
<1> QED
  BY <1>1, <1>2
\* What TakeWrite does to the two channels and to the store.
LEMMA TakeWriteEffect ==
    ASSUME TypeOK, Driven, NEW x \in Responders, NEW y, y = TakeWrite(x)
    PROVE  /\ Side(y, "write") = Took(Side(x, "write"), Fire(x, "write"), Offer(x, "write"))
           /\ Side(y, "read") = Side(x, "read")
           /\ y.ready = x.ready /\ y.queuedR = x.queuedR
           /\ IF Fire(x, "write") /\ ~x.writeSeen
              THEN /\ y.writeLog = Append(x.writeLog, call)
                   /\ y.memory = [x.memory EXCEPT ![call.addr] = Strobed(x.memory[call.addr], call)]
                   /\ y.queuedB = Rest(x.queuedB)
              ELSE y.writeLog = x.writeLog /\ y.memory = x.memory /\ y.queuedB = x.queuedB
<1> DEFINE a == Append(x.writeLog, call)
           m == [x.memory EXCEPT ![call.addr] = Strobed(x.memory[call.addr], call)]
           o == Offer(x, "write")
           p == Append(x.pendingB, o)
           q == Rest(x.queuedB)
           fire == Fire(x, "write")
<1>1. CASE fire /\ ~x.writeSeen
  <2>0. payload["write"] = call
    BY <1>1 DEF Driven, Fire
  <2>1. y = WriteSet(x, a, m, p, q)
    BY <1>1, <2>0 DEF TakeWrite, Responders, WriteSet, Fire, Offer
  <2> HIDE DEF a, m, p, q
  <2>2. /\ y.writeLog = a /\ y.memory = m /\ y.queuedB = q /\ y.ready = x.ready /\ y.queuedR = x.queuedR
        /\ y.writeSeen = TRUE /\ y.pendingB = p
        /\ y.bvalid = x.bvalid /\ y.bresp = x.bresp /\ y.clearB = x.clearB /\ y.holdB = x.holdB /\ y.waitB = x.waitB
    BY <2>1 DEF WriteSet, Responders
  <2>3. /\ y.rvalid = x.rvalid /\ y.rpay = x.rpay /\ y.clearR = x.clearR /\ y.holdR = x.holdR /\ y.waitR = x.waitR
        /\ y.pendingR = x.pendingR /\ y.readSeen = x.readSeen
    BY <2>1 DEF WriteSet, Responders
  <2>4. Side(y, "read") = Side(x, "read")
    BY <2>3 DEF Side, Channel
  <2>5. Side(y, "write") = Took(Side(x, "write"), fire, o)
    <3> HIDE DEF fire, o
    <3> QED
      BY <1>1, <2>2 DEF Side, Took, p, Channel
  <2> QED
    BY <1>1, <2>2, <2>4, <2>5 DEF a, m, q
<1>2. CASE ~(fire /\ ~x.writeSeen)
  <2>1. y = [x EXCEPT !.writeSeen = fire]
    BY <1>2 DEF TakeWrite, Fire
  <2>2. fire \in BOOLEAN
    BY DEF Fire, Responders
  <2> HIDE DEF fire
  <2>3. /\ y.writeLog = x.writeLog /\ y.memory = x.memory /\ y.queuedB = x.queuedB /\ y.ready = x.ready
        /\ y.queuedR = x.queuedR /\ y.writeSeen = fire /\ y.pendingB = x.pendingB
        /\ y.bvalid = x.bvalid /\ y.bresp = x.bresp /\ y.clearB = x.clearB /\ y.holdB = x.holdB /\ y.waitB = x.waitB
    BY <2>1 DEF Responders
  <2>4. /\ y.rvalid = x.rvalid /\ y.rpay = x.rpay /\ y.clearR = x.clearR /\ y.holdR = x.holdR /\ y.waitR = x.waitR
        /\ y.pendingR = x.pendingR /\ y.readSeen = x.readSeen
    BY <2>1 DEF Responders
  <2>5. Side(y, "read") = Side(x, "read")
    BY <2>4 DEF Side, Channel
  <2>6. Side(y, "write") = Took(Side(x, "write"), fire, o)
    <3> HIDE DEF o
    <3> QED
      BY <1>2, <2>2, <2>3 DEF Side, Took, Channel
  <2> QED
    BY <1>2, <2>3, <2>5, <2>6 DEF fire
<1> QED
  BY <1>1, <1>2
\* The fields a taken read sets.
ReadSet(x, a, p, q) == [x EXCEPT !.readLog = a, !.readSeen = TRUE, !.pendingR = p, !.queuedR = q]

\* ... and that they stay of their types.
LEMMA ReadFields ==
    ASSUME NEW x \in Responders, NEW a \in Seq(Addrs), NEW p \in Seq(Responses),
           NEW q \in Seq({[data |-> ZeroWord, resp |-> SlvErr]})
    PROVE  ReadSet(x, a, p, q) \in Responders
BY Zenon DEF Responders, ReadSet

\* What TakeRead does to the two channels and to the store.
LEMMA TakeReadEffect ==
    ASSUME TypeOK, Driven, NEW x \in Responders, NEW y, y = TakeRead(x)
    PROVE  /\ y \in Responders
           /\ Side(y, "read") = Took(Side(x, "read"), Fire(x, "read"),
                                     NextOf(x.queuedR, [data |-> x.memory[call.addr], resp |-> Okay]))
           /\ Side(y, "write") = Side(x, "write")
           /\ y.ready = x.ready /\ y.writeLog = x.writeLog /\ y.memory = x.memory /\ y.queuedB = x.queuedB
           /\ y.queuedR = IF Fire(x, "read") /\ ~x.readSeen THEN Rest(x.queuedR) ELSE x.queuedR
<1> DEFINE a == Append(x.readLog, call.addr)
           o == NextOf(x.queuedR, [data |-> x.memory[call.addr], resp |-> Okay])
           p == Append(x.pendingR, o)
           q == Rest(x.queuedR)
           fire == Fire(x, "read")
<1>1. CASE fire /\ ~x.readSeen
  <2>0. payload["read"] = call
    BY <1>1 DEF Driven, Fire
  <2>1. y = ReadSet(x, a, p, q)
    BY <1>1, <2>0 DEF TakeRead, Responders, ReadSet, Fire
  <2>2. call.addr \in Addrs
    BY <1>1, CallFields DEF Driven, Fire
  <2>3. x.memory[call.addr] \in Words /\ x.queuedR \in Seq({[data |-> ZeroWord, resp |-> SlvErr]})
    BY <2>2 DEF Responders
  <2>4. [data |-> ZeroWord, resp |-> SlvErr] \in Responses /\ [data |-> x.memory[call.addr], resp |-> Okay] \in Responses
    BY <2>3, ZeroType DEF Responses
  <2>5. o \in Responses /\ q \in Seq({[data |-> ZeroWord, resp |-> SlvErr]})
    BY <2>3, <2>4, QueueHead
  <2>6. a \in Seq(Addrs) /\ p \in Seq(Responses)
    <3> HIDE DEF o
    <3> QED
      BY <2>2, <2>5 DEF Responders
  <2> HIDE DEF a, p, q
  <2>7. y \in Responders
    BY <2>1, <2>5, <2>6, ReadFields
  <2>8. /\ y.writeLog = x.writeLog /\ y.memory = x.memory /\ y.queuedB = x.queuedB /\ y.ready = x.ready
        /\ y.queuedR = q /\ y.writeSeen = x.writeSeen /\ y.pendingB = x.pendingB
        /\ y.bvalid = x.bvalid /\ y.bresp = x.bresp /\ y.clearB = x.clearB /\ y.holdB = x.holdB /\ y.waitB = x.waitB
    BY <2>1 DEF ReadSet, Responders
  <2>9. /\ y.rvalid = x.rvalid /\ y.rpay = x.rpay /\ y.clearR = x.clearR /\ y.holdR = x.holdR /\ y.waitR = x.waitR
        /\ y.pendingR = p /\ y.readSeen = TRUE
    BY <2>1 DEF ReadSet, Responders
  <2>10. Side(y, "write") = Side(x, "write")
    BY <2>8 DEF Side, Channel
  <2>11. Side(y, "read") = Took(Side(x, "read"), fire, o)
    <3> HIDE DEF fire, o
    <3> QED
      BY <1>1, <2>9 DEF Side, Took, p, Channel
  <2> QED
    BY <1>1, <2>7, <2>8, <2>10, <2>11 DEF q
<1>2. CASE ~(fire /\ ~x.readSeen)
  <2>1. y = [x EXCEPT !.readSeen = fire]
    BY <1>2 DEF TakeRead, Fire
  <2>2. fire \in BOOLEAN
    BY DEF Fire, Responders
  <2> HIDE DEF fire
  <2>3. /\ y.writeLog = x.writeLog /\ y.memory = x.memory /\ y.queuedB = x.queuedB /\ y.ready = x.ready
        /\ y.queuedR = x.queuedR /\ y.writeSeen = x.writeSeen /\ y.pendingB = x.pendingB
        /\ y.bvalid = x.bvalid /\ y.bresp = x.bresp /\ y.clearB = x.clearB /\ y.holdB = x.holdB /\ y.waitB = x.waitB
    BY <2>1 DEF Responders
  <2>4. /\ y.rvalid = x.rvalid /\ y.rpay = x.rpay /\ y.clearR = x.clearR /\ y.holdR = x.holdR /\ y.waitR = x.waitR
        /\ y.pendingR = x.pendingR /\ y.readSeen = fire
    BY <2>1 DEF Responders
  <2>5. Side(y, "write") = Side(x, "write")
    BY <2>3 DEF Side, Channel
  <2>6. Side(y, "read") = Took(Side(x, "read"), fire, o)
    <3> HIDE DEF o
    <3> QED
      BY <1>2, <2>2, <2>4 DEF Side, Took, Channel
  <2>7. y \in Responders
    BY <2>1, <2>2 DEF Responders
  <2> QED
    BY <1>2, <2>3, <2>5, <2>6, <2>7 DEF fire
<1> QED
  BY <1>1, <1>2

\* The fields a started response sets.
BSet(x, v, p) == [x EXCEPT !.bresp = v, !.pendingB = p, !.bvalid = TRUE, !.clearB = 0]
RSet(x, v, p) == [x EXCEPT !.rpay = v, !.pendingR = p, !.rvalid = TRUE, !.clearR = 0]

\* ... and that they stay of their types.
LEMMA BFields ==
    ASSUME NEW x \in Responders, NEW v \in {Okay, SlvErr}, NEW p \in Seq({Okay, SlvErr})
    PROVE  BSet(x, v, p) \in Responders
BY Zenon DEF Responders, BSet

\* The same of the read channel.
LEMMA RFields ==
    ASSUME NEW x \in Responders, NEW v \in Responses, NEW p \in Seq(Responses)
    PROVE  RSet(x, v, p) \in Responders
BY Zenon DEF Responders, RSet

\* What the phases after the requests keep of ready and of the store.
SameStore(x, y) ==
    /\ y.ready = x.ready /\ y.writeLog = x.writeLog /\ y.memory = x.memory
    /\ y.queuedB = x.queuedB /\ y.queuedR = x.queuedR

\* StartB starts the response of the write channel and nothing else.
LEMMA StartBEffect ==
    ASSUME NEW x \in Responders, NEW y, y = StartB(x)
    PROVE  /\ y \in Responders /\ SameStore(x, y)
           /\ Side(y, "write") = Begun(Side(x, "write"), Wanted("write"))
           /\ Side(y, "read") = Side(x, "read")
<1>1. CASE ~x.bvalid /\ x.pendingB # <<>> /\ (x.waitB => "b" \in asserted)
  <2> DEFINE v == Head(x.pendingB)
             p == Tail(x.pendingB)
  <2>1. y = BSet(x, v, p)
    BY <1>1 DEF StartB, Responders, BSet
  <2>2. v \in {Okay, SlvErr} /\ p \in Seq({Okay, SlvErr})
    <3>1. x.pendingB \in Seq({Okay, SlvErr})
      BY DEF Responders
    <3> QED
      BY <1>1, <3>1
  <2> HIDE DEF v, p
  <2>3. y \in Responders
    BY <2>1, <2>2, BFields
  <2>4. /\ y.rvalid = x.rvalid /\ y.rpay = x.rpay /\ y.clearR = x.clearR /\ y.holdR = x.holdR /\ y.waitR = x.waitR
        /\ y.pendingR = x.pendingR /\ y.readSeen = x.readSeen /\ SameStore(x, y)
    BY <2>1 DEF BSet, Responders, SameStore
  <2>5. /\ y.bvalid = TRUE /\ y.bresp = v /\ y.clearB = 0 /\ y.holdB = x.holdB /\ y.waitB = x.waitB
        /\ y.pendingB = p /\ y.writeSeen = x.writeSeen
    BY <2>1 DEF BSet, Responders
  <2>6. Side(y, "read") = Side(x, "read")
    BY <2>4 DEF Side, Channel
  <2>7. Side(y, "write") = Begun(Side(x, "write"), Wanted("write"))
    BY <1>1, <2>5 DEF Side, Begun, Wanted, v, p, Channel
  <2> QED
    BY <2>3, <2>4, <2>6, <2>7
<1>2. CASE ~(~x.bvalid /\ x.pendingB # <<>> /\ (x.waitB => "b" \in asserted))
  <2>1. y = x
    BY <1>2 DEF StartB
  <2>2. Side(x, "write") = Begun(Side(x, "write"), Wanted("write"))
    BY <1>2 DEF Side, Begun, Wanted, Channel
  <2> QED
    BY <2>1, <2>2 DEF SameStore
<1> QED
  BY <1>1, <1>2

\* StartR starts the response of the read channel and nothing else.
LEMMA StartREffect ==
    ASSUME NEW x \in Responders, NEW y, y = StartR(x)
    PROVE  /\ y \in Responders /\ SameStore(x, y)
           /\ Side(y, "read") = Begun(Side(x, "read"), Wanted("read"))
           /\ Side(y, "write") = Side(x, "write")
<1>1. CASE ~x.rvalid /\ x.pendingR # <<>> /\ (x.waitR => "r" \in asserted)
  <2> DEFINE v == Head(x.pendingR)
             p == Tail(x.pendingR)
  <2>1. y = RSet(x, v, p)
    BY <1>1 DEF StartR, Responders, RSet
  <2>2. v \in Responses /\ p \in Seq(Responses)
    <3>1. x.pendingR \in Seq(Responses)
      BY DEF Responders
    <3> QED
      BY <1>1, <3>1
  <2> HIDE DEF v, p
  <2>3. y \in Responders
    BY <2>1, <2>2, RFields
  <2>4. /\ y.rvalid = TRUE /\ y.rpay = v /\ y.clearR = 0 /\ y.holdR = x.holdR /\ y.waitR = x.waitR
        /\ y.pendingR = p /\ y.readSeen = x.readSeen /\ SameStore(x, y)
    BY <2>1 DEF RSet, Responders, SameStore
  <2>5. /\ y.bvalid = x.bvalid /\ y.bresp = x.bresp /\ y.clearB = x.clearB /\ y.holdB = x.holdB /\ y.waitB = x.waitB
        /\ y.pendingB = x.pendingB /\ y.writeSeen = x.writeSeen
    BY <2>1 DEF RSet, Responders
  <2>6. Side(y, "read") = Begun(Side(x, "read"), Wanted("read"))
    BY <1>1, <2>4 DEF Side, Begun, Wanted, v, p, Channel
  <2>7. Side(y, "write") = Side(x, "write")
    BY <2>5 DEF Side, Channel
  <2> QED
    BY <2>3, <2>4, <2>6, <2>7
<1>2. CASE ~(~x.rvalid /\ x.pendingR # <<>> /\ (x.waitR => "r" \in asserted))
  <2>1. y = x
    BY <1>2 DEF StartR
  <2>2. Side(x, "read") = Begun(Side(x, "read"), Wanted("read"))
    BY <1>2 DEF Side, Begun, Wanted, Channel
  <2> QED
    BY <2>1, <2>2 DEF SameStore
<1> QED
  BY <1>1, <1>2

\* ArmClear starts the countdown of each channel.
LEMMA ArmClearEffect ==
    ASSUME NEW x \in Responders, NEW y, y = ArmClear(x)
    PROVE  /\ y \in Responders /\ SameStore(x, y)
           /\ \A k \in {"write", "read"} : Side(y, k) = Armed(Side(x, k), Wanted(k))
<1> DEFINE b == IF x.bvalid /\ "b" \in asserted /\ x.clearB = 0 THEN x.holdB + 1 ELSE x.clearB
           c == IF x.rvalid /\ "r" \in asserted /\ x.clearR = 0 THEN x.holdR + 1 ELSE x.clearR
<1>1. y = [x EXCEPT !.clearB = b, !.clearR = c]
  BY DEF ArmClear, Responders
<1>2. b \in Nat /\ c \in Nat
  BY DEF Responders
<1> HIDE DEF b, c
<1>3. y \in Responders
  BY <1>1, <1>2 DEF Responders
<1>4. /\ y.rvalid = x.rvalid /\ y.rpay = x.rpay /\ y.clearR = c /\ y.holdR = x.holdR /\ y.waitR = x.waitR
      /\ y.pendingR = x.pendingR /\ y.readSeen = x.readSeen /\ SameStore(x, y)
  BY <1>1 DEF Responders, SameStore
<1>5. /\ y.bvalid = x.bvalid /\ y.bresp = x.bresp /\ y.clearB = b /\ y.holdB = x.holdB /\ y.waitB = x.waitB
      /\ y.pendingB = x.pendingB /\ y.writeSeen = x.writeSeen
  BY <1>1 DEF Responders
<1>6. Side(y, "read") = Armed(Side(x, "read"), Wanted("read"))
  BY <1>4 DEF Side, Armed, Wanted, c, Channel
<1>7. Side(y, "write") = Armed(Side(x, "write"), Wanted("write"))
  BY <1>5 DEF Side, Armed, Wanted, b, Channel
<1> QED
  BY <1>3, <1>4, <1>6, <1>7
\* The clock-low part of _on_time_step: each channel takes its request,
\* starts its response and arms its countdown.
LEMMA LowPhaseEffect ==
    ASSUME TypeOK, Driven, NEW x \in Responders, NEW y, y = LowPhase(x)
    PROVE  /\ y \in Responders /\ y.ready = x.ready
           /\ \A k \in {"write", "read"} : Side(y, k) = Low(Side(x, k), Fire(x, k), Offer(x, k), Wanted(k))
           /\ IF Fire(x, "write") /\ ~x.writeSeen
              THEN /\ y.writeLog = Append(x.writeLog, call)
                   /\ y.memory = [x.memory EXCEPT ![call.addr] = Strobed(x.memory[call.addr], call)]
                   /\ y.queuedB = Rest(x.queuedB)
              ELSE y.writeLog = x.writeLog /\ y.memory = x.memory /\ y.queuedB = x.queuedB
           /\ y.queuedR = IF Fire(x, "read") /\ ~x.readSeen THEN Rest(x.queuedR) ELSE x.queuedR
<1> DEFINE x1 == TakeWrite(x)
           x2 == TakeRead(x1)
           x3 == StartB(x2)
           x4 == StartR(x3)
<1>0. y = ArmClear(x4)
  BY DEF LowPhase
<1>1. x1 \in Responders
  BY TakeWriteType
<1>2. /\ Side(x1, "write") = Took(Side(x, "write"), Fire(x, "write"), Offer(x, "write"))
      /\ Side(x1, "read") = Side(x, "read")
      /\ x1.ready = x.ready /\ x1.queuedR = x.queuedR
      /\ IF Fire(x, "write") /\ ~x.writeSeen
         THEN /\ x1.writeLog = Append(x.writeLog, call)
              /\ x1.memory = [x.memory EXCEPT ![call.addr] = Strobed(x.memory[call.addr], call)]
              /\ x1.queuedB = Rest(x.queuedB)
         ELSE x1.writeLog = x.writeLog /\ x1.memory = x.memory /\ x1.queuedB = x.queuedB
  BY TakeWriteEffect
<1>3. Fire(x1, "read") = Fire(x, "read") /\ x1.readSeen = x.readSeen
  <2>1. Side(x1, "read").seen = x1.readSeen /\ Side(x, "read").seen = x.readSeen
    BY DEF Side, Channel
  <2>2. x1.ready = x.ready
    BY <1>2
  <2> HIDE DEF x1
  <2> QED
    BY <2>1, <2>2, <1>2 DEF Fire
<1>4. NextOf(x1.queuedR, [data |-> x1.memory[call.addr], resp |-> Okay]) = Offer(x, "read")
  <2>1. x1.queuedR = x.queuedR
    BY <1>2
  <2> QED
    BY <2>1 DEF Offer
<1> HIDE DEF x1
<1>5. /\ x2 \in Responders
      /\ Side(x2, "read") = Took(Side(x1, "read"), Fire(x1, "read"),
                                 NextOf(x1.queuedR, [data |-> x1.memory[call.addr], resp |-> Okay]))
      /\ Side(x2, "write") = Side(x1, "write")
      /\ x2.ready = x1.ready /\ x2.writeLog = x1.writeLog /\ x2.memory = x1.memory /\ x2.queuedB = x1.queuedB
      /\ x2.queuedR = IF Fire(x1, "read") /\ ~x1.readSeen THEN Rest(x1.queuedR) ELSE x1.queuedR
  BY <1>1, TakeReadEffect
<1> HIDE DEF x2
<1>6. /\ x3 \in Responders /\ SameStore(x2, x3)
      /\ Side(x3, "write") = Begun(Side(x2, "write"), Wanted("write"))
      /\ Side(x3, "read") = Side(x2, "read")
  BY <1>5, StartBEffect
<1> HIDE DEF x3
<1>7. /\ x4 \in Responders /\ SameStore(x3, x4)
      /\ Side(x4, "read") = Begun(Side(x3, "read"), Wanted("read"))
      /\ Side(x4, "write") = Side(x3, "write")
  BY <1>6, StartREffect
<1> HIDE DEF x4
<1>8. /\ y \in Responders /\ SameStore(x4, y)
      /\ Side(y, "write") = Armed(Side(x4, "write"), Wanted("write"))
      /\ Side(y, "read") = Armed(Side(x4, "read"), Wanted("read"))
  BY <1>0, <1>7, ArmClearEffect
<1>9. /\ y.ready = x2.ready /\ y.writeLog = x2.writeLog /\ y.memory = x2.memory
      /\ y.queuedB = x2.queuedB /\ y.queuedR = x2.queuedR
  BY <1>6, <1>7, <1>8 DEF SameStore
<1>10. Side(y, "write") = Low(Side(x, "write"), Fire(x, "write"), Offer(x, "write"), Wanted("write"))
  BY <1>2, <1>5, <1>6, <1>7, <1>8 DEF Low
<1>11. Side(y, "read") = Low(Side(x, "read"), Fire(x, "read"), Offer(x, "read"), Wanted("read"))
  BY <1>2, <1>3, <1>4, <1>5, <1>6, <1>7, <1>8 DEF Low
<1>12. y.queuedR = IF Fire(x, "read") /\ ~x.readSeen THEN Rest(x.queuedR) ELSE x.queuedR
  BY <1>2, <1>3, <1>5, <1>9
<1>13. IF Fire(x, "write") /\ ~x.writeSeen
       THEN /\ y.writeLog = Append(x.writeLog, call)
            /\ y.memory = [x.memory EXCEPT ![call.addr] = Strobed(x.memory[call.addr], call)]
            /\ y.queuedB = Rest(x.queuedB)
       ELSE y.writeLog = x.writeLog /\ y.memory = x.memory /\ y.queuedB = x.queuedB
  BY <1>2, <1>5, <1>9
<1> QED
  BY <1>2, <1>5, <1>8, <1>9, <1>10, <1>11, <1>12, <1>13

\* The fields a count sets.
CountSet(x, bv, cb, rv, cr) == [x EXCEPT !.bvalid = bv, !.clearB = cb, !.rvalid = rv, !.clearR = cr]

\* ... and that they stay of their types.
LEMMA CountFields ==
    ASSUME NEW x \in Responders, NEW bv \in BOOLEAN, NEW cb \in Nat, NEW rv \in BOOLEAN, NEW cr \in Nat
    PROVE  CountSet(x, bv, cb, rv, cr) \in Responders
BY Zenon DEF Responders, CountSet

\* The rising edge: the strict mode's notes, the next READY, and one count of
\* each channel.
LEMMA RisingEdgeEffect ==
    ASSUME TypeOK, asserted \in SUBSET {"aw", "w", "ar", "b", "r"},
           NEW x \in Responders, NEW paused \in BOOLEAN, NEW y, y = RisingEdge(x, paused)
    PROVE  /\ y \in Responders /\ y.ready = ~paused
           /\ y.writeLog = x.writeLog /\ y.memory = x.memory
           /\ y.queuedB = x.queuedB /\ y.queuedR = x.queuedR
           /\ \A k \in {"write", "read"} : Side(y, k) = Counted(Side(x, k))
<1> DEFINE acc == \/ x.accused \/ x.unacked \ Valids # {}
                  \/ \E k \in Kinds : x.unacked \cap Channels(k) # {} /\ x.snapshot[k] # payload[k]
           una == IF x.ready THEN {} ELSE Valids
           sna == [k \in Kinds |-> IF una \cap Channels(k) = {} THEN NoCall ELSE payload[k]]
           x1 == [x EXCEPT !.accused = acc]
           x2 == [x1 EXCEPT !.unacked = una, !.snapshot = sna]
           x3 == [x2 EXCEPT !.ready = ~paused]
<1>1. CheckStability(x) = x1
  BY DEF CheckStability, Responders
<1>2. acc \in BOOLEAN /\ una \in SUBSET {"aw", "w", "ar"} /\ sna \in [Kinds -> Calls \cup {NoCall}]
  <2>1. acc \in BOOLEAN /\ una \in SUBSET {"aw", "w", "ar"}
    BY DEF Valids, Responders
  <2>2. \A k \in Kinds : payload[k] \in Calls \cup {NoCall}
    BY DEF TypeOK
  <2> HIDE DEF una
  <2>3. sna \in [Kinds -> Calls \cup {NoCall}]
    BY <2>2
  <2> QED
    BY <2>1, <2>3
<1>3. x1.ready = x.ready
  BY DEF Responders
<1>4. UpdateStrict(x1) = x2
  <2> HIDE DEF x1
  <2> QED
    BY <1>3 DEF UpdateStrict
<1>5. y = CountDown(x3)
  BY <1>1, <1>4 DEF RisingEdge
<1> HIDE DEF acc, una, sna
<1>6. x1 \in Responders
  BY <1>2 DEF Responders
<1>7. /\ x1.writeLog = x.writeLog /\ x1.memory = x.memory /\ x1.queuedB = x.queuedB /\ x1.queuedR = x.queuedR
      /\ x1.bvalid = x.bvalid /\ x1.bresp = x.bresp /\ x1.clearB = x.clearB /\ x1.holdB = x.holdB
      /\ x1.waitB = x.waitB /\ x1.pendingB = x.pendingB /\ x1.writeSeen = x.writeSeen
      /\ x1.rvalid = x.rvalid /\ x1.rpay = x.rpay /\ x1.clearR = x.clearR /\ x1.holdR = x.holdR
      /\ x1.waitR = x.waitR /\ x1.pendingR = x.pendingR /\ x1.readSeen = x.readSeen
  BY DEF Responders
<1> HIDE DEF x1
<1>8. x2 \in Responders
  BY <1>2, <1>6 DEF Responders
<1>9. /\ x2.writeLog = x1.writeLog /\ x2.memory = x1.memory /\ x2.queuedB = x1.queuedB /\ x2.queuedR = x1.queuedR
      /\ x2.bvalid = x1.bvalid /\ x2.bresp = x1.bresp /\ x2.clearB = x1.clearB /\ x2.holdB = x1.holdB
      /\ x2.waitB = x1.waitB /\ x2.pendingB = x1.pendingB /\ x2.writeSeen = x1.writeSeen
      /\ x2.rvalid = x1.rvalid /\ x2.rpay = x1.rpay /\ x2.clearR = x1.clearR /\ x2.holdR = x1.holdR
      /\ x2.waitR = x1.waitR /\ x2.pendingR = x1.pendingR /\ x2.readSeen = x1.readSeen
  BY <1>6 DEF Responders
<1> HIDE DEF x2
<1>10. x3 \in Responders
  BY <1>8 DEF Responders
<1>11. /\ x3.writeLog = x2.writeLog /\ x3.memory = x2.memory /\ x3.queuedB = x2.queuedB /\ x3.queuedR = x2.queuedR
       /\ x3.bvalid = x2.bvalid /\ x3.bresp = x2.bresp /\ x3.clearB = x2.clearB /\ x3.holdB = x2.holdB
       /\ x3.waitB = x2.waitB /\ x3.pendingB = x2.pendingB /\ x3.writeSeen = x2.writeSeen
       /\ x3.rvalid = x2.rvalid /\ x3.rpay = x2.rpay /\ x3.clearR = x2.clearR /\ x3.holdR = x2.holdR
       /\ x3.waitR = x2.waitR /\ x3.pendingR = x2.pendingR /\ x3.readSeen = x2.readSeen
       /\ x3.ready = ~paused
  BY <1>8 DEF Responders
<1> HIDE DEF x3
<1>12. Side(x3, "write") = Side(x, "write") /\ Side(x3, "read") = Side(x, "read")
  BY <1>7, <1>9, <1>11 DEF Side, Channel
<1> DEFINE bv == x3.bvalid /\ x3.clearB # 1
           rv == x3.rvalid /\ x3.clearR # 1
           cb == IF x3.clearB = 0 THEN 0 ELSE x3.clearB - 1
           cr == IF x3.clearR = 0 THEN 0 ELSE x3.clearR - 1
<1>13. y = CountSet(x3, bv, cb, rv, cr)
  BY <1>5, <1>10 DEF CountDown, CountSet, Responders
<1>14. x3.bvalid \in BOOLEAN /\ x3.rvalid \in BOOLEAN /\ x3.clearB \in Nat /\ x3.clearR \in Nat
  BY <1>10 DEF Responders
<1>19. bv \in BOOLEAN /\ rv \in BOOLEAN /\ cb \in Nat /\ cr \in Nat
  BY <1>14
<1> HIDE DEF bv, rv, cb, cr
<1>15. y \in Responders
  BY <1>10, <1>13, <1>19, CountFields
<1>16. /\ y.writeLog = x3.writeLog /\ y.memory = x3.memory /\ y.queuedB = x3.queuedB /\ y.queuedR = x3.queuedR
       /\ y.bvalid = bv /\ y.bresp = x3.bresp /\ y.clearB = cb /\ y.holdB = x3.holdB
       /\ y.waitB = x3.waitB /\ y.pendingB = x3.pendingB /\ y.writeSeen = x3.writeSeen
       /\ y.rvalid = rv /\ y.rpay = x3.rpay /\ y.clearR = cr /\ y.holdR = x3.holdR
       /\ y.waitR = x3.waitR /\ y.pendingR = x3.pendingR /\ y.readSeen = x3.readSeen
       /\ y.ready = x3.ready
  BY <1>10, <1>13 DEF CountSet, Responders
<1>17. Side(y, "write") = Counted(Side(x3, "write"))
  BY <1>14, <1>16 DEF Side, Counted, bv, cb, Channel
<1>18. Side(y, "read") = Counted(Side(x3, "read"))
  BY <1>14, <1>16 DEF Side, Counted, rv, cr, Channel
<1> QED
  BY <1>7, <1>9, <1>11, <1>12, <1>15, <1>16, <1>17, <1>18
----------------------------------------------------------------------------
(* How one channel goes through the phases.                                *)

Shaped(s) ==
    /\ s.valid \in BOOLEAN /\ s.clear \in Nat /\ s.seen \in BOOLEAN /\ s.hold \in Nat /\ s.wait \in BOOLEAN
    /\ s = Channel(s.valid, s.pay, s.pending, s.clear, s.seen, s.hold, s.wait)

\* A channel of a responder has its shape.
LEMMA SideShaped ==
    ASSUME NEW x \in Responders, NEW k
    PROVE  Shaped(Side(x, k))
<1>1. CASE k = "write"
  BY <1>1 DEF Side, Shaped, Responders, Channel
<1>2. CASE k # "write"
  BY <1>2 DEF Side, Shaped, Responders, Channel
<1> QED
  BY <1>1, <1>2

\* Without a request a quiet channel stays as it is.
LEMMA LowHushed ==
    ASSUME NEW s, Shaped(s), Hushed(s), NEW d, NEW w \in BOOLEAN, NEW fire, fire = FALSE
    PROVE  Low(s, fire, d, w) = s
<1>1. Took(s, fire, d) = s
  BY DEF Took, Hushed, Shaped, Channel
<1>2. Begun(s, w) = s
  BY DEF Begun, Hushed, Channel
<1>3. Armed(s, w) = s
  BY DEF Armed, Hushed, Leaving, Shaped, Channel
<1> QED
  BY <1>1, <1>2, <1>3 DEF Low

\* A request taken by a quiet channel is shown at once, or waits for what is
\* still shown to go or for the master's READY.
LEMMA LowTakes ==
    ASSUME NEW s, Shaped(s), Hushed(s), Fits(s), NEW d, NEW w, w = FALSE, NEW fire, fire = TRUE,
           NEW t, t = Low(s, fire, d, w)
    PROVE  /\ t.seen /\ (Waits(t, d) \/ Shown(t, d))
           /\ t.hold = s.hold /\ t.wait = s.wait
<1> DEFINE u == Took(s, fire, d)
<1>1. /\ u.seen = TRUE /\ u.pending = <<d>> /\ u.valid = s.valid /\ u.clear = s.clear
      /\ u.hold = s.hold /\ u.wait = s.wait
      /\ u = Channel(u.valid, u.pay, u.pending, u.clear, u.seen, u.hold, u.wait)
  BY DEF Took, Hushed, Shaped, Channel
<1> HIDE DEF u
<1> DEFINE v == Begun(u, w)
<1>2. t = Armed(v, w)
  BY DEF Low, u
<1>3. CASE ~s.valid /\ ~s.wait
  <2>1. v.seen = TRUE /\ v.valid = TRUE /\ v.pay = d /\ v.pending = <<>> /\ v.clear = 0
        /\ v.hold = s.hold /\ v.wait = s.wait
        /\ v = Channel(v.valid, v.pay, v.pending, v.clear, v.seen, v.hold, v.wait)
    <3>1. ~u.valid /\ u.pending # <<>> /\ (u.wait => w) /\ Head(u.pending) = d /\ Tail(u.pending) = <<>>
      BY <1>1, <1>3
    <3>2. v = Channel(TRUE, d, <<>>, 0, u.seen, u.hold, u.wait)
      BY <3>1 DEF Begun
    <3> HIDE DEF v
    <3> QED
      BY <1>1, <3>2 DEF Channel
  <2> HIDE DEF v
  <2>2. t = v
    BY <1>2, <2>1 DEF Armed, Channel
  <2> QED
    BY <2>1, <2>2, <1>3 DEF Shown
<1>4. CASE s.valid \/ s.wait
  <2>1. v = u
    BY <1>1, <1>4 DEF Begun, Shaped, Channel
  <2> HIDE DEF v
  <2>2. t = u
    BY <1>1, <1>2, <2>1 DEF Armed, Channel
  <2>3. s.hold > 0
    BY <1>4 DEF Fits, Hushed, Leaving, Shaped, Channel
  <2> QED
    BY <1>1, <2>2, <2>3 DEF Waits, Hushed, Leaving
<1> QED
  BY <1>3, <1>4 DEF Shaped, Channel

\* While the request stays up it is not taken again.
LEMMA LowSeen ==
    ASSUME NEW s, Shaped(s), NEW d, Waits(s, d) \/ Shown(s, d), s.seen, NEW e,
           NEW w, w = FALSE, NEW fire, fire = TRUE,
           NEW t, t = Low(s, fire, e, w)
    PROVE  /\ t.seen /\ (Waits(t, d) \/ Shown(t, d))
           /\ t.hold = s.hold /\ t.wait = s.wait
<1>1. Took(s, fire, e) = s
  BY DEF Took, Shaped, Channel
<1> DEFINE v == Begun(s, w)
<1>2. t = Armed(v, w)
  BY <1>1 DEF Low
<1>3. CASE ~s.valid /\ s.pending # <<>> /\ ~s.wait
  <2>1. s.pending = <<d>>
    BY <1>3 DEF Waits, Shown
  <2>2. v.seen = TRUE /\ v.valid = TRUE /\ v.pay = d /\ v.pending = <<>> /\ v.clear = 0
        /\ v.hold = s.hold /\ v.wait = s.wait
        /\ v = Channel(v.valid, v.pay, v.pending, v.clear, v.seen, v.hold, v.wait)
    <3>1. Head(s.pending) = d /\ Tail(s.pending) = <<>>
      BY <2>1
    <3>2. v = Channel(TRUE, d, <<>>, 0, s.seen, s.hold, s.wait)
      BY <3>1, <1>3 DEF Begun
    <3> HIDE DEF v
    <3> QED
      BY <3>2 DEF Channel
  <2> HIDE DEF v
  <2>3. t = v
    BY <1>2, <2>2 DEF Armed, Channel
  <2> QED
    BY <2>2, <2>3, <1>3 DEF Shown
<1>4. CASE ~(~s.valid /\ s.pending # <<>> /\ ~s.wait)
  <2>1. v = s
    BY <1>4 DEF Begun, Shaped, Channel
  <2> HIDE DEF v
  <2>2. t = s
    BY <1>2, <2>1 DEF Armed, Shaped, Channel
  <2> QED
    BY <2>2
<1> QED
  BY <1>3, <1>4

\* A channel whose response is now counted down.
Arms(s, t, d) == Counts(t, d, s.hold + 1) /\ t.hold = s.hold /\ t.wait = s.wait

\* The master is ready: a response that waited or was shown is counted down.
LEMMA LowWanted ==
    ASSUME NEW s, Shaped(s), NEW d, Open(s, d), NEW e,
           NEW w, w = TRUE, NEW fire, fire = FALSE
    PROVE  Arms(s, Low(s, fire, e, w), d)
<1> DEFINE t == Low(s, fire, e, w)
           u == Took(s, fire, e)
<1>1. /\ u.seen = FALSE /\ u.pending = s.pending /\ u.valid = s.valid /\ u.clear = s.clear
      /\ u.pay = s.pay /\ u.hold = s.hold /\ u.wait = s.wait
      /\ u = Channel(u.valid, u.pay, u.pending, u.clear, u.seen, u.hold, u.wait)
  BY DEF Took, Shaped, Channel
<1> HIDE DEF u
<1> DEFINE v == Begun(u, w)
<1>2. t = Armed(v, w)
  BY DEF Low, u
<1> HIDE DEF t
<1>3. v.seen = FALSE /\ v.valid = TRUE /\ v.pay = d /\ v.pending = <<>> /\ v.clear = 0
      /\ v.hold = s.hold /\ v.wait = s.wait
      /\ v = Channel(v.valid, v.pay, v.pending, v.clear, v.seen, v.hold, v.wait)
  <2>1. CASE Waits(s, d) /\ ~s.valid
    BY <1>1, <2>1 DEF Begun, Waits, Channel
  <2>2. CASE Shown(s, d)
    BY <1>1, <2>2 DEF Begun, Shown, Channel
  <2> QED
    BY <2>1, <2>2 DEF Open
<1> HIDE DEF v
<1>4. /\ t.valid = TRUE /\ t.pay = d /\ t.pending = <<>> /\ t.seen = FALSE /\ t.hold = s.hold
      /\ t.wait = s.wait /\ t.clear = s.hold + 1
  BY <1>2, <1>3 DEF Armed, Channel
<1> QED
  BY <1>4 DEF Counts, t, Arms

\* A countdown under way is not armed again.
LEMMA LowCounting ==
    ASSUME NEW s, Shaped(s), NEW d, NEW n \in Nat \ {0}, Counts(s, d, n), NEW e,
           NEW w, w = TRUE, NEW fire, fire = FALSE
    PROVE  Low(s, fire, e, w) = s
<1>1. Took(s, fire, e) = s
  BY DEF Took, Counts, Shaped, Channel
<1>2. Begun(s, w) = s
  BY DEF Begun, Counts, Channel
<1>3. Armed(s, w) = s
  BY DEF Armed, Counts, Shaped, Channel
<1> QED
  BY <1>1, <1>2, <1>3 DEF Low

\* One rising edge for each state of a channel.
LEMMA CountedStates ==
    ASSUME NEW s, Shaped(s), NEW t, t = Counted(s)
    PROVE  /\ t.hold = s.hold /\ t.wait = s.wait /\ t.seen = s.seen
           /\ Hushed(s) => Silent(t)
           /\ \A d : Waits(s, d) => Waits(t, d) /\ ~t.valid
           /\ \A d : Shown(s, d) => Shown(t, d)
           /\ \A d, n \in Nat : Counts(s, d, n) /\ n > 1 => Counts(t, d, n - 1)
           /\ \A d : Counts(s, d, 1) => Silent(t)
<1>0. s.valid \in BOOLEAN /\ s.clear \in Nat /\ s.hold \in Nat
  BY DEF Shaped
<1>1. /\ t.hold = s.hold /\ t.wait = s.wait /\ t.seen = s.seen /\ t.pay = s.pay /\ t.pending = s.pending
      /\ (t.valid <=> s.valid /\ s.clear # 1) /\ t.valid \in BOOLEAN
      /\ (s.clear = 0 => t.clear = 0) /\ (s.clear # 0 => t.clear = s.clear - 1)
  BY DEF Counted, Channel
<1>2. Hushed(s) => Silent(t)
  BY <1>0, <1>1 DEF Hushed, Silent, Leaving
<1>3. ASSUME NEW d, Waits(s, d)
      PROVE  Waits(t, d) /\ ~t.valid
  BY <1>0, <1>1, <1>3 DEF Waits, Leaving
<1>4. ASSUME NEW d, Shown(s, d)
      PROVE  Shown(t, d)
  BY <1>0, <1>1, <1>4 DEF Shown
<1>5. ASSUME NEW d, NEW n \in Nat, Counts(s, d, n), n > 1
      PROVE  Counts(t, d, n - 1)
  BY <1>0, <1>1, <1>5 DEF Counts
<1>6. ASSUME NEW d, Counts(s, d, 1)
      PROVE  Silent(t)
  BY <1>0, <1>1, <1>6 DEF Counts, Silent, Hushed, Leaving
<1> QED
  BY <1>1, <1>2, <1>3, <1>4, <1>5, <1>6
----------------------------------------------------------------------------
(* The memory and the log.                                                 *)

\* A write at the end of the log is the last one to the lanes it strobes, and
\* leaves the last write to every other byte what it was.
LEMMA LogAppend ==
    ASSUME NEW log \in Seq(Calls), NEW c \in Calls, c.kind = "write", NEW a, NEW l,
           HasLast(LastTo(log, a, l))
    PROVE  /\ HasLast(LastTo(Append(log, c), a, l))
           /\ ByteOf(Append(log, c), a, l)
              = IF c.addr = a /\ l \in c.strb THEN c.data[l] ELSE ByteOf(log, a, l)
<1> DEFINE n == Len(log)
           long == Append(log, c)
           ws == LastTo(log, a, l)
           ns == LastTo(long, a, l)
<1>1. /\ n \in Nat /\ Len(long) = n + 1 /\ long[n + 1] = c
      /\ \A i \in 1 .. n : long[i] = log[i]
  OBVIOUS
<1> HIDE DEF long
<1>2. ws \subseteq 1 .. n
  BY DEF LastTo
<1>3. CASE c.addr = a /\ l \in c.strb
  <2>1. n + 1 \in ns /\ \A j \in ns : j <= n + 1
    BY <1>1, <1>3 DEF LastTo
  <2>2. \A i \in ns : (\A j \in ns : j <= i) => i = n + 1
    BY <1>1, <2>1 DEF LastTo
  <2> HIDE DEF ns
  <2>3. (CHOOSE i \in ns : \A j \in ns : j <= i) = n + 1
    BY <2>1, <2>2
  <2>4. ByteOf(long, a, l) = long[n + 1].data[l]
    BY <2>1, <2>3 DEF ByteOf, ns
  <2> QED
    BY <1>1, <1>3, <2>1, <2>4 DEF HasLast, ns, long
<1>4. CASE ~(c.addr = a /\ l \in c.strb)
  <2>1. ns = ws
    BY <1>1, <1>4 DEF LastTo
  <2>2. CASE ws = {}
    BY <1>4, <2>1, <2>2 DEF ByteOf, HasLast, long
  <2>3. CASE ws # {}
    <3> DEFINE m == CHOOSE i \in ws : \A j \in ws : j <= i
    <3>1. \E i \in ws : \A j \in ws : j <= i
      BY <2>3 DEF HasLast
    <3> HIDE DEF ws
    <3>2. m \in ws
      BY <3>1
    <3>4. ByteOf(log, a, l) = log[m].data[l]
      BY <2>3 DEF ByteOf, ws
    <3>5. ByteOf(long, a, l) = long[m].data[l]
      BY <2>1, <2>3 DEF ByteOf
    <3> HIDE DEF m
    <3>3. long[m] = log[m]
      BY <1>1, <1>2, <3>2
    <3> QED
      BY <1>4, <2>1, <3>1, <3>3, <3>4, <3>5 DEF HasLast, long
  <2> QED
    BY <2>2, <2>3
<1> QED
  BY <1>3, <1>4

\* A taken write goes to the memory as it goes to the log.
LEMMA MemoryKept ==
    ASSUME NEW log \in Seq(Calls), NEW memory \in [Addrs -> Words], Remembers(memory, log),
           NEW c \in Calls, c.kind = "write", c.addr \in Addrs
    PROVE  Remembers([memory EXCEPT ![c.addr] = Strobed(memory[c.addr], c)], Append(log, c))
<1> DEFINE memory2 == [memory EXCEPT ![c.addr] = Strobed(memory[c.addr], c)]
<1> SUFFICES ASSUME NEW a \in Addrs, NEW l \in Lanes
             PROVE  /\ HasLast(LastTo(Append(log, c), a, l))
                    /\ memory2[a][l] = ByteOf(Append(log, c), a, l)
  BY Zenon DEF Remembers
<1>1. HasLast(LastTo(log, a, l)) /\ memory[a][l] = ByteOf(log, a, l)
  BY DEF Remembers
<1>2. /\ HasLast(LastTo(Append(log, c), a, l))
      /\ ByteOf(Append(log, c), a, l)
         = IF c.addr = a /\ l \in c.strb THEN c.data[l] ELSE ByteOf(log, a, l)
  BY <1>1, LogAppend
<1>3. memory2[a][l] = IF c.addr = a /\ l \in c.strb THEN c.data[l] ELSE memory[a][l]
  BY DEF Strobed
<1> QED
  BY <1>1, <1>2, <1>3
----------------------------------------------------------------------------
(* What the master drives, phase by phase.                                 *)

\* The phases of a call in which the simulator runs.
LEMMA AssertedNow ==
    ASSUME AxiInv, pc # "idle"
    PROVE  /\ Driven /\ asserted \in SUBSET {"aw", "w", "ar", "b", "r"}
           /\ call \in Calls /\ call.kind \in {"write", "read"}
           /\ pc \in {"sample", "accept"} => /\ Fire(r, call.kind) = r.ready
                                             /\ Wanted(call.kind) = FALSE
           /\ pc \in {"response", "last"} => /\ Fire(r, call.kind) = FALSE
                                             /\ Wanted(call.kind) = TRUE
           /\ \A k \in {"write", "read"} : call.kind # k => Fire(r, k) = FALSE
<1>1. call \in Calls /\ pc \in {"sample", "accept", "response", "last"} /\ payload[call.kind] = call
  BY DEF AxiInv, Idling, TypeOK
<1>2. call.kind \in {"write", "read"} /\ r.ready \in BOOLEAN
  BY <1>1, CallFields DEF AxiInv, TypeOK, Responders
<1>3. pc \in {"sample", "accept"} => asserted = Requests(call)
  BY DEF AxiInv, CallInv, Sampling, Requesting
<1>4. pc \in {"response", "last"} => asserted = (IF call.kind = "write" THEN {"b"} ELSE {"r"})
  BY DEF AxiInv, CallInv, Responding, Ending
<1>5. CASE call.kind = "write"
  BY <1>1, <1>2, <1>3, <1>4, <1>5 DEF Requests, Channels, Driven, Fire, Wanted
<1>6. CASE call.kind = "read"
  BY <1>1, <1>2, <1>3, <1>4, <1>6 DEF Requests, Channels, Driven, Fire, Wanted
<1> QED
  BY <1>2, <1>5, <1>6

\* What a taken request is answered with is what is due to it.
LEMMA OfferIsDue ==
    ASSUME AxiInv, pc # "idle", Untaken(r)
    PROVE  Offer(r, call.kind) = Due(r)
<1>1. r \in Responders /\ call.kind \in {"write", "read"} /\ call \in Calls
  BY AssertedNow DEF AxiInv, TypeOK
<1>2. CASE call.kind = "write"
  <2>1. r.queuedB \in Seq({SlvErr}) /\ (faulty <=> r.queuedB # <<>>) /\ faulty \in BOOLEAN
    BY <1>1, <1>2 DEF Untaken, Queued, Responders, AxiInv, TypeOK
  <2>2. r.queuedB # <<>> => Head(r.queuedB) = SlvErr
    BY <2>1
  <2> QED
    BY <1>2, <2>1, <2>2 DEF Offer, NextOf, Due, DueTo
<1>3. CASE call.kind = "read"
  <2> DEFINE err == [data |-> ZeroWord, resp |-> SlvErr]
  <2>1. r.queuedR \in Seq({err}) /\ (faulty <=> r.queuedR # <<>>) /\ faulty \in BOOLEAN
    BY <1>1, <1>3 DEF Untaken, Queued, Responders, AxiInv, TypeOK
  <2>2. r.queuedR # <<>> => Head(r.queuedR) = err
    <3> HIDE DEF err
    <3> QED
      BY <2>1
  <2>3. TakeWrite(r).memory = r.memory
    <3>1. Fire(r, "write") = FALSE /\ Driven /\ TypeOK
      BY <1>3, AssertedNow DEF AxiInv
    <3> QED
      BY <1>1, <3>1, TakeWriteEffect
  <2> QED
    BY <1>3, <2>1, <2>2, <2>3 DEF Offer, NextOf, Due, DueTo
<1> QED
  BY <1>1, <1>2, <1>3

----------------------------------------------------------------------------
(* The clock-low part, seen from the call.                                 *)

\* A request is taken exactly when it was sampled READY; then its response
\* waits or is shown.  A response is armed when the master is ready for it.
Lowered(y, t) ==
    /\ pc = "accept" =>
           \/ accepting = {} /\ Untaken(y) /\ Hushed(t)
           \/ accepting # {} /\ Taken(y) /\ t.seen /\ (Waits(t, Due(y)) \/ Shown(t, Due(y)))
    /\ pc = "response" =>
           \/ Lost(y, t)
           \/ Taken(y) /\ left > 0 /\ t.hold > 0 /\ Counts(t, Due(y), t.hold + 1)
    /\ pc = "last" =>
           \/ Taken(y) /\ ~t.wait /\ Counts(t, Due(y), t.hold + 1)
           \/ Taken(y) /\ t.hold > 0 /\ Counts(t, Due(y), t.hold)

\* The request of the call: what the memory, the log and the queues become.
LEMMA LowStore ==
    ASSUME AxiInv, stepping, pc # "idle", NEW y, y = LowPhase(r)
    PROVE  /\ Remembers(y.memory, y.writeLog)
           /\ call.kind = "read" => y.memory = r.memory /\ y.writeLog = r.writeLog
           /\ pc # "accept" => /\ y.memory = r.memory /\ y.writeLog = r.writeLog
                               /\ y.queuedB = r.queuedB /\ y.queuedR = r.queuedR
<1>1. /\ r \in Responders /\ TypeOK /\ call \in Calls /\ call.kind \in {"write", "read"} /\ Driven
      /\ pc \in {"sample", "accept", "response", "last"} /\ Remembers(r.memory, r.writeLog)
  BY AssertedNow DEF AxiInv, TypeOK
<1>2. /\ IF Fire(r, "write") /\ ~r.writeSeen
         THEN /\ y.writeLog = Append(r.writeLog, call)
              /\ y.memory = [r.memory EXCEPT ![call.addr] = Strobed(r.memory[call.addr], call)]
              /\ y.queuedB = Rest(r.queuedB)
         ELSE y.writeLog = r.writeLog /\ y.memory = r.memory /\ y.queuedB = r.queuedB
      /\ y.queuedR = IF Fire(r, "read") /\ ~r.readSeen THEN Rest(r.queuedR) ELSE r.queuedR
  BY <1>1, LowPhaseEffect
<1>3. pc # "sample"
  BY DEF AxiInv, CallInv, Sampling
<1>4. ASSUME pc # "accept"
      PROVE  Fire(r, "write") = FALSE /\ Fire(r, "read") = FALSE
  <2>1. Fire(r, call.kind) = FALSE /\ \A k \in {"write", "read"} : call.kind # k => Fire(r, k) = FALSE
    BY <1>1, <1>3, <1>4, AssertedNow, Zenon
  <2> QED
    BY <1>1, <2>1
<1>5. Remembers(y.memory, y.writeLog)
  <2>1. CASE Fire(r, "write") /\ ~r.writeSeen
    <3>1. call.kind = "write"
      BY <1>1, <2>1, AssertedNow
    <3>2. r.writeLog \in Seq(Calls) /\ r.memory \in [Addrs -> Words] /\ call.addr \in Addrs
      BY <1>1, CallFields DEF Responders
    <3> QED
      BY <1>1, <1>2, <2>1, <3>1, <3>2, MemoryKept
  <2>2. CASE ~(Fire(r, "write") /\ ~r.writeSeen)
    BY <1>1, <1>2, <2>2
  <2> QED
    BY <2>1, <2>2
<1>6. call.kind = "read" => Fire(r, "write") = FALSE
  BY AssertedNow
<1> QED
  BY <1>2, <1>4, <1>5, <1>6

\* The other channel, and the options of both, stay as they are.
LEMMA LowSides ==
    ASSUME AxiInv, stepping, pc # "idle", NEW y, y = LowPhase(r)
    PROVE  SidesInv(y)
<1>1. r \in Responders /\ TypeOK /\ Driven /\ call.kind \in {"write", "read"}
  BY AssertedNow DEF AxiInv, TypeOK
<1>2. SUFFICES ASSUME NEW k \in {"write", "read"}
               PROVE  Fits(Side(y, k)) /\ (call.kind # k => Hushed(Side(y, k)))
  BY DEF SidesInv
<1> DEFINE s == Side(r, k)
<1>3. Fits(s) /\ (call.kind # k => Hushed(s))
  BY DEF AxiInv, SidesInv
<1>4. Shaped(s)
  BY <1>1, SideShaped
<1>5. Side(y, k) = Low(s, Fire(r, k), Offer(r, k), Wanted(k))
  BY <1>1, LowPhaseEffect
<1> HIDE DEF s
<1>6. Side(y, k).hold = s.hold /\ Side(y, k).wait = s.wait
  BY <1>5 DEF Low, Armed, Begun, Took, Channel
<1>7. Fits(Side(y, k))
  BY <1>3, <1>6 DEF Fits
<1>8. ASSUME call.kind # k
      PROVE  Hushed(Side(y, k))
  <2>1. Fire(r, k) = FALSE /\ Wanted(k) \in BOOLEAN
    <3>1. Fire(r, k) = FALSE
      BY <1>8, AssertedNow
    <3>2. Wanted(k) \in BOOLEAN
      BY DEF Wanted
    <3> QED
      BY <3>1, <3>2
  <2>2. Side(y, k) = s
    BY <1>3, <1>4, <1>5, <1>8, <2>1, LowHushed
  <2> QED
    BY <1>3, <1>8, <2>2
<1> QED
  BY <1>7, <1>8
\* The response due does not change with the responder's store, as long as a
\* read finds its memory as it was.
LEMMA DueSame ==
    ASSUME NEW x, NEW y, call.kind \in {"write", "read"}, call.kind = "read" => y.memory = x.memory
    PROVE  Due(y) = Due(x)
<1>1. CASE call.kind = "write"
  BY <1>1 DEF Due, DueTo
<1>2. CASE call.kind = "read"
  BY <1>2 DEF Due, DueTo
<1> QED
  BY <1>1, <1>2

\* A clock-low part while the request is up.
LEMMA LowAccept ==
    ASSUME AxiInv, stepping, pc = "accept", NEW y, y = LowPhase(r)
    PROVE  Lowered(y, Side(y, call.kind))
<1> DEFINE k == call.kind
           s == Side(r, k)
           t == Side(y, k)
           e == Offer(r, k)
<1>1. r \in Responders /\ TypeOK /\ Driven /\ k \in {"write", "read"} /\ call \in Calls /\ pc # "idle"
  BY AssertedNow DEF AxiInv, TypeOK
<1>2. Fire(r, k) = r.ready /\ Wanted(k) = FALSE /\ r.ready \in BOOLEAN
  BY <1>1, AssertedNow DEF Responders
<1>3. t = Low(s, Fire(r, k), e, Wanted(k))
  BY <1>1, LowPhaseEffect
<1>4. /\ (r.ready <=> accepting # {})
      /\ \/ Untaken(r) /\ Hushed(s)
         \/ accepting # {} /\ Taken(r) /\ s.seen /\ (Waits(s, Due(r)) \/ Shown(s, Due(r)))
  BY <1>1 DEF AxiInv, CallInv, Requesting
<1>5. Shaped(s) /\ Fits(s)
  BY <1>1, SideShaped DEF AxiInv, SidesInv
<1>6. Due(y) = Due(r)
  BY <1>1, LowStore, DueSame
<1>7. s.seen = IF k = "write" THEN r.writeSeen ELSE r.readSeen
  BY DEF Side, Channel
<1>8. /\ IF Fire(r, "write") /\ ~r.writeSeen
         THEN y.writeLog = Append(r.writeLog, call)
         ELSE y.writeLog = r.writeLog /\ y.queuedB = r.queuedB
      /\ y.queuedR = IF Fire(r, "read") /\ ~r.readSeen THEN Rest(r.queuedR) ELSE r.queuedR
  BY <1>1, LowPhaseEffect
<1>9. k = "read" => y.writeLog = r.writeLog
  BY <1>1, LowStore
<1> HIDE DEF s, t, e
<1>10. CASE Untaken(r) /\ Hushed(s) /\ accepting = {}
  <2>1. Fire(r, k) = FALSE /\ Wanted(k) \in BOOLEAN
    BY <1>2, <1>4, <1>10
  <2>2. t = s
    BY <1>3, <1>5, <1>10, <2>1, LowHushed
  <2>3. y.writeLog = r.writeLog /\ Queued(y, k) = Queued(r, k)
    BY <1>1, <1>8, <1>9, <2>1 DEF Queued
  <2>4. Untaken(y)
    BY <1>10, <2>3 DEF Untaken
  <2> QED
    BY <1>1, <1>10, <2>2, <2>4 DEF Lowered, t
<1>11. CASE Untaken(r) /\ Hushed(s) /\ accepting # {}
  <2>1. Fire(r, k) = TRUE
    BY <1>2, <1>4, <1>11
  <2>2. e = Due(r)
    BY <1>1, <1>11, OfferIsDue DEF e
  <2>3. t.seen /\ (Waits(t, e) \/ Shown(t, e))
    BY <1>2, <1>3, <1>5, <1>11, <2>1, LowTakes
  <2>4. Taken(y)
    <3>1. r.writeLog = acked /\ s.seen = FALSE
      BY <1>5, <1>11 DEF Untaken, Hushed, Shaped
    <3>2. CASE k = "write"
      BY <1>7, <1>8, <2>1, <3>1, <3>2 DEF Taken
    <3>3. CASE k = "read"
      BY <1>9, <3>1, <3>3 DEF Taken
    <3> QED
      BY <1>1, <3>2, <3>3
  <2> QED
    BY <1>1, <1>6, <1>11, <2>2, <2>3, <2>4 DEF Lowered, t
<1>12. CASE accepting # {} /\ Taken(r) /\ s.seen /\ (Waits(s, Due(r)) \/ Shown(s, Due(r)))
  <2>1. Fire(r, k) = TRUE
    BY <1>2, <1>4, <1>12
  <2>2. t.seen /\ (Waits(t, Due(r)) \/ Shown(t, Due(r)))
    BY <1>2, <1>3, <1>5, <1>12, <2>1, LowSeen
  <2>3. y.writeLog = r.writeLog
    BY <1>1, <1>7, <1>8, <1>9, <1>12
  <2>4. Taken(y)
    BY <1>12, <2>3 DEF Taken
  <2> QED
    BY <1>1, <1>6, <1>12, <2>2, <2>4 DEF Lowered, t
<1> QED
  BY <1>4, <1>10, <1>11, <1>12

\* A clock-low part while the answer is awaited or was just seen.
LEMMA LowAnswer ==
    ASSUME AxiInv, stepping, pc \in {"response", "last"}, NEW y, y = LowPhase(r)
    PROVE  Lowered(y, Side(y, call.kind))
<1> DEFINE k == call.kind
           s == Side(r, k)
           t == Side(y, k)
           e == Offer(r, k)
<1>1. r \in Responders /\ TypeOK /\ Driven /\ k \in {"write", "read"} /\ call \in Calls /\ pc # "idle"
  BY AssertedNow DEF AxiInv, TypeOK
<1>2. Fire(r, k) = FALSE /\ Wanted(k) = TRUE
  BY <1>1, AssertedNow
<1>3. t = Low(s, Fire(r, k), e, Wanted(k))
  BY <1>1, LowPhaseEffect
<1>4. Shaped(s) /\ Fits(s)
  BY <1>1, SideShaped DEF AxiInv, SidesInv
<1>5. y.memory = r.memory /\ y.writeLog = r.writeLog
  BY <1>1, LowStore
<1>6. Due(y) = Due(r) /\ (Taken(r) => Taken(y))
  BY <1>1, <1>5, DueSame DEF Taken
<1>7. s.hold \in Nat
  BY <1>4 DEF Shaped
<1>8. pc = "response" =>
           \/ Lost(r, s)
           \/ clk = 1 /\ Taken(r) /\ left > 0 /\ Waits(s, Due(r)) /\ ~s.valid
           \/ clk = 0 /\ Taken(r) /\ left > 0 /\ s.hold > 0 /\ Counts(s, Due(r), s.hold + 1)
  BY DEF AxiInv, CallInv, Responding
<1>9. pc = "last" =>
           /\ Taken(r)
           /\ \/ Shown(s, Due(r))
              \/ s.hold > 0 /\ Counts(s, Due(r), s.hold)
              \/ ~s.wait /\ Counts(s, Due(r), s.hold + 1)
  BY DEF AxiInv, CallInv, Ending
<1> HIDE DEF s, t, e
<1>10. CASE pc = "response" /\ Lost(r, s)
  <2>1. Hushed(s)
    BY <1>10 DEF Lost, Silent
  <2>2. t = s
    BY <1>2, <1>3, <1>4, <2>1, LowHushed
  <2>3. Lost(y, t)
    BY <1>5, <1>10, <2>2 DEF Lost
  <2> QED
    BY <1>10, <2>3 DEF Lowered, t
<1>11. CASE Open(s, Due(r))
  <2>1. Counts(t, Due(r), s.hold + 1) /\ t.hold = s.hold /\ t.wait = s.wait
    <3>1. Arms(s, t, Due(r))
      BY <1>2, <1>3, <1>4, <1>11, LowWanted
    <3> QED
      BY <3>1 DEF Arms
  <2>2. CASE pc = "response"
    <3>1. CASE clk = 1 /\ Taken(r) /\ left > 0 /\ Waits(s, Due(r)) /\ ~s.valid
      <4>1. s.hold > 0
        BY <3>1 DEF Waits
      <4> QED
        BY <1>6, <2>1, <2>2, <3>1, <4>1 DEF Lowered, t
    <3>2. CASE ~(clk = 1 /\ Taken(r) /\ left > 0 /\ Waits(s, Due(r)) /\ ~s.valid)
      <4>1. Lost(r, s) \/ (Taken(r) /\ left > 0 /\ s.hold > 0)
        BY <1>8, <2>2, <3>2
      <4> QED
        BY <1>6, <1>10, <2>1, <2>2, <4>1 DEF Lowered, t
    <3> QED
      BY <3>1, <3>2
  <2>3. CASE pc = "last"
    <3>1. CASE Shown(s, Due(r))
      <4>1. ~s.wait /\ Taken(r)
        BY <1>9, <2>3, <3>1 DEF Shown
      <4> QED
        BY <1>6, <2>1, <2>3, <4>1 DEF Lowered, t
    <3>2. CASE ~Shown(s, Due(r))
      <4>1. FALSE
        BY <1>9, <1>11, <2>3, <3>2 DEF Open, Counts
      <4> QED
        BY <4>1
    <3> QED
      BY <3>1, <3>2
  <2> QED
    BY <2>2, <2>3
<1>12. ASSUME NEW n \in Nat \ {0}, Counts(s, Due(r), n)
       PROVE  t = s
  BY <1>2, <1>3, <1>4, <1>12, LowCounting
<1>13. CASE Counts(s, Due(r), s.hold + 1)
  <2>1. t = s
    BY <1>7, <1>12, <1>13
  <2>2. ~Open(s, Due(r)) /\ ~Counts(s, Due(r), s.hold) /\ ~Silent(s)
    BY <1>7, <1>13 DEF Open, Shown, Waits, Counts, Silent
  <2> QED
    BY <1>6, <1>8, <1>9, <1>13, <2>1, <2>2 DEF Lowered, t, Open, Lost
<1>14. CASE s.hold > 0 /\ Counts(s, Due(r), s.hold)
  <2>1. t = s
    BY <1>7, <1>12, <1>14
  <2>2. ~Open(s, Due(r)) /\ ~Counts(s, Due(r), s.hold + 1) /\ ~Silent(s)
    BY <1>7, <1>14 DEF Open, Shown, Waits, Counts, Silent
  <2> QED
    BY <1>6, <1>8, <1>9, <1>14, <2>1, <2>2 DEF Lowered, t, Open, Lost
<1> QED
  BY <1>8, <1>9, <1>10, <1>11, <1>13, <1>14 DEF Open
----------------------------------------------------------------------------
(* The actions, one lemma each.                                            *)

\* The falling edge: the clock-low part alone.
LEMMA StepDownKeeps ==
    ASSUME AxiInv, StepDown, UNCHANGED <<calls, master, finished, hist>>
    PROVE  AxiInv'
<1> PICK y, k : y = LowPhase(r) /\ k = call.kind
  OBVIOUS
<1> DEFINE t == Side(y, k)
<1>1. /\ stepping /\ clk = 1 /\ clk' = 0 /\ r' = y
      /\ calls' = calls /\ pc' = pc /\ call' = call /\ asserted' = asserted /\ accepting' = accepting
      /\ done' = done /\ left' = left /\ stepping' = stepping /\ outcome' = outcome
      /\ acked' = acked /\ faulty' = faulty /\ stalled' = stalled /\ payload' = payload
  BY DEF StepDown, master, hist
<1>2. pc \in {"accept", "response", "last"}
  BY <1>1 DEF AxiInv, TypeOK, Idling, CallInv, Sampling
<1>3. /\ r \in Responders /\ TypeOK /\ Driven /\ call \in Calls /\ call.kind \in {"write", "read"}
  BY <1>2, AssertedNow DEF AxiInv, TypeOK
<1>4. y \in Responders /\ y.ready = r.ready
  BY <1>1, <1>3, LowPhaseEffect
<1>5. TypeOK'
  BY <1>1, <1>3, <1>4 DEF TypeOK
<1>6. Remembers(y.memory, y.writeLog) /\ (pc # "accept" => y.memory = r.memory)
  BY <1>1, <1>2, LowStore
<1>7. SidesInv(y)
  BY <1>1, <1>2, LowSides
<1>8. Lowered(y, t)
  BY <1>1, <1>2, LowAccept, LowAnswer
<1>9. Side(r', call'.kind) = t
  BY <1>1
<1>10. SidesInv(r)'
  BY <1>1, <1>7 DEF SidesInv
<1>11. Idling(r)'
  BY <1>1, <1>2 DEF AxiInv, Idling, NotYet
<1>12. ReadRight(r)'
  <2>1. CASE pc = "last"
    BY <1>1, <1>6, <2>1 DEF AxiInv, ReadRight
  <2>2. CASE pc # "last"
    BY <1>1, <1>2, <2>2 DEF AxiInv, Idling, NotYet, ReadRight
  <2> QED
    BY <2>1, <2>2
<1> HIDE DEF t
<1>13. Sampling(r, Side(r, call.kind))'
  BY <1>1, <1>2 DEF Sampling
<1>14. Requesting(r, Side(r, call.kind))'
  <2>1. SUFFICES ASSUME pc = "accept" PROVE Requesting(r, Side(r, call.kind))'
    BY <1>1 DEF Requesting
  <2>2. /\ done = {} /\ asserted = Requests(call) /\ accepting \in {Requests(call), {}}
        /\ (r.ready <=> accepting # {}) /\ (accepting = {} => stalled)
    BY <1>1, <2>1 DEF AxiInv, CallInv, Requesting
  <2>3. \/ accepting = {} /\ Untaken(y) /\ Hushed(t)
        \/ accepting # {} /\ Taken(y) /\ t.seen /\ (Waits(t, Due(y)) \/ Shown(t, Due(y)))
    BY <1>8, <2>1 DEF Lowered
  <2> QED
    BY <1>1, <1>4, <1>9, <2>1, <2>2, <2>3 DEF Requesting, Untaken, Taken, Due
<1>15. Responding(r, Side(r, call.kind))'
  <2>1. SUFFICES ASSUME pc = "response" PROVE Responding(r, Side(r, call.kind))'
    BY <1>1 DEF Responding
  <2>2. asserted = (IF call.kind = "write" THEN {"b"} ELSE {"r"})
    BY <2>1 DEF AxiInv, CallInv, Responding
  <2>3. \/ Lost(y, t)
        \/ Taken(y) /\ left > 0 /\ t.hold > 0 /\ Counts(t, Due(y), t.hold + 1)
    BY <1>8, <2>1 DEF Lowered
  <2> QED
    BY <1>1, <1>9, <2>1, <2>2, <2>3 DEF Responding, Lost, Taken, Due
<1>16. Ending(r, Side(r, call.kind))'
  <2>1. SUFFICES ASSUME pc = "last" PROVE Ending(r, Side(r, call.kind))'
    BY <1>1 DEF Ending
  <2>2. /\ asserted = (IF call.kind = "write" THEN {"b"} ELSE {"r"})
        /\ outcome.how = (IF faulty THEN "error" ELSE "ok") /\ outcome.call = call
    BY <2>1 DEF AxiInv, CallInv, Ending
  <2>3. \/ Taken(y) /\ ~t.wait /\ Counts(t, Due(y), t.hold + 1)
        \/ Taken(y) /\ t.hold > 0 /\ Counts(t, Due(y), t.hold)
    BY <1>8, <2>1 DEF Lowered
  <2> QED
    BY <1>1, <1>9, <2>1, <2>2, <2>3 DEF Ending, Taken, Due
<1>17. CallInv(r)'
  BY <1>13, <1>14, <1>15, <1>16 DEF CallInv
<1> QED
  BY <1>1, <1>5, <1>6, <1>10, <1>11, <1>12, <1>17 DEF AxiInv

\* One count of a response with m edges more to go after it.
LEMMA CountsDown ==
    ASSUME NEW s, Shaped(s), NEW d, NEW m \in Nat \ {0}, NEW n, n = m + 1, Counts(s, d, n),
           NEW t, t = Counted(s)
    PROVE  Counts(t, d, m) /\ t.hold = s.hold
<1>1. /\ t.valid <=> s.valid /\ s.clear # 1
      /\ t.pay = s.pay /\ t.pending = s.pending /\ t.seen = s.seen /\ t.hold = s.hold
      /\ t.clear = IF s.clear = 0 THEN 0 ELSE s.clear - 1
  BY DEF Counted, Channel
<1>2. s.valid /\ s.pay = d /\ s.pending = <<>> /\ s.clear = n /\ ~s.seen
  BY DEF Counts
<1>3. n # 0 /\ n # 1 /\ n - 1 = m
  OBVIOUS
<1> QED
  BY <1>1, <1>2, <1>3 DEF Counts

\* The last count takes the response down.
LEMMA CountsOut ==
    ASSUME NEW s, Shaped(s), NEW d, Counts(s, d, 1), NEW t, t = Counted(s)
    PROVE  Hushed(t)
BY CountedStates, Zenon DEF Silent

\* A shown response with one edge left that may outstay its call is quiet.
LEMMA LastCount ==
    ASSUME NEW s, NEW d, Counts(s, d, 1), s.hold > 0
    PROVE  Hushed(s)
BY DEF Counts, Hushed, Leaving

\* The edge after the answer was seen takes the response down, or leaves it
\* one edge that no later call sees.
LEMMA LastEdge ==
    ASSUME NEW s, Shaped(s), Fits(s), NEW d,
           (~s.wait /\ Counts(s, d, s.hold + 1)) \/ (s.hold > 0 /\ Counts(s, d, s.hold)),
           NEW t, t = Counted(s)
    PROVE  Hushed(t)
<1>2. Counts(s, d, 1) \/ (Counts(s, d, 2) /\ s.hold > 0)
  <2>1. CASE ~s.wait /\ Counts(s, d, s.hold + 1)
    <3>1. s.hold = 0 \/ s.hold = 1
      BY <2>1 DEF Fits, Shaped
    <3> QED
      BY <2>1, <3>1
  <2>2. CASE s.hold > 0 /\ Counts(s, d, s.hold)
    <3>1. s.hold = 1 \/ s.hold = 2
      BY <2>2 DEF Fits, Shaped
    <3> QED
      BY <2>2, <3>1
  <2> QED
    BY <2>1, <2>2
<1>3. CASE Counts(s, d, 1)
  BY <1>3, CountsOut
<1>4. CASE Counts(s, d, 2) /\ s.hold > 0
  <2>1. Counts(t, d, 1) /\ t.hold = s.hold
    BY <1>4, CountsDown
  <2> QED
    BY <1>4, <2>1, LastCount
<1> QED
  BY <1>2, <1>3, <1>4

\* The rising edge: the clock-low part, then one count of each channel.
LEMMA StepUpKeeps ==
    ASSUME AxiInv, NEW p \in Pauses, StepUp(p), stepping' = FALSE,
           UNCHANGED <<calls, pc, call, asserted, payload, accepting, done, left, outcome, finished, hist>>
    PROVE  AxiInv'
<1> PICK x, y, k : x = LowPhase(r) /\ y = RisingEdge(x, p) /\ k = call.kind
  OBVIOUS
<1> DEFINE s == Side(x, k)
           t == Side(y, k)
<1>1. /\ stepping /\ clk = 0 /\ clk' = 1 /\ r' = y /\ stepping' = FALSE
      /\ calls' = calls /\ pc' = pc /\ call' = call /\ asserted' = asserted /\ accepting' = accepting
      /\ done' = done /\ left' = left /\ outcome' = outcome
      /\ acked' = acked /\ faulty' = faulty /\ stalled' = stalled /\ payload' = payload
  BY DEF StepUp, hist
<1>2. pc \in {"accept", "response", "last"}
  BY <1>1 DEF AxiInv, TypeOK, Idling, CallInv, Sampling
<1>3. /\ r \in Responders /\ TypeOK /\ Driven /\ call \in Calls /\ call.kind \in {"write", "read"}
      /\ asserted \in SUBSET {"aw", "w", "ar", "b", "r"} /\ p \in BOOLEAN
  BY <1>2, AssertedNow, AxiLiteAssumption DEF AxiInv, TypeOK
<1>4. x \in Responders /\ x.ready = r.ready
  BY <1>1, <1>3, LowPhaseEffect
<1>5. /\ y \in Responders /\ y.writeLog = x.writeLog /\ y.memory = x.memory
      /\ y.queuedB = x.queuedB /\ y.queuedR = x.queuedR
      /\ \A j \in {"write", "read"} : Side(y, j) = Counted(Side(x, j))
  BY <1>3, <1>4, RisingEdgeEffect
<1>6. TypeOK'
  <2>1. r' \in Responders
    BY <1>1, <1>5, Zenon
  <2>2. clk' = 1
    BY DEF StepUp
  <2>3. clk' \in 0 .. 1
    BY <2>2
  <2>4. stepping' \in BOOLEAN
    OBVIOUS
  <2> QED
    BY <1>1, <1>3, <2>1, <2>3, <2>4 DEF TypeOK
<1>7. Remembers(y.memory, y.writeLog) /\ (pc # "accept" => y.memory = r.memory)
  BY <1>1, <1>2, <1>5, LowStore
<1>8. SidesInv(x)
  BY <1>1, <1>2, LowSides
<1>9. Lowered(x, s)
  BY <1>1, <1>2, LowAccept, LowAnswer
<1>10. SidesInv(r)'
  <2>1. SUFFICES ASSUME NEW j \in {"write", "read"}
                 PROVE  Fits(Side(y, j)) /\ (call.kind # j => Hushed(Side(y, j)))
    BY <1>1 DEF SidesInv
  <2>2. Fits(Side(x, j)) /\ (call.kind # j => Hushed(Side(x, j)))
    BY <1>8 DEF SidesInv
  <2>3. Shaped(Side(x, j)) /\ Side(y, j) = Counted(Side(x, j))
    BY <1>4, <1>5, SideShaped
  <2>4. /\ Side(y, j).hold = Side(x, j).hold /\ Side(y, j).wait = Side(x, j).wait
        /\ Hushed(Side(x, j)) => Silent(Side(y, j))
    BY <2>3, CountedStates
  <2> QED
    BY <2>2, <2>4 DEF Fits, Silent
<1>11. Shaped(s) /\ Fits(s) /\ t = Counted(s)
  BY <1>3, <1>4, <1>5, <1>8, SideShaped DEF SidesInv
<1>12. Side(r', call'.kind) = t
  BY <1>1
<1>13. Due(y) = Due(x) /\ (Taken(y) <=> Taken(x)) /\ (Untaken(y) <=> Untaken(x))
  BY <1>5 DEF Due, DueTo, Taken, Untaken, Queued
<1>14. Idling(r)'
  BY <1>1, <1>2 DEF AxiInv, Idling, NotYet
<1>15. ReadRight(r)'
  <2>1. CASE pc = "last"
    BY <1>1, <1>7, <2>1 DEF AxiInv, ReadRight
  <2>2. CASE pc # "last"
    BY <1>1, <1>2, <2>2 DEF AxiInv, Idling, NotYet, ReadRight
  <2> QED
    BY <2>1, <2>2
<1> HIDE DEF s, t
<1>16. /\ t.hold = s.hold /\ t.wait = s.wait /\ t.seen = s.seen
       /\ Hushed(s) => Silent(t)
       /\ \A d : Waits(s, d) => Waits(t, d) /\ ~t.valid
       /\ \A d : Shown(s, d) => Shown(t, d)
       /\ \A d, n \in Nat : Counts(s, d, n) /\ n > 1 => Counts(t, d, n - 1)
  BY <1>11, CountedStates
<1>17. Sampling(r, Side(r, call.kind))'
  BY <1>1, <1>2 DEF Sampling
<1>18. Requesting(r, Side(r, call.kind))'
  <2>1. SUFFICES ASSUME pc = "accept" PROVE Requesting(r, Side(r, call.kind))'
    BY <1>1 DEF Requesting
  <2>2. /\ done = {} /\ asserted = Requests(call) /\ accepting \in {Requests(call), {}}
        /\ (accepting = {} => stalled)
    BY <1>1, <2>1 DEF AxiInv, CallInv, Requesting
  <2>3. \/ accepting = {} /\ Untaken(y) /\ Silent(t)
        \/ accepting # {} /\ Taken(y) /\ Open(t, Due(y))
    BY <1>9, <1>13, <1>16, <2>1 DEF Lowered, Open
  <2> QED
    BY <1>1, <1>12, <2>1, <2>2, <2>3 DEF Requesting, Untaken, Taken, Due
<1>19. Responding(r, Side(r, call.kind))'
  <2>1. SUFFICES ASSUME pc = "response" PROVE Responding(r, Side(r, call.kind))'
    BY <1>1 DEF Responding
  <2>2. asserted = (IF call.kind = "write" THEN {"b"} ELSE {"r"})
    BY <2>1 DEF AxiInv, CallInv, Responding
  <2>3. \/ Lost(y, t)
        \/ Taken(y) /\ left > 0 /\ t.hold > 0 /\ Counts(t, Due(y), t.hold)
    <3>1. CASE Lost(x, s)
      BY <1>5, <1>16, <3>1 DEF Lost, Silent
    <3>2. CASE Taken(x) /\ left > 0 /\ s.hold > 0 /\ Counts(s, Due(x), s.hold + 1)
      <4>1. s.hold \in Nat /\ s.hold + 1 \in Nat /\ s.hold + 1 > 1 /\ (s.hold + 1) - 1 = s.hold
        BY <1>11, <3>2 DEF Shaped
      <4>2. Counts(t, Due(x), s.hold)
        <5>1. PICK m, n : m = s.hold /\ n = s.hold + 1
          OBVIOUS
        <5>2. m \in Nat \ {0} /\ n = m + 1 /\ Counts(s, Due(x), n)
          BY <3>2, <4>1, <5>1
        <5> QED
          BY <1>11, <5>1, <5>2, CountsDown
      <4> QED
        BY <1>13, <1>16, <3>2, <4>2
    <3> QED
      BY <1>9, <2>1, <3>1, <3>2 DEF Lowered
  <2> QED
    BY <1>1, <1>12, <2>1, <2>2, <2>3 DEF Responding, Lost, Taken, Due
<1>20. Ending(r, Side(r, call.kind))'
  <2>1. SUFFICES ASSUME pc = "last" PROVE Ending(r, Side(r, call.kind))'
    BY <1>1 DEF Ending
  <2>2. /\ asserted = (IF call.kind = "write" THEN {"b"} ELSE {"r"})
        /\ outcome.how = (IF faulty THEN "error" ELSE "ok") /\ outcome.call = call
    BY <2>1 DEF AxiInv, CallInv, Ending
  <2>3. Taken(x) /\ (\/ ~s.wait /\ Counts(s, Due(x), s.hold + 1)
                     \/ s.hold > 0 /\ Counts(s, Due(x), s.hold))
    BY <1>9, <2>1 DEF Lowered
  <2>4. Hushed(t)
    BY <1>11, <2>3, LastEdge
  <2> QED
    BY <1>1, <1>12, <1>13, <2>1, <2>2, <2>3, <2>4 DEF Ending, Taken, Due
<1>21. CallInv(r)'
  BY <1>17, <1>18, <1>19, <1>20 DEF CallInv
<1> QED
  BY <1>1, <1>6, <1>7, <1>10, <1>14, <1>15, <1>21 DEF AxiInv

\* What the current call's kind says of the two channels.
LEMMA OwnSide ==
    ASSUME AxiInv, pc # "idle"
    PROVE  /\ r \in Responders /\ call \in Calls /\ call.kind \in {"write", "read"}
           /\ Shaped(Side(r, call.kind)) /\ Fits(Side(r, call.kind))
           /\ Requests(call) # {} /\ Requests(call) \in SUBSET {"aw", "w", "ar"}
<1>1. r \in Responders /\ call \in Calls /\ call.kind \in {"write", "read"}
  BY AssertedNow DEF AxiInv, TypeOK
<1>2. Requests(call) # {} /\ Requests(call) \in SUBSET {"aw", "w", "ar"}
  BY DEF Requests, Channels
<1> QED
  BY <1>1, <1>2, SideShaped DEF AxiInv, SidesInv

\* A call starts on two quiet channels.
LEMMA StartKeeps ==
    ASSUME AxiInv, NEW c \in Calls, Start(c)
    PROVE  AxiInv'
<1>1. /\ pc = "idle" /\ clk' = clk /\ r' = r /\ stepping' = stepping
      /\ pc' = "sample" /\ call' = c /\ asserted' = asserted \cup Requests(c) /\ accepting' = accepting
      /\ done' = done /\ left' = Timeout /\ outcome' = [how |-> "none"] /\ acked' = acked
      /\ payload' = [payload EXCEPT ![c.kind] = c]
  BY DEF Start
<1>2. faulty' = (IF c.kind = "write" THEN r.queuedB # <<>> ELSE r.queuedR # <<>>)
  BY DEF Start
<1>3. stalled' \in BOOLEAN /\ faulty' \in BOOLEAN
  BY Zenon, <1>2 DEF Start
<1>4. c.kind \in {"write", "read"}
  BY CallFields
<1>5. /\ TypeOK /\ ~stepping /\ call = NoCall /\ accepting = {} /\ done = {} /\ r.writeLog = acked
      /\ r \in Responders /\ asserted' = Requests(c)
  BY <1>1 DEF AxiInv, Idling, TypeOK
<1>13. payload' \in [Kinds -> Calls \cup {NoCall}] /\ payload'[c.kind] = c
  BY <1>1, <1>4, <1>5 DEF TypeOK, Kinds
<1>6. TypeOK'
  BY <1>1, <1>3, <1>5, <1>13, AxiLiteAssumption DEF TypeOK
<1>7. \A k \in {"write", "read"} : Fits(Side(r, k)) /\ Hushed(Side(r, k))
  <2>1. call.kind = "none"
    BY <1>5 DEF NoCall
  <2> QED
    BY <2>1 DEF AxiInv, SidesInv
<1>8. SidesInv(r)'
  BY <1>1, <1>7 DEF SidesInv
<1>9. Idling(r)' /\ ReadRight(r)'
  BY <1>1, <1>13 DEF Idling, NotYet, ReadRight
<1>10. Untaken(r)'
  <2>1. faulty' <=> Queued(r, c.kind) # <<>>
    BY <1>2, <1>4 DEF Queued
  <2> QED
    BY <1>1, <1>5, <2>1 DEF Untaken
<1>11. Hushed(Side(r, call.kind))'
  BY <1>1, <1>4, <1>7
<1>12. CallInv(r)'
  BY <1>1, <1>5, <1>10, <1>11 DEF CallInv, Sampling, Requesting, Responding, Ending
<1> QED
  BY <1>1, <1>6, <1>8, <1>9, <1>12 DEF AxiInv

\* READY is sampled: the flag the master notes is the one of the next low part.
LEMMA SampleKeeps ==
    ASSUME AxiInv, Sample
    PROVE  AxiInv'
<1> DEFINE s == Side(r, call.kind)
<1>1. /\ pc = "sample" /\ pc' = "accept" /\ accepting' = (IF r.ready THEN Requests(call) \ done ELSE {})
      /\ clk' = clk /\ r' = r /\ call' = call /\ asserted' = asserted /\ done' = done /\ left' = left
      /\ outcome' = outcome /\ acked' = acked /\ faulty' = faulty /\ payload' = payload
      /\ (~r.ready => stalled')
  BY DEF Sample
<1>2. stepping' /\ stepping' \in BOOLEAN /\ stalled' \in BOOLEAN
  BY Zenon DEF Sample
<1>3. /\ TypeOK /\ r \in Responders /\ call \in Calls /\ Requests(call) # {}
      /\ done = {} /\ asserted = Requests(call) /\ Untaken(r) /\ Hushed(s)
  BY <1>1, OwnSide DEF AxiInv, CallInv, Sampling
<1>4. TypeOK'
  BY <1>1, <1>2, <1>3 DEF TypeOK
<1>5. SidesInv(r)' /\ Idling(r)' /\ ReadRight(r)' /\ Remembers(r.memory, r.writeLog)'
  BY <1>1 DEF AxiInv, SidesInv, Idling, NotYet, ReadRight
<1>6. r.ready \in BOOLEAN
  BY <1>3 DEF Responders
<1>7. accepting' \in {Requests(call), {}} /\ (r.ready <=> accepting' # {})
  BY <1>1, <1>3, <1>6
<1>8. Side(r, call.kind)' = s /\ Untaken(r)'
  BY <1>1, <1>3 DEF Untaken
<1> HIDE DEF s
<1>9. Requesting(r, Side(r, call.kind))'
  BY <1>1, <1>2, <1>3, <1>7, <1>8 DEF Requesting
<1>10. CallInv(r)'
  BY <1>1, <1>9 DEF CallInv, Sampling, Responding, Ending
<1> QED
  BY <1>1, <1>4, <1>5, <1>10 DEF AxiInv

\* A call that returns or raises on a quiet channel, with the log it owes.
LEMMA EndKeeps ==
    ASSUME AxiInv, pc # "idle", ~stepping, NEW o, EndCall(o), Hushed(Side(r, call.kind)),
           UNCHANGED <<clk, r, stepping, faulty, stalled>>,
           acked' \in Seq(Calls), r.writeLog = acked',
           \/ o.how = (IF faulty THEN "error" ELSE "ok") /\ o = outcome
           \/ o.how = "timeout" /\ stalled
    PROVE  AxiInv'
<1>1. /\ pc' = "idle" /\ outcome' = o /\ call' = NoCall /\ asserted' = {} /\ accepting' = {}
      /\ done' = {} /\ left' = 0 /\ payload' \in [Kinds -> Calls \cup {NoCall}]
  BY DEF EndCall
<1>2. /\ TypeOK /\ clk' = clk /\ r' = r /\ stepping' = stepping /\ faulty' = faulty /\ stalled' = stalled
      /\ call.kind \in {"write", "read"}
  BY OwnSide DEF AxiInv
<1>3. TypeOK'
  BY <1>1, <1>2 DEF TypeOK
<1>4. Idling(r)'
  BY <1>1, <1>2 DEF Idling, Outcomes
<1>5. ReadRight(r)'
  BY <1>1, <1>2 DEF AxiInv, ReadRight
<1>6. CallInv(r)'
  BY <1>1 DEF CallInv, Sampling, Requesting, Responding, Ending
<1>7. SidesInv(r)'
  BY <1>1, <1>2 DEF AxiInv, SidesInv
<1> QED
  BY <1>2, <1>3, <1>4, <1>5, <1>6, <1>7 DEF AxiInv

\* The look after the edge: a request that was not sampled READY before it,
\* but finds it now, is given up as accepted (Lost), taken by nobody.
LEMMA AcceptKeeps ==
    ASSUME AxiInv, Accept
    PROVE  AxiInv'
<1> DEFINE s == Side(r, call.kind)
<1>1. /\ pc = "accept" /\ ~stepping /\ clk' = clk /\ r' = r /\ stepping' = stepping /\ acked' = acked
      /\ faulty' = faulty /\ stalled' = stalled
  BY DEF Accept, hist
<1>2. /\ TypeOK /\ r \in Responders /\ call \in Calls /\ Requests(call) # {} /\ call.kind \in {"write", "read"}
  BY <1>1, OwnSide DEF AxiInv
<1>3. /\ done = {} /\ asserted = Requests(call) /\ accepting \in {Requests(call), {}} /\ clk = 1
      /\ \/ accepting = {} /\ stalled /\ Untaken(r) /\ Silent(s)
         \/ accepting # {} /\ Taken(r) /\ Open(s, Due(r))
  BY <1>1 DEF AxiInv, CallInv, Requesting
<1>4. Side(r, call.kind)' = Side(r, call'.kind)
  BY <1>1
<1>5. CASE /\ pc' = "response" /\ left' = Timeout /\ call' = call /\ outcome' = outcome
           /\ asserted' = (asserted \ Accepted) \cup (IF call.kind = "write" THEN {"b"} ELSE {"r"})
           /\ Accepted = Requests(call) /\ payload' = payload
  <2>0. asserted' = (IF call.kind = "write" THEN {"b"} ELSE {"r"})
    BY <1>3, <1>5
  <2>1. TypeOK'
    BY <1>1, <1>2, <1>5, AxiLiteAssumption DEF TypeOK
  <2>2. SidesInv(r)' /\ Idling(r)' /\ ReadRight(r)' /\ Remembers(r.memory, r.writeLog)'
    BY <1>1, <1>5 DEF AxiInv, SidesInv, Idling, NotYet, ReadRight
  <2>3. Side(r, call.kind)' = s
    BY <1>4, <1>5
  <2> HIDE DEF s
  <2>4. Responding(r, Side(r, call.kind))'
    BY <1>1, <1>3, <1>5, <2>0, <2>3 DEF Responding, Lost, Untaken, Taken, Due
  <2>5. CallInv(r)'
    BY <1>5, <2>4 DEF CallInv, Sampling, Requesting, Ending
  <2> QED
    BY <2>1, <2>2, <2>5 DEF AxiInv
<1>6. CASE /\ Accepted # Requests(call) /\ left > 1 /\ pc' = "sample" /\ left' = left - 1
           /\ asserted' = asserted \ Accepted /\ done' = Accepted /\ call' = call /\ outcome' = outcome
           /\ payload' = payload
  <2>1. accepting = {} /\ Accepted = {}
    BY <1>3, <1>6 DEF Accepted
  <2>2. Untaken(r) /\ Hushed(s)
    BY <1>3, <2>1 DEF Silent
  <2>3. TypeOK'
    <3>1. left - 1 \in Nat
      BY <1>2, <1>6 DEF TypeOK
    <3> QED
      BY <1>1, <1>2, <1>6, <3>1 DEF TypeOK
  <2>4. SidesInv(r)' /\ Idling(r)' /\ ReadRight(r)' /\ Remembers(r.memory, r.writeLog)'
    BY <1>1, <1>6 DEF AxiInv, SidesInv, Idling, NotYet, ReadRight
  <2>5. Side(r, call.kind)' = s
    BY <1>4, <1>6
  <2> HIDE DEF s
  <2>6. Sampling(r, Side(r, call.kind))'
    BY <1>1, <1>3, <1>6, <2>1, <2>2, <2>5 DEF Sampling, Untaken
  <2>7. CallInv(r)'
    BY <1>6, <2>6 DEF CallInv, Requesting, Responding, Ending
  <2> QED
    BY <2>3, <2>4, <2>7 DEF AxiInv
<1>7. CASE Accepted # Requests(call) /\ EndCall(Outcome("timeout", ZeroWord))
  <2>1. accepting = {}
    BY <1>3, <1>7 DEF Accepted
  <2>2. Hushed(s) /\ r.writeLog = acked' /\ stalled
    BY <1>1, <1>3, <2>1 DEF Silent, Untaken
  <2>3. Outcome("timeout", ZeroWord).how = "timeout" /\ acked' \in Seq(Calls)
    BY <1>1, <1>2 DEF Outcome, TypeOK
  <2> QED
    BY <1>1, <1>7, <2>2, <2>3, EndKeeps
<1> QED
  BY <1>5, <1>6, <1>7 DEF Accept

\* The look for the response.
LEMMA AwaitKeeps ==
    ASSUME AxiInv, Await
    PROVE  AxiInv'
<1> DEFINE s == Side(r, call.kind)
<1>1. /\ pc = "response" /\ ~stepping /\ clk' = clk /\ r' = r /\ acked' = acked
      /\ faulty' = faulty /\ stalled' = stalled
  BY DEF Await, hist
<1>2. /\ TypeOK /\ r \in Responders /\ call \in Calls /\ call.kind \in {"write", "read"}
      /\ Shaped(s) /\ Fits(s)
  BY <1>1, OwnSide DEF AxiInv
<1>3. /\ asserted = (IF call.kind = "write" THEN {"b"} ELSE {"r"}) /\ clk = 1
      /\ \/ Lost(r, s)
         \/ Taken(r) /\ left = Timeout /\ Open(s, Due(r))
         \/ Taken(r) /\ left > 0 /\ s.hold > 0 /\ Counts(s, Due(r), s.hold)
  BY <1>1 DEF AxiInv, CallInv, Responding
<1>4. Answered <=> s.valid
  BY DEF Answered, Side, Channel
<1>5. Side(r, call.kind)' = Side(r, call'.kind)
  BY <1>1
<1>6. CASE /\ left > 0 /\ Answered /\ pc' = "last" /\ stepping' = TRUE /\ call' = call
           /\ asserted' = asserted /\ accepting' = accepting /\ done' = done /\ left' = left
           /\ payload' = payload
           /\ outcome' = Outcome(IF Answer.resp = Okay THEN "ok" ELSE "error", Answer.data)
  <2>1. Taken(r) /\ (Shown(s, Due(r)) \/ (s.hold > 0 /\ Counts(s, Due(r), s.hold)))
    BY <1>3, <1>4, <1>6 DEF Lost, Silent, Open
  <2>2. s.pay = Due(r)
    BY <2>1 DEF Shown, Counts
  <2>3. /\ Answer.resp = (IF faulty THEN SlvErr ELSE Okay)
        /\ call.kind = "read" /\ ~faulty => Answer.data = r.memory[call.addr]
    <3>1. CASE call.kind = "write"
      BY <2>2, <3>1 DEF Answer, Side, Channel, Due, DueTo
    <3>2. CASE call.kind = "read"
      BY <2>2, <3>2 DEF Answer, Side, Channel, Due, DueTo
    <3> QED
      BY <1>2, <3>1, <3>2
  <2>4. /\ outcome'.how = (IF faulty THEN "error" ELSE "ok") /\ outcome'.call = call
        /\ outcome'.data = Answer.data
    BY <1>6, <2>3 DEF Outcome, Okay, SlvErr
  <2>5. TypeOK'
    BY <1>1, <1>2, <1>6 DEF TypeOK
  <2>6. SidesInv(r)' /\ Idling(r)' /\ Remembers(r.memory, r.writeLog)'
    BY <1>1, <1>2, <1>6 DEF AxiInv, SidesInv, Idling
  <2>7. ReadRight(r)'
    <3>1. call.addr \in Addrs
      BY <1>2, CallFields
    <3>2. outcome'.how = "ok" => ~faulty
      BY <2>4
    <3> QED
      BY <1>1, <2>3, <2>4, <3>1, <3>2 DEF ReadRight
  <2>8. Side(r, call.kind)' = s
    BY <1>5, <1>6
  <2> HIDE DEF s
  <2>9. Ending(r, Side(r, call.kind))'
    BY <1>1, <1>3, <1>6, <2>1, <2>4, <2>8 DEF Ending, Taken, Due
  <2>10. CallInv(r)'
    BY <1>6, <2>9 DEF CallInv, Sampling, Requesting, Responding
  <2> QED
    BY <2>5, <2>6, <2>7, <2>10 DEF AxiInv
<1>7. CASE /\ left > 0 /\ ~Answered /\ left' = left - 1 /\ stepping' = TRUE /\ pc' = pc /\ call' = call
           /\ asserted' = asserted /\ accepting' = accepting /\ done' = done /\ outcome' = outcome
           /\ payload' = payload
  <2>1. Lost(r, s) \/ (Taken(r) /\ left = Timeout /\ Waits(s, Due(r)))
    BY <1>3, <1>4, <1>7 DEF Open, Shown, Counts
  <2>2. Waits(s, Due(r)) /\ left = Timeout => left' > 0
    BY <1>2, <1>7, AxiLiteAssumption DEF Waits, Fits
  <2>3. TypeOK'
    <3>1. left - 1 \in Nat
      BY <1>2, <1>7 DEF TypeOK
    <3> QED
      BY <1>1, <1>2, <1>7, <3>1 DEF TypeOK
  <2>4. SidesInv(r)' /\ Idling(r)' /\ ReadRight(r)' /\ Remembers(r.memory, r.writeLog)'
    BY <1>1, <1>7 DEF AxiInv, SidesInv, Idling, NotYet, ReadRight
  <2>5. Side(r, call.kind)' = s /\ ~s.valid
    BY <1>4, <1>5, <1>7
  <2> HIDE DEF s
  <2>6. Responding(r, Side(r, call.kind))'
    BY <1>1, <1>3, <1>7, <2>1, <2>2, <2>5 DEF Responding, Lost, Taken, Due
  <2>7. CallInv(r)'
    BY <1>1, <1>7, <2>6 DEF CallInv, Sampling, Requesting, Ending
  <2> QED
    BY <2>3, <2>4, <2>7 DEF AxiInv
<1>8. CASE left = 0 /\ EndCall(Outcome("timeout", ZeroWord)) /\ UNCHANGED stepping
  <2>1. Lost(r, s)
    BY <1>3, <1>8, AxiLiteAssumption
  <2>2. Hushed(s) /\ r.writeLog = acked' /\ stalled
    BY <1>1, <2>1 DEF Lost, Silent
  <2>3. Outcome("timeout", ZeroWord).how = "timeout" /\ acked' \in Seq(Calls)
    BY <1>1, <1>2 DEF Outcome, TypeOK
  <2> QED
    BY <1>1, <1>8, <2>2, <2>3, EndKeeps
<1> QED
  BY <1>6, <1>7, <1>8 DEF Await

\* The call returns; a write is counted as done.
LEMMA FinishKeeps ==
    ASSUME AxiInv, Finish
    PROVE  AxiInv'
<1>1. /\ pc = "last" /\ ~stepping /\ EndCall(outcome)
      /\ acked' = (IF call.kind = "write" THEN Append(acked, call) ELSE acked)
      /\ UNCHANGED <<clk, r, stepping, faulty, stalled>>
  BY DEF Finish
<1>2. TypeOK /\ call \in Calls
  BY <1>1, OwnSide DEF AxiInv
<1>3. /\ Taken(r) /\ outcome.how = (IF faulty THEN "error" ELSE "ok") /\ Hushed(Side(r, call.kind))
  BY <1>1 DEF AxiInv, CallInv, Ending
<1>4. acked' \in Seq(Calls) /\ r.writeLog = acked'
  BY <1>1, <1>2, <1>3 DEF Taken, TypeOK
<1> QED
  BY <1>1, <1>3, <1>4, EndKeeps

\* Between calls only the queues of explicit responses change.
LEMMA QueueKeeps ==
    ASSUME AxiInv, QueueWriteResponse \/ QueueReadResponse
    PROVE  AxiInv'
<1> DEFINE err == [data |-> ZeroWord, resp |-> SlvErr]
<1>1. /\ pc = "idle" /\ clk' = clk /\ pc' = pc /\ call' = call /\ asserted' = asserted
      /\ accepting' = accepting /\ done' = done /\ left' = left /\ stepping' = stepping
      /\ outcome' = outcome /\ acked' = acked /\ faulty' = faulty /\ stalled' = stalled /\ payload' = payload
  BY DEF QueueWriteResponse, QueueReadResponse, master, hist
<1>2. TypeOK /\ r \in Responders
  BY DEF AxiInv, TypeOK
<1>3. PICK b, e :
          \/ r' = [r EXCEPT !.queuedB = b] /\ b = Append(r.queuedB, SlvErr)
          \/ r' = [r EXCEPT !.queuedR = e] /\ e = Append(r.queuedR, err)
  BY DEF QueueWriteResponse, QueueReadResponse
<1>4. Append(r.queuedB, SlvErr) \in Seq({SlvErr}) /\ Append(r.queuedR, err) \in Seq({err})
  <2>1. r.queuedB \in Seq({SlvErr}) /\ r.queuedR \in Seq({err})
    BY <1>2 DEF Responders
  <2> HIDE DEF err
  <2> QED
    BY <2>1
<1>5. /\ r' \in Responders /\ r'.writeLog = r.writeLog /\ r'.memory = r.memory
      /\ Side(r', "write") = Side(r, "write") /\ Side(r', "read") = Side(r, "read")
  <2>1. CASE r' = [r EXCEPT !.queuedB = b] /\ b = Append(r.queuedB, SlvErr)
    <3>1. b \in Seq({SlvErr})
      BY <1>4, <2>1
    <3> QED
      BY <1>2, <2>1, <3>1 DEF Responders, Side, Channel
  <2>2. CASE r' = [r EXCEPT !.queuedR = e] /\ e = Append(r.queuedR, err)
    <3>1. e \in Seq({err})
      BY <1>4, <2>2
    <3> QED
      BY <1>2, <2>2, <3>1 DEF Responders, Side, Channel
  <2> QED
    BY <1>3, <2>1, <2>2
<1> HIDE DEF err
<1>6. TypeOK'
  BY <1>1, <1>2, <1>5 DEF TypeOK
<1>7. Idling(r)' /\ ReadRight(r)' /\ Remembers(r.memory, r.writeLog)'
  BY <1>1, <1>5 DEF AxiInv, Idling, Outcomes, ReadRight
<1>8. SidesInv(r)'
  BY <1>1, <1>5 DEF AxiInv, SidesInv
<1>9. CallInv(r)'
  BY <1>1 DEF CallInv, Sampling, Requesting, Responding, Ending
<1> QED
  BY <1>6, <1>7, <1>8, <1>9 DEF AxiInv

\* The responder after __init__ with the two options.
Fresh(ob, or) ==
    [ready |-> TRUE, bvalid |-> FALSE, bresp |-> Okay,
     rvalid |-> FALSE, rpay |-> [data |-> ZeroWord, resp |-> Okay],
     writeLog |-> <<>>, readLog |-> <<>>, memory |-> [a \in Addrs |-> ZeroWord],
     pendingB |-> <<>>, pendingR |-> <<>>, queuedB |-> <<>>, queuedR |-> <<>>,
     clearB |-> 0, clearR |-> 0, writeSeen |-> FALSE, readSeen |-> FALSE,
     unacked |-> {}, snapshot |-> [k \in Kinds |-> NoCall], accused |-> FALSE,
     holdB |-> ob.hold, holdR |-> or.hold, waitB |-> ob.wait, waitR |-> or.wait]

\* ... and it is a responder.
LEMMA FreshType ==
    ASSUME NEW ob \in [hold : Nat, wait : BOOLEAN], NEW or \in [hold : Nat, wait : BOOLEAN]
    PROVE  Fresh(ob, or) \in Responders
<1> DEFINE err == [data |-> ZeroWord, resp |-> SlvErr]
           okay == [data |-> ZeroWord, resp |-> Okay]
           zero == [a \in Addrs |-> ZeroWord]
<1>1. okay \in Responses /\ zero \in [Addrs -> Words]
  BY ZeroType DEF Responses
<1>2. /\ <<>> \in Seq(Calls) /\ <<>> \in Seq(Addrs) /\ <<>> \in Seq({Okay, SlvErr})
      /\ <<>> \in Seq(Responses) /\ <<>> \in Seq({SlvErr}) /\ <<>> \in Seq({err})
  OBVIOUS
<1>3. ob.hold \in Nat /\ or.hold \in Nat /\ ob.wait \in BOOLEAN /\ or.wait \in BOOLEAN /\ 0 \in Nat
  OBVIOUS
<1>4. /\ {} \in SUBSET {"aw", "w", "ar"} /\ [k \in Kinds |-> NoCall] \in [Kinds -> Calls \cup {NoCall}] /\ Okay \in {Okay, SlvErr}
      /\ TRUE \in BOOLEAN /\ FALSE \in BOOLEAN
  OBVIOUS
<1> QED
  BY <1>1, <1>2, <1>3, <1>4, Zenon DEF Fresh, Responders

\* The initial states satisfy the invariant when the options are in time.
LEMMA InitKeeps ==
    ASSUME InTime, Init
    PROVE  AxiInv
<1> PICK ob \in Options, or \in Options : r = Fresh(ob, or)
  BY DEF Init, Fresh
<1>1. /\ clk \in 0 .. 1 /\ pc = "idle" /\ call = NoCall /\ asserted = {} /\ accepting = {}
      /\ done = {} /\ left = 0 /\ stepping = FALSE /\ outcome = [how |-> "none"] /\ acked = <<>>
      /\ faulty = FALSE /\ stalled = FALSE /\ payload \in [Kinds -> Calls \cup {NoCall}]
  BY DEF Init
<1>2. ob \in [hold : Nat, wait : BOOLEAN] /\ or \in [hold : Nat, wait : BOOLEAN]
  BY AxiLiteAssumption
<1>3. r \in Responders
  BY <1>2, FreshType, Zenon
<1>4. TypeOK
  <2>1. /\ stepping \in BOOLEAN /\ faulty \in BOOLEAN /\ stalled \in BOOLEAN
        /\ pc \in {"idle", "sample", "accept", "response", "last"} /\ call \in Calls \cup {NoCall}
    BY <1>1, Zenon
  <2>2. left = 0 /\ acked = <<>> /\ clk \in 0 .. 1
    BY <1>1, Zenon
  <2>3. left \in Nat /\ acked \in Seq(Calls)
    BY <2>2
  <2> QED
    BY <1>1, <1>3, <2>1, <2>2, <2>3, Zenon DEF TypeOK
<1>5. Idling(r) /\ ReadRight(r) /\ CallInv(r)
  BY <1>1 DEF Fresh, Idling, ReadRight, CallInv, Sampling, Requesting, Responding, Ending, Outcomes
<1>6. SidesInv(r)
  <2>1. Fits(Side(r, "write")) /\ Hushed(Side(r, "write"))
    BY <1>2 DEF Fresh, Side, Channel, Fits, Hushed, Leaving, InTime
  <2>2. Fits(Side(r, "read")) /\ Hushed(Side(r, "read"))
    BY <1>2 DEF Fresh, Side, Channel, Fits, Hushed, Leaving, InTime
  <2> QED
    BY <2>1, <2>2 DEF SidesInv
<1>7. Remembers(r.memory, r.writeLog)
  <2>1. SUFFICES ASSUME NEW a \in Addrs, NEW l \in Lanes
                 PROVE  /\ HasLast(LastTo(r.writeLog, a, l))
                        /\ r.memory[a][l] = ByteOf(r.writeLog, a, l)
    BY Zenon DEF Remembers
  <2>2. r.writeLog = <<>> /\ r.memory[a][l] = Zero
    BY DEF Fresh, ZeroWord
  <2>3. LastTo(<<>>, a, l) = {}
    BY DEF LastTo
  <2> QED
    BY <2>2, <2>3 DEF HasLast, ByteOf
<1> QED
  BY <1>4, <1>5, <1>6, <1>7 DEF AxiInv

\* A step in which the simulation does not stop keeps the invariant, and so
\* does stuttering.
LEMMA NextKeeps ==
    ASSUME AxiInv, [Next]_vars, cut = 0, cut' = 0, pc # "idle" => calls > 0
    PROVE  AxiInv'
<1>1. CASE UNCHANGED vars
  <2>1. /\ clk' = clk /\ r' = r /\ pc' = pc /\ call' = call /\ asserted' = asserted
        /\ accepting' = accepting /\ done' = done /\ left' = left /\ stepping' = stepping
        /\ outcome' = outcome /\ acked' = acked /\ faulty' = faulty /\ stalled' = stalled
        /\ payload' = payload
    BY <1>1 DEF vars, master, hist
  <2>2. TypeOK'
    BY <2>1 DEF AxiInv, TypeOK
  <2>3. Idling(r)' /\ ReadRight(r)' /\ SidesInv(r)' /\ Remembers(r.memory, r.writeLog)'
    BY <2>1 DEF AxiInv, Idling, NotYet, Outcomes, ReadRight, SidesInv
  <2>4. Side(r, call.kind)' = Side(r, call.kind) /\ Due(r)' = Due(r)
    BY <2>1 DEF Due
  <2>5. CallInv(r)'
    BY <2>1, <2>4 DEF AxiInv, CallInv, Sampling, Requesting, Responding, Ending, Untaken, Taken, Lost
  <2> QED
    BY <2>2, <2>3, <2>5 DEF AxiInv
<1>2. stepping => ~Raise
  <2>1. SUFFICES ASSUME stepping, Raise PROVE FALSE
    OBVIOUS
  <2>2. pc # "idle"
    BY <2>1 DEF AxiInv, Idling
  <2>3. cut' = calls /\ calls > 0
    BY <2>1, <2>2 DEF Raise
  <2> QED
    BY <2>3
<1>3. CASE StepDown
  <2>1. UNCHANGED <<calls, master, finished, hist>>
    BY <1>2, <1>3 DEF StepDown
  <2> QED
    BY <1>3, <2>1, StepDownKeeps
<1>4. ASSUME NEW p \in Pauses, StepUp(p)
      PROVE  AxiInv'
  <2>1. /\ stepping' = FALSE
        /\ UNCHANGED <<calls, pc, call, asserted, payload, accepting, done, left, outcome, finished, hist>>
    BY <1>2, <1>4 DEF StepUp
  <2> QED
    BY <1>4, <2>1, StepUpKeeps
<1>5. ~NoStep
  BY <1>2 DEF NoStep
<1> QED
  BY <1>1, <1>3, <1>4, <1>5, StartKeeps, SampleKeeps, AcceptKeeps, AwaitKeeps, FinishKeeps, QueueKeeps
  DEF Next

----------------------------------------------------------------------------
(* The call the simulation stopped under.                                  *)

\* What the stopped call c left: its write in the log or not, and at most one
\* response, its own, for the next call.
LeftBy(c) ==
    /\ r.writeLog = acked \/ (c.kind = "write" /\ r.writeLog = Append(acked, c))
    /\ \A k \in Kinds :
          \/ Side(r, k).pending = <<>>
          \/ /\ c.kind = k /\ Len(Side(r, k).pending) = 1
             /\ k = "write" => r.writeLog = Append(acked, c)
JustStopped ==
    /\ pc = "idle" /\ ~stepping /\ r \in Responders
    /\ outcome.how = "stopped" /\ LeftBy(outcome.call)

\* The inductive invariant: in order up to the first call stopped, and what
\* that call left until the next one starts.
StopInv ==
    /\ calls \in Nat /\ cut \in 0 .. calls
    /\ cut = 0 => AxiInv /\ (pc # "idle" => calls > 0)
    /\ cut = calls /\ cut # 0 => JustStopped

\* A responder whose own channel is as far as the call, in the middle of a
\* step: before it, after the clock-low part or after the rising edge.
Midway(x) ==
    LET s == Side(x, call.kind)
    IN /\ s.pending = <<>> \/ \E d : s.pending = <<d>>
       /\ \/ x.writeLog = acked /\ s.pending = <<>>
          \/ Taken(x)

\* The responder of a step at which the simulation stops.
Stepped(z) == z = r \/ z = LowPhase(r) \/ \E p \in Pauses : z = RisingEdge(LowPhase(r), p)

\* Such a step leaves the responder midway.
LEMMA StopMidway ==
    ASSUME AxiInv, stepping, pc # "idle", NEW z, Stepped(z)
    PROVE  z \in Responders /\ SidesInv(z) /\ Midway(z)
<1> PICK x : x = LowPhase(r)
  OBVIOUS
<1>1. /\ r \in Responders /\ TypeOK /\ Driven /\ call \in Calls /\ call.kind \in {"write", "read"}
      /\ asserted \in SUBSET {"aw", "w", "ar", "b", "r"}
      /\ pc \in {"accept", "response", "last"}
  BY AssertedNow DEF AxiInv, TypeOK, CallInv, Sampling
<1>2. CASE z = r
  <2> DEFINE s == Side(r, call.kind)
  <2>1. SidesInv(r)
    BY DEF AxiInv
  <2>2. pc = "accept" => \/ Untaken(r) /\ Hushed(s)
                         \/ Taken(r) /\ (Waits(s, Due(r)) \/ Shown(s, Due(r)))
    BY DEF AxiInv, CallInv, Requesting
  <2>3. pc = "response" => \/ Lost(r, s)
                           \/ Taken(r) /\ Waits(s, Due(r))
                           \/ Taken(r) /\ Counts(s, Due(r), s.hold + 1)
    BY DEF AxiInv, CallInv, Responding
  <2>4. pc = "last" => Taken(r) /\ (\/ Shown(s, Due(r))
                                    \/ Counts(s, Due(r), s.hold)
                                    \/ Counts(s, Due(r), s.hold + 1))
    BY DEF AxiInv, CallInv, Ending
  <2> HIDE DEF s
  <2>5. Midway(r)
    BY <1>1, <2>2, <2>3, <2>4 DEF Midway, Untaken, Hushed, Lost, Silent, Waits, Shown, Counts, s
  <2> QED
    BY <1>1, <1>2, <2>1, <2>5
<1>3. x \in Responders
  BY <1>1, LowPhaseEffect
<1>4. SidesInv(x)
  BY <1>1, LowSides
<1>5. Midway(x)
  <2>1. Lowered(x, Side(x, call.kind))
    BY <1>1, LowAccept, LowAnswer
  <2> QED
    BY <1>1, <2>1 DEF Lowered, Midway, Untaken, Hushed, Lost, Silent, Waits, Shown, Counts
<1>6. CASE z = x
  BY <1>3, <1>4, <1>5, <1>6
<1>7. ASSUME NEW p \in Pauses, NEW y, y = RisingEdge(x, p), z = y
      PROVE  z \in Responders /\ SidesInv(z) /\ Midway(z)
  <2>1. /\ y \in Responders /\ y.writeLog = x.writeLog
        /\ \A k \in {"write", "read"} : Side(y, k) = Counted(Side(x, k))
    <3>1. p \in BOOLEAN
      BY AxiLiteAssumption
    <3> QED
      BY <1>1, <1>3, <1>7, <3>1, RisingEdgeEffect
  <2>2. \A k \in {"write", "read"} :
            /\ Side(y, k).pending = Side(x, k).pending
            /\ Side(y, k).hold = Side(x, k).hold /\ Side(y, k).wait = Side(x, k).wait
            /\ Hushed(Side(x, k)) => Hushed(Side(y, k))
    <3>1. SUFFICES ASSUME NEW k \in {"write", "read"}
                   PROVE  /\ Side(y, k).pending = Side(x, k).pending
                          /\ Side(y, k).hold = Side(x, k).hold /\ Side(y, k).wait = Side(x, k).wait
                          /\ Hushed(Side(x, k)) => Hushed(Side(y, k))
      BY Zenon
    <3>2. Shaped(Side(x, k)) /\ Side(y, k) = Counted(Side(x, k))
      BY <1>3, <2>1, SideShaped
    <3>3. /\ Side(y, k).hold = Side(x, k).hold /\ Side(y, k).wait = Side(x, k).wait
          /\ Hushed(Side(x, k)) => Silent(Side(y, k))
      BY <3>2, CountedStates
    <3>4. Side(y, k).pending = Side(x, k).pending
      BY <3>2 DEF Counted, Channel
    <3> QED
      BY <3>3, <3>4 DEF Silent
  <2>3. SidesInv(y)
    BY <1>4, <2>2 DEF SidesInv, Fits
  <2>4. Side(y, call.kind).pending = Side(x, call.kind).pending
    BY <1>1, <2>2
  <2>5. Midway(y)
    BY <1>5, <2>1, <2>4 DEF Midway, Taken
  <2> QED
    BY <1>7, <2>1, <2>3, <2>5
<1> QED
  BY <1>2, <1>6, <1>7 DEF Stepped

\* The simulation stops under a call, which leaves its write or its response.
LEMMA RaiseStops ==
    ASSUME AxiInv, stepping, pc # "idle", Raise, NEW z, z = r', Stepped(z)
    PROVE  JustStopped'
<1>1. z \in Responders /\ SidesInv(z) /\ Midway(z)
  BY StopMidway
<1>2. /\ pc' = "idle" /\ stepping' = FALSE /\ acked' = acked
      /\ outcome'.how = "stopped" /\ outcome'.call = call
  BY DEF Raise, Outcome
<1>3. call \in Calls /\ call.kind \in Kinds
  BY AssertedNow DEF Kinds
<1> DEFINE s == Side(z, call.kind)
<1>4. s.pending = <<>> \/ (Len(s.pending) = 1 /\ Taken(z))
  BY <1>1 DEF Midway
<1>5. z.writeLog = acked \/ (call.kind = "write" /\ z.writeLog = Append(acked, call))
  BY <1>1, <1>3 DEF Midway, Taken
<1>6. \A k \in Kinds : call.kind # k => Side(z, k).pending = <<>>
  BY <1>1 DEF SidesInv, Hushed, Kinds
<1>7. LeftBy(outcome.call)'
  <2>1. SUFFICES ASSUME NEW k \in Kinds
                 PROVE  \/ Side(z, k).pending = <<>>
                        \/ /\ call.kind = k /\ Len(Side(z, k).pending) = 1
                           /\ k = "write" => z.writeLog = Append(acked, call)
    BY <1>2, <1>5 DEF LeftBy
  <2>2. CASE call.kind = k
    BY <1>4, <2>2 DEF Taken
  <2>3. CASE call.kind # k
    BY <1>6, <2>3
  <2> QED
    BY <2>2, <2>3
<1> QED
  BY <1>1, <1>2, <1>7 DEF JustStopped

\* Until the next call starts, only the queues of explicit responses change.
LEMMA StoppedKeeps ==
    ASSUME JustStopped, UNCHANGED vars \/ QueueWriteResponse \/ QueueReadResponse
    PROVE  JustStopped'
<1> DEFINE err == [data |-> ZeroWord, resp |-> SlvErr]
<1>1. pc' = pc /\ stepping' = stepping /\ outcome' = outcome /\ acked' = acked
  BY DEF QueueWriteResponse, QueueReadResponse, master, hist, vars
<1>2. r \in Responders
  BY DEF JustStopped
<1>3. PICK b, e :
          \/ r' = [r EXCEPT !.queuedB = b] /\ b = Append(r.queuedB, SlvErr)
          \/ r' = [r EXCEPT !.queuedR = e] /\ e = Append(r.queuedR, err)
          \/ r' = r
  BY DEF QueueWriteResponse, QueueReadResponse, vars
<1>4. Append(r.queuedB, SlvErr) \in Seq({SlvErr}) /\ Append(r.queuedR, err) \in Seq({err})
  <2>1. r.queuedB \in Seq({SlvErr}) /\ r.queuedR \in Seq({err})
    BY <1>2 DEF Responders
  <2> HIDE DEF err
  <2> QED
    BY <2>1
<1>5. r' \in Responders /\ r'.writeLog = r.writeLog /\ \A k \in Kinds : Side(r', k) = Side(r, k)
  <2>1. CASE r' = [r EXCEPT !.queuedB = b] /\ b = Append(r.queuedB, SlvErr)
    <3>1. b \in Seq({SlvErr})
      BY <1>4, <2>1
    <3> QED
      BY <1>2, <2>1, <3>1 DEF Responders, Side, Channel
  <2>2. CASE r' = [r EXCEPT !.queuedR = e] /\ e = Append(r.queuedR, err)
    <3>1. e \in Seq({err})
      BY <1>4, <2>2
    <3> QED
      BY <1>2, <2>2, <3>1 DEF Responders, Side, Channel
  <2>3. CASE r' = r
    BY <1>2, <2>3
  <2> QED
    BY <1>3, <2>1, <2>2, <2>3
<1> QED
  BY <1>1, <1>5 DEF JustStopped, LeftBy

\* Every step keeps the invariant.
LEMMA StopInvKeeps ==
    ASSUME StopInv, [Next]_vars
    PROVE  StopInv'
<1>1. calls \in Nat /\ cut \in Nat /\ cut <= calls
  BY DEF StopInv
<1>2. /\ calls' = calls \/ (calls' = calls + 1 /\ pc = "idle" /\ cut' = cut)
      /\ cut' = cut \/ (Raise /\ stepping /\ cut' = (IF cut = 0 THEN calls ELSE cut) /\ calls' = calls)
  BY DEF Next, Start, Sample, Accept, Await, Finish, StepDown, StepUp, NoStep, Raise, EndCall,
         QueueWriteResponse, QueueReadResponse, vars, hist
<1>3. calls' \in Nat /\ cut' \in 0 .. calls'
  BY <1>1, <1>2
<1>4. CASE cut = 0
  <2>1. AxiInv /\ (pc # "idle" => calls > 0)
    BY <1>4 DEF StopInv
  <2>2. CASE cut' = 0
    <3>1. AxiInv'
      BY <1>4, <2>1, <2>2, NextKeeps
    <3>2. pc' # "idle" => calls' > 0
      <4>1. pc' # "idle" => pc # "idle" \/ calls' = calls + 1
        BY DEF Next, Start, Sample, Accept, Await, Finish, StepDown, StepUp, NoStep, Raise, EndCall,
               QueueWriteResponse, QueueReadResponse, vars, master
      <4> QED
        BY <1>1, <1>2, <2>1, <4>1
    <3> QED
      BY <1>3, <2>2, <3>1, <3>2 DEF StopInv
  <2>3. CASE cut' # 0
    <3>1. Raise /\ stepping /\ pc # "idle"
      BY <1>2, <1>4, <2>1, <2>3 DEF AxiInv, Idling
    <3>2. PICK z : z = r' /\ Stepped(z)
      <4>1. pc' = "idle" /\ stepping
        BY <3>1 DEF Raise
      <4> QED
        BY <2>3, <1>4, <3>1, <4>1
        DEF Next, Start, Sample, Accept, Await, Finish, StepDown, StepUp, NoStep,
            QueueWriteResponse, QueueReadResponse, vars, hist, Stepped
    <3>3. JustStopped'
      BY <2>1, <3>1, <3>2, RaiseStops
    <3> QED
      BY <1>3, <2>3, <3>3 DEF StopInv
  <2> QED
    BY <2>2, <2>3
<1>5. CASE cut # 0 /\ cut = calls
  <2>1. JustStopped /\ pc = "idle" /\ ~stepping
    BY <1>5 DEF StopInv, JustStopped
  <2>2. cut' = cut
    BY <1>2, <2>1
  <2>3. CASE calls' = calls
    <3>1. UNCHANGED vars \/ QueueWriteResponse \/ QueueReadResponse
      BY <1>1, <2>1, <2>3 DEF Next, Start, Sample, Accept, Await, Finish, StepDown, StepUp, NoStep
    <3>2. JustStopped'
      BY <2>1, <3>1, StoppedKeeps
    <3> QED
      BY <1>3, <1>5, <2>2, <3>2 DEF StopInv
  <2>4. CASE calls' # calls
    BY <1>1, <1>2, <1>3, <1>5, <2>2, <2>4 DEF StopInv
  <2> QED
    BY <2>3, <2>4
<1>6. CASE cut # 0 /\ cut # calls
  <2>1. cut' = cut /\ cut' # calls'
    BY <1>1, <1>2, <1>6
  <2> QED
    BY <1>3, <1>6, <2>1 DEF StopInv
<1> QED
  BY <1>4, <1>5, <1>6

\* The invariant holds throughout.
THEOREM StopInvHolds == ASSUME InTime PROVE Spec => []StopInv
<1>1. Init => StopInv
  <2>1. SUFFICES ASSUME Init PROVE StopInv
    OBVIOUS
  <2>2. AxiInv /\ calls = 0 /\ cut = 0 /\ pc = "idle"
    BY <2>1, InitKeeps DEF Init
  <2> QED
    BY <2>2 DEF StopInv
<1>2. StopInv /\ [Next]_vars => StopInv'
  BY StopInvKeeps
<1> QED
  BY <1>1, <1>2, PTL DEF Spec

----------------------------------------------------------------------------
(* What the runs check, for every value of the constants.                  *)

\* Between calls the responder's log is the list of the writes that returned,
\* and of the write the simulation stopped under, if it was taken: the
\* responder neither takes a request twice nor misses one the master counts
\* as accepted and answered.
THEOREM WritesOnceInOrderHolds == ASSUME InTime PROVE Spec => []WritesOnceInOrder
<1>1. ASSUME StopInv
      PROVE  WritesOnceInOrder
  <2>1. SUFFICES ASSUME pc = "idle", Orderly
                 PROVE  \/ r.writeLog = acked
                        \/ StoppedIn("write") /\ r.writeLog = Append(acked, outcome.call)
    BY DEF WritesOnceInOrder
  <2>2. CASE cut = 0
    BY <1>1, <2>1, <2>2 DEF StopInv, AxiInv, Idling
  <2>3. CASE cut # 0
    BY <1>1, <2>1, <2>3 DEF StopInv, JustStopped, LeftBy, Orderly, StoppedIn
  <2> QED
    BY <2>2, <2>3
<1> QED
  BY <1>1, StopInvHolds, PTL

\* A call of the master ends with its own response, or times out after it
\* found READY low, and leaves no response behind for the next one; a call
\* the simulation stopped under leaves at most its own.
THEOREM OwnResponseHolds == ASSUME InTime PROVE Spec => []OwnResponse
<1>1. ASSUME StopInv
      PROVE  OwnResponse
  <2>1. SUFFICES ASSUME pc = "idle", Orderly, outcome.how # "none"
                 PROVE  /\ \/ outcome.how = IF faulty THEN "error" ELSE "ok"
                           \/ outcome.how = "timeout" /\ stalled
                           \/ outcome.how = "stopped" /\ cut = calls
                        /\ \/ r.pendingB = <<>>
                           \/ /\ StoppedIn("write") /\ Len(r.pendingB) = 1
                              /\ r.writeLog = Append(acked, outcome.call)
                        /\ r.pendingR = <<>> \/ (StoppedIn("read") /\ Len(r.pendingR) = 1)
    BY DEF OwnResponse
  <2>2. Side(r, "write").pending = r.pendingB /\ Side(r, "read").pending = r.pendingR
    BY DEF Side, Channel
  <2>3. CASE cut = 0
    <3>1. Outcomes /\ call.kind = "none" /\ SidesInv(r)
      BY <1>1, <2>1, <2>3 DEF StopInv, AxiInv, Idling, NoCall
    <3>2. Hushed(Side(r, "write")) /\ Hushed(Side(r, "read"))
      BY <3>1 DEF SidesInv
    <3> QED
      BY <2>1, <2>2, <3>1, <3>2 DEF Outcomes, Hushed
  <2>4. CASE cut # 0
    <3>1. cut = calls /\ outcome.how = "stopped" /\ LeftBy(outcome.call) /\ r \in Responders
      BY <1>1, <2>1, <2>4 DEF StopInv, JustStopped, Orderly
    <3>2. \/ r.pendingB = <<>>
          \/ outcome.call.kind = "write" /\ Len(r.pendingB) = 1 /\ r.writeLog = Append(acked, outcome.call)
      BY <2>2, <3>1 DEF LeftBy, Kinds
    <3>3. r.pendingR = <<>> \/ (outcome.call.kind = "read" /\ Len(r.pendingR) = 1)
      BY <2>2, <3>1 DEF LeftBy, Kinds
    <3> QED
      BY <2>1, <3>1, <3>2, <3>3 DEF StoppedIn
  <2> QED
    BY <2>3, <2>4
<1> QED
  BY <1>1, StopInvHolds, PTL

\* A read returns, lane by lane, the byte of the last write that strobed it,
\* or the byte of unwritten memory.
THEOREM ReadsLastWriteHolds == ASSUME InTime PROVE Spec => []ReadsLastWrite
<1>1. ASSUME StopInv
      PROVE  ReadsLastWrite
  <2>1. SUFFICES ASSUME pc = "idle", cut = 0, outcome.how = "ok", outcome.call.kind = "read", NEW l \in Lanes
                 PROVE  outcome.data[l] = ByteOf(acked, outcome.call.addr, l)
    BY Zenon DEF ReadsLastWrite, ByteOf, LastWriter, LastTo
  <2>2. outcome.call.addr \in Addrs /\ outcome.data = r.memory[outcome.call.addr] /\ r.writeLog = acked
    BY <1>1, <2>1 DEF StopInv, AxiInv, ReadRight, Idling
  <2>3. r.memory[outcome.call.addr][l] = ByteOf(r.writeLog, outcome.call.addr, l)
    BY <1>1, <2>1, <2>2 DEF StopInv, AxiInv, Remembers
  <2> QED
    BY <2>2, <2>3
<1> QED
  BY <1>1, StopInvHolds, PTL
=============================================================================
