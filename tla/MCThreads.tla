----------------------------- MODULE MCThreads -----------------------------
(***************************************************************************)
(* The kernel on procedural threads and on feedback.                       *)
(*                                                                         *)
(*   always #1 clk = ~clk;                                                 *)
(*   initial begin clk = 0; a = 0; @(posedge clk) a <= 1; #0 b = a;        *)
(*                 @(e) $finish; end                                       *)
(*   initial begin @(negedge clk) c = 1; wait (e); pause; end              *)
(*   task pause; #1; endtask                                               *)
(*   always @(posedge clk) q <= b;      // e also from a queued toggle     *)
(*                                                                         *)
(* The testbench can close a combinational loop (en), and a continuous     *)
(* assign on itself (ring), the latter also from the time-step callback:   *)
(*                                                                         *)
(*   always_comb y = en & ~w;    assign w = c | y | (ring & ~w);           *)
(***************************************************************************)
EXTENDS Scheduler, TLC

Sigs_ == {"clk", "a", "b", "c", "e", "w", "y", "q", "en", "ring"}
InitSigs_ == [s \in Sigs_ |-> IF s \in {"en", "ring"} THEN 0 ELSE 2]

Not(v) == IF v = X THEN X ELSE 1 - v
And(v, u) == IF 0 \in {v, u} THEN 0 ELSE IF X \in {v, u} THEN X ELSE 1
Or(v, u) == Not(And(Not(v), Not(u)))
CALhs_ == <<"w">>
CAReads_ == <<{"c", "y", "ring", "w"}>>
CARhs_(i, s) == Or(s["c"], Or(s["y"], And(s["ring"], Not(s["w"]))))

Combos_ == {1}
Sens_ == <<{"en", "w"}>>
SelfSens_ == <<{}>>
Seqs_ == {2}
On(s, k) == [t \in Sigs_ |-> IF t = s THEN k ELSE "none"]
Edges_ == 2 :> On("clk", "posedge")
Timers_ == <<3>>
Initials_ == <<4, 5>>
Toggles_ == {6}

Quiet == [wr |-> [s \in Sigs_ |-> 3], nba |-> <<>>, stop |-> "end", delay |-> 0,
          on |-> [s \in Sigs_ |-> "none"], pc |-> 0]
Delay(r, d, c) == [r EXCEPT !.stop = "delay", !.delay = d, !.pc = c]
Raise(r, d) == [r EXCEPT !.stop = "raise", !.delay = d]
Await(r, s, k, c) == [r EXCEPT !.stop = "event", !.on = On(s, k), !.pc = c]
Writes(s, v) == [Quiet EXCEPT !.wr[s] = v]
Queues(s, v) == [Quiet EXCEPT !.nba = <<<<s, v>>>>]

Exec_(p, c, s) ==
    CASE p = 1 -> Writes("y", And(s["en"], Not(s["w"])))
      [] p = 2 -> Queues("q", s["b"])
      [] p = 3 /\ c = 0 -> Delay(Quiet, 1, 1)
      [] p = 3 /\ c # 0 -> Writes("clk", IF s["clk"] = X THEN X ELSE 1 - s["clk"])
      [] p = 4 /\ c = 0 -> Await([Writes("clk", 0) EXCEPT !.wr["a"] = 0], "clk", "posedge", 1)
      [] p = 4 /\ c = 1 -> Delay(Queues("a", 1), 0, 2)
      [] p = 4 /\ c = 2 -> Await(Writes("b", s["a"]), "e", "level", 3)
      [] p = 4 /\ c = 3 -> [Quiet EXCEPT !.stop = "finish"]
      [] p = 5 /\ c = 0 -> Await(Quiet, "clk", "negedge", 1)
      [] p = 5 /\ c = 1 -> IF s["e"] = 1 THEN Raise(Writes("c", 1), 1)
                           ELSE [Writes("c", 1) EXCEPT !.stop = "wait", !.pc = 2]
      [] p = 5 /\ c > 1 -> Raise(Quiet, 1)
      [] p = 6 -> Writes("e", 1)

\* A thread woken by an edge runs after the NBAs of that edge, one #0 step
\* later its own NBA is visible to it.
OwnNbaVisible == phase = "exec" /\ batch # <<>> /\ Head(batch) = 4 /\ pcs[4] = 2 => sigs["a"] = 1

\* The delta-limit error and the silent end of the continuous-assign loop are
\* reserved for loops that are closed; anything else converges in the limit.
LimitsMeanLoops ==
    /\ phase = "error" => sigs["en"] = 1
    /\ phase = "ca" /\ ca.pos > NCA /\ ca.chg /\ ca.n = DeltaLimit => sigs["ring"] = 1

\* What the testbench exercises: the threads, or the feedback beside them.
VARIABLE bench

Same(s) == sigs'[s] = sigs[s]
Keeps ==
    IF bench = "threads"
    THEN /\ phase = "idle" => Same("en") /\ Same("ring")
         /\ phase = "callback" => calls' = calls
    ELSE phase = "idle" => Same("e")

BenchInit == Init /\ bench \in {"threads", "feedback"}
BenchSpec == /\ BenchInit
             /\ [][Next /\ Keeps /\ UNCHANGED bench]_<<vars, bench>>
             /\ WF_vars(Kernel)
===========================================================================
