---------------------------- MODULE MCPipeline ----------------------------
(***************************************************************************)
(* The kernel on a clocked pipeline whose continuous assigns are declared  *)
(* in reverse dependency order, with a gated clock, an asynchronous reset  *)
(* the testbench drives, a combinational block and a self-reading one:     *)
(*                                                                         *)
(*   assign o = ~w;  assign w = d & ~q2;  assign g = clk & ~rst;           *)
(*   always_comb y = q1 & o;       always @* z = z | y;                    *)
(*   always @(posedge clk) q1 <= w;                                        *)
(*   always @(posedge g)   q2 <= q1;                                       *)
(*   always @(posedge rst) r <= ~r;                                        *)
(***************************************************************************)
EXTENDS Scheduler, TLC

Sigs_ == {"clk", "rst", "d", "w", "o", "g", "q1", "q2", "r", "y", "z"}

Not(a) == IF a = X THEN X ELSE 1 - a
And(a, b) == IF 0 \in {a, b} THEN 0 ELSE IF X \in {a, b} THEN X ELSE 1
Or(a, b) == Not(And(Not(a), Not(b)))

CALhs_ == <<"o", "w", "g">>
CAReads_ == <<{"w"}, {"d", "q2"}, {"clk", "rst"}>>
CARhs_(i, s) ==
    CASE i = 1 -> Not(s["w"])
      [] i = 2 -> And(s["d"], Not(s["q2"]))
      [] i = 3 -> And(s["clk"], Not(s["rst"]))

InitSigs_ == [s \in Sigs_ |-> CASE s \in {"q1", "q2", "r", "g", "clk"} -> 0 [] OTHER -> X]

Combos_ == {1, 2}
Sens_ == <<{"q1", "o"}, {"z", "y"}>>
SelfSens_ == <<{}, {"z"}>>
Seqs_ == {3, 4, 5}
ClockOf == 3 :> "clk" @@ 4 :> "g" @@ 5 :> "rst"
Edges_ == [p \in Seqs_ |-> [s \in Sigs_ |-> IF s = ClockOf[p] THEN "posedge" ELSE "none"]]
Toggles_ == {6, 7}
Initials_ == <<>>
Timers_ == <<>>

Quiet == [wr |-> [s \in Sigs_ |-> 3], nba |-> <<>>, stop |-> "end", delay |-> 0,
          on |-> [s \in Sigs_ |-> "none"], pc |-> 0]
Writes(s, v) == [Quiet EXCEPT !.wr[s] = v]
Queues(s, v) == [Quiet EXCEPT !.nba = <<<<s, v>>>>]

Exec_(p, c, s) ==
    CASE p = 1 -> Writes("y", And(s["q1"], s["o"]))
      [] p = 2 -> Writes("z", Or(s["z"], s["y"]))
      [] p = 3 -> Queues("q1", s["w"])
      [] p = 4 -> Queues("q2", s["q1"])
      [] p = 5 -> Queues("r", Not(s["r"]))
      [] p = 6 -> Writes("clk", 1)
      [] p = 7 -> Writes("clk", 0)

\* Registers clocked by the same edge sample the values of before it,
\* whatever order their blocks run in; others keep theirs.
Target == 3 :> "q1" @@ 4 :> "q2" @@ 5 :> "r"
RegisterTransfer ==
    phase = "wake" /\ stage = "step" =>
        \A p \in Seqs : sigs[Target[p]] =
            IF p \in trigSeq THEN Exec(p, 0, prev).nba[1][2] ELSE prev[Target[p]]
===========================================================================
