------------------------- MODULE MCPipelineStyles -------------------------
(***************************************************************************)
(* MCPipeline under a testbench that keeps to one way of having its drives *)
(* seen: run(), the first one before any run_step(); or settle(), which it *)
(* calls before a run() too.                                               *)
(***************************************************************************)
EXTENDS MCPipeline

\* What each process writes: the design keeps the rules for always_comb.
Outputs ==
    1 :> {"y"} @@ 2 :> {"z"} @@ 3 :> {} @@ 4 :> {} @@ 5 :> {} @@ 6 :> {"clk"} @@ 7 :> {"clk"}
ASSUME DesignRules == CombRules(Outputs)

\* Its inputs are the testbench's, and the reset block is clocked by them alone.
ASSUME InputRules == DriveRules /\ \E p \in Seqs : DrivenOnly(p)

VARIABLE style

StyleInit == Init /\ style \in {"run", "settle"}

Calling(op) == calls' # calls /\ call' = op
Keeps ==
    phase = "idle" =>
        /\ style = "run" => ~Calling("settle") /\ (Calling("run_step") => booted)
        /\ style = "settle" /\ Calling("run") => pending = {}

StyleSpec == StyleInit /\ [][Next /\ Keeps /\ UNCHANGED style]_<<vars, style>>
===========================================================================
