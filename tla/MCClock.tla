------------------------------ MODULE MCClock ------------------------------
(***************************************************************************)
(* Two clocks, of periods 3 (duty 2/3) and 2.                              *)
(***************************************************************************)
EXTENDS ClockBench, TLC

CONSTANTS fast, slow

MCHigh == slow :> 2 @@ fast :> 1
MCLow == slow :> 1 @@ fast :> 1
=============================================================================
