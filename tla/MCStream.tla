------------------------------ MODULE MCStream ------------------------------
(***************************************************************************)
(* StreamBench for TLC: two clocks that rise in any order or together, or  *)
(* one clock; a FIFO or a wire as the design under test.                   *)
(***************************************************************************)
EXTENDS StreamBench
CONSTANTS s, m
=============================================================================
