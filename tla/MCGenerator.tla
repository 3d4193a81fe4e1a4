---------------------------- MODULE MCGenerator ----------------------------
(***************************************************************************)
(* GeneratorBench for TLC, with the endpoint in domain a, beside b or not. *)
(***************************************************************************)
EXTENDS GeneratorBench
CONSTANTS a, b
=============================================================================
