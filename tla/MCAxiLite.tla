----------------------------- MODULE MCAxiLite -----------------------------
(***************************************************************************)
(* AxiLiteBench with two byte lanes.  A responder that waits for READY     *)
(* must hold its response for a cycle, or this master, which looks at      *)
(* VALID after rising edges only, never sees it.                           *)
(***************************************************************************)
EXTENDS AxiLiteBench, TLC

MCData == {[l \in Lanes |-> b] : b \in Bytes \ {Zero}}

\* The names of addresses, lanes and bytes mean nothing; no property has liveness.
SameNames == Permutations(Addrs) \cup Permutations(Lanes) \cup Permutations(Bytes \ {Zero})
MCOptions == {[hold |-> 0, wait |-> FALSE], [hold |-> 1, wait |-> TRUE]}
PlainOptions == {[hold |-> 0, wait |-> FALSE]}
=============================================================================
