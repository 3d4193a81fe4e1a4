------------------------------ MODULE Channel ------------------------------
(***************************************************************************)
(* What a stream source, a design under test and a stream sink promise     *)
(* together: an unbounded first-in first-out channel.  What has been sent  *)
(* and not yet received is in flight; the sink's queue is out.             *)
(***************************************************************************)
EXTENDS Sequences

CONSTANT Items
VARIABLES inflight, out

Init == inflight = <<>> /\ out = <<>>

Put(i) == inflight' = Append(inflight, i) /\ UNCHANGED out

Move ==
    /\ inflight # <<>>
    /\ out' = Append(out, Head(inflight))
    /\ inflight' = Tail(inflight)

Get == out # <<>> /\ out' = Tail(out) /\ UNCHANGED inflight

Next == (\E i \in Items : Put(i)) \/ Move \/ Get

Spec == Init /\ [][Next]_<<inflight, out>>
=============================================================================
