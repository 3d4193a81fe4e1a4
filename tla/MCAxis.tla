------------------------------- MODULE MCAxis -------------------------------
(***************************************************************************)
(* AxisBench with two elements per beat.  The frames: three elements with  *)
(* the middle one not kept; one whose last beat keeps nothing; one packed  *)
(* one element to a beat; one that mixes side bands; an empty one.         *)
(***************************************************************************)
EXTENDS AxisBench

CONSTANTS s, m

Element(v, keep, side) == [v |-> v, keep |-> keep, side |-> side]
Packed(elems, per) == [elems |-> elems, per |-> per]
MCFrames ==
    {Packed(<<Element(1, TRUE, 0), Element(2, FALSE, 0), Element(2, TRUE, 1)>>, 2),
     Packed(<<Element(2, TRUE, 1), Element(1, TRUE, 1), Element(1, FALSE, 0)>>, 2),
     Packed(<<Element(1, TRUE, 0), Element(2, TRUE, 1)>>, 1),
     Packed(<<Element(1, TRUE, 0), Element(2, TRUE, 1)>>, 2),
     Packed(<<>>, 2)}
=============================================================================
