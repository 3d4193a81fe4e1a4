-------------------------- MODULE FourStateProofs --------------------------
(***************************************************************************)
(* For every width: the operators of FourState keep the encoding of Value, *)
(* never turn an x into knowledge, and turn knowledge into an x only where *)
(* two resolutions of the operands differ.  The first two are shown        *)
(* operator by operator, on pairs of operands of which one refines the     *)
(* other.                                                                  *)
(***************************************************************************)
EXTENDS FourState, FiniteSetTheorems, TLAPS

\* The encoding alone, for a value of any width.
Encoded(a) ==
    /\ a = [val |-> a.val, mask |-> a.mask, width |-> a.width]
    /\ a.val \subseteq Bits(a.width) /\ a.mask \subseteq Bits(a.width)
    /\ a.val \cap a.mask = {}

\* c is a with some x bits known, both well encoded.
Pair(a, c) == Encoded(a) /\ Encoded(c) /\ Refines(a, c)

----------------------------------------------------------------------------

\* Value.__init__ builds an encoded value of the given width.
LEMMA ValueEncoded ==
    ASSUME NEW val, NEW w, NEW mask
    PROVE  Encoded(Value(val, w, mask)) /\ Value(val, w, mask).width = w
BY DEF Encoded, Value

\* Two values of one width are a pair if every bit known in the first is known
\* in the second and the same there.
LEMMA ValuePair ==
    ASSUME NEW v1, NEW m1, NEW v2, NEW m2, NEW w,
           \A i \in Bits(w) : i \notin m1 => i \notin m2 /\ (i \in v1 <=> i \in v2)
    PROVE  Pair(Value(v1, w, m1), Value(v2, w, m2))
<1>1. Encoded(Value(v1, w, m1)) /\ Encoded(Value(v2, w, m2))
  BY ValueEncoded
<1>2. Refines(Value(v1, w, m1), Value(v2, w, m2))
  BY DEF Refines, Value
<1> QED
  BY <1>1, <1>2 DEF Pair

\* What a pair says bit by bit.
LEMMA PairBits ==
    ASSUME NEW a, NEW c, Pair(a, c)
    PROVE  /\ a.width = c.width
           /\ a.val \subseteq Bits(a.width) /\ a.mask \subseteq Bits(a.width)
           /\ c.val \subseteq Bits(a.width) /\ c.mask \subseteq Bits(a.width)
           /\ a.val \cap a.mask = {} /\ c.val \cap c.mask = {}
           /\ c.mask \subseteq a.mask /\ a.val \subseteq c.val
           /\ c.val \subseteq a.val \cup a.mask
BY DEF Pair, Encoded, Refines

\* A value without x bits is refined by itself only.
LEMMA DefinedPair ==
    ASSUME NEW a, NEW c, Pair(a, c), a.mask = {}
    PROVE  a = c
<1>1. c.mask = {} /\ c.val = a.val /\ c.width = a.width
  BY PairBits
<1> QED
  BY <1>1 DEF Pair, Encoded

\* All x is refined by every value of the width.
LEMMA AllXPair ==
    ASSUME NEW w, NEW c, Encoded(c), c.width = w
    PROVE  Pair(AllX(w), c)
<1>1. Encoded(AllX(w)) /\ AllX(w).width = w
  BY ValueEncoded DEF AllX
<1>2. Refines(AllX(w), c)
  BY DEF Refines, AllX, Value, Encoded
<1> QED
  BY <1>1, <1>2 DEF Pair

\* An encoded value refines itself.
LEMMA SelfPair ==
    ASSUME NEW a, Encoded(a)
    PROVE  Pair(a, a)
BY DEF Pair, Encoded, Refines

----------------------------------------------------------------------------
(* Width changes.                                                          *)

LEMMA ResizePair ==
    ASSUME NEW a, NEW c, NEW w, Pair(a, c)
    PROVE  Pair(Resize(a, w), Resize(c, w)) /\ Resize(a, w).width = w
<1>1. \A i \in Bits(w) : i \notin a.mask => i \notin c.mask /\ (i \in a.val <=> i \in c.val)
  BY PairBits
<1> QED
  BY <1>1, ValuePair, ValueEncoded DEF Resize

LEMMA SignExtendPair ==
    ASSUME NEW a, NEW c, NEW w, Pair(a, c)
    PROVE  Pair(SignExtend(a, w), SignExtend(c, w)) /\ SignExtend(a, w).width = w
<1> DEFINE ext == IF w > a.width THEN a.width .. w - 1 ELSE {}
           sign == a.width - 1
           V(x) == x.val \cup (IF sign \in x.val THEN ext ELSE {})
           M(x) == x.mask \cup (IF sign \in x.mask THEN ext ELSE {})
<1>1. SignExtend(a, w) = Value(V(a), w, M(a)) /\ SignExtend(c, w) = Value(V(c), w, M(c))
  BY PairBits DEF SignExtend
<1> HIDE DEF ext, sign
<1>2. \A i \in Bits(w) : i \notin M(a) => i \notin M(c) /\ (i \in V(a) <=> i \in V(c))
  BY PairBits
<1> HIDE DEF V, M
<1> QED
  BY <1>1, <1>2, ValuePair, ValueEncoded

LEMMA FittedPair ==
    ASSUME NEW a, NEW c, NEW w, NEW signed, Pair(a, c)
    PROVE  /\ Pair(Fitted(a, w, signed), Fitted(c, w, signed))
           /\ Fitted(a, w, signed).width = IF w = 0 THEN a.width ELSE w
<1>1. a.width = c.width
  BY PairBits
<1> QED
  BY <1>1, ResizePair, SignExtendPair DEF Fitted

LEMMA WidenedPair ==
    ASSUME NEW a, NEW c, NEW ctx \in Contexts, Pair(a, c), a.width \in Widths
    PROVE  /\ Pair(Widened(a, ctx.width, ctx.ext), Widened(c, ctx.width, ctx.ext))
           /\ Widened(a, ctx.width, ctx.ext).width \in Widths
<1>1. a.width = c.width
  BY PairBits
<1>2. CASE a.width < ctx.width
  <2>1. ctx.width \in Widths /\ ctx.width # 0
    BY <1>2, WidthAssumption DEF Contexts, Widths
  <2>2. /\ Widened(a, ctx.width, ctx.ext) = Fitted(a, ctx.width, ctx.ext)
        /\ Widened(c, ctx.width, ctx.ext) = Fitted(c, ctx.width, ctx.ext)
    BY <1>1, <1>2 DEF Widened
  <2> QED
    BY <2>1, <2>2, FittedPair
<1>3. CASE ~(a.width < ctx.width)
  BY <1>1, <1>3 DEF Widened
<1> QED
  BY <1>2, <1>3

----------------------------------------------------------------------------
(* Arithmetic.                                                             *)

LEMMA ArithEncoded ==
    ASSUME NEW op, NEW a, NEW b, NEW signed
    PROVE  /\ Encoded(Arith(op, a, b, signed))
           /\ Arith(op, a, b, signed).width = ResultWidth(op, a, b)
BY ValueEncoded DEF Arith, AllX, FromInt

LEMMA ArithPair ==
    ASSUME NEW op, NEW a, NEW b, NEW c, NEW d, NEW signed, Pair(a, c), Pair(b, d)
    PROVE  Pair(Arith(op, a, b, signed), Arith(op, c, d, signed))
<1>1. CASE Undefined(a, b)
  <2>1. Arith(op, a, b, signed) = AllX(ResultWidth(op, a, b))
    BY <1>1 DEF Arith
  <2>2. ResultWidth(op, a, b) = ResultWidth(op, c, d)
    BY PairBits DEF ResultWidth, Wider
  <2> QED
    BY <2>1, <2>2, ArithEncoded, AllXPair
<1>2. CASE ~Undefined(a, b)
  <2>1. a = c /\ b = d
    BY <1>2, DefinedPair DEF Undefined
  <2> QED
    BY <2>1, ArithEncoded, SelfPair
<1> QED
  BY <1>1, <1>2

LEMMA NegatePair ==
    ASSUME NEW a, NEW c, Pair(a, c)
    PROVE  Pair(Negate(a), Negate(c)) /\ Negate(a).width = a.width
<1>1. Encoded(Negate(c)) /\ Negate(c).width = a.width /\ Encoded(Negate(a)) /\ Negate(a).width = a.width
  BY ValueEncoded, PairBits DEF Negate, AllX, FromInt
<1>2. CASE a.mask # {}
  BY <1>1, <1>2, AllXPair DEF Negate
<1>3. CASE a.mask = {}
  BY <1>1, <1>3, DefinedPair, SelfPair
<1> QED
  BY <1>1, <1>2, <1>3

----------------------------------------------------------------------------
(* Bitwise operators.                                                      *)

LEMMA AndPair ==
    ASSUME NEW a, NEW b, NEW c, NEW d, Pair(a, c), Pair(b, d)
    PROVE  Pair(And(a, b), And(c, d)) /\ And(a, b).width = Wider(a, b)
<1> DEFINE w == Wider(a, b)
           Zero(x, y) == {i \in Bits(w) : i \notin x.val \cup x.mask \/ i \notin y.val \cup y.mask}
           M(x, y) == (x.mask \cup y.mask) \ Zero(x, y)
<1>1. /\ And(a, b) = Value(a.val \cap b.val, w, M(a, b))
      /\ And(c, d) = Value(c.val \cap d.val, w, M(c, d))
  BY PairBits DEF And, Wider
<1> HIDE DEF w
<1>2. \A i \in Bits(w) : i \notin M(a, b) =>
          i \notin M(c, d) /\ (i \in a.val \cap b.val <=> i \in c.val \cap d.val)
  BY PairBits
<1> HIDE DEF M
<1>3. Pair(And(a, b), And(c, d)) /\ And(a, b).width = w
  BY <1>1, <1>2, ValuePair, ValueEncoded
<1> QED
  BY <1>3 DEF w

LEMMA OrPair ==
    ASSUME NEW a, NEW b, NEW c, NEW d, Pair(a, c), Pair(b, d)
    PROVE  Pair(Or(a, b), Or(c, d)) /\ Or(a, b).width = Wider(a, b)
<1> DEFINE w == Wider(a, b)
           M(x, y) == (x.mask \cup y.mask) \ (x.val \cup y.val)
<1>1. /\ Or(a, b) = Value(a.val \cup b.val, w, M(a, b))
      /\ Or(c, d) = Value(c.val \cup d.val, w, M(c, d))
  BY PairBits DEF Or, Wider
<1> HIDE DEF w
<1>2. \A i \in Bits(w) : i \notin M(a, b) =>
          i \notin M(c, d) /\ (i \in a.val \cup b.val <=> i \in c.val \cup d.val)
  BY PairBits
<1> HIDE DEF M
<1>3. Pair(Or(a, b), Or(c, d)) /\ Or(a, b).width = w
  BY <1>1, <1>2, ValuePair, ValueEncoded
<1> QED
  BY <1>3 DEF w

LEMMA XorPair ==
    ASSUME NEW a, NEW b, NEW c, NEW d, Pair(a, c), Pair(b, d)
    PROVE  Pair(Xor(a, b), Xor(c, d)) /\ Xor(a, b).width = Wider(a, b)
<1>1. Wider(a, b) = Wider(c, d)
  BY PairBits DEF Wider
<1>2. \A i \in Bits(Wider(a, b)) : i \notin a.mask \cup b.mask =>
          i \notin c.mask \cup d.mask /\ (i \in Differ(a.val, b.val) <=> i \in Differ(c.val, d.val))
  BY PairBits DEF Differ
<1> QED
  BY <1>1, <1>2, ValuePair, ValueEncoded DEF Xor

LEMMA InvertPair ==
    ASSUME NEW a, NEW c, Pair(a, c)
    PROVE  Pair(Invert(a), Invert(c)) /\ Invert(a).width = a.width
<1>1. a.width = c.width
  BY PairBits
<1>2. \A i \in Bits(a.width) : i \notin a.mask =>
          i \notin c.mask /\ (i \in Bits(a.width) \ a.val <=> i \in Bits(a.width) \ c.val)
  BY PairBits
<1> QED
  BY <1>1, <1>2, ValuePair, ValueEncoded DEF Invert

LEMMA BitwisePair ==
    ASSUME NEW op \in BitwiseOps, NEW a, NEW b, NEW c, NEW d, Pair(a, c), Pair(b, d)
    PROVE  Pair(Bitwise(op, a, b), Bitwise(op, c, d)) /\ Bitwise(op, a, b).width = Wider(a, b)
<1>1. CASE op = "&"
  BY <1>1, AndPair DEF Bitwise
<1>2. CASE op = "|"
  BY <1>2, OrPair DEF Bitwise
<1>3. CASE op = "^"
  BY <1>3, XorPair DEF Bitwise
<1>4. CASE op = "~^"
  BY <1>4, XorPair, InvertPair DEF Bitwise
<1> QED
  BY <1>1, <1>2, <1>3, <1>4 DEF BitwiseOps

----------------------------------------------------------------------------
(* Shifts.                                                                 *)

LEMMA ShiftLeftPair ==
    ASSUME NEW a, NEW c, NEW n, Pair(a, c)
    PROVE  Pair(ShiftLeft(a, n), ShiftLeft(c, n)) /\ ShiftLeft(a, n).width = a.width
<1>1. a.width = c.width
  BY PairBits
<1>2. Encoded(Value({}, a.width, {})) /\ Value({}, a.width, {}).width = a.width
  BY ValueEncoded
<1>3. \A i \in Bits(a.width) : i \notin Up(a.mask, n) =>
          i \notin Up(c.mask, n) /\ (i \in Up(a.val, n) <=> i \in Up(c.val, n))
  BY PairBits DEF Up
<1>4. Pair(Value(Up(a.val, n), a.width, Up(a.mask, n)), Value(Up(c.val, n), a.width, Up(c.mask, n)))
  BY <1>3, ValuePair
<1> QED
  BY <1>1, <1>2, <1>4, ValueEncoded, SelfPair DEF ShiftLeft

LEMMA ShiftRightPair ==
    ASSUME NEW a, NEW c, NEW n, Pair(a, c)
    PROVE  Pair(ShiftRight(a, n), ShiftRight(c, n)) /\ ShiftRight(a, n).width = a.width
<1>1. a.width = c.width
  BY PairBits
<1>2. Encoded(Value({}, a.width, {})) /\ Value({}, a.width, {}).width = a.width
  BY ValueEncoded
<1>3. \A i \in Bits(a.width) : i \notin Down(a.mask, n) =>
          i \notin Down(c.mask, n) /\ (i \in Down(a.val, n) <=> i \in Down(c.val, n))
  BY PairBits DEF Down
<1>4. Pair(Value(Down(a.val, n), a.width, Down(a.mask, n)),
           Value(Down(c.val, n), a.width, Down(c.mask, n)))
  BY <1>3, ValuePair
<1> QED
  BY <1>1, <1>2, <1>4, ValueEncoded, SelfPair DEF ShiftRight

LEMMA ShiftArithPair ==
    ASSUME NEW a, NEW c, NEW n, Pair(a, c)
    PROVE  Pair(ShiftArith(a, n), ShiftArith(c, n)) /\ ShiftArith(a, n).width = a.width
<1>1. a.width = c.width
  BY PairBits
<1>2. CASE n >= a.width
  <2> DEFINE Sign(x) == Value(IF a.width - 1 \in x.val THEN Bits(a.width) ELSE {}, a.width, {})
  <2>1. Encoded(ShiftArith(a, n)) /\ ShiftArith(a, n).width = a.width
    BY <1>2, ValueEncoded DEF ShiftArith, AllX
  <2>2. Encoded(ShiftArith(c, n)) /\ ShiftArith(c, n).width = a.width
    BY <1>1, <1>2, ValueEncoded DEF ShiftArith, AllX
  <2>3. CASE a.width - 1 \in a.mask
    BY <1>2, <2>1, <2>2, <2>3, AllXPair DEF ShiftArith
  <2>4. CASE a.width - 1 \notin a.mask
    <3>1. a.width - 1 \notin c.mask /\ (a.width - 1 \in a.val <=> a.width - 1 \in c.val)
      BY <2>4, PairBits
    <3>2. ShiftArith(a, n) = ShiftArith(c, n)
      BY <1>1, <1>2, <2>4, <3>1 DEF ShiftArith
    <3> QED
      BY <2>1, <3>2, SelfPair
  <2> QED
    BY <2>1, <2>3, <2>4
<1>3. CASE ~(n >= a.width)
  <2>1. Pair(SignExtend(a, a.width + n), SignExtend(c, c.width + n))
    BY <1>1, SignExtendPair
  <2>2. Pair(ShiftRight(SignExtend(a, a.width + n), n), ShiftRight(SignExtend(c, c.width + n), n))
    BY <2>1, ShiftRightPair
  <2> QED
    BY <1>1, <1>3, <2>2, ResizePair DEF ShiftArith
<1> QED
  BY <1>2, <1>3

LEMMA ShiftPair ==
    ASSUME NEW op \in ShiftOps, NEW a, NEW b, NEW c, NEW d, Pair(a, c), Pair(b, d)
    PROVE  Pair(Shift(op, a, b), Shift(op, c, d)) /\ Shift(op, a, b).width = a.width
<1> DEFINE n == Num(b.val)
           S(x) == CASE op = "<<" -> ShiftLeft(x, n)
                     [] op = ">>" -> ShiftRight(x, n)
                     [] op = ">>>" -> ShiftArith(x, n)
<1>1. /\ \A x, y : Pair(x, y) => Pair(S(x), S(y)) /\ S(x).width = x.width
  <2> HIDE DEF n
  <2>1. CASE op = "<<"
    BY <2>1, ShiftLeftPair
  <2>2. CASE op = ">>"
    BY <2>2, ShiftRightPair
  <2>3. CASE op = ">>>"
    BY <2>3, ShiftArithPair
  <2> QED
    BY <2>1, <2>2, <2>3 DEF ShiftOps
<1>2. Pair(c, c)
  BY SelfPair DEF Pair
<1>3. CASE b.mask # {}
  <2>1. Shift(op, a, b) = AllX(a.width)
    BY <1>3 DEF Shift
  <2>2. Encoded(Shift(op, c, d)) /\ Shift(op, c, d).width = a.width
    <3>1. CASE d.mask # {}
      BY <3>1, PairBits, ValueEncoded DEF Shift, AllX
    <3>2. CASE d.mask = {}
      <4> DEFINE k == Num(d.val)
                 T == CASE op = "<<" -> ShiftLeft(c, k)
                        [] op = ">>" -> ShiftRight(c, k)
                        [] op = ">>>" -> ShiftArith(c, k)
      <4>1. Shift(op, c, d) = T
        BY <3>2 DEF Shift
      <4> HIDE DEF k
      <4>2. CASE op = "<<"
        BY <4>1, <4>2, <1>2, ShiftLeftPair, PairBits DEF Pair
      <4>3. CASE op = ">>"
        BY <4>1, <4>3, <1>2, ShiftRightPair, PairBits DEF Pair
      <4>4. CASE op = ">>>"
        BY <4>1, <4>4, <1>2, ShiftArithPair, PairBits DEF Pair
      <4> QED
        BY <4>2, <4>3, <4>4 DEF ShiftOps
    <3> QED
      BY <3>1, <3>2
  <2>3. AllX(a.width).width = a.width
    BY ValueEncoded DEF AllX
  <2> QED
    BY <2>1, <2>2, <2>3, AllXPair
<1>4. CASE b.mask = {}
  <2>1. b = d
    BY <1>4, DefinedPair
  <2>2. Shift(op, a, b) = S(a) /\ Shift(op, c, d) = S(c)
    BY <1>4, <2>1 DEF Shift
  <2> QED
    BY <1>1, <2>2
<1> QED
  BY <1>3, <1>4

----------------------------------------------------------------------------
(* One-bit results.                                                        *)

LEMMA TruthEncoded ==
    /\ \A b : Encoded(Truth(b)) /\ Truth(b).width = 1
    /\ Encoded(AllX(1)) /\ AllX(1).width = 1
BY ValueEncoded DEF Truth, AllX

\* An x is refined by every one-bit value.
LEMMA BitPair ==
    ASSUME NEW c, Encoded(c), c.width = 1
    PROVE  Pair(AllX(1), c)
BY AllXPair

LEMMA EqualPair ==
    ASSUME NEW op, NEW a, NEW b, NEW c, NEW d, Pair(a, c), Pair(b, d)
    PROVE  Pair(Equal(op, a, b), Equal(op, c, d)) /\ Equal(op, a, b).width = 1
<1>1. Encoded(Equal(op, a, b)) /\ Equal(op, a, b).width = 1
  BY TruthEncoded DEF Equal
<1>2. Encoded(Equal(op, c, d)) /\ Equal(op, c, d).width = 1
  BY TruthEncoded DEF Equal
<1>3. CASE Differ(a.val, b.val) \ (a.mask \cup b.mask) # {}
  <2>1. Differ(c.val, d.val) \ (c.mask \cup d.mask) # {}
    BY <1>3, PairBits DEF Differ
  <2>2. Equal(op, a, b) = Equal(op, c, d)
    BY <1>3, <2>1 DEF Equal
  <2> QED
    BY <1>1, <2>2, SelfPair
<1>4. CASE Differ(a.val, b.val) \ (a.mask \cup b.mask) = {} /\ Undefined(a, b)
  BY <1>2, <1>4, BitPair, TruthEncoded DEF Equal
<1>5. CASE ~Undefined(a, b)
  <2>1. a = c /\ b = d
    BY <1>5, DefinedPair DEF Undefined
  <2> QED
    BY <1>1, <2>1, SelfPair
<1> QED
  BY <1>1, <1>3, <1>4, <1>5

LEMMA OrderedPair ==
    ASSUME NEW op, NEW a, NEW b, NEW c, NEW d, NEW signed, Pair(a, c), Pair(b, d)
    PROVE  Pair(Ordered(op, a, b, signed), Ordered(op, c, d, signed)) /\ Ordered(op, a, b, signed).width = 1
<1>1. \A x, y : Encoded(Ordered(op, x, y, signed)) /\ Ordered(op, x, y, signed).width = 1
  BY TruthEncoded, Zenon DEF Ordered
<1>2. CASE Undefined(a, b)
  BY <1>1, <1>2, BitPair DEF Ordered
<1>3. CASE ~Undefined(a, b)
  <2>1. a = c /\ b = d
    BY <1>3, DefinedPair DEF Undefined
  <2> QED
    BY <1>1, <2>1, SelfPair
<1> QED
  BY <1>1, <1>2, <1>3

LEMMA ReducePair ==
    ASSUME NEW a, NEW c, Pair(a, c)
    PROVE  /\ Pair(ReduceAnd(a), ReduceAnd(c)) /\ ReduceAnd(a).width = 1
           /\ Pair(ReduceOr(a), ReduceOr(c)) /\ ReduceOr(a).width = 1
           /\ Pair(ReduceXor(a), ReduceXor(c)) /\ ReduceXor(a).width = 1
<1>1. \A x : /\ Encoded(ReduceAnd(x)) /\ ReduceAnd(x).width = 1
             /\ Encoded(ReduceOr(x)) /\ ReduceOr(x).width = 1
             /\ Encoded(ReduceXor(x)) /\ ReduceXor(x).width = 1
  BY TruthEncoded DEF ReduceAnd, ReduceOr, ReduceXor
<1>2. CASE a.mask = {}
  BY <1>1, <1>2, DefinedPair, SelfPair
<1>3. CASE a.mask # {}
  <2>1. Pair(ReduceXor(a), ReduceXor(c))
    BY <1>1, <1>3, BitPair DEF ReduceXor
  <2>2. Pair(ReduceOr(a), ReduceOr(c))
    <3>1. CASE a.val # {}
      <4>1. c.val # {}
        BY <3>1, PairBits
      <4>2. ReduceOr(a) = ReduceOr(c)
        BY <3>1, <4>1 DEF ReduceOr
      <4> QED
        BY <1>1, <4>2, SelfPair
    <3>2. CASE a.val = {}
      BY <1>1, <1>3, <3>2, BitPair DEF ReduceOr
    <3> QED
      BY <3>1, <3>2
  <2>3. Pair(ReduceAnd(a), ReduceAnd(c))
    <3>1. CASE a.val \cup a.mask # Bits(a.width)
      <4>1. c.val \cup c.mask # Bits(c.width)
        BY <3>1, PairBits
      <4>2. ReduceAnd(a) = ReduceAnd(c)
        BY <3>1, <4>1 DEF ReduceAnd
      <4> QED
        BY <1>1, <4>2, SelfPair
    <3>2. CASE a.val \cup a.mask = Bits(a.width)
      BY <1>1, <1>3, <3>2, BitPair DEF ReduceAnd
    <3> QED
      BY <3>1, <3>2
  <2> QED
    BY <1>1, <2>1, <2>2, <2>3
<1> QED
  BY <1>2, <1>3

LEMMA UnaryPair ==
    ASSUME NEW op \in UnaryOps, NEW a, NEW c, Pair(a, c)
    PROVE  /\ Pair(Unary(op, a), Unary(op, c))
           /\ Unary(op, a).width = IF op \in {"~", "-"} THEN a.width ELSE 1
<1>1. CASE op = "~"
  BY <1>1, InvertPair DEF Unary
<1>2. CASE op = "-"
  BY <1>2, NegatePair DEF Unary
<1>3. CASE op = "&"
  BY <1>3, ReducePair DEF Unary
<1>4. CASE op = "|"
  BY <1>4, ReducePair DEF Unary
<1>5. CASE op = "^"
  BY <1>5, ReducePair DEF Unary
<1>6. CASE op = "~&"
  BY <1>6, ReducePair, InvertPair DEF Unary
<1>7. CASE op \in {"!", "~|"}
  BY <1>7, ReducePair, InvertPair DEF Unary
<1>8. CASE op = "~^"
  BY <1>8, ReducePair, InvertPair DEF Unary
<1> QED
  BY <1>1, <1>2, <1>3, <1>4, <1>5, <1>6, <1>7, <1>8 DEF UnaryOps

LEMMA LogicalAndPair ==
    ASSUME NEW a, NEW b, NEW c, NEW d, Pair(a, c), Pair(b, d)
    PROVE  Pair(LogicalAnd(a, b), LogicalAnd(c, d)) /\ LogicalAnd(a, b).width = 1
<1>1. \A x, y : Encoded(LogicalAnd(x, y)) /\ LogicalAnd(x, y).width = 1
  BY TruthEncoded DEF LogicalAnd
<1>2. CASE IsZero(a) \/ IsZero(b)
  <2>1. IsZero(c) \/ IsZero(d)
    BY <1>2, PairBits DEF IsZero
  <2>2. LogicalAnd(a, b) = LogicalAnd(c, d)
    BY <1>2, <2>1 DEF LogicalAnd
  <2> QED
    BY <1>1, <2>2, SelfPair
<1>3. CASE ~(IsZero(a) \/ IsZero(b)) /\ a.val # {} /\ b.val # {}
  <2>1. ~(IsZero(c) \/ IsZero(d)) /\ c.val # {} /\ d.val # {}
    BY <1>3, PairBits DEF IsZero
  <2>2. LogicalAnd(a, b) = LogicalAnd(c, d)
    BY <1>3, <2>1 DEF LogicalAnd
  <2> QED
    BY <1>1, <2>2, SelfPair
<1>4. CASE ~(IsZero(a) \/ IsZero(b)) /\ ~(a.val # {} /\ b.val # {})
  BY <1>1, <1>4, BitPair DEF LogicalAnd
<1> QED
  BY <1>2, <1>3, <1>4

LEMMA LogicalOrPair ==
    ASSUME NEW a, NEW b, NEW c, NEW d, Pair(a, c), Pair(b, d)
    PROVE  Pair(LogicalOr(a, b), LogicalOr(c, d)) /\ LogicalOr(a, b).width = 1
<1>1. \A x, y : Encoded(LogicalOr(x, y)) /\ LogicalOr(x, y).width = 1
  BY TruthEncoded DEF LogicalOr
<1>2. CASE a.val # {} \/ b.val # {}
  <2>1. c.val # {} \/ d.val # {}
    BY <1>2, PairBits
  <2>2. LogicalOr(a, b) = LogicalOr(c, d)
    BY <1>2, <2>1 DEF LogicalOr
  <2> QED
    BY <1>1, <2>2, SelfPair
<1>3. CASE IsZero(a) /\ IsZero(b)
  <2>1. a = c /\ b = d
    BY <1>3, DefinedPair DEF IsZero
  <2> QED
    BY <1>1, <2>1, SelfPair
<1>4. CASE ~(a.val # {} \/ b.val # {}) /\ ~(IsZero(a) /\ IsZero(b))
  BY <1>1, <1>4, BitPair DEF LogicalOr
<1> QED
  BY <1>2, <1>3, <1>4

\* Skipping the right operand changes nothing: the left one decides alone.
LEMMA LogicalPair ==
    ASSUME NEW op \in LogicalOps, NEW a, NEW b, NEW c, NEW d, Pair(a, c), Pair(b, d)
    PROVE  Pair(Logical(op, a, b), Logical(op, c, d)) /\ Logical(op, a, b).width = 1
<1>1. \A x, y : LogicalAnd(x, IF IsZero(x) THEN Skipped ELSE y) = LogicalAnd(x, y)
  BY DEF LogicalAnd
<1>2. \A x, y : LogicalOr(x, IF x.val # {} THEN Skipped ELSE y) = LogicalOr(x, y)
  BY DEF LogicalOr
<1>3. CASE op = "&&"
  <2>1. Logical(op, a, b) = LogicalAnd(a, b) /\ Logical(op, c, d) = LogicalAnd(c, d)
    BY <1>1, <1>3 DEF Logical
  <2> QED
    BY <2>1, LogicalAndPair
<1>4. CASE op = "||"
  <2>1. Logical(op, a, b) = LogicalOr(a, b) /\ Logical(op, c, d) = LogicalOr(c, d)
    BY <1>2, <1>4 DEF Logical
  <2> QED
    BY <2>1, LogicalOrPair
<1> QED
  BY <1>3, <1>4 DEF LogicalOps

----------------------------------------------------------------------------
(* Concatenation, selection, part assignment and the conditional operator. *)

LEMMA ConcatPair ==
    ASSUME NEW a, NEW b, NEW c, NEW d, Pair(a, c), Pair(b, d)
    PROVE  Pair(Concat(a, b), Concat(c, d)) /\ Concat(a, b).width = a.width + b.width
<1>1. a.width = c.width /\ b.width = d.width
  BY PairBits
<1> DEFINE V(x, y) == Up(x.val, b.width) \cup y.val
           M(x, y) == Up(x.mask, b.width) \cup y.mask
           w == a.width + b.width
<1>2. Concat(a, b) = Value(V(a, b), w, M(a, b)) /\ Concat(c, d) = Value(V(c, d), w, M(c, d))
  BY <1>1 DEF Concat
<1> HIDE DEF w
<1>3. \A i \in Bits(w) : i \notin M(a, b) => i \notin M(c, d) /\ (i \in V(a, b) <=> i \in V(c, d))
  BY PairBits DEF Up
<1> HIDE DEF V, M
<1>4. Pair(Concat(a, b), Concat(c, d)) /\ Concat(a, b).width = w
  BY <1>2, <1>3, ValuePair, ValueEncoded
<1> QED
  BY <1>4 DEF w

LEMMA ReplicatePair ==
    ASSUME NEW a, NEW c, NEW n, Pair(a, c)
    PROVE  Pair(Replicate(a, n), Replicate(c, n)) /\ Replicate(a, n).width = a.width * n
<1> DEFINE V(x) == Copies(x.val, a.width, n)
           M(x) == Copies(x.mask, a.width, n)
           w == a.width * n
<1>1. Replicate(a, n) = Value(V(a), w, M(a)) /\ Replicate(c, n) = Value(V(c), w, M(c))
  BY PairBits DEF Replicate
<1> HIDE DEF w
<1>2. \A i \in Bits(w) : i \notin M(a) => i \notin M(c) /\ (i \in V(a) <=> i \in V(c))
  BY PairBits DEF Copies
<1> HIDE DEF V, M
<1>3. Pair(Replicate(a, n), Replicate(c, n)) /\ Replicate(a, n).width = w
  BY <1>1, <1>2, ValuePair, ValueEncoded
<1> QED
  BY <1>3 DEF w

LEMMA StreamReversePair ==
    ASSUME NEW a, NEW c, NEW n, Pair(a, c)
    PROVE  Pair(StreamReverse(a, n), StreamReverse(c, n)) /\ StreamReverse(a, n).width = a.width
<1>1. a.width = c.width
  BY PairBits
<1>2. \A i : Moved(a, n, i) = Moved(c, n, i)
  BY <1>1 DEF Moved, Chunk, ChunkLow
<1> DEFINE Image(S) == {Moved(a, n, i) : i \in S}
<1>3. /\ StreamReverse(a, n) = Value(Image(a.val), a.width, Image(a.mask))
      /\ StreamReverse(c, n) = Value(Image(c.val), a.width, Image(c.mask))
  BY <1>1, <1>2 DEF StreamReverse
<1>4. \A i \in Bits(a.width) : i \notin Image(a.mask) =>
          i \notin Image(c.mask) /\ (i \in Image(a.val) <=> i \in Image(c.val))
  BY PairBits
<1> HIDE DEF Image
<1> QED
  BY <1>3, <1>4, ValuePair, ValueEncoded

LEMMA SelectPair ==
    ASSUME NEW a, NEW c, NEW lsb, NEW w, Pair(a, c)
    PROVE  Pair(Select(a, lsb, w), Select(c, lsb, w)) /\ Select(a, lsb, w).width = w
<1> DEFINE out == {i \in Bits(w) : lsb + i \notin Bits(a.width)}
           V(x) == {i \in Bits(w) : lsb + i \in x.val}
           M(x) == {i \in Bits(w) : lsb + i \in x.mask} \cup out
<1>1. Select(a, lsb, w) = Value(V(a), w, M(a)) /\ Select(c, lsb, w) = Value(V(c), w, M(c))
  BY PairBits DEF Select
<1> HIDE DEF out
<1>2. \A i \in Bits(w) : i \notin M(a) => i \notin M(c) /\ (i \in V(a) <=> i \in V(c))
  BY PairBits
<1> HIDE DEF V, M
<1> QED
  BY <1>1, <1>2, ValuePair, ValueEncoded

LEMMA PartSelectPair ==
    ASSUME NEW a, NEW b, NEW c, NEW d, NEW w, NEW signed, NEW down, Pair(a, c), Pair(b, d)
    PROVE  /\ Pair(PartSelect(a, b, w, signed, down), PartSelect(c, d, w, signed, down))
           /\ PartSelect(a, b, w, signed, down).width = w
<1>1. Pair(c, c)
  BY SelfPair DEF Pair
<1>2. Encoded(PartSelect(c, d, w, signed, down)) /\ PartSelect(c, d, w, signed, down).width = w
  BY <1>1, SelectPair, ValueEncoded DEF PartSelect, AllX, Pair
<1>3. CASE b.mask # {}
  BY <1>2, <1>3, AllXPair, ValueEncoded DEF PartSelect, AllX
<1>4. CASE b.mask = {}
  <2>1. b = d
    BY <1>4, DefinedPair
  <2> QED
    BY <1>4, <2>1, SelectPair DEF PartSelect
<1> QED
  BY <1>3, <1>4

LEMMA SetRangePair ==
    ASSUME NEW a, NEW b, NEW c, NEW d, NEW lsb, NEW w, Pair(a, c), Pair(b, d)
    PROVE  Pair(SetRange(a, lsb, w, b), SetRange(c, lsb, w, d)) /\ SetRange(a, lsb, w, b).width = a.width
<1> DEFINE target == {i \in Bits(a.width) : i - lsb \in Bits(w)}
           Part(S) == {i \in target : i - lsb \in S}
           V(x, y) == (x.val \ target) \cup Part(y.val)
           M(x, y) == (x.mask \ target) \cup Part(y.mask)
<1>1. /\ SetRange(a, lsb, w, b) = Value(V(a, b), a.width, M(a, b))
      /\ SetRange(c, lsb, w, d) = Value(V(c, d), a.width, M(c, d))
  BY PairBits DEF SetRange
<1> HIDE DEF target
<1>2. \A i \in Bits(a.width) : i \notin M(a, b) =>
          i \notin M(c, d) /\ (i \in V(a, b) <=> i \in V(c, d))
  BY PairBits
<1> HIDE DEF V, M
<1> QED
  BY <1>1, <1>2, ValuePair, ValueEncoded

\* Branches of one width: the merge is refined by what either branch becomes.
LEMMA MergePair ==
    ASSUME NEW t, NEW f, NEW u, NEW g, Pair(t, u), Pair(f, g), t.width = f.width
    PROVE  /\ Pair(MergeXz(t, f), MergeXz(u, g))
           /\ Pair(MergeXz(t, f), u) /\ Pair(MergeXz(t, f), g)
           /\ MergeXz(t, f).width = t.width
<1> DEFINE w == t.width
           Open(x, y) == Bits(w) \ (Bits(w) \ (Differ(x.val, y.val) \cup x.mask \cup y.mask))
<1>1. /\ MergeXz(t, f) = Value(t.val \cap f.val, w, Open(t, f))
      /\ MergeXz(u, g) = Value(u.val \cap g.val, w, Open(u, g))
  BY PairBits DEF MergeXz, Wider
<1>2. u = Value(u.val, w, u.mask) /\ g = Value(g.val, w, g.mask)
  BY PairBits DEF Pair, Encoded, Value
<1> HIDE DEF w
<1>3. \A i \in Bits(w) : i \notin Open(t, f) =>
          i \notin Open(u, g) /\ (i \in t.val \cap f.val <=> i \in u.val \cap g.val)
  BY PairBits DEF Differ
<1>4. \A i \in Bits(w) : i \notin Open(t, f) =>
          /\ i \notin u.mask /\ (i \in t.val \cap f.val <=> i \in u.val)
          /\ i \notin g.mask /\ (i \in t.val \cap f.val <=> i \in g.val)
  BY PairBits DEF Differ
<1> HIDE DEF Open
<1>5. Pair(MergeXz(t, f), MergeXz(u, g)) /\ MergeXz(t, f).width = w
  BY <1>1, <1>3, ValuePair, ValueEncoded
<1>6. Pair(Value(t.val \cap f.val, w, Open(t, f)), Value(u.val, w, u.mask))
  BY <1>4, ValuePair
<1>7. Pair(Value(t.val \cap f.val, w, Open(t, f)), Value(g.val, w, g.mask))
  BY <1>4, ValuePair
<1> QED
  BY <1>1, <1>2, <1>5, <1>6, <1>7 DEF w

LEMMA TernaryPair ==
    ASSUME NEW a, NEW c, NEW t, NEW f, NEW u, NEW g,
           Pair(a, c), Pair(t, u), Pair(f, g), t.width = f.width
    PROVE  Pair(Ternary(a, t, f), Ternary(c, u, g)) /\ Ternary(a, t, f).width = t.width
<1>1. Pair(ReduceOr(a), ReduceOr(c))
  BY ReducePair
<1>2. CASE ReduceOr(a).mask # {}
  <2>1. Ternary(a, t, f) = MergeXz(t, f)
    BY <1>2 DEF Ternary
  <2>2. Ternary(c, u, g) \in {MergeXz(u, g), u, g}
    BY DEF Ternary
  <2> QED
    BY <2>1, <2>2, MergePair
<1>3. CASE ReduceOr(a).mask = {}
  <2>1. ReduceOr(a) = ReduceOr(c)
    BY <1>1, <1>3, DefinedPair
  <2> QED
    BY <1>3, <2>1 DEF Ternary
<1> QED
  BY <1>2, <1>3

----------------------------------------------------------------------------
(* eval() of a binary and of a unary operator.                             *)

BinaryOps == ArithOps \cup BitwiseOps \cup ShiftOps \cup EqualOps \cup OrderOps \cup LogicalOps

LEMMA ApplyPair ==
    ASSUME NEW op \in BinaryOps, NEW a, NEW b, NEW c, NEW d, NEW ext, NEW signed,
           Pair(a, c), Pair(b, d)
    PROVE  /\ Pair(Apply(op, a, b, ext, signed), Apply(op, c, d, ext, signed))
           /\ Apply(op, a, b, ext, signed).width \in {1, a.width, b.width}
<1> USE DEF ArithOps, BitwiseOps, ShiftOps, EqualOps, OrderOps, LogicalOps
<1>1. CASE op \in ArithOps
  <2>1. /\ Apply(op, a, b, ext, signed) = Arith(op, a, b, signed)
        /\ Apply(op, c, d, ext, signed) = Arith(op, c, d, signed)
    BY <1>1 DEF Apply
  <2>2. ResultWidth(op, a, b) \in {1, a.width, b.width}
    BY DEF ResultWidth, Wider
  <2> QED
    BY <2>1, <2>2, ArithPair, ArithEncoded
<1>2. CASE op \in BitwiseOps
  <2>1. /\ Apply(op, a, b, ext, signed) = Bitwise(op, a, b)
        /\ Apply(op, c, d, ext, signed) = Bitwise(op, c, d)
    BY <1>2 DEF Apply
  <2> QED
    BY <1>2, <2>1, BitwisePair DEF Wider
<1>3. CASE op \in ShiftOps
  <2> DEFINE s == IF op = ">>>" /\ ~ext THEN ">>" ELSE op
  <2>1. /\ Apply(op, a, b, ext, signed) = Shift(s, a, b)
        /\ Apply(op, c, d, ext, signed) = Shift(s, c, d)
    BY <1>3 DEF Apply
  <2>2. s \in ShiftOps
    BY <1>3
  <2> HIDE DEF s
  <2> QED
    BY <2>1, <2>2, ShiftPair
<1>4. CASE op \in EqualOps
  <2>1. /\ Apply(op, a, b, ext, signed) = Equal(op, a, b)
        /\ Apply(op, c, d, ext, signed) = Equal(op, c, d)
    BY <1>4 DEF Apply
  <2> QED
    BY <2>1, EqualPair
<1>5. CASE op \in OrderOps
  <2>1. /\ Apply(op, a, b, ext, signed) = Ordered(op, a, b, signed)
        /\ Apply(op, c, d, ext, signed) = Ordered(op, c, d, signed)
    BY <1>5 DEF Apply
  <2> QED
    BY <2>1, OrderedPair
<1>6. CASE op \in LogicalOps
  <2>1. /\ Apply(op, a, b, ext, signed) = Logical(op, a, b)
        /\ Apply(op, c, d, ext, signed) = Logical(op, c, d)
    BY <1>6 DEF Apply
  <2> QED
    BY <1>6, <2>1, LogicalPair
<1> QED
  BY <1>1, <1>2, <1>3, <1>4, <1>5, <1>6 DEF BinaryOps

LEMMA TargetWidth ==
    ASSUME NEW op \in BinaryOps, NEW a, NEW b, NEW width \in 0 .. MaxWidth,
           a.width \in Widths, b.width \in Widths
    PROVE  Target(op, a, b, width) \in Widths \cup {0}
<1> USE WidthAssumption DEF ArithOps, BitwiseOps, ShiftOps, EqualOps, OrderOps, LogicalOps
<1>1. Wider(a, b) \in Widths
  BY DEF Wider
<1>2. \A n \in Widths : Larger(width, n) \in Widths
  BY DEF Larger, Widths
<1>3. Target(op, a, b, width) \in {Wider(a, b), Larger(width, a.width), Larger(width, Wider(a, b)), 0}
  BY DEF Target, BinaryOps
<1> QED
  BY <1>1, <1>2, <1>3

LEMMA BinaryOpPair ==
    ASSUME NEW op \in BinaryOps, NEW a, NEW b, NEW c, NEW d, NEW width \in 0 .. MaxWidth,
           NEW ext, NEW signed, Pair(a, c), Pair(b, d), a.width \in Widths, b.width \in Widths
    PROVE  /\ Pair(BinaryOp(op, a, b, width, ext, signed), BinaryOp(op, c, d, width, ext, signed))
           /\ BinaryOp(op, a, b, width, ext, signed).width \in Widths
<1> DEFINE l == Left(op, a, b, width, ext, signed)
           r == Right(op, a, b, width, ext, signed)
           m == Left(op, c, d, width, ext, signed)
           s == Right(op, c, d, width, ext, signed)
<1>1. Target(op, a, b, width) = Target(op, c, d, width)
  BY PairBits DEF Target, Wider
<1>2. Target(op, a, b, width) \in Widths \cup {0}
  BY TargetWidth
<1>3. Pair(l, m) /\ l.width \in Widths
  BY <1>1, <1>2, FittedPair DEF Left
<1>4. Pair(r, s) /\ r.width \in Widths
  BY <1>1, <1>2, FittedPair DEF Right
<1> HIDE DEF l, r, m, s
<1>5. /\ Pair(Apply(op, l, r, ext, signed), Apply(op, m, s, ext, signed))
      /\ Apply(op, l, r, ext, signed).width \in Widths
  BY <1>3, <1>4, ApplyPair, WidthAssumption DEF Widths
<1>6. /\ BinaryOp(op, a, b, width, ext, signed) = Fitted(Apply(op, l, r, ext, signed), width, ext)
      /\ BinaryOp(op, c, d, width, ext, signed) = Fitted(Apply(op, m, s, ext, signed), width, ext)
  BY DEF BinaryOp, l, r, m, s
<1>7. width = 0 \/ width \in Widths
  BY WidthAssumption DEF Widths
<1> QED
  BY <1>5, <1>6, <1>7, FittedPair

LEMMA UnaryOpPair ==
    ASSUME NEW op \in UnaryOps, NEW a, NEW c, NEW width \in 0 .. MaxWidth, NEW ext,
           Pair(a, c), a.width \in Widths
    PROVE  /\ Pair(UnaryOp(op, a, width, ext), UnaryOp(op, c, width, ext))
           /\ UnaryOp(op, a, width, ext).width \in Widths
<1>1. Larger(width, a.width) \in Widths /\ Larger(width, 1) \in Widths /\ a.width = c.width
  BY PairBits, WidthAssumption DEF Larger, Widths
<1>2. 0 \notin Widths
  BY WidthAssumption DEF Widths
<1>3. CASE op \in {"~", "-"}
  <2> DEFINE x == Fitted(a, Larger(width, a.width), ext)
             y == Fitted(c, Larger(width, a.width), ext)
  <2>1. Pair(x, y) /\ x.width \in Widths
    BY <1>1, <1>2, FittedPair
  <2>2. UnaryOp(op, a, width, ext) = Unary(op, x) /\ UnaryOp(op, c, width, ext) = Unary(op, y)
    BY <1>1, <1>3 DEF UnaryOp
  <2> HIDE DEF x, y
  <2> QED
    BY <1>3, <2>1, <2>2, UnaryPair
<1>4. CASE op \notin {"~", "-"}
  <2>1. Pair(Unary(op, a), Unary(op, c))
    BY UnaryPair
  <2>2. /\ UnaryOp(op, a, width, ext) = Fitted(Unary(op, a), Larger(width, 1), ext)
        /\ UnaryOp(op, c, width, ext) = Fitted(Unary(op, c), Larger(width, 1), ext)
    BY <1>4 DEF UnaryOp
  <2> QED
    BY <1>1, <1>2, <2>1, <2>2, FittedPair
<1> QED
  BY <1>3, <1>4

----------------------------------------------------------------------------
(* The two runs.                                                           *)

Inv == Pair(seen, known) /\ seen.width \in Widths

\* The invariant says no more and no less than the two properties.
LEMMA InvMeans == Inv <=> TypeOK /\ KnownStaysTrue
<1>1. \A n \in Widths : Bits(n) \subseteq Bits(MaxWidth)
  BY WidthAssumption DEF Widths, Bits
<1>2. \A a : WellFormed(a) <=> Encoded(a) /\ a.width \in Widths
  <2> SUFFICES ASSUME NEW a PROVE WellFormed(a) <=> Encoded(a) /\ a.width \in Widths
    OBVIOUS
  <2>1. ASSUME Encoded(a), a.width \in Widths PROVE WellFormed(a)
    BY <1>1, <2>1 DEF Encoded, WellFormed
  <2>2. ASSUME WellFormed(a) PROVE Encoded(a) /\ a.width \in Widths
    BY <2>2 DEF Encoded, WellFormed
  <2> QED
    BY <2>1, <2>2
<1> QED
  BY <1>2 DEF Inv, Pair, TypeOK, KnownStaysTrue, Refines

LEMMA OperandPair ==
    ASSUME NEW p \in Operands
    PROVE  Pair(p[1], p[2]) /\ p[1].width \in Widths
<1>1. WellFormed(p[1]) /\ WellFormed(p[2]) /\ Refines(p[1], p[2])
  BY DEF Operands, Values
<1> QED
  BY <1>1 DEF Pair, Encoded, WellFormed

LEMMA StepKeepsPair == Inv /\ Next => Inv'
<1> SUFFICES ASSUME Inv, Next PROVE Inv'
  OBVIOUS
<1>1. ASSUME NEW op \in BinaryOps, EvalBinary(op) PROVE Inv'
  BY <1>1, BinaryOpPair, OperandPair DEF EvalBinary, Inv
<1>2. ASSUME NEW op \in UnaryOps, EvalUnary(op) PROVE Inv'
  BY <1>2, UnaryOpPair DEF EvalUnary, Inv
<1>3. CASE EvalTernary
  BY <1>3, TernaryPair, OperandPair DEF EvalTernary, Inv
<1>4. CASE EvalConcat
  <2>1. PICK p \in Operands, ctx \in Contexts :
            /\ seen.width + p[1].width <= MaxWidth
            /\ Becomes(Concat(seen, p[1]), Concat(known, p[2]), ctx)
    BY <1>4 DEF EvalConcat
  <2>2. seen.width + p[1].width \in Widths
    BY <2>1, OperandPair, WidthAssumption DEF Inv, Widths
  <2> QED
    BY <2>1, <2>2, ConcatPair, OperandPair, WidenedPair DEF Inv, Becomes
<1>5. CASE EvalReplicate
  <2>1. PICK n \in 1 .. MaxCount, ctx \in Contexts :
            /\ seen.width * n <= MaxWidth
            /\ Becomes(Replicate(seen, n), Replicate(known, n), ctx)
    BY <1>5 DEF EvalReplicate
  <2>2. seen.width \in 1 .. MaxWidth /\ n \in 1 .. MaxCount
    BY <2>1 DEF Inv, Widths
  <2>3. seen.width * n \in Widths
    BY <2>1, <2>2, WidthAssumption DEF Widths
  <2> QED
    BY <2>1, <2>3, ReplicatePair, WidenedPair DEF Inv, Becomes
<1>6. CASE EvalStreamReverse
  BY <1>6, StreamReversePair, WidenedPair DEF EvalStreamReverse, Inv, Becomes
<1>7. CASE EvalRangeSelect
  BY <1>7, SelectPair, WidenedPair DEF EvalRangeSelect, Inv, Becomes
<1>8. CASE EvalPartSelect
  BY <1>8, PartSelectPair, OperandPair, WidenedPair DEF EvalPartSelect, Inv, Becomes
<1>9. CASE AssignRange
  BY <1>9, SetRangePair, OperandPair DEF AssignRange, Inv
<1> QED
  BY <1>1, <1>2, <1>3, <1>4, <1>5, <1>6, <1>7, <1>8, <1>9 DEF Next, BinaryOps

LEMMA PairAlways == Spec => []Inv
<1>1. Init => Inv
  BY OperandPair DEF Init, Inv
<1>2. Inv /\ UNCHANGED vars => Inv'
  BY DEF Inv, vars
<1> QED
  BY <1>1, <1>2, StepKeepsPair, PTL DEF Spec

\* For every width, every value computed keeps the encoding of Value: no bit
\* above the width, none both 1 and x.
THEOREM ValuesEncoded == Spec => []TypeOK
BY PairAlways, InvMeans, PTL

\* For every width and every expression over the operators of value.py and
\* evaluator.py, a bit computed as 0 or 1 stays that bit whatever the x bits
\* of the inputs stand for.
THEOREM NoInventedKnowledge == Spec => []KnownStaysTrue
BY PairAlways, InvMeans, PTL

----------------------------------------------------------------------------
(* No x without need: two ways to make the x bits known, of which one      *)
(* makes a bit of the result 1 and the other makes it 0.                   *)

\* a with its x bits known: those of ones are 1, the rest 0.
Fill(a, ones) == [val |-> a.val \cup (a.mask \cap ones), mask |-> {}, width |-> a.width]

LEMMA FillConcrete ==
    ASSUME NEW a \in Values, NEW ones
    PROVE  Fill(a, ones) \in Concrete(a)
<1>1. WellFormed(a)
  BY DEF Values
<1>2. Fill(a, ones) \in [val : SUBSET Bits(MaxWidth), mask : SUBSET Bits(MaxWidth), width : Widths]
  BY <1>1 DEF Fill, WellFormed
<1>3. WellFormed(Fill(a, ones))
  BY <1>1, <1>2 DEF Fill, WellFormed
<1>4. Refines(a, Fill(a, ones))
  BY <1>1 DEF Fill, WellFormed, Refines
<1> QED
  BY <1>2, <1>3, <1>4 DEF Concrete, Values, Fill

\* What a value of Values says bit by bit, and what it becomes when filled.
LEMMA ValueBits ==
    ASSUME NEW a \in Values
    PROVE  /\ a.val \subseteq Bits(a.width) /\ a.mask \subseteq Bits(a.width)
           /\ a.val \cap a.mask = {}
           /\ a.width \in Widths
BY DEF Values, WellFormed

LEMMA FillBits ==
    ASSUME NEW a, NEW ones
    PROVE  /\ Fill(a, ones).val = a.val \cup (a.mask \cap ones)
           /\ Fill(a, ones).mask = {} /\ Fill(a, ones).width = a.width
BY DEF Fill

\* The one-bit results.
LEMMA TruthBits ==
    /\ \A b : Truth(b).mask = {}
    /\ 0 \in Truth(TRUE).val /\ 0 \notin Truth(FALSE).val
    /\ AllX(1).mask = {0} /\ AllX(1).val = {}
    /\ \A b \in BOOLEAN : Invert(Truth(b)) = Truth(~b)
    /\ Invert(AllX(1)) = AllX(1)
<1>1. Bits(1) = {0}
  BY DEF Bits
<1> QED
  BY <1>1 DEF Truth, AllX, Value, Invert

\* Of a known value, and by the truth of the condition alone.
LEMMA TruthSame ==
    \A b : (b => Truth(b) = Truth(TRUE)) /\ (~b => Truth(b) = Truth(FALSE))
BY DEF Truth

LEMMA ReduceKnown ==
    ASSUME NEW x, x.mask = {}
    PROVE  /\ x.val = Bits(x.width) => ReduceAnd(x) = Truth(TRUE)
           /\ x.val # Bits(x.width) => ReduceAnd(x) = Truth(FALSE)
           /\ x.val # {} => ReduceOr(x) = Truth(TRUE)
           /\ x.val = {} => ReduceOr(x) = Truth(FALSE)
           /\ Cardinality(x.val) % 2 = 1 => ReduceXor(x) = Truth(TRUE)
           /\ Cardinality(x.val) % 2 # 1 => ReduceXor(x) = Truth(FALSE)
<1>1. x.val \cup x.mask = x.val
  OBVIOUS
<1>2. /\ x.val = Bits(x.width) => ReduceAnd(x) = Truth(TRUE)
      /\ x.val # Bits(x.width) => ReduceAnd(x) = Truth(FALSE)
  BY <1>1 DEF ReduceAnd
<1>3. /\ x.val # {} => ReduceOr(x) = Truth(TRUE)
      /\ x.val = {} => ReduceOr(x) = Truth(FALSE)
  BY DEF ReduceOr
<1>4. ReduceXor(x) = Truth(Cardinality(x.val) % 2 = 1)
  BY DEF ReduceXor
<1> QED
  BY <1>2, <1>3, <1>4, TruthSame, Zenon

----------------------------------------------------------------------------
(* Unary operators.                                                        *)

\* One filling gives a 1 at place i and another a 0.
Shows(op, a, s, z, i) == i \in Unary(op, Fill(a, s)).val /\ i \notin Unary(op, Fill(a, z)).val

LEMMA InvertOpen ==
    ASSUME NEW a \in Values, NEW i \in Invert(a).mask
    PROVE  Shows("~", a, {}, {i}, i)
<1>1. \A x : Unary("~", x) = Invert(x)
  BY DEF Unary
<1>2. i \in a.mask /\ i \in Bits(a.width) /\ i \notin a.val
  BY ValueBits DEF Invert, Value
<1>3. i \in Invert(Fill(a, {})).val
  BY <1>2, FillBits DEF Invert, Value
<1>4. i \notin Invert(Fill(a, {i})).val
  BY <1>2, FillBits DEF Invert, Value
<1> QED
  BY <1>1, <1>3, <1>4 DEF Shows

LEMMA ReduceAndOpen ==
    ASSUME NEW a \in Values, ReduceAnd(a).mask # {}
    PROVE  /\ ReduceAnd(a) = AllX(1)
           /\ \E s, z : ReduceAnd(Fill(a, s)) = Truth(TRUE) /\ ReduceAnd(Fill(a, z)) = Truth(FALSE)
<1>1. a.val \cup a.mask = Bits(a.width) /\ a.mask # {}
  BY TruthBits DEF ReduceAnd
<1>2. ReduceAnd(a) = AllX(1)
  BY <1>1 DEF ReduceAnd
<1> DEFINE one == Fill(a, a.mask)
           zero == Fill(a, {})
<1>3. one.mask = {} /\ one.val = Bits(one.width) /\ zero.mask = {} /\ zero.val # Bits(zero.width)
  BY <1>1, ValueBits DEF Fill
<1> HIDE DEF one, zero
<1>4. ReduceAnd(one) = Truth(TRUE) /\ ReduceAnd(zero) = Truth(FALSE)
  BY <1>3, ReduceKnown
<1> QED
  BY <1>2, <1>4 DEF one, zero

LEMMA ReduceOrOpen ==
    ASSUME NEW a \in Values, ReduceOr(a).mask # {}
    PROVE  /\ ReduceOr(a) = AllX(1)
           /\ \E s, z : ReduceOr(Fill(a, s)) = Truth(TRUE) /\ ReduceOr(Fill(a, z)) = Truth(FALSE)
<1>1. a.val = {} /\ a.mask # {}
  BY TruthBits DEF ReduceOr
<1>2. ReduceOr(a) = AllX(1)
  BY <1>1 DEF ReduceOr
<1> DEFINE one == Fill(a, a.mask)
           zero == Fill(a, {})
<1>3. one.mask = {} /\ one.val # {} /\ zero.mask = {} /\ zero.val = {}
  BY <1>1, ValueBits DEF Fill
<1> HIDE DEF one, zero
<1>4. ReduceOr(one) = Truth(TRUE) /\ ReduceOr(zero) = Truth(FALSE)
  BY <1>3, ReduceKnown
<1> QED
  BY <1>2, <1>4 DEF one, zero

\* One bit more changes the parity.
LEMMA ReduceXorOpen ==
    ASSUME NEW a \in Values, ReduceXor(a).mask # {}
    PROVE  /\ ReduceXor(a) = AllX(1)
           /\ \E s, z : ReduceXor(Fill(a, s)) = Truth(TRUE) /\ ReduceXor(Fill(a, z)) = Truth(FALSE)
<1>1. a.mask # {}
  BY TruthBits DEF ReduceXor
<1>2. PICK m : m \in a.mask
  BY <1>1
<1>3. IsFiniteSet(a.val)
  <2>1. a.width \in Nat /\ a.val \subseteq 0 .. a.width - 1
    BY ValueBits, WidthAssumption DEF Bits, Widths
  <2>2. IsFiniteSet(0 .. a.width - 1)
    BY <2>1, FS_Interval
  <2> QED
    BY <2>1, <2>2, FS_Subset
<1>4. m \notin a.val
  BY <1>2, ValueBits
<1> DEFINE n == Cardinality(a.val)
<1>5. n \in Nat /\ Cardinality(a.val \cup {m}) = n + 1
  BY <1>3, <1>4, FS_CardinalityType, FS_AddElement
<1>6. n % 2 = 1 <=> (n + 1) % 2 # 1
  BY <1>5
<1>7. ReduceXor(a) = AllX(1)
  BY <1>1 DEF ReduceXor
<1> DEFINE even == Fill(a, {})
           odd == Fill(a, {m})
<1>8. even.mask = {} /\ odd.mask = {} /\ even.val = a.val /\ odd.val = a.val \cup {m}
  BY <1>2 DEF Fill
<1> HIDE DEF even, odd
<1>9. CASE n % 2 = 1
  <2>1. ReduceXor(even) = Truth(TRUE) /\ ReduceXor(odd) = Truth(FALSE)
    BY <1>5, <1>6, <1>8, <1>9, ReduceKnown
  <2> QED
    BY <1>7, <2>1 DEF even, odd
<1>10. CASE n % 2 # 1
  <2>1. ReduceXor(even) = Truth(FALSE) /\ ReduceXor(odd) = Truth(TRUE)
    BY <1>5, <1>6, <1>8, <1>10, ReduceKnown
  <2> QED
    BY <1>7, <2>1 DEF even, odd
<1> QED
  BY <1>9, <1>10

LEMMA UnaryOpen ==
    ASSUME NEW op \in UnaryOps \ {"-"}, NEW a \in Values, NEW i \in Unary(op, a).mask
    PROVE  \E s, z : Shows(op, a, s, z, i)
<1> DEFINE Red(x) == CASE op \in {"&", "~&"} -> ReduceAnd(x)
                       [] op \in {"|", "!", "~|"} -> ReduceOr(x)
                       [] op \in {"^", "~^"} -> ReduceXor(x)
           Inv2 == op \in {"~&", "!", "~|", "~^"}
<1>1. CASE op = "~"
  <2>1. Unary(op, a) = Invert(a)
    BY <1>1 DEF Unary
  <2> QED
    BY <1>1, <2>1, InvertOpen
<1>2. CASE op # "~"
  <2>1. \A x : Unary(op, x) = IF Inv2 THEN Invert(Red(x)) ELSE Red(x)
    BY <1>2 DEF Unary, UnaryOps
  <2>2. Red(a).mask # {}
    <3>1. CASE Inv2
      BY <2>1, <3>1 DEF Invert, Value
    <3>2. CASE ~Inv2
      BY <2>1, <3>2
    <3> QED
      BY <3>1, <3>2
  <2>3. /\ Red(a) = AllX(1)
        /\ \E s, z : Red(Fill(a, s)) = Truth(TRUE) /\ Red(Fill(a, z)) = Truth(FALSE)
    <3>1. CASE op \in {"&", "~&"}
      BY <2>2, <3>1, ReduceAndOpen
    <3>2. CASE op \in {"|", "!", "~|"}
      BY <2>2, <3>2, ReduceOrOpen
    <3>3. CASE op \in {"^", "~^"}
      BY <2>2, <3>3, ReduceXorOpen
    <3> QED
      BY <1>2, <3>1, <3>2, <3>3 DEF UnaryOps
  <2> HIDE DEF Red, Inv2
  <2>4. PICK s, z : Red(Fill(a, s)) = Truth(TRUE) /\ Red(Fill(a, z)) = Truth(FALSE)
    BY <2>3
  <2>5. CASE Inv2
    <3>1. /\ Unary(op, a) = AllX(1)
          /\ Unary(op, Fill(a, s)) = Truth(FALSE) /\ Unary(op, Fill(a, z)) = Truth(TRUE)
      BY <2>1, <2>3, <2>4, <2>5, TruthBits
    <3>2. Shows(op, a, s, z, 0) \/ Shows(op, a, z, s, 0)
      BY <3>1, TruthBits DEF Shows
    <3>3. i = 0
      BY <3>1, TruthBits
    <3> QED
      BY <3>2, <3>3
  <2>6. CASE ~Inv2
    <3>1. /\ Unary(op, a) = AllX(1)
          /\ Unary(op, Fill(a, s)) = Truth(TRUE) /\ Unary(op, Fill(a, z)) = Truth(FALSE)
      BY <2>1, <2>3, <2>4, <2>6
    <3>2. Shows(op, a, s, z, 0) \/ Shows(op, a, z, s, 0)
      BY <3>1, TruthBits DEF Shows
    <3>3. i = 0
      BY <3>1, TruthBits
    <3> QED
      BY <3>2, <3>3
  <2> QED
    BY <2>5, <2>6
<1> QED
  BY <1>1, <1>2

----------------------------------------------------------------------------
(* Binary operators, on operands of one width or of two.                   *)

\* op without a context, as XOnlyIfOpen applies it.
App(op, a, b) == Apply(op, a, b, FALSE, FALSE)

\* One filling of the two operands gives a 1 at place i and another a 0.
ShowsTwo(op, a, b, s, t, y, z, i) ==
    i \in App(op, Fill(a, s), Fill(b, t)).val /\ i \notin App(op, Fill(a, y), Fill(b, z)).val

LEMMA Apps ==
    ASSUME NEW a, NEW b
    PROVE  /\ App("&", a, b) = And(a, b) /\ App("|", a, b) = Or(a, b)
           /\ App("^", a, b) = Xor(a, b) /\ App("~^", a, b) = Invert(Xor(a, b))
           /\ \A op \in EqualOps : App(op, a, b) = Equal(op, a, b)
           /\ \A op \in LogicalOps : App(op, a, b) = Logical(op, a, b)
<1> USE DEF ArithOps, BitwiseOps, ShiftOps, EqualOps, OrderOps, LogicalOps
<1>1. \A op \in BitwiseOps : App(op, a, b) = Bitwise(op, a, b)
  BY DEF App, Apply
<1>2. /\ \A op \in EqualOps : App(op, a, b) = Equal(op, a, b)
      /\ \A op \in LogicalOps : App(op, a, b) = Logical(op, a, b)
  BY DEF App, Apply
<1>3. /\ Bitwise("&", a, b) = And(a, b) /\ Bitwise("|", a, b) = Or(a, b)
      /\ Bitwise("^", a, b) = Xor(a, b) /\ Bitwise("~^", a, b) = Invert(Xor(a, b))
  BY DEF Bitwise
<1> QED
  BY <1>1, <1>2, <1>3

\* A bit of the value of a bitwise operator.
LEMMA AndBits ==
    ASSUME NEW a, NEW b, NEW i \in Bits(Wider(a, b))
    PROVE  /\ i \in And(a, b).mask =>
                 i \in a.mask \cup b.mask /\ i \in a.val \cup a.mask /\ i \in b.val \cup b.mask
           /\ a.mask = {} /\ b.mask = {} => (i \in And(a, b).val <=> i \in a.val /\ i \in b.val)
BY DEF And, Value

LEMMA OrBits ==
    ASSUME NEW a, NEW b, NEW i \in Bits(Wider(a, b))
    PROVE  /\ i \in Or(a, b).mask =>
                 i \in a.mask \cup b.mask /\ i \notin a.val /\ i \notin b.val
           /\ a.mask = {} /\ b.mask = {} => (i \in Or(a, b).val <=> i \in a.val \/ i \in b.val)
BY DEF Or, Value

LEMMA XorBits ==
    ASSUME NEW a, NEW b, NEW i \in Bits(Wider(a, b))
    PROVE  /\ i \in Xor(a, b).mask => i \in a.mask \cup b.mask
           /\ a.mask = {} /\ b.mask = {} => (i \in Xor(a, b).val <=> ~(i \in a.val <=> i \in b.val))
BY DEF Xor, Value, Differ

LEMMA BitwiseMask ==
    ASSUME NEW a, NEW b
    PROVE  /\ And(a, b).mask \subseteq Bits(Wider(a, b)) /\ Or(a, b).mask \subseteq Bits(Wider(a, b))
           /\ Xor(a, b).mask \subseteq Bits(Wider(a, b)) /\ Xor(a, b).width = Wider(a, b)
BY DEF And, Or, Xor, Value

LEMMA FillWider ==
    ASSUME NEW a, NEW b, NEW s, NEW t
    PROVE  Wider(Fill(a, s), Fill(b, t)) = Wider(a, b)
BY DEF Fill, Wider

LEMMA AndOpen ==
    ASSUME NEW a \in Values, NEW b \in Values, NEW i \in And(a, b).mask
    PROVE  \E s, t, y, z : ShowsTwo("&", a, b, s, t, y, z, i)
<1>1. i \in Bits(Wider(a, b))
  BY BitwiseMask
<1>2. i \in a.mask \cup b.mask /\ i \in a.val \cup a.mask /\ i \in b.val \cup b.mask
  BY <1>1, AndBits
<1> DEFINE one == And(Fill(a, a.mask), Fill(b, b.mask))
           zero == And(Fill(a, {}), Fill(b, {}))
<1>3. i \in one.val
  <2>1. i \in Fill(a, a.mask).val /\ i \in Fill(b, b.mask).val
    BY <1>2 DEF Fill
  <2> QED
    BY <1>1, <2>1, AndBits, FillWider, FillBits
<1>4. i \notin zero.val
  <2>1. i \notin Fill(a, {}).val \/ i \notin Fill(b, {}).val
    BY <1>2, ValueBits DEF Fill
  <2> QED
    BY <1>1, <2>1, AndBits, FillWider, FillBits
<1> QED
  BY <1>3, <1>4, Apps DEF ShowsTwo

LEMMA OrOpen ==
    ASSUME NEW a \in Values, NEW b \in Values, NEW i \in Or(a, b).mask
    PROVE  \E s, t, y, z : ShowsTwo("|", a, b, s, t, y, z, i)
<1>1. i \in Bits(Wider(a, b))
  BY BitwiseMask
<1>2. i \in a.mask \cup b.mask /\ i \notin a.val /\ i \notin b.val
  BY <1>1, OrBits
<1> DEFINE one == Or(Fill(a, a.mask), Fill(b, b.mask))
           zero == Or(Fill(a, {}), Fill(b, {}))
<1>3. i \in one.val
  <2>1. i \in Fill(a, a.mask).val \/ i \in Fill(b, b.mask).val
    BY <1>2 DEF Fill
  <2> QED
    BY <1>1, <2>1, OrBits, FillWider, FillBits
<1>4. i \notin zero.val
  <2>1. i \notin Fill(a, {}).val /\ i \notin Fill(b, {}).val
    BY <1>2, ValueBits DEF Fill
  <2> QED
    BY <1>1, <2>1, OrBits, FillWider, FillBits
<1> QED
  BY <1>3, <1>4, Apps DEF ShowsTwo

\* An x bit of either operand can be set so that the bits differ or agree.
LEMMA XorOpen ==
    ASSUME NEW a \in Values, NEW b \in Values, NEW i \in Xor(a, b).mask
    PROVE  /\ i \in Bits(Wider(a, b))
           /\ \E s, t, y, z : /\ i \in Xor(Fill(a, s), Fill(b, t)).val
                              /\ i \notin Xor(Fill(a, y), Fill(b, z)).val
<1>1. i \in Bits(Wider(a, b))
  BY BitwiseMask
<1>2. i \in a.mask \cup b.mask
  BY <1>1, XorBits
<1> DEFINE X(s, t) == i \in Xor(Fill(a, s), Fill(b, t)).val
<1>3. \A s, t : X(s, t) <=> ~(i \in Fill(a, s).val <=> i \in Fill(b, t).val)
  BY <1>1, XorBits, FillWider, FillBits
<1> HIDE DEF X
<1>4. CASE i \in a.mask
  <2>1. i \in Fill(a, {i}).val /\ i \notin Fill(a, {}).val
    BY <1>4, ValueBits DEF Fill
  <2>2. X({i}, {}) <=> ~X({}, {})
    BY <1>3, <2>1
  <2>3. \E s, t, y, z : X(s, t) /\ ~X(y, z)
    BY <2>2
  <2> QED
    BY <1>1, <2>3 DEF X
<1>5. CASE i \in b.mask
  <2>1. i \in Fill(b, {i}).val /\ i \notin Fill(b, {}).val
    BY <1>5, ValueBits DEF Fill
  <2>2. X({}, {i}) <=> ~X({}, {})
    BY <1>3, <2>1
  <2>3. \E s, t, y, z : X(s, t) /\ ~X(y, z)
    BY <2>2
  <2> QED
    BY <1>1, <2>3 DEF X
<1> QED
  BY <1>2, <1>4, <1>5

LEMMA XnorOpen ==
    ASSUME NEW a \in Values, NEW b \in Values, NEW i \in Invert(Xor(a, b)).mask
    PROVE  \E s, t, y, z : ShowsTwo("~^", a, b, s, t, y, z, i)
<1>1. i \in Xor(a, b).mask
  BY DEF Invert, Value
<1>2. PICK s, t, y, z : /\ i \in Xor(Fill(a, s), Fill(b, t)).val
                        /\ i \notin Xor(Fill(a, y), Fill(b, z)).val
  BY <1>1, XorOpen
<1>3. i \in Bits(Wider(a, b))
  BY <1>1, XorOpen
<1>4. \A x : x.mask = {} /\ x.width = Wider(a, b) => (i \in Invert(x).val <=> i \notin x.val)
  BY <1>3 DEF Invert, Value
<1>5. \A m, n : Xor(Fill(a, m), Fill(b, n)).mask = {} /\ Xor(Fill(a, m), Fill(b, n)).width = Wider(a, b)
  <2>1. \A c, d : c.mask = {} /\ d.mask = {} => Xor(c, d).mask = {} /\ Xor(c, d).width = Wider(c, d)
    BY DEF Xor, Value
  <2> QED
    BY <2>1, FillBits, FillWider
<1>6. /\ i \notin Invert(Xor(Fill(a, s), Fill(b, t))).val
      /\ i \in Invert(Xor(Fill(a, y), Fill(b, z))).val
  BY <1>2, <1>4, <1>5
<1> QED
  BY <1>6, Apps DEF ShowsTwo

\* Operands that no known bit tells apart can be made equal and, if one has an
\* x, made to differ.
LEMMA EqualOpen ==
    ASSUME NEW op \in EqualOps, NEW a \in Values, NEW b \in Values, NEW i \in Equal(op, a, b).mask
    PROVE  \E s, t, y, z : ShowsTwo(op, a, b, s, t, y, z, i)
<1>1. /\ Differ(a.val, b.val) \subseteq a.mask \cup b.mask
      /\ a.mask # {} \/ b.mask # {}
      /\ Equal(op, a, b) = AllX(1)
  BY TruthBits DEF Equal, Undefined
<1>2. i = 0
  BY <1>1, TruthBits
<1> DEFINE E(s, t) == Equal(op, Fill(a, s), Fill(b, t))
<1>3. \A s, t : /\ Fill(a, s).val = Fill(b, t).val => E(s, t) = Truth(op = "==")
                /\ Fill(a, s).val # Fill(b, t).val => E(s, t) = Truth(op = "!=")
  <2> SUFFICES ASSUME NEW s, NEW t
               PROVE  /\ Fill(a, s).val = Fill(b, t).val => E(s, t) = Truth(op = "==")
                      /\ Fill(a, s).val # Fill(b, t).val => E(s, t) = Truth(op = "!=")
    OBVIOUS
  <2> DEFINE c == Fill(a, s)
             d == Fill(b, t)
  <2>1. c.mask = {} /\ d.mask = {}
    BY DEF Fill
  <2> HIDE DEF c, d
  <2>2. Differ(c.val, d.val) \ (c.mask \cup d.mask) # {} <=> c.val # d.val
    BY <2>1 DEF Differ
  <2>3. /\ c.val = d.val => Equal(op, c, d) = Truth(op = "==")
        /\ c.val # d.val => Equal(op, c, d) = Truth(op = "!=")
    BY <2>1, <2>2 DEF Equal, Undefined
  <2> QED
    BY <2>3 DEF c, d
<1>4. Fill(a, b.val).val = Fill(b, a.val).val
  BY <1>1, ValueBits DEF Fill, Differ
<1>5. \E y, z : Fill(a, y).val # Fill(b, z).val
  <2>1. CASE a.mask # {}
    <3>1. Fill(a, a.mask).val # Fill(a, {}).val
      BY <2>1, ValueBits DEF Fill
    <3> QED
      BY <3>1
  <2>2. CASE b.mask # {}
    <3>1. Fill(b, b.mask).val # Fill(b, {}).val
      BY <2>2, ValueBits DEF Fill
    <3> QED
      BY <3>1
  <2> QED
    BY <1>1, <2>1, <2>2
<1>6. PICK y, z : Fill(a, y).val # Fill(b, z).val
  BY <1>5
<1>7. E(b.val, a.val) = Truth(op = "==") /\ E(y, z) = Truth(op = "!=")
  BY <1>3, <1>4, <1>6
<1> HIDE DEF E
<1>8. CASE op = "=="
  <2>1. 0 \in E(b.val, a.val).val /\ 0 \notin E(y, z).val
    BY <1>7, <1>8, TruthBits
  <2>2. ShowsTwo(op, a, b, b.val, a.val, y, z, 0)
    BY <2>1, Apps DEF E, ShowsTwo
  <2> QED
    BY <1>2, <2>2
<1>9. CASE op = "!="
  <2>1. 0 \notin E(b.val, a.val).val /\ 0 \in E(y, z).val
    BY <1>7, <1>9, TruthBits
  <2>2. ShowsTwo(op, a, b, y, z, b.val, a.val, 0)
    BY <2>1, Apps DEF E, ShowsTwo
  <2> QED
    BY <1>2, <2>2
<1> QED
  BY <1>8, <1>9 DEF EqualOps

\* The logical operators on known operands: the skipped operand is not missed.
LEMMA LogicalKnown ==
    ASSUME NEW c, NEW d, c.mask = {}, d.mask = {}
    PROVE  /\ c.val # {} /\ d.val # {} => Logical("&&", c, d) = Truth(TRUE)
           /\ c.val = {} \/ d.val = {} => Logical("&&", c, d) = Truth(FALSE)
           /\ c.val # {} \/ d.val # {} => Logical("||", c, d) = Truth(TRUE)
           /\ c.val = {} /\ d.val = {} => Logical("||", c, d) = Truth(FALSE)
<1>1. (IsZero(c) <=> c.val = {}) /\ (IsZero(d) <=> d.val = {})
  BY DEF IsZero
<1> QED
  BY <1>1 DEF Logical, LogicalAnd, LogicalOr

\* Filled with zeros, and with ones.
LEMMA FillZero ==
    ASSUME NEW a
    PROVE  /\ Fill(a, {}).val = a.val
           /\ Fill(a, a.mask).val = a.val \cup a.mask
BY DEF Fill

LEMMA LogicalOpen ==
    ASSUME NEW op \in LogicalOps, NEW a \in Values, NEW b \in Values, NEW i \in Logical(op, a, b).mask
    PROVE  \E s, t, y, z : ShowsTwo(op, a, b, s, t, y, z, i)
<1>1. /\ Logical(op, a, b) = AllX(1)
      /\ op = "&&" => ~IsZero(a) /\ ~IsZero(b) /\ (a.val = {} \/ b.val = {})
      /\ op = "||" => a.val = {} /\ b.val = {} /\ ~(IsZero(a) /\ IsZero(b))
  <2>1. CASE op = "&&"
    <3>1. ~IsZero(a)
      BY <2>1, TruthBits DEF Logical, LogicalAnd
    <3>2. Logical(op, a, b) = LogicalAnd(a, b)
      BY <2>1, <3>1 DEF Logical
    <3> QED
      BY <2>1, <3>1, <3>2, TruthBits DEF LogicalAnd
  <2>2. CASE op = "||"
    <3>1. a.val = {}
      BY <2>2, TruthBits DEF Logical, LogicalOr
    <3>2. Logical(op, a, b) = LogicalOr(a, b)
      BY <2>2, <3>1 DEF Logical
    <3> QED
      BY <2>2, <3>1, <3>2, TruthBits DEF LogicalOr
  <2> QED
    BY <2>1, <2>2 DEF LogicalOps
<1>2. i = 0
  BY <1>1, TruthBits
<1> DEFINE c == Fill(a, a.mask)
           d == Fill(b, b.mask)
           e == Fill(a, {})
           f == Fill(b, {})
<1>3. /\ c.mask = {} /\ d.mask = {} /\ e.mask = {} /\ f.mask = {}
      /\ c.val = a.val \cup a.mask /\ d.val = b.val \cup b.mask /\ e.val = a.val /\ f.val = b.val
  BY FillBits, FillZero
<1> HIDE DEF c, d, e, f
<1>4. Logical(op, c, d) = Truth(TRUE) /\ Logical(op, e, f) = Truth(FALSE)
  <2>1. CASE op = "&&"
    <3>1. c.val # {} /\ d.val # {} /\ (e.val = {} \/ f.val = {})
      BY <1>1, <1>3, <2>1 DEF IsZero
    <3> QED
      BY <1>3, <2>1, <3>1, LogicalKnown
  <2>2. CASE op = "||"
    <3>1. (c.val # {} \/ d.val # {}) /\ e.val = {} /\ f.val = {}
      BY <1>1, <1>3, <2>2 DEF IsZero
    <3> QED
      BY <1>3, <2>2, <3>1, LogicalKnown
  <2> QED
    BY <2>1, <2>2 DEF LogicalOps
<1>5. ShowsTwo(op, a, b, a.mask, b.mask, {}, {}, 0)
  BY <1>4, TruthBits, Apps DEF ShowsTwo, c, d, e, f
<1> QED
  BY <1>2, <1>5

LEMMA PreciseOpen ==
    ASSUME NEW op \in PreciseOps, NEW a \in Values, NEW b \in Values, NEW i \in App(op, a, b).mask
    PROVE  \E s, t, y, z : ShowsTwo(op, a, b, s, t, y, z, i)
<1>1. CASE op = "&"
  BY <1>1, Apps, AndOpen
<1>2. CASE op = "|"
  BY <1>2, Apps, OrOpen
<1>3. CASE op = "^"
  <2>1. PICK s, t, y, z : /\ i \in Xor(Fill(a, s), Fill(b, t)).val
                          /\ i \notin Xor(Fill(a, y), Fill(b, z)).val
    BY <1>3, Apps, XorOpen
  <2>2. ShowsTwo(op, a, b, s, t, y, z, i)
    BY <1>3, <2>1, Apps DEF ShowsTwo
  <2> QED
    BY <2>2
<1>4. CASE op = "~^"
  BY <1>4, Apps, XnorOpen
<1>5. CASE op \in EqualOps
  BY <1>5, Apps, EqualOpen
<1>6. CASE op \in LogicalOps
  BY <1>6, Apps, LogicalOpen
<1> QED
  BY <1>1, <1>2, <1>3, <1>4, <1>5, <1>6 DEF PreciseOps, EqualOps, LogicalOps

\* What the operators of the property say of any value.
LEMMA OpenIfX ==
    ASSUME TypeOK
    PROVE  XOnlyIfOpen
<1>1. seen \in Values
  BY DEF TypeOK, Values, WellFormed
<1>2. ASSUME NEW op \in PreciseOps, NEW b \in Values, NEW i \in App(op, seen, b).mask
      PROVE  /\ \E c \in Concrete(seen), d \in Concrete(b) : i \in App(op, c, d).val
             /\ \E c \in Concrete(seen), d \in Concrete(b) : i \notin App(op, c, d).val
  <2>1. PICK s, t, y, z : ShowsTwo(op, seen, b, s, t, y, z, i)
    BY <1>1, <1>2, PreciseOpen
  <2>2. /\ Fill(seen, s) \in Concrete(seen) /\ Fill(seen, y) \in Concrete(seen)
        /\ Fill(b, t) \in Concrete(b) /\ Fill(b, z) \in Concrete(b)
    BY <1>1, FillConcrete
  <2> QED
    BY <2>1, <2>2 DEF ShowsTwo
<1>3. ASSUME NEW op \in UnaryOps \ {"-"}, NEW i \in Unary(op, seen).mask
      PROVE  /\ \E c \in Concrete(seen) : i \in Unary(op, c).val
             /\ \E c \in Concrete(seen) : i \notin Unary(op, c).val
  <2>1. PICK s, z : Shows(op, seen, s, z, i)
    BY <1>1, <1>3, UnaryOpen
  <2>2. Fill(seen, s) \in Concrete(seen) /\ Fill(seen, z) \in Concrete(seen)
    BY <1>1, FillConcrete
  <2> QED
    BY <2>1, <2>2 DEF Shows
<1>4. \A op \in PreciseOps, b \in Values : \A i \in App(op, seen, b).mask :
          BothPossible({App(op, c, d) : c \in Concrete(seen), d \in Concrete(b)}, i)
  BY <1>2 DEF BothPossible
<1>5. \A op \in UnaryOps \ {"-"} : \A i \in Unary(op, seen).mask :
          BothPossible({Unary(op, c) : c \in Concrete(seen)}, i)
  BY <1>3 DEF BothPossible
<1>6. XOnlyIfOpen <=>
          /\ \A op \in UnaryOps \ {"-"} : Unary(op, seen).mask # {} => \A i \in Unary(op, seen).mask :
                 BothPossible({Unary(op, c) : c \in Concrete(seen)}, i)
          /\ \A op \in PreciseOps, b \in Values : App(op, seen, b).mask # {} =>
                 \A i \in App(op, seen, b).mask :
                     BothPossible({App(op, c, d) : c \in Concrete(seen), d \in Concrete(b)}, i)
  BY DEF XOnlyIfOpen, BothPossible, App
<1> QED
  BY <1>4, <1>5, <1>6 DEF BothPossible

\* For every width, the operators the code calls precise leave a bit x only if
\* the x bits of the operands can make it 0 and can make it 1.
THEOREM XOnlyIfOpenHolds == Spec => []XOnlyIfOpen
BY ValuesEncoded, OpenIfX, PTL
=============================================================================
