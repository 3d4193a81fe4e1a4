----------------------------- MODULE FourState -----------------------------
(***************************************************************************)
(* The four-state values of sim/value.py (x and z share one encoding) and  *)
(* the operators sim/evaluator.py applies to them.  An integer that the    *)
(* code uses bit by bit is the set of its 1 positions.  One expression is  *)
(* evaluated twice from the leaves up: in run "seen" some bits of the      *)
(* leaves are x, in run "known" some of those bits are known.              *)
(***************************************************************************)
EXTENDS Integers, FiniteSets, FiniteSetsExt

CONSTANTS
    MaxWidth,             \* bound on the width of a subexpression
    MaxCount              \* bound on replication counts and out-of-range distances

ASSUME WidthAssumption == MaxWidth \in Nat \ {0} /\ MaxCount \in Nat

VARIABLES seen, known

vars == <<seen, known>>

Bits(w) == 0 .. w - 1
Nums == [s \in SUBSET Bits(MaxWidth) |-> MapThenSumSet(LAMBDA i : 2 ^ i, s)]
Num(s) == Nums[s]
Wider(a, b) == IF a.width >= b.width THEN a.width ELSE b.width

----------------------------------------------------------------------------
(* Construction and width.                                                 *)

\* Fault: bits above the width stay.
ValueUncut(val, w, mask) == [val |-> val \ mask, mask |-> mask \cap Bits(w), width |-> w]

\* Value.__init__.
Value(val, w, mask) == [val |-> (val \cap Bits(w)) \ mask, mask |-> mask \cap Bits(w), width |-> w]
FromInt(n, w) == Value({i \in Bits(w) : (n \div 2 ^ i) % 2 = 1}, w, {})
AllX(w) == Value({}, w, Bits(w))
Truth(b) == Value(IF b THEN {0} ELSE {}, 1, {})

AsSigned(a) == Num(a.val) - (IF a.width - 1 \in a.val THEN 2 ^ a.width ELSE 0)

Resize(a, w) == Value(a.val, w, a.mask)
SignExtend(a, w) ==
    LET ext == IF w > a.width THEN a.width .. w - 1 ELSE {}
        sign == a.width - 1
    IN Value(a.val \cup (IF sign \in a.val THEN ext ELSE {}), w,
             a.mask \cup (IF sign \in a.mask THEN ext ELSE {}))

\* How eval() brings an operand, or a result, to the width of its context; 0
\* stands for no context.
Fitted(a, w, signed) ==
    IF w \in {0, a.width} THEN a ELSE IF signed THEN SignExtend(a, w) ELSE Resize(a, w)

\* ... and the result of a concatenation or selection, which is only widened.
Widened(a, w, signed) == IF a.width < w THEN Fitted(a, w, signed) ELSE a

----------------------------------------------------------------------------
(* Arithmetic: one x in an operand makes the whole result x.               *)

Undefined(a, b) == a.mask # {} \/ b.mask # {}

\* _verilog_pow; None of the code is "x" here.
PowDefined(base, exp) == exp >= 0 \/ base # 0
VerilogPow(base, exp) ==
    IF exp = 0 THEN 1
    ELSE IF exp > 0 THEN base ^ exp
    ELSE IF base \in {-1, 1} THEN (IF exp % 2 = 1 THEN base ELSE 1) ELSE 0

\* int(a / b): exact up to the 53 bits of a double's significand.
Abs(n) == IF n < 0 THEN -n ELSE n
TruncDiv(m, n) == IF (m < 0) = (n < 0) THEN Abs(m) \div Abs(n) ELSE -(Abs(m) \div Abs(n))

Calculable(op, m, n) ==
    /\ op \in {"/", "%"} => n # 0
    /\ op = "**" => PowDefined(m, n)
Calculate(op, m, n) ==
    CASE op = "+" -> m + n
      [] op = "-" -> m - n
      [] op = "*" -> m * n
      [] op = "/" -> TruncDiv(m, n)
      [] op = "%" -> m - n * TruncDiv(m, n)
      [] op = "**" -> VerilogPow(m, n)

\* __add__ .. __pow__, _eval_signed_divmod, _eval_signed_pow.
Signedly(op, signed) == signed /\ op \in {"/", "%", "**"}
Number(a, signed) == IF signed THEN AsSigned(a) ELSE Num(a.val)
ResultWidth(op, a, b) == IF op = "**" THEN a.width ELSE Wider(a, b)
Arith(op, a, b, signed) ==
    LET w == ResultWidth(op, a, b)
        m == Number(a, Signedly(op, signed))
        n == Number(b, Signedly(op, signed))
    IN IF Undefined(a, b) \/ ~Calculable(op, m, n) THEN AllX(w)
       ELSE FromInt(Calculate(op, m, n), w)
Negate(a) == IF a.mask # {} THEN AllX(a.width) ELSE FromInt(-Num(a.val), a.width)

----------------------------------------------------------------------------
(* Bitwise operators: a known bit that decides the result hides an x.      *)

Differ(s, t) == (s \ t) \cup (t \ s)

And(a, b) ==
    LET w == Wider(a, b)
        zero == {i \in Bits(w) : i \notin a.val \cup a.mask \/ i \notin b.val \cup b.mask}
        m == (a.mask \cup b.mask) \ zero
    IN Value(a.val \cap b.val, w, m)
Or(a, b) == Value(a.val \cup b.val, Wider(a, b), (a.mask \cup b.mask) \ (a.val \cup b.val))
Xor(a, b) == Value(Differ(a.val, b.val), Wider(a, b), a.mask \cup b.mask)
Invert(a) == Value(Bits(a.width) \ a.val, a.width, a.mask)
Bitwise(op, a, b) ==
    CASE op = "&" -> And(a, b)
      [] op = "|" -> Or(a, b)
      [] op = "^" -> Xor(a, b)
      [] op = "~^" -> Invert(Xor(a, b))

----------------------------------------------------------------------------
(* Shifts.                                                                 *)

Up(s, n) == {i + n : i \in s}
Down(s, n) == {i - n : i \in s} \cap Nat

ShiftLeft(a, n) ==
    IF n >= a.width THEN Value({}, a.width, {}) ELSE Value(Up(a.val, n), a.width, Up(a.mask, n))
ShiftRight(a, n) ==
    IF n >= a.width THEN Value({}, a.width, {}) ELSE Value(Down(a.val, n), a.width, Down(a.mask, n))

\* ">>>": from a shift by the width on only the sign is left.
ShiftArith(a, n) ==
    IF n >= a.width
    THEN IF a.width - 1 \in a.mask THEN AllX(a.width)
         ELSE Value(IF a.width - 1 \in a.val THEN Bits(a.width) ELSE {}, a.width, {})
    ELSE Resize(ShiftRight(SignExtend(a, a.width + n), n), a.width)
Shift(op, a, b) ==
    IF b.mask # {} THEN AllX(a.width)
    ELSE LET n == Num(b.val)
         IN CASE op = "<<" -> ShiftLeft(a, n)
              [] op = ">>" -> ShiftRight(a, n)
              [] op = ">>>" -> ShiftArith(a, n)

----------------------------------------------------------------------------
(* Comparisons, reductions and logical operators: one bit.                 *)

\* _cmp for == and !=: a known bit that differs settles it.
Equal(op, a, b) ==
    IF Differ(a.val, b.val) \ (a.mask \cup b.mask) # {} THEN Truth(op = "!=")
    ELSE IF Undefined(a, b) THEN AllX(1) ELSE Truth(op = "==")

\* _cmp for the rest, and _eval_signed_cmp.
Ordered(op, a, b, signed) ==
    LET m == Number(a, signed)
        n == Number(b, signed)
    IN IF Undefined(a, b) THEN AllX(1)
       ELSE Truth(CASE op = "<" -> m < n
                    [] op = "<=" -> m <= n
                    [] op = ">" -> m > n
                    [] op = ">=" -> m >= n)

\* Fault: a known 0 does not hide an x.
ReduceAndStrict(a) == IF a.mask # {} THEN AllX(1) ELSE Truth(a.val = Bits(a.width))

ReduceAnd(a) ==
    IF a.val \cup a.mask # Bits(a.width) THEN Truth(FALSE)
    ELSE IF a.mask # {} THEN AllX(1) ELSE Truth(TRUE)
ReduceOr(a) ==
    IF a.val # {} THEN Truth(TRUE) ELSE IF a.mask # {} THEN AllX(1) ELSE Truth(FALSE)
ReduceXor(a) == IF a.mask # {} THEN AllX(1) ELSE Truth(Cardinality(a.val) % 2 = 1)
Unary(op, a) ==
    CASE op = "~" -> Invert(a)
      [] op = "-" -> Negate(a)
      [] op = "&" -> ReduceAnd(a)
      [] op = "|" -> ReduceOr(a)
      [] op = "^" -> ReduceXor(a)
      [] op = "~&" -> Invert(ReduceAnd(a))
      [] op \in {"!", "~|"} -> Invert(ReduceOr(a))
      [] op = "~^" -> Invert(ReduceXor(a))

IsZero(a) == a.val = {} /\ a.mask = {}
LogicalAnd(a, b) ==
    IF IsZero(a) \/ IsZero(b) THEN Truth(FALSE)
    ELSE IF a.val # {} /\ b.val # {} THEN Truth(TRUE) ELSE AllX(1)
LogicalOr(a, b) ==
    IF a.val # {} \/ b.val # {} THEN Truth(TRUE)
    ELSE IF IsZero(a) /\ IsZero(b) THEN Truth(FALSE) ELSE AllX(1)

\* eval() skips the right operand when the left one decides.
Skipped == Value({}, 1, {})
Logical(op, a, b) ==
    CASE op = "&&" -> LogicalAnd(a, IF IsZero(a) THEN Skipped ELSE b)
      [] op = "||" -> LogicalOr(a, IF a.val # {} THEN Skipped ELSE b)

----------------------------------------------------------------------------
(* Concatenation, selection and part assignment.                           *)

Concat(a, b) ==
    Value(Up(a.val, b.width) \cup b.val, a.width + b.width, Up(a.mask, b.width) \cup b.mask)
Copies(s, w, n) == {k * w + i : k \in 0 .. n - 1, i \in s}
Replicate(a, n) == Value(Copies(a.val, a.width, n), a.width * n, Copies(a.mask, a.width, n))

\* stream_reverse: chunks of s bits, counted from the top, change places.
Chunk(a, s, i) == (a.width - 1 - i) \div s
ChunkLow(a, s, k) == IF (k + 1) * s > a.width THEN 0 ELSE a.width - (k + 1) * s
Moved(a, s, i) == LET k == Chunk(a, s, i) IN k * s + i - ChunkLow(a, s, k)
StreamReverse(a, s) ==
    Value({Moved(a, s, i) : i \in a.val}, a.width, {Moved(a, s, i) : i \in a.mask})

\* __getitem__ with a slice: bits outside the value read x.
Select(a, lsb, w) ==
    LET outside == {i \in Bits(w) : lsb + i \notin Bits(a.width)}
    IN Value({i \in Bits(w) : lsb + i \in a.val}, w,
             {i \in Bits(w) : lsb + i \in a.mask} \cup outside)

\* PartSelect with an index expression ("-:" when down), and BitSelect (w = 1).
PartSelect(a, index, w, signed, down) ==
    IF index.mask # {} THEN AllX(w)
    ELSE Select(a, Number(index, signed) - (IF down THEN w - 1 ELSE 0), w)

\* set_range: the part of the range outside the value is dropped.
SetRange(a, lsb, w, part) ==
    LET target == {i \in Bits(a.width) : i - lsb \in Bits(w)}
        moved(s) == {i \in target : i - lsb \in s}
    IN Value((a.val \ target) \cup moved(part.val), a.width, (a.mask \ target) \cup moved(part.mask))

\* Fault: two x agree, their encodings being equal.
MergeSame(a, b) ==
    LET agree == Bits(Wider(a, b)) \ (Differ(a.val, b.val) \cup Differ(a.mask, b.mask))
    IN Value(a.val \cap b.val, Wider(a, b), Bits(Wider(a, b)) \ agree)

\* _merge_xz and the conditional operator.
MergeXz(a, b) ==
    LET agree == Bits(Wider(a, b)) \ (Differ(a.val, b.val) \cup a.mask \cup b.mask)
    IN Value(a.val \cap b.val, Wider(a, b), Bits(Wider(a, b)) \ agree)
Ternary(c, t, f) ==
    LET cond == ReduceOr(c)
    IN IF cond.mask # {} THEN MergeXz(t, f) ELSE IF cond.val # {} THEN t ELSE f

----------------------------------------------------------------------------
(* The two runs.                                                           *)

Widths == 1 .. MaxWidth
WellFormed(a) ==
    /\ a \in [val : SUBSET Bits(MaxWidth), mask : SUBSET Bits(MaxWidth), width : Widths]
    /\ a.val \subseteq Bits(a.width) /\ a.mask \subseteq Bits(a.width)
    /\ a.val \cap a.mask = {}
Values == {a \in [val : SUBSET Bits(MaxWidth), mask : SUBSET Bits(MaxWidth), width : Widths] :
              WellFormed(a)}

\* c is a with some of its x bits known.
Refines(a, c) == a.width = c.width /\ c.mask \subseteq a.mask /\ c.val \ a.mask = a.val
Operands == {p \in Values \X Values : Refines(p[1], p[2])}

ArithOps == {"+", "-", "*", "/", "%", "**"}
BitwiseOps == {"&", "|", "^", "~^"}
ShiftOps == {"<<", ">>", ">>>"}
EqualOps == {"==", "!="}
OrderOps == {"<", "<=", ">", ">="}
UnaryOps == {"~", "-", "&", "|", "^", "~&", "~|", "~^", "!"}
LogicalOps == {"&&", "||"}

\* eval() of a BinaryOp in a context of the given width: which operands are
\* widened to which width, and how.  ext is the signedness of the context,
\* signed that of the operands.
Larger(m, n) == IF m >= n THEN m ELSE n
Target(op, a, b, width) ==
    CASE op \in EqualOps \cup OrderOps -> Wider(a, b)
      [] op \in ShiftOps \cup {"**"} -> Larger(width, a.width)
      [] op \in (ArithOps \ {"**"}) \cup BitwiseOps -> Larger(width, Wider(a, b))
      [] op \in LogicalOps -> 0
ExtendsSigned(op, ext, signed) == IF op \in EqualOps \cup OrderOps THEN signed ELSE ext
Left(op, a, b, width, ext, signed) ==
    Fitted(a, Target(op, a, b, width), ExtendsSigned(op, ext, signed))
Right(op, a, b, width, ext, signed) ==
    IF op \in ShiftOps \cup {"**"} THEN b
    ELSE Fitted(b, Target(op, a, b, width), ExtendsSigned(op, ext, signed))
Apply(op, l, r, ext, signed) ==
    CASE op \in ArithOps -> Arith(op, l, r, signed)
      [] op \in BitwiseOps -> Bitwise(op, l, r)
      [] op \in ShiftOps -> Shift(IF op = ">>>" /\ ~ext THEN ">>" ELSE op, l, r)
      [] op \in EqualOps -> Equal(op, l, r)
      [] op \in OrderOps -> Ordered(op, l, r, signed)
      [] op \in LogicalOps -> Logical(op, l, r)
BinaryOp(op, a, b, width, ext, signed) ==
    Fitted(Apply(op, Left(op, a, b, width, ext, signed), Right(op, a, b, width, ext, signed),
                 ext, signed), width, ext)

\* eval() of a UnaryOp: ~ and - work at the width of the context.
UnaryOp(op, a, width, ext) ==
    IF op \in {"~", "-"} THEN Unary(op, Fitted(a, Larger(width, a.width), ext))
    ELSE Fitted(Unary(op, a), Larger(width, 1), ext)

Init == \E p \in Operands : seen = p[1] /\ known = p[2]

EvalBinary(op) ==
    \E p \in Operands, width \in 0 .. MaxWidth, ext, signed \in BOOLEAN :
        /\ seen' = BinaryOp(op, seen, p[1], width, ext, signed)
        /\ known' = BinaryOp(op, known, p[2], width, ext, signed)

EvalUnary(op) ==
    \E width \in 0 .. MaxWidth, ext \in BOOLEAN :
        /\ seen' = UnaryOp(op, seen, width, ext)
        /\ known' = UnaryOp(op, known, width, ext)

\* The branches have the same width: that of the wider one, or the context's.
EvalTernary ==
    \E t, f \in Operands :
        /\ t[1].width = f[1].width
        /\ seen' = Ternary(seen, t[1], f[1])
        /\ known' = Ternary(known, t[2], f[2])

Contexts == [width : 0 .. MaxWidth, ext : BOOLEAN]
Becomes(a, c, ctx) ==
    seen' = Widened(a, ctx.width, ctx.ext) /\ known' = Widened(c, ctx.width, ctx.ext)

EvalConcat ==
    \E p \in Operands, ctx \in Contexts :
        /\ seen.width + p[1].width <= MaxWidth
        /\ Becomes(Concat(seen, p[1]), Concat(known, p[2]), ctx)

EvalReplicate ==
    \E n \in 1 .. MaxCount, ctx \in Contexts :
        /\ seen.width * n <= MaxWidth
        /\ Becomes(Replicate(seen, n), Replicate(known, n), ctx)

EvalStreamReverse ==
    \E s \in 1 .. MaxWidth, ctx \in Contexts :
        Becomes(StreamReverse(seen, s), StreamReverse(known, s), ctx)

EvalRangeSelect ==
    \E lsb \in -MaxCount .. MaxWidth + MaxCount, w \in Widths, ctx \in Contexts :
        Becomes(Select(seen, lsb, w), Select(known, lsb, w), ctx)

\* The operand is selected from, at the place the value evaluated so far gives.
EvalPartSelect ==
    \E p \in Operands, w \in Widths, signed, down \in BOOLEAN, ctx \in Contexts :
        Becomes(PartSelect(p[1], seen, w, signed, down), PartSelect(p[2], known, w, signed, down), ctx)

\* Assignment to a range of a variable.
AssignRange ==
    \E p \in Operands, lsb \in -MaxCount .. MaxWidth + MaxCount, w \in Widths :
        seen' = SetRange(seen, lsb, w, p[1]) /\ known' = SetRange(known, lsb, w, p[2])

Next ==
    \/ \E op \in ArithOps \cup BitwiseOps \cup ShiftOps \cup EqualOps \cup OrderOps \cup LogicalOps : EvalBinary(op)
    \/ \E op \in UnaryOps : EvalUnary(op)
    \/ EvalTernary \/ EvalConcat \/ EvalReplicate \/ EvalStreamReverse
    \/ EvalRangeSelect \/ EvalPartSelect \/ AssignRange

Spec == Init /\ [][Next]_vars

----------------------------------------------------------------------------

\* Every value keeps the encoding of Value: no bit above the width, no bit
\* that is both 1 and x.
TypeOK == WellFormed(seen) /\ WellFormed(known)

\* A bit the simulator computes as 0 or 1 from inputs with x bits is that bit
\* whatever the x bits stand for: no operator invents knowledge.
KnownStaysTrue == Refines(seen, known)

\* ... and the operators the code calls precise make a bit x only if the x
\* bits of the operands can make it 0 and can make it 1.
Concrete(a) == {c \in Values : c.mask = {} /\ Refines(a, c)}
BothPossible(results, i) ==
    /\ \E v \in results : i \in v.val
    /\ \E v \in results : i \notin v.val
PreciseOps == {"&", "|", "^", "~^", "==", "!=", "&&", "||"}
XOnlyIfOpen ==
    LET cs == Concrete(seen) IN
    /\ \A op \in UnaryOps \ {"-"} :
          LET v == Unary(op, seen) IN
          v.mask # {} => LET results == {Unary(op, c) : c \in cs}
                         IN \A i \in v.mask : BothPossible(results, i)
    /\ \A op \in PreciseOps, b \in Values :
          LET v == Apply(op, seen, b, FALSE, FALSE) IN
          v.mask # {} => LET results == {Apply(op, c, d, FALSE, FALSE) : c \in cs, d \in Concrete(b)}
                         IN \A i \in v.mask : BothPossible(results, i)
=============================================================================
