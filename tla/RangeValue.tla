----------------------------- MODULE RangeValue -----------------------------
(***************************************************************************)
(* The abstract domain of the value range analysis (ValueRange.cpp): a     *)
(* value is unknown, any value (infinity), or lies between two constants.  *)
(* Constants are written as the integers their bits denote when signed;    *)
(* `lw' and `w' are the widths of the lower and of the upper APInt.  The   *)
(* analysis computes in 64-bit arithmetic whatever the width of the        *)
(* program's integers: WideBits.                                           *)
(***************************************************************************)
EXTENDS Integers, Sequences, FiniteSets, FiniteSetsExt

CONSTANT WideBits

ASSUME WideBitsAssumption == WideBits \in Nat \ {0}

-----------------------------------------------------------------------------
(* Fixed-width integers (llvm::APInt).                                      *)

SMin(w) == -(2^(w - 1))
SMax(w) == 2^(w - 1) - 1

\* The signed and the unsigned reading of the low w bits of n.
Signed(n, w)   == ((n - SMin(w)) % 2^w) + SMin(w)
Unsigned(n, w) == n % 2^w

Overflows(n) == n \notin SMin(WideBits)..SMax(WideBits)

Magnitude(n) == IF n < 0 THEN -n ELSE n

\* Division truncates towards zero.
Quotient(m, n) ==
    LET q == Magnitude(m) \div Magnitude(n) IN IF (m < 0) = (n < 0) THEN q ELSE -q

\* APInt::abs leaves the least integer alone.
AbsWide(n) == Signed(Magnitude(n), WideBits)

-----------------------------------------------------------------------------
(* RangeValue and its operators.                                            *)

Unknown  == [kind |-> "unknown",  l |-> 0, r |-> 0, lw |-> 0, w |-> 0]
Infinity == [kind |-> "infinity", l |-> 0, r |-> 0, lw |-> 0, w |-> 0]
makeRange(l, r, w) == [kind |-> "constant", l |-> l, r |-> r, lw |-> w, w |-> w]

isConstant(v) == v.kind = "constant"

\* operator&: unknown and infinity give way to the other operand.
Intersection(a, b) ==
    CASE a = Unknown  -> b
      [] a # Unknown /\ b = Unknown -> a
      [] a = Infinity /\ b # Unknown -> b
      [] a \notin {Unknown, Infinity} /\ b = Infinity -> a
      [] OTHER -> LET lower == IF a.l < b.l THEN b ELSE a
                      upper == IF a.r > b.r THEN b ELSE a
                  IN  [makeRange(lower.l, upper.r, upper.w) EXCEPT !.lw = lower.lw]

\* operator|: unknown absorbs everything, infinity every range.  Two ranges have
\* bounds of one width here.
MeetPair(a, b) ==
    CASE Unknown \in {a, b} -> Unknown
      [] Unknown \notin {a, b} /\ Infinity \in {a, b} -> Infinity
      [] OTHER -> makeRange(Min({a.l, b.l}), Max({a.r, b.r}), a.w)

\* Meet::operator() accumulates from a default constructed AbstractValue.
MeetSkipsUnknown(a, b) == IF a = Unknown THEN b ELSE IF b = Unknown THEN a ELSE MeetPair(a, b)
Meet(a, b) == MeetPair(MeetPair(Unknown, a), b)

-----------------------------------------------------------------------------
(* getRangeForConditionalBranch: what the branch on "variable pred c" (or  *)
(* "c pred variable", ~first) says of the variable in the successor taken  *)
(* when the comparison is `taken'.                                          *)

Predicates == {"EQ", "NE", "UGT", "UGE", "ULT", "ULE", "SGT", "SGE", "SLT", "SLE"}

\* The eight orderings reduce to: which side of c, and whether c is included.
IsSigned(p)  == p \in {"SGT", "SGE", "SLT", "SLE"}
IsGreater(p) == p \in {"UGT", "UGE", "SGT", "SGE"}
IsStrict(p)  == p \in {"UGT", "ULT", "SGT", "SLT"}

\* The bounds of the type.  The unsigned maximum is the all-ones pattern; the
\* signed minimum is only taken for a negative constant.
UpperOf(p, w)    == IF IsSigned(p) THEN SMax(w) ELSE -1
LowerOf(p, c, w) == IF IsSigned(p) /\ c < 0 THEN SMin(w) ELSE 0

getRangeForConditionalBranch(p, c, w, taken, first) ==
    LET above  == (IsGreater(p) = taken) = first    \* the variable is above c
        strict == IsStrict(p) = taken
        lo == IF strict THEN Signed(c + 1, w) ELSE c
        hi == IF strict THEN Signed(c - 1, w) ELSE c
    IN  CASE p \in {"EQ", "NE"} ->
                IF (p = "EQ") = taken THEN makeRange(c, c, w) ELSE Infinity
          [] p \notin {"EQ", "NE"} /\ above -> makeRange(lo, UpperOf(p, w), w)
          [] OTHER -> makeRange(LowerOf(p, c, w), hi, w)

\* The comparison itself, on the bits of x and c.
Holds(p, x, c, w) ==
    LET a == IF IsSigned(p) THEN x ELSE Unsigned(x, w)
        b == IF IsSigned(p) THEN c ELSE Unsigned(c, w)
    IN  CASE p = "EQ" -> x = c
          [] p = "NE" -> x # c
          [] OTHER -> \/ ~IsStrict(p) /\ a = b
                      \/ IF IsGreater(p) THEN a > b ELSE a < b
=============================================================================
