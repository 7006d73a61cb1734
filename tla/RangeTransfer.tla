---------------------------- MODULE RangeTransfer ----------------------------
(***************************************************************************)
(* RangeTransfer of ValueRange.cpp: what one instruction does to the       *)
(* abstract state, a map from the llvm::Values seen so far to ranges.  An  *)
(* llvm::Value is a member of Key: the ConstantInts (Const, with their     *)
(* values and widths), the allocas, the calls of malloc (with their        *)
(* constant size, 0 when it is not constant) and other instructions.       *)
(* Stripped is Value::stripPointerCasts.                                   *)
(* DenseMap::operator[] creates a missing entry as unknown.                *)
(***************************************************************************)
EXTENDS RangeValue

CONSTANTS Key, Const, Alloca, Malloc, ConstVal, MallocSize, Width, Stripped

ASSUME KeyAssumption ==
    /\ Const \subseteq Key /\ Alloca \subseteq Key /\ Malloc \subseteq Key
    /\ Const \cap (Alloca \cup Malloc) = {}
    /\ ConstVal \in [Const -> Int] /\ Width \in [Key -> 1..WideBits]
    /\ MallocSize \in [Malloc -> Nat]
    /\ Stripped \in [Key -> Key] /\ \A k \in Const \cup Alloca \cup Malloc : Stripped[k] = k

\* A key with no entry in the map.
Absent == [kind |-> "absent", l |-> 0, r |-> 0, lw |-> 0, w |-> 0]
Empty  == [k \in Key |-> Absent]

Has(s, k) == s[k].kind # "absent"
Put(s, k, v) == [s EXCEPT ![k] = v]

\* state[k], which inserts an unknown entry when there is none.
At(s, k)    == IF Has(s, k) THEN s[k] ELSE Unknown
Touch(s, k) == Put(s, k, At(s, k))

ConstRange(c) == makeRange(ConstVal[c], ConstVal[c], Width[c])

\* getRangeFor: a ConstantInt is its own range and is not looked up.
getRangeFor(s, k) == IF k \in Const THEN ConstRange(k) ELSE At(s, k)
Looked(s, k)      == IF k \in Const THEN s ELSE Touch(s, k)

-----------------------------------------------------------------------------
(* evaluateBinOP and evaluateCast.                                          *)

\* A constant whose successor is a power of two.
masking(k) == k \in Const /\ \E n \in 0..(Width[k] - 1) : ConstVal[k] + 1 = 2^n

Wide(l, r) == makeRange(l, r, WideBits)

\* The hull of the four corner results; any of them overflowing gives up.
Corners(x, y, f(_, _)) ==
    {f(x.l, y.l), f(x.l, y.r), f(x.r, y.l), f(x.r, y.r)}
HullUnchecked(S) == Wide(Min(S), Max(S))
HullOf(S) == IF \E n \in S : Overflows(n) THEN Infinity ELSE Wide(Min(S), Max(S))

Product(m, n) == m * n

DivideRanges(x, y) ==
    IF y.l < 0 /\ y.r > 0
    THEN LET a == Max({AbsWide(x.l), AbsWide(x.r)}) IN Wide(Signed(-a, WideBits), a)
    ELSE IF 0 \in {y.l, y.r} THEN Infinity ELSE HullOf(Corners(x, y, Quotient))

UDivideRanges(x, y) ==
    LET udiv(m, n) == Signed(Unsigned(m, WideBits) \div Unsigned(n, WideBits), WideBits)
    IN  IF 0 \in {y.l, y.r} THEN Infinity ELSE Wide(udiv(x.r, y.l), udiv(x.l, y.r))

AddRanges(x, y) == IF Overflows(x.l + y.l) \/ Overflows(x.r + y.r)
                   THEN Infinity ELSE Wide(x.l + y.l, x.r + y.r)
SubSameSides(x, y) == IF Overflows(x.l - y.l) \/ Overflows(x.r - y.r)
                      THEN Infinity ELSE Wide(x.l - y.l, x.r - y.r)
SubRanges(x, y) == IF Overflows(x.l - y.r) \/ Overflows(x.r - y.l)
                   THEN Infinity ELSE Wide(x.l - y.r, x.r - y.l)

\* The lower bound of a masked value is a default constructed APInt: one bit.
MaskRange(c) == [makeRange(0, ConstVal[c], Width[c]) EXCEPT !.lw = 1]

evaluateBinOP(s, opcode, a, b) ==
    LET x == getRangeFor(s, a)
        y == getRangeFor(s, b)
        mask == IF masking(a) THEN a ELSE b
    IN  IF opcode = "And" /\ (masking(a) \/ masking(b))
        THEN MaskRange(mask)
        ELSE IF isConstant(x) /\ isConstant(y)
        THEN CASE opcode = "Add"  -> AddRanges(x, y)
               [] opcode = "Sub"  -> SubRanges(x, y)
               [] opcode = "Mul"  -> HullOf(Corners(x, y, Product))
               [] opcode = "SDiv" -> DivideRanges(x, y)
               [] opcode = "UDiv" -> UDivideRanges(x, y)
               [] OTHER -> Infinity
        ELSE IF Infinity \in {x, y} THEN Infinity ELSE Unknown

\* The constant folder applied to each bound.  castIsValid compares the width
\* of the bounds, which is 64 after arithmetic, with the destination's.
CastConst(op, n, from, to) == CASE op = "Trunc" -> Signed(n, to)
                                [] op = "ZExt"  -> Unsigned(n, from)
                                [] op = "SExt"  -> n
castIsValid(op, from, to) == IF op = "Trunc" THEN from > to ELSE from < to

evaluateCast(s, op, a, to) ==
    LET v == getRangeFor(s, a)
    IN  IF ~isConstant(v) THEN v
        ELSE IF ~(castIsValid(op, v.lw, to) /\ castIsValid(op, v.w, to)) THEN Infinity
        ELSE makeRange(CastConst(op, v.l, v.lw, to), CastConst(op, v.r, v.w, to), to)

-----------------------------------------------------------------------------
(* The handlers of stores, loads and GEPs.                                  *)

StoredRange(s, ptr, val) ==
    CASE Stripped[val] \in Malloc ->
            LET nbytes == MallocSize[Stripped[val]]
            IN  IF nbytes = 0 THEN Infinity ELSE makeRange(0, Signed(nbytes - 1, Width[val]), Width[val])
      [] Stripped[val] \notin Malloc /\ Has(s, val) /\ isConstant(s[val]) ->
            makeRange(0, Signed(s[val].r, Width[val]), Width[val])
      [] OTHER -> getRangeFor(s, val)

handleStore(s, ptr, val) ==
    IF Stripped[ptr] \notin Alloca THEN s
    ELSE LET t == Looked(s, val) IN Put(t, ptr, StoredRange(t, ptr, val))

handleLoad(s, dst, ptr) ==
    Put(s, dst, IF Stripped[ptr] \in Alloca /\ Has(s, ptr) THEN s[ptr] ELSE Infinity)

\* The room left behind the pointer, from the lower bounds of the indices; every
\* index counts elements of the type the GEP arrives at.
GEPKeepsRoom(s, base, idx, elem) == getRangeFor(s, base)
GEPRange(s, base, idx, elem) ==
    LET b == getRangeFor(s, base)
        low(n)  == getRangeFor(s, idx[n]).l
        known   == \A n \in DOMAIN idx : isConstant(getRangeFor(s, idx[n])) /\ low(n) >= 0
        scaled(n) == low(n) * elem
        offset  == Unsigned(MapThenSumSet(scaled, DOMAIN idx), WideBits)
        room    == Unsigned(b.r + 1, WideBits)
    IN  IF isConstant(b) /\ known /\ offset < room
        THEN Wide(0, Signed(room - offset - 1, WideBits)) ELSE Infinity

handleGEP(s, dst, base, idx, elem) ==
    LET ok(n)  == isConstant(getRangeFor(s, idx[n])) /\ getRangeFor(s, idx[n]).l >= 0
        looked == {base} \cup {idx[n] : n \in {m \in DOMAIN idx :
                        isConstant(getRangeFor(s, base)) /\ \A j \in 1..(m - 1) : ok(j)}}
        t == [k \in Key |-> IF k \in looked \ Const THEN At(s, k) ELSE s[k]]
    IN  Put(t, dst, GEPRange(s, base, idx, elem))

-----------------------------------------------------------------------------
(* RangeTransfer::operator().  A bitcast first records the size of the      *)
(* pointer it casts and is then evaluated like any other cast; its bounds,  *)
(* being integers, cannot be bitcast to a pointer.                          *)

BitCast(s, dst, a) ==
    LET v == getRangeFor(s, a)
    IN  Put(Looked(s, a), dst, IF isConstant(v) THEN Infinity ELSE v)

Transfer(i, s) ==
    CASE i.op = "store"   -> handleStore(s, i.ptr, i.val)
      [] i.op = "load"    -> handleLoad(s, i.dst, i.ptr)
      [] i.op = "gep"     -> handleGEP(s, i.dst, i.base, i.idx, i.elem)
      [] i.op = "bitcast" -> BitCast(s, i.dst, i.a)
      [] i.op = "binop"   -> Put(Looked(Looked(s, i.a), i.b), i.dst, evaluateBinOP(s, i.opcode, i.a, i.b))
      [] i.op = "cast"    -> Put(Looked(s, i.a), i.dst, evaluateCast(s, i.cast, i.a, Width[i.dst]))
      [] OTHER            -> Put(s, i.dst, Infinity)

\* What the branch condition of -use-pc adds to the state.
Constrain(s, k, v) == Put(s, k, IF Has(s, k) THEN Intersection(s[k], v) ELSE v)

\* transfer() of a value that is no instruction: a constant is its range, an
\* argument any value.
TransferValue(k, s) == Put(s, k, IF k \in Const THEN ConstRange(k) ELSE Infinity)
=============================================================================
