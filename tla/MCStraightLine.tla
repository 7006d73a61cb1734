--------------------------- MODULE MCStraightLine ---------------------------
(* Small programs for StraightLine: 5-bit integers in 7-bit arithmetic.     *)
EXTENDS StraightLine

MCConst  == {"c0", "c1", "c3", "cm1", "d1"}
MCAlloca == {"X", "P"}
MCMalloc == {"m4", "m0"}
MCPtr    == {"P", "m4", "m0", "b", "q", "r"}
MCKey    == MCConst \cup MCAlloca \cup MCPtr \cup {"x", "y", "z", "n", "elsewhere"}
MCConstVal   == [c \in MCConst |-> CASE c = "c0" -> 0 [] c = "c1" -> 1 [] c = "c3" -> 3
                                     [] c = "cm1" -> -1 [] c = "d1" -> 1]
MCMallocSize == [m \in MCMalloc |-> IF m = "m4" THEN 4 ELSE 0]
MCWidth      == [k \in MCKey |-> IF k \in MCPtr THEN 7 ELSE IF k \in {"n", "d1"} THEN 3 ELSE 5]

\* b is a bitcast of m4.
MCStripped   == [k \in MCKey |-> IF k = "b" THEN "m4" ELSE k]

BinOp(opcode, dst, a, b) == [op |-> "binop", opcode |-> opcode, dst |-> dst, a |-> a, b |-> b, nsw |-> TRUE]
Wrapping(opcode, dst, a, b) == [BinOp(opcode, dst, a, b) EXCEPT !.nsw = FALSE]
Cast(cast, dst, a)       == [op |-> "cast", cast |-> cast, dst |-> dst, a |-> a]
Load(dst, ptr)           == [op |-> "load", dst |-> dst, ptr |-> ptr]
Store(ptr, val)          == [op |-> "store", ptr |-> ptr, val |-> val]
BitCast_(dst, a)         == [op |-> "bitcast", dst |-> dst, a |-> a]
GEP(dst, base, idx, stride) == [op |-> "gep", dst |-> dst, base |-> base, idx |-> idx,
                                stride |-> stride, elem |-> stride[Len(stride)]]
Other(op, dst)           == [op |-> op, dst |-> dst]
Branch(pred, var, c, first, fresh) == [pred |-> pred, var |-> var, c |-> c, first |-> first, fresh |-> fresh]
Program(instrs, branches)   == [instrs |-> instrs, branches |-> branches]

\* Array indices computed from non-negative constants, through memory.
Unsigned_ == Program(
    {BinOp(o, "x", "x", c) : o \in {"Add", "Mul", "SDiv"}, c \in {"c1", "c3"}}
        \cup {BinOp("And", "x", "y", "c3"), Other("call", "y"), Load("x", "X"), Load("y", "X"),
              Store("X", "x"), Store("X", "c1"), BinOp("Add", "y", "x", "y")}, {})

\* Signed arithmetic in registers.
Signed_ == Program(
    {BinOp(o, "x", "x", c) : o \in {"Add", "Sub", "SDiv"}, c \in {"c3", "cm1"}}
        \cup {BinOp(o, "y", "x", "y") : o \in {"Sub", "Mul", "SDiv"}}
        \cup {BinOp("And", "x", "y", "c3"), BinOp("And", "y", "x", "c1"), Other("call", "x"),
              BinOp("Shl", "y", "x", "x"), Load("n", "elsewhere"), BinOp("And", "n", "n", "d1"), Cast("SExt", "y", "n")}, {})

\* Arithmetic that wraps around, and a masked value that is truncated.
Wrapping_ == Program(
    {Wrapping(o, "x", "x", c) : o \in {"Add", "Sub", "Mul"}, c \in {"c3", "cm1"}}
        \cup {Wrapping(o, "y", "x", "y") : o \in {"Add", "Mul"}}
        \cup {Other("call", "x"), BinOp("And", "x", "x", "c3"), BinOp("And", "z", "x", "c3"),
              Cast("Trunc", "n", "z"), Cast("SExt", "y", "n")}, {})

\* Unsigned branches, and signed ones on a negative constant.
Guarded == Program(
    {Other("call", "y"), Load("x", "X"), Store("X", "y"), Store("X", "x")},
    {Branch(p, "x", c, f, TRUE) : p \in {"EQ", "NE", "UGT", "UGE", "ULT", "ULE"}, c \in {"c0", "c3", "cm1"}, f \in BOOLEAN}
        \cup {Branch(p, "x", "cm1", f, TRUE) : p \in {"SGT", "SGE", "SLT", "SLE"}, f \in BOOLEAN})

\* Heap pointers moved by constants and by an unknown index, over bytes, elements of
\* two bytes and rows of two bytes.
Pointers == Program(
    {Other("malloc", "m4"), Other("malloc", "m0"), BitCast_("b", "m4"),
     Store("P", "m4"), Store("P", "b"), Store("P", "m0"), Load("q", "P"),
     GEP("r", "q", <<"c1">>, <<1>>), GEP("r", "r", <<"c0", "c3">>, <<4, 1>>), GEP("r", "q", <<"c1">>, <<2>>),
     GEP("q", "m4", <<"cm1">>, <<1>>), GEP("q", "q", <<"c1", "c1">>, <<2, 1>>), GEP("q", "q", <<"x">>, <<1>>),
     BinOp("And", "x", "c1", "c1"), Store("P", "r"), BitCast_("q", "r")}, {})

Sound == {Unsigned_, Signed_, Wrapping_, Guarded, Pointers}

\* A value that may be negative, stored and loaded again.
NegativeStored == {Program({BinOp("And", "x", "y", "c1"), BinOp("Sub", "x", "x", "c1"), Other("call", "y"),
                            Store("X", "x"), Load("x", "X")}, {})}
=============================================================================
