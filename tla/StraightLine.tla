---------------------------- MODULE StraightLine ----------------------------
(***************************************************************************)
(* An execution of the analysed program, instruction by instruction, with  *)
(* the abstract state that RangeTransfer computes for the same path beside *)
(* it.  `env' gives every value the program has computed: an integer, what *)
(* an alloca holds, or, for a pointer into a heap object, the bytes left   *)
(* behind it.  A run of the program is any sequence of the instructions of *)
(* `code' and of the branches of `branches'; the analysis has no memory of *)
(* how it came to a state, so every sequence is a path of some program.    *)
(***************************************************************************)
EXTENDS RangeTransfer

CONSTANTS
    Codes,      \* the programs: records of a set of instructions and of branches
    Ptr,        \* the keys that hold pointers into heap objects
    MaxSteps,   \* bound on the length of a run
    MaxSize     \* bound on the number of elements of an array

VARIABLES
    code, abs, env, steps,
    exact       \* the heap pointers that were moved only by offsets handleGEP computes exactly
vars == <<code, abs, env, steps, exact>>

Values(w) == SMin(w)..SMax(w)

Init ==
    /\ code \in Codes
    /\ abs = Empty /\ steps = 0 /\ exact = Malloc
    /\ env = [k \in Key |-> IF k \in Const THEN ConstVal[k] ELSE 0]

\* What the program computes: a set of results, empty where LLVM leaves the
\* result undefined (signed overflow of what is marked nsw, division by zero).
Result(i) ==
    LET a == env[i.a]  b == env[i.b]  w == Width[i.dst]
        U(n) == Unsigned(n, w)
        Defined(n) == IF i.nsw THEN {n} \cap Values(w) ELSE {Signed(n, w)}
    IN  CASE i.opcode = "Add"  -> Defined(a + b)
          [] i.opcode = "Sub"  -> Defined(a - b)
          [] i.opcode = "Mul"  -> Defined(a * b)
          [] i.opcode = "SDiv" -> IF b = 0 THEN {} ELSE {Quotient(a, b)} \cap Values(w)
          [] i.opcode = "UDiv" -> IF b = 0 THEN {} ELSE {Signed(U(a) \div U(b), w)}
          [] i.opcode = "And" /\ masking(i.b) -> {a % (b + 1)}
          [] OTHER -> Values(w)

\* The bytes left behind a pointer moved forward by the indices, each of which has
\* a stride of its own: the size of what it steps over.
Moved(i) == LET scaled(n) == env[i.idx[n]] * i.stride[n]
            IN  env[i.base] - MapThenSumSet(scaled, DOMAIN i.idx)

Outcome(i) ==
    CASE i.op = "binop"   -> Result(i)
      [] i.op = "cast"    -> {CastConst(i.cast, env[i.a], Width[i.a], Width[i.dst])}
      [] i.op = "load"    -> IF i.ptr \in Alloca THEN {env[i.ptr]} ELSE Values(Width[i.dst])
      [] i.op = "store"   -> {env[i.val]}
      [] i.op = "gep"     -> {Moved(i)}
      [] i.op = "bitcast" -> {env[i.a]}
      [] i.op = "malloc"  -> IF MallocSize[i.dst] = 0 THEN 0..MaxSize ELSE {MallocSize[i.dst]}
      [] OTHER            -> Values(Width[i.dst])

\* Only what has been computed can be used.
Uses(i) == CASE i.op = "binop" -> {i.a, i.b}
             [] i.op \in {"cast", "bitcast"} -> {i.a}
             [] i.op = "load"  -> {i.ptr} \cap Alloca
             [] i.op = "store" -> {i.val}
             [] i.op = "gep"   -> {i.base} \cup {i.idx[n] : n \in DOMAIN i.idx}
             [] OTHER -> {}
Computed == Const \cup {k \in Key : Has(abs, k)}

\* handleGEP computes the offset of a GEP whose indices have one possible value each
\* and are zero but for the last; of a range it takes the lower bound, and it scales
\* all the indices by the element size of the last.
ExactMove(i) ==
    \A n \in DOMAIN i.idx : LET v == getRangeFor(abs, i.idx[n])
                            IN  isConstant(v) => v.l = v.r /\ (n < Len(i.idx) => v.l = 0)
StaysExact(i) == CASE i.op = "store"   -> i.val \in exact
                   [] i.op = "load"    -> i.ptr \in exact
                   [] i.op = "bitcast" -> i.a \in exact
                   [] i.op = "gep"     -> i.base \in exact /\ ExactMove(i)
                   [] OTHER            -> i.dst \in Malloc
Target(i) == IF i.op = "store" THEN i.ptr ELSE i.dst

execute(i) ==
    /\ steps < MaxSteps /\ steps' = steps + 1
    /\ Uses(i) \subseteq Computed
    /\ abs' = Transfer(i, abs)
    /\ \E v \in Outcome(i) :
          env' = [env EXCEPT ![Target(i)] = v]
    /\ exact' = IF StaysExact(i) THEN exact \cup {Target(i)} ELSE exact \ {Target(i)}
    /\ UNCHANGED code

-----------------------------------------------------------------------------
(* Entering the block behind a conditional branch with -use-pc.             *)

\* constrainValuesByCondition: the compared variable, and the alloca it was
\* loaded from.  A `fresh' branch is one of a program that does not store to
\* the alloca between the load and the branch.
Constrained(b) ==
    {b.var} \cup {i.ptr : i \in {j \in code.instrs : j.op = "load" /\ j.dst = b.var /\ j.ptr \in Alloca}}

branch(b, taken) ==
    LET v == getRangeForConditionalBranch(b.pred, ConstVal[b.c], Width[b.c], taken, b.first)
        x == env[b.var]  c == ConstVal[b.c]
    IN  /\ steps < MaxSteps /\ steps' = steps + 1
        /\ b.var \in Computed
        /\ b.fresh => \A k \in Constrained(b) : env[k] = x
        /\ taken = IF b.first THEN Holds(b.pred, x, c, Width[b.c]) ELSE Holds(b.pred, c, x, Width[b.c])
        /\ abs' = [k \in Key |-> IF k \in Constrained(b) THEN Constrain(abs, k, v)[k] ELSE abs[k]]
        /\ UNCHANGED <<code, env, exact>>

Next == \/ \E i \in code.instrs : execute(i)
        \/ \E b \in code.branches, taken \in BOOLEAN : branch(b, taken)

Spec == Init /\ [][Next]_vars

-----------------------------------------------------------------------------
(* Properties.                                                              *)

\* Every bound of a range the transfer functions build fits in the width of its APInt;
\* the one-bit lower bound of a masked value is zero.
TypeOK ==
    /\ \A k \in Key : /\ abs[k].kind \in {"absent", "unknown", "constant", "infinity"}
                      /\ isConstant(abs[k]) => abs[k].l \in Values(abs[k].lw) /\ abs[k].r \in Values(abs[k].w)
    /\ steps \in 0..MaxSteps /\ exact \subseteq Key

\* The test of valueRangeAnalysis on the index of an array of `size' elements:
\* the GEP is taken to be safe and gets no protection.
Accepts(v, size) == isConstant(v) /\ v.l >= 0 /\ ~(v.r < 0 \/ v.r >= size)

\* An index whose range valueRangeAnalysis accepts for an array is an element of
\* that array in every execution: a GEP left without protection stays in bounds.
AcceptedInBounds ==
    \A k \in Key \ Ptr, size \in 1..MaxSize : Accepts(abs[k], size) => env[k] \in 0..(size - 1)

\* The room that handleStore, handleLoad and handleGEP record for a heap pointer is
\* never more than what the object has left behind it, as long as the pointer was
\* moved by offsets that handleGEP computes exactly.
RoomNotOverstated == \A k \in Ptr \cap exact : isConstant(abs[k]) => abs[k].r + 1 <= env[k]
=============================================================================
