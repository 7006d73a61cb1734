------------------------ MODULE ClassificationProofs ------------------------
(***************************************************************************)
(* Proofs about Classification, for every set of values, globals and       *)
(* programs.  The handlers are all built from four updates of the table;   *)
(* `Evolves' is the relation each update establishes and composition       *)
(* keeps, so a handler is proved by chaining its updates.                  *)
(***************************************************************************)
EXTENDS Classification, WellFoundedInduction, TLAPS

\* A table of the pass: no entry is Unknown, and an unsafe pointer has an entry.
TableOK(V) ==
    /\ V \in [Value -> VariableInfo]
    /\ \A x \in Value : V[x].cls # Unknown /\ (V[x].cls \in {Seq_, Dyn} => V[x].reg)

\* W may follow V: nothing is unregistered or made Safe again, and a new class of a
\* global is announced.
Evolves(V, W) ==
    /\ TableOK(W)
    /\ \A x \in Value :
         /\ V[x].reg => W[x].reg
         /\ W[x].isGlobal = V[x].isGlobal
         /\ V[x].cls \in {Seq_, Dyn} => W[x].cls \in {Seq_, Dyn}
         /\ V[x].changed => W[x].changed
         /\ V[x].isGlobal /\ W[x].cls # V[x].cls => W[x].changed

----------------------------------------------------------------------------
(* Counting, for the returned values of a callee.                          *)

\* A set of naturals has a least element.
LEMMA LeastNatural ==
    ASSUME NEW S, S \subseteq Nat, S # {}
    PROVE  \E x \in S : \A y \in S : x <= y
<1>1. \A x, y \in Nat : <<y, x>> \in OpToRel(<, Nat) <=> y < x
  BY DEF OpToRel
<1>2. \E x \in S : \A y \in S : <<y, x>> \notin OpToRel(<, Nat)
  BY NatLessThanWellFounded, WFMin, ZenonT(60)
<1>3. \E x \in S : \A y \in S : ~(y < x)
  BY <1>1, <1>2, ZenonT(60)
<1> QED BY <1>3

\* Counting from 0 up to m inside a set.
LEMMA CountUp ==
    ASSUME NEW m \in Nat, NEW S, 0 \in S, \A n \in 0..(m - 1) : n \in S => n + 1 \in S
    PROVE  \A n \in 0..m : n \in S
<1>1. SUFFICES ASSUME NEW j \in 0..m, j \notin S PROVE FALSE
  OBVIOUS
<1> DEFINE R == {n \in 0..m : n \notin S}
<1>2. R \subseteq Nat /\ R # {}
  BY <1>1
<1>3. \E x \in R : \A y \in R : x <= y
  <2> HIDE DEF R
  <2> QED BY <1>2, LeastNatural, ZenonT(60)
<1>4. PICK x \in R : \A y \in R : x <= y
  BY <1>3
<1>5. x # 0 /\ x \in 1..m
  BY <1>4
<1>6. x - 1 \in 0..(m - 1) /\ x - 1 \notin R
  BY <1>4, <1>5
<1>7. x - 1 \in S
  BY <1>6
<1>8. (x - 1) + 1 = x
  BY <1>5
<1> QED BY <1>4, <1>6, <1>7, <1>8

----------------------------------------------------------------------------
(* The relation and the updates of AnalysisState.                          *)

\* A table may stay as it is.
LEMMA EvolvesRefl == ASSUME NEW V, TableOK(V) PROVE Evolves(V, V)
  BY DEF Evolves

\* Two successive evolutions are one.
LEMMA EvolvesTrans ==
    ASSUME NEW V, NEW W, NEW X, Evolves(V, W), Evolves(W, X)
    PROVE  Evolves(V, X)
  BY DEF Evolves

\* RegisterVariable keeps the rest of an entry.
LEMMA RegisterEvolves ==
    ASSUME NEW V, TableOK(V), NEW x \in Value
    PROVE  Evolves(V, RegisterVariable(V, x))
  BY ZenonT(60) DEF Evolves, TableOK, RegisterVariable, VariableInfo

\* ClassifyPointerVariable never makes an unsafe pointer Safe, never stores Unknown,
\* and leaves the pointer unsafe when asked to.
LEMMA ClassifyEvolves ==
    ASSUME NEW V, TableOK(V), NEW x \in Value, NEW t \in VariableStates
    PROVE  /\ Evolves(V, ClassifyPointerVariable(V, x, t))
           /\ t \in {Seq_, Dyn} => ClassifyPointerVariable(V, x, t)[x].cls \in {Seq_, Dyn}
<1>1. CASE ~Raises(V[x].cls, t)
  <2>1. ClassifyPointerVariable(V, x, t) = RegisterVariable(V, x)
    BY <1>1 DEF ClassifyPointerVariable
  <2>2. RegisterVariable(V, x)[x].cls = V[x].cls
    BY DEF RegisterVariable, TableOK, VariableInfo
  <2>3. V[x].cls \in VariableStates
    BY DEF TableOK, VariableInfo
  <2>4. t \in {Seq_, Dyn} => V[x].cls \in {Seq_, Dyn}
    BY <1>1, <2>3 DEF Raises, VariableStates, Unknown, Safe, Seq_, Dyn
  <2> QED BY <2>1, <2>2, <2>4, RegisterEvolves
<1>2. CASE Raises(V[x].cls, t)
  <2> DEFINE r == [V[x] EXCEPT !.reg = TRUE, !.cls = t, !.changed = V[x].changed \/ V[x].isGlobal]
             W == [V EXCEPT ![x] = r]
  <2>1. V[x] \in VariableInfo /\ V \in [Value -> VariableInfo] /\ V[x].cls # Unknown
    BY DEF TableOK
  <2>2. /\ r \in VariableInfo /\ r.cls = t /\ r.reg
        /\ r.isGlobal = V[x].isGlobal
        /\ V[x].changed => r.changed
        /\ V[x].isGlobal => r.changed
    BY <2>1, ZenonT(60) DEF VariableInfo
  <2>3. t # Unknown /\ t # Safe
    BY <1>2, <2>1 DEF Raises, VariableInfo, VariableStates, Unknown, Safe, Seq_, Dyn
  <2>4. ClassifyPointerVariable(V, x, t) = W
    BY <1>2 DEF ClassifyPointerVariable
  <2> HIDE DEF r
  <2>5. Evolves(V, W) /\ W[x].cls = t
    BY <2>1, <2>2, <2>3 DEF Evolves, TableOK, VariableStates
  <2> QED BY <2>3, <2>4, <2>5
<1> QED BY <1>1, <1>2

\* SetSizeForPointerVariable leaves the class alone.
LEMMA SetSizeEvolves ==
    ASSUME NEW V, TableOK(V), NEW x \in Value, NEW s \in Size
    PROVE  Evolves(V, SetSizeForPointerVariable(V, x, s))
  BY ZenonT(60) DEF Evolves, TableOK, SetSizeForPointerVariable, VariableInfo

\* So does SetInstantiatedExplicitSizeVariable.
LEMMA SetInstEvolves ==
    ASSUME NEW V, TableOK(V), NEW x \in Value
    PROVE  Evolves(V, SetInstantiatedExplicitSizeVariable(V, x))
  BY ZenonT(60) DEF Evolves, TableOK, SetInstantiatedExplicitSizeVariable, VariableInfo

\* A constant size is a size.
LEMMA ConstType == ASSUME NEW n \in Int PROVE Const(n) \in Size
  BY DEF Const, Size

\* Freeing only touches sizes.
LEMMA ClearSizesEvolves ==
    ASSUME NEW V, TableOK(V), NEW S
    PROVE  Evolves(V, ClearSizes(V, S))
<1>1. Const(0) \in Size
  BY ConstType
<1>2. QED BY <1>1, ZenonT(60) DEF Evolves, TableOK, ClearSizes, VariableInfo

\* What GetPointerVariableInfo hands out has the type of an entry, for null too.
LEMMA InfoType ==
    ASSUME NEW V, TableOK(V), NEW x \in Value
    PROVE  GetPointerVariableInfo(V, x) \in VariableInfo
<1>1. Absent \in VariableInfo
  BY DEF Absent, VariableInfo, VariableStates, Const, Size
<1>2. [Absent EXCEPT !.reg = TRUE, !.cls = Unknown] \in VariableInfo
  BY <1>1, ZenonT(60) DEF VariableInfo, VariableStates
<1> QED BY <1>2 DEF GetPointerVariableInfo, TableOK

----------------------------------------------------------------------------
(* The handlers.                                                           *)

\* What ProgramAssumption says about one instruction.
InstrOK(i) ==
    /\ i.self \in Value
    /\ i.op = "alloca" => i.size \in Size
    /\ i.op = "call" => i.size \in Size /\ i.arg \in Value /\ i.rets \in Seq(Value)
    /\ i.op = "store" => i.val \in Value /\ i.ptr \in Value
    /\ i.op = "load" => i.ptr \in Value
    /\ i.op = "gep" => i.ptr \in Value /\ i.fallback \in Size /\ i.offset \in Size
    /\ i.op = "cast" => i.opd \in Value

SizesOK == \A x \in Value : sizeOf[x] \in Size

\* processAllocaInst registers or sizes the slot.
LEMMA AllocaEvolves ==
    ASSUME NEW V, TableOK(V), NEW i, InstrOK(i), i.op = "alloca"
    PROVE  Evolves(V, processAllocaInst(V, i))
  BY RegisterEvolves, SetSizeEvolves DEF processAllocaInst, InstrOK

\* The class of one returned value of a rewritten callee is handed to the call.
LEMMA TakeEvolves ==
    ASSUME NEW V, TableOK(V), NEW x \in Value, NEW from \in Value
    PROVE  Evolves(V, takeClass(V, x, from))
<1>1. GetPointerVariableInfo(V, from).cls \in VariableStates
  BY InfoType, ZenonT(60) DEF VariableInfo
<1>2. Evolves(V, ClassifyPointerVariable(V, x, GetPointerVariableInfo(V, from).cls))
  BY <1>1, ClassifyEvolves, ZenonT(60)
<1> QED BY <1>2, EvolvesRefl, ZenonT(60) DEF takeClass

\* All the returned values in turn, however many there are (updateRewrittenFunctionCall).
LEMMA RewrittenEvolves ==
    ASSUME NEW V, TableOK(V), NEW i, InstrOK(i), i.op = "call"
    PROVE  Evolves(V, updateRewrittenFunctionCall(V, i))
<1> DEFINE m == Len(i.rets)
           G == {n \in 0..m : \E g : g = [j \in 0..n |-> IF j = 0 THEN V ELSE takeClass(g[j - 1], i.self, i.rets[j])]}
<1>1. i.rets \in Seq(Value) /\ i.self \in Value
  BY ZenonT(60) DEF InstrOK
<1>2. m \in Nat /\ \A n \in 1..m : i.rets[n] \in Value
  BY <1>1
<1>3. 0 \in G
  <2>1. PICK g : g = [j \in 0..0 |-> V]
    BY ZenonT(60)
  <2>2. g = [j \in 0..0 |-> IF j = 0 THEN V ELSE takeClass(g[j - 1], i.self, i.rets[j])]
    BY <2>1
  <2>3. 0 \in 0..m
    BY <1>2
  <2> QED BY <2>2, <2>3, ZenonT(60)
<1>4. \A n \in 0..(m - 1) : n \in G => n + 1 \in G
  <2> SUFFICES ASSUME NEW n \in 0..(m - 1), n \in G PROVE n + 1 \in G
    BY ZenonT(60)
  <2>1. PICK g : g = [j \in 0..n |-> IF j = 0 THEN V ELSE takeClass(g[j - 1], i.self, i.rets[j])]
    BY ZenonT(60)
  <2>2. n \in Nat /\ n + 1 \in 0..m
    BY <1>2
  <2> HIDE DEF m
  <2> DEFINE h == [j \in 0..(n + 1) |-> IF j = n + 1 THEN takeClass(g[n], i.self, i.rets[j]) ELSE g[j]]
  <2>3. \A j \in 0..(n + 1) : h[j] = IF j = 0 THEN V ELSE takeClass(h[j - 1], i.self, i.rets[j])
    <3> SUFFICES ASSUME NEW j \in 0..(n + 1) PROVE h[j] = IF j = 0 THEN V ELSE takeClass(h[j - 1], i.self, i.rets[j])
      BY ZenonT(60)
    <3>1. CASE j = n + 1
      <4>1. h[j] = takeClass(g[n], i.self, i.rets[j]) /\ h[j - 1] = g[n] /\ j # 0
        BY <2>2, <3>1
      <4> QED BY <4>1
    <3>2. CASE j \in 0..n
      <4>1. h[j] = g[j] /\ (j # 0 => h[j - 1] = g[j - 1])
        BY <2>2, <3>2
      <4>2. g[j] = IF j = 0 THEN V ELSE takeClass(g[j - 1], i.self, i.rets[j])
        BY <2>1, <3>2
      <4> QED BY <4>1, <4>2
    <3> QED BY <2>2, <3>1, <3>2
  <2>4. h = [j \in 0..(n + 1) |-> IF j = 0 THEN V ELSE takeClass(h[j - 1], i.self, i.rets[j])]
    BY <2>3
  <2> HIDE DEF h
  <2> QED BY <2>2, <2>4, ZenonT(60)
<1>5. m \in G
  <2> HIDE DEF G, m
  <2>1. \A n \in 0..m : n \in G
    BY <1>2, <1>3, <1>4, CountUp, ZenonT(60)
  <2> QED BY <1>2, <2>1
<1> DEFINE c == CHOOSE g : g = [n \in 0..Len(i.rets) |-> IF n = 0 THEN V ELSE takeClass(g[n - 1], i.self, i.rets[n])]
<1>6. c = [n \in 0..m |-> IF n = 0 THEN V ELSE takeClass(c[n - 1], i.self, i.rets[n])]
  BY <1>5, ZenonT(60)
<1>7. updateRewrittenFunctionCall(V, i) = c[m]
  BY ZenonT(60) DEF updateRewrittenFunctionCall
<1> HIDE DEF c, m
<1> DEFINE P == {n \in 0..m : Evolves(V, c[n])}
<1>8. 0 \in P
  <2>1. 0 \in 0..m /\ c[0] = V
    BY <1>2, <1>6
  <2> QED BY <2>1, EvolvesRefl
<1>9. \A n \in 0..(m - 1) : n \in P => n + 1 \in P
  <2> SUFFICES ASSUME NEW n \in 0..(m - 1), n \in P PROVE n + 1 \in P
    BY ZenonT(60)
  <2>1. n + 1 \in 0..m /\ n + 1 \in 1..m /\ n + 1 # 0 /\ (n + 1) - 1 = n
    BY <1>2
  <2>2. c[n + 1] = takeClass(c[n], i.self, i.rets[n + 1])
    BY <1>6, <2>1
  <2>3. Evolves(V, c[n]) /\ TableOK(c[n])
    BY ZenonT(60) DEF Evolves
  <2>4. Evolves(c[n], c[n + 1])
    BY <1>1, <1>2, <2>1, <2>2, <2>3, TakeEvolves, ZenonT(60)
  <2>5. Evolves(V, c[n + 1])
    BY <2>3, <2>4, EvolvesTrans, ZenonT(60)
  <2> QED BY <2>1, <2>5, ZenonT(60)
<1>10. m \in P
  <2> HIDE DEF P
  <2>1. \A n \in 0..m : n \in P
    BY <1>2, <1>8, <1>9, CountUp, ZenonT(60)
  <2> QED BY <1>2, <2>1
<1> QED BY <1>7, <1>10, ZenonT(60)

\* processCallInst: a size update, then the return class.
LEMMA CallEvolves ==
    ASSUME NEW V, TableOK(V), NEW i, InstrOK(i), i.op = "call", SizesOK
    PROVE  Evolves(V, processCallInst(V, i))
<1> DEFINE A == SetSizeForPointerVariable(V, i.self, i.size)
           F == ClearSizes(V, propagateFreedSize(i.arg))
           O == IF i.retPtr THEN SetSizeForPointerVariable(V, i.self, sizeOf[i.self]) ELSE V
<1>1. Evolves(V, A) /\ Evolves(V, F) /\ Evolves(V, O)
  BY SetSizeEvolves, ClearSizesEvolves, EvolvesRefl DEF InstrOK, SizesOK
<1>2. \A W : Evolves(V, W) => Evolves(V, updateRewrittenFunctionCall(W, i))
  BY RewrittenEvolves, EvolvesTrans, ZenonT(60) DEF Evolves
<1> HIDE DEF A, F, O
<1>3. processCallInst(V, i) \in {V, updateRewrittenFunctionCall(A, i),
                                updateRewrittenFunctionCall(F, i), updateRewrittenFunctionCall(O, i)}
  BY DEF processCallInst, A, F, O
<1> QED BY <1>1, <1>2, <1>3, EvolvesRefl

\* Making a missing entry changes no existing one.
LEMMA EnsureEvolves ==
    ASSUME NEW V, TableOK(V), NEW x \in Value, SizesOK
    PROVE  Evolves(V, Ensure(V, x)) /\ Evolves(V, EnsureInst(V, x))
<1>1. Evolves(V, Ensure(V, x))
  BY SetSizeEvolves, EvolvesRefl DEF Ensure, SizesOK
<1>2. Evolves(V, EnsureInst(V, x))
  <2> DEFINE W == SetSizeForPointerVariable(V, x, sizeOf[x])
  <2>1. Evolves(V, W) /\ TableOK(W)
    BY SetSizeEvolves DEF SizesOK, Evolves
  <2>2. Evolves(W, SetInstantiatedExplicitSizeVariable(W, x))
    BY <2>1, SetInstEvolves
  <2> HIDE DEF W
  <2>3. Evolves(V, SetInstantiatedExplicitSizeVariable(W, x))
    BY <2>1, <2>2, EvolvesTrans
  <2> QED BY <2>3, EvolvesRefl DEF EnsureInst, W
<1> QED BY <1>1, <1>2

\* Handing class and size from one pointer to another.
LEMMA FlowEvolves ==
    ASSUME NEW V, TableOK(V), NEW a \in Value, NEW b \in Value
    PROVE  Evolves(V, Flow(V, a, b))
<1> DEFINE info == GetPointerVariableInfo(V, a)
           W == ClassifyPointerVariable(V, b, info.cls)
<1>1. info.cls \in VariableStates /\ info.size \in Size
  BY InfoType DEF VariableInfo
<1>2. Evolves(V, W) /\ TableOK(W)
  BY <1>1, ClassifyEvolves DEF Evolves
<1> HIDE DEF W
<1>3. Evolves(W, SetSizeForPointerVariable(W, b, info.size))
  BY <1>1, <1>2, SetSizeEvolves
<1> QED BY <1>2, <1>3, EvolvesTrans DEF Flow, W

\* processStoreInst: the location takes the stored pointer's class.
LEMMA StoreEvolves ==
    ASSUME NEW V, TableOK(V), NEW i, InstrOK(i), i.op = "store", SizesOK
    PROVE  Evolves(V, processStoreInst(V, i))
<1>1. Evolves(V, Ensure(V, i.val)) /\ Evolves(V, EnsureInst(V, i.ptr))
  BY EnsureEvolves DEF InstrOK
<1>2. Evolves(Ensure(V, i.val), Flow(Ensure(V, i.val), i.val, i.ptr))
  BY <1>1, FlowEvolves, ZenonT(60) DEF InstrOK, Evolves
<1>3. Evolves(V, Flow(Ensure(V, i.val), i.val, i.ptr))
  BY <1>1, <1>2, EvolvesTrans
<1> QED BY <1>1, <1>3 DEF processStoreInst

\* processLoadInst: the result takes the location's class.
LEMMA LoadEvolves ==
    ASSUME NEW V, TableOK(V), NEW i, InstrOK(i), i.op = "load", SizesOK
    PROVE  Evolves(V, processLoadInst(V, i))
<1> DEFINE W == IF i.constPtr THEN Ensure(V, i.ptr) ELSE V
<1>1. Evolves(V, W) /\ Evolves(V, EnsureInst(V, i.ptr))
  BY EnsureEvolves, EvolvesRefl DEF InstrOK
<1> HIDE DEF W
<1>2. Evolves(W, Flow(W, i.ptr, i.self))
  BY <1>1, FlowEvolves, ZenonT(60) DEF InstrOK, Evolves
<1>3. Evolves(V, Flow(W, i.ptr, i.self))
  BY <1>1, <1>2, EvolvesTrans
<1> QED BY <1>1, <1>3 DEF processLoadInst, W

\* A GEP with a non-zero index leaves its base and its result unsafe.
LEMMA GEPEvolves ==
    ASSUME NEW V, TableOK(V), NEW i, InstrOK(i), i.op = "gep"
    PROVE  /\ Evolves(V, processGetElementPtrInst(V, i))
           /\ ~i.zero => {i.ptr, i.self} \subseteq Unsafe(processGetElementPtrInst(V, i))
<1> DEFINE B == ClassifyPointerVariable(V, i.ptr, Seq_)
           C == IF i.zero THEN V ELSE ClassifyPointerVariable(B, i.self, Seq_)
           R == RegisterVariable(C, i.self)
           base == GetPointerVariableInfo(R, i.ptr)
           full == IF base.size = Const(0) THEN i.fallback ELSE base.size
           F == IF base.size = Const(0) THEN SetSizeForPointerVariable(R, i.ptr, full) ELSE R
           rest == IF ~i.zero /\ full.const /\ i.offset.const THEN Const(full.n - i.offset.n) ELSE full
           S == SetSizeForPointerVariable(F, i.self, rest)
<1>1. i.ptr \in Value /\ i.self \in Value /\ i.fallback \in Size /\ i.offset \in Size
      /\ Seq_ \in VariableStates
  BY DEF InstrOK, VariableStates
<1>2. Evolves(V, B) /\ TableOK(B) /\ B[i.ptr].cls \in {Seq_, Dyn}
  BY <1>1, ClassifyEvolves DEF Evolves
<1> HIDE DEF B
<1>3. /\ Evolves(B, ClassifyPointerVariable(B, i.self, Seq_))
      /\ ClassifyPointerVariable(B, i.self, Seq_)[i.self].cls \in {Seq_, Dyn}
  BY <1>1, <1>2, ClassifyEvolves
<1>4. Evolves(V, C) /\ TableOK(C) /\ (~i.zero => {i.ptr, i.self} \subseteq Unsafe(C))
  <2>1. Evolves(V, ClassifyPointerVariable(B, i.self, Seq_))
    BY <1>2, <1>3, EvolvesTrans
  <2>2. ClassifyPointerVariable(B, i.self, Seq_)[i.ptr].cls \in {Seq_, Dyn}
    BY <1>1, <1>2, <1>3 DEF Evolves
  <2>3. CASE i.zero
    BY <2>3, EvolvesRefl, SMTT(60)
  <2>4. CASE ~i.zero
    BY <1>1, <1>3, <2>1, <2>2, <2>4, ZenonT(60) DEF Unsafe, Evolves
  <2> QED BY <2>3, <2>4
<1> HIDE DEF C
<1>5. Evolves(C, R) /\ TableOK(R)
  BY <1>1, <1>4, RegisterEvolves DEF Evolves
<1> HIDE DEF R
<1>6. full \in Size /\ base \in VariableInfo
  BY <1>1, <1>5, InfoType DEF VariableInfo
<1> HIDE DEF base, full
<1>7. Evolves(R, F) /\ TableOK(F)
  <2>1. Evolves(R, SetSizeForPointerVariable(R, i.ptr, full)) /\ Evolves(R, R)
    BY <1>1, <1>5, <1>6, SetSizeEvolves, EvolvesRefl
  <2> QED BY <2>1 DEF Evolves
<1> HIDE DEF F
<1>8. rest \in Size
  <2>1. full.n - i.offset.n \in Int
    BY <1>1, <1>6 DEF Size
  <2> QED BY <1>6, <2>1, ConstType
<1> HIDE DEF rest
<1>9. Evolves(F, S)
  BY <1>1, <1>7, <1>8, SetSizeEvolves
<1> HIDE DEF S
<1>10. Evolves(C, R) /\ Evolves(C, S) /\ Evolves(V, R) /\ Evolves(V, S)
  BY <1>4, <1>5, <1>7, <1>9, EvolvesTrans, ZenonT(60)
<1>11. processGetElementPtrInst(V, i) \in {R, S}
  BY ZenonT(60) DEF processGetElementPtrInst, B, C, R, base, full, F, rest, S
<1>12. \A W : Evolves(C, W) /\ ~i.zero => {i.ptr, i.self} \subseteq Unsafe(W)
  BY <1>1, <1>4 DEF Unsafe, Evolves
<1> QED BY <1>10, <1>11, <1>12

\* A cast of a loaded, indexed, cast or returned pointer leaves operand and result unsafe.
LEMMA OperandEvolves ==
    ASSUME NEW V, TableOK(V), NEW i, InstrOK(i), i.op = "cast", SizesOK
    PROVE  /\ Evolves(V, processOperand(V, i))
           /\ DefOf(i.opd) # 0 /\ code[DefOf(i.opd)].op \in {"load", "gep", "cast", "call"}
                => {i.opd, i.self} \subseteq Unsafe(processOperand(V, i))
<1> DEFINE k == DefOf(i.opd)
           kind == IF k = 0 THEN "other" ELSE code[k].op
           sized == IF kind = "call" /\ i.bitcast /\ GetPointerVariableInfo(V, i.opd).size = Const(1)
                    THEN SetSizeForPointerVariable(V, i.opd, sizeOf[i.self]) ELSE V
           opdClass == IF kind = "gep" THEN Seq_ ELSE Dyn
           B == ClassifyPointerVariable(sized, i.opd, opdClass)
           W == ClassifyPointerVariable(B, i.self, Dyn)
<1>1. i.opd \in Value /\ i.self \in Value /\ sizeOf[i.self] \in Size
      /\ opdClass \in {Seq_, Dyn} /\ opdClass \in VariableStates /\ Dyn \in VariableStates
  BY ZenonT(60) DEF InstrOK, SizesOK, VariableStates
<1> HIDE DEF opdClass, kind, k
<1>2. Evolves(V, sized) /\ TableOK(sized)
  BY <1>1, SetSizeEvolves, EvolvesRefl, ZenonT(60) DEF Evolves
<1> HIDE DEF sized
<1>3. Evolves(sized, B) /\ TableOK(B) /\ B[i.opd].cls \in {Seq_, Dyn}
  BY <1>1, <1>2, ClassifyEvolves, ZenonT(60) DEF Evolves
<1> HIDE DEF B
<1>4. Evolves(B, W) /\ W[i.self].cls \in {Seq_, Dyn}
  BY <1>1, <1>3, ClassifyEvolves
<1> HIDE DEF W
<1>5. Evolves(V, W)
  BY <1>2, <1>3, <1>4, EvolvesTrans
<1>6. {i.opd, i.self} \subseteq Unsafe(W)
  BY <1>1, <1>3, <1>4 DEF Unsafe, Evolves
<1>7. processOperand(V, i) = IF kind \in {"load", "gep", "cast", "call"} THEN W ELSE V
  BY DEF processOperand, W, B, sized, opdClass, kind, k
<1> QED BY <1>5, <1>6, <1>7, EvolvesRefl DEF kind, k

\* The casts that ProcessedStayUnsafe speaks of.
ClassifiedCast(i) ==
    /\ i.interest /\ i.srcPtr
    /\ DefOf(i.opd) # 0 /\ code[DefOf(i.opd)].op \in {"load", "gep", "cast", "call"}

\* processCastInst, of interest or not.
LEMMA CastEvolves ==
    ASSUME NEW V, TableOK(V), NEW i, InstrOK(i), i.op = "cast", SizesOK
    PROVE  /\ Evolves(V, processCastInst(V, i))
           /\ ClassifiedCast(i) => {i.opd, i.self} \subseteq Unsafe(processCastInst(V, i))
<1> DEFINE W == IF i.srcPtr THEN Ensure(V, i.opd) ELSE V
           P == processOperand(W, i)
           s == GetPointerVariableInfo(P, i.opd).size
           S == SetSizeForPointerVariable(P, i.self, s)
<1>1. i.opd \in Value /\ i.self \in Value
  BY DEF InstrOK
<1>2. Evolves(V, W) /\ TableOK(W)
  <2>1. CASE i.srcPtr
    BY <1>1, <2>1, EnsureEvolves, ZenonT(60) DEF Evolves
  <2>2. CASE ~i.srcPtr
    BY <2>2, EvolvesRefl
  <2> QED BY <2>1, <2>2
<1>3. i.srcPtr => Known(W, i.opd)
  <2>1. SUFFICES ASSUME i.srcPtr, ~Known(V, i.opd) PROVE Known(W, i.opd)
    BY DEF Ensure
  <2>2. W = SetSizeForPointerVariable(V, i.opd, sizeOf[i.opd]) /\ i.opd # Null
    BY <2>1 DEF Ensure, Known, GetPointerVariableInfo, Absent
  <2> HIDE DEF W
  <2>3. W[i.opd].reg
    BY <1>1, <2>2 DEF SetSizeForPointerVariable, TableOK, VariableInfo
  <2> QED BY <2>2, <2>3 DEF Known, GetPointerVariableInfo
<1> HIDE DEF W
<1>4. /\ Evolves(W, P) /\ TableOK(P)
      /\ ClassifiedCast(i) => {i.opd, i.self} \subseteq Unsafe(P)
  BY <1>2, OperandEvolves, ZenonT(60) DEF Evolves, ClassifiedCast
<1> HIDE DEF P
<1>5. s \in Size
  BY <1>1, <1>4, InfoType, ZenonT(60) DEF VariableInfo
<1> HIDE DEF s
<1>6. Evolves(P, S)
  BY <1>1, <1>4, <1>5, SetSizeEvolves
<1> HIDE DEF S
<1>7. Evolves(V, S)
  BY <1>2, <1>4, <1>6, EvolvesTrans
<1>8. ClassifiedCast(i) => {i.opd, i.self} \subseteq Unsafe(S)
  BY <1>1, <1>4, <1>6 DEF Unsafe, Evolves
<1>9. processCastInst(V, i) = IF Known(W, i.opd) /\ i.interest /\ i.srcPtr THEN S ELSE W
  BY DEF processCastInst, W, P, s, S
<1> QED BY <1>2, <1>3, <1>7, <1>8, <1>9 DEF ClassifiedCast

\* What an instruction's processing establishes for ProcessedStayUnsafe.
MadeUnsafe(V, i) ==
    /\ i.op = "gep" /\ ~i.zero => {i.ptr, i.self} \subseteq Unsafe(V)
    /\ i.op = "cast" /\ ClassifiedCast(i) => {i.opd, i.self} \subseteq Unsafe(V)

\* processInstruction dispatches to one of the handlers above.
LEMMA InstructionEvolves ==
    ASSUME NEW V, TableOK(V), NEW i, InstrOK(i), SizesOK
    PROVE  Evolves(V, processInstruction(V, i)) /\ MadeUnsafe(processInstruction(V, i), i)
<1>1. CASE i.op = "gep"
  BY <1>1, GEPEvolves DEF processInstruction, MadeUnsafe
<1>2. CASE i.op = "cast"
  BY <1>2, CastEvolves DEF processInstruction, MadeUnsafe
<1>3. CASE i.op \notin {"gep", "cast"}
  <2>1. Evolves(V, processInstruction(V, i))
    BY <1>3, AllocaEvolves, CallEvolves, StoreEvolves, LoadEvolves, EvolvesRefl DEF processInstruction
  <2> QED BY <1>3, <2>1 DEF MadeUnsafe
<1> QED BY <1>1, <1>2, <1>3

\* The uninitialised read of processLoadInst can only touch the entry of null.
LEMMA OutcomeEvolves ==
    ASSUME NEW V, TableOK(V), NEW i, InstrOK(i), SizesOK, NEW W \in Outcomes(V, i)
    PROVE  Evolves(V, W) /\ MadeUnsafe(W, i)
<1> DEFINE N == processInstruction(V, i)
           Z == SetSizeForPointerVariable(N, Null, NonConst)
           G == SetInstantiatedExplicitSizeVariable(Z, Null)
<1>1. Evolves(V, N) /\ MadeUnsafe(N, i) /\ TableOK(N)
  BY InstructionEvolves DEF Evolves
<1> HIDE DEF N
<1>2. NonConst \in Size /\ Null \in Value
  BY NullAssumption DEF NonConst, Size
<1>3. Evolves(N, Z) /\ TableOK(Z)
  BY <1>1, <1>2, SetSizeEvolves DEF Evolves
<1> HIDE DEF Z
<1>4. Evolves(Z, G)
  BY <1>2, <1>3, SetInstEvolves
<1> HIDE DEF G
<1>5. Evolves(V, G)
  BY <1>1, <1>3, <1>4, EvolvesTrans
<1>6. W = N \/ (W = G /\ i.op = "load")
  BY DEF Outcomes, N, Z, G
<1> QED BY <1>1, <1>5, <1>6 DEF MadeUnsafe

----------------------------------------------------------------------------
(* The invariant.  Typing and NoLostClassChange need the isGlobal marks    *)
(* that registerGlobals sets; ProcessedStayUnsafe needs that the counter   *)
(* only moves after the globals are registered.                            *)

IInv ==
    /\ prog \in Programs
    /\ TypeOK
    /\ TableOK(Variables)
    /\ phase = "globals" => pc = 1 /\ visiting = None
    /\ \A g \in Global : Variables[g].isGlobal = (phase # "globals")
    /\ phase = "globals" => \A g \in Global : Variables[g].cls = Safe /\ seen[g] = Safe
    /\ NoLostClassChange
    /\ \A k \in 1..Len(code) : k < pc => MadeUnsafe(Variables, code[k])

\* Every instruction of an analysed program satisfies InstrOK.
LEMMA ProgramFacts ==
    ASSUME prog \in Programs
    PROVE  /\ SizesOK
           /\ Len(code) \in Nat
           /\ prog.alias \subseteq (1..Len(code)) \X (1..Len(code))
           /\ \A k \in 1..Len(code) : /\ InstrOK(code[k])
                                      /\ code[k].fn \in Fn
  BY ProgramAssumption DEF SizesOK, InstrOK, code, sizeOf

\* The invariant holds before runOnModule registers anything.
LEMMA InitIInv == Init => IInv
<1> SUFFICES ASSUME Init PROVE IInv
  OBVIOUS
<1>1. /\ Absent \in VariableInfo /\ Absent.cls = Safe /\ Absent.isGlobal = FALSE
      /\ Safe \notin {Unknown, Seq_, Dyn}
  BY DEF Absent, VariableInfo, VariableStates, Const, Size, Safe, Unknown, Seq_, Dyn
<1>2. TableOK(Variables)
  BY <1>1 DEF Init, TableOK
<1>3. TypeOK
  BY <1>1, <1>2 DEF Init, TypeOK, TableOK, VariableStates
<1>4. /\ \A g \in Global : Variables[g].isGlobal = (phase # "globals")
      /\ \A g \in Global : Variables[g].cls = Safe /\ seen[g] = Safe
  BY <1>1, GlobalAssumption, ZenonT(60) DEF Init
<1>5. \A k \in 1..Len(code) : k < pc => MadeUnsafe(Variables, code[k])
  BY ProgramFacts DEF Init
<1> QED BY <1>2, <1>3, <1>4, <1>5 DEF Init, IInv, NoLostClassChange

\* A step that evolves the table keeps what the invariant says of it.
LEMMA TableStep ==
    ASSUME IInv, Evolves(Variables, Variables'), phase' = phase, phase # "globals",
           prog' = prog, seen' = seen, TypeOK'
    PROVE  /\ TableOK(Variables)'
           /\ \A g \in Global : Variables'[g].isGlobal = (phase' # "globals")
           /\ NoLostClassChange'
           /\ \A k \in 1..Len(code) : MadeUnsafe(Variables, code[k]) => MadeUnsafe(Variables', code[k])
<1>1. \A S \in SUBSET Value : S \subseteq Unsafe(Variables) => S \subseteq Unsafe(Variables')
  BY DEF Evolves, Unsafe
<1>2. \A k \in 1..Len(code) : MadeUnsafe(Variables, code[k]) => MadeUnsafe(Variables', code[k])
  <2> SUFFICES ASSUME NEW k \in 1..Len(code), MadeUnsafe(Variables, code[k])
               PROVE  MadeUnsafe(Variables', code[k])
    OBVIOUS
  <2>1. InstrOK(code[k])
    BY ProgramFacts DEF IInv
  <2> QED BY <1>1, <2>1, ZenonT(60) DEF MadeUnsafe, InstrOK
<1>3. NoLostClassChange'
  BY GlobalAssumption, ZenonT(60) DEF IInv, Evolves, NoLostClassChange
<1>4. \A g \in Global : Variables'[g].isGlobal = (phase' # "globals")
  BY GlobalAssumption DEF IInv, Evolves
<1> QED BY <1>2, <1>3, <1>4 DEF Evolves, TableOK

\* The program never changes, so primed facts about its code are facts about code.
LEMMA CodeFixed ==
    ASSUME prog' = prog
    PROVE  /\ code' = code /\ sizeOf' = sizeOf
           /\ \A k \in 1..Len(code) : MadeUnsafe(Variables, code[k])' <=> MadeUnsafe(Variables', code[k])
  BY DEF code, sizeOf, MadeUnsafe, ClassifiedCast, DefOf, Unsafe

\* processGlobalVariables only adds function names.
LEMMA DependentsType ==
    ASSUME NEW d \in [Global -> SUBSET Fn], NEW i, i.fn \in Fn
    PROVE  processGlobalVariables(d, i) \in [Global -> SUBSET Fn]
  BY DEF processGlobalVariables

\* registerGlobals sets the isGlobal marks while every class is still Safe.
LEMMA RegisterStep == IInv /\ registerGlobals => IInv'
<1> SUFFICES ASSUME IInv, registerGlobals PROVE IInv'
  OBVIOUS
<1> DEFINE G(x) == [Absent EXCEPT !.reg = TRUE, !.isGlobal = TRUE, !.size = sizeOf[x]]
<1>1. \A x \in Value : /\ G(x) \in VariableInfo /\ G(x).cls = Safe /\ Safe \notin {Unknown, Seq_, Dyn}
                       /\ G(x).isGlobal = TRUE
  <2>1. Absent \in VariableInfo /\ Absent.cls = Safe /\ Safe \notin {Unknown, Seq_, Dyn}
    BY DEF Absent, VariableInfo, VariableStates, Const, Size, Safe, Unknown, Seq_, Dyn
  <2>2. \A x \in Value : sizeOf[x] \in Size
    BY ProgramFacts, ZenonT(60) DEF IInv, SizesOK
  <2> QED BY <2>1, <2>2, ZenonT(60) DEF VariableInfo
<1>2. Variables' = [x \in Value |-> IF x \in Global THEN G(x) ELSE Variables[x]]
  BY ZenonT(60) DEF registerGlobals
<1> HIDE DEF G
<1>3. TableOK(Variables')
  BY <1>1, <1>2 DEF IInv, TableOK
<1>4. \A g \in Global : Variables'[g].isGlobal = TRUE /\ Variables'[g].cls = Safe
  BY <1>1, <1>2, GlobalAssumption
<1>5. \A g \in Global : seen[g] = Safe
  <2>1. phase = "globals"
    BY ZenonT(60) DEF registerGlobals
  <2> QED BY <2>1, ZenonT(60) DEF IInv
<1>6. TypeOK'
  BY <1>3, ZenonT(60) DEF IInv, TypeOK, TableOK, registerGlobals
<1>7. \A k \in 1..Len(code) : ~(k < pc')
  <2>1. pc' = 1
    BY ZenonT(60) DEF IInv, registerGlobals
  <2>2. Len(code) \in Nat
    BY ProgramFacts DEF IInv
  <2> QED BY <2>1, <2>2, SMTT(60)
<1> QED BY <1>3, <1>4, <1>5, <1>6, <1>7, CodeFixed, ZenonT(60) DEF IInv, registerGlobals, NoLostClassChange, TableOK

\* The instruction analyzeAllFunctions is at is a well-formed instruction of the module.
LEMMA AnalyzedInstruction ==
    ASSUME IInv, analyzeInstruction
    PROVE  pc \in 1..Len(code) /\ InstrOK(code[pc]) /\ SizesOK /\ code[pc].fn \in Fn
<1>1. prog \in Programs
  BY DEF IInv
<1>2. pc \in Nat \ {0} /\ pc <= Len(code)
  BY DEF IInv, TypeOK, analyzeInstruction
<1>3. pc \in 1..Len(code)
  BY <1>1, <1>2, ProgramFacts
<1> QED BY <1>1, <1>3, ProgramFacts

\* So is an alias that classificationPropagation reprocesses.
LEMMA AliasInstruction ==
    ASSUME IInv, NEW ua \in rescan
    PROVE  /\ <<ua[1], ua[2]>> \in prog.alias /\ ua[1] \in 1..Len(code)
           /\ ua[2] \in 1..Len(code) /\ InstrOK(code[ua[2]]) /\ SizesOK /\ code[ua[2]].fn \in Fn
<1>1. prog \in Programs
  BY DEF IInv
<1>2. <<ua[1], ua[2]>> \in prog.alias
  BY ZenonT(60) DEF IInv, TypeOK
<1>3. ua[1] \in 1..Len(code) /\ ua[2] \in 1..Len(code)
  <2>1. <<ua[1], ua[2]>> \in (1..Len(code)) \X (1..Len(code))
    BY <1>1, <1>2, ProgramFacts, ZenonT(60)
  <2> QED BY <2>1
<1> QED BY <1>1, <1>2, <1>3, ProgramFacts, ZenonT(60)

\* One instruction of analyzeAllFunctions.
LEMMA AnalyzeStep == IInv /\ analyzeInstruction => IInv'
<1> SUFFICES ASSUME IInv, analyzeInstruction PROVE IInv'
  OBVIOUS
<1>1. pc \in 1..Len(code) /\ InstrOK(code[pc]) /\ SizesOK /\ code[pc].fn \in Fn
  BY AnalyzedInstruction, SMTT(60)
<1>2. Evolves(Variables, Variables') /\ MadeUnsafe(Variables', code[pc])
  BY <1>1, OutcomeEvolves, ZenonT(60) DEF IInv, analyzeInstruction
<1>3. TypeOK'
  BY <1>1, <1>2, DependentsType, SMTT(60) DEF IInv, TypeOK, analyzeInstruction, Evolves, TableOK
<1>4. \A k \in 1..Len(code) : k < pc' => MadeUnsafe(Variables', code[k])
  BY <1>1, <1>2, <1>3, TableStep DEF IInv, TypeOK, analyzeInstruction
<1> QED BY <1>1, <1>2, <1>3, <1>4, TableStep, CodeFixed, ZenonT(60) DEF IInv, analyzeInstruction

\* What is to be reprocessed are aliases of users.
LEMMA RescanPairs ==
    ASSUME prog \in Programs, NEW g, NEW r \in RescanOf(g)
    PROVE  <<r[1], r[2]>> \in prog.alias
<1>1. PICK ua \in prog.alias : \E n \in UsesOf(code[ua[1]], g) : r = <<ua[1], ua[2], n>>
  BY ZenonT(60) DEF RescanOf
<1>2. ua \in (1..Len(code)) \X (1..Len(code))
  BY ProgramFacts, ZenonT(60)
<1>3. ua = <<ua[1], ua[2]>>
  BY <1>2
<1>4. r[1] = ua[1] /\ r[2] = ua[2]
  BY <1>1
<1> QED BY <1>3, <1>4

\* classificationPropagation reaches a global: clearing its flag records the class seen.
LEMMA VisitStep == ASSUME IInv, NEW g \in Global, visitGlobal(g) PROVE IInv'
<1>1. CASE ~(Variables[g].isGlobal /\ Variables[g].changed)
  BY <1>1, CodeFixed DEF IInv, TypeOK, visitGlobal, NoLostClassChange, TableOK
<1>2. CASE Variables[g].isGlobal /\ Variables[g].changed
  <2>1. /\ Variables' = [Variables EXCEPT ![g].changed = FALSE]
        /\ seen' = [seen EXCEPT ![g] = Variables[g].cls]
        /\ rescan' = RescanOf(g) /\ visiting' = g /\ toVisit' = toVisit \ {g}
        /\ UNCHANGED <<prog, dependentFunctions, phase, pc>> /\ phase = "propagate"
    BY <1>2 DEF visitGlobal
  <2>2. /\ TableOK(Variables')
        /\ \A x \in Value : Variables'[x].cls = Variables[x].cls /\ Variables'[x].isGlobal = Variables[x].isGlobal
        /\ \A x \in Value \ {g} : Variables'[x] = Variables[x]
    <3>0. Variables \in [Value -> VariableInfo]
      BY ZenonT(60) DEF IInv, TableOK
    <3>1. Variables' \in [Value -> VariableInfo]
      BY <2>1, <3>0, ZenonT(60) DEF VariableInfo
    <3>2. \A x \in Value : /\ Variables'[x].cls = Variables[x].cls /\ Variables'[x].reg = Variables[x].reg
                           /\ Variables'[x].isGlobal = Variables[x].isGlobal
                           /\ x # g => Variables'[x] = Variables[x]
      BY <2>1, <3>0, <3>1, GlobalAssumption DEF VariableInfo
    <3> QED BY <3>1, <3>2, ZenonT(60) DEF IInv, TableOK
  <2>3. TypeOK'
    <3>1. \A r \in rescan' : <<r[1], r[2]>> \in prog'.alias
      BY <2>1, RescanPairs, ZenonT(60) DEF IInv
    <3>2. Variables[g].cls \in VariableStates
      BY GlobalAssumption DEF IInv, TableOK, VariableInfo
    <3> QED BY <2>1, <2>2, <3>1, <3>2 DEF IInv, TypeOK, TableOK
  <2>4. NoLostClassChange'
    BY <2>1, <2>2, GlobalAssumption DEF IInv, TypeOK, NoLostClassChange
  <2>5. \A k \in 1..Len(code) : MadeUnsafe(Variables, code[k]) => MadeUnsafe(Variables', code[k])
    BY <2>2, ZenonT(60) DEF MadeUnsafe, Unsafe
  <2> QED BY <2>1, <2>2, <2>3, <2>4, <2>5, CodeFixed, GlobalAssumption, ZenonT(60) DEF IInv, TableOK
<1> QED BY <1>1, <1>2

\* classificationPropagation reprocesses an alias.
LEMMA ReprocessStep == ASSUME IInv, NEW ua \in rescan, reprocessAlias(ua) PROVE IInv'
<1>1. ua[2] \in 1..Len(code) /\ InstrOK(code[ua[2]]) /\ SizesOK /\ code[ua[2]].fn \in Fn
  BY AliasInstruction
<1>2. Evolves(Variables, Variables')
  BY <1>1, OutcomeEvolves DEF IInv, reprocessAlias
<1>3. phase # "globals"
  BY ZenonT(60) DEF IInv, reprocessAlias
<1>4. TypeOK'
  BY <1>1, <1>2, DependentsType, ZenonT(60) DEF IInv, TypeOK, reprocessAlias, Evolves, TableOK
<1> QED BY <1>2, <1>3, <1>4, TableStep, CodeFixed, ZenonT(60) DEF IInv, reprocessAlias

\* The remaining steps leave the table alone.
LEMMA PhaseStep ==
    IInv /\ (startPropagation \/ endVisit \/ endPropagation \/ UNCHANGED vars) => IInv'
  BY CodeFixed DEF IInv, TypeOK, TableOK, NoLostClassChange, startPropagation, endVisit,
     endPropagation, vars

\* Every step of the pass keeps the invariant.
LEMMA NextIInv == IInv /\ [Next]_vars => IInv'
  BY RegisterStep, AnalyzeStep, VisitStep, ReprocessStep, PhaseStep DEF Next, Done

\* The invariant holds throughout.
LEMMA SpecIInv == Spec => []IInv
  BY InitIInv, NextIInv, PTL DEF Spec

----------------------------------------------------------------------------
(* The results.                                                            *)

\* The table, the flags and the iterator state of UnifiedMemSafePass keep their types.
THEOREM TypeCorrect == Spec => []TypeOK
<1>1. IInv => TypeOK
  BY ZenonT(60) DEF IInv
<1> QED BY <1>1, SpecIInv, PTL

\* Whatever the order in which the map is iterated, and even when an insertion rehashes
\* it, each change of a global's class is announced by didClassificationChange.
THEOREM ClassChangesAnnounced == Spec => []NoLostClassChange
<1>1. IInv => NoLostClassChange
  BY ZenonT(60) DEF IInv
<1> QED BY <1>1, SpecIInv, PTL

\* A GEP or a classified cast, once processed, keeps its operands unsafe to the end.
THEOREM UnsafeAfterProcessing == Spec => []ProcessedStayUnsafe
<1>1. IInv => ProcessedStayUnsafe
  BY ZenonT(60) DEF IInv, ProcessedStayUnsafe, MadeUnsafe, ClassifiedCast
<1> QED BY <1>1, SpecIInv, PTL

\* A step of the pass, as ClassesRise describes it.
Rises == \A x \in Value :
           /\ Variables[x].reg => Variables'[x].reg
           /\ Variables'[x].cls < Variables[x].cls => Variables[x].cls = Dyn /\ Variables'[x].cls = Seq_

\* An evolution of the table is such a step.
LEMMA EvolutionRises == IInv /\ IInv' /\ Evolves(Variables, Variables') => Rises
  BY DEF IInv, Evolves, TableOK, VariableInfo, VariableStates, Unknown, Safe, Seq_, Dyn, Rises

\* Every step of the pass is one.
LEMMA StepRises == ASSUME IInv, Next PROVE Rises
<1>1. CASE analyzeInstruction
  <2>1. pc \in 1..Len(code) /\ InstrOK(code[pc]) /\ SizesOK
    BY <1>1, AnalyzedInstruction, ZenonT(60)
  <2> QED BY <1>1, <2>1, OutcomeEvolves, NextIInv, EvolutionRises, ZenonT(60) DEF IInv, analyzeInstruction
<1>2. CASE \E ua \in rescan : reprocessAlias(ua)
  <2> PICK ua \in rescan : reprocessAlias(ua)
    BY <1>2
  <2>1. ua[2] \in 1..Len(code) /\ InstrOK(code[ua[2]]) /\ SizesOK
    BY AliasInstruction
  <2> QED BY <2>1, OutcomeEvolves, NextIInv, EvolutionRises, ZenonT(60) DEF IInv, reprocessAlias
<1>3. CASE registerGlobals
  <2>1. \A g \in Global : Variables[g].cls = Safe
    BY <1>3, ZenonT(60) DEF IInv, registerGlobals
  <2>2. \A x \in Value : IF x \in Global THEN Variables'[x].reg /\ Variables'[x].cls = Safe
                                          ELSE Variables'[x] = Variables[x]
    BY <1>3, ZenonT(60) DEF registerGlobals, Absent
  <2>3. \A x \in Value : Variables[x].cls \in VariableStates
    BY ZenonT(60) DEF IInv, TableOK, VariableInfo
  <2> QED BY <2>1, <2>2, <2>3, SMTT(60) DEF VariableStates, Unknown, Safe, Seq_, Dyn, Rises
<1>4. CASE \E g \in Global : visitGlobal(g)
  BY <1>4, SMTT(60) DEF IInv, visitGlobal, TableOK, VariableInfo, VariableStates, Unknown, Safe, Seq_, Dyn, Rises
<1>5. CASE startPropagation \/ endVisit \/ endPropagation \/ Done
  BY <1>5 DEF IInv, TableOK, VariableInfo, VariableStates, startPropagation, endVisit,
     endPropagation, Done, vars, Unknown, Safe, Seq_, Dyn, Rises
<1> QED BY <1>1, <1>2, <1>3, <1>4, <1>5, ZenonT(60) DEF Next

\* ClassifyPointerVariable's Dyn-to-Seq case is the only lowering of a class in the whole pass.
THEOREM ClassesOnlyRise == Spec => ClassesRise
<1>1. [Next]_vars /\ IInv => [Rises]_vars
  BY StepRises, ZenonT(60)
<1> QED BY <1>1, SpecIInv, PTL DEF Spec, ClassesRise, Rises

----------------------------------------------------------------------------
(* Unsafety through memory, and the functions that depend on a global.      *)

\* A store of an unsafe pointer makes the location unsafe (processStoreInst).
LEMMA StoreFlows ==
    ASSUME NEW V, TableOK(V), NEW i, InstrOK(i), SizesOK, i.op = "store", i.ptrVal,
           i.val # Null, i.val \in Unsafe(V)
    PROVE  i.ptr \in Unsafe(processStoreInst(V, i))
<1> DEFINE W == Ensure(V, i.val)
           info == GetPointerVariableInfo(W, i.val)
           C == ClassifyPointerVariable(W, i.ptr, info.cls)
           S == SetSizeForPointerVariable(C, i.ptr, info.size)
<1>1. i.val \in Value /\ i.ptr \in Value
  BY ZenonT(60) DEF InstrOK
<1>2. Evolves(V, W) /\ TableOK(W)
  BY <1>1, EnsureEvolves, ZenonT(60) DEF Evolves
<1> HIDE DEF W
<1>3. info \in VariableInfo /\ info.cls \in {Seq_, Dyn} /\ info.cls \in VariableStates /\ info.size \in Size
  BY <1>1, <1>2, InfoType, SMTT(60) DEF GetPointerVariableInfo, Unsafe, Evolves, VariableInfo
<1> HIDE DEF info
<1>4. TableOK(C) /\ C[i.ptr].cls \in {Seq_, Dyn}
  BY <1>1, <1>2, <1>3, ClassifyEvolves, ZenonT(60) DEF Evolves
<1> HIDE DEF C
<1>5. S[i.ptr].cls \in {Seq_, Dyn}
  BY <1>1, <1>3, <1>4, SetSizeEvolves, ZenonT(60) DEF Evolves
<1>6. processStoreInst(V, i) = S
  BY DEF processStoreInst, Flow, S, C, info, W
<1> QED BY <1>1, <1>5, <1>6, ZenonT(60) DEF Unsafe

\* A load from an unsafe location gives an unsafe pointer (processLoadInst).
LEMMA LoadFlows ==
    ASSUME NEW V, TableOK(V), NEW i, InstrOK(i), SizesOK, i.op = "load", i.ptrVal,
           i.ptr # Null, i.ptr \in Unsafe(V)
    PROVE  i.self \in Unsafe(processLoadInst(V, i))
<1> DEFINE W == IF i.constPtr THEN Ensure(V, i.ptr) ELSE V
           info == GetPointerVariableInfo(W, i.ptr)
           C == ClassifyPointerVariable(W, i.self, info.cls)
           S == SetSizeForPointerVariable(C, i.self, info.size)
<1>1. i.ptr \in Value /\ i.self \in Value
  BY ZenonT(60) DEF InstrOK
<1>2. Evolves(V, W) /\ TableOK(W)
  BY <1>1, EnsureEvolves, EvolvesRefl, ZenonT(60) DEF Evolves
<1> HIDE DEF W
<1>3. /\ info \in VariableInfo /\ info.cls \in {Seq_, Dyn} /\ info.cls \in VariableStates /\ info.size \in Size
      /\ info.reg
  <2>1. W[i.ptr].cls \in {Seq_, Dyn}
    BY <1>1, <1>2 DEF Unsafe, Evolves
  <2>2. W[i.ptr].reg
    BY <1>1, <1>2, <2>1 DEF TableOK
  <2> QED BY <1>1, <1>2, <2>1, <2>2, InfoType DEF GetPointerVariableInfo, VariableInfo
<1>4. Known(W, i.ptr)
  BY <1>3 DEF Known
<1>5. processLoadInst(V, i) = S
  BY <1>4 DEF processLoadInst, Flow, W
<1> HIDE DEF info
<1>6. TableOK(C) /\ C[i.self].cls \in {Seq_, Dyn}
  BY <1>1, <1>2, <1>3, ClassifyEvolves, ZenonT(60) DEF Evolves
<1> HIDE DEF C
<1>7. S[i.self].cls \in {Seq_, Dyn}
  BY <1>1, <1>3, <1>6, SetSizeEvolves, ZenonT(60) DEF Evolves
<1> QED BY <1>1, <1>5, <1>7, ZenonT(60) DEF Unsafe

\* The GEP at i indexes off a pointer that the store at j stores; the load at m reads
\* what j wrote.
IndexedThenStored(i, j) ==
    /\ code[i].op = "gep" /\ ~code[i].zero
    /\ code[j].op = "store" /\ code[j].ptrVal /\ code[j].val \in {code[i].self, code[i].ptr} \ {Null}
LoadedFrom(j, m) == code[m].op = "load" /\ code[m].ptrVal /\ code[m].ptr = code[j].ptr /\ code[m].ptr # Null

\* The invariant behind UnsafetyFlows; every function that mentions a global is among its
\* dependent functions.
FlowInv ==
    /\ pc <= Len(code) + 1
    /\ phase \in {"propagate", "done"} => pc > Len(code)
    /\ visiting # None => phase = "propagate"
    /\ \A k \in 1..Len(code) : k < pc =>
          \A g \in Global : Mentions(code[k], g) => code[k].fn \in dependentFunctions[g]
    /\ \A i, j \in 1..Len(code) : i < j /\ j < pc /\ IndexedThenStored(i, j) =>
          /\ code[j].ptr \in Unsafe(Variables)
          /\ \A m \in 1..Len(code) : j < m /\ m < pc /\ LoadedFrom(j, m) => code[m].self \in Unsafe(Variables)

\* What processing an instruction does to the pointers that flow through memory.
LEMMA OutcomeFlows ==
    ASSUME NEW V, TableOK(V), NEW i, InstrOK(i), SizesOK, NEW W \in Outcomes(V, i), i.ptrVal
    PROVE  /\ i.op = "store" /\ i.val # Null /\ i.val \in Unsafe(V) => i.ptr \in Unsafe(W)
           /\ i.op = "load" /\ i.ptr # Null /\ i.ptr \in Unsafe(V) => i.self \in Unsafe(W)
<1>1. CASE i.op = "store"
  BY <1>1, StoreFlows DEF Outcomes, processInstruction
<1>2. CASE i.op = "load"
  BY <1>2, LoadFlows DEF Outcomes, processInstruction
<1> QED BY <1>1, <1>2

\* Unsafe pointers stay unsafe.
LEMMA UnsafeGrows == ASSUME IInv, [Next]_vars PROVE Unsafe(Variables) \subseteq Unsafe(Variables')
<1>1. IInv'
  BY NextIInv, SMTT(60)
<1>2. CASE Next
  <2>1. \A x \in Value : Variables[x].cls \in VariableStates /\ Variables'[x].cls \in VariableStates
    BY <1>1, ZenonT(60) DEF IInv, TableOK, VariableInfo
  <2>2. Rises
    BY <1>2, StepRises
  <2> QED BY <2>1, <2>2, SMTT(60) DEF Rises, Unsafe, VariableStates, Unknown, Safe, Seq_, Dyn
<1>3. CASE UNCHANGED vars
  BY <1>3, SMTT(60) DEF vars, Unsafe
<1> QED BY <1>2, <1>3

\* Only analyzeAllFunctions moves to a new instruction, and dependentFunctions grows.
LEMMA FlowInvKept ==
    ASSUME IInv, FlowInv, [Next]_vars, prog' = prog, pc' = pc,
           visiting' # None => phase' = "propagate",
           phase' \in {"propagate", "done"} => pc > Len(code),
           \A g \in Global : dependentFunctions[g] \subseteq dependentFunctions'[g]
    PROVE  FlowInv'
<1>1. Unsafe(Variables) \subseteq Unsafe(Variables')
  BY UnsafeGrows
<1>2. code' = code
  BY CodeFixed, ZenonT(60)
<1>4. /\ \A i, j \in 1..Len(code) : IndexedThenStored(i, j)' = IndexedThenStored(i, j)
      /\ \A j, m \in 1..Len(code) : LoadedFrom(j, m)' = LoadedFrom(j, m)
      /\ Unsafe(Variables)' = Unsafe(Variables')
      /\ \A k \in 1..Len(code), g \in Global : Mentions(code[k], g)' = Mentions(code[k], g)
  BY <1>2 DEF IndexedThenStored, LoadedFrom, Unsafe, Mentions, UsesOf
<1>5. \A k \in 1..Len(code) : k < pc =>
          \A g \in Global : Mentions(code[k], g) => code[k].fn \in dependentFunctions'[g]
  BY ZenonT(60) DEF FlowInv
<1>6. \A i, j \in 1..Len(code) : i < j /\ j < pc /\ IndexedThenStored(i, j) =>
          /\ code[j].ptr \in Unsafe(Variables')
          /\ \A m \in 1..Len(code) : j < m /\ m < pc /\ LoadedFrom(j, m) => code[m].self \in Unsafe(Variables')
  BY <1>1, ZenonT(60) DEF FlowInv
<1> QED BY <1>2, <1>4, <1>5, <1>6 DEF FlowInv

\* The next instruction: a store after the GEP, or a load after the store.
LEMMA FlowAnalyze == ASSUME IInv, FlowInv, analyzeInstruction PROVE FlowInv'
<1>1. pc \in 1..Len(code) /\ InstrOK(code[pc]) /\ SizesOK /\ Len(code) \in Nat
  BY AnalyzedInstruction, ProgramFacts, ZenonT(60) DEF IInv
<1>2. /\ Variables' \in Outcomes(Variables, code[pc]) /\ pc' = pc + 1 /\ prog' = prog
      /\ dependentFunctions' = processGlobalVariables(dependentFunctions, code[pc])
      /\ phase = "analyze" /\ phase' = phase /\ visiting' = visiting
  BY DEF analyzeInstruction
<1>3. Unsafe(Variables) \subseteq Unsafe(Variables')
  BY UnsafeGrows DEF Next
<1>4. code' = code
  BY <1>2, CodeFixed, ZenonT(60)
<1>5. /\ \A i, j \in 1..Len(code) : IndexedThenStored(i, j)' = IndexedThenStored(i, j)
      /\ \A j, m \in 1..Len(code) : LoadedFrom(j, m)' = LoadedFrom(j, m)
      /\ Unsafe(Variables)' = Unsafe(Variables')
      /\ \A k \in 1..Len(code), g \in Global : Mentions(code[k], g)' = Mentions(code[k], g)
  BY <1>4, ZenonT(60) DEF IndexedThenStored, LoadedFrom, Unsafe, Mentions, UsesOf
<1>6. ASSUME NEW k \in 1..Len(code), k < pc', NEW g \in Global, Mentions(code[k], g)
      PROVE  code[k].fn \in dependentFunctions'[g]
  <2>2. CASE k = pc
    BY <2>2, <1>2, <1>6, ZenonT(60) DEF processGlobalVariables
  <2>3. CASE k < pc
    <3>1. code[k].fn \in dependentFunctions[g]
      BY <1>6, <2>3, ZenonT(60) DEF FlowInv
    <3> QED BY <3>1, <1>2, ZenonT(60) DEF processGlobalVariables
  <2> QED BY <1>1, <1>2, <1>6, <2>2, <2>3, SMTT(60)
<1>7. ASSUME NEW i \in 1..Len(code), NEW j \in 1..Len(code), i < j, j < pc', IndexedThenStored(i, j)
      PROVE  /\ code[j].ptr \in Unsafe(Variables')
             /\ \A m \in 1..Len(code) : j < m /\ m < pc' /\ LoadedFrom(j, m) => code[m].self \in Unsafe(Variables')
  <2>1. CASE j = pc
    <3>1. {code[i].ptr, code[i].self} \subseteq Unsafe(Variables)
      BY <1>1, <1>7, <2>1, ZenonT(60) DEF IInv, MadeUnsafe, IndexedThenStored
    <3>2. code[pc].val # Null /\ code[pc].val \in Unsafe(Variables) /\ code[pc].op = "store" /\ code[pc].ptrVal
      BY <3>1, <1>7, <2>1, ZenonT(60) DEF IndexedThenStored
    <3>3. code[pc].ptr \in Unsafe(Variables')
      BY <3>2, <1>1, <1>2, OutcomeFlows, ZenonT(60) DEF IInv
    <3>4. \A m \in 1..Len(code) : ~(j < m /\ m < pc')
      BY <1>1, <1>2, <2>1
    <3> QED BY <3>3, <3>4, <2>1, ZenonT(60)
  <2>2. CASE j < pc
    <3>1. code[j].ptr \in Unsafe(Variables)
      BY <1>7, <2>2 DEF FlowInv
    <3>2. ASSUME NEW m \in 1..Len(code), j < m, m < pc', LoadedFrom(j, m)
          PROVE  code[m].self \in Unsafe(Variables')
      <4>1. CASE m = pc
        BY <3>1, <3>2, <4>1, <1>1, <1>2, OutcomeFlows, ZenonT(60) DEF IInv, LoadedFrom
      <4>2. CASE m < pc
        BY <1>3, <1>7, <2>2, <3>2, <4>2 DEF FlowInv
      <4> QED BY <1>1, <1>2, <3>2, <4>1, <4>2, SMTT(60)
    <3> QED BY <1>3, <3>1, <3>2
  <2> QED BY <1>1, <1>2, <1>7, <2>1, <2>2, SMTT(60)
<1> QED BY <1>1, <1>2, <1>4, <1>5, <1>6, <1>7, SMTT(60) DEF FlowInv

\* Every step of the pass keeps it.
LEMMA FlowStep == IInv /\ FlowInv /\ [Next]_vars => FlowInv'
<1> SUFFICES ASSUME IInv, FlowInv, [Next]_vars PROVE FlowInv'
  BY SMTT(60)
<1>0. Len(code) \in Nat /\ pc \in Nat
  BY ProgramFacts, ZenonT(60) DEF IInv, TypeOK
<1>1. CASE registerGlobals
  <2>1. pc' = 1 /\ code' = code /\ phase' = "analyze" /\ visiting' = None
    BY <1>1, CodeFixed, ZenonT(60) DEF IInv, registerGlobals
  <2> QED BY <1>0, <2>1, SMTT(60) DEF FlowInv
<1>2. CASE analyzeInstruction
  BY <1>2, FlowAnalyze, ZenonT(60)
<1>3. CASE startPropagation
  BY <1>0, <1>3, FlowInvKept, ZenonT(60) DEF startPropagation, FlowInv
<1>4. CASE \E g \in Global : visitGlobal(g)
  BY <1>0, <1>4, FlowInvKept, ZenonT(60) DEF visitGlobal, FlowInv
<1>5. CASE \E ua \in rescan : reprocessAlias(ua)
  <2> PICK ua \in rescan : reprocessAlias(ua)
    BY <1>5
  <2>1. \A g \in Global : dependentFunctions[g] \subseteq dependentFunctions'[g]
    BY ZenonT(60) DEF reprocessAlias, processGlobalVariables
  <2> QED BY <1>0, <2>1, FlowInvKept, ZenonT(60) DEF reprocessAlias, FlowInv
<1>6. CASE endVisit \/ endPropagation \/ UNCHANGED vars
  BY <1>0, <1>6, FlowInvKept, ZenonT(60) DEF endVisit, endPropagation, vars, FlowInv
<1> QED BY <1>1, <1>2, <1>3, <1>4, <1>5, <1>6 DEF Next, Done

\* Both hold throughout.
LEMMA SpecFlowInv == Spec => [](IInv /\ FlowInv)
<1>1. Init => FlowInv
  <2> SUFFICES ASSUME Init PROVE FlowInv
    OBVIOUS
  <2>1. Len(code) \in Nat
    BY ProgramFacts DEF Init
  <2> QED BY <2>1, SMTT(60) DEF Init, FlowInv
<1> QED BY <1>1, InitIInv, NextIInv, FlowStep, PTL DEF Spec

\* For every program a pointer indexed before it is stored makes the location and every
\* later load from it unsafe, whatever is processed in between or rescanned afterwards
\* (processGetElementPtrInst, processStoreInst, processLoadInst).
THEOREM UnsafetyFlowsThroughMemory == Spec => []UnsafetyFlows
<1>1. IInv /\ FlowInv => UnsafetyFlows
  <2> SUFFICES ASSUME IInv, FlowInv, NEW i \in 1..(pc - 1), NEW j \in 1..(pc - 1), i < j, IndexedThenStored(i, j)
               PROVE  /\ code[j].ptr \in Unsafe(Variables)
                      /\ \A m \in (j + 1)..(pc - 1) : LoadedFrom(j, m) => code[m].self \in Unsafe(Variables)
    BY ZenonT(60) DEF UnsafetyFlows, IndexedThenStored, LoadedFrom
  <2>1. Len(code) \in Nat /\ pc \in Nat /\ pc <= Len(code) + 1
    BY ProgramFacts, ZenonT(60) DEF IInv, TypeOK, FlowInv
  <2>2. i \in 1..Len(code) /\ j \in 1..Len(code) /\ j < pc
    BY <2>1
  <2>3. \A m \in (j + 1)..(pc - 1) : m \in 1..Len(code) /\ j < m /\ m < pc
    BY <2>1, <2>2, SMTT(60)
  <2> QED BY <2>2, <2>3, SMTT(60) DEF FlowInv
<1> QED BY <1>1, SpecFlowInv, PTL

----------------------------------------------------------------------------
(* The propagation catches up with what was processed before a change.      *)

\* The alias of a user of g hands on the class of g.
HandsOnFor(g, ua) == UsesOf(code[ua[1]], g) # {} /\ HandsOn(code[ua[2]], g)
ToDo(g, ua) == visiting = g /\ \E r \in rescan : r[1] = ua[1] /\ r[2] = ua[2]

\* The invariant behind RescanCatchesUp: with the class that a global had when its flag
\* was cleared, each of these aliases has been reprocessed or is still to be.
CatchInv ==
    /\ phase = "done" => visiting = None
    /\ \A g \in Global : seen[g] \in {Seq_, Dyn} =>
          /\ g \in Unsafe(Variables)
          /\ \A ua \in prog.alias : HandsOnFor(g, ua) => Taker(code[ua[2]]) \in Unsafe(Variables) \/ ToDo(g, ua)

\* Processing an instruction that hands on the class of an unsafe pointer.
LEMMA OutcomeHandsOn ==
    ASSUME NEW V, TableOK(V), NEW i, InstrOK(i), SizesOK, NEW W \in Outcomes(V, i),
           NEW g \in Global, g \in Unsafe(V), HandsOn(i, g)
    PROVE  Taker(i) \in Unsafe(W)
<1>1. g # Null
  BY GlobalAssumption
<1>2. CASE i.op = "store"
  BY <1>1, <1>2, OutcomeFlows, ZenonT(60) DEF HandsOn, Taker
<1>3. CASE i.op = "load"
  <2>1. i.op # "store"
    BY <1>3
  <2> QED BY <1>1, <1>3, <2>1, OutcomeFlows, ZenonT(60) DEF HandsOn, Taker
<1> QED BY <1>2, <1>3, ZenonT(60) DEF HandsOn

\* A step that leaves the loop where it is keeps what has been handed on.
LEMMA CatchKept ==
    ASSUME IInv, CatchInv, [Next]_vars, prog' = prog, seen' = seen, visiting' = visiting, rescan' = rescan,
           phase' = "done" => visiting' = None
    PROVE  CatchInv'
<1>1. Unsafe(Variables) \subseteq Unsafe(Variables') /\ Unsafe(Variables)' = Unsafe(Variables')
  BY UnsafeGrows, ZenonT(60) DEF Unsafe
<1>2. code' = code
  BY CodeFixed, ZenonT(60)
<1>3. \A g \in Global, ua \in prog.alias :
        /\ HandsOnFor(g, ua)' = HandsOnFor(g, ua) /\ Taker(code[ua[2]])' = Taker(code[ua[2]])
        /\ ToDo(g, ua)' = ToDo(g, ua)
  BY <1>2, ZenonT(60) DEF HandsOnFor, ToDo, UsesOf, HandsOn, Taker
<1> QED BY <1>1, <1>2, <1>3, ZenonT(60) DEF CatchInv

\* When the loop reaches a global with its flag up, all the aliases of its users are to do.
LEMMA CatchVisit == ASSUME IInv, FlowInv, CatchInv, NEW h \in Global, visitGlobal(h) PROVE CatchInv'
<1>1. CASE ~(Variables[h].isGlobal /\ Variables[h].changed)
  BY <1>1, CatchKept, ZenonT(60) DEF visitGlobal, CatchInv, Next
<1>2. CASE Variables[h].isGlobal /\ Variables[h].changed
  <2>1. /\ seen' = [seen EXCEPT ![h] = Variables[h].cls] /\ seen \in [Global -> VariableStates]
        /\ rescan' = RescanOf(h) /\ visiting' = h /\ visiting = None
        /\ prog' = prog /\ phase' = "propagate" /\ pc > Len(code)
    BY <1>2, ZenonT(60) DEF visitGlobal, FlowInv, IInv, TypeOK
  <2>2. Unsafe(Variables) \subseteq Unsafe(Variables') /\ Unsafe(Variables)' = Unsafe(Variables')
    BY UnsafeGrows, ZenonT(60) DEF Unsafe, Next
  <2>3. code' = code
    BY <2>1, CodeFixed, ZenonT(60)
  <2>4. \A g \in Global, ua \in prog.alias :
          HandsOnFor(g, ua)' = HandsOnFor(g, ua) /\ Taker(code[ua[2]])' = Taker(code[ua[2]])
    BY <2>3, ZenonT(60) DEF HandsOnFor, UsesOf, HandsOn, Taker
  <2>5. ASSUME NEW ua \in prog.alias, HandsOnFor(h, ua) PROVE ToDo(h, ua)'
    <3>1. ua[1] \in 1..Len(code) /\ ua[1] < pc
      <4>1. ua \in (1..Len(code)) \X (1..Len(code)) /\ Len(code) \in Nat /\ pc \in Nat
        BY ProgramFacts, ZenonT(60) DEF IInv, TypeOK
      <4> QED BY <2>1, <4>1
    <3>2. PICK n : n \in UsesOf(code[ua[1]], h)
      BY <2>5, ZenonT(60) DEF HandsOnFor
    <3>3. Mentions(code[ua[1]], h)
      BY <3>2, ZenonT(60) DEF Mentions
    <3>4. code[ua[1]].fn \in dependentFunctions[h]
      BY <3>1, <3>3, ZenonT(60) DEF FlowInv
    <3>5. <<ua[1], ua[2], n>> \in RescanOf(h)
      <4>1. ua \in {p \in prog.alias : code[p[1]].fn \in dependentFunctions[h]}
        BY <3>4, ZenonT(60)
      <4>2. <<ua[1], ua[2], n>> \in {<<ua[1], ua[2], m>> : m \in UsesOf(code[ua[1]], h)}
        BY <3>2, ZenonT(60)
      <4> QED BY <4>1, <4>2, ZenonT(60) DEF RescanOf
    <3>6. <<ua[1], ua[2], n>>[1] = ua[1] /\ <<ua[1], ua[2], n>>[2] = ua[2]
      OBVIOUS
    <3> QED BY <2>1, <3>5, <3>6, ZenonT(60) DEF ToDo
  <2>6. ASSUME NEW g \in Global, g # h PROVE seen'[g] = seen[g] /\ \A ua \in prog.alias : ~ToDo(g, ua)
    <3>1. g # None
      BY GlobalAssumption, NoneAssumption
    <3> QED BY <2>1, <2>6, <3>1, ZenonT(60) DEF ToDo
  <2>7. seen'[h] \in {Seq_, Dyn} => h \in Unsafe(Variables)
    <3>1. seen'[h] = Variables[h].cls /\ h \in Value
      BY <2>1, GlobalAssumption, ZenonT(60)
    <3> QED BY <3>1, ZenonT(60) DEF Unsafe
  <2>8. ASSUME NEW g \in Global, seen'[g] \in {Seq_, Dyn}
        PROVE  /\ g \in Unsafe(Variables')
               /\ \A ua \in prog.alias : HandsOnFor(g, ua) => Taker(code[ua[2]]) \in Unsafe(Variables') \/ ToDo(g, ua)'
    <3>1. CASE g = h
      BY <2>2, <2>5, <2>7, <2>8, <3>1, ZenonT(60)
    <3>2. CASE g # h
      BY <2>2, <2>6, <2>8, <3>2, ZenonT(60) DEF CatchInv
    <3> QED BY <3>1, <3>2, ZenonT(60)
  <2>9. phase' # "done"
    BY <2>1
  <2> QED BY <2>1, <2>2, <2>3, <2>4, <2>8, <2>9, ZenonT(60) DEF CatchInv
<1> QED BY <1>1, <1>2, ZenonT(60)

\* An alias that is reprocessed hands on the class.
LEMMA CatchReprocess == ASSUME IInv, CatchInv, FlowInv, NEW q \in rescan, reprocessAlias(q) PROVE CatchInv'
<1>1. /\ Variables' \in Outcomes(Variables, code[q[2]]) /\ rescan' = rescan \ {q}
      /\ seen' = seen /\ visiting' = visiting /\ prog' = prog /\ phase' = phase /\ visiting # None
  BY ZenonT(60) DEF reprocessAlias
<1>2. q[2] \in 1..Len(code) /\ InstrOK(code[q[2]]) /\ SizesOK /\ TableOK(Variables)
  BY AliasInstruction, ZenonT(60) DEF IInv
<1>3. Unsafe(Variables) \subseteq Unsafe(Variables') /\ Unsafe(Variables)' = Unsafe(Variables')
  BY UnsafeGrows, ZenonT(60) DEF Unsafe, Next
<1>4. code' = code
  BY <1>1, CodeFixed, ZenonT(60)
<1>5. \A g \in Global, ua \in prog.alias :
        HandsOnFor(g, ua)' = HandsOnFor(g, ua) /\ Taker(code[ua[2]])' = Taker(code[ua[2]])
  BY <1>4, ZenonT(60) DEF HandsOnFor, UsesOf, HandsOn, Taker
<1>6. ASSUME NEW g \in Global, seen[g] \in {Seq_, Dyn}, NEW ua \in prog.alias, HandsOnFor(g, ua), ToDo(g, ua)
      PROVE  Taker(code[ua[2]]) \in Unsafe(Variables') \/ ToDo(g, ua)'
  <2>1. PICK r \in rescan : r[1] = ua[1] /\ r[2] = ua[2]
    BY <1>6, ZenonT(60) DEF ToDo
  <2>2. CASE r = q
    <3>1. HandsOn(code[q[2]], g) /\ g \in Unsafe(Variables)
      BY <1>6, <2>1, <2>2, ZenonT(60) DEF HandsOnFor, CatchInv
    <3>2. Taker(code[q[2]]) \in Unsafe(Variables')
      BY <1>1, <1>2, <3>1, OutcomeHandsOn, ZenonT(60)
    <3> QED BY <2>1, <2>2, <3>2, ZenonT(60)
  <2>3. CASE r # q
    <3>1. r \in rescan'
      BY <1>1, <2>3, ZenonT(60)
    <3> QED BY <1>1, <1>6, <2>1, <3>1, ZenonT(60) DEF ToDo
  <2> QED BY <2>2, <2>3, ZenonT(60)
<1>7. ASSUME NEW g \in Global, seen[g] \in {Seq_, Dyn}
      PROVE  /\ g \in Unsafe(Variables')
             /\ \A ua \in prog.alias : HandsOnFor(g, ua) => Taker(code[ua[2]]) \in Unsafe(Variables') \/ ToDo(g, ua)'
  BY <1>3, <1>6, <1>7, ZenonT(60) DEF CatchInv
<1>8. phase' # "done"
  BY <1>1, ZenonT(60) DEF CatchInv
<1> QED BY <1>1, <1>3, <1>4, <1>5, <1>7, <1>8, ZenonT(60) DEF CatchInv

\* Every step of the pass keeps it.
LEMMA CatchStep == IInv /\ FlowInv /\ CatchInv /\ [Next]_vars => CatchInv'
<1> SUFFICES ASSUME IInv, FlowInv, CatchInv, [Next]_vars PROVE CatchInv'
  OBVIOUS
<1>1. CASE registerGlobals \/ analyzeInstruction \/ startPropagation \/ endPropagation \/ UNCHANGED vars
  <2>1. /\ prog' = prog /\ seen' = seen /\ visiting' = visiting /\ rescan' = rescan
        /\ phase' = "done" => visiting = None
    <3>1. CASE registerGlobals
      BY <3>1 DEF registerGlobals
    <3>2. CASE analyzeInstruction
      BY <3>2 DEF analyzeInstruction
    <3>3. CASE startPropagation
      BY <3>3 DEF startPropagation
    <3>4. CASE endPropagation
      BY <3>4 DEF endPropagation
    <3>5. CASE UNCHANGED vars
      BY <3>5 DEF vars, CatchInv
    <3> QED BY <1>1, <3>1, <3>2, <3>3, <3>4, <3>5
  <2> QED BY <2>1, CatchKept, ZenonT(60)
<1>2. CASE \E g \in Global : visitGlobal(g)
  BY <1>2, CatchVisit, ZenonT(60)
<1>3. CASE \E r \in rescan : reprocessAlias(r)
  BY <1>3, CatchReprocess, ZenonT(60)
<1>4. CASE endVisit
  <2>1. prog' = prog /\ seen' = seen /\ visiting' = None /\ rescan = {} /\ Variables' = Variables /\ phase' = phase
    BY <1>4 DEF endVisit
  <2>2. code' = code /\ Unsafe(Variables)' = Unsafe(Variables)
    BY <2>1, CodeFixed, ZenonT(60) DEF Unsafe
  <2>3. \A g \in Global, ua \in prog.alias :
          /\ HandsOnFor(g, ua)' = HandsOnFor(g, ua) /\ Taker(code[ua[2]])' = Taker(code[ua[2]])
          /\ ~ToDo(g, ua)
    BY <2>1, <2>2, ZenonT(60) DEF HandsOnFor, ToDo, UsesOf, HandsOn, Taker
  <2> QED BY <2>1, <2>2, <2>3, ZenonT(60) DEF CatchInv
<1> QED BY <1>1, <1>2, <1>3, <1>4, ZenonT(60) DEF Next, Done

\* For every program, alias relation, iteration order and rehashing, the propagation has
\* caught up at the end with the loads and stores of an unsafe global whose flag is down
\* (classificationPropagation, processGlobalVariables).
THEOREM PropagationCatchesUp == Spec => []RescanCatchesUp
<1>1. Init => CatchInv
  <2>1. Safe \notin {Seq_, Dyn}
    BY DEF Safe, Seq_, Dyn
  <2> QED BY <2>1 DEF Init, CatchInv
<1>2. IInv /\ CatchInv => RescanCatchesUp
  <2> SUFFICES ASSUME IInv, CatchInv, phase = "done", NEW g \in Global, g \in Unsafe(Variables), ~Variables[g].changed,
                      NEW ua \in prog.alias, HandsOnFor(g, ua)
               PROVE  Taker(code[ua[2]]) \in Unsafe(Variables)
    BY ZenonT(60) DEF RescanCatchesUp, HandsOnFor
  <2>1. seen[g] \in {Seq_, Dyn}
    BY ZenonT(60) DEF IInv, NoLostClassChange, Unsafe
  <2>2. visiting # g
    BY GlobalAssumption, NoneAssumption DEF CatchInv
  <2> QED BY <2>1, <2>2, ZenonT(60) DEF CatchInv, ToDo
<1> QED BY <1>1, <1>2, SpecFlowInv, CatchStep, PTL DEF Spec
=============================================================================
