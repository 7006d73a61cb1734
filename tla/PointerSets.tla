----------------------------- MODULE PointerSets -----------------------------
(***************************************************************************)
(* Uriah and DataGuard: which classified pointers are heap and which are   *)
(* stack pointers, and so which of them valueRangeAnalysis and             *)
(* safeTypeCastAnalysis look at.  Both run after the classification; the   *)
(* classes do not change any more.  They read the alias edges of the       *)
(* program dependence graph, which is built first (DependenceGraph).       *)
(*                                                                         *)
(* To the instructions, a program adds the name of a call ("malloc" and    *)
(* "new" are known to TargetLibraryInfo, "malloc" and "kalloc" contain     *)
(* "alloc"), the globals, the instructions with a value node of the        *)
(* points-to analysis (nodes) and the casts (see CompatibleType).          *)
(* Variables maps the pointer variables to their class.  std::map orders   *)
(* its keys by address: order[v] is the place of v.                        *)
(***************************************************************************)
EXTENDS DependenceGraph, Functions, CompatibleType

CONSTANT Orders(_)

\* No two keys of a map have the same address, and a program has finitely many.
ASSUME OrdersAssumption ==
    \A p \in Programs :
        /\ IsFiniteSet(DOMAIN p.class) /\ None \notin DOMAIN p.class
        /\ \A places \in Orders(p) : places \in [DOMAIN p.class -> Nat] /\ IsInjective(places)

VARIABLES
    order,         \* the places of the pointer variables in a std::map, once they matter
    it,            \* the key the running loop's iterator stands on
    undefinedUse,  \* history: an iterator to an erased key was used
    heapPointerSet, heapSeqPointerSet, heapDynPointerSet, heapDynPtrSet,
    unsafeUniqueHeapPointerSet, unsafeAliasHeapPointerSet, unsafeHeapPointerSet,
    NonAliasedHeapPointers, AliasedWithHeapSeqPointers, AliasedWithHeapDynPointers,
    stackSeqPointerSet, stackDynPointerSet, stackDynPtrSet,
    checked        \* what valueRangeAnalysis was called with

heapVars == <<heapPointerSet, heapSeqPointerSet, heapDynPointerSet, heapDynPtrSet, unsafeUniqueHeapPointerSet,
              unsafeAliasHeapPointerSet, unsafeHeapPointerSet>>
allocVars == <<NonAliasedHeapPointers, objects, unique_alias_inst_set, AliasedWithHeapSeqPointers, AliasedWithHeapDynPointers>>
stackVars == <<stackSeqPointerSet, stackDynPointerSet, stackDynPtrSet>>
graph == <<prog, fns, edges, order>>
vars == <<graph, stage, it, undefinedUse, heapVars, allocVars, stackVars, checked>>

Variables == DOMAIN prog.class
Class(c) == {v \in Variables : prog.class[v] = c}
Casts(S) == {v \in S : Kind(v) = "cast"}

isAllocationFn(v) == Kind(v) \in {"call", "invoke"} /\ prog.insts[v].name \in {"malloc", "new"}
namedAlloc(v) == Kind(v) = "call" /\ prog.insts[v].name \in {"malloc", "kalloc"}
Allocates(v) == isAllocationFn(v) \/ namedAlloc(v)

-----------------------------------------------------------------------------
(* Uriah.                                                                   *)

OperandsIgnored(v) == v \in DOMAIN prog.insts \cap prog.nodes /\ Allocates(v)

\* The first operand that is a global or an allocation decides.
isPtrToHeap(v) ==
    /\ v \in DOMAIN prog.insts \cap prog.nodes
    /\ \/ Allocates(v)
       \/ \E j \in DOMAIN Ops(v) :
            /\ Allocates(Ops(v)[j])
            /\ \A i \in 1 .. j : Ops(v)[i] \notin prog.globals

\* An allocation's root is the root of its first argument.
getRootValue(v) ==
    LET root[x \in STRING] ==
            IF Kind(x) \in {"gep", "load", "cast"} \/ (namedAlloc(x) /\ Ops(x) # <<>>) THEN root[Ops(x)[1]] ELSE x
    IN  root[v]
queryAliasing(v, w) == getRootValue(v) = getRootValue(w)

PDGAliases(v) == {w \in DOMAIN prog.insts : <<w, v, "DATA_ALIAS">> \in edges}
FunctionAliases(v) ==
    {w \in DOMAIN prog.insts \ {v} : /\ prog.insts[w].fn = prog.insts[v].fn
                                     /\ {v, w} \subseteq prog.nodes /\ queryAliasing(v, w)}

Aliases(v) == (PDGAliases(v) \cup FunctionAliases(v)) \cap Variables

DynAliases(v) == Aliases(v) \cap Class("Dyn")
UnsafeAliases(v) == Aliases(v) \cap (Class("Seq") \cup Class("Dyn"))

Init ==
    /\ GraphInit
    /\ order = <<>> /\ it = None /\ undefinedUse = FALSE
    /\ heapPointerSet = {} /\ heapSeqPointerSet = {} /\ heapDynPointerSet = {} /\ heapDynPtrSet = {}
    /\ unsafeUniqueHeapPointerSet = {} /\ unsafeAliasHeapPointerSet = {} /\ unsafeHeapPointerSet = {}
    /\ NonAliasedHeapPointers = {} /\ AliasedWithHeapSeqPointers = {} /\ AliasedWithHeapDynPointers = {}
    /\ stackSeqPointerSet = {} /\ stackDynPointerSet = {} /\ stackDynPtrSet = {} /\ checked = {}

collectHeapPointers ==
    LET heap == {v \in Variables : isPtrToHeap(v)}
    IN  /\ stage = "collect" /\ stage' = "classify"
        /\ heapPointerSet' = heap \cup UNION {Aliases(v) : v \in heap}
        /\ order' \in Orders(prog)
        /\ UNCHANGED <<prog, fns, edges, it, undefinedUse, heapSeqPointerSet, heapDynPointerSet, heapDynPtrSet, unsafeUniqueHeapPointerSet,
                       unsafeAliasHeapPointerSet, unsafeHeapPointerSet, allocVars, stackVars, checked>>

FromTheStart(S, v) ==
    LET others == S \ {v}
    IN  IF others = {} THEN None ELSE CHOOSE w \in others : \A x \in others : order[w] <= order[x]

\* The key a loop over a std::map goes to after v; None behind the last one.
After(S, v) ==
    LET later == {w \in S : v = None \/ order[w] > order[v]}
    IN  IF later = {} THEN None ELSE CHOOSE w \in later : \A x \in later : order[w] <= order[x]

identifyHeapObjectClassification ==
    LET seq == heapPointerSet \cap Class("Seq")
        dyn == heapPointerSet \cap Class("Dyn")
    IN  /\ stage = "classify" /\ stage' = "by alias"
        /\ unsafeUniqueHeapPointerSet' = seq \cup dyn /\ unsafeHeapPointerSet' = seq \cup dyn
        /\ heapSeqPointerSet' = seq /\ heapDynPointerSet' = dyn /\ heapDynPtrSet' = Casts(dyn)
        /\ it' = After(seq \cup dyn, None)
        /\ UNCHANGED <<graph, undefinedUse, heapPointerSet, unsafeAliasHeapPointerSet, allocVars, stackVars, checked>>

\* The loop inserts into the map it runs over: it meets a new key that lies
\* behind the current one, and no other.
identifyAndClassifyUnsafeHeapObjects ==
    LET new == Aliases(it)
        seq == new \cap Class("Seq")
        dyn == new \cap Class("Dyn")
    IN  /\ stage = "by alias" /\ it # None
        /\ heapPointerSet' = heapPointerSet \cup new /\ unsafeHeapPointerSet' = unsafeHeapPointerSet \cup new
        /\ unsafeUniqueHeapPointerSet' = unsafeUniqueHeapPointerSet \cup UnsafeAliases(it)
        /\ unsafeAliasHeapPointerSet' = unsafeAliasHeapPointerSet \cup new
        /\ heapSeqPointerSet' = heapSeqPointerSet \cup seq
        /\ heapDynPointerSet' = heapDynPointerSet \cup dyn /\ heapDynPtrSet' = heapDynPtrSet \cup Casts(dyn)
        /\ it' = After(unsafeUniqueHeapPointerSet', it)
        /\ UNCHANGED <<graph, stage, undefinedUse, allocVars, stackVars, checked>>

removeOverlap ==
    /\ stage = "by alias" /\ it = None /\ stage' = "non-aliased"
    /\ unsafeAliasHeapPointerSet' = unsafeAliasHeapPointerSet \ unsafeUniqueHeapPointerSet
    /\ UNCHANGED <<graph, it, undefinedUse, heapPointerSet, heapSeqPointerSet, heapDynPointerSet, heapDynPtrSet,
                   unsafeUniqueHeapPointerSet, unsafeHeapPointerSet, allocVars, stackVars, checked>>

HeapCalls == {v \in heapPointerSet : Kind(v) = "call"}
CallsOn(o) == {v \in HeapCalls : o \in prog.pts[v]}

findNonAliased ==
    /\ stage = "non-aliased" /\ stage' = "alias sets"
    /\ NonAliasedHeapPointers' = {v \in heapPointerSet : Kind(v) = "invoke"}
                                 \cup {v \in HeapCalls : \A w \in heapPointerSet \ {v} : ~queryAliasing(v, w)}
    /\ objects' = UNION {prog.pts[v] : v \in HeapCalls}
    /\ UNCHANGED <<graph, it, undefinedUse, heapVars, unique_alias_inst_set,
                   AliasedWithHeapSeqPointers, AliasedWithHeapDynPointers, stackVars, checked>>

addAliasSet(o) ==
    /\ stage = "alias sets"
    /\ unique_alias_inst_set' \in WithAliasSet(CallsOn(o), unique_alias_inst_set)
    /\ objects' = objects \ {o}
    /\ UNCHANGED <<graph, stage, it, undefinedUse, heapVars, NonAliasedHeapPointers,
                   AliasedWithHeapSeqPointers, AliasedWithHeapDynPointers, stackVars, checked>>

ErasesLargeSets ==
    /\ stage = "alias sets" /\ objects = {} /\ stage' = "allocations"
    /\ NonAliasedHeapPointers' = NonAliasedHeapPointers \ UNION {s \in unique_alias_inst_set : Cardinality(s) > 2}
    /\ UNCHANGED <<graph, it, undefinedUse, heapVars, objects, unique_alias_inst_set,
                   AliasedWithHeapSeqPointers, AliasedWithHeapDynPointers, stackVars, checked>>

eraseAliased ==
    /\ stage = "alias sets" /\ objects = {} /\ stage' = "allocations"
    /\ NonAliasedHeapPointers' = NonAliasedHeapPointers \ UNION {s \in unique_alias_inst_set : Cardinality(s) > 1}
    /\ UNCHANGED <<graph, it, undefinedUse, heapVars, objects, unique_alias_inst_set,
                   AliasedWithHeapSeqPointers, AliasedWithHeapDynPointers, stackVars, checked>>

findAliasedAllocations(somePtrSet) ==
    {p \in NonAliasedHeapPointers \cap prog.nodes :
        \E q \in somePtrSet \cap prog.nodes : <<q, p, "DATA_ALIAS">> \in edges \/ queryAliasing(p, q)}

checkHeapPointers ==
    /\ stage = "allocations" /\ stage' = "heap casts"
    /\ AliasedWithHeapSeqPointers' = findAliasedAllocations(heapSeqPointerSet)
    /\ AliasedWithHeapDynPointers' = findAliasedAllocations(heapDynPointerSet)
    /\ checked' = heapPointerSet
    /\ it' = After(heapDynPtrSet, None)
    /\ UNCHANGED <<graph, undefinedUse, heapVars, NonAliasedHeapPointers, objects, unique_alias_inst_set, stackVars>>

-----------------------------------------------------------------------------
(* safeTypeCastAnalysis over a map: a safe cast is erased, and with it the  *)
(* cast that is its operand.  The iterator has moved to the next key        *)
(* before; if the operand is that key, the loop goes on from a freed node:  *)
(* to any of the keys left, to the end, or into a crash.                    *)

SafeCast(c) == judgedSafe(prog.casts[c])

SkipsNext(S) ==
    LET left == IF SafeCast(it) THEN S \ {it, Ops(it)[1]} ELSE S
        next == After(left, it)
    IN  <<left, FALSE, {IF SafeCast(it) /\ next # None THEN After(left, next) ELSE next}>>

\* The map, whether an erased node is used, and where the iterator may be next.
castStep(S) ==
    LET left == IF SafeCast(it) THEN S \ {it, Ops(it)[1]} ELSE S
        next == After(S, it)
        dangling == next # None /\ next \notin left
    IN  <<left, dangling, IF dangling THEN left \cup {None} ELSE {next}>>

safeTypeCastAnalysisHeap ==
    LET s == castStep(heapDynPtrSet)
    IN  /\ stage = "heap casts" /\ it # None
        /\ heapDynPtrSet' = s[1] /\ undefinedUse' = (undefinedUse \/ s[2]) /\ it' \in s[3]
        /\ UNCHANGED <<graph, stage, heapPointerSet, heapSeqPointerSet, heapDynPointerSet, unsafeUniqueHeapPointerSet,
                       unsafeAliasHeapPointerSet, unsafeHeapPointerSet, allocVars, stackVars, checked>>

-----------------------------------------------------------------------------
(* DataGuard.                                                               *)

doesPointToStack(v) ==
    /\ v \in DOMAIN prog.insts
    /\ \A o \in Range(Ops(v)) : ~isAllocationFn(o) /\ o \notin prog.globals
    /\ ~isAllocationFn(v)

identifyStackPointers ==
    LET stack == {v \in Variables : doesPointToStack(v)}
    IN  /\ stage = "heap casts" /\ it = None /\ stage' = "stack casts"
        /\ stackSeqPointerSet' = stack \cap Class("Seq")
        /\ stackDynPointerSet' = stack \cap Class("Dyn") /\ stackDynPtrSet' = Casts(stack \cap Class("Dyn"))
        /\ checked' = checked \cup (stack \cap Class("Seq"))
        /\ it' = After(Casts(stack \cap Class("Dyn")), None)
        /\ UNCHANGED <<graph, undefinedUse, heapVars, allocVars>>

safeTypeCastAnalysisStack ==
    LET s == castStep(stackDynPtrSet)
    IN  /\ stage = "stack casts" /\ it # None
        /\ stackDynPtrSet' = s[1] /\ undefinedUse' = (undefinedUse \/ s[2]) /\ it' \in s[3]
        /\ UNCHANGED <<graph, stage, heapVars, allocVars, stackSeqPointerSet, stackDynPointerSet, checked>>

finish == stage = "stack casts" /\ it = None /\ stage' = "done" /\ UNCHANGED <<graph, it, undefinedUse, heapVars, allocVars, stackVars, checked>>

\* An iterator to an erased key was used.
crash == undefinedUse /\ stage \in {"heap casts", "stack casts"} /\ stage' = "crashed"
         /\ UNCHANGED <<graph, it, undefinedUse, heapVars, allocVars, stackVars, checked>>

Done == stage \in {"done", "crashed"} /\ UNCHANGED vars

buildGraph == GraphNext /\ UNCHANGED <<order, it, undefinedUse, heapVars, NonAliasedHeapPointers, AliasedWithHeapSeqPointers,
                                        AliasedWithHeapDynPointers, stackVars, checked>>

Next ==
    \/ buildGraph
    \/ collectHeapPointers
    \/ identifyHeapObjectClassification
    \/ identifyAndClassifyUnsafeHeapObjects
    \/ removeOverlap
    \/ findNonAliased
    \/ \E o \in objects : addAliasSet(o)
    \/ eraseAliased
    \/ checkHeapPointers
    \/ safeTypeCastAnalysisHeap
    \/ identifyStackPointers
    \/ safeTypeCastAnalysisStack
    \/ finish
    \/ crash
    \/ Done

\* One thread runs the analyses to their end.
Spec == Init /\ [][Next]_vars /\ WF_vars(Next)

-----------------------------------------------------------------------------
(* Properties.                                                              *)

\* Between them, the heap and the stack analysis give every Seq pointer to the
\* value-range analysis, unless it is computed from a global directly or is
\* unknown to the points-to analysis.
SeqChecked ==
    stage = "done" =>
        \A v \in Class("Seq") \cap DOMAIN prog.insts :
            (v \in prog.nodes /\ Range(Ops(v)) \cap prog.globals = {}) => v \in checked

Unsafe == Class("Seq") \cup Class("Dyn")
HeapStart == {v \in Variables : isPtrToHeap(v)}

\* The unsafe heap pointers that the loop starts with.
First == (HeapStart \cup UNION {Aliases(v) : v \in HeapStart}) \cap Unsafe

\* Whatever the addresses, the loop that inserts into the map it runs over finds
\* at least the unsafe aliases of the heap pointers it started with, and nothing
\* but pointers that a chain of unsafe aliases connects to them.
UnsafeAliasesFound ==
    stage = "done" =>
        /\ \A v \in First : Aliases(v) \cap Unsafe \subseteq unsafeUniqueHeapPointerSet
        /\ \A C \in SUBSET Unsafe :
             (First \subseteq C /\ \A v \in C : Aliases(v) \cap Unsafe \subseteq C) => unsafeUniqueHeapPointerSet \subseteq C

\* Whatever the order of the objects, exactly the allocations that share no
\* object with another allocation, and no root with another heap pointer, are
\* counted as heap allocations: replacing a set by a larger one loses none.
NonAliasedExact ==
    stage = "done" =>
        \A v \in HeapCalls :
            v \in NonAliasedHeapPointers <=>
                /\ \A w \in heapPointerSet \ {v} : ~queryAliasing(v, w)
                /\ \A w \in HeapCalls \ {v} : prog.pts[v] \cap prog.pts[w] = {}

CastsKept(all, left) ==
    /\ \A c \in all \ left : SafeCast(c) \/ \E d \in all : SafeCast(d) /\ Ops(d)[1] = c
    /\ undefinedUse \/ \A c \in left : ~SafeCast(c)

\* The type-cast analysis keeps a cast it judges unsafe, except as the operand of
\* a safe cast, even if it goes on from an erased key; and if it never does, all
\* the safe casts are gone.
UnsafeCastsKept ==
    stage = "done" =>
        /\ CastsKept(Casts(heapDynPointerSet), heapDynPtrSet)
        /\ CastsKept(Casts(stackDynPointerSet), stackDynPtrSet)

\* Every loop ends, also the one over the map that grows meanwhile; and unless an
\* erased key is used, the analyses come to their end.
Terminates == <>(stage = "done" \/ (stage = "crashed" /\ undefinedUse))

=============================================================================
