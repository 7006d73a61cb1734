-------------------------- MODULE AllocationProofs ---------------------------
(***************************************************************************)
(* Which allocations Uriah counts, for every program and every order of    *)
(* the objects and of the sets of calls.  Allocations says that each       *)
(* object met so far is covered by a set of calls, each of which belongs   *)
(* to one object; DependenceGraphProofs has the lemma on the reduction,    *)
(* and its theorem on the alias edges is carried over to the composition.  *)
(***************************************************************************)
EXTENDS PointerSetsProofs, DependenceGraphProofs, FiniteSetTheorems

\* Two elements make a set larger than one.
LEMMA Another ==
    ASSUME NEW S, IsFiniteSet(S), NEW v \in S
    PROVE  Cardinality(S) > 1 <=> \E w \in S : w # v
<1>1. Cardinality(S) \in Nat /\ Cardinality(S) # 0
  BY FS_CardinalityType, FS_EmptySet
<1>2. Cardinality(S) = 1 <=> \E x : S = {x}
  BY FS_Singleton
<1> QED
  BY <1>1, <1>2

-----------------------------------------------------------------------------

NoCommonRoot(v) == \A w \in heapPointerSet \ {v} : ~queryAliasing(v, w)
NoCommonObject(v) == \A w \in HeapCalls \ {v} : prog.pts[v] \cap prog.pts[w] = {}

CallsCovered ==
    /\ \A s \in unique_alias_inst_set : \E o : s = CallsOn(o)
    /\ \A v \in HeapCalls : \A o \in prog.pts[v] : o \in objects \/ \E s \in unique_alias_inst_set : CallsOn(o) \subseteq s

Allocations ==
    /\ stage \in {"ddg", "pdg", "collect", "classify", "by alias", "non-aliased"} => unique_alias_inst_set = {}
    /\ stage = "alias sets" => CallsCovered /\ \A v \in HeapCalls : v \in NonAliasedHeapPointers <=> NoCommonRoot(v)
    /\ stage \in {"allocations", "heap casts", "stack casts", "done"} =>
          \A v \in HeapCalls : v \in NonAliasedHeapPointers <=> NoCommonRoot(v) /\ NoCommonObject(v)

\* The calls among the heap pointers are those that were there.
LEMMA CallsFrozen ==
    ASSUME prog' = prog, heapPointerSet' = heapPointerSet
    PROVE  /\ HeapCalls' = HeapCalls /\ \A o : CallsOn(o)' = CallsOn(o)
           /\ \A v : (NoCommonRoot(v)' <=> NoCommonRoot(v)) /\ (NoCommonObject(v)' <=> NoCommonObject(v))
<1>1. HeapCalls' = HeapCalls
  BY ProgramFrozen DEF HeapCalls
<1>2. \A o : CallsOn(o)' = CallsOn(o)
  BY <1>1 DEF CallsOn
<1>3. \A v : NoCommonRoot(v)' <=> NoCommonRoot(v)
  BY ProgramFrozen DEF NoCommonRoot
<1>4. \A v : NoCommonObject(v)' <=> NoCommonObject(v)
  BY <1>1 DEF NoCommonObject
<1> QED
  BY <1>1, <1>2, <1>3, <1>4

\* A call is in a set of two exactly if it shares an object (Uriah.cpp:446).
LEMMA LargeSets ==
    ASSUME Sets, CallsCovered, objects = {}, NEW v \in HeapCalls
    PROVE  NoCommonObject(v) <=> \A s \in unique_alias_inst_set : v \in s => ~(Cardinality(s) > 1)
<1>1. \A s \in unique_alias_inst_set : v \in s => (Cardinality(s) > 1 <=> \E w \in s : w # v)
  <2> SUFFICES ASSUME NEW s \in unique_alias_inst_set, v \in s PROVE Cardinality(s) > 1 <=> \E w \in s : w # v
    OBVIOUS
  <2>1. s \in SUBSET Variables
    BY DEF CallsCovered, CallsOn, HeapCalls, Sets
  <2>2. IsFiniteSet(s)
    BY <2>1, Addresses, FS_Subset
  <2> QED
    BY <2>2, Another
<1>2. ASSUME NEW w \in HeapCalls, w # v, NEW o \in prog.pts[v], o \in prog.pts[w]
      PROVE  \E s \in unique_alias_inst_set : v \in s /\ w \in s
  <2>1. PICK s \in unique_alias_inst_set : CallsOn(o) \subseteq s
    BY DEF CallsCovered
  <2> QED
    BY <2>1, <1>2 DEF CallsOn
<1>3. ASSUME NEW s \in unique_alias_inst_set, v \in s, NEW w \in s, w # v
      PROVE  w \in HeapCalls /\ prog.pts[v] \cap prog.pts[w] # {}
  <2>1. PICK o : s = CallsOn(o)
    BY DEF CallsCovered
  <2> QED
    BY <2>1, <1>3 DEF CallsOn
<1> QED
  BY <1>1, <1>2, <1>3 DEF NoCommonObject

\* The reduction of the sets of calls loses no call that shares an object.
LEMMA AllocationsInductive == Sets /\ Allocations /\ [Next]_vars => Allocations'
<1> SUFFICES ASSUME Sets, Allocations, [Next]_vars PROVE Allocations'
  OBVIOUS
<1> USE DEF graph, heapVars, allocVars, stackVars
<1>1. prog' = prog
  BY NothingMoves
<1>2. CASE buildGraph
  BY <1>2, GraphStep DEF Allocations, GraphStages
<1>3. CASE collectHeapPointers \/ identifyHeapObjectClassification \/ identifyAndClassifyUnsafeHeapObjects \/ removeOverlap
  BY <1>3 DEF collectHeapPointers, identifyHeapObjectClassification, identifyAndClassifyUnsafeHeapObjects, removeOverlap, Allocations
<1>4. CASE findNonAliased
  <2>1. /\ stage = "non-aliased" /\ stage' = "alias sets" /\ heapPointerSet' = heapPointerSet
        /\ NonAliasedHeapPointers' = {v \in heapPointerSet : Kind(v) = "invoke"} \cup {v \in HeapCalls : NoCommonRoot(v)}
        /\ objects' = UNION {prog.pts[v] : v \in HeapCalls}
        /\ unique_alias_inst_set' = {}
    BY <1>4 DEF findNonAliased, Allocations, NoCommonRoot
  <2>2. HeapCalls' = HeapCalls /\ \A v : NoCommonRoot(v)' <=> NoCommonRoot(v)
    BY <1>1, <2>1, CallsFrozen
  <2>3. \A v \in HeapCalls : v \in NonAliasedHeapPointers' <=> NoCommonRoot(v)
    BY <2>1 DEF HeapCalls
  <2>4. \A v \in HeapCalls : \A o \in prog.pts[v] : o \in objects'
    BY <2>1
  <2>5. CallsCovered'
    BY <1>1, <2>1, <2>2, <2>4 DEF CallsCovered
  <2> QED
    BY <2>1, <2>2, <2>3, <2>5 DEF Allocations
<1>5. ASSUME NEW o \in objects, addAliasSet(o) PROVE Allocations'
  <2> DEFINE U == unique_alias_inst_set
  <2>1. /\ stage = "alias sets" /\ stage' = "alias sets" /\ heapPointerSet' = heapPointerSet
        /\ NonAliasedHeapPointers' = NonAliasedHeapPointers
        /\ objects' = objects \ {o} /\ U' \in WithAliasSet(CallsOn(o), U)
    BY <1>5 DEF addAliasSet
  <2>2. /\ HeapCalls' = HeapCalls /\ \A p : CallsOn(p)' = CallsOn(p)
        /\ \A v : NoCommonRoot(v)' <=> NoCommonRoot(v)
    BY <1>1, <2>1, CallsFrozen
  <2>3. /\ \E t \in U' : CallsOn(o) \subseteq t
        /\ \A t \in U : \E r \in U' : t \subseteq r
        /\ \A t \in U' : t \in U \/ t = CallsOn(o)
    BY <2>1, ReductionCovers
  <2>4. \A s \in U' : \E p : s = CallsOn(p)
    BY <2>1, <2>3 DEF Allocations, CallsCovered
  <2>5. ASSUME NEW v \in HeapCalls, NEW p \in prog.pts[v]
        PROVE  p \in objects' \/ \E s \in U' : CallsOn(p) \subseteq s
    <3>1. CASE p = o
      BY <3>1, <2>3
    <3>2. CASE p # o /\ p \in objects
      BY <3>2, <2>1
    <3>3. CASE p \notin objects
      <4>1. PICK s \in U : CallsOn(p) \subseteq s
        BY <3>3, <2>1 DEF Allocations, CallsCovered
      <4>2. PICK r \in U' : s \subseteq r
        BY <2>3
      <4> QED
        BY <4>1, <4>2
    <3> QED
      BY <3>1, <3>2, <3>3
  <2>6. CallsCovered'
    <3>1. \A s \in U' : \E p : s = CallsOn(p)'
      BY <2>2, <2>4
    <3>2. \A v \in HeapCalls' : \A p \in prog'.pts[v] : p \in objects' \/ \E s \in U' : CallsOn(p)' \subseteq s
      BY <1>1, <2>2, <2>5
    <3> QED
      BY <3>1, <3>2 DEF CallsCovered
  <2> QED
    BY <2>1, <2>2, <2>6 DEF Allocations
<1>6. CASE eraseAliased
  <2>1. /\ stage = "alias sets" /\ stage' = "allocations" /\ objects = {} /\ heapPointerSet' = heapPointerSet
        /\ NonAliasedHeapPointers' = NonAliasedHeapPointers \ UNION {s \in unique_alias_inst_set : Cardinality(s) > 1}
    BY <1>6 DEF eraseAliased
  <2>2. HeapCalls' = HeapCalls /\ \A v : (NoCommonRoot(v)' <=> NoCommonRoot(v)) /\ (NoCommonObject(v)' <=> NoCommonObject(v))
    BY <1>1, <2>1, CallsFrozen
  <2>3. \A v \in HeapCalls : NoCommonObject(v) <=> \A s \in unique_alias_inst_set : v \in s => ~(Cardinality(s) > 1)
    BY <2>1, LargeSets DEF Allocations
  <2>4. \A v \in HeapCalls : v \in NonAliasedHeapPointers' <=> NoCommonRoot(v) /\ NoCommonObject(v)
    BY <2>1, <2>3 DEF Allocations
  <2> QED
    BY <2>1, <2>2, <2>4 DEF Allocations
<1>7. CASE checkHeapPointers \/ safeTypeCastAnalysisHeap \/ identifyStackPointers \/ safeTypeCastAnalysisStack \/ finish \/ crash
  <2>1. /\ stage \in {"allocations", "heap casts", "stack casts"} /\ stage' \in {"heap casts", "stack casts", "done", "crashed"}
        /\ heapPointerSet' = heapPointerSet /\ NonAliasedHeapPointers' = NonAliasedHeapPointers
    BY <1>7 DEF checkHeapPointers, safeTypeCastAnalysisHeap, identifyStackPointers, safeTypeCastAnalysisStack, finish, crash
  <2>2. HeapCalls' = HeapCalls /\ \A v : (NoCommonRoot(v)' <=> NoCommonRoot(v)) /\ (NoCommonObject(v)' <=> NoCommonObject(v))
    BY <1>1, <2>1, CallsFrozen
  <2> QED
    BY <2>1, <2>2 DEF Allocations
<1>8. CASE UNCHANGED vars
  <2>1. /\ stage' = stage /\ heapPointerSet' = heapPointerSet /\ NonAliasedHeapPointers' = NonAliasedHeapPointers
        /\ objects' = objects /\ unique_alias_inst_set' = unique_alias_inst_set
    BY <1>8 DEF vars
  <2>2. /\ HeapCalls' = HeapCalls /\ \A o : CallsOn(o)' = CallsOn(o)
        /\ \A v : (NoCommonRoot(v)' <=> NoCommonRoot(v)) /\ (NoCommonObject(v)' <=> NoCommonObject(v))
    BY <1>1, <2>1, CallsFrozen
  <2>3. CallsCovered' <=> CallsCovered
    BY <1>1, <2>1, <2>2 DEF CallsCovered
  <2> QED
    BY <2>1, <2>2, <2>3 DEF Allocations
<1> QED
  BY <1>2, <1>3, <1>4, <1>5, <1>6, <1>7, <1>8 DEF Next, Done

\* When the pass starts, the maps are empty.
LEMMA AllocationsStart == Init => Allocations
  BY DEF Init, GraphInit, Allocations, GraphStages

\* For every program and every order of the objects and of the sets of calls,
\* exactly the allocations that share no object with another one, and no root with
\* another heap pointer, are counted as heap allocations.
THEOREM AllocationsExact == Spec => []NonAliasedExact
<1>1. Allocations => NonAliasedExact
  BY DEF Allocations, NonAliasedExact, NoCommonRoot, NoCommonObject
<1> QED
  BY <1>1, SetsStart, AllocationsStart, SetsInductive, AllocationsInductive, PTL DEF Spec

-----------------------------------------------------------------------------

\* Once the graph is built, no analysis goes back to building it.
LEMMA GraphKept == (stage \in GraphStages => IInv) /\ [Next]_vars => (stage \in GraphStages => IInv)'
<1> SUFFICES ASSUME stage \in GraphStages => IInv, [Next]_vars PROVE (stage \in GraphStages => IInv)'
  OBVIOUS
<1>1. CASE buildGraph
  BY <1>1, GraphStep, Inductive DEF buildGraph
<1>2. CASE UNCHANGED vars
  <2>1. UNCHANGED graphVars
    BY <1>2 DEF vars, graph, allocVars, graphVars
  <2> QED
    BY <2>1, Inductive DEF graphVars
<1>3. CASE ~buildGraph /\ ~UNCHANGED vars
  <2>1. stage' \in {"classify", "by alias", "non-aliased", "alias sets", "allocations", "heap casts", "stack casts", "done", "crashed"}
    BY <1>3 DEF Next, collectHeapPointers, identifyHeapObjectClassification, identifyAndClassifyUnsafeHeapObjects, removeOverlap,
                findNonAliased, addAliasSet, eraseAliased, checkHeapPointers, safeTypeCastAnalysisHeap, identifyStackPointers,
                safeTypeCastAnalysisStack, finish, crash, Done
  <2> QED
    BY <2>1 DEF GraphStages
<1> QED
  BY <1>1, <1>2, <1>3

\* Composed with the analyses that read it, the graph still has exactly the alias
\* edges that the points-to sets and the syntactic query ask for.
THEOREM AliasEdgesComposed == Spec => []AliasEdgesExact
<1>1. Init => (stage \in GraphStages => IInv)
  BY GraphStart DEF Init
<1>2. (stage \in GraphStages => IInv) => AliasEdgesExact
  BY Exact DEF AliasEdgesExact, GraphStages
<1> QED
  BY <1>1, <1>2, GraphKept, PTL DEF Spec

=============================================================================
