-------------------------- MODULE PointerSetsProofs --------------------------
(***************************************************************************)
(* What Uriah promises of the pointers it hands on, for every program and  *)
(* every order of addresses.                                               *)
(*                                                                         *)
(* The properties speak of the end of the pass; the invariants say what    *)
(* each stage has reached by then.  Checked: no heap pointer leaves the    *)
(* map.  UnsafeFound: the keys before the iterator are expanded, and the   *)
(* map lies in every set closed under unsafe aliases.  Sets types the      *)
(* maps; OrdersAssumption gives the loops their next key.                  *)
(***************************************************************************)
EXTENDS PointerSets, WellFoundedInduction, TLAPS

\* A set of natural numbers has a least one.
LEMMA LeastNatural ==
    ASSUME NEW T, T \subseteq Nat, T # {}
    PROVE  \E m \in T : \A n \in T : m <= n
<1>1. \A x, y \in Nat : <<y, x>> \in OpToRel(<, Nat) <=> y < x
  BY DEF OpToRel
<1>2. \E x \in T : \A y \in T : <<y, x>> \notin OpToRel(<, Nat)
  BY NatLessThanWellFounded, WFMin
<1>3. \E x \in T : \A y \in T : ~(y < x)
  BY <1>1, <1>2, Zenon
<1> QED
  BY <1>3

\* The next key of a loop over a map (CompatibleType.cpp:128, Uriah.cpp:285) is
\* the first behind the current one.
LEMMA AfterIsNext ==
    ASSUME order \in [Variables -> Nat], None \notin Variables, NEW S, S \subseteq Variables, NEW v \in S \cup {None}
    PROVE  /\ After(S, v) \in S \cup {None}
           /\ \A w \in S : (v = None \/ order[w] > order[v]) => After(S, v) # None /\ order[After(S, v)] <= order[w]
<1> DEFINE later == {w \in S : v = None \/ order[w] > order[v]}
<1>1. CASE later = {}
  BY <1>1 DEF After
<1>2. CASE later # {}
  <2>1. \E m \in {order[w] : w \in later} : \A n \in {order[w] : w \in later} : m <= n
    <3> DEFINE T == {order[w] : w \in later}
    <3>1. T \subseteq Nat /\ T # {}
      BY <1>2
    <3> HIDE DEF T
    <3> QED
      BY <3>1, LeastNatural DEF T
  <2>2. \E w \in later : \A x \in later : order[w] <= order[x]
    BY <2>1
  <2>3. After(S, v) \in later /\ \A x \in later : order[After(S, v)] <= order[x]
    BY <1>2, <2>2 DEF After
  <2> QED
    BY <2>3
<1> QED
  BY <1>1, <1>2

-----------------------------------------------------------------------------

\* What depends on the program only does not change.
LEMMA ProgramFrozen ==
    ASSUME prog' = prog
    PROVE  /\ Variables' = Variables /\ Unsafe' = Unsafe /\ HeapStart' = HeapStart
           /\ \A c : Class(c)' = Class(c)
           /\ \A v : Kind(v)' = Kind(v) /\ Ops(v)' = Ops(v)
           /\ \A v : (SafeCast(v)' <=> SafeCast(v)) /\ (doesPointToStack(v)' <=> doesPointToStack(v))
           /\ \A v, w : queryAliasing(v, w)' <=> queryAliasing(v, w)
<1>1. Variables' = Variables /\ \A c : Class(c)' = Class(c)
  BY DEF Variables, Class
<1>2. \A v : Kind(v)' = Kind(v) /\ Ops(v)' = Ops(v)
  BY DEF Kind, Ops
<1>3. \A v : isAllocationFn(v)' <=> isAllocationFn(v)
  BY <1>2 DEF isAllocationFn
<1>4. \A v : namedAlloc(v)' <=> namedAlloc(v)
  BY <1>2 DEF namedAlloc
<1>5. \A v : Allocates(v)' <=> Allocates(v)
  BY <1>3, <1>4 DEF Allocates
<1>6. \A v : isPtrToHeap(v)' <=> isPtrToHeap(v)
  BY <1>2, <1>5 DEF isPtrToHeap
<1>7. Unsafe' = Unsafe /\ HeapStart' = HeapStart
  BY <1>1, <1>6 DEF Unsafe, HeapStart
<1>8. \A v : SafeCast(v)' <=> SafeCast(v)
  BY DEF SafeCast
<1>9. \A v : doesPointToStack(v)' <=> doesPointToStack(v)
  BY <1>2, <1>3 DEF doesPointToStack
<1>10. \A v : getRootValue(v)' = getRootValue(v)
  BY <1>2, <1>4 DEF getRootValue
<1>11. \A v, w : queryAliasing(v, w)' <=> queryAliasing(v, w)
  BY <1>10 DEF queryAliasing
<1> QED
  BY <1>1, <1>2, <1>7, <1>8, <1>9, <1>11

\* The aliases depend on the program and on the edges of the graph.
LEMMA AliasesFrozen ==
    ASSUME prog' = prog, edges' = edges
    PROVE  /\ First' = First
           /\ \A v : Aliases(v)' = Aliases(v) /\ UnsafeAliases(v)' = UnsafeAliases(v)
<1>1. \A v : PDGAliases(v)' = PDGAliases(v)
  BY DEF PDGAliases
<1>2. \A v : FunctionAliases(v)' = FunctionAliases(v)
  BY ProgramFrozen DEF FunctionAliases
<1>3. \A v : Aliases(v)' = Aliases(v)
  BY <1>1, <1>2, ProgramFrozen DEF Aliases
<1>4. \A v : UnsafeAliases(v)' = UnsafeAliases(v)
  BY <1>3, ProgramFrozen DEF UnsafeAliases
<1>5. First' = First
  BY <1>3, ProgramFrozen DEF First
<1> QED
  BY <1>3, <1>4, <1>5

-----------------------------------------------------------------------------

GraphStages == {"ddg", "ddg sets", "pdg", "collect"}

Sets ==
    /\ prog \in Programs
    /\ stage \in GraphStages \cup {"classify", "by alias", "non-aliased", "alias sets", "allocations", "heap casts", "stack casts", "done", "crashed"}
    /\ stage \notin GraphStages => order \in Orders(prog)
    /\ heapPointerSet \subseteq Variables /\ unsafeUniqueHeapPointerSet \subseteq Variables
    /\ heapDynPointerSet \subseteq Variables /\ stackDynPointerSet \subseteq Variables

\* The variables a step of the graph's construction leaves alone, and the stages it has.
LEMMA GraphStep ==
    ASSUME buildGraph
    PROVE  /\ prog' = prog /\ stage \in GraphStages /\ stage' \in GraphStages
           /\ UNCHANGED <<order, it, undefinedUse, heapVars, NonAliasedHeapPointers, stackVars, checked>>
           /\ stage \in {"ddg", "pdg"} \/ stage' \in {"ddg", "ddg sets"}
           /\ stage = "ddg sets" \/ unique_alias_inst_set' = unique_alias_inst_set
           /\ stage' = "ddg" => unique_alias_inst_set' = {}
<1>1. UNCHANGED <<order, it, undefinedUse, heapVars, NonAliasedHeapPointers, stackVars, checked>>
  BY DEF buildGraph
<1>2. CASE runOnInstructions
  BY <1>1, <1>2 DEF runOnInstructions, GraphStages
<1>3. CASE \E o \in objects : addInstSet(o)
  BY <1>1, <1>3 DEF addInstSet, GraphStages
<1>4. CASE connectAliasSets
  BY <1>1, <1>4 DEF connectAliasSets, GraphStages
<1>5. CASE runControlDependencyGraph
  BY <1>1, <1>5 DEF runControlDependencyGraph, GraphStages
<1>6. CASE runOnModule
  BY <1>1, <1>6 DEF runOnModule, GraphStages
<1> QED
  BY <1>2, <1>3, <1>4, <1>5, <1>6 DEF buildGraph, GraphNext

\* The analyses take the program and, once the graph is built, its edges and the
\* addresses as they are.
LEMMA NothingMoves ==
    ASSUME [Next]_vars
    PROVE  /\ prog' = prog
           /\ stage \notin GraphStages => edges' = edges /\ order' = order
<1>1. CASE buildGraph
  BY <1>1, GraphStep
<1>2. CASE collectHeapPointers
  BY <1>2 DEF collectHeapPointers, GraphStages
<1>3. CASE UNCHANGED graph
  BY <1>3 DEF graph
<1> QED
  BY <1>1, <1>2, <1>3
     DEF Next, vars, identifyHeapObjectClassification, identifyAndClassifyUnsafeHeapObjects, removeOverlap, findNonAliased, addAliasSet,
         eraseAliased, checkHeapPointers, safeTypeCastAnalysisHeap, identifyStackPointers, safeTypeCastAnalysisStack, finish, crash, Done

\* A map's keys have distinct addresses.
LEMMA Addresses ==
    ASSUME Sets
    PROVE  /\ IsFiniteSet(Variables) /\ None \notin Variables
           /\ stage \notin GraphStages =>
                 order \in [Variables -> Nat] /\ \A v, w \in Variables : order[v] = order[w] => v = w
  BY OrdersAssumption DEF Sets, Variables, IsInjective

\* The maps hold pointer variables, in each stage.
LEMMA SetsInductive == Sets /\ [Next]_vars => Sets'
<1> SUFFICES ASSUME Sets, [Next]_vars PROVE Sets'
  OBVIOUS
<1> USE DEF graph, heapVars, allocVars, stackVars
<1>1. prog' = prog /\ Variables' = Variables /\ \A c : Class(c)' = Class(c)
  BY NothingMoves, ProgramFrozen
<1>2. \A c : Class(c) \subseteq Variables
  BY DEF Class
<1>3. \A v : Aliases(v) \subseteq Variables /\ UnsafeAliases(v) \subseteq Variables
  BY DEF Aliases, UnsafeAliases
<1>4. CASE buildGraph
  BY <1>1, <1>4, GraphStep DEF Sets
<1>5. CASE collectHeapPointers
  <2>1. heapPointerSet' \subseteq Variables
    BY <1>3, <1>5 DEF collectHeapPointers
  <2> QED
    BY <1>1, <1>5, <2>1 DEF collectHeapPointers, Sets, GraphStages
<1>6. CASE identifyHeapObjectClassification
  BY <1>1, <1>2, <1>6 DEF identifyHeapObjectClassification, Sets, GraphStages
<1>7. CASE identifyAndClassifyUnsafeHeapObjects
  BY <1>1, <1>2, <1>3, <1>7 DEF identifyAndClassifyUnsafeHeapObjects, Sets, GraphStages
<1>8. CASE removeOverlap
  BY <1>1, <1>8 DEF removeOverlap, Sets, GraphStages
<1>9. CASE findNonAliased
  BY <1>1, <1>9 DEF findNonAliased, Sets, GraphStages
<1>10. CASE \E o \in objects : addAliasSet(o)
  BY <1>1, <1>10 DEF addAliasSet, Sets, GraphStages
<1>11. CASE eraseAliased
  BY <1>1, <1>11 DEF eraseAliased, Sets, GraphStages
<1>12. CASE checkHeapPointers
  BY <1>1, <1>12 DEF checkHeapPointers, Sets, GraphStages
<1>13. CASE safeTypeCastAnalysisHeap
  BY <1>1, <1>13 DEF safeTypeCastAnalysisHeap, Sets, GraphStages
<1>14. CASE identifyStackPointers
  BY <1>1, <1>14 DEF identifyStackPointers, Sets, GraphStages
<1>15. CASE safeTypeCastAnalysisStack
  BY <1>1, <1>15 DEF safeTypeCastAnalysisStack, Sets, GraphStages
<1>16. CASE finish
  BY <1>1, <1>16 DEF finish, Sets, GraphStages
<1>17. CASE crash
  BY <1>1, <1>17 DEF crash, Sets, GraphStages
<1>18. CASE UNCHANGED vars
  BY <1>1, <1>18 DEF vars, Sets
<1> QED
  BY <1>4, <1>5, <1>6, <1>7, <1>8, <1>9, <1>10, <1>11, <1>12, <1>13, <1>14, <1>15, <1>16, <1>17, <1>18 DEF Next, Done

\* When the pass starts, the maps are empty.
LEMMA SetsStart == Init => Sets
  BY DEF Init, GraphInit, Sets, GraphStages

-----------------------------------------------------------------------------

Checked ==
    /\ stage \notin GraphStages => HeapStart \subseteq heapPointerSet
    /\ stage \in {"heap casts", "stack casts", "done"} => heapPointerSet \subseteq checked
    /\ stage \in {"stack casts", "done"} => \A v \in Class("Seq") : doesPointToStack(v) => v \in checked

\* The heap pointers stay in the map, and what is handed to the range analysis stays so.
LEMMA CheckedInductive == Sets /\ Checked /\ [Next]_vars => Checked'
<1> SUFFICES ASSUME Sets, Checked, [Next]_vars PROVE Checked'
  OBVIOUS
<1> USE DEF graph, heapVars, allocVars, stackVars
<1>1. /\ HeapStart' = HeapStart /\ Class("Seq")' = Class("Seq")
      /\ \A v : doesPointToStack(v)' <=> doesPointToStack(v)
  BY NothingMoves, ProgramFrozen
<1>2. CASE buildGraph
  BY <1>1, <1>2, GraphStep DEF Checked, GraphStages
<1>3. CASE collectHeapPointers
  BY <1>1, <1>3 DEF collectHeapPointers, Checked, HeapStart
<1>4. CASE identifyHeapObjectClassification
  BY <1>1, <1>4 DEF identifyHeapObjectClassification, Checked, GraphStages
<1>5. CASE identifyAndClassifyUnsafeHeapObjects
  BY <1>1, <1>5 DEF identifyAndClassifyUnsafeHeapObjects, Checked, GraphStages
<1>6. CASE removeOverlap \/ findNonAliased \/ eraseAliased \/ \E o \in objects : addAliasSet(o)
  BY <1>1, <1>6 DEF removeOverlap, findNonAliased, eraseAliased, addAliasSet, Checked, GraphStages
<1>7. CASE checkHeapPointers
  BY <1>1, <1>7 DEF checkHeapPointers, Checked, GraphStages
<1>8. CASE safeTypeCastAnalysisHeap \/ safeTypeCastAnalysisStack
  BY <1>1, <1>8 DEF safeTypeCastAnalysisHeap, safeTypeCastAnalysisStack, Checked, GraphStages
<1>9. CASE identifyStackPointers
  <2>1. /\ stage = "heap casts" /\ stage' = "stack casts" /\ heapPointerSet' = heapPointerSet
        /\ checked' = checked \cup ({v \in Variables : doesPointToStack(v)} \cap Class("Seq"))
    BY <1>9 DEF identifyStackPointers
  <2> QED
    BY <1>1, <2>1 DEF Checked, Class, GraphStages
<1>10. CASE finish \/ crash
  BY <1>1, <1>10 DEF finish, crash, Checked, GraphStages
<1>11. CASE UNCHANGED vars
  BY <1>1, <1>11 DEF vars, Checked
<1> QED
  BY <1>2, <1>3, <1>4, <1>5, <1>6, <1>7, <1>8, <1>9, <1>10, <1>11 DEF Next, Done

\* When the pass starts, the maps are empty.
LEMMA CheckedStart == Init => Checked
  BY DEF Init, GraphInit, Checked, GraphStages

\* For every program and every order of addresses, the heap and the stack analysis
\* between them hand every Seq pointer to valueRangeAnalysis, unless it is computed
\* from a global directly or unknown to the points-to analysis.
THEOREM EverySeqChecked == Spec => []SeqChecked
<1>1. Sets /\ Checked => SeqChecked
  <2> SUFFICES ASSUME Sets, Checked, stage = "done", NEW v \in Class("Seq") \cap DOMAIN prog.insts, v \in prog.nodes,
                      Range(Ops(v)) \cap prog.globals = {}
               PROVE  v \in checked
    BY DEF SeqChecked
  <2>1. CASE doesPointToStack(v)
    BY <2>1 DEF Checked
  <2>2. CASE ~doesPointToStack(v)
    <3>1. isAllocationFn(v) \/ \E j \in DOMAIN Ops(v) : isAllocationFn(Ops(v)[j])
      BY <2>2 DEF doesPointToStack, Range
    <3>2. \A i \in DOMAIN Ops(v) : Ops(v)[i] \notin prog.globals
      BY DEF Range
    <3>3. \A j \in DOMAIN Ops(v) : \A i \in 1 .. j : i \in DOMAIN Ops(v)
      <4>1. Ops(v) \in Seq(STRING)
        BY ProgramsAssumption DEF Sets, Ops
      <4> QED
        BY <4>1
    <3>4. isPtrToHeap(v)
      BY <3>1, <3>2, <3>3 DEF isPtrToHeap, Allocates
    <3> QED
      BY <3>4 DEF Checked, HeapStart, Class, GraphStages
  <2> QED
    BY <2>1, <2>2
<1> QED
  BY <1>1, SetsStart, CheckedStart, SetsInductive, CheckedInductive, PTL DEF Spec

-----------------------------------------------------------------------------

Closed(C) == First \subseteq C /\ \A v \in C : UnsafeAliases(v) \subseteq C

Expanded(S) == \A v \in First : (it = None \/ order[v] < order[it]) => UnsafeAliases(v) \subseteq S

UnsafeFound ==
    /\ stage \in GraphStages => unsafeUniqueHeapPointerSet = {}
    /\ stage = "classify" =>
          unsafeUniqueHeapPointerSet = {} /\ heapPointerSet = HeapStart \cup UNION {Aliases(v) : v \in HeapStart}
    /\ stage = "by alias" =>
          First \subseteq unsafeUniqueHeapPointerSet /\ it \in unsafeUniqueHeapPointerSet \cup {None} /\ Expanded(unsafeUniqueHeapPointerSet)
    /\ stage \in {"non-aliased", "alias sets", "allocations", "heap casts", "stack casts", "done"} =>
          \A v \in First : UnsafeAliases(v) \subseteq unsafeUniqueHeapPointerSet
    /\ stage \notin GraphStages => \A C \in SUBSET Unsafe : Closed(C) => unsafeUniqueHeapPointerSet \subseteq C

\* The loop over the growing map (Uriah.cpp:285) expands every key it started with
\* and inserts nothing but unsafe aliases of its keys.
LEMMA UnsafeFoundInductive == Sets /\ UnsafeFound /\ [Next]_vars => UnsafeFound'
<1> SUFFICES ASSUME Sets, UnsafeFound, [Next]_vars PROVE UnsafeFound'
  OBVIOUS
<1> USE DEF graph, heapVars, allocVars, stackVars
<1> DEFINE S == unsafeUniqueHeapPointerSet
<1>1. prog' = prog
  BY NothingMoves
<1>2. Unsafe' = Unsafe /\ HeapStart' = HeapStart
  BY <1>1, ProgramFrozen
<1>3. ASSUME stage \notin GraphStages \/ collectHeapPointers
      PROVE  /\ First' = First /\ \A C : Closed(C)' <=> Closed(C)
             /\ \A v : Aliases(v)' = Aliases(v) /\ UnsafeAliases(v)' = UnsafeAliases(v)
  <2>1. edges' = edges
    BY <1>3, NothingMoves DEF collectHeapPointers
  <2>2. First' = First /\ \A v : Aliases(v)' = Aliases(v) /\ UnsafeAliases(v)' = UnsafeAliases(v)
    BY <1>1, <2>1, AliasesFrozen
  <2> QED
    BY <2>2 DEF Closed
<1>4. CASE buildGraph
  BY <1>4, GraphStep DEF UnsafeFound, GraphStages
<1>5. CASE collectHeapPointers
  <2>1. /\ stage = "collect" /\ stage' = "classify" /\ S' = S
        /\ heapPointerSet' = HeapStart \cup UNION {Aliases(v) : v \in HeapStart}
    BY <1>5 DEF collectHeapPointers, HeapStart
  <2>2. S = {}
    BY <2>1 DEF UnsafeFound, GraphStages
  <2>3. \A v : Aliases(v)' = Aliases(v)
    BY <1>3, <1>5
  <2>4. heapPointerSet' = HeapStart' \cup UNION {Aliases(v)' : v \in HeapStart'}
    BY <1>2, <2>1, <2>3
  <2> QED
    BY <2>1, <2>2, <2>4 DEF UnsafeFound, GraphStages
<1>6. CASE identifyHeapObjectClassification
  <2>1. /\ stage = "classify" /\ stage' = "by alias"
        /\ S' = (heapPointerSet \cap Class("Seq")) \cup (heapPointerSet \cap Class("Dyn"))
        /\ it' = After(S', None)
    BY <1>6 DEF identifyHeapObjectClassification
  <2>2. S' = First
    BY <2>1 DEF UnsafeFound, First, Unsafe
  <2>3. First' = First /\ \A C : Closed(C)' <=> Closed(C)
    BY <1>3, <2>1 DEF GraphStages
  <2>4. order' = order /\ order \in [Variables -> Nat] /\ None \notin Variables
    BY <2>1, NothingMoves, Addresses DEF GraphStages
  <2>5. First \subseteq Variables
    BY DEF First, Unsafe, Class
  <2>6. it' \in First \cup {None} /\ \A w \in First : it' # None /\ order[it'] <= order[w]
    <3>1. it' = After(First, None)
      BY <2>1, <2>2
    <3> HIDE DEF S
    <3> QED
      BY <3>1, <2>4, <2>5, AfterIsNext
  <2>7. \A v \in First : ~(it' = None \/ order[v] < order[it'])
    BY <2>4, <2>5, <2>6
  <2>8. Expanded(S)'
    BY <2>3, <2>4, <2>7 DEF Expanded
  <2> QED
    BY <2>1, <2>2, <2>3, <2>6, <2>8 DEF UnsafeFound, Closed, GraphStages
<1>7. CASE identifyAndClassifyUnsafeHeapObjects
  <2>1. /\ stage = "by alias" /\ stage' = "by alias" /\ it # None
        /\ S' = S \cup UnsafeAliases(it) /\ it' = After(S', it)
    BY <1>7 DEF identifyAndClassifyUnsafeHeapObjects
  <2>2. /\ First' = First /\ \A C : Closed(C)' <=> Closed(C)
        /\ \A v : UnsafeAliases(v)' = UnsafeAliases(v)
    BY <1>3, <2>1 DEF GraphStages
  <2>3. /\ order' = order /\ order \in [Variables -> Nat] /\ None \notin Variables
        /\ \A v, w \in Variables : order[v] = order[w] => v = w
    BY <2>1, NothingMoves, Addresses DEF GraphStages
  <2>4. First \subseteq S /\ it \in S /\ Expanded(S) /\ S' \subseteq Variables
    BY <2>1, SetsInductive, <1>1, ProgramFrozen DEF UnsafeFound, Sets
  <2>5. it' \in S' \cup {None} /\ \A w \in S' : order[w] > order[it] => it' # None /\ order[it'] <= order[w]
    <3> HIDE DEF S
    <3>1. it \in S' \cup {None}
      BY <2>1, <2>4
    <3> QED
      BY <2>1, <2>3, <2>4, <3>1, AfterIsNext
  <2>6. ASSUME NEW v \in First, it' = None \/ order[v] < order[it'] PROVE UnsafeAliases(v) \subseteq S'
    <3>1. v \in S' /\ v \in Variables /\ it \in Variables
      BY <2>1, <2>4
    <3>2. ~(order[v] > order[it])
      <4>1. CASE it' = None
        BY <4>1, <3>1, <2>5
      <4>2. CASE it' # None /\ order[v] < order[it']
        <5>1. it' \in Variables
          BY <4>2, <2>4, <2>5
        <5> QED
          BY <4>2, <5>1, <3>1, <2>3, <2>5
      <4> QED
        BY <4>1, <4>2, <2>6
    <3>3. v = it \/ order[v] < order[it]
      BY <3>1, <3>2, <2>3
    <3> QED
      BY <3>3, <2>1, <2>4 DEF Expanded
  <2>7. Expanded(S)'
    BY <2>2, <2>3, <2>6 DEF Expanded
  <2>8. ASSUME NEW C \in SUBSET Unsafe, Closed(C) PROVE S' \subseteq C
    <3>1. S \subseteq C
      BY <2>8, <2>1 DEF UnsafeFound, GraphStages
    <3> QED
      BY <3>1, <2>1, <2>4, <2>8 DEF Closed
  <2>9. First' \subseteq S'
    BY <2>1, <2>2, <2>4
  <2> HIDE DEF S
  <2> QED
    BY <1>2, <2>1, <2>2, <2>5, <2>7, <2>8, <2>9 DEF UnsafeFound, GraphStages, S
<1>8. CASE removeOverlap
  <2>1. stage = "by alias" /\ it = None /\ stage' = "non-aliased" /\ S' = S
    BY <1>8 DEF removeOverlap
  <2>2. /\ First' = First /\ \A C : Closed(C)' <=> Closed(C)
        /\ \A v : UnsafeAliases(v)' = UnsafeAliases(v)
    BY <1>3, <2>1 DEF GraphStages
  <2> QED
    BY <1>2, <2>1, <2>2 DEF UnsafeFound, Expanded, GraphStages
<1>9. CASE \/ findNonAliased \/ (\E o \in objects : addAliasSet(o)) \/ eraseAliased \/ checkHeapPointers
           \/ safeTypeCastAnalysisHeap \/ identifyStackPointers \/ safeTypeCastAnalysisStack \/ finish \/ crash
  <2>1. /\ S' = S /\ stage \in {"non-aliased", "alias sets", "allocations", "heap casts", "stack casts"}
        /\ stage' \in {"alias sets", "allocations", "heap casts", "stack casts", "done", "crashed"}
    BY <1>9 DEF findNonAliased, addAliasSet, eraseAliased, checkHeapPointers, safeTypeCastAnalysisHeap, identifyStackPointers,
                safeTypeCastAnalysisStack, finish, crash
  <2>2. /\ First' = First /\ \A C : Closed(C)' <=> Closed(C)
        /\ \A v : UnsafeAliases(v)' = UnsafeAliases(v)
    BY <1>3, <2>1 DEF GraphStages
  <2> QED
    BY <1>2, <2>1, <2>2 DEF UnsafeFound, GraphStages
<1>10. CASE UNCHANGED vars
  <2>1. S' = S /\ stage' = stage /\ it' = it /\ order' = order /\ edges' = edges /\ heapPointerSet' = heapPointerSet
    BY <1>10 DEF vars
  <2>2. First' = First /\ \A v : Aliases(v)' = Aliases(v) /\ UnsafeAliases(v)' = UnsafeAliases(v)
    BY <1>1, <2>1, AliasesFrozen
  <2>3. (\A C : Closed(C)' <=> Closed(C)) /\ (Expanded(S)' <=> Expanded(S))
    BY <2>1, <2>2 DEF Closed, Expanded
  <2>4. UNION {Aliases(v) : v \in HeapStart}' = UNION {Aliases(v) : v \in HeapStart}
    BY <1>2, <2>2
  <2>5. (stage = "classify" => heapPointerSet = HeapStart \cup UNION {Aliases(v) : v \in HeapStart})'
    BY <1>2, <2>1, <2>4 DEF UnsafeFound
  <2>6. (stage \notin GraphStages => \A C \in SUBSET Unsafe : Closed(C) => S \subseteq C)'
    BY <1>2, <2>1, <2>3 DEF UnsafeFound
  <2> QED
    BY <2>1, <2>2, <2>3, <2>5, <2>6 DEF UnsafeFound
<1> QED
  BY <1>4, <1>5, <1>6, <1>7, <1>8, <1>9, <1>10 DEF Next, Done

\* When the pass starts, the maps are empty.
LEMMA UnsafeFoundStart == Init => UnsafeFound
  BY DEF Init, GraphInit, UnsafeFound, GraphStages

\* For every program and every order of addresses, the loop that inserts into the
\* map it runs over finds the unsafe aliases of all it started with, and nothing
\* that lies outside a set closed under unsafe aliases.
THEOREM AliasesFound == Spec => []UnsafeAliasesFound
<1>1. UnsafeFound => UnsafeAliasesFound
  <2>1. \A v : UnsafeAliases(v) = Aliases(v) \cap Unsafe
    BY DEF UnsafeAliases, Unsafe
  <2> QED
    BY <2>1 DEF UnsafeFound, UnsafeAliasesFound, Closed, GraphStages
<1> QED
  BY <1>1, SetsStart, UnsafeFoundStart, SetsInductive, UnsafeFoundInductive, PTL DEF Spec

=============================================================================
