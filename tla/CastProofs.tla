----------------------------- MODULE CastProofs ------------------------------
(***************************************************************************)
(* Which casts safeTypeCastAnalysis leaves in its maps, for every program  *)
(* and every order of addresses.  CastsJudged says that no safe cast is    *)
(* before the iterator, unless an erased key was used.                     *)
(***************************************************************************)
EXTENDS PointerSetsProofs

\* The casts erased so far, and the casts before the iterator's key.
Erased(all, left) == left \subseteq all /\ \A c \in all \ left : SafeCast(c) \/ \E d \in all : SafeCast(d) /\ Ops(d)[1] = c
Passed(left, key) == \A c \in left : (key = None \/ order[c] < order[key]) => ~SafeCast(c)

HeapCasts == Erased(Casts(heapDynPointerSet), heapDynPtrSet)
StackCasts == Erased(Casts(stackDynPointerSet), stackDynPtrSet)

CastsJudged ==
    /\ undefinedUse \in BOOLEAN
    /\ stage \in {"by alias", "non-aliased", "alias sets", "allocations"} => heapDynPtrSet = Casts(heapDynPointerSet)
    /\ stage = "heap casts" => HeapCasts /\ it \in heapDynPtrSet \cup {None} /\ (undefinedUse \/ Passed(heapDynPtrSet, it))
    /\ stage \in {"stack casts", "done"} => HeapCasts /\ (undefinedUse \/ Passed(heapDynPtrSet, None))
    /\ stage = "stack casts" => StackCasts /\ it \in stackDynPtrSet \cup {None} /\ (undefinedUse \/ Passed(stackDynPtrSet, it))
    /\ stage = "done" => StackCasts /\ (undefinedUse \/ Passed(stackDynPtrSet, None))

\* The casts among the pointers, and the judgement on them, are those of the program.
LEMMA CastsFrozen ==
    ASSUME prog' = prog
    PROVE  /\ \A S : Casts(S)' = Casts(S)
           /\ \A all, left : Erased(all, left)' <=> Erased(all, left)
           /\ order' = order => \A left, key : Passed(left, key)' <=> Passed(left, key)
<1>1. \A S : Casts(S)' = Casts(S)
  BY ProgramFrozen DEF Casts
<1>2. \A all, left : Erased(all, left)' <=> Erased(all, left)
  BY ProgramFrozen DEF Erased
<1>3. order' = order => \A left, key : Passed(left, key)' <=> Passed(left, key)
  BY ProgramFrozen DEF Passed
<1> QED
  BY <1>1, <1>2, <1>3

\* The loop over a map of casts starts before all of them.
LEMMA CastsStart ==
    ASSUME Sets, stage \notin GraphStages, NEW S, S \subseteq Variables
    PROVE  After(S, None) \in S \cup {None} /\ Passed(S, After(S, None))
<1>1. order \in [Variables -> Nat] /\ None \notin Variables
  BY Addresses
<1>2. After(S, None) \in S \cup {None} /\ \A w \in S : After(S, None) # None /\ order[After(S, None)] <= order[w]
  BY <1>1, AfterIsNext
<1> QED
  BY <1>1, <1>2 DEF Passed

\* One turn of the loop (CompatibleType.cpp:128): what it erases is a safe cast or
\* the operand of one, and it passes over no safe cast unless it uses an erased key.
LEMMA CastsTurn ==
    ASSUME Sets, stage \notin GraphStages, NEW all, NEW S, all \subseteq Variables, Erased(all, S), it \in S,
           NEW next \in castStep(S)[3]
    PROVE  /\ Erased(all, castStep(S)[1]) /\ next \in castStep(S)[1] \cup {None} /\ castStep(S)[2] \in BOOLEAN
           /\ Passed(S, it) => castStep(S)[2] \/ Passed(castStep(S)[1], next)
<1> DEFINE left == IF SafeCast(it) THEN S \ {it, Ops(it)[1]} ELSE S
<1> DEFINE dangling == After(S, it) # None /\ After(S, it) \notin left
<1>1. castStep(S) = <<left, dangling, IF dangling THEN left \cup {None} ELSE {After(S, it)}>>
  BY DEF castStep
<1>2. castStep(S)[1] = left /\ castStep(S)[2] = dangling /\ castStep(S)[3] = IF dangling THEN left \cup {None} ELSE {After(S, it)}
  <2> HIDE DEF left, dangling
  <2> QED
    BY <1>1
<1>3. /\ order \in [Variables -> Nat] /\ None \notin Variables
      /\ \A v, w \in Variables : order[v] = order[w] => v = w
  BY Addresses
<1>4. S \subseteq all /\ S \subseteq Variables /\ it \in Variables /\ it # None
  BY <1>3 DEF Erased
<1>5. /\ After(S, it) \in S \cup {None}
      /\ \A w \in S : order[w] > order[it] => After(S, it) # None /\ order[After(S, it)] <= order[w]
  BY <1>3, <1>4, AfterIsNext
<1>6. Erased(all, left)
  BY <1>4 DEF Erased
<1>7. next \in left \cup {None}
  BY <1>2, <1>5
<1>8. ASSUME Passed(S, it), ~dangling PROVE Passed(left, next)
  <2>1. next = After(S, it)
    BY <1>2, <1>8
  <2> SUFFICES ASSUME NEW c \in left, next = None \/ order[c] < order[next] PROVE ~SafeCast(c)
    BY DEF Passed
  <2>2. c \in S /\ c \in Variables /\ (SafeCast(it) => c # it)
    BY <1>4
  <2>3. ~(order[c] > order[it])
    <3>1. CASE next = None
      BY <3>1, <2>1, <2>2, <1>5
    <3>2. CASE next # None
      <4>1. next \in Variables
        BY <3>2, <2>1, <1>4, <1>5
      <4> QED
        BY <3>2, <4>1, <2>1, <2>2, <1>3, <1>5
    <3> QED
      BY <3>1, <3>2
  <2>4. c = it \/ order[c] < order[it]
    BY <2>2, <2>3, <1>3, <1>4
  <2> QED
    BY <2>2, <2>4, <1>8 DEF Passed
<1> HIDE DEF left, dangling
<1>9. dangling \in BOOLEAN
  BY DEF dangling
<1> QED
  BY <1>2, <1>6, <1>7, <1>8, <1>9

\* The two loops of the type-cast analysis keep what they have judged.
LEMMA CastsJudgedInductive == Sets /\ CastsJudged /\ [Next]_vars => CastsJudged'
<1> SUFFICES ASSUME Sets, CastsJudged, [Next]_vars PROVE CastsJudged'
  OBVIOUS
<1> USE DEF graph, heapVars, allocVars, stackVars
<1>1. prog' = prog
  BY NothingMoves
<1>2. /\ \A S : Casts(S)' = Casts(S)
      /\ \A all, left : Erased(all, left)' <=> Erased(all, left)
  BY <1>1, CastsFrozen
<1>3. stage \notin GraphStages => \A left, key : Passed(left, key)' <=> Passed(left, key)
  BY <1>1, NothingMoves, CastsFrozen
<1>4. CASE buildGraph
  BY <1>4, GraphStep DEF CastsJudged, GraphStages
<1>5. CASE collectHeapPointers
  BY <1>5 DEF collectHeapPointers, CastsJudged
<1>6. CASE identifyHeapObjectClassification
  BY <1>2, <1>6 DEF identifyHeapObjectClassification, CastsJudged
<1>7. CASE identifyAndClassifyUnsafeHeapObjects
  <2>1. /\ stage = "by alias" /\ stage' = "by alias" /\ undefinedUse' = undefinedUse
        /\ heapDynPointerSet' = heapDynPointerSet \cup (Aliases(it) \cap Class("Dyn"))
        /\ heapDynPtrSet' = heapDynPtrSet \cup Casts(Aliases(it) \cap Class("Dyn"))
    BY <1>7 DEF identifyAndClassifyUnsafeHeapObjects
  <2>2. heapDynPtrSet' = Casts(heapDynPointerSet')
    BY <2>1 DEF CastsJudged, Casts
  <2> QED
    BY <1>2, <2>1, <2>2 DEF CastsJudged
<1>8. CASE removeOverlap \/ findNonAliased \/ (\E o \in objects : addAliasSet(o)) \/ eraseAliased
  BY <1>2, <1>8 DEF removeOverlap, findNonAliased, addAliasSet, eraseAliased, CastsJudged
<1>9. CASE checkHeapPointers
  <2>1. /\ stage = "allocations" /\ stage' = "heap casts" /\ undefinedUse' = undefinedUse
        /\ heapDynPointerSet' = heapDynPointerSet /\ heapDynPtrSet' = heapDynPtrSet /\ it' = After(heapDynPtrSet, None)
    BY <1>9 DEF checkHeapPointers
  <2>2. heapDynPtrSet = Casts(heapDynPointerSet) /\ heapDynPtrSet \subseteq Variables
    BY <2>1 DEF CastsJudged, Casts, Sets
  <2>3. it' \in heapDynPtrSet \cup {None} /\ Passed(heapDynPtrSet, it')
    BY <2>1, <2>2, CastsStart DEF GraphStages
  <2>4. Erased(Casts(heapDynPointerSet), heapDynPtrSet)
    BY <2>2 DEF Erased
  <2>5. HeapCasts' /\ Passed(heapDynPtrSet, it)'
    <3>1. Erased(Casts(heapDynPointerSet), heapDynPtrSet)'
      BY <1>2, <2>1, <2>4
    <3>2. Passed(heapDynPtrSet, it)'
      BY <1>3, <2>1, <2>3 DEF GraphStages
    <3> QED
      BY <3>1, <3>2 DEF HeapCasts
  <2> QED
    BY <2>1, <2>3, <2>5 DEF CastsJudged
<1>10. CASE safeTypeCastAnalysisHeap
  <2> DEFINE S == heapDynPtrSet
  <2> DEFINE all == Casts(heapDynPointerSet)
  <2>1. /\ stage = "heap casts" /\ stage' = "heap casts" /\ it # None /\ heapDynPointerSet' = heapDynPointerSet
        /\ S' = castStep(S)[1] /\ undefinedUse' = (undefinedUse \/ castStep(S)[2]) /\ it' \in castStep(S)[3]
    BY <1>10 DEF safeTypeCastAnalysisHeap
  <2>2. all \subseteq Variables /\ Erased(all, S) /\ it \in S /\ (undefinedUse \/ Passed(S, it))
    BY <2>1 DEF CastsJudged, HeapCasts, Casts, Sets
  <2>3. /\ Erased(all, S') /\ it' \in S' \cup {None} /\ castStep(S)[2] \in BOOLEAN
        /\ Passed(S, it) => castStep(S)[2] \/ Passed(S', it')
    <3> HIDE DEF S, all
    <3> QED
      BY <2>1, <2>2, CastsTurn DEF GraphStages
  <2>4. HeapCasts' /\ (Passed(S, it)' <=> Passed(S', it'))
    <3>1. Erased(all, S)'
      BY <1>2, <2>1, <2>3
    <3>2. Passed(S, it)' <=> Passed(S', it')
      BY <1>3, <2>1 DEF GraphStages
    <3> QED
      BY <3>1, <3>2 DEF HeapCasts
  <2> QED
    BY <2>1, <2>2, <2>3, <2>4 DEF CastsJudged
<1>11. CASE identifyStackPointers
  <2> DEFINE dyn == {v \in Variables : doesPointToStack(v)} \cap Class("Dyn")
  <2>1. /\ stage = "heap casts" /\ it = None /\ stage' = "stack casts" /\ undefinedUse' = undefinedUse
        /\ heapDynPointerSet' = heapDynPointerSet /\ heapDynPtrSet' = heapDynPtrSet
        /\ stackDynPointerSet' = dyn /\ stackDynPtrSet' = Casts(dyn) /\ it' = After(Casts(dyn), None)
    BY <1>11 DEF identifyStackPointers
  <2>2. Casts(dyn) \subseteq Variables
    BY DEF Casts
  <2> HIDE DEF dyn
  <2>3. it' \in Casts(dyn) \cup {None} /\ Passed(Casts(dyn), it')
    BY <2>1, <2>2, CastsStart DEF GraphStages
  <2>4. Erased(Casts(dyn), Casts(dyn))
    BY DEF Erased
  <2>5. HeapCasts /\ (undefinedUse \/ Passed(heapDynPtrSet, None))
    BY <2>1 DEF CastsJudged
  <2>6. HeapCasts' /\ (undefinedUse \/ Passed(heapDynPtrSet, None)')
    <3>1. Erased(Casts(heapDynPointerSet), heapDynPtrSet)'
      BY <1>2, <2>1, <2>5 DEF HeapCasts
    <3>2. Passed(heapDynPtrSet, None)' <=> Passed(heapDynPtrSet, None)
      BY <1>3, <2>1 DEF GraphStages
    <3> QED
      BY <3>1, <3>2, <2>5 DEF HeapCasts
  <2>7. StackCasts' /\ Passed(stackDynPtrSet, it)'
    <3>1. Erased(Casts(stackDynPointerSet), stackDynPtrSet)'
      BY <1>2, <2>1, <2>4
    <3>2. Passed(stackDynPtrSet, it)'
      BY <1>3, <2>1, <2>3 DEF GraphStages
    <3> QED
      BY <3>1, <3>2 DEF StackCasts
  <2> QED
    BY <2>1, <2>3, <2>6, <2>7 DEF CastsJudged
<1>12. ASSUME stage \in {"stack casts", "done"}, heapDynPointerSet' = heapDynPointerSet, heapDynPtrSet' = heapDynPtrSet
       PROVE  HeapCasts' /\ (undefinedUse \/ Passed(heapDynPtrSet, None)')
  <2>1. HeapCasts /\ (undefinedUse \/ Passed(heapDynPtrSet, None))
    BY <1>12 DEF CastsJudged
  <2>2. Erased(Casts(heapDynPointerSet), heapDynPtrSet)'
    BY <1>2, <1>12, <2>1 DEF HeapCasts
  <2>3. Passed(heapDynPtrSet, None)' <=> Passed(heapDynPtrSet, None)
    BY <1>3, <1>12 DEF GraphStages
  <2> QED
    BY <2>1, <2>2, <2>3 DEF HeapCasts
<1>13. CASE safeTypeCastAnalysisStack
  <2> DEFINE S == stackDynPtrSet
  <2> DEFINE all == Casts(stackDynPointerSet)
  <2>1. /\ stage = "stack casts" /\ stage' = "stack casts" /\ it # None /\ stackDynPointerSet' = stackDynPointerSet
        /\ heapDynPointerSet' = heapDynPointerSet /\ heapDynPtrSet' = heapDynPtrSet
        /\ S' = castStep(S)[1] /\ undefinedUse' = (undefinedUse \/ castStep(S)[2]) /\ it' \in castStep(S)[3]
    BY <1>13 DEF safeTypeCastAnalysisStack
  <2>2. all \subseteq Variables /\ Erased(all, S) /\ it \in S /\ (undefinedUse \/ Passed(S, it))
    BY <2>1 DEF CastsJudged, StackCasts, Casts, Sets
  <2>3. /\ Erased(all, S') /\ it' \in S' \cup {None} /\ castStep(S)[2] \in BOOLEAN
        /\ Passed(S, it) => castStep(S)[2] \/ Passed(S', it')
    <3> HIDE DEF S, all
    <3> QED
      BY <2>1, <2>2, CastsTurn DEF GraphStages
  <2>4. StackCasts' /\ (Passed(S, it)' <=> Passed(S', it'))
    <3>1. Erased(all, S)'
      BY <1>2, <2>1, <2>3
    <3>2. Passed(S, it)' <=> Passed(S', it')
      BY <1>3, <2>1 DEF GraphStages
    <3> QED
      BY <3>1, <3>2 DEF StackCasts
  <2>5. HeapCasts' /\ (undefinedUse \/ Passed(heapDynPtrSet, None)')
    BY <1>12, <2>1
  <2> QED
    BY <2>1, <2>2, <2>3, <2>4, <2>5 DEF CastsJudged
<1>14. CASE finish
  <2>1. /\ stage = "stack casts" /\ it = None /\ stage' = "done" /\ undefinedUse' = undefinedUse
        /\ heapDynPointerSet' = heapDynPointerSet /\ heapDynPtrSet' = heapDynPtrSet
        /\ stackDynPointerSet' = stackDynPointerSet /\ stackDynPtrSet' = stackDynPtrSet
    BY <1>14 DEF finish
  <2>2. StackCasts /\ (undefinedUse \/ Passed(stackDynPtrSet, None))
    BY <2>1 DEF CastsJudged
  <2>3. StackCasts' /\ (undefinedUse \/ Passed(stackDynPtrSet, None)')
    <3>1. Erased(Casts(stackDynPointerSet), stackDynPtrSet)'
      BY <1>2, <2>1, <2>2 DEF StackCasts
    <3>2. Passed(stackDynPtrSet, None)' <=> Passed(stackDynPtrSet, None)
      BY <1>3, <2>1 DEF GraphStages
    <3> QED
      BY <3>1, <3>2, <2>2 DEF StackCasts
  <2> QED
    BY <1>12, <2>1, <2>3 DEF CastsJudged
<1>15. CASE crash
  BY <1>15 DEF crash, CastsJudged
<1>16. CASE UNCHANGED vars
  <2>1. /\ stage' = stage /\ it' = it /\ undefinedUse' = undefinedUse /\ order' = order
        /\ heapDynPointerSet' = heapDynPointerSet /\ heapDynPtrSet' = heapDynPtrSet
        /\ stackDynPointerSet' = stackDynPointerSet /\ stackDynPtrSet' = stackDynPtrSet
    BY <1>16 DEF vars
  <2>2. /\ Casts(heapDynPointerSet)' = Casts(heapDynPointerSet)
        /\ (HeapCasts' <=> HeapCasts) /\ (StackCasts' <=> StackCasts)
    BY <1>2, <2>1 DEF HeapCasts, StackCasts
  <2>3. \A left, key : Passed(left, key)' <=> Passed(left, key)
    BY <1>1, <2>1, CastsFrozen
  <2>4. /\ Passed(heapDynPtrSet, it)' <=> Passed(heapDynPtrSet, it)
        /\ Passed(heapDynPtrSet, None)' <=> Passed(heapDynPtrSet, None)
        /\ Passed(stackDynPtrSet, it)' <=> Passed(stackDynPtrSet, it)
        /\ Passed(stackDynPtrSet, None)' <=> Passed(stackDynPtrSet, None)
    BY <2>1, <2>3
  <2> QED
    BY <2>1, <2>2, <2>4 DEF CastsJudged
<1> QED
  BY <1>4, <1>5, <1>6, <1>7, <1>8, <1>9, <1>10, <1>11, <1>13, <1>14, <1>15, <1>16 DEF Next, Done

\* When the pass starts, the maps are empty.
LEMMA CastsJudgedStart == Init => CastsJudged
  BY DEF Init, GraphInit, CastsJudged, GraphStages

\* For every program and every order of addresses, the type-cast analysis erases
\* only safe casts and their operands, even after it used an erased key; and if it
\* never uses one, no safe cast is left.
THEOREM CastsAreKept == Spec => []UnsafeCastsKept
<1>1. CastsJudged => UnsafeCastsKept
  BY DEF CastsJudged, UnsafeCastsKept, CastsKept, HeapCasts, StackCasts, Erased, Passed
<1> QED
  BY <1>1, SetsStart, CastsJudgedStart, SetsInductive, CastsJudgedInductive, PTL DEF Spec

=============================================================================
