------------------------ MODULE DependenceGraphProofs ------------------------
(***************************************************************************)
(* The alias edges of DataDependencyGraph are exact, for every program and *)
(* every order in which objects and sets are met.                          *)
(*                                                                         *)
(* AliasEdgesExact is not inductive: it says nothing while the sets of a   *)
(* function are collected.  The invariant adds that no edge is wrong       *)
(* (AliasSound), that the edges of the syntactic query are there before    *)
(* the sets are connected, and that each object met so far is covered by a *)
(* set, each of which belongs to one object (SetsCover).                   *)
(***************************************************************************)
EXTENDS DependenceGraph, TLAPS

AliasSound ==
    \A v, w \in DOMAIN prog.insts :
        <<v, w, "DATA_ALIAS">> \in edges => prog.insts[v].fn = prog.insts[w].fn /\ ShouldAlias(v, w)

AliasComplete ==
    \A f \in FunctionsDone : \A v, w \in Insts(f) : ShouldAlias(v, w) => <<v, w, "DATA_ALIAS">> \in edges

QueryConnected(f) ==
    \A v, w \in Insts(f) :
        (v # w /\ TypesMatch(v, w) /\ (queryAliasUnderApproximate(v, w) \/ queryAliasUnderApproximate(w, v)))
            => <<v, w, "DATA_ALIAS">> \in edges

SetsCover(f) ==
    /\ \A s \in unique_alias_inst_set : \E o : s = InstsOn(f, o)
    /\ \A v \in Insts(f) : \A o \in prog.pts[v] : o \in objects \/ \E s \in unique_alias_inst_set : InstsOn(f, o) \subseteq s

IInv ==
    /\ prog \in Programs /\ fns \in Seq(DOMAIN prog.cfg)
    /\ AliasSound /\ AliasComplete
    /\ stage \in {"ddg", "ddg sets", "pdg", "collect"}
    /\ stage = "ddg" => unique_alias_inst_set = {}
    /\ stage = "ddg sets" => fns # <<>> /\ QueryConnected(Head(fns)) /\ SetsCover(Head(fns))

\* What the reduction does to the sets (DataDependencyGraph.cpp:68): the new set is
\* covered, no set that was covered is lost, and no other set appears.
LEMMA ReductionCovers ==
    ASSUME NEW s, NEW U, NEW W \in WithAliasSet(s, U)
    PROVE  /\ \E t \in W : s \subseteq t
           /\ \A t \in U : \E r \in W : t \subseteq r
           /\ \A t \in W : t \in U \/ t = s
<1> DEFINE comparable == {x \in U : s \subseteq x \/ x \subseteq s}
<1>1. CASE s \in U
  BY <1>1 DEF WithAliasSet
<1>2. CASE s \notin U /\ comparable = {}
  BY <1>2 DEF WithAliasSet
<1>3. CASE s \notin U /\ comparable # {}
  <2>1. PICK x \in comparable : W = IF s \subseteq x THEN U ELSE (U \ {x}) \cup {s}
    BY <1>3 DEF WithAliasSet
  <2> QED
    BY <2>1
<1> QED
  BY <1>1, <1>2, <1>3

\* The edges of addNeighbor in both directions (PDGNode.cpp:5).
LEMMA BothMember ==
    ASSUME NEW pairs, NEW type, NEW v, NEW w
    PROVE  <<v, w, type>> \in Both(pairs, type) <=> \E p \in pairs : (p[1] = v /\ p[2] = w) \/ (p[1] = w /\ p[2] = v)
  BY DEF Both

\* The edges of one type are not edges of another.
LEMMA OtherTypes ==
    ASSUME NEW f, NEW v, NEW w
    PROVE  /\ <<v, w, "DATA_ALIAS">> \notin addDefUseEdges(f)
           /\ <<v, w, "DATA_ALIAS">> \notin addRAWEdges(f)
           /\ <<v, w, "DATA_ALIAS">> \notin addControlDepFromEntryNodeToEntryBlock(f)
           /\ <<v, w, "DATA_ALIAS">> \notin computeControlDependencies(f)
           /\ <<v, w, "DATA_ALIAS">> \notin connectGlobalTreeWithAddrVars(f)
<1>1. ASSUME NEW n, NEW b PROVE <<v, w, "DATA_ALIAS">> \notin ControlNodeToBB(f, n, b)
  BY DEF ControlNodeToBB
<1>2. <<v, w, "DATA_ALIAS">> \notin computeControlDependencies(f)
  <2> SUFFICES ASSUME <<v, w, "DATA_ALIAS">> \in computeControlDependencies(f) PROVE FALSE
    OBVIOUS
  <2> DEFINE to(b, s) == UNION {ControlNodeToBB(f, prog.cfg[f].cond[b], c) : c \in DependentBlocks(f, b, s)}
  <2> DEFINE from(b) == IF prog.cfg[f].cond[b] = None THEN {} ELSE UNION {to(b, s) : s \in Succs(f, b)}
  <2>1. PICK b \in Blocks(f) : <<v, w, "DATA_ALIAS">> \in from(b)
    BY DEF computeControlDependencies
  <2>2. PICK s \in Succs(f, b) : <<v, w, "DATA_ALIAS">> \in to(b, s)
    BY <2>1
  <2> QED
    BY <2>2, <1>1
<1>3. <<v, w, "DATA_ALIAS">> \notin addDefUseEdges(f)
  BY DEF addDefUseEdges
<1>4. <<v, w, "DATA_ALIAS">> \notin addRAWEdges(f)
  BY DEF addRAWEdges
<1>5. <<v, w, "DATA_ALIAS">> \notin addControlDepFromEntryNodeToEntryBlock(f)
  BY <1>1 DEF addControlDepFromEntryNodeToEntryBlock
<1>6. <<v, w, "DATA_ALIAS">> \notin connectGlobalTreeWithAddrVars(f)
  BY DEF connectGlobalTreeWithAddrVars
<1> QED
  BY <1>2, <1>3, <1>4, <1>5, <1>6

\* The query and the sets treat two instructions alike.
LEMMA Symmetric ==
    ASSUME NEW v, NEW w, ShouldAlias(v, w)
    PROVE  ShouldAlias(w, v)
  BY DEF ShouldAlias, SharesObject, TypesMatch

-----------------------------------------------------------------------------

\* The loop over the functions drops the first one only.
LEMMA TailKeepsRest ==
    ASSUME NEW S, NEW q \in Seq(S), q # <<>>
    PROVE  /\ Tail(q) \in Seq(S)
           /\ \A i \in DOMAIN q : q[i] = Head(q) \/ \E j \in DOMAIN Tail(q) : Tail(q)[j] = q[i]
<1>1. Tail(q) \in Seq(S) /\ Len(q) \in Nat /\ DOMAIN q = 1 .. Len(q) /\ DOMAIN Tail(q) = 1 .. Len(q) - 1
  OBVIOUS
<1>2. ASSUME NEW i \in DOMAIN q, i # 1 PROVE i - 1 \in DOMAIN Tail(q) /\ Tail(q)[i - 1] = q[i]
  BY <1>1, <1>2
<1> QED
  BY <1>1, <1>2

\* What depends on the program only does not change.
LEMMA Frozen ==
    ASSUME prog' = prog
    PROVE  /\ \A f : Insts(f)' = Insts(f)
           /\ \A f, o : InstsOn(f, o)' = InstsOn(f, o)
           /\ \A v, w : TypesMatch(v, w)' <=> TypesMatch(v, w)
           /\ \A v, w : queryAliasUnderApproximate(v, w)' <=> queryAliasUnderApproximate(v, w)
           /\ \A v, w : ShouldAlias(v, w)' <=> ShouldAlias(v, w)
<1>1. \A f : Insts(f)' = Insts(f)
  BY DEF Insts
<1>2. \A f, o : InstsOn(f, o)' = InstsOn(f, o)
  BY <1>1 DEF InstsOn
<1>3. \A v, w : TypesMatch(v, w)' <=> TypesMatch(v, w)
  BY DEF TypesMatch, isBitCast, Kind
<1>4. \A v, w : queryAliasUnderApproximate(v, w)' <=> queryAliasUnderApproximate(v, w)
  BY DEF queryAliasUnderApproximate, isPointerTy, isBitCast, Kind, users, Ops, hasAllZeroIndices
<1>5. \A v, w : ShouldAlias(v, w)' <=> ShouldAlias(v, w)
  BY <1>3, <1>4 DEF ShouldAlias, SharesObject
<1> QED
  BY <1>1, <1>2, <1>3, <1>4, <1>5

\* No step removes an edge, so what was complete stays complete.
LEMMA NoneLost ==
    ASSUME AliasComplete, prog' = prog, FunctionsDone' = FunctionsDone, edges \subseteq edges'
    PROVE  AliasComplete'
<1>1. \A f : Insts(f)' = Insts(f)
  BY Frozen
<1>2. \A v, w : ShouldAlias(v, w)' <=> ShouldAlias(v, w)
  BY Frozen
<1> QED
  BY <1>1, <1>2 DEF AliasComplete

\* A step that adds no alias edge adds no wrong one.
LEMMA NoneAdded ==
    ASSUME AliasSound, prog' = prog, \A v, w : <<v, w, "DATA_ALIAS">> \in edges' => <<v, w, "DATA_ALIAS">> \in edges
    PROVE  AliasSound'
<1>1. \A v, w : ShouldAlias(v, w)' <=> ShouldAlias(v, w)
  BY Frozen
<1> QED
  BY <1>1 DEF AliasSound

\* DataDependencyGraph keeps the invariant: one step for each part of the pass.
LEMMA Inductive == IInv /\ [GraphNext]_graphVars => IInv'
<1> SUFFICES ASSUME IInv, [GraphNext]_graphVars PROVE IInv'
  OBVIOUS
<1>1. CASE runOnInstructions
  <2> DEFINE f == Head(fns)
  <2> DEFINE pairs == {p \in Insts(f) \X Insts(f) : p[1] # p[2] /\ queryAliasUnderApproximate(p[1], p[2]) /\ TypesMatch(p[1], p[2])}
  <2>1. /\ prog' = prog /\ fns' = fns /\ fns # <<>> /\ stage = "ddg" /\ stage' = "ddg sets"
        /\ edges' = edges \cup addDefUseEdges(f) \cup addRAWEdges(f) \cup Both(pairs, "DATA_ALIAS")
        /\ objects' = UNION {prog.pts[v] : v \in Insts(f)}
        /\ unique_alias_inst_set' = unique_alias_inst_set
    BY <1>1 DEF runOnInstructions, addAliasEdges
  <2>2. ASSUME NEW v, NEW w
        PROVE  <<v, w, "DATA_ALIAS">> \in edges' <=>
                  \/ <<v, w, "DATA_ALIAS">> \in edges
                  \/ \E p \in pairs : (p[1] = v /\ p[2] = w) \/ (p[1] = w /\ p[2] = v)
    <3> HIDE DEF f, pairs
    <3>1. <<v, w, "DATA_ALIAS">> \notin addDefUseEdges(f) \cup addRAWEdges(f)
      BY OtherTypes
    <3>2. <<v, w, "DATA_ALIAS">> \in Both(pairs, "DATA_ALIAS") <=> \E p \in pairs : (p[1] = v /\ p[2] = w) \/ (p[1] = w /\ p[2] = v)
      BY BothMember
    <3> QED
      BY <2>1, <3>1, <3>2
  <2>3. AliasSound'
    <3> SUFFICES ASSUME NEW v \in DOMAIN prog.insts, NEW w \in DOMAIN prog.insts, <<v, w, "DATA_ALIAS">> \in edges'
                 PROVE  prog.insts[v].fn = prog.insts[w].fn /\ ShouldAlias(v, w)
      BY <2>1, Frozen DEF AliasSound
    <3>1. CASE <<v, w, "DATA_ALIAS">> \in edges
      BY <3>1 DEF IInv, AliasSound
    <3>2. CASE \E p \in pairs : (p[1] = v /\ p[2] = w) \/ (p[1] = w /\ p[2] = v)
      BY <3>2, Symmetric DEF ShouldAlias, Insts
    <3> QED
      BY <2>2, <3>1, <3>2
  <2>4. AliasComplete'
    <3>1. FunctionsDone' = FunctionsDone
      BY <2>1 DEF FunctionsDone
    <3>2. edges \subseteq edges'
      BY <2>1
    <3> QED
      BY <2>1, <3>1, <3>2, NoneLost DEF IInv
  <2>5. QueryConnected(f)'
    <3> SUFFICES ASSUME NEW v \in Insts(f), NEW w \in Insts(f), v # w, TypesMatch(v, w),
                        queryAliasUnderApproximate(v, w) \/ queryAliasUnderApproximate(w, v)
                 PROVE  <<v, w, "DATA_ALIAS">> \in edges'
      BY <2>1, Frozen DEF QueryConnected
    <3>1. <<v, w>> \in pairs \/ <<w, v>> \in pairs
      BY DEF TypesMatch
    <3> QED
      BY <3>1, <2>2
  <2>6. SetsCover(f)'
    <3>1. unique_alias_inst_set' = {}
      BY <2>1 DEF IInv
    <3>2. \A v \in Insts(f) : \A o \in prog.pts[v] : o \in objects'
      BY <2>1
    <3>3. Insts(f)' = Insts(f)
      BY <2>1, Frozen
    <3>4. \A v \in Insts(f)' : \A o \in prog'.pts[v] : o \in objects'
      <4>1. prog' = prog
        BY <2>1
      <4> QED
        BY <4>1, <3>2, <3>3
    <3> QED
      BY <3>1, <3>4 DEF SetsCover
  <2> QED
    BY <2>1, <2>3, <2>4, <2>5, <2>6 DEF IInv
<1>2. ASSUME NEW o \in objects, addInstSet(o) PROVE IInv'
  <2> DEFINE f == Head(fns)
  <2> DEFINE U == unique_alias_inst_set
  <2>1. /\ prog' = prog /\ fns' = fns /\ edges' = edges /\ stage = "ddg sets" /\ stage' = "ddg sets"
        /\ objects' = objects \ {o} /\ U' \in WithAliasSet(InstsOn(f, o), U)
    BY <1>2 DEF addInstSet
  <2>2. AliasSound'
    BY <2>1, NoneAdded DEF IInv
  <2>3. AliasComplete'
    <3>1. FunctionsDone' = FunctionsDone
      BY <2>1 DEF FunctionsDone
    <3> QED
      BY <2>1, <3>1, NoneLost DEF IInv
  <2>4. QueryConnected(f)'
    BY <2>1, Frozen DEF IInv, QueryConnected
  <2>5. SetsCover(f)'
    <3>1. SetsCover(f)
      BY <2>1 DEF IInv
    <3>2. /\ \E t \in U' : InstsOn(f, o) \subseteq t
          /\ \A t \in U : \E r \in U' : t \subseteq r
          /\ \A t \in U' : t \in U \/ t = InstsOn(f, o)
      <4> HIDE DEF f
      <4> QED
        BY <2>1, ReductionCovers
    <3>3. \A s \in U' : \E p : s = InstsOn(f, p)
      BY <3>1, <3>2 DEF SetsCover
    <3>4. ASSUME NEW v \in Insts(f), NEW p \in prog.pts[v]
          PROVE  p \in objects' \/ \E s \in U' : InstsOn(f, p) \subseteq s
      <4>1. CASE p = o
        BY <4>1, <3>2
      <4>2. CASE p # o /\ p \in objects
        BY <4>2, <2>1
      <4>3. CASE p \notin objects
        <5>1. PICK s \in U : InstsOn(f, p) \subseteq s
          BY <4>3, <3>1 DEF SetsCover
        <5>2. PICK r \in U' : s \subseteq r
          BY <3>2
        <5> QED
          BY <5>1, <5>2
      <4> QED
        BY <4>1, <4>2, <4>3
    <3>5. f' = f /\ Insts(f)' = Insts(f) /\ \A p : InstsOn(f, p)' = InstsOn(f, p)
      BY <2>1, Frozen
    <3>6. \A s \in U' : \E p : s = InstsOn(f, p)'
      BY <3>3, <3>5
    <3>7. \A v \in Insts(f)' : \A p \in prog'.pts[v] : p \in objects' \/ \E s \in U' : InstsOn(f, p)' \subseteq s
      <4>1. prog' = prog
        BY <2>1
      <4> SUFFICES ASSUME NEW v \in Insts(f), NEW p \in prog.pts[v]
                   PROVE  p \in objects' \/ \E s \in U' : InstsOn(f, p)' \subseteq s
        BY <4>1, <3>5
      <4> QED
        BY <3>4, <3>5
    <3> QED
      BY <3>6, <3>7 DEF SetsCover
  <2> QED
    BY <2>1, <2>2, <2>3, <2>4, <2>5 DEF IInv
<1>3. CASE connectAliasSets
  <2> DEFINE f == Head(fns)
  <2> DEFINE pairs == UNION {{p \in s \X s : p[1] # p[2] /\ TypesMatch(p[1], p[2])} : s \in unique_alias_inst_set}
  <2>1. /\ prog' = prog /\ fns' = Tail(fns) /\ stage = "ddg sets" /\ stage' = "ddg" /\ objects = {}
        /\ edges' = edges \cup Both(pairs, "DATA_ALIAS") /\ unique_alias_inst_set' = {}
    BY <1>3 DEF connectAliasSets
  <2>2. fns # <<>> /\ QueryConnected(f) /\ SetsCover(f)
    BY <2>1 DEF IInv
  <2>3. ASSUME NEW v, NEW w
        PROVE  <<v, w, "DATA_ALIAS">> \in edges' <=>
                  \/ <<v, w, "DATA_ALIAS">> \in edges
                  \/ \E p \in pairs : (p[1] = v /\ p[2] = w) \/ (p[1] = w /\ p[2] = v)
    <3> HIDE DEF pairs
    <3>1. <<v, w, "DATA_ALIAS">> \in Both(pairs, "DATA_ALIAS") <=> \E p \in pairs : (p[1] = v /\ p[2] = w) \/ (p[1] = w /\ p[2] = v)
      BY BothMember
    <3> QED
      BY <2>1, <3>1
  <2>4. AliasSound'
    <3> SUFFICES ASSUME NEW v \in DOMAIN prog.insts, NEW w \in DOMAIN prog.insts, <<v, w, "DATA_ALIAS">> \in edges'
                 PROVE  prog.insts[v].fn = prog.insts[w].fn /\ ShouldAlias(v, w)
      BY <2>1, Frozen DEF AliasSound
    <3>1. CASE <<v, w, "DATA_ALIAS">> \in edges
      BY <3>1 DEF IInv, AliasSound
    <3>2. CASE \E p \in pairs : (p[1] = v /\ p[2] = w) \/ (p[1] = w /\ p[2] = v)
      <4>1. PICK s \in unique_alias_inst_set : v \in s /\ w \in s /\ v # w /\ (TypesMatch(v, w) \/ TypesMatch(w, v))
        BY <3>2
      <4>2. PICK o : s = InstsOn(f, o)
        BY <2>2 DEF SetsCover
      <4>3. SharesObject(v, w) /\ prog.insts[v].fn = prog.insts[w].fn
        BY <4>1, <4>2 DEF InstsOn, Insts, SharesObject
      <4> QED
        BY <4>1, <4>3 DEF ShouldAlias, TypesMatch
    <3> QED
      BY <2>3, <3>1, <3>2
  <2>5. AliasComplete'
    <3>1. ASSUME NEW v \in Insts(f), NEW w \in Insts(f), ShouldAlias(v, w) PROVE <<v, w, "DATA_ALIAS">> \in edges'
      <4>1. CASE ~SharesObject(v, w)
        BY <4>1, <3>1, <2>2, <2>3 DEF ShouldAlias, QueryConnected
      <4>2. CASE SharesObject(v, w)
        <5>1. PICK o \in prog.pts[v] : o \in prog.pts[w]
          BY <4>2 DEF SharesObject
        <5>2. PICK s \in unique_alias_inst_set : InstsOn(f, o) \subseteq s
          BY <5>1, <2>1, <2>2 DEF SetsCover
        <5>3. v \in s /\ w \in s
          BY <5>1, <5>2 DEF InstsOn
        <5>4. <<v, w>> \in pairs
          BY <5>3, <3>1 DEF ShouldAlias
        <5> QED
          BY <5>4, <2>3
      <4> QED
        BY <4>1, <4>2
    <3>2. FunctionsDone' \subseteq FunctionsDone \cup {f}
      <4>1. \A i \in DOMAIN fns : fns[i] = f \/ \E j \in DOMAIN Tail(fns) : Tail(fns)[j] = fns[i]
        BY <2>2, TailKeepsRest DEF IInv
      <4> QED
        BY <4>1, <2>1 DEF FunctionsDone
    <3>3. \A g : Insts(g)' = Insts(g)
      BY <2>1, Frozen
    <3>4. \A v, w : ShouldAlias(v, w)' <=> ShouldAlias(v, w)
      BY <2>1, Frozen
    <3>5. edges \subseteq edges'
      BY <2>1
    <3> HIDE DEF f
    <3> QED
      BY <3>1, <3>2, <3>3, <3>4, <3>5 DEF IInv, AliasComplete
  <2>6. fns' \in Seq(DOMAIN prog.cfg)
    BY <2>1, <2>2, TailKeepsRest DEF IInv
  <2> QED
    BY <2>1, <2>4, <2>5, <2>6 DEF IInv
<1>4. CASE runControlDependencyGraph
  <2> DEFINE control(f) == addControlDepFromEntryNodeToEntryBlock(f) \cup computeControlDependencies(f)
  <2>1. /\ prog' = prog /\ fns' = fns /\ stage' = "pdg"
        /\ edges' = edges \cup UNION {control(f) : f \in DOMAIN prog.cfg}
    BY <1>4 DEF runControlDependencyGraph
  <2>2. ASSUME NEW f, NEW v, NEW w PROVE <<v, w, "DATA_ALIAS">> \notin control(f)
    BY OtherTypes
  <2>3. AliasSound'
    <3> HIDE DEF control
    <3>1. \A v, w : <<v, w, "DATA_ALIAS">> \in edges' => <<v, w, "DATA_ALIAS">> \in edges
      BY <2>1, <2>2
    <3> QED
      BY <2>1, <3>1, NoneAdded DEF IInv
  <2>4. AliasComplete'
    <3>1. FunctionsDone' = FunctionsDone /\ edges \subseteq edges'
      BY <2>1 DEF FunctionsDone
    <3> QED
      BY <2>1, <3>1, NoneLost DEF IInv
  <2> QED
    BY <2>1, <2>3, <2>4 DEF IInv
<1>5. CASE runOnModule
  <2>1. /\ prog' = prog /\ fns' = fns /\ stage' = "collect"
        /\ edges' = edges \cup UNION {connectGlobalTreeWithAddrVars(g) : g \in prog.trees}
    BY <1>5 DEF runOnModule
  <2>2. ASSUME NEW g, NEW v, NEW w PROVE <<v, w, "DATA_ALIAS">> \notin connectGlobalTreeWithAddrVars(g)
    BY OtherTypes
  <2>3. AliasSound'
    <3>1. \A v, w : <<v, w, "DATA_ALIAS">> \in edges' => <<v, w, "DATA_ALIAS">> \in edges
      BY <2>1, <2>2
    <3> QED
      BY <2>1, <3>1, NoneAdded DEF IInv
  <2>4. AliasComplete'
    <3>1. FunctionsDone' = FunctionsDone /\ edges \subseteq edges'
      BY <2>1 DEF FunctionsDone
    <3> QED
      BY <2>1, <3>1, NoneLost DEF IInv
  <2> QED
    BY <2>1, <2>3, <2>4 DEF IInv
<1>6. CASE UNCHANGED graphVars
  <2>1. /\ prog' = prog /\ fns' = fns /\ edges' = edges /\ stage' = stage /\ objects' = objects
        /\ unique_alias_inst_set' = unique_alias_inst_set
    BY <1>6 DEF graphVars
  <2>2. AliasSound' /\ AliasComplete'
    <3>1. FunctionsDone' = FunctionsDone
      BY <2>1 DEF FunctionsDone
    <3> QED
      BY <2>1, <3>1, NoneAdded, NoneLost DEF IInv
  <2>3. ASSUME stage = "ddg sets" PROVE QueryConnected(Head(fns))' /\ SetsCover(Head(fns))'
    <3> DEFINE f == Head(fns)
    <3>1. QueryConnected(f) /\ SetsCover(f)
      BY <2>3 DEF IInv
    <3>2. f' = f /\ Insts(f)' = Insts(f) /\ \A o : InstsOn(f, o)' = InstsOn(f, o)
      BY <2>1, Frozen
    <3>3. QueryConnected(f)'
      BY <2>1, <3>1, Frozen DEF QueryConnected
    <3>4. \A s \in unique_alias_inst_set' : \E o : s = InstsOn(f, o)'
      BY <2>1, <3>1, <3>2 DEF SetsCover
    <3>5. ASSUME NEW v \in Insts(f), NEW o \in prog.pts[v]
          PROVE  o \in objects' \/ \E s \in unique_alias_inst_set' : InstsOn(f, o)' \subseteq s
      BY <2>1, <3>1, <3>2 DEF SetsCover
    <3>6. \A v \in Insts(f)' : \A o \in prog'.pts[v] :
              o \in objects' \/ \E s \in unique_alias_inst_set' : InstsOn(f, o)' \subseteq s
      BY <2>1, <3>2, <3>5
    <3> QED
      BY <3>3, <3>4, <3>6 DEF SetsCover
  <2> QED
    BY <2>1, <2>2, <2>3 DEF IInv
<1> QED
  BY <1>1, <1>2, <1>3, <1>4, <1>5, <1>6 DEF GraphNext

\* When the pass starts, no function is done.
LEMMA GraphStart == GraphInit => IInv
<1> SUFFICES ASSUME GraphInit PROVE IInv
  OBVIOUS
<1>1. FunctionsDone = {}
  BY DEF GraphInit, FunctionsDone
<1> QED
  BY <1>1, ProgramsAssumption DEF GraphInit, IInv, AliasSound, AliasComplete

\* Between two functions, no edge is wrong and none is missing.
LEMMA Exact == IInv => AliasEdgesExact
  BY DEF IInv, AliasSound, AliasComplete, AliasEdgesExact, Insts

\* Whatever the program, the order of its objects and the addresses of the sets of
\* instructions, DataDependencyGraph connects exactly the instructions of matching
\* type that share an object or that the syntactic query finds.
THEOREM AliasEdges == GraphSpec => []AliasEdgesExact
  BY GraphStart, Exact, Inductive, PTL DEF GraphSpec

=============================================================================
