--------------------------- MODULE AndersenProofs ---------------------------
(***************************************************************************)
(* The differences of the wave solver skip nothing, and no step forgets a  *)
(* points-to relation, for every program and every order of its nodes.     *)
(* Nothing is needed of the search for cycles: merging any two nodes would *)
(* keep both.                                                              *)
(***************************************************************************)
EXTENDS Andersen, TLAPS

\* Covered and passes, for any set of field-insensitive objects.
Cov(o, S, F) == o \in S \/ (name(o) \in F /\ \E p \in S : name(p) = name(o))
Pass(e, o, F) ==
    IF e.k = "copy" \/ name(o) \in Opaque THEN o
    ELSE IF e.k = "vgep" THEN whole(o)
    ELSE IF name(o) \in F THEN o ELSE getGepObjVar(o, e.off)

-----------------------------------------------------------------------------
\* The parts of an object.
LEMMA ObjParts ==
    ASSUME NEW o \in Obj
    PROVE  /\ name(o) \in ObjName
           /\ o[2] \in 0..Fields[name(o)]
           /\ o = <<name(o), o[2]>>
  BY DEF Obj, name

\* The objects of a name.
LEMMA ObjOfName ==
    ASSUME NEW x \in ObjName, NEW i \in 0..Fields[x]
    PROVE  <<x, i>> \in Obj /\ name(<<x, i>>) = x
  BY DEF Obj, name

\* The object a field belongs to is an object of its name.
LEMMA WholeObj ==
    ASSUME NEW o \in Obj
    PROVE  whole(o) \in Obj /\ name(whole(o)) = name(o)
  <1>1. name(o) \in ObjName  BY ObjParts
  <1>2. 0 \in 0..Fields[name(o)]  BY <1>1, FieldsAssumption
  <1>3. whole(o) = <<name(o), 0>>  BY DEF whole, name
  <1> QED  BY <1>1, <1>2, <1>3, ObjOfName

\* The field at an offset is an object of the same name (getGepObjVar,
\* getModulusOffset).
LEMMA GepObj ==
    ASSUME NEW o \in Obj, NEW off \in Nat
    PROVE  getGepObjVar(o, off) \in Obj /\ name(getGepObjVar(o, off)) = name(o)
  <1> DEFINE i == IF o[2] = 0 THEN off ELSE o[2] - 1 + off
             j == 1 + getModulusOffset(name(o), i)
  <1>1. name(o) \in ObjName /\ o[2] \in 0..Fields[name(o)]  BY ObjParts
  <1>2. Fields[name(o)] \in Nat \ {0}  BY <1>1, FieldsAssumption
  <1>3. o[2] \in Nat  BY <1>1, <1>2
  <1>4. i \in Nat  BY <1>3
  <1> HIDE DEF i
  <1>5. j \in 0..Fields[name(o)]
    <2>1. ASSUME NEW n \in Nat \ {0} PROVE i % n \in 0..(n - 1)  BY <1>4
    <2>2. i % Fields[name(o)] \in 0..(Fields[name(o)] - 1)  BY <1>2, <2>1
    <2>3. getModulusOffset(name(o), i) \in 0..(Fields[name(o)] - 1)
      BY <1>2, <1>4, <2>2 DEF getModulusOffset
    <2> QED  BY <1>2, <2>3
  <1> USE DEF i
  <1>6. getGepObjVar(o, off) = <<name(o), j>>  BY DEF getGepObjVar
  <1> HIDE DEF i, j
  <1> QED  BY <1>1, <1>5, <1>6, ObjOfName

\* A copy or gep edge makes an object of the same name of an object.
LEMMA PassName ==
    ASSUME NEW e \in Edge, isDirect(e), NEW o \in Obj, NEW F
    PROVE  Pass(e, o, F) \in Obj /\ name(Pass(e, o, F)) = name(o)
  <1>1. e.off \in Nat  BY DEF Edge
  <1>2. getGepObjVar(o, e.off) \in Obj /\ name(getGepObjVar(o, e.off)) = name(o)  BY <1>1, GepObj
  <1>3. whole(o) \in Obj /\ name(whole(o)) = name(o)  BY WholeObj
  <1> QED  BY <1>2, <1>3 DEF Pass, isDirect, isGep

\* A set that covers another one covers what that one covers.
LEMMA CovGrows ==
    ASSUME NEW o, NEW S, NEW T, NEW F, NEW H, F \subseteq H,
           Cov(o, S, F), \A p \in S : Cov(p, T, H)
    PROVE  Cov(o, T, H)
  BY DEF Cov

\* The same for what an edge passes on, although the edge may pass on another object
\* once an object has lost its fields.
LEMMA PassGrows ==
    ASSUME NEW e \in Edge, isDirect(e), NEW o \in Obj,
           NEW S, NEW T, NEW F, NEW H, F \subseteq H,
           Cov(Pass(e, o, F), S, F), \A p \in S : Cov(p, T, H)
    PROVE  Cov(Pass(e, o, H), T, H)
  <1>1. name(Pass(e, o, F)) = name(o) /\ name(Pass(e, o, H)) = name(o)  BY PassName
  <1>2. Cov(Pass(e, o, F), T, H)  BY CovGrows
  <1>3. CASE name(o) \in H  BY <1>1, <1>2, <1>3 DEF Cov
  <1>4. CASE name(o) \notin H
    <2>1. Pass(e, o, F) = Pass(e, o, H)  BY <1>4 DEF Pass
    <2> QED  BY <2>1, <1>2
  <1> QED  BY <1>3, <1>4

-----------------------------------------------------------------------------
\* g is e, with n replaced by r at some of its ends.
Redirects(g, e, n, r) == /\ g.k = e.k /\ g.off = e.off
                         /\ g.s = e.s \/ (e.s = n /\ g.s = r)
                         /\ g.d = e.d \/ (e.d = n /\ g.d = r)

\* Moving the edges of n to r changes no edge but its ends, and those from n to r.
LEMMA MovedEdges ==
    ASSUME NEW H \in SUBSET Edge, NEW n \in Node, NEW r \in Node, NEW g \in moveEdgesToRepNode(H, n, r)
    PROVE  /\ g \in Edge
           /\ \E e \in H : Redirects(g, e, n, r)
  <1>1. CASE g \in H  BY <1>1 DEF Redirects
  <1>2. CASE \E e \in H : g = moved(e, n, r)
    <2> PICK e \in H : g = moved(e, n, r)  BY <1>2
    <2>1. e \in [k : Kind, s : Node, d : Node, off : Nat]  BY DEF Edge
    <2>2. g = [k |-> e.k, s |-> IF e.s = n THEN r ELSE e.s, d |-> IF e.d = n THEN r ELSE e.d, off |-> e.off]
          BY <2>1 DEF moved
    <2>3. g \in Edge  BY <2>1, <2>2 DEF Edge
    <2> QED  BY <2>2, <2>3 DEF Redirects
  <1>3. g \in H \/ \E e \in H : g = moved(e, n, r)  BY DEF moveEdgesToRepNode
  <1> QED  BY <1>1, <1>2, <1>3

\* NothingSkipped before and after a step, in terms of the lemmas above.
LEMMA SkippedBefore ==
    NothingSkipped <=>
        /\ \A e \in G : isDirect(e) => \A o \in propa[e.s] : Cov(Pass(e, o, fi), pts[e.d], fi)
        /\ \A n \in Node : \A o \in propa[n] : Cov(o, pts[n], fi)
  BY DEF NothingSkipped, PassedOn, Covered, Cov, passes, Pass

LEMMA SkippedAfter ==
    NothingSkipped' <=>
        /\ \A e \in G' : isDirect(e) => \A o \in propa'[e.s] : Cov(Pass(e, o, fi'), pts'[e.d], fi')
        /\ \A n \in Node : \A o \in propa'[n] : Cov(o, pts'[n], fi')
  BY DEF NothingSkipped, PassedOn, Covered, Cov, passes, Pass

\* What a step takes from a points-to set it puts back as a whole object.
Grows == fi \subseteq fi' /\ \A n \in Node : \A o \in pts[n] : Cov(o, pts'[n], fi')

\* The same for what the pointers point to, through their representatives.
Kept == \A n \in Node \ redundant : \A o \in getPts(n) : Cov(o, getPts(n)', fi')

\* Steps that leave the representatives alone.
LEMMA KeptByGrowth ==
    ASSUME TypeOK, Grows, \A n \in Node \ redundant : rep'[n] = rep[n] PROVE Kept
  BY DEF Kept, Grows, getPts, TypeOK

\* Steps that add no edge and count nothing as propagated.
LEMMA Keep ==
    ASSUME TypeOK, NothingSkipped, Grows, G' = G, \A n \in Node : propa'[n] \subseteq propa[n]
    PROVE  NothingSkipped'
  <1> USE DEF Grows
  <1>1. ASSUME NEW e \in G, isDirect(e), NEW o \in propa'[e.s] PROVE Cov(Pass(e, o, fi'), pts'[e.d], fi')
    <2>1. e \in Edge /\ e.s \in Node /\ e.d \in Node  BY DEF TypeOK, Edge
    <2>2. o \in propa[e.s] /\ o \in Obj  BY <2>1, <1>1 DEF TypeOK
    <2>3. Cov(Pass(e, o, fi), pts[e.d], fi)  BY <1>1, <2>2, SkippedBefore
    <2> QED  BY <1>1, <2>1, <2>2, <2>3, PassGrows
  <1>2. ASSUME NEW n \in Node, NEW o \in propa'[n] PROVE Cov(o, pts'[n], fi')
    <2>1. Cov(o, pts[n], fi)  BY <1>2, SkippedBefore
    <2> QED  BY <2>1, CovGrows
  <1> QED  BY <1>1, <1>2, SkippedAfter

\* A new copy edge: what both ends have propagated has arrived (addCopyEdge).
LEMMA NewEdge ==
    ASSUME TypeOK, NothingSkipped, NEW s \in Node, NEW d \in Node, addCopyEdge(s, d), UNCHANGED <<pts, fi>>
    PROVE  NothingSkipped' /\ G' \subseteq Edge /\ propa' \in [Node -> SUBSET Obj]
  <1>1. /\ G' = G \cup {edge("copy", s, d)}
        /\ propa' = [propa EXCEPT ![s] = propa[s] \cap propa[d]]  BY DEF addCopyEdge
  <1>2. edge("copy", s, d) \in Edge  BY DEF edge, Edge, Kind
  <1>3. propa' \in [Node -> SUBSET Obj]  BY <1>1 DEF TypeOK
  <1>4. \A n \in Node : propa'[n] \subseteq propa[n]  BY <1>1 DEF TypeOK
  <1>5. ASSUME NEW e \in G', isDirect(e), NEW o \in propa'[e.s] PROVE Cov(Pass(e, o, fi'), pts'[e.d], fi')
    <2>1. CASE e \in G
      <3>1. e.s \in Node  BY <2>1 DEF TypeOK, Edge
      <3>2. o \in propa[e.s]  BY <3>1, <1>4, <1>5
      <3> QED  BY <1>5, <2>1, <3>2, SkippedBefore
    <2>2. CASE e = edge("copy", s, d)
      <3>1. e.s = s /\ e.d = d /\ e.k = "copy"  BY <2>2 DEF edge
      <3>2. o \in propa[d]  BY <3>1, <1>1, <1>5 DEF TypeOK
      <3>3. Pass(e, o, fi') = o  BY <3>1 DEF Pass
      <3> QED  BY <3>1, <3>2, <3>3, SkippedBefore
    <2> QED  BY <1>1, <2>1, <2>2
  <1>6. ASSUME NEW n \in Node, NEW o \in propa'[n] PROVE Cov(o, pts'[n], fi')
    BY <1>4, <1>6, SkippedBefore
  <1> QED  BY <1>1, <1>2, <1>3, <1>5, <1>6, SkippedAfter DEF TypeOK

\* A merge: what both nodes have propagated has arrived wherever either had an edge to
\* (mergeSrcToTgt).
LEMMA Merge ==
    ASSUME TypeOK, NothingSkipped, NEW n \in Node, NEW r \in Node, NEW P \in [Node -> SUBSET Obj],
           \A m \in Node : \A o \in pts[m] : Cov(o, P[m], fi),
           mergeSrcToTgt(n, r, P), fi' = fi
    PROVE  /\ NothingSkipped' /\ Grows /\ Kept
           /\ G' \subseteq Edge /\ pts' \in [Node -> SUBSET Obj] /\ propa' \in [Node -> SUBSET Obj]
           /\ rep' \in [Node -> Node] /\ pwc' \subseteq Node /\ joined' \subseteq Node \X Obj
  <1>1. /\ pts' = [P EXCEPT ![r] = P[r] \cup P[n]]
        /\ propa' = [propa EXCEPT ![r] = propa[r] \cap propa[n]]
        /\ G' = moveEdgesToRepNode(G, n, r)  BY DEF mergeSrcToTgt
  <1>2. G \in SUBSET Edge  BY DEF TypeOK
  <1>3. pts' \in [Node -> SUBSET Obj] /\ propa' \in [Node -> SUBSET Obj]  BY <1>1 DEF TypeOK
  <1>4. /\ P[n] \subseteq pts'[r]
        /\ \A m \in Node : P[m] \subseteq pts'[m]  BY <1>1
  <1>5. /\ propa'[r] \subseteq propa[n]
        /\ \A m \in Node : propa'[m] \subseteq propa[m]  BY <1>1 DEF TypeOK
  <1>6. /\ \A m \in Node : \A o \in pts[m] : Cov(o, pts'[m], fi')
        /\ \A o \in pts[n] : Cov(o, pts'[r], fi')  BY <1>4 DEF Cov
  <1>7. G' \subseteq Edge  BY <1>1, <1>2, MovedEdges
  <1>8. ASSUME NEW g \in G', isDirect(g), NEW o \in propa'[g.s] PROVE Cov(Pass(g, o, fi'), pts'[g.d], fi')
    <2>0. g \in moveEdgesToRepNode(G, n, r)  BY <1>1
    <2>1. PICK e \in G : Redirects(g, e, n, r)  BY <2>0, <1>2, MovedEdges
    <2>2. e \in Edge /\ e.s \in Node /\ e.d \in Node  BY <1>2 DEF Edge
    <2>3. isDirect(e)  BY <2>1, <1>8 DEF Redirects, isDirect, isGep
    <2>4. o \in propa[e.s]  BY <2>1, <2>2, <1>5, <1>8 DEF Redirects
    <2>5. o \in Obj  BY <2>2, <2>4 DEF TypeOK
    <2>6. Cov(Pass(e, o, fi), pts[e.d], fi)  BY <2>3, <2>4, SkippedBefore
    <2>7. \A p \in pts[e.d] : Cov(p, pts'[g.d], fi')  BY <2>1, <2>2, <1>6 DEF Redirects
    <2>8. Cov(Pass(e, o, fi'), pts'[g.d], fi')  BY <2>2, <2>3, <2>5, <2>6, <2>7, PassGrows
    <2>9. Pass(e, o, fi') = Pass(g, o, fi')  BY <2>1 DEF Redirects, Pass
    <2> QED  BY <2>8, <2>9
  <1>9. ASSUME NEW m \in Node, NEW o \in propa'[m] PROVE Cov(o, pts'[m], fi')
    <2>1. Cov(o, pts[m], fi)  BY <1>5, <1>9, SkippedBefore
    <2> QED  BY <2>1, <1>6, CovGrows
  <1>10. rep' \in [Node -> Node] /\ pwc' \subseteq Node /\ joined' \subseteq Node \X Obj
    BY DEF mergeSrcToTgt, TypeOK
  <1>11. Kept
    <2>1. \A m \in Node : rep[m] \in Node  BY DEF TypeOK
    <2>2. \A m \in Node : rep'[m] = IF rep[m] = n THEN r ELSE rep[m]  BY DEF mergeSrcToTgt
    <2> QED  BY <2>1, <2>2, <1>6 DEF Kept, getPts
  <1> QED  BY <1>3, <1>6, <1>7, <1>8, <1>9, <1>10, <1>11, SkippedAfter DEF Grows

-----------------------------------------------------------------------------
\* The strengthening: fields being merged belong to objects that lost their fields.
IInv == TypeOK /\ NothingSkipped /\ \A f \in col : name(f) \in fi

\* No action but the wave, the merges and the new edges concerns the invariant.
LEMMA Unchanged ==
    ASSUME IInv, UNCHANGED <<prog, G, pts, propa, fi, fields, redundant, col, joined, pwc>>,
           rep' \in [Node -> Node], todo' \subseteq ObjName, pairs' \subseteq Node \X Node
    PROVE  IInv' /\ Grows
  <1>1. Grows  BY DEF Grows, Cov
  <1>2. TypeOK'  BY DEF IInv, TypeOK
  <1>3. NothingSkipped'  BY <1>1, Keep DEF IInv
  <1> QED  BY <1>1, <1>2, <1>3 DEF IInv

\* Objects to be collapsed have names.
LEMMA CollapseNames ==
    ASSUME NEW S \in SUBSET Obj PROVE toCollapse(S) \subseteq ObjName
  BY ObjParts DEF toCollapse

\* What a node passes on to n.
LEMMA Gain ==
    ASSUME TypeOK, NEW v \in Node, NEW n \in Node, NEW ks \in SUBSET {"copy", "ngep", "vgep"}
    PROVE  /\ gain(v, n, ks) \subseteq Obj
           /\ \A e \in G : e.s = v /\ e.d = n /\ e.k \in ks =>
                \A o \in pts[v] \ propa[v] : Pass(e, o, fi) \in gain(v, n, ks)
  <1>1. \A e \in G, o \in Obj : e.k \in ks => passes(e, o) = Pass(e, o, fi) /\ passes(e, o) \in Obj
    <2> SUFFICES ASSUME NEW e \in G, NEW o \in Obj, e.k \in ks
                 PROVE  passes(e, o) = Pass(e, o, fi) /\ passes(e, o) \in Obj  OBVIOUS
    <2>1. e \in Edge  BY DEF TypeOK
    <2>2. isDirect(e)  BY DEF isDirect, isGep
    <2>3. passes(e, o) = Pass(e, o, fi)  BY DEF passes, Pass
    <2> QED  BY <2>1, <2>2, <2>3, PassName
  <1>2. pts[v] \subseteq Obj  BY DEF TypeOK
  <1> QED  BY <1>1, <1>2 DEF gain, computeDiffPts

\* The wave passes on all of a node's difference, and counts it as propagated
\* (handleCopyGep).
LEMMA Propagates ==
    ASSUME IInv, NEW v \in Node, handleCopyGep(v), UNCHANGED <<prog, G, rep, pwc, redundant, col, pairs, joined>>
    PROVE  IInv' /\ Grows
  <1> DEFINE direct == {"copy", "ngep", "vgep"}
  <1>1. /\ pts' = [n \in Node |-> pts[n] \cup gain(v, n, direct)]
        /\ propa' = [propa EXCEPT ![v] = pts[v]]
        /\ fields' = fields \cup {o \in UNION {gain(v, n, {"ngep"}) : n \in Node} : o[2] # 0}
        /\ fi \subseteq fi' /\ fi' \subseteq fi \cup toCollapse(computeDiffPts(v))
        /\ todo' \subseteq toCollapse(computeDiffPts(v))  BY DEF handleCopyGep
  <1>2. TypeOK  BY DEF IInv
  <1>3. computeDiffPts(v) \in SUBSET Obj  BY <1>2 DEF TypeOK, computeDiffPts
  <1>4. \A n \in Node : gain(v, n, direct) \subseteq Obj /\ gain(v, n, {"ngep"}) \subseteq Obj  BY <1>2, Gain
  <1>5. TypeOK'
    <2>1. pts' \in [Node -> SUBSET Obj] /\ propa' \in [Node -> SUBSET Obj]  BY <1>1, <1>2, <1>4 DEF TypeOK
    <2>2. fi' \subseteq ObjName /\ todo' \subseteq ObjName  BY <1>1, <1>2, <1>3, CollapseNames DEF TypeOK
    <2>3. fields' \subseteq Obj  BY <1>1, <1>2, <1>4 DEF TypeOK
    <2> QED  BY <2>1, <2>2, <2>3, <1>2 DEF TypeOK
  <1>6. \A n \in Node : pts[n] \subseteq pts'[n]  BY <1>1
  <1>7. Grows  BY <1>1, <1>6 DEF Grows, Cov
  <1>8. ASSUME NEW e \in G', isDirect(e), NEW o \in propa'[e.s] PROVE Cov(Pass(e, o, fi'), pts'[e.d], fi')
    <2>1. e \in G /\ e \in Edge /\ e.s \in Node /\ e.d \in Node  BY <1>2 DEF TypeOK, Edge
    <2>2. o \in Obj  BY <2>1, <1>5, <1>8 DEF TypeOK
    <2>3. \A p \in pts[e.d] : Cov(p, pts'[e.d], fi')  BY <2>1, <1>7 DEF Grows
    <2>4. CASE o \in propa[e.s]
      <3>1. Cov(Pass(e, o, fi), pts[e.d], fi)  BY <2>1, <2>4, <1>8, SkippedBefore DEF IInv
      <3> QED  BY <3>1, <2>1, <2>2, <2>3, <1>1, <1>8, PassGrows
    <2>5. CASE o \notin propa[e.s]
      <3>1. e.s = v /\ o \in pts[v] \ propa[v]  BY <2>1, <2>5, <1>1, <1>2, <1>8 DEF TypeOK
      <3>2. e.k \in direct  BY <1>8 DEF isDirect, isGep
      <3>3. Pass(e, o, fi) \in gain(v, e.d, direct)  BY <3>1, <3>2, <2>1, <1>2, Gain
      <3>4. Pass(e, o, fi) \in pts'[e.d]  BY <3>3, <2>1, <1>1
      <3>5. Cov(Pass(e, o, fi), pts'[e.d], fi)  BY <3>4 DEF Cov
      <3>6. \A p \in pts'[e.d] : Cov(p, pts'[e.d], fi')  BY DEF Cov
      <3> QED  BY <3>5, <3>6, <2>1, <2>2, <1>1, <1>8, PassGrows
    <2> QED  BY <2>4, <2>5
  <1>9. ASSUME NEW n \in Node, NEW o \in propa'[n] PROVE Cov(o, pts'[n], fi')
    <2>1. o \in propa[n] \/ o \in pts[n]  BY <1>1, <1>2, <1>9 DEF TypeOK
    <2>2. CASE o \in pts[n]  BY <2>2, <1>6 DEF Cov
    <2>3. CASE o \in propa[n]
      <3>1. Cov(o, pts[n], fi)  BY <2>3, SkippedBefore DEF IInv
      <3> QED  BY <3>1, <1>7, CovGrows DEF Grows
    <2> QED  BY <2>1, <2>2, <2>3
  <1>10. \A f \in col' : name(f) \in fi'  BY <1>1 DEF IInv
  <1> QED  BY <1>5, <1>7, <1>8, <1>9, <1>10, SkippedAfter DEF IInv

\* An object loses its fields, and one of them is merged into it (collapseField).
LEMMA Replaces ==
    ASSUME IInv, NEW f \in col
    PROVE  /\ replaced(f) \in [Node -> SUBSET Obj]
           /\ \A m \in Node : \A o \in pts[m] : Cov(o, replaced(f)[m], fi)
           /\ rep[f] \in Node /\ rep[whole(f)] \in Node
  <1>1. f \in Obj /\ name(f) \in fi  BY DEF IInv, TypeOK
  <1>2. whole(f) \in Obj /\ name(whole(f)) = name(f)  BY <1>1, WholeObj
  <1>3. pts \in [Node -> SUBSET Obj] /\ rep \in [Node -> Node]  BY DEF IInv, TypeOK
  <1>4. replaced(f) \in [Node -> SUBSET Obj]  BY <1>2, <1>3 DEF replaced
  <1>5. \A m \in Node : \A o \in pts[m] : Cov(o, replaced(f)[m], fi)  BY <1>1, <1>2 DEF replaced, Cov
  <1> QED  BY <1>1, <1>2, <1>3, <1>4, <1>5 DEF Node

LEMMA MergesField ==
    ASSUME IInv, mergeField PROVE IInv' /\ Kept
  <1> PICK f \in col :
        /\ IF rep[f] = rep[whole(f)]
           THEN pts' = replaced(f) /\ UNCHANGED <<G, propa, rep, pwc, joined>>
           ELSE mergeSrcToTgt(rep[f], rep[whole(f)], replaced(f))
        /\ redundant' = IF f = rep[whole(f)] THEN redundant ELSE redundant \cup {f}
        /\ col' = col \ {f}
        /\ todo' = IF col' = {} /\ rep[whole(f)] \in pwc' THEN todo \cup toCollapse(pts'[rep[whole(f)]]) ELSE todo
     BY DEF mergeField
  <1>1. UNCHANGED <<prog, fi, fields, pairs>>  BY DEF mergeField, calls
  <1>2. TypeOK /\ NothingSkipped  BY DEF IInv
  <1> DEFINE P == replaced(f)
             n == rep[f]
             r == rep[whole(f)]
  <1>3. /\ P \in [Node -> SUBSET Obj]
        /\ \A m \in Node : \A o \in pts[m] : Cov(o, P[m], fi)
        /\ n \in Node /\ r \in Node  BY Replaces
  <1>4. /\ NothingSkipped' /\ Kept
        /\ G' \subseteq Edge /\ pts' \in [Node -> SUBSET Obj] /\ propa' \in [Node -> SUBSET Obj]
        /\ rep' \in [Node -> Node] /\ pwc' \subseteq Node /\ joined' \subseteq Node \X Obj
    <2>1. CASE n = r
      <3>1. pts' = P /\ UNCHANGED <<G, propa, rep, pwc, joined>>  BY <2>1
      <3>2. Grows  BY <3>1, <1>1, <1>3 DEF Grows
      <3>3. NothingSkipped'  BY <3>1, <3>2, <1>2, Keep
      <3>4. Kept  BY <3>1, <3>2, <1>2, KeptByGrowth
      <3> QED  BY <3>1, <3>3, <3>4, <1>2, <1>3 DEF TypeOK
    <2>2. CASE n # r
      <3>1. mergeSrcToTgt(n, r, P)  BY <2>2
      <3> HIDE DEF P, n, r
      <3> QED  BY <3>1, <1>1, <1>2, <1>3, Merge
    <2> QED  BY <2>1, <2>2
  <1>5. todo' \subseteq ObjName
    <2>1. pts'[r] \in SUBSET Obj  BY <1>3, <1>4
    <2>2. toCollapse(pts'[r]) \subseteq ObjName  BY <2>1, CollapseNames
    <2> QED  BY <2>2, <1>2 DEF TypeOK
  <1>6. redundant' \subseteq Obj /\ col' \subseteq Obj  BY <1>2 DEF TypeOK
  <1>7. TypeOK'  BY <1>1, <1>2, <1>4, <1>5, <1>6 DEF TypeOK
  <1>8. \A g \in col' : name(g) \in fi'  BY <1>1 DEF IInv
  <1> QED  BY <1>4, <1>7, <1>8 DEF IInv

\* Connecting calls: parameters are nodes, and the heap object of an allocation is
\* one (updateCallGraph, heapAllocatorViaIndCall).
LEMMA UpdatesCalls ==
    ASSUME IInv, updateCallGraph PROVE IInv' /\ Kept
  <1> PICK new \in SUBSET (prog.calls \X prog.functions) :
        /\ pairs' = UNION {parameters(cf[1], cf[2]) : cf \in new}
        /\ pts' = [n \in Node |-> pts[n] \cup {<<cf[1].heap, 0>> : cf \in
                        {x \in new : x[1].dummy = n /\ x[2] \in prog.allocators}}]
     BY DEF updateCallGraph
  <1>1. UNCHANGED <<prog, G, propa, rep, pwc, fi, fields, redundant, todo, col, joined>>
    BY DEF updateCallGraph, wave
  <1>2. TypeOK /\ NothingSkipped /\ WellFormed(prog)  BY DEF IInv, TypeOK
  <1>3. \A cf \in new : <<cf[1].heap, 0>> \in Obj
    <2> SUFFICES ASSUME NEW cf \in new PROVE <<cf[1].heap, 0>> \in Obj  OBVIOUS
    <2>1. cf[1].heap \in ObjName  BY <1>2 DEF WellFormed
    <2>2. 0 \in 0..Fields[cf[1].heap]  BY <2>1, FieldsAssumption
    <2> QED  BY <2>1, <2>2, ObjOfName
  <1>4. pts' \in [Node -> SUBSET Obj]  BY <1>2, <1>3 DEF TypeOK
  <1>5. \A cf \in new : parameters(cf[1], cf[2]) \subseteq Node \X Node
    <2> SUFFICES ASSUME NEW c \in prog.calls, NEW f \in prog.functions
                 PROVE  parameters(c, f) \subseteq Node \X Node  OBVIOUS
    <2>1. c.args \in Seq(Node) /\ prog.formals[f] \in Seq(Node) /\ prog.rets[f] \subseteq Node
          /\ c.ret \in Node /\ c.dummy \in Node  BY <1>2 DEF WellFormed
    <2>2. \A i \in DOMAIN c.args \cap DOMAIN prog.formals[f] : c.args[i] \in Node /\ prog.formals[f][i] \in Node
          BY <2>1
    <2> QED  BY <2>1, <2>2 DEF parameters
  <1>6. pairs' \subseteq Node \X Node  BY <1>5
  <1>7. TypeOK'  BY <1>1, <1>2, <1>4, <1>6 DEF TypeOK
  <1>8. Grows  BY <1>1 DEF Grows, Cov
  <1>9. NothingSkipped'  BY <1>1, <1>2, <1>8, Keep
  <1>10. Kept  BY <1>1, <1>2, <1>8, KeptByGrowth
  <1> QED  BY <1>1, <1>7, <1>9, <1>10 DEF IInv

\* A copy edge for a load, a store or a parameter (addCopyEdge).
LEMMA AddsEdge ==
    ASSUME IInv, NEW s \in Node, NEW d \in Node, addCopyEdge(s, d),
           UNCHANGED <<prog, pts, rep, pwc, fi, fields, redundant, todo, col, joined>>, pairs' \subseteq pairs
    PROVE  IInv' /\ Kept
  <1>1. TypeOK /\ NothingSkipped  BY DEF IInv
  <1>2. NothingSkipped' /\ G' \subseteq Edge /\ propa' \in [Node -> SUBSET Obj]  BY <1>1, NewEdge
  <1>3. TypeOK'  BY <1>1, <1>2 DEF TypeOK
  <1>4. Grows  BY DEF Grows, Cov
  <1>5. Kept  BY <1>1, <1>4, KeptByGrowth
  <1> QED  BY <1>2, <1>3, <1>5 DEF IInv

\* Reading and writing through an object of the graph.
LEMMA CellsAreNodes ==
    ASSUME TypeOK, NEW v \in Node, NEW p \in handleLoadStore(v) PROVE p[1] \in Node /\ p[2] \in Node
  <1>1. pts[v] \subseteq Node  BY DEF TypeOK, Node
  <1>2. \A o \in pts[v] : rep[o] \in Node  BY <1>1 DEF TypeOK
  <1>3. \A e \in G : e.s \in Node /\ e.d \in Node  BY DEF TypeOK, Edge
  <1> QED  BY <1>2, <1>3 DEF handleLoadStore

-----------------------------------------------------------------------------
\* The invariant holds initially: nothing has been propagated.
LEMMA Initially == Init => IInv
  <1> SUFFICES ASSUME Init PROVE IInv  OBVIOUS
  <1>1. WellFormed(prog)  BY ProgramsAssumption DEF Init
  <1>2. TypeOK  BY <1>1 DEF Init, TypeOK, WellFormed
  <1>3. NothingSkipped
    <2>1. \A n \in Node : propa[n] = {}  BY DEF Init
    <2>2. \A e \in G : e.s \in Node  BY <1>2 DEF TypeOK, Edge
    <2> QED  BY <2>1, <2>2 DEF NothingSkipped
  <1> QED  BY <1>2, <1>3 DEF Init, IInv

\* Every step keeps the invariant and forgets nothing.
LEMMA Step == IInv /\ [Next]_vars => IInv' /\ Kept
  <1> SUFFICES ASSUME IInv, [Next]_vars PROVE IInv' /\ Kept  OBVIOUS
  <1>0. TypeOK /\ NothingSkipped  BY DEF IInv
  <1>a. todo \subseteq ObjName /\ pairs \subseteq Node \X Node /\ rep \in [Node -> Node]  BY <1>0 DEF TypeOK
  <1>1. ASSUME UNCHANGED <<prog, G, pts, propa, fi, fields, redundant, col, joined, pwc>>,
               rep' \in [Node -> Node], todo' \subseteq ObjName, pairs' \subseteq Node \X Node,
               \A n \in Node \ redundant : rep'[n] = rep[n]
        PROVE  IInv' /\ Kept
    <2>1. IInv' /\ Grows  BY <1>1, Unchanged
    <2> QED  BY <2>1, <1>0, <1>1, KeptByGrowth
  <1>2. CASE SCCDetect  BY <1>2, <1>a, <1>1 DEF SCCDetect, graph, wave, calls
  <1>3. CASE mergeSccNodes
    <2>1. PICK r \in Node, n \in Node : mergeSrcToTgt(n, r, pts)  BY <1>3 DEF mergeSccNodes, toMerge
    <2>2. UNCHANGED <<prog, fi, fields, redundant, todo, col, pairs>>  BY <1>3 DEF mergeSccNodes, wave, calls
    <2>3. pts \in [Node -> SUBSET Obj] /\ \A m \in Node : \A o \in pts[m] : Cov(o, pts[m], fi)
          BY <1>0 DEF TypeOK, Cov
    <2>4. /\ NothingSkipped' /\ Kept
          /\ G' \subseteq Edge /\ pts' \in [Node -> SUBSET Obj] /\ propa' \in [Node -> SUBSET Obj]
          /\ rep' \in [Node -> Node] /\ pwc' \subseteq Node /\ joined' \subseteq Node \X Obj
          BY <2>1, <2>2, <2>3, <1>0, Merge
    <2>5. TypeOK'  BY <2>2, <2>4, <1>0 DEF TypeOK
    <2> QED  BY <2>2, <2>4, <2>5 DEF IInv
  <1>4. CASE cyclesMerged  BY <1>4, <1>a, <1>1 DEF cyclesMerged, graph, wave, calls
  <1>5. CASE collapsePWCNode
    <2>1. UNCHANGED <<prog, G, pts, propa, rep, pwc, fi, fields, redundant, col, pairs, joined>>
          BY <1>5 DEF collapsePWCNode, graph, calls
    <2>2. todo' \subseteq ObjName
      <3>1. PICK r \in pwc : todo' = toCollapse(pts[r])  BY <1>5 DEF collapsePWCNode
      <3>2. pts[r] \in SUBSET Obj  BY <1>0 DEF TypeOK
      <3> QED  BY <3>1, <3>2, CollapseNames
    <2> QED  BY <2>1, <2>2, <1>a, <1>1
  <1>6. CASE processNode
    <2>1. UNCHANGED <<prog, G, rep, pwc, redundant, col, pairs, joined>>  BY <1>6 DEF processNode, calls
    <2>2. PICK v \in Node : IF rep[v] = v THEN handleCopyGep(v)
                            ELSE UNCHANGED <<pts, propa, fi, todo, fields, worklist>>  BY <1>6 DEF processNode
    <2>3. CASE handleCopyGep(v)
      <3>1. IInv' /\ Grows  BY <2>1, <2>3, Propagates
      <3> QED  BY <3>1, <2>1, <1>0, KeptByGrowth
    <2>4. CASE UNCHANGED <<pts, propa, fi, todo, fields, worklist>>  BY <2>1, <2>4, <1>a, <1>1
    <2> QED  BY <2>2, <2>3, <2>4
  <1>7. CASE collapseField
    <2>1. PICK x \in todo :
             /\ fi' = fi \cup {x}
             /\ col' = {f \in fields : name(f) = x}
             /\ todo' \subseteq todo \cup (IF rep[<<x, 0>>] \in pwc THEN toCollapse(pts[rep[<<x, 0>>]]) ELSE {})
          BY <1>7 DEF collapseField
    <2>2. UNCHANGED <<prog, G, pts, propa, rep, pwc, fields, redundant, pairs, joined>>
          BY <1>7 DEF collapseField, graph, calls
    <2>3. todo' \subseteq ObjName
      <3>1. CASE rep[<<x, 0>>] \in pwc
        <4>1. pts[rep[<<x, 0>>]] \in SUBSET Obj  BY <3>1, <1>0 DEF TypeOK
        <4> QED  BY <4>1, <2>1, <1>a, CollapseNames
      <3>2. CASE rep[<<x, 0>>] \notin pwc  BY <3>2, <2>1, <1>a
      <3> QED  BY <3>1, <3>2
    <2>4. TypeOK'  BY <2>1, <2>2, <2>3, <1>0 DEF TypeOK
    <2>5. Grows  BY <2>1, <2>2 DEF Grows, Cov
    <2>6. NothingSkipped'  BY <2>2, <2>5, <1>0, Keep
    <2>7. Kept  BY <2>2, <2>5, <1>0, KeptByGrowth
    <2> QED  BY <2>1, <2>4, <2>6, <2>7 DEF IInv
  <1>8. CASE mergeField  BY <1>8, MergesField
  <1>9. CASE waveEnds  BY <1>9, <1>a, <1>1 DEF waveEnds, graph, wave, calls
  <1>10. CASE processLoadStore
    <2>1. PICK v \in Node : \E p \in handleLoadStore(v) : addCopyEdge(p[1], p[2])
          BY <1>10 DEF processLoadStore
    <2>2. PICK p \in handleLoadStore(v) : addCopyEdge(p[1], p[2])  BY <2>1
    <2>3. p[1] \in Node /\ p[2] \in Node  BY <1>0, CellsAreNodes
    <2>4. UNCHANGED <<prog, pts, rep, pwc, fi, fields, redundant, todo, col, pairs, joined>>
          BY <1>10 DEF processLoadStore, wave, calls
    <2> QED  BY <2>2, <2>3, <2>4, AddsEdge
  <1>11. CASE popFromWorklist  BY <1>11, <1>a, <1>1 DEF popFromWorklist, graph, wave, calls
  <1>12. CASE updateCallGraph  BY <1>12, UpdatesCalls
  <1>13. CASE connectCaller2CalleeParams
    <2>1. UNCHANGED <<prog, pts, rep, pwc, fi, fields, redundant, todo, col, joined>>
          BY <1>13 DEF connectCaller2CalleeParams, wave
    <2>2. PICK p \in pairs :
             /\ pairs' = pairs \ {p}
             /\ addCopyEdge(rep[p[1]], rep[p[2]]) \/ UNCHANGED <<G, propa>>
          BY <1>13 DEF connectCaller2CalleeParams
    <2>3. rep[p[1]] \in Node /\ rep[p[2]] \in Node  BY <1>a
    <2>4. CASE addCopyEdge(rep[p[1]], rep[p[2]])  BY <2>1, <2>2, <2>3, <2>4, AddsEdge
    <2>5. CASE UNCHANGED <<G, propa>>  BY <2>1, <2>2, <2>5, <1>a, <1>1
    <2> QED  BY <2>2, <2>4, <2>5
  <1>14. CASE nextRound  BY <1>14, <1>a, <1>1 DEF nextRound, graph, wave, calls
  <1>15. CASE finalize
    <2>1. /\ UNCHANGED <<prog, G, pts, propa, pwc, fi, redundant, todo, col, pairs, joined>>
          /\ fields' \subseteq fields
          /\ rep' = [n \in Node |-> IF n \in redundant THEN n ELSE rep[n]]  BY <1>15 DEF finalize, calls
    <2>2. rep' \in [Node -> Node]  BY <2>1, <1>a
    <2>3. TypeOK'  BY <2>1, <2>2, <1>0 DEF TypeOK
    <2>4. Grows  BY <2>1 DEF Grows, Cov
    <2>5. NothingSkipped'  BY <2>1, <2>4, <1>0, Keep
    <2>6. Kept  BY <2>1, <2>4, <1>0, KeptByGrowth
    <2> QED  BY <2>1, <2>3, <2>5, <2>6 DEF IInv
  <1>16. CASE Done  BY <1>16, <1>a, <1>1 DEF Done, vars, graph, wave, calls
  <1>17. CASE UNCHANGED vars  BY <1>17, <1>a, <1>1 DEF vars, graph, wave, calls
  <1> QED  BY <1>2, <1>3, <1>4, <1>5, <1>6, <1>7, <1>8, <1>9, <1>10, <1>11, <1>12, <1>13, <1>14,
              <1>15, <1>16, <1>17 DEF Next

\* For every program the differences skip nothing: what a node counts as propagated
\* has reached the end of each of its edges (computeDiffPts, updatePropaPts).
THEOREM DifferencesSound == Spec => []NothingSkipped
  <1>1. Init => IInv  BY Initially
  <1>2. IInv /\ [Next]_vars => IInv'  BY Step
  <1>3. IInv => NothingSkipped  BY DEF IInv
  <1> QED  BY <1>1, <1>2, <1>3, PTL DEF Spec

\* For every program no step forgets what a pointer points to (clearPts,
\* mergeSrcToTgt, normalizePointsTo).
THEOREM PointsToKept == Spec => NeverForgets
  <1> DEFINE Remembers == \A n \in Node \ redundant : \A o \in getPts(n) :
                      \/ o \in getPts(n)'
                      \/ name(o) \in fi' /\ \E p \in getPts(n)' : name(p) = name(o)
  <1>1. Init => IInv  BY Initially
  <1>2. IInv /\ [Next]_vars => IInv'  BY Step
  <1>3. IInv /\ [Next]_vars => [Remembers]_vars  BY Step DEF Kept, Cov
  <1> QED  BY <1>1, <1>2, <1>3, PTL DEF Spec, NeverForgets
=============================================================================
