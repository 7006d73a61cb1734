--------------------------- MODULE ConstraintGraph ---------------------------
(***************************************************************************)
(* The constraint graph of the points-to analysis (ConsG.cpp, ConsG.h): its *)
(* nodes are pointers and objects, its edges the constraints between them,  *)
(* and a node that is merged into another one hands its edges over.        *)
(***************************************************************************)
EXTENDS Naturals, FiniteSets

CONSTANTS Val,        \* value nodes (pointers)
          ObjName,    \* memory objects
          Fields,     \* number of fields of each object
          MaxFieldLimit,   \* option -field-limit
          NonPointer, \* objects without pointers in them: nothing is loaded or stored
          Opaque      \* constant objects, which have no fields either

ASSUME FieldsAssumption == Fields \in [ObjName -> Nat \ {0}] /\ MaxFieldLimit \in Nat
ASSUME ObjAssumption == NonPointer \subseteq ObjName /\ Opaque \subseteq NonPointer

\* <<x, 0>> is the object x as a whole, <<x, i + 1>> its field i.
Obj  == UNION {{x} \X (0..Fields[x]) : x \in ObjName}
Node == Val \cup Obj

name(o)  == o[1]
whole(o) == <<o[1], 0>>

\* getModulusOffset: beyond the last field it is the last one, but in an object with
\* more fields than the limit the offset wraps around.
getModulusOffset(x, i) ==
    LET last == Fields[x] - 1
    IN  IF MaxFieldLimit < Fields[x] THEN i % Fields[x] ELSE IF i > last THEN last ELSE i

\* The field at an offset from an object or from a field.
getGepObjVar(o, off) ==
    <<name(o), 1 + getModulusOffset(name(o), IF o[2] = 0 THEN off ELSE o[2] - 1 + off)>>

\* Objects and points-to sets when the objects in F have no fields.
canon(o, F) == IF name(o) \in F THEN whole(o) ELSE o
same(n, F)  == IF n \in Obj /\ name(n) \in F THEN {name(n)} \X (0..Fields[name(n)]) ELSE {n}
Canon(S, F) == [n \in Node |-> {canon(o, F) : o \in UNION {S[m] : m \in same(n, F)}}]

Kind == {"copy", "ngep", "vgep", "load", "store"}
Edge == [k : Kind, s : Node, d : Node, off : Nat]

edge(k, s, d) == [k |-> k, s |-> s, d |-> d, off |-> 0]
isGep(e)      == e.k \in {"ngep", "vgep"}
isDirect(e)   == e.k = "copy" \/ isGep(e)
isZeroOffsettedGep(e) == e.k = "ngep" /\ e.off = 0

\* Edges are compared by kind and ends; the offset is no part of the comparison.
hasEdge(G, k, s, d) == \E e \in G : e.k = k /\ e.s = s /\ e.d = d

\* Moving the edges of n to r.  An edge that would then run from r to r is removed
\* if it is direct, and an edge that r has already is not added.
touches(e, n)    == e.s = n \/ e.d = n
moved(e, n, r)   == [e EXCEPT !.s = IF e.s = n THEN r ELSE e.s, !.d = IF e.d = n THEN r ELSE e.d]
inside(e, n, r)  == touches(e, n) /\ e.s \in {n, r} /\ e.d \in {n, r} /\ isDirect(e)

\* mutant: the edges into n stay.
MoveOutEdgesOnly(G, n, r) ==
    {e \in G : e.s # n} \cup {moved(e, n, r) : e \in {g \in G : g.s = n /\ g.d # n /\ ~inside(g, n, r)}}

moveEdgesToRepNode(G, n, r) ==
    LET rest == {e \in G : ~touches(e, n)}
    IN rest \cup {f \in {moved(e, n, r) : e \in {g \in G : touches(g, n) /\ ~inside(g, n, r)}} :
                     ~hasEdge(rest, f.k, f.s, f.d)}

\* Whether a cycle that n and r close changes the field: a positive weight cycle.
criticalGepInsideSCC(G, n, r) ==
    \E e \in G : inside(e, n, r) /\ isGep(e) /\ ~isZeroOffsettedGep(e)
=============================================================================
