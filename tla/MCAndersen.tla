----------------------------- MODULE MCAndersen -----------------------------
(* Programs of a few pointers and objects for Andersen.                     *)
EXTENDS AndersenRefinement

CONSTANTS a, b, q, x, y, dm, \* values, dm that of an allocation
          m, st, k, f, h     \* objects, k a constant, f and h functions, h an allocator

MCFields == [o \in ObjName |-> IF o \in {m, st} THEN 2 ELSE 1]
MCNodeOrder == <<a, b, q, x, y, dm, <<m, 0>>, <<st, 0>>, <<k, 0>>, <<f, 0>>, <<h, 0>>,
                 <<m, 1>>, <<m, 2>>, <<st, 1>>, <<st, 2>>, <<k, 1>>, <<f, 1>>, <<h, 1>>>>

Copy(u, v)  == edge("copy", u, v)
Load(u, v)  == edge("load", u, v)
Store(u, v) == edge("store", u, v)
NGep(u, v, off) == [edge("ngep", u, v) EXCEPT !.off = off]
VGep(u, v)  == edge("vgep", u, v)

Program(addr, edges, sites) ==
    [nodes |-> UNION {{p[1], p[2]} : p \in addr} \cup UNION {{e.s, e.d} : e \in edges}
                 \cup UNION {{c.ret, c.dummy, <<c.heap, 0>>, x, y} : c \in sites},
     addr |-> addr, edges |-> edges, fi |-> {f, h}, calls |-> sites, functions |-> {f, h},
     arity |-> [g \in {f, h} |-> 1], formals |-> [g \in {f, h} |-> IF g = f THEN <<x>> ELSE <<>>],
     rets |-> [g \in {f, h} |-> IF g = f THEN {y} ELSE {}], allocators |-> {h}]

\* Cycles through memory, and cycles that change the field.
Memory == {Copy(a, b), Copy(b, a), Copy(a, q), Store(b, q), Load(q, a), Load(a, x), Store(q, b)}
Fielded == {Copy(a, b), Copy(b, a), VGep(b, x), NGep(b, a, 1), NGep(x, q, 0), NGep(a, x, 1), Load(q, a), Store(b, q)}
\* An object collapsed in a later round, its field being part of the graph.
Late == {Store(b, q), Load(q, a), VGep(a, y), Store(a, x), Load(b, a), Load(x, y), Store(y, b)}
\* Two geps that run in parallel once the cycles at both ends are merged.
Around == {Copy(a, b), Copy(b, a), Copy(x, y), Copy(y, x), Load(x, q), Store(b, y)}
\* An indirect call of f or of an allocator through q.
Indirect == {Copy(a, q), Store(q, b), Load(b, q), Copy(x, y), Load(a, x), Store(y, a), Copy(b, x)}
Call == [fp |-> q, args |-> <<b>>, ret |-> a, dummy |-> dm, heap |-> m]

MCPrograms ==
    {Program({<<<<st, 0>>, b>>, <<<<m, 0>>, q>>, <<<<k, 0>>, a>>}, E, {}) : E \in SUBSET Memory \cup SUBSET Fielded}
      \cup {Program({<<<<st, 0>>, b>>, <<<<m, 0>>, q>>}, E \cup {NGep(b, x, 1)}, {}) : E \in SUBSET Late}
      \cup {Program({<<<<st, 0>>, b>>, <<<<m, 0>>, q>>}, E \cup {NGep(a, x, 0), NGep(b, y, 1)}, {}) : E \in SUBSET Around}
      \cup {Program({<<<<st, 0>>, b>>, <<<<f, 0>>, q>>, <<<<h, 0>>, t>>}, E, {Call}) : E \in SUBSET Indirect, t \in {q, y}}
=============================================================================
