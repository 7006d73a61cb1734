------------------------ MODULE InclusionConstraints ------------------------
(***************************************************************************)
(* What a points-to analysis by inclusion promises, without worklists,     *)
(* merged nodes or differences: the solution only grows, objects may be    *)
(* given up to one node for all their fields, and whatever is added        *)
(* follows from the constraints of the program.                            *)
(***************************************************************************)
EXTENDS ConstraintGraph, Sequences

VARIABLES prog, \* the constraints
          fi,   \* objects without distinguished fields
          sol   \* the objects each node points to

vars == <<prog, fi, sol>>

\* The field an edge selects.  The first field lies where its object does.
selects(e, o, F) ==
    CASE e.k = "copy" \/ name(o) \in F \cup Opaque -> {o}
      [] e.k = "ngep" -> {getGepObjVar(o, e.off)} \cup {p \in {o} : e.off = 0}
      [] OTHER -> {}

\* Pairs <<p, n>>, what p points to n points to: loads, stores and calls.
copies(S) ==
    LET cells(n) == {o \in S[n] : name(o) \notin NonPointer}
        calls == {<<c, f>> \in prog.calls \X prog.functions :
                     Len(c.args) = prog.arity[f] /\ \E o \in S[c.fp] : name(o) = f}
    IN UNION {{<<o, e.d>> : o \in cells(e.s)} : e \in {g \in prog.edges : g.k = "load"}}
         \cup UNION {{<<e.s, o>> : o \in cells(e.d)} : e \in {g \in prog.edges : g.k = "store"}}
         \cup UNION {{<<cf[1].args[i], prog.formals[cf[2]][i]>> : i \in DOMAIN prog.formals[cf[2]]}
                        \cup {<<r, cf[1].ret>> : r \in prog.rets[cf[2]]} : cf \in calls}

allocated(S) ==
    UNION {{<<<<c.heap, 0>>, c.dummy>>, <<<<c.heap, 0>>, c.ret>>} : c \in {d \in prog.calls :
        \E f \in prog.allocators : Len(d.args) = prog.arity[f] /\ \E o \in S[d.fp] : name(o) = f}}

\* One application of every constraint, and all there is to derive.
apply(S, F) ==
    LET C == copies(S)
        A == allocated(S)
        own(n) == S[n] \cup {o[1] : o \in {g \in A : g[2] = n}}
                    \cup UNION {S[c[1]] : c \in {g \in C : g[2] = n}}
                    \cup UNION {UNION {selects(e, o, F) : o \in S[e.s]} : e \in {g \in prog.edges : isDirect(g) /\ g.d = n}}
    IN Canon([n \in Node |-> own(n)], F)

RECURSIVE closure(_, _)
closure(S, F) == LET T == apply(S, F) IN IF T = S THEN S ELSE closure(T, F)

Init ==
    /\ fi = prog.fi
    /\ sol = Canon([n \in Node |-> {o \in Obj : <<o, n>> \in prog.addr}], fi)

within(S, T) == \A n \in Node : S[n] \subseteq T[n]

Derive ==
    /\ <<fi, sol>>' # <<fi, sol>>
    /\ prog' = prog
    /\ fi \subseteq fi'
    /\ \E S \in {Canon(sol, fi')}, T \in {sol'} : within(S, T) /\ within(T, closure(S, fi'))

Spec == Init /\ [][Derive]_vars
=============================================================================
