------------------------- MODULE AndersenRefinement -------------------------
(***************************************************************************)
(* The wave solver derives inclusion constraints: the solution of a node   *)
(* is that of its representative, and objects in the points-to set of a    *)
(* positive weight cycle count as collapsed as soon as the cycle is found. *)
(***************************************************************************)
EXTENDS Andersen

givenUp == fi \cup ({name(o) : o \in UNION {pts[n] : n \in {m \in pwc : rep[m] = m}}} \ Opaque)

Inclusion == INSTANCE InclusionConstraints
                 WITH fi <- givenUp, sol <- Canon([n \in Node |-> getPts(n)], givenUp)

\* Every step of the solver adds only what the constraints of the program imply, and
\* takes nothing back but fields of objects that lose theirs: merging cycles,
\* collapsing objects and passing on differences are invisible (AndersenWaveDiff).
Refines == Inclusion!Spec
=============================================================================
