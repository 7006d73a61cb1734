--------------------------- MODULE DependenceGraph ---------------------------
(***************************************************************************)
(* The program dependence graph as ProgramDependencyGraph leaves it:       *)
(* DataDependencyGraph adds the data edges function by function,           *)
(* ControlDependencyGraph the control edges, and the trees of the globals  *)
(* are connected last.  Every instruction has a node.                      *)
(*                                                                         *)
(* prog.insts[v] has the kind, operands, function, type and block of an    *)
(* instruction; a type is <<"ptr", t>> or has another head, and a cast     *)
(* with the name "bitcast" is a BitCastInst.  prog.pts[v] are the objects  *)
(* of getExpandedFIPts, prog.memdep[l] is the store that MemoryDependence  *)
(* finds for the load l, prog.cfg[f] has the blocks of f: their            *)
(* successors in order, and the condition of a conditional branch if it    *)
(* has a node.  prog.trees are the globals with a parameter tree.          *)
(***************************************************************************)
EXTENDS Integers, Sequences, FiniteSets

CONSTANTS Programs, None

\* A module lists its functions, an instruction its operands.
ASSUME ProgramsAssumption ==
    \A p \in Programs : p.fns \in Seq(DOMAIN p.cfg) /\ \A v \in DOMAIN p.insts : p.insts[v].ops \in Seq(STRING)

VARIABLES
    prog, stage,
    fns,                    \* the functions the running pass has still to meet
    edges,                  \* triples: source, destination, EdgeType
    objects,                \* the keys of obj_to_instset_map still to come
    unique_alias_inst_set

graphVars == <<prog, stage, fns, edges, objects, unique_alias_inst_set>>

Kind(v) == IF v \in DOMAIN prog.insts THEN prog.insts[v].kind ELSE "other"
Ops(v) == prog.insts[v].ops
Insts(f) == {v \in DOMAIN prog.insts : prog.insts[v].fn = f}
users(v) == {u \in DOMAIN prog.insts : \E i \in DOMAIN Ops(u) : Ops(u)[i] = v}
isPointerTy(v) == v \in DOMAIN prog.insts /\ prog.insts[v].type[1] = "ptr"
isBitCast(v) == Kind(v) = "cast" /\ prog.insts[v].name = "bitcast"
hasAllZeroIndices(v) == \A i \in 2 .. Len(Ops(v)) : Ops(v)[i] = "0"

GraphInit ==
    /\ prog \in Programs
    /\ stage = "ddg" /\ fns = prog.fns /\ edges = {} /\ objects = {} /\ unique_alias_inst_set = {}

-----------------------------------------------------------------------------
(* DataDependencyGraph.                                                     *)

\* The value of the alias query is NoAlias or MustAlias.
queryAliasUnderApproximate(v, w) ==
    /\ isPointerTy(v) /\ isPointerTy(w)
    /\ \/ isBitCast(v) /\ Ops(v)[1] = w
       \/ /\ Kind(v) = "load"
          /\ \E u \in users(Ops(v)[1]) :
                \/ Kind(u) = "load" /\ u = w
                \/ Kind(u) = "store" /\ Ops(u)[2] = Ops(v)[1] /\ Ops(u)[1] = w
       \/ Kind(v) = "gep" /\ Ops(v)[1] = w /\ hasAllZeroIndices(v)

\* Type information eliminates dubious aliases, except of a bit cast.
TypesMatch(v, w) == isBitCast(v) \/ isBitCast(w) \/ prog.insts[v].type = prog.insts[w].type

Both(pairs, type) == UNION {{<<p[1], p[2], type>>, <<p[2], p[1], type>>} : p \in pairs}

addAliasEdges(f) ==
    Both({p \in Insts(f) \X Insts(f) : p[1] # p[2] /\ queryAliasUnderApproximate(p[1], p[2]) /\ TypesMatch(p[1], p[2])}, "DATA_ALIAS")

addDefUseEdges(f) == UNION {{<<v, u, "DATA_DEF_USE">> : u \in users(v)} : v \in Insts(f)}

addRAWEdges(f) == {<<prog.memdep[l], l, "DATA_RAW">> : l \in {v \in Insts(f) \cap DOMAIN prog.memdep : Kind(v) = "load"}}

\* The loop over the instructions of the next function.
runOnInstructions ==
    LET f == Head(fns)
    IN  /\ stage = "ddg" /\ fns # <<>>
        /\ edges' = edges \cup addDefUseEdges(f) \cup addRAWEdges(f) \cup addAliasEdges(f)
        /\ objects' = UNION {prog.pts[v] : v \in Insts(f)}
        /\ stage' = "ddg sets"
        /\ UNCHANGED <<prog, fns, unique_alias_inst_set>>

InstsOn(f, o) == {v \in Insts(f) : o \in prog.pts[v]}

DropsLarger(s, U) ==
    LET comparable == {x \in U : s \subseteq x \/ x \subseteq s}
    IN  IF comparable = {} THEN {U \cup {s}}
        ELSE {IF x \subseteq s THEN U ELSE (U \ {x}) \cup {s} : x \in comparable}

\* unique_alias_inst_set with the instructions on one more object.  The first set
\* in it that is comparable decides; addresses order the sets, so any may be first.
WithAliasSet(s, U) ==
    LET comparable == {x \in U : s \subseteq x \/ x \subseteq s}
    IN  IF s \in U THEN {U} ELSE IF comparable = {} THEN {U \cup {s}}
        ELSE {IF s \subseteq x THEN U ELSE (U \ {x}) \cup {s} : x \in comparable}

addInstSet(o) ==
    /\ stage = "ddg sets"
    /\ unique_alias_inst_set' \in WithAliasSet(InstsOn(Head(fns), o), unique_alias_inst_set)
    /\ objects' = objects \ {o}
    /\ UNCHANGED <<prog, stage, fns, edges>>

connectAliasSets ==
    /\ stage = "ddg sets" /\ objects = {}
    /\ edges' = edges \cup Both(UNION {{p \in s \X s : p[1] # p[2] /\ TypesMatch(p[1], p[2])} : s \in unique_alias_inst_set}, "DATA_ALIAS")
    /\ unique_alias_inst_set' = {} /\ fns' = Tail(fns) /\ stage' = "ddg"
    /\ UNCHANGED <<prog, objects>>

-----------------------------------------------------------------------------
(* ControlDependencyGraph.                                                  *)

Blocks(f) == DOMAIN prog.cfg[f].succ
Succs(f, b) == {prog.cfg[f].succ[b][i] : i \in DOMAIN prog.cfg[f].succ[b]}

\* The blocks that can be reached from those of S without entering b.
ReachedWithout(f, S, b) ==
    LET reach[n \in Nat] == IF n = 0 THEN S \ {b}
                            ELSE LET r == reach[n - 1] IN r \cup (UNION {Succs(f, c) : c \in r} \ {b})
    IN  reach[Cardinality(Blocks(f))]

\* PostDominatorTree: b is on every path from c to the end of the function.
dominates(f, b, c) == b = c \/ \A e \in ReachedWithout(f, {c}, b) : Succs(f, e) # {}

\* The parent in the tree; None is the virtual root above the ends of the function.
getIDom(f, c) ==
    LET strict == {b \in Blocks(f) \ {c} : dominates(f, b, c)}
    IN  IF strict = {} THEN None ELSE CHOOSE b \in strict : \A d \in strict : dominates(f, d, b)

findNearestCommonDominator(f, b, c) ==
    LET common == {d \in Blocks(f) : dominates(f, d, b) /\ dominates(f, d, c)}
    IN  IF common = {} THEN None ELSE CHOOSE d \in common : \A e \in common : dominates(f, e, d)

\* The blocks from s up to the ancestor top, exclusive.
Walk(f, s, top) ==
    LET up[c \in Blocks(f) \cup {None}] == IF c = top THEN {} ELSE {c} \cup up[getIDom(f, c)]
    IN  up[s]

ControlNodeToBB(f, n, b) == {<<n, v, "CONTROL">> : v \in {w \in Insts(f) : prog.insts[w].block = b}}

NoSelfLoops(f, b, s) == IF dominates(f, s, b) THEN {} ELSE Walk(f, s, findNearestCommonDominator(f, b, s))

\* What the branch at the end of b decides by going to s.
DependentBlocks(f, b, s) ==
    LET top == findNearestCommonDominator(f, b, s)
    IN  IF s # b /\ dominates(f, s, b) THEN {} ELSE Walk(f, s, top) \cup (IF top = b THEN {s} ELSE {})

computeControlDependencies(f) ==
    UNION {IF prog.cfg[f].cond[b] = None THEN {}
           ELSE UNION {UNION {ControlNodeToBB(f, prog.cfg[f].cond[b], c) : c \in DependentBlocks(f, b, s)} : s \in Succs(f, b)} : b \in Blocks(f)}

addControlDepFromEntryNodeToEntryBlock(f) == ControlNodeToBB(f, f, prog.cfg[f].entry)

\* ProgramDependencyGraph requires the pass; the pass manager runs it on every function.
runControlDependencyGraph ==
    /\ stage = "ddg" /\ fns = <<>> /\ stage' = "pdg"
    /\ edges' = edges \cup UNION {addControlDepFromEntryNodeToEntryBlock(f) \cup computeControlDependencies(f) : f \in DOMAIN prog.cfg}
    /\ UNCHANGED <<prog, fns, objects, unique_alias_inst_set>>

-----------------------------------------------------------------------------
(* ProgramDependencyGraph.  A global's tree is built before its root has a  *)
(* debug type, so the root has no children; the only variable with its      *)
(* address is the global itself, whose node is the root.                    *)

connectGlobalTreeWithAddrVars(g) ==
    LET aliases == {v \in DOMAIN prog.insts : <<g, v, "DATA_ALIAS">> \in edges}
    IN  {<<g, v, "PARAMETER_IN">> : v \in {g} \cup {w \in aliases : Kind(w) = "gep" => hasAllZeroIndices(w)}}

runOnModule ==
    /\ stage = "pdg" /\ stage' = "collect"
    /\ edges' = edges \cup UNION {connectGlobalTreeWithAddrVars(g) : g \in prog.trees}
    /\ UNCHANGED <<prog, fns, objects, unique_alias_inst_set>>

GraphNext ==
    \/ runOnInstructions
    \/ \E o \in objects : addInstSet(o)
    \/ connectAliasSets
    \/ runControlDependencyGraph
    \/ runOnModule

GraphSpec == GraphInit /\ [][GraphNext]_graphVars

-----------------------------------------------------------------------------
(* Properties.                                                              *)

FunctionsDone == {prog.fns[i] : i \in DOMAIN prog.fns} \ {fns[i] : i \in DOMAIN fns}

SharesObject(v, w) == \E o \in prog.pts[v] : o \in prog.pts[w]

ShouldAlias(v, w) ==
    /\ v # w /\ TypesMatch(v, w)
    /\ queryAliasUnderApproximate(v, w) \/ queryAliasUnderApproximate(w, v) \/ SharesObject(v, w)

\* Whatever the order of the objects and of the addresses, the alias edges of a
\* finished function connect exactly the instructions of matching type that share
\* an object or that the syntactic query finds: replacing a set of instructions by
\* a larger one loses no pair, although the search stops at the first.
AliasEdgesExact ==
    stage \in {"ddg", "collect"} =>
        \A f \in FunctionsDone : \A v, w \in Insts(f) : (<<v, w, "DATA_ALIAS">> \in edges) <=> ShouldAlias(v, w)

\* Once the pass has run, an instruction depends on a branch condition exactly if
\* its block post-dominates a successor of a block ended by that branch and does not
\* strictly post-dominate that block; but a block depends on itself only if it is
\* its own successor, where the definition asks for any loop through it.
ControlExact ==
    stage = "collect" =>
        \A f \in DOMAIN prog.cfg : \A n \in {prog.cfg[f].cond[b] : b \in Blocks(f)} \ {None} : \A v \in Insts(f) :
            LET c == prog.insts[v].block
            IN  (<<n, v, "CONTROL">> \in edges) <=>
                    \E b \in {x \in Blocks(f) : prog.cfg[f].cond[x] = n} : \E s \in Succs(f, b) :
                        IF b = c THEN s = b
                        ELSE dominates(f, c, s) /\ ~dominates(f, c, b)

=============================================================================
