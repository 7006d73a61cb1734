------------------------------ MODULE Andersen ------------------------------
(***************************************************************************)
(* AndersenWaveDiff, the points-to analysis behind every alias and points-  *)
(* to query of the passes: rounds of cycle detection, merging of cycles, a *)
(* wave of differences in topological order, and new copy edges for loads, *)
(* stores and resolved indirect calls, until nothing changes.              *)
(***************************************************************************)
EXTENDS ConstraintGraph, Sequences, Functions

CONSTANTS NodeOrder, \* the nodes by their ids
          Programs

\* A module: addresses taken, constraints between nodes, indirect call sites, and the
\* functions whose address they may call.
WellFormed(p) ==
    /\ p.nodes \subseteq Node /\ p.addr \subseteq Obj \X Node /\ p.edges \subseteq Edge
    /\ p.fi \subseteq ObjName /\ p.functions \subseteq ObjName
    /\ p.formals \in [p.functions -> Seq(Node)]
    /\ p.rets \in [p.functions -> SUBSET Node]
    /\ \A c \in p.calls : {c.fp, c.ret, c.dummy} \subseteq Node /\ c.heap \in ObjName /\ c.args \in Seq(Node)

ASSUME ProgramsAssumption == \A p \in Programs : WellFormed(p)

VARIABLES prog,      \* the constraints of a module
          G,         \* edges of the constraint graph
          pts,       \* points-to set of each node
          propa,     \* what each node has propagated already
          rep,       \* the node each node is merged into
          pwc,       \* nodes of positive weight cycles
          fi,        \* field-insensitive objects
          fields,    \* field nodes created so far
          redundant, \* field nodes merged into their object
          worklist, reanalyze,
          todo,      \* objects to be collapsed
          col,       \* fields left in the object being collapsed
          resolved,  \* indirect call edges
          pairs,     \* actual and formal parameters still to be connected
          scc, phase,
          joined     \* history: <<n, o>>, o came to n by a merge

INSTANCE SCCDetection

graph == <<G, pts, propa, rep, pwc>>
wave  == <<fi, fields, redundant, todo, col>>
calls == <<resolved, pairs>>
vars  == <<prog, graph, wave, calls, worklist, reanalyze, scc, phase, joined>>

getPts(n) == pts[rep[n]]
order == [n \in Node |-> CHOOSE i \in DOMAIN NodeOrder : NodeOrder[i] = n]
byId(S) == SelectSeq(NodeOrder, LAMBDA n : n \in S)
pushIntoWorklist(seq) == worklist \o SelectSeq(seq, LAMBDA n : n \notin Range(worklist))

\* Nodes of the graph and their direct successors, copy edges first.
nodes == {n \in prog.nodes \cup fields : rep[n] = n}
kindOrder == [copy |-> 0, ngep |-> 1, vgep |-> 2]
Children == [v \in Node |-> {<<kindOrder[e.k] * Len(NodeOrder) + order[e.d], e.d>> : e \in {g \in G : g.s = v /\ isDirect(g)}}]

\* buildCG, processAllAddr
Init ==
    /\ prog \in Programs
    /\ G = prog.edges
    /\ pts = [n \in Node |-> {o \in Obj : <<o, n>> \in prog.addr}]
    /\ propa = [n \in Node |-> {}]
    /\ rep = [n \in Node |-> n]
    /\ pwc = {} /\ fi = prog.fi /\ fields = {} /\ redundant = {} /\ todo = {} /\ col = {}
    /\ worklist = byId({n \in Node : pts[n] # {}})
    /\ reanalyze = FALSE
    /\ resolved = {} /\ pairs = {}
    /\ scc = clear
    /\ phase = "detect"
    /\ joined = {}

-----------------------------------------------------------------------------
\* SCCDetect: one step of the search, then one merge per step.
SCCDetect ==
    /\ phase = "detect"
    /\ \/ findRoot(nodes, order, Children)
       \/ visitChild(Children)
       \/ finishVisit
    /\ UNCHANGED <<prog, graph, wave, calls, worklist, reanalyze, phase, joined>>

\* mutant: r does not take over what n points to.
MergeDropsSource(n, r, P) ==
    /\ pts' = P
    /\ propa' = [propa EXCEPT ![r] = propa[r] \cap propa[n]]
    /\ G' = moveEdgesToRepNode(G, n, r)
    /\ pwc' = pwc
    /\ rep' = [m \in Node |-> IF rep[m] = n THEN r ELSE rep[m]]
    /\ joined' = joined

\* P are the points-to sets before the merge of n into r.
mergeSrcToTgt(n, r, P) ==
    /\ pts' = [P EXCEPT ![r] = P[r] \cup P[n]]
    /\ propa' = [propa EXCEPT ![r] = propa[r] \cap propa[n]]
    /\ G' = moveEdgesToRepNode(G, n, r)
    /\ pwc' = IF criticalGepInsideSCC(G, n, r) \/ n \in pwc THEN pwc \cup {r} ELSE pwc
    /\ rep' = [m \in Node |-> IF rep[m] = n THEN r ELSE rep[m]]
    /\ joined' = joined \cup {j \in Node \X Obj :
                                 rep[j[1]] \in {n, r} /\ j[2] \in (P[n] \cup P[r]) \ P[rep[j[1]]]}

\* mergeSccCycle goes through the representatives from the top of the stack.
toMerge(r) == {n \in Node \ {r} : n \in scc.sub[r] /\ rep[n] = n}
mergeSccNodes ==
    /\ phase = "detect" /\ found(nodes)
    /\ \E r \in Node :
         /\ \E i \in DOMAIN scc.T : r = scc.T[i] /\ \A j \in DOMAIN scc.T : j > i => toMerge(scc.T[j]) = {}
         /\ \E n \in toMerge(r) :
              /\ \A m \in toMerge(r) : order[n] <= order[m]
              /\ mergeSrcToTgt(n, r, pts)
    /\ UNCHANGED <<prog, wave, calls, worklist, reanalyze, scc, phase>>

cyclesMerged ==
    /\ phase = "detect" /\ found(nodes)
    /\ \A i \in DOMAIN scc.T : toMerge(scc.T[i]) = {}
    /\ phase' = "wave"
    /\ UNCHANGED <<prog, graph, wave, calls, worklist, reanalyze, scc, joined>>

-----------------------------------------------------------------------------
\* Objects in a points-to set that are still field-sensitive.
toCollapse(S) == {name(o) : o \in S} \ (fi \cup Opaque)

collapsePWCNode ==
    /\ phase = "wave" /\ todo = {} /\ col = {} /\ scc.T # <<>>
    /\ \E r \in pwc :
         /\ r = rep[Top(scc.T)]
         /\ toCollapse(pts[r]) # {}
         /\ todo' = toCollapse(pts[r])
    /\ UNCHANGED <<prog, graph, fi, fields, redundant, col, calls, worklist, reanalyze, scc, phase, joined>>

\* mutant: the offset counts from the start of the object, not from the field.
PassesFromStart(e, o) ==
    IF e.k = "copy" \/ name(o) \in Opaque THEN o
    ELSE IF e.k = "vgep" THEN whole(o)
    ELSE IF name(o) \in fi THEN o ELSE getGepObjVar(whole(o), e.off)

\* What an edge makes of the pointed-to object o.
passes(e, o) ==
    IF e.k = "copy" \/ name(o) \in Opaque THEN o
    ELSE IF e.k = "vgep" THEN whole(o)
    ELSE IF name(o) \in fi THEN o ELSE getGepObjVar(o, e.off)

computeDiffPts(v) == pts[v] \ propa[v]

gain(v, n, ks) == UNION {{passes(e, o) : o \in computeDiffPts(v)} : e \in {x \in G : x.s = v /\ x.d = n /\ x.k \in ks}}

handleCopyGep(v) ==
    LET pushed(ks) == byId({n \in Node : ~(gain(v, n, ks) \subseteq pts[n])})
        newFI == IF \E e \in G : e.s = v /\ e.k = "vgep" THEN toCollapse(computeDiffPts(v)) ELSE {}
    IN /\ pts' = [n \in Node |-> pts[n] \cup gain(v, n, {"copy", "ngep", "vgep"})]
       /\ propa' = [propa EXCEPT ![v] = pts[v]]
       /\ fi' = fi \cup newFI
       /\ todo' = newFI
       /\ fields' = fields \cup {o \in UNION {gain(v, n, {"ngep"}) : n \in Node} : o[2] # 0}
       /\ worklist' = pushIntoWorklist(pushed({"copy"})
                          \o SelectSeq(pushed({"ngep", "vgep"}), LAMBDA n : n \notin Range(pushed({"copy"}))))

processNode ==
    /\ phase = "wave" /\ todo = {} /\ col = {} /\ scc.T # <<>>
    /\ \E v \in Node :
         /\ v = Top(scc.T)
         /\ ~(rep[v] \in pwc /\ toCollapse(pts[rep[v]]) # {})
         /\ IF rep[v] = v
            THEN handleCopyGep(v)
            ELSE UNCHANGED <<pts, propa, fi, todo, fields, worklist>>
    /\ scc' = [scc EXCEPT !.T = Pop(@)]
    /\ UNCHANGED <<prog, G, rep, pwc, redundant, col, calls, reanalyze, phase, joined>>

\* collapseField: the object becomes field-insensitive, then its fields are merged
\* into it one by one.
collapseField ==
    /\ phase = "wave" /\ col = {}
    /\ \E x \in todo :
         LET own == {f \in fields : name(f) = x}
             r == rep[<<x, 0>>]
         IN /\ fi' = fi \cup {x}
            /\ col' = own
            /\ todo' = (todo \ {x}) \cup (IF own = {} /\ r \in pwc THEN toCollapse(pts[r]) \ {x} ELSE {})
    /\ UNCHANGED <<prog, graph, fields, redundant, calls, worklist, reanalyze, scc, phase, joined>>

replaced(f) == [n \in Node |-> IF f \in pts[n] THEN (pts[n] \ {f}) \cup {whole(f)} ELSE pts[n]]
mergeField ==
    /\ phase = "wave"
    /\ \E f \in col :
         LET r == rep[whole(f)]
             revPts == {n \in Node : f \in pts[n]}
         IN /\ \A g \in col : order[f] <= order[g]
            /\ IF rep[f] = r
               THEN pts' = replaced(f) /\ UNCHANGED <<G, propa, rep, pwc, joined>>
               ELSE mergeSrcToTgt(rep[f], r, replaced(f))
            /\ worklist' = pushIntoWorklist(byId({rep[m] : m \in revPts}))
            /\ reanalyze' = (reanalyze \/ revPts # {})
            /\ redundant' = IF f = r THEN redundant ELSE redundant \cup {f}
            /\ col' = col \ {f}
            /\ todo' = IF col' = {} /\ r \in pwc' THEN todo \cup toCollapse(pts'[r]) ELSE todo
    /\ UNCHANGED <<prog, fi, fields, calls, scc, phase>>

waveEnds ==
    /\ phase = "wave" /\ todo = {} /\ col = {} /\ scc.T = <<>>
    /\ phase' = "post"
    /\ UNCHANGED <<prog, graph, wave, calls, worklist, reanalyze, scc, joined>>

-----------------------------------------------------------------------------
\* mutants: an edge is added again; what s has propagated counts for the new edge;
\* stores are forgotten.
CanAddAgain(s, d) == s # d
AddCopyEdgeOnly(s, d) ==
    /\ G' = G \cup {edge("copy", s, d)}
    /\ UNCHANGED propa
LoadsOnly(v) ==
    {<<rep[o], e.d>> : o \in {p \in pts[v] : name(p) \notin NonPointer}, e \in {x \in G : x.k = "load" /\ x.s = v}}

canAdd(s, d) == s # d /\ ~hasEdge(G, "copy", s, d)
addCopyEdge(s, d) ==
    /\ G' = G \cup {edge("copy", s, d)}
    /\ propa' = [propa EXCEPT ![s] = propa[s] \cap propa[d]]

\* The copy edges that the loads and stores of v call for.
handleLoadStore(v) ==
    LET cells == {rep[o] : o \in {p \in pts[v] : name(p) \notin NonPointer}}
    IN {<<c, e.d>> : c \in cells, e \in {x \in G : x.k = "load" /\ x.s = v}}
         \cup {<<e.s, c>> : c \in cells, e \in {x \in G : x.k = "store" /\ x.d = v}}

\* postProcessNode, one new edge per step.
processLoadStore ==
    /\ phase = "post" /\ worklist # <<>>
    /\ \E v \in Node :
         /\ v = rep[Head(worklist)]
         /\ \E p \in handleLoadStore(v) : canAdd(p[1], p[2]) /\ addCopyEdge(p[1], p[2])
    /\ reanalyze' = TRUE
    /\ UNCHANGED <<prog, pts, rep, pwc, wave, calls, worklist, scc, phase, joined>>

popFromWorklist ==
    /\ phase = "post" /\ worklist # <<>>
    /\ \A p \in handleLoadStore(rep[Head(worklist)]) : ~canAdd(p[1], p[2])
    /\ worklist' = Tail(worklist)
    /\ UNCHANGED <<prog, graph, wave, calls, reanalyze, scc, phase, joined>>

\* connectCaller2CalleeParams, for the call site c and the function f.
parameters(c, f) ==
    {<<c.args[i], prog.formals[f][i]>> : i \in DOMAIN c.args \cap DOMAIN prog.formals[f]}
      \cup {<<r, c.ret>> : r \in prog.rets[f]}
      \cup {<<c.dummy, c.ret>> : h \in {f} \cap prog.allocators}

\* resolveIndCalls: the targets of a call site that take as many arguments.
targets(c) == {f \in prog.functions : Len(c.args) = prog.arity[f] /\ \E o \in getPts(c.fp) : name(o) = f}

\* mutant: new call edges do not ask for another round.
CallGraphChangeIgnored ==
    /\ phase = "post" /\ worklist = <<>>
    /\ LET new == {cf \in prog.calls \X prog.functions : cf[2] \in targets(cf[1])} \ resolved
       IN /\ resolved' = resolved \cup new
          /\ pairs' = UNION {parameters(cf[1], cf[2]) : cf \in new}
    /\ phase' = "connect"
    /\ UNCHANGED <<prog, graph, wave, worklist, reanalyze, scc, joined>>

updateCallGraph ==
    /\ phase = "post" /\ worklist = <<>>
    /\ LET new == {cf \in prog.calls \X prog.functions : cf[2] \in targets(cf[1])} \ resolved
       IN /\ resolved' = resolved \cup new
          /\ pairs' = UNION {parameters(cf[1], cf[2]) : cf \in new}
          /\ pts' = [n \in Node |-> pts[n] \cup {<<cf[1].heap, 0>> : cf \in
                        {x \in new : x[1].dummy = n /\ x[2] \in prog.allocators}}]
          /\ reanalyze' = (reanalyze \/ new # {})
    /\ phase' = "connect"
    /\ UNCHANGED <<prog, G, propa, rep, pwc, wave, worklist, scc, joined>>

connectCaller2CalleeParams ==
    /\ phase = "connect"
    /\ \E p \in pairs :
         LET s == rep[p[1]]
             d == rep[p[2]]
         IN /\ pairs' = pairs \ {p}
            /\ IF canAdd(s, d)
               THEN addCopyEdge(s, d) /\ worklist' = pushIntoWorklist(<<s>>)
               ELSE UNCHANGED <<G, propa, worklist>>
    /\ UNCHANGED <<prog, pts, rep, pwc, wave, resolved, reanalyze, scc, phase, joined>>

\* solveConstraints: another round, or the end with normalizePointsTo.
nextRound ==
    /\ phase = "connect" /\ pairs = {} /\ reanalyze
    /\ phase' = "detect"
    /\ reanalyze' = FALSE
    /\ scc' = clear
    /\ UNCHANGED <<prog, graph, wave, calls, worklist, joined>>

finalize ==
    /\ phase = "connect" /\ pairs = {} /\ ~reanalyze
    /\ phase' = "done"
    /\ fields' = fields \ redundant
    /\ rep' = [n \in Node |-> IF n \in redundant THEN n ELSE rep[n]]
    /\ UNCHANGED <<prog, G, pts, propa, pwc, fi, redundant, todo, col, calls, worklist, reanalyze, scc, joined>>

Done == phase = "done" /\ UNCHANGED vars

Next == \/ SCCDetect \/ mergeSccNodes \/ cyclesMerged
        \/ collapsePWCNode \/ processNode \/ collapseField \/ mergeField \/ waveEnds
        \/ processLoadStore \/ popFromWorklist
        \/ updateCallGraph \/ connectCaller2CalleeParams \/ nextRound \/ finalize \/ Done

Spec == Init /\ [][Next]_vars /\ WF_vars(Next)

-----------------------------------------------------------------------------
\* Type correctness: the sets and maps of the solver hold nodes and objects.
TypeOK ==
    /\ WellFormed(prog)
    /\ G \subseteq Edge
    /\ pts \in [Node -> SUBSET Obj] /\ propa \in [Node -> SUBSET Obj]
    /\ rep \in [Node -> Node] /\ pwc \subseteq Node
    /\ fi \subseteq ObjName /\ todo \subseteq ObjName
    /\ fields \subseteq Obj /\ redundant \subseteq Obj /\ col \subseteq Obj
    /\ pairs \subseteq Node \X Node
    /\ joined \subseteq Node \X Obj

\* An object is in a set, or stands in it as a whole because its fields were given up.
Covered(o, S) == o \in S \/ (name(o) \in fi /\ \E p \in S : name(p) = name(o))

\* What an edge has passed on, up to fields that were given up since.
PassedOn(e, o) == Covered(passes(e, o), pts[e.d])

\* Nothing is skipped by the differences: whatever a node counts as propagated has
\* reached the target of each of its copy and gep edges, also across merges of nodes,
\* new edges and collapsed objects (computeDiffPts, updatePropaPts, mergeSrcToTgt).
NothingSkipped ==
    /\ \A e \in G : isDirect(e) => \A o \in propa[e.s] : PassedOn(e, o)
    /\ \A n \in Node : \A o \in propa[n] : Covered(o, pts[n])

\* A step never forgets what a node points to, except that an object as a whole may
\* take the place of its field, whichever node the node is merged into meanwhile
\* (clearPts in collapseField, mergeSrcToTgt, normalizePointsTo).
NeverForgets == [][\A n \in Node \ redundant : \A o \in getPts(n) :
                      \/ o \in getPts(n)'
                      \/ name(o) \in fi' /\ \E p \in getPts(n)' : name(p) = name(o)]_vars

\* No edge is left at a node that was merged into another one (moveEdgesToRepNode,
\* updateNodeRepAndSubs), so a difference never travels to a dead node.
EdgesOnReps ==
    /\ \A e \in G : rep[e.s] = e.s /\ rep[e.d] = e.d
    /\ \A n \in Node : rep[rep[n]] = rep[n]

\* The search finds the strongly connected components of the copy and gep edges, and
\* its stack has sources above their successors (SCC.h visit).
reachable(n) ==
    LET r[i \in 0..Cardinality(nodes)] ==
            IF i = 0 THEN {n} ELSE LET p == r[i - 1] IN p \cup {e.d : e \in {g \in G : isDirect(g) /\ g.s \in p}}
    IN r[Cardinality(nodes)]
CyclesFound ==
    (phase = "detect" /\ found(nodes) /\ \A r \in Range(scc.T) : toMerge(r) = scc.sub[r] \ {r}) =>
        LET R == [n \in nodes |-> reachable(n)]
        IN /\ \A n \in nodes : \E i \in DOMAIN scc.T : scc.sub[scc.T[i]] = {m \in R[n] : n \in R[m]}
           /\ \A i, j \in DOMAIN scc.T : i < j => scc.T[j] \notin R[scc.T[i]]

\* e and another gep lie between the same merged nodes.
Parallel(e) == \E g \in prog.edges : g.k = "ngep" /\ g.off # e.off /\ rep[g.s] = rep[e.s] /\ rep[g.d] = rep[e.d]

\* The solver stops with every copy and gep constraint of the program solved, the
\* parameters of resolved calls included (solveConstraints), but for geps that merges
\* made parallel (addNormalGepCGEdge).
DirectSolved ==
    phase = "done" =>
        /\ \A e \in prog.edges : isDirect(e) => \A o \in getPts(e.s) :
              \/ Covered(passes(e, o), getPts(e.d))
              \/ isZeroOffsettedGep(e) /\ Covered(o, getPts(e.d))
              \/ e.k = "ngep" /\ Parallel(e)
        /\ \A c \in prog.calls : \A f \in targets(c) : \A p \in parameters(c, f) : \A o \in getPts(p[1]) :
              Covered(o, getPts(p[2]))

\* Objects that n points to and can be read or written through.
Cells(n) == {o \in getPts(n) : name(o) \notin NonPointer}
ReadThrough(e, o)  == \A p \in getPts(o) : Covered(p, getPts(e.d))
WrittenThrough(e, o) == \A p \in getPts(e.s) : Covered(p, getPts(o))

\* The solver stops with every load and store solved for each object that reached the
\* pointer along an edge (handleLoad, handleStore).
MemorySolved ==
    phase = "done" => \A e \in prog.edges :
        /\ e.k = "load" => \A o \in Cells(e.s) : <<e.s, o>> \in joined \/ ReadThrough(e, o)
        /\ e.k = "store" => \A o \in Cells(e.d) : <<e.d, o>> \in joined \/ WrittenThrough(e, o)

\* "node \in pts(src) ==> node--copy-->dst": every load and store is solved for every
\* object its pointer points to, those that came by a merge included.
LoadsAndStoresSolved ==
    phase = "done" => \A e \in prog.edges :
        /\ e.k = "load" => \A o \in Cells(e.s) : ReadThrough(e, o)
        /\ e.k = "store" => \A o \in Cells(e.d) : WrittenThrough(e, o)

\* The rounds come to an end (reanalyze, solveConstraints).
Terminates == <>(phase = "done")
=============================================================================
