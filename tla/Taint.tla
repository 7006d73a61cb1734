-------------------------------- MODULE Taint --------------------------------
(***************************************************************************)
(* TaintPass, which runs on a module that UnifiedMemSafePass has marked.   *)
(* A marked GEP needs its markers only if it is fed by a value loaded      *)
(* through a marked GEP (the second stage); the pass takes the markers off *)
(* the others.  It first follows each marked GEP to the memory operations  *)
(* on what is derived from it, and then follows the loaded values.         *)
(*                                                                         *)
(* To the program of Instrumentation it adds fn (the function of an        *)
(* instruction), callee (of a call, None if indirect) and params (of the   *)
(* functions with a body).                                                 *)
(***************************************************************************)
EXTENDS Instrumentation

VARIABLES
    phase,
    dgUnsafeGEPs,
    sources,       \* the GEPs of dgUnsafeGEPs that phase 1.2 still has to follow
    source,        \* the one it follows
    visited,
    Worklist,
    firstMemOps,   \* the values of firstMemOpMap, together
    ReachableGEPs,
    branchTag      \* metadata taint.branch

taintVars == <<phase, dgUnsafeGEPs, sources, source, visited, Worklist, firstMemOps, ReachableGEPs, branchTag>>
allVars == <<vars, taintVars>>

\* Instructions, parameters and what is allocated.
ParametersOf(p) == UNION {Range(p.params[f]) : f \in DOMAIN p.params}
AllocationsOf(p) == {p.site[o] : o \in DOMAIN p.site} \ {None}
ValuesOf(p) == DOMAIN p.insts \cup ParametersOf(p) \cup AllocationsOf(p)
Values == ValuesOf(prog)

\* A load has one operand, a store has two and is no operand.
ASSUME FlowAssumption ==
    \A p \in Programs :
        /\ IsFiniteSet(ValuesOf(p)) /\ None \notin ValuesOf(p)
        /\ \A i \in DOMAIN p.insts : p.insts[i].kind = "load" => DOMAIN p.insts[i].ops = {1}
        /\ \A i \in DOMAIN p.insts : p.insts[i].kind = "store" => {1, 2} \subseteq DOMAIN p.insts[i].ops
        /\ \A i, j \in DOMAIN p.insts : p.insts[i].kind = "store" => i \notin Range(p.insts[j].ops)

\* handleCallInst: the parameters that take current; none of a declaration.
Formals(c, current) ==
    LET f == prog.insts[c].callee
    IN  IF f \notin DOMAIN prog.params THEN {}
        ELSE {prog.params[f][k] : k \in {j \in DOMAIN Ops(c) \cap DOMAIN prog.params[f] : Ops(c)[j] = current}}

\* handleReturnInst: the calls that use the function that returns, as the function
\* called or as an argument.
Callers(r) == {c \in Insts("call") : prog.insts[r].fn \in {prog.insts[c].callee} \cup Range(Ops(c))}

\* handleStoreInst: the allocations of the objects that the value is stored to.
StoredTo(s) == {prog.site[o] : o \in {x \in Objects(Ops(s)[2]) : prog.site[x] # None}}

TaintedBy(u, current) ==
    CASE Kind(u) = "call" -> Formals(u, current)
      [] Kind(u) = "store" -> IF Ops(u)[1] = current THEN StoredTo(u) ELSE {}
      [] Kind(u) = "ret" -> Callers(u)
      [] OTHER -> {u}

DerivedBy(u, current) == IF Kind(u) \in {"load", "store"} THEN {} ELSE TaintedBy(u, current)

Spread(current, By(_, _)) == UNION {By(u, current) : u \in Users(current)}
MemoryOps(v) == {u \in Users(v) : Kind(u) = "load" \/ (Kind(u) = "store" /\ Ops(u)[2] # v)}
StoredThrough(v) == \E u \in Users(v) : Kind(u) = "store" /\ Ops(u)[2] = v

InSomeOrder(S) == CHOOSE q \in [1 .. Cardinality(S) -> S] : Range(q) = S

\* propagateTaint for a set of values: the new ones join the queue.
propagateTaint(queue, values, seen) == queue \o InSomeOrder(values \ seen)

-----------------------------------------------------------------------------

TaintInit ==
    /\ Init /\ phase = "idle"
    /\ dgUnsafeGEPs = {} /\ sources = {} /\ source = None /\ visited = {} /\ Worklist = <<>>
    /\ firstMemOps = {} /\ ReachableGEPs = {} /\ branchTag = {}

startTaint ==
    /\ stage = "ready" /\ history # <<>> /\ Len(history) < MaxRuns
    /\ stage' = "taint" /\ phase' = "first operations"
    /\ history' = Append(history, [option EXCEPT !.taint = TRUE])
    /\ dgUnsafeGEPs' = GEPsBefore(MAGIC_ASM_END) /\ sources' = GEPsBefore(MAGIC_ASM_END)
    /\ source' = None /\ visited' = {} /\ Worklist' = <<>> /\ firstMemOps' = {} /\ ReachableGEPs' = {}
    /\ UNCHANGED <<prog, flagged, code, unsafeTag, dponlyTag, pending, reported, branchTag>>

\* The GEPs come in the order of their addresses; visited is shared by them.
KeepsSource(g) ==
    /\ phase = "first operations" /\ Worklist = <<>>
    /\ sources' = IF g \in visited THEN sources ELSE sources \ {g}
    /\ source' = g
    /\ Worklist' = propagateTaint(<<>>, {g}, visited) /\ visited' = visited \cup {g}
    /\ UNCHANGED <<vars, phase, dgUnsafeGEPs, firstMemOps, ReachableGEPs, branchTag>>

followSource(g) ==
    /\ phase = "first operations" /\ Worklist = <<>>
    /\ sources' = sources \ {g} /\ source' = g
    /\ Worklist' = propagateTaint(<<>>, {g}, visited) /\ visited' = visited \cup {g}
    /\ UNCHANGED <<vars, phase, dgUnsafeGEPs, firstMemOps, ReachableGEPs, branchTag>>

firstOperations ==
    /\ phase = "first operations" /\ Worklist # <<>>
    /\ LET current == Head(Worklist)
       IN  /\ Worklist' = propagateTaint(Tail(Worklist), Spread(current, DerivedBy), visited)
           /\ visited' = visited \cup Spread(current, DerivedBy)
           /\ firstMemOps' = firstMemOps \cup MemoryOps(current)
           /\ ReachableGEPs' = ReachableGEPs \cup (IF StoredThrough(current) THEN {source} ELSE {})
    /\ UNCHANGED <<vars, phase, dgUnsafeGEPs, sources, source, branchTag>>

formSources ==
    /\ phase = "first operations" /\ Worklist = <<>> /\ sources = {}
    /\ phase' = "taint" /\ Worklist' = InSomeOrder(firstMemOps)
    /\ UNCHANGED <<vars, dgUnsafeGEPs, sources, source, visited, firstMemOps, ReachableGEPs, branchTag>>

SkipsVisited ==
    /\ phase = "taint" /\ Worklist # <<>>
    /\ LET tainted == Spread(Head(Worklist), TaintedBy)
       IN  /\ Worklist' = propagateTaint(Tail(Worklist), tainted, ReachableGEPs \cup visited)
           /\ ReachableGEPs' = ReachableGEPs \cup tainted
    /\ UNCHANGED <<vars, phase, dgUnsafeGEPs, sources, source, visited, firstMemOps, branchTag>>

propagate ==
    /\ phase = "taint" /\ Worklist # <<>>
    /\ LET tainted == Spread(Head(Worklist), TaintedBy)
       IN  /\ Worklist' = propagateTaint(Tail(Worklist), tainted, ReachableGEPs)
           /\ ReachableGEPs' = ReachableGEPs \cup tainted
    /\ UNCHANGED <<vars, phase, dgUnsafeGEPs, sources, source, visited, firstMemOps, branchTag>>

\* Of the GEPs in the given set, the instruction before and the one behind.
Neighbours(geps) ==
    [b \in DOMAIN code |-> {k \in DOMAIN code[b] : (k > 1 /\ code[b][k - 1] \in geps)
                                                   \/ (k < Len(code[b]) /\ code[b][k + 1] \in geps)}]

RemovesAllUnreached ==
    /\ phase = "taint" /\ Worklist = <<>>
    /\ LET firstStageGEPs == Insts("gep") \ ReachableGEPs
       IN  code' = [b \in DOMAIN code |-> Without(code[b], Neighbours(firstStageGEPs)[b])]
    /\ branchTag' = branchTag \cup (ReachableGEPs \cap Insts("br"))
    /\ stage' = "ready" /\ phase' = "idle"
    /\ source' = None /\ visited' = {} /\ firstMemOps' = {} /\ ReachableGEPs' = {}
    /\ UNCHANGED <<prog, flagged, unsafeTag, dponlyTag, history, pending, reported, dgUnsafeGEPs, sources, Worklist>>

\* The pass ends with its local sets; dgUnsafeGEPs is kept for SecondStageKept.
removeFirstStage ==
    /\ phase = "taint" /\ Worklist = <<>>
    /\ LET firstStageGEPs == dgUnsafeGEPs \ ReachableGEPs
       IN  code' = [b \in DOMAIN code |-> Without(code[b], Neighbours(firstStageGEPs)[b])]
    /\ branchTag' = branchTag \cup (ReachableGEPs \cap Insts("br"))
    /\ stage' = "ready" /\ phase' = "idle"
    /\ source' = None /\ visited' = {} /\ firstMemOps' = {} /\ ReachableGEPs' = {}
    /\ UNCHANGED <<prog, flagged, unsafeTag, dponlyTag, history, pending, reported, dgUnsafeGEPs, sources, Worklist>>

TaintStep ==
    \/ startTaint
    \/ \E g \in sources : followSource(g)
    \/ firstOperations
    \/ formSources
    \/ propagate
    \/ removeFirstStage

Done == stage = "ready" /\ Len(history) = MaxRuns /\ UNCHANGED allVars

Next == (RunStep /\ UNCHANGED taintVars) \/ TaintStep \/ Done

\* Every loop of the two passes runs on.
Spec == TaintInit /\ [][Next]_allVars /\ WF_allVars(Next)

-----------------------------------------------------------------------------
(* Properties.                                                              *)

\* One step of the data without memory: a value is an operand, an argument, or the
\* result of a call, which may come from a function that is handed to the call.
Passes(v, w) ==
    \/ Kind(w) \notin {"call", "store", "ret", "load"} /\ w \in Users(v)
    \/ \E c \in Insts("call") : \E k \in DOMAIN Ops(c) :
          /\ Ops(c)[k] = v /\ prog.insts[c].callee \in DOMAIN prog.params
          /\ k \in DOMAIN prog.params[prog.insts[c].callee] /\ prog.params[prog.insts[c].callee][k] = w
    \/ Kind(w) = "call" /\ \E r \in Insts("ret") : v \in Range(Ops(r)) /\ prog.insts[r].fn \in {prog.insts[w].callee} \cup Range(Ops(w))

\* One step of the data: also through a load, or stored to an object of a known allocation.
Flows(v, w) ==
    \/ Passes(v, w)
    \/ Kind(w) = "load" /\ w \in Users(v)
    \/ \E s \in Insts("store") : Ops(s)[1] = v /\ \E o \in Objects(Ops(s)[2]) : prog.site[o] = w

\* What is in S or reached from there along the pairs of a relation on values.
Closure(S, relation) ==
    LET pairs == {e : e \in relation}
        reach[n \in 0 .. Cardinality(Values)] ==
            IF n = 0 THEN S
            ELSE LET r == reach[n - 1] IN r \cup {e[2] : e \in {x \in pairs : x[1] \in r}}
    IN  reach[Cardinality(Values)]

\* What is derived from the GEPs without memory, the GEPs that are stored through by
\* that, and what a load through that feeds.  ends cuts the data off.
Derived(geps) == Closure(geps, {e \in Values \X Values : Passes(e[1], e[2])})
Written(geps) == {g \in geps : \E v \in Derived({g}) : StoredThrough(v)}
Fed(geps, ends) ==
    LET loads == {l \in Insts("load") : Pointer(l) \in Derived(geps)}
    IN  Closure({w \in Values : \E l \in loads : Flows(l, w)}, {e \in Values \X Values : e[1] \notin ends /\ Flows(e[1], e[2])})

\* After TaintPass a GEP that is fed by a value loaded through a marked GEP, in
\* whatever function and over whatever calls, still has its markers; and a GEP
\* keeps them only for that reason, or because something is stored through a
\* pointer derived from it.  The order in which the GEPs are followed does not
\* matter to the first part although visited is shared by them.  The search does
\* not go on from a GEP that is in ReachableGEPs because of a store through it:
\* what is fed by such a GEP alone may lose its markers.
SecondStageKept ==
    (stage = "ready" /\ history # <<>> /\ option.taint) =>
        LET marked == GEPsBefore(MAGIC_ASM_END)
            stored == Written(dgUnsafeGEPs)
            fed == Fed(dgUnsafeGEPs, stored)
            fedAtAll == Fed(dgUnsafeGEPs, {})
        IN  /\ \A g \in dgUnsafeGEPs : g \in fed => g \in marked
            /\ \A g \in marked : g \in stored \/ g \in fedAtAll

\* Every run of the two passes comes to its end: the worklists of TaintPass drain
\* although values may flow in cycles.
RunsEnd == stage # "ready" ~> stage = "ready"

=============================================================================
