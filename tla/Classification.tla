--------------------------- MODULE Classification ---------------------------
(***************************************************************************)
(* The CCured-style classification of UnifiedMemSafePass (runOnModule,     *)
(* steps 1-5): register the globals, process every instruction of every    *)
(* analysed function once and in order, then reprocess the aliases of the  *)
(* users of each global whose class changed.                               *)
(*                                                                         *)
(* A program is [code, sizeOf, alias].  code is the instructions of the    *)
(* functions that collectFunctionsToAnalyze keeps, in module order; each   *)
(* instruction is a record with the fields its handler reads:              *)
(*   op, self (the value it defines), fn (its function),                   *)
(*   uses (the operands that are globals, in order), gepUses (globals      *)
(*   inside a constant GEP operand), and the operands and type facts of    *)
(*   its kind; rets of a call lists the values that the rewritten callee   *)
(*   <callee>_UnifiedMemSafe returns, one for each ReturnInst.             *)
(* sizeOf[x] is what getSizeForValue computes for x; alias is the          *)
(* DATA_ALIAS relation of the dependence graph over positions of code.     *)
(***************************************************************************)
EXTENDS AnalysisState, Sequences, FiniteSets

CONSTANTS Global,      \* the GlobalVariables of the module
          Fn,          \* function names
          None,        \* "no such value"
          Programs     \* the programs considered

Ops == {"alloca", "call", "store", "load", "gep", "cast", "other"}

ASSUME GlobalAssumption == Global \subseteq Value \ {Null}
ASSUME NoneAssumption == None \notin Value
ASSUME ProgramAssumption ==
    \A p \in Programs :
        /\ DOMAIN p.sizeOf = Value /\ \A x \in Value : p.sizeOf[x] \in Size
        /\ p.alias \subseteq (1..Len(p.code)) \X (1..Len(p.code))
        /\ Len(p.code) \in Nat
        /\ \A k \in 1..Len(p.code) :
             LET i == p.code[k] IN
             /\ i.op \in Ops /\ i.self \in Value \ {Null} /\ i.fn \in Fn
             /\ i.uses \in Seq(Global) /\ i.gepUses \subseteq Global
             /\ i.op = "alloca" => i.size \in Size
             /\ i.op = "call" => i.size \in Size /\ i.arg \in Value /\ i.rets \in Seq(Value)
             /\ i.op = "store" => i.val \in Value /\ i.ptr \in Value
             /\ i.op = "load" => i.ptr \in Value
             /\ i.op = "gep" => i.ptr \in Value /\ i.fallback \in Size /\ i.offset \in Size
             /\ i.op = "cast" => i.opd \in Value

VARIABLES prog,       \* the module being analysed
          Variables,  \* AnalysisState::Variables
          dependentFunctions,
          phase,      \* the step of runOnModule
          pc,         \* the next instruction of analyzeAllFunctions
          toVisit,    \* classificationPropagation: globals the iterator has still to reach
          visiting,   \*   the global whose dependent functions are being rescanned, or None
          rescan,     \*   <<user, alias, operand>> still to be reprocessed for it
          seen        \* history: the class of each global when its flag was last clear

vars == <<prog, Variables, dependentFunctions, phase, pc, toVisit, visiting, rescan, seen>>

code == prog.code
sizeOf == prog.sizeOf
Known(V, x) == GetPointerVariableInfo(V, x).reg

----------------------------------------------------------------------------
(* The handlers of processInstruction, as functions of the table.          *)

\* Pointer allocas are only registered; the others get their byte size (10000 when it is not constant).
processAllocaInst(V, i) ==
    IF i.ofPtr THEN RegisterVariable(V, i.self) ELSE SetSizeForPointerVariable(V, i.self, i.size)

\* The instruction that defines x, as a position of code; 0 when there is none.
DefOf(x) == IF \E k \in 1..Len(code) : code[k].self = x
            THEN CHOOSE k \in 1..Len(code) : code[k].self = x ELSE 0

\* The operand that propagateFreedSize moves to from x: through loads and bitcasts.
ChainNext(x) == LET k == DefOf(x) IN
    IF k = 0 THEN None
    ELSE IF code[k].op = "load" THEN code[k].ptr
    ELSE IF code[k].op = "cast" /\ code[k].bitcast THEN code[k].opd
    ELSE None

\* free(x) clears the size of x and of every value the backward walk reaches.
Chain[n \in Nat, x \in Value \cup {None}] ==
    IF x = None THEN {} ELSE IF n = 0 THEN {x} ELSE {x} \cup Chain[n - 1, ChainNext(x)]
propagateFreedSize(x) == Chain[Len(code), x]

\* mutant: free erases the entries
ErasesEntries(V, S) ==
    [x \in Value |-> IF x \in S THEN [V[x] EXCEPT !.reg = FALSE, !.size = Const(0)] ELSE V[x]]

ClearSizes(V, S) ==
    [x \in Value |-> IF x \in S THEN [V[x] EXCEPT !.reg = TRUE, !.size = Const(0)] ELSE V[x]]

\* Each returned value of the rewritten callee in turn gives the call its class.
takeClass(V, x, from) ==
    IF Known(V, from) THEN ClassifyPointerVariable(V, x, GetPointerVariableInfo(V, from).cls) ELSE V
updateRewrittenFunctionCall(V, i) ==
    LET after[n \in 0..Len(i.rets)] == IF n = 0 THEN V ELSE takeClass(after[n - 1], i.self, i.rets[n])
    IN  after[Len(i.rets)]

\* kind: "alloc" (malloc, realloc: size is the argument), "free", "other" or "indirect".
processCallInst(V, i) ==
    CASE i.kind = "indirect" -> V
      [] i.kind = "alloc" -> updateRewrittenFunctionCall(SetSizeForPointerVariable(V, i.self, i.size), i)
      [] i.kind = "free" -> updateRewrittenFunctionCall(ClearSizes(V, propagateFreedSize(i.arg)), i)
      [] OTHER -> updateRewrittenFunctionCall(
                     IF i.retPtr THEN SetSizeForPointerVariable(V, i.self, sizeOf[i.self]) ELSE V, i)

\* The entry for x, made with getSizeForValue when it is missing.
Ensure(V, x) == IF Known(V, x) THEN V ELSE SetSizeForPointerVariable(V, x, sizeOf[x])
EnsureInst(V, x) == IF Known(V, x) THEN V
                    ELSE SetInstantiatedExplicitSizeVariable(SetSizeForPointerVariable(V, x, sizeOf[x]), x)

\* Class and size of `from' flow into `to'.
Flow(V, from, to) ==
    LET info == GetPointerVariableInfo(V, from)
    IN  SetSizeForPointerVariable(ClassifyPointerVariable(V, to, info.cls), to, info.size)

\* mutant: a store hands on the size but not the class
StoreForgetsClass(V, i) ==
    IF i.ptrVal THEN SetSizeForPointerVariable(Ensure(V, i.val), i.ptr, GetPointerVariableInfo(Ensure(V, i.val), i.val).size)
    ELSE EnsureInst(V, i.ptr)

processStoreInst(V, i) ==
    IF i.ptrVal THEN Flow(Ensure(V, i.val), i.val, i.ptr) ELSE EnsureInst(V, i.ptr)

\* An unregistered, non-constant address gives a pointer load no entry at all.
processLoadInst(V, i) ==
    IF ~i.ptrVal THEN EnsureInst(V, i.ptr)
    ELSE LET W == IF i.constPtr THEN Ensure(V, i.ptr) ELSE V
         IN  IF Known(W, i.ptr) THEN Flow(W, i.ptr, i.self) ELSE W

\* mutant: only the result of an indexing is classified
GEPForgetsBase(V, i) ==
    IF i.zero THEN RegisterVariable(V, i.self) ELSE ClassifyPointerVariable(V, i.self, Seq_)

\* A pointer indexed off its start is Seq, and so is the result; the size shrinks by
\* the offset, after a recorded size of zero has been replaced by the type's size.
processGetElementPtrInst(V, i) ==
    LET C == IF i.zero THEN V
             ELSE ClassifyPointerVariable(ClassifyPointerVariable(V, i.ptr, Seq_), i.self, Seq_)
        R == RegisterVariable(C, i.self)
        base == GetPointerVariableInfo(R, i.ptr)
        full == IF base.size = Const(0) THEN i.fallback ELSE base.size
        F == IF base.size = Const(0) THEN SetSizeForPointerVariable(R, i.ptr, full) ELSE R
        rest == IF ~i.zero /\ full.const /\ i.offset.const THEN Const(full.n - i.offset.n) ELSE full
    IN  IF i.elemPtr \/ ~base.reg THEN R ELSE SetSizeForPointerVariable(F, i.self, rest)

\* A cast of interest from a pointer: the operand's own kind decides its class.
processOperand(V, i) ==
    LET k == DefOf(i.opd)
        kind == IF k = 0 THEN "other" ELSE code[k].op
        sized == IF kind = "call" /\ i.bitcast /\ GetPointerVariableInfo(V, i.opd).size = Const(1)
                 THEN SetSizeForPointerVariable(V, i.opd, sizeOf[i.self]) ELSE V
        opdClass == IF kind = "gep" THEN Seq_ ELSE Dyn
    IN  IF kind \in {"load", "gep", "cast", "call"}
        THEN ClassifyPointerVariable(ClassifyPointerVariable(sized, i.opd, opdClass), i.self, Dyn)
        ELSE V

\* Casts from integers change nothing: isCastOfInterest rejects integer pairs, and
\* classifyExtOrTruncInst only classifies integer pairs.
processCastInst(V, i) ==
    LET W == IF i.srcPtr THEN Ensure(V, i.opd) ELSE V
        P == processOperand(W, i)
    IN  IF Known(W, i.opd) /\ i.interest /\ i.srcPtr
        THEN SetSizeForPointerVariable(P, i.self, GetPointerVariableInfo(P, i.opd).size)
        ELSE W

processInstruction(V, i) ==
    CASE i.op = "alloca" -> processAllocaInst(V, i)
      [] i.op = "call" -> processCallInst(V, i)
      [] i.op = "store" -> processStoreInst(V, i)
      [] i.op = "load" -> processLoadInst(V, i)
      [] i.op = "gep" -> processGetElementPtrInst(V, i)
      [] i.op = "cast" -> processCastInst(V, i)
      [] OTHER -> V

UsesOf(i, g) == {n \in DOMAIN i.uses : i.uses[n] = g}
Mentions(i, g) == g \in i.gepUses \/ UsesOf(i, g) # {}

\* mutant: the last function that mentions a global replaces the others
RemembersLast(dep, i) == [g \in Global |-> IF Mentions(i, g) THEN {i.fn} ELSE dep[g]]

\* Every function that mentions a global is remembered with it.
processGlobalVariables(dep, i) ==
    [g \in Global |-> IF Mentions(i, g) THEN dep[g] \cup {i.fn} ELSE dep[g]]

\* A pointer load from null reads the uninitialised hasExplicitSizeVariable of the
\* temporary info; when it happens to hold, null gets a table entry of arbitrary size.
Outcomes(V, i) ==
    LET W == processInstruction(V, i)
        G == SetInstantiatedExplicitSizeVariable(SetSizeForPointerVariable(W, Null, NonConst), Null)
    IN  {W} \cup (IF i.op = "load" /\ i.ptrVal /\ i.ptr = Null THEN {G} ELSE {})

----------------------------------------------------------------------------
(* runOnModule.                                                            *)

Init ==
    /\ prog \in Programs
    /\ Variables = [x \in Value |-> Absent]
    /\ dependentFunctions = [g \in Global |-> {}]
    /\ phase = "globals" /\ pc = 1
    /\ toVisit = {} /\ visiting = None /\ rescan = {}
    /\ seen = [g \in Global |-> Safe]

registerGlobals ==
    /\ phase = "globals"
    /\ Variables' = [x \in Value |-> IF x \in Global
                        THEN [Absent EXCEPT !.reg = TRUE, !.isGlobal = TRUE, !.size = sizeOf[x]]
                        ELSE Variables[x]]
    /\ phase' = "analyze"
    /\ UNCHANGED <<prog, dependentFunctions, pc, toVisit, visiting, rescan, seen>>

\* analyzeAllFunctions: the next instruction, in order.
analyzeInstruction ==
    /\ phase = "analyze" /\ pc <= Len(code)
    /\ Variables' \in Outcomes(Variables, code[pc])
    /\ dependentFunctions' = processGlobalVariables(dependentFunctions, code[pc])
    /\ pc' = pc + 1
    /\ UNCHANGED <<prog, phase, toVisit, visiting, rescan, seen>>

\* classificationPropagation begins; of the entries of the table, the loop only acts
\* on those of globals.
startPropagation ==
    /\ phase = "analyze" /\ pc > Len(code)
    /\ phase' = "propagate" /\ toVisit' = Global
    /\ UNCHANGED <<prog, Variables, dependentFunctions, pc, visiting, rescan, seen>>

\* Users of g in its dependent functions, with their aliases, once for each operand that
\* is g (the instructions that mention g only inside a constant GEP do not match).
RescanOf(g) ==
    UNION {{<<ua[1], ua[2], n>> : n \in UsesOf(code[ua[1]], g)} :
              ua \in {p \in prog.alias : code[p[1]].fn \in dependentFunctions[g]}}

\* mutant: the loop runs until no flag is up, but does not clear the flag
VisitKeepsFlag(g) ==
    /\ phase = "propagate" /\ visiting = None /\ g \in toVisit
    /\ IF Variables[g].isGlobal /\ Variables[g].changed
       THEN visiting' = g /\ rescan' = RescanOf(g) /\ toVisit' = toVisit
       ELSE toVisit' = toVisit \ {g} /\ UNCHANGED <<visiting, rescan>>
    /\ UNCHANGED <<prog, Variables, dependentFunctions, phase, pc, seen>>

\* The iterator reaches a global, in the arbitrary order of the unordered_map.
visitGlobal(g) ==
    /\ phase = "propagate" /\ visiting = None /\ g \in toVisit
    /\ toVisit' = toVisit \ {g}
    /\ IF Variables[g].isGlobal /\ Variables[g].changed
       THEN /\ Variables' = [Variables EXCEPT ![g].changed = FALSE]
            /\ seen' = [seen EXCEPT ![g] = Variables[g].cls]
            /\ visiting' = g /\ rescan' = RescanOf(g)
       ELSE UNCHANGED <<Variables, seen, visiting, rescan>>
    /\ UNCHANGED <<prog, dependentFunctions, phase, pc>>

\* A rescan that inserts a key may rehash the map under the iterator: what the iterator
\* still reaches is then arbitrary.
reprocessAlias(r) ==
    /\ visiting # None /\ r \in rescan
    /\ Variables' \in Outcomes(Variables, code[r[2]])
    /\ dependentFunctions' = processGlobalVariables(dependentFunctions, code[r[2]])
    /\ rescan' = rescan \ {r}
    /\ IF \A x \in Value : Variables'[x].reg = Variables[x].reg
       THEN toVisit' = toVisit ELSE toVisit' \in SUBSET Global
    /\ UNCHANGED <<prog, phase, pc, visiting, seen>>

\* mutant: all flags are cleared together after a rescan
EndVisitClearsFlags ==
    /\ visiting # None /\ rescan = {}
    /\ visiting' = None
    /\ Variables' = [x \in Value |-> [Variables[x] EXCEPT !.changed = FALSE]]
    /\ UNCHANGED <<prog, dependentFunctions, phase, pc, toVisit, rescan, seen>>

endVisit ==
    /\ visiting # None /\ rescan = {}
    /\ visiting' = None
    /\ UNCHANGED <<prog, Variables, dependentFunctions, phase, pc, toVisit, rescan, seen>>

endPropagation ==
    /\ phase = "propagate" /\ visiting = None /\ toVisit = {}
    /\ phase' = "done"
    /\ UNCHANGED <<prog, Variables, dependentFunctions, pc, toVisit, visiting, rescan, seen>>

\* The results stay for the heap and stack analyses.
Done == phase = "done" /\ UNCHANGED vars

Next ==
    \/ registerGlobals \/ analyzeInstruction \/ startPropagation
    \/ \E g \in Global : visitGlobal(g)
    \/ \E r \in rescan : reprocessAlias(r)
    \/ endVisit \/ endPropagation \/ Done

\* The pass is one thread that runs to its end.
Spec == Init /\ [][Next]_vars /\ WF_vars(Next)

----------------------------------------------------------------------------
(* Properties.                                                             *)

\* The state of the pass has its types.  In particular no entry of the table is of class
\* Unknown: null's temporary info has that class, and a store or load of null, or a
\* callee that returns null, hands it to ClassifyPointerVariable.
TypeOK ==
    /\ Variables \in [Value -> VariableInfo] /\ \A x \in Value : Variables[x].cls # Unknown
    /\ dependentFunctions \in [Global -> SUBSET Fn]
    /\ phase \in {"globals", "analyze", "propagate", "done"}
    /\ pc \in Nat \ {0}
    /\ toVisit \subseteq Global /\ visiting \in Global \cup {None}
    /\ \A r \in rescan : <<r[1], r[2]>> \in prog.alias
    /\ seen \in [Global -> VariableStates]

Unsafe(V) == {x \in Value : V[x].cls \in {Seq_, Dyn}}

\* Every change of a global's class after its flag was last cleared is announced by
\* didClassificationChange: no update is lost between resetting the flag and the rescan.
NoLostClassChange ==
    \A g \in Global : Variables[g].cls # seen[g] => Variables[g].changed

\* Once a GEP with a non-zero index, or a pointer cast of interest from a computed
\* pointer, has been processed, its base and its result stay unsafe whatever follows,
\* the Dyn-to-Seq case included.
ProcessedStayUnsafe ==
    \A k \in 1..Len(code) : (phase # "globals" /\ k < pc) =>
        /\ code[k].op = "gep" /\ ~code[k].zero => {code[k].ptr, code[k].self} \subseteq Unsafe(Variables)
        /\ (code[k].op = "cast" /\ code[k].interest /\ code[k].srcPtr
            /\ DefOf(code[k].opd) # 0 /\ code[DefOf(code[k].opd)].op \in {"load", "gep", "cast", "call"})
              => {code[k].opd, code[k].self} \subseteq Unsafe(Variables)

\* The instruction hands the class of g to another pointer: to the location it is
\* stored to, or to the result of a load.
HandsOn(i, g) == \/ i.op = "store" /\ i.ptrVal /\ i.val = g
                 \/ i.op = "load" /\ i.ptrVal /\ i.ptr = g
Taker(i) == IF i.op = "store" THEN i.ptr ELSE i.self

\* classificationPropagation catches up: at the end, when a global is unsafe and its flag
\* is down, the instructions that hand on its class and that alias one of its users
\* have handed it on, those processed before it became unsafe included, whatever the
\* functions they are in.  A flag that a rescan raised again stays up: the loop runs
\* once, and nothing is promised for that global.
RescanCatchesUp ==
    phase = "done" =>
        \A g \in Global \cap Unsafe(Variables), ua \in prog.alias :
            ~Variables[g].changed /\ UsesOf(code[ua[1]], g) # {} /\ HandsOn(code[ua[2]], g)
                => Taker(code[ua[2]]) \in Unsafe(Variables)

\* No step takes a registered pointer out of the table or makes an unsafe one Safe again;
\* the only class that is ever lowered is Dyn, to Seq.
ClassesRise ==
    [][\A x \in Value :
         /\ Variables[x].reg => Variables'[x].reg
         /\ Variables'[x].cls < Variables[x].cls => Variables[x].cls = Dyn /\ Variables'[x].cls = Seq_]_vars

\* Unsafety travels through memory: a pointer indexed before it is stored makes the
\* location unsafe, and every later pointer load from that location.
UnsafetyFlows ==
    phase # "globals" =>
    \A i, j \in 1..(pc - 1) :
        (/\ i < j /\ code[i].op = "gep" /\ ~code[i].zero
         /\ code[j].op = "store" /\ code[j].ptrVal /\ code[j].val \in {code[i].self, code[i].ptr} \ {Null})
        => /\ code[j].ptr \in Unsafe(Variables)
           /\ \A m \in (j + 1)..(pc - 1) :
                code[m].op = "load" /\ code[m].ptrVal /\ code[m].ptr = code[j].ptr /\ code[m].ptr # Null
                    => code[m].self \in Unsafe(Variables)

\* The pass ends: single-pass propagation terminates although classes may alternate
\* between Seq and Dyn.
Terminates == <>(phase = "done")
=============================================================================
