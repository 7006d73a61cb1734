----------------------------- MODULE OutOfWindow -----------------------------
(***************************************************************************)
(* OutOfWindowPass: which GEPs no branch can reach within the speculation  *)
(* window.  Every GEP starts as out of the window; explore() walks from    *)
(* the successors of each branch, through calls and returns, for at most   *)
(* Window instructions and erases the GEPs it meets.                       *)
(*                                                                         *)
(* A program is a function from the defined functions to their sequences   *)
(* of blocks; a block is [code, succ].  An instruction is a record with    *)
(* its kind: "op", "gep", "dbg" (a call of llvm.dbg), "call" and "invoke"  *)
(* with the called function fn (None if indirect), and the terminators     *)
(* "br", "cond", "switch" (the default first in succ), "ret" and "invoke"  *)
(* (normal, then unwind destination).  A position is <<function, block,    *)
(* index>>; the index after the last instruction is the end of the block.  *)
(***************************************************************************)
EXTENDS Integers, Sequences, SequencesExt, FiniteSets

CONSTANTS Main, None,
          Programs,
          Window      \* option -spec-window

ASSUME WindowAssumption == Window \in Nat /\ \A p \in Programs : Main \in DOMAIN p /\ None \notin DOMAIN p

VARIABLES
    prog,
    functionsWillBeAnalyzed, visitedFunctions,
    starts,      \* where analyzeFunction still calls explore for its function
    frames,      \* the activations of explore, innermost last
    step, callStack,
    visitedInstructions,
    OOWInstructions,
    explored, cut   \* history: the explorations made, and those skipped with another call stack

history == <<explored, cut>>
vars == <<prog, functionsWillBeAnalyzed, visitedFunctions, starts, frames, step, callStack,
          visitedInstructions, OOWInstructions, history>>

Defined == DOMAIN prog
Block(f, b) == prog[f][b]
Inst(p) == Block(p[1], p[2]).code[p[3]]
AtEnd(p) == p[3] > Len(Block(p[1], p[2]).code)
Terminator(p) == LET c == Block(p[1], p[2]).code IN c[Len(c)]
Begin(f, b) == <<f, b, 1>>
After(p) == [p EXCEPT ![3] = @ + 1]
Positions(P) == UNION {{<<f, b, k>> : k \in DOMAIN P[f][b].code} : <<f, b>> \in
                          UNION {{<<g, c>> : c \in DOMAIN P[g]} : g \in DOMAIN P}}
IsCall(i) == i.op \in {"call", "invoke"}
GEPs == {p \in Positions(prog) : Inst(p).op = "gep"}
CallSites(f) == {p \in Positions(prog) : IsCall(Inst(p)) /\ Inst(p).fn = f}

-----------------------------------------------------------------------------
(* The call graph.                                                          *)

Callees(f) == {g \in Defined : \E p \in CallSites(g) : p[1] = f}

\* dfs: the target is called, directly or through other defined functions.
isRecursive(f) ==
    LET calls[n \in Nat] == IF n = 0 THEN Callees(f) ELSE calls[n - 1] \cup UNION {Callees(g) : g \in calls[n - 1]}
    IN  f \in Defined /\ f \in calls[Cardinality(Defined)]

-----------------------------------------------------------------------------
(* analyzeFunction: the calls of recursive functions and of pointers count  *)
(* as branches; then the successors of the conditional branches and the     *)
(* cases of the switches.  Only after the latter is callStack cleared.      *)

InOrder(f) == FoldLeft(LAMBDA acc, b : acc \o [k \in DOMAIN Block(f, b).code |-> <<f, b, k>>],
                       <<>>, [b \in DOMAIN prog[f] |-> b])
BranchLike(p) == IsCall(Inst(p)) /\ (Inst(p).fn = None \/ isRecursive(Inst(p).fn))
Explored(blk) == LET t == blk.code[Len(blk.code)].op
                 IN  CASE t = "cond" -> blk.succ [] t = "switch" -> Tail(blk.succ) [] OTHER -> <<>>

StartsOf(f) ==
    IF f \notin Defined THEN <<>>
    ELSE LET calls == SelectSeq(InOrder(f), BranchLike)
             succs == FoldLeft(LAMBDA acc, blk : acc \o Explored(blk), <<>>, prog[f])
         IN  [n \in DOMAIN calls |-> [at |-> calls[n], clear |-> FALSE]]
             \o [n \in DOMAIN succs |-> [at |-> Begin(f, succs[n]), clear |-> TRUE]]

\* The calls of f whose callee is not yet visited, in order.
CalledBy(f, visited) ==
    IF f \notin Defined THEN <<>>
    ELSE LET calls == SelectSeq(InOrder(f), LAMBDA p : IsCall(Inst(p)) /\ Inst(p).fn \notin visited \cup {None})
         IN  [n \in DOMAIN calls |-> Inst(calls[n]).fn]

-----------------------------------------------------------------------------
(* explore.  An activation is at a position, or (at = None) waits for the   *)
(* activations it starts one after the other: alts are what is left of      *)
(* them, with the step and the call stack each begins with.                 *)

Running(p) == [at |-> p, alts |-> <<>>, clears |-> FALSE]
Waiting(alts, clears) == [at |-> None, alts |-> alts, clears |-> clears]
Alt(p, s, stk) == [at |-> p, step |-> s, stack |-> stk]

Top == frames[Len(frames)]
SetTop(fr) == [frames EXCEPT ![Len(frames)] = fr]
AtInst == frames # <<>> /\ Top.at # None /\ step < Window /\ ~AtEnd(Top.at)
AtBlockEnd == frames # <<>> /\ Top.at # None /\ step < Window /\ AtEnd(Top.at)

\* A configuration is a position with the calls to return from.
Conf(p, stk) == [at |-> p, stack |-> stk]

\* For the properties: an exploration that returns at once although no exploration
\* began here after as many steps with the same calls to return from.
record(p, s, stk) ==
    LET e == <<Conf(p, stk), s>>
    IN  IF <<p, s>> \in visitedInstructions
        THEN cut' = cut \cup ({e} \ explored) /\ UNCHANGED explored
        ELSE explored' = explored \cup {e} /\ UNCHANGED cut

\* A call of explore, which returns at once from where it has been at this step,
\* whatever is on callStack.
VisitedWithoutStep(fs, p, s) ==
    IF \E n \in 0..Window : <<p, n>> \in visitedInstructions
    THEN frames' = fs /\ UNCHANGED visitedInstructions
    ELSE frames' = Append(fs, Running(p)) /\ visitedInstructions' = visitedInstructions \cup {<<p, s>>}
explore(fs, p, s) ==
    IF <<p, s>> \in visitedInstructions
    THEN frames' = fs /\ UNCHANGED visitedInstructions
    ELSE frames' = Append(fs, Running(p)) /\ visitedInstructions' = visitedInstructions \cup {<<p, s>>}

Init ==
    /\ prog \in Programs
    /\ functionsWillBeAnalyzed = <<Main>> /\ visitedFunctions = {}
    /\ starts = <<>> /\ frames = <<>> /\ step = 0 /\ callStack = <<>>
    /\ visitedInstructions = {} /\ explored = {} /\ cut = {}
    /\ OOWInstructions = GEPs

Idle == starts = <<>> /\ frames = <<>>

analyzeFunction ==
    /\ Idle /\ functionsWillBeAnalyzed # <<>>
    /\ LET f == Head(functionsWillBeAnalyzed) IN
       /\ visitedFunctions' = visitedFunctions \cup {f}
       /\ starts' = StartsOf(f)
       /\ functionsWillBeAnalyzed' = Tail(functionsWillBeAnalyzed) \o CalledBy(f, visitedFunctions')
    /\ UNCHANGED <<prog, frames, step, callStack, visitedInstructions, OOWInstructions, history>>

\* The bottom frame waits for one exploration.
startExploration ==
    /\ starts # <<>> /\ frames = <<>>
    /\ step' = 0
    /\ explore(<<Waiting(<<>>, Head(starts).clear)>>, Head(starts).at, 0)
    /\ record(Head(starts).at, 0, callStack)
    /\ starts' = Tail(starts)
    /\ UNCHANGED <<prog, functionsWillBeAnalyzed, visitedFunctions, callStack, OOWInstructions>>

\* A waiting activation goes on with its next alternative, or returns.
KeepsAlternative ==
    /\ frames # <<>> /\ Top.at = None
    /\ IF Top.alts = <<>>
       THEN /\ frames' = Front(frames)
            /\ callStack' = IF Top.clears THEN <<>> ELSE callStack
            /\ UNCHANGED <<step, visitedInstructions, history>>
       ELSE LET a == Head(Top.alts) IN
            /\ step' = a.step /\ callStack' = a.stack
            /\ explore(frames, a.at, a.step) /\ record(a.at, a.step, a.stack)
    /\ UNCHANGED <<prog, functionsWillBeAnalyzed, visitedFunctions, starts, OOWInstructions>>
nextAlternative ==
    /\ frames # <<>> /\ Top.at = None
    /\ IF Top.alts = <<>>
       THEN /\ frames' = Front(frames)
            /\ callStack' = IF Top.clears THEN <<>> ELSE callStack
            /\ UNCHANGED <<step, visitedInstructions, history>>
       ELSE LET a == Head(Top.alts) IN
            /\ step' = a.step /\ callStack' = a.stack
            /\ explore(SetTop([Top EXCEPT !.alts = Tail(@)]), a.at, a.step) /\ record(a.at, a.step, a.stack)
    /\ UNCHANGED <<prog, functionsWillBeAnalyzed, visitedFunctions, starts, OOWInstructions>>

Unchanged == UNCHANGED <<prog, functionsWillBeAnalyzed, visitedFunctions, starts, visitedInstructions, history>>
Return == frames' = Front(frames) /\ UNCHANGED <<step, callStack, OOWInstructions>> /\ Unchanged
Goto(p) == frames' = SetTop(Running(p))
Branch(alts, clears) == frames' = SetTop(Waiting(alts, clears)) /\ UNCHANGED <<step, callStack, OOWInstructions>> /\ Unchanged

endOfWindow == frames # <<>> /\ Top.at # None /\ step >= Window /\ Return

enterCall ==
    /\ AtInst /\ IsCall(Inst(Top.at))
    /\ Inst(Top.at).fn \in Defined /\ ~isRecursive(Inst(Top.at).fn)
    /\ Goto(Begin(Inst(Top.at).fn, 1))
    /\ step' = step + 1 /\ callStack' = Append(callStack, Top.at)
    /\ UNCHANGED OOWInstructions /\ Unchanged

skipDebug ==
    /\ AtInst /\ Inst(Top.at).op = "dbg"
    /\ Goto(After(Top.at)) /\ UNCHANGED <<step, callStack, OOWInstructions>> /\ Unchanged

visit ==
    /\ AtInst /\ Inst(Top.at).op # "dbg"
    /\ IsCall(Inst(Top.at)) => Inst(Top.at).fn \notin Defined \/ isRecursive(Inst(Top.at).fn)
    /\ OOWInstructions' = OOWInstructions \ {Top.at}
    /\ Goto(After(Top.at)) /\ step' = step + 1
    /\ UNCHANGED callStack /\ Unchanged

\* The end of a block.
Dest(p, n) == Begin(p[1], Block(p[1], p[2]).succ[n])
InvokeAlts(p, normal, s, stk) ==
    <<Alt(Dest(p, 1), normal, stk)>> \o (IF Dest(p, 2) # Dest(p, 1) THEN <<Alt(Dest(p, 2), s, stk)>> ELSE <<>>)
DeclaredInvoke(p) == Terminator(p).op = "invoke" /\ Terminator(p).fn \notin Defined
FunctionEnd(p) == Terminator(p).op = "ret" \/ (Terminator(p).op = "invoke" /\ ~DeclaredInvoke(p))

stopAtBranch == AtBlockEnd /\ Terminator(Top.at).op \in {"switch", "cond"} /\ Return
nextBlock ==
    /\ AtBlockEnd /\ Terminator(Top.at).op = "br"
    /\ Goto(Dest(Top.at, 1)) /\ UNCHANGED <<step, callStack, OOWInstructions>> /\ Unchanged
declaredInvoke == AtBlockEnd /\ DeclaredInvoke(Top.at) /\ Branch(InvokeAlts(Top.at, step + 1, step, callStack), FALSE)

\* Without a call stack the walk goes on behind every call of the function, in
\* the order of the addresses of the calls.
CallersFromZero(p) ==
    IF Inst(p).op = "call" THEN <<Alt(After(p), 0, <<>>)>> ELSE InvokeAlts(p, 0, 0, <<>>)
CallSiteAlts(p) ==
    IF Inst(p).op = "call" THEN <<Alt(After(p), step, <<>>)>> ELSE InvokeAlts(p, step, step, <<>>)
exploreCallers ==
    /\ AtBlockEnd /\ FunctionEnd(Top.at) /\ callStack = <<>>
    /\ LET f == Top.at[1]
           sites == IF isRecursive(f) THEN {} ELSE {p \in CallSites(f) : ~isRecursive(p[1])}
       IN  IF sites = {} THEN Return
           ELSE \E order \in SetToSeqs(sites) :
                  Branch(FoldLeft(LAMBDA acc, p : acc \o CallSiteAlts(p), <<>>, order), TRUE)

returnToCall ==
    /\ AtBlockEnd /\ FunctionEnd(Top.at) /\ callStack # <<>> /\ Inst(Last(callStack)).op = "call"
    /\ Goto(After(Last(callStack))) /\ callStack' = Front(callStack)
    /\ UNCHANGED <<step, OOWInstructions>> /\ Unchanged
returnToInvoke ==
    /\ AtBlockEnd /\ FunctionEnd(Top.at) /\ callStack # <<>> /\ Inst(Last(callStack)).op = "invoke"
    /\ Branch(InvokeAlts(Last(callStack), step, step, Front(callStack)), FALSE)

Finished == Idle /\ functionsWillBeAnalyzed = <<>>
Done == Finished /\ UNCHANGED vars

Next == \/ analyzeFunction \/ startExploration \/ nextAlternative \/ endOfWindow
        \/ enterCall \/ skipDebug \/ visit
        \/ stopAtBranch \/ nextBlock \/ declaredInvoke
        \/ exploreCallers \/ returnToCall \/ returnToInvoke \/ Done

\* One thread runs the pass to its end.
Spec == Init /\ [][Next]_vars /\ WF_vars(Next)

-----------------------------------------------------------------------------
(* What the pass is to find, stated on executions: all the points that an   *)
(* execution may be at less than Window instructions behind a branch, or a   *)
(* call that counts as one.  The stack of a configuration holds the calls   *)
(* entered since the branch.  Calls of llvm.dbg, never two in a row here,   *)
(* are no instructions.                                                     *)

Real(p) == [p EXCEPT ![3] = CHOOSE k \in p[3]..(p[3] + 1) : Inst([p EXCEPT ![3] = k]).op # "dbg"]
BranchesAt(f, b) == IF Terminator(Begin(f, b)).op \in {"cond", "switch"} THEN {Real(Begin(f, s)) : s \in Range(Block(f, b).succ)} ELSE {}
Branches(f) == UNION {BranchesAt(f, b) : b \in DOMAIN prog[f]} \cup {p \in Range(InOrder(f)) : BranchLike(p)}
Behind(p, stk) == IF Inst(p).op = "invoke" THEN {Conf(Real(Dest(p, n)), stk) : n \in 1..2} ELSE {Conf(Real(After(p)), stk)}
Successors(c) ==
    LET i == Inst(c.at) IN
    CASE IsCall(i) /\ i.fn \in Defined -> {Conf(Real(Begin(i.fn, 1)), Append(c.stack, c.at))}
      [] IsCall(i) /\ i.fn \notin Defined -> Behind(c.at, c.stack)
      [] i.op = "ret" -> IF c.stack # <<>> THEN Behind(Last(c.stack), Front(c.stack))
                         ELSE UNION {Behind(p, <<>>) : p \in CallSites(c.at[1])}
      [] i.op \in {"br", "cond", "switch"} -> {Conf(Real(Begin(c.at[1], b)), c.stack) : b \in Range(Block(c.at[1], c.at[2]).succ)}
      [] OTHER -> {Conf(Real(After(c.at)), c.stack)}
\* The executions that do not come to where an exploration was skipped; the walk may
\* count more steps than the execution takes (declaredInvoke).
Within(F, skipped) ==
    LET goesOn(c, n) == \A m \in n..Window : <<c, m>> \notin skipped
        reach[n \in Nat] ==
            IF n = 0 THEN {Conf(p, <<>>) : p \in UNION {Branches(f) : f \in F}}
            ELSE {c \in UNION {Successors(b) : b \in reach[n - 1]} : goesOn(c, n)}
    IN  {c.at : c \in UNION {reach[n] : n \in 0..(Window - 1)}}

\* "Collecting all memory accesses that are out of the window": when the pass is
\* over, a GEP that an execution can reach within the window of a branch has been
\* erased; what is left is never protected by the value range analysis.  Excepted is
\* what an execution reaches only by returning from where the walk was skipped because
\* it had been there after as many steps with other calls to return from.
InWindowErased == Finished => OOWInstructions \cap Within(visitedFunctions \cap Defined, cut) = {}

\* Nothing else is erased: the walk counts the instructions as an execution does,
\* also through calls, returns to unknown callers and explorations cut short.
OnlyInWindowErased == Finished => GEPs \ OOWInstructions \subseteq Within(visitedFunctions \cap Defined, {})

\* The worklist of functions and the explorations end on every program, loops included.
Terminates == <>Finished
=============================================================================
