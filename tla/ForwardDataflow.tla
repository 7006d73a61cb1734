--------------------------- MODULE ForwardDataflow ---------------------------
(***************************************************************************)
(* ForwardDataflowAnalysis of DataflowAnalysis.h with the range domain: a  *)
(* worklist of blocks per (context, function), a recursive analysis of the *)
(* callees, and a worklist of contexts.  A context is the call site a      *)
(* function is analysed for (ContextSize is 1), Root for an entry point.   *)
(*                                                                         *)
(* The recursion of computeForwardDataflow is `stack', one frame for each  *)
(* activation; `active' is the set of pairs on it.  A call site is named   *)
(* by the key of its result, a function's summary entry by its own key.    *)
(***************************************************************************)
EXTENDS RangeTransfer, Sequences

CONSTANTS
    Fn, Root, None,
    Programs,     \* records [main, args, blocks, usePC]: see ProgramAssumption
    MaxVisits     \* 100: how often a block is queued again

\* Blocks are numbered in reverse post-order.  A block has the instructions
\* before its terminator, the terminator's key, the successors and the
\* predecessors in the order LLVM lists them, the returned key or None, and
\* the guard of its single predecessor's branch (a sequence of at most one).
\* usePC is the option -use-pc.
Listed(seq) == seq \in Seq(Range(seq))
ASSUME ProgramAssumption ==
    /\ Fn \subseteq Key /\ None \notin Key \cup Nat /\ MaxVisits \in Nat
    /\ \A p \in Programs :
         /\ p.main \in Fn /\ p.usePC \in BOOLEAN
         /\ \A f \in Fn :
              /\ Listed(p.args[f]) /\ Listed(p.blocks[f]) /\ p.blocks[f] # <<>>
              /\ \A b \in DOMAIN p.blocks[f] :
                   LET block == p.blocks[f][b]
                   IN  /\ block.term \in Key /\ Listed(block.code) /\ Listed(block.succ)
                       /\ \A n \in DOMAIN block.code : block.code[n].op = "phi" => Listed(block.code[n].incoming)
                       /\ Range(block.succ) \cup Range(block.pred) \subseteq DOMAIN p.blocks[f]

VARIABLES
    prog,
    res,          \* allResults: per (context, function), see Fresh
    stack,        \* the activations of computeForwardDataflow, innermost last
    contextWork,  \* the worklist of contexts
    callers       \* who has used the results of a (context, function)

vars == <<prog, res, stack, contextWork, callers>>

Blocks(f) == DOMAIN prog.blocks[f]
Block(f, b) == prog.blocks[f][b]
Context == {Root} \cup Key
ContextFunction == Context \X Fn

\* The results of a function: the states before and after each block, the
\* ranges recorded for the indices of GEPs, and the summary.
Fresh(f) == [entry |-> [b \in Blocks(f) |-> Empty], exit |-> [b \in Blocks(f) |-> Empty],
             at |-> Empty, summary |-> Empty]

\* DenseMaps are filled on demand.
Results(fc) == IF fc \in DOMAIN res THEN res[fc] ELSE Fresh(fc[2])
SetResults(fc, r) == [x \in DOMAIN res \cup {fc} |-> IF x = fc THEN r ELSE res[x]]

Top == stack[Len(stack)]
Pop(stk) == SubSeq(stk, 1, Len(stk) - 1)
SetTop(fr) == [stack EXCEPT ![Len(stack)] = fr]
active == {stack[n].fc : n \in DOMAIN stack}

-----------------------------------------------------------------------------
(* Merging.                                                                 *)

\* mergeInState, after two mutants; `balanced' makes what only one side knows unknown.
MergeKeepsFirst(dest, src, balanced) ==
    [k \in Key |-> CASE ~Has(src, k) -> IF balanced /\ Has(dest, k) THEN Unknown ELSE dest[k]
                     [] Has(src, k) /\ Has(dest, k) -> dest[k]
                     [] OTHER -> IF balanced THEN Unknown ELSE src[k]]
MergeOfRanges(dest, src, balanced) ==
    [k \in Key |-> CASE ~Has(src, k) -> dest[k]
                     [] Has(src, k) /\ Has(dest, k) -> MeetPair(dest[k], src[k])
                     [] OTHER -> src[k]]
mergeInState(dest, src, balanced) ==
    [k \in Key |-> CASE ~Has(src, k) -> IF balanced /\ Has(dest, k) THEN Unknown ELSE dest[k]
                     [] Has(src, k) /\ Has(dest, k) -> Meet(dest[k], src[k])
                     [] OTHER -> IF balanced THEN Unknown ELSE src[k]]

\* mergeStateFromPredecessors, into the old entry state of the block.
mergeStateFromPredecessors(r, f, b) ==
    LET pred == Block(f, b).pred
        acc[n \in 0..Len(pred)] ==
            IF n = 0 THEN Empty ELSE mergeInState(acc[n - 1], r.exit[pred[n]], n > 1)
    IN  mergeInState(r.entry[b], acc[Len(pred)], FALSE)

\* constrainValuesByCondition on the block's guard.
GuardRange(g) == getRangeForConditionalBranch(g.pred, ConstVal[g.c], Width[g.c], g.taken, g.first)
GuardedState(s, f, b) ==
    LET guard == Block(f, b).guard
    IN  IF ~prog.usePC \/ guard = <<>> THEN s
        ELSE LET g == guard[1]
                 t == Constrain(s, g.var, GuardRange(g))
             IN  IF g.ptr \in Alloca THEN Constrain(t, g.ptr, GuardRange(g)) ELSE t

\* The state a block is analysed from.
EntryState(r, f, b) ==
    GuardedState(mergeInState(mergeStateFromPredecessors(r, f, b), r.summary, FALSE), f, b)

-----------------------------------------------------------------------------
(* The worklist of blocks.  add() does not enter what it queues in inList,  *)
(* so a block can be queued more than once.  `dirty' and `dropped' record   *)
(* which blocks have a predecessor whose exit state changed since they were *)
(* last taken, and which were not queued because of MaxVisits; `before' is  *)
(* what the activation found.                                               *)

NewFrame(fc) ==
    LET n == Len(prog.blocks[fc[2]])
    IN  [fc |-> fc, work |-> [b \in 1..n |-> b], inList |-> 1..n, black |-> [b \in 1..n |-> 0],
         bb |-> None, k |-> 1, state |-> Empty, old |-> Empty, before |-> Results(fc),
         dirty |-> {}, dropped |-> {}]

TakeKeepsInList(fr) == [fr EXCEPT !.work = Tail(fr.work), !.dirty = fr.dirty \ {Head(fr.work)}]
TakeKeepsHead(fr) == [fr EXCEPT !.inList = fr.inList \ {Head(fr.work)}, !.dirty = fr.dirty \ {Head(fr.work)}]
take(fr) == [fr EXCEPT !.work = Tail(fr.work), !.inList = fr.inList \ {Head(fr.work)},
                       !.dirty = fr.dirty \ {Head(fr.work)}]

add(fr, b) == IF b \in fr.inList THEN fr ELSE [fr EXCEPT !.work = Append(fr.work, b)]

addSuccessor(fr, b) == add([fr EXCEPT !.black[b] = @ + 1], b)

\* The successors in order, up to the first that has been queued too often.
AddSuccessors(fr, succ) ==
    LET full(n) == fr.black[succ[n]] + Cardinality({m \in 1..(n - 1) : succ[m] = succ[n]}) > MaxVisits
        stop == {n \in DOMAIN succ : full(n)}
        last == IF stop = {} THEN Len(succ) ELSE Min(stop) - 1
        acc[n \in 0..last] == IF n = 0 THEN fr ELSE addSuccessor(acc[n - 1], succ[n])
    IN  [acc[last] EXCEPT !.dirty = @ \cup Range(succ),
                          !.dropped = @ \cup {succ[n] : n \in (last + 1)..Len(succ)}]

-----------------------------------------------------------------------------
(* computeForwardDataflow(f, context).                                      *)

Init ==
    /\ prog \in Programs
    /\ res = <<>> /\ stack = <<>>
    /\ contextWork = << <<Root, prog.main>> >>
    /\ callers = {}

takeContext ==
    /\ stack = <<>> /\ contextWork # <<>>
    /\ contextWork' = Tail(contextWork)
    /\ stack' = << NewFrame(Head(contextWork)) >>
    /\ res' = SetResults(Head(contextWork), Results(Head(contextWork)))
    /\ UNCHANGED <<prog, callers>>

\* A block is taken; it is skipped when its entry state is not empty and has
\* not changed.
takeBlock ==
    LET fc == Top.fc
        b  == Head(Top.work)
        r  == Results(fc)
        st == EntryState(r, fc[2], b)
    IN  /\ stack # <<>> /\ Top.bb = None /\ Top.work # <<>>
        /\ IF st = r.entry[b] /\ st # Empty
           THEN stack' = SetTop(take(Top)) /\ UNCHANGED res
           ELSE /\ res' = SetResults(fc, [r EXCEPT !.entry[b] = st])
                /\ stack' = SetTop([take(Top) EXCEPT !.bb = b, !.k = 1, !.state = st, !.old = r.exit[b]])
        /\ UNCHANGED <<prog, contextWork, callers>>

Code(fr) == Block(fr.fc[2], fr.bb).code
isAnalyzableCall(i) == i.op = "call" /\ i.fn \in Fn

\* transfer() of an operand: its instruction if it is one.
TransferOf(f, k, s) ==
    LET defs == {i \in UNION {Range(Block(f, b).code) : b \in Blocks(f)} : i.op # "store" /\ i.dst = k}
    IN  IF defs = {} THEN TransferValue(k, s) ELSE Transfer(CHOOSE i \in defs : TRUE, s)
Ensure(f, k, s) == IF Has(s, k) THEN s ELSE TransferOf(f, k, s)

\* meetOverPHI: incoming values not in the state are transferred first.
meetIncoming(f, k, p) == LET t == Ensure(f, k, p.s) IN [v |-> Meet(p.v, t[k]), s |-> t]
PhiState(f, i, s) ==
    LET acc[n \in 0..Len(i.incoming)] ==
            IF n = 0 THEN [v |-> Unknown, s |-> s] ELSE meetIncoming(f, i.incoming[n], acc[n - 1])
        out == acc[Len(i.incoming)]
    IN  Put(out.s, i.dst, out.v)

applyTransfer(f, i, s) == IF i.op = "phi" THEN PhiState(f, i, s) ELSE Transfer(i, s)

\* The frame moves to its next instruction with state s.  Between two
\* instructions only the operands of the next one are recorded.
Advance(fr, s) == [fr EXCEPT !.k = @ + 1, !.state = s]
Recorded(r, fr, s) ==
    LET next == fr.k + 1
    IN  IF next <= Len(Code(fr)) /\ Code(fr)[next].op = "index" /\ Has(s, Code(fr)[next].a)
        THEN [r EXCEPT !.at = Put(r.at, Code(fr)[next].dst, s[Code(fr)[next].a])] ELSE r

AtInstruction == stack # <<>> /\ Top.bb # None /\ Top.k <= Len(Code(Top))

transferStep ==
    /\ AtInstruction /\ ~isAnalyzableCall(Code(Top)[Top.k])
    /\ LET s == applyTransfer(Top.fc[2], Code(Top)[Top.k], Top.state)
       IN  /\ stack' = SetTop(Advance(Top, s))
           /\ res' = SetResults(Top.fc, Recorded(Results(Top.fc), Top, s))
    /\ UNCHANGED <<prog, contextWork, callers>>

-----------------------------------------------------------------------------
(* analyzeCall.                                                             *)

\* Passing the arguments: the caller's state, the callee's summary, and
\* whether the callee has to be analysed.
passArgument(f, actual, formal, p) ==
    LET t   == Ensure(f, actual, p.s)
        old == At(p.sum, formal)
        new == Meet(t[actual], old)
    IN  [s |-> t, sum |-> Put(p.sum, formal, new), needsUpdate |-> p.needsUpdate \/ new # old]
NeedsAfterArguments(f, i, s, summary) ==
    LET formal == prog.args[i.fn]
        acc[n \in 0..Len(formal)] ==
            IF n = 0 THEN [s |-> s, sum |-> summary, needsUpdate |-> FALSE]
            ELSE passArgument(f, i.args[n], formal[n], acc[n - 1])
    IN  [acc[Len(formal)] EXCEPT !.needsUpdate = @ \/ acc[Len(formal)].sum = Empty]
PassArguments(f, i, s, summary) ==
    LET formal == prog.args[i.fn]
        acc[n \in 0..Len(formal)] ==
            IF n = 0 THEN [s |-> s, sum |-> summary, needsUpdate |-> summary = Empty]
            ELSE passArgument(f, i.args[n], formal[n], acc[n - 1])
    IN  acc[Len(formal)]

\* Back in the caller's frame fr at call i: the result is the callee's summary.
Returned(rs, stk, fr, i) ==
    LET fc == <<i.dst, i.fn>>
        summary == Touch(rs[fc].summary, i.fn)
        s   == Put(fr.state, i.dst, summary[i.fn])
        rs1 == [rs EXCEPT ![fc].summary = summary]
    IN  /\ res' = [rs1 EXCEPT ![fr.fc] = Recorded(rs1[fr.fc], fr, s)]
        /\ stack' = Append(stk, Advance(fr, s))
        /\ callers' = callers \cup {<<fc, fr.fc>>}

isActive(fc) == fc \in active

analyzeCall ==
    /\ AtInstruction /\ isAnalyzableCall(Code(Top)[Top.k])
    /\ LET i  == Code(Top)[Top.k]
           fc == <<i.dst, i.fn>>
           p  == PassArguments(Top.fc[2], i, Top.state, Results(fc).summary)
           rs == SetResults(fc, [Results(fc) EXCEPT !.summary = p.sum])
           fr == [Top EXCEPT !.state = p.s]
       IN  IF p.needsUpdate /\ ~isActive(fc)
           THEN /\ res' = rs /\ stack' = Append(SetTop(fr), NewFrame(fc)) /\ UNCHANGED callers
           ELSE Returned(rs, Pop(stack), fr, i)
    /\ UNCHANGED <<prog, contextWork>>

-----------------------------------------------------------------------------
(* The end of a block and of a function.                                    *)

finishBlock ==
    /\ stack # <<>> /\ Top.bb # None /\ Top.k > Len(Code(Top))
    /\ LET f   == Top.fc[2]
           blk == Block(f, Top.bb)
           s   == Put(Top.state, blk.term, Infinity)
           r   == [Results(Top.fc) EXCEPT !.exit[Top.bb] = s]
           out == IF blk.ret = None THEN r.summary
                  ELSE Put(r.summary, f, Meet(At(r.summary, f), At(s, blk.ret)))
           fr  == [Top EXCEPT !.bb = None]
       IN  IF s = Top.old
           THEN stack' = SetTop(fr) /\ res' = SetResults(Top.fc, r)
           ELSE /\ stack' = SetTop(AddSuccessors(fr, blk.succ))
                /\ res' = SetResults(Top.fc, [r EXCEPT !.summary = out])
    /\ UNCHANGED <<prog, contextWork, callers>>

\* oldResults and results are the same object, so the comparison never finds
\* a difference and no caller is queued.
endFunction ==
    /\ stack # <<>> /\ Top.bb = None /\ Top.work = <<>>
    /\ IF Len(stack) = 1
       THEN stack' = <<>> /\ UNCHANGED <<res, callers>>
       ELSE LET fr == stack[Len(stack) - 1]
            IN  Returned(res, Pop(Pop(stack)), fr, Code(fr)[fr.k])
    /\ UNCHANGED <<prog, contextWork>>

Finished == stack = <<>> /\ contextWork = <<>>
Done == Finished /\ UNCHANGED vars

Next == takeContext \/ takeBlock \/ transferStep \/ analyzeCall \/ finishBlock \/ endFunction \/ Done

\* One thread runs the analysis to its end.
Spec == Init /\ [][Next]_vars /\ WF_vars(Next)

-----------------------------------------------------------------------------
(* Properties.                                                              *)

\* A block whose predecessor's exit state changed after the block was last
\* taken is still queued, unless the limit on visits dropped it: WorkList::add
\* never loses a block although inList forgets what add() queued.
NoLostBlock == \A n \in DOMAIN stack : stack[n].dirty \subseteq Range(stack[n].work) \cup stack[n].dropped

\* "Seems to be a threshold to avoid infinite loop in some cases": the analysis
\* converges by itself, the limit of visits is not what ends it.
LimitNotReached == \A n \in DOMAIN stack : stack[n].dropped = {}

\* Analysed: the entry block has an exit state.
Analyzed(fc) == fc \in DOMAIN res /\ res[fc].exit[1] # Empty

\* "Functions whose results are required for the analysis of f will be
\* transitively analyzed": when the analysis is over, every call of an
\* analysed function has been analysed in its own context.
CalleesAnalyzed ==
    Finished =>
        \A fc \in DOMAIN res : Analyzed(fc) =>
            \A b \in Blocks(fc[2]) : \A n \in DOMAIN Block(fc[2], b).code :
                LET i == Block(fc[2], b).code[n]
                IN  isAnalyzableCall(i) => Analyzed(<<i.dst, i.fn>>)

\* Without branch conditions the state at the entry of a block only loses
\* precision: an entry never disappears and what is unknown stays unknown.
EntryOnlyLosesPrecision ==
    [][~prog.usePC => \A fc \in DOMAIN res : \A b \in Blocks(fc[2]), k \in Key :
          LET old == res[fc].entry[b][k]  new == res'[fc].entry[b][k]
          IN  new # old => old.kind = "absent" \/ new = Unknown]_vars

\* The analysis of every program ends, loops and recursion included.
Terminates == <>Finished

\* "Updating the results for this (function,context) means that all callers
\* must be updated as well": an activation that ends with other results than it
\* began with leaves every caller recorded by then in the worklist of contexts.
CallersQueued ==
    [][(endFunction /\ res[Top.fc] # Top.before) =>
          \A c \in callers : c[1] = Top.fc => c[2] \in Range(contextWork')]_vars
=============================================================================
