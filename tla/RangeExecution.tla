--------------------------- MODULE RangeExecution ---------------------------
(***************************************************************************)
(* The value range analysis followed by an execution of main: a GEP whose  *)
(* index the analysis accepts is left without protection, so its index has *)
(* to be in bounds whenever the execution gets there.  Calls return any    *)
(* value; branches without a guard go either way.                          *)
(***************************************************************************)
EXTENDS ForwardDataflow

CONSTANT MaxSize   \* bound on the number of elements of an array

VARIABLES env,     \* the values computed by the execution, None before
          pos      \* the block that was left, the block, the instruction

allVars == <<prog, res, stack, contextWork, callers, env, pos>>

Values(k) == SMin(Width[k])..SMax(Width[k])
Body(b) == Block(prog.main, b)
Inst == Body(pos.bb).code[pos.k]

ExecInit == Init /\ pos = None /\ env = [k \in Key |-> IF k \in Const THEN ConstVal[k] ELSE None]

analysis == Next /\ ~Finished /\ UNCHANGED <<env, pos>>

start == Finished /\ pos = None /\ pos' = [from |-> 1, bb |-> 1, k |-> 1] /\ UNCHANGED <<vars, env>>

\* What an instruction computes; arithmetic that overflows is undefined.
Value(k) == IF env[k] = None THEN Values(k) ELSE {env[k]}
Outcome(i) ==
    CASE i.op = "load"  -> Value(i.ptr)
      [] i.op = "store" -> Value(i.val)
      [] i.op = "binop" -> {n + m : n \in Value(i.a), m \in Value(i.b)} \cap Values(i.dst)
      [] i.op = "phi"   -> Value(i.incoming[CHOOSE n \in DOMAIN i.from : i.from[n] = pos.from])
      [] OTHER -> Values(i.dst)

execute ==
    /\ pos # None /\ pos.k <= Len(Body(pos.bb).code)
    /\ \E v \in Outcome(Inst) :
          env' = [env EXCEPT ![IF Inst.op = "store" THEN Inst.ptr ELSE Inst.dst] =
                                IF Inst.op = "index" THEN None ELSE v]
    /\ pos' = [pos EXCEPT !.k = @ + 1]
    /\ UNCHANGED vars

\* A guarded successor is entered when its condition holds.
Enters(g) == LET x == env[g.var]  c == ConstVal[g.c]
             IN  g.taken = IF g.first THEN Holds(g.pred, x, c, Width[g.c]) ELSE Holds(g.pred, c, x, Width[g.c])
jump ==
    /\ pos # None /\ pos.k > Len(Body(pos.bb).code)
    /\ \E s \in Range(Body(pos.bb).succ) :
          /\ Body(s).guard # <<>> => Enters(Body(s).guard[1])
          /\ pos' = [from |-> pos.bb, bb |-> s, k |-> 1]
    /\ UNCHANGED <<vars, env>>

ExecNext == analysis \/ start \/ execute \/ jump
ExecSpec == ExecInit /\ [][ExecNext]_allVars

-----------------------------------------------------------------------------
\* getIncomingState: the first instruction of a block reads the block's entry.
IncomingRange(b, k) ==
    LET r == res[<<Root, prog.main>>]
    IN  IF k = 1 THEN r.entry[b][Body(b).code[k].a] ELSE r.at[Body(b).code[k].dst]

Accepts(v, size) == isConstant(v) /\ v.l >= 0 /\ ~(v.r < 0 \/ v.r >= size)

\* When the execution reaches the GEP of an array and valueRangeAnalysis found its
\* index range acceptable, the index is an element of the array: neither a loop,
\* nor a join, nor a state recorded before the last change is overlooked.
AcceptedIndexInBounds ==
    (pos # None /\ pos.k <= Len(Body(pos.bb).code) /\ Inst.op = "index") =>
        \A size \in 1..MaxSize :
            Accepts(IncomingRange(pos.bb, pos.k), size) => Value(Inst.a) \subseteq 0..(size - 1)
=============================================================================
