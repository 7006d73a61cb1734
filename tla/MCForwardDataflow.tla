-------------------------- MODULE MCForwardDataflow --------------------------
(* Small control-flow graphs, recursion and calls for ForwardDataflow.      *)
EXTENDS ForwardDataflow

K(s, n) == <<s, n>>
c0 == K("c", 0)
c1 == K("c", 1)
c2 == K("c", 2)
I  == K("I", 0)
Void == K("void", 0)
main == K("fn", 1)
f == K("fn", 2)
g == K("fn", 3)
arg(fn) == K("arg", fn[2])

MCFn     == {main, f, g}
MCConst  == {c0, c1, c2}
MCAlloca == {I}
MCKey    == MCConst \cup MCAlloca \cup MCFn \cup {Void} \cup {arg(f), arg(g)}
                \cup {K(s, n) : s \in {"x", "y", "t", "j", "br"}, n \in 1..4}
                \cup {K(s, n) : s \in {"fx", "fj", "fbr", "gj", "gbr"}, n \in 1..3}
MCConstVal   == [c \in MCConst |-> c[2]]
MCMallocSize == <<>>
MCMalloc     == {}
MCStripped   == [k \in MCKey |-> k]
\* Counters wide enough to outlast the limit on visits, or small enough to
\* enumerate their values.
MCWidth      == [k \in MCKey |-> 7]
MCNarrow     == [k \in MCKey |-> 3]

BinOp(opcode, dst, a, b) == [op |-> "binop", opcode |-> opcode, dst |-> dst, a |-> a, b |-> b]
Load(dst, ptr)  == [op |-> "load", dst |-> dst, ptr |-> ptr]
Store(ptr, val) == [op |-> "store", ptr |-> ptr, val |-> val]
Index(dst, a)   == [op |-> "index", dst |-> dst, a |-> a]
Call(dst, fn, args) == [op |-> "call", dst |-> dst, fn |-> fn, args |-> args]
Phi(dst, incoming, from) == [op |-> "phi", dst |-> dst, incoming |-> incoming, from |-> from]

\* What block b of main may do to the variable I.
Codes(b) == { <<>>,
              << Store(I, c1) >>,
              << Load(K("x", b), I), Index(K("t", b), K("x", b)) >>,
              << Load(K("x", b), I), BinOp("Add", K("y", b), K("x", b), c1), Store(I, K("y", b)) >> }

\* A loop that keeps its counter in a register.
CounterLoop == << <<>>, << Phi(K("x", 2), <<c0, K("y", 3)>>, <<1, 3>>), Index(K("t", 2), K("x", 2)) >>,
                  << BinOp("Add", K("y", 3), K("x", 2), c1) >>, <<>> >>

Flow(succ, pred) == [succ |-> succ, pred |-> pred]
Straight == Flow(<< <<2>>, <<3>>, <<>> >>, << <<>>, <<1>>, <<2>> >>)
Diamond  == Flow(<< <<2, 3>>, <<4>>, <<4>>, <<>> >>, << <<>>, <<1>>, <<1>>, <<2, 3>> >>)
Loop(order) == Flow(<< <<2>>, <<3, 4>>, <<2>>, <<>> >>, << <<>>, order, <<2>>, <<2>> >>)
SelfLoop == Flow(<< <<2>>, <<2, 3>>, <<>> >>, << <<>>, <<2, 1>>, <<2>> >>)
Nested   == Flow(<< <<2>>, <<3, 4>>, <<3, 2>>, <<>> >>, << <<>>, <<1, 3>>, <<2, 3>>, <<2>> >>)
Flows    == {Straight, Diamond, Loop(<<1, 3>>), Loop(<<3, 1>>), SelfLoop, Nested}

\* In the loops, block 3 is entered when the counter that block 2 has loaded, and
\* not changed, is below 2.
Guard(fl, code, b) ==
    IF b = 3 /\ fl.pred[3] = <<2>> /\ Len(fl.succ[2]) = 2 /\ Len(code[2]) = 2
    THEN << [pred |-> "ULT", var |-> K("x", 2), c |-> c2, taken |-> TRUE, first |-> TRUE,
             ptr |-> IF code[2][1].op = "load" THEN I ELSE Void] >>
    ELSE <<>>

Function(fl, code, name, ret) ==
    [b \in DOMAIN fl.succ |->
        [code |-> code[b], succ |-> fl.succ[b], pred |-> fl.pred[b], term |-> K(name, b),
         ret |-> IF fl.succ[b] = <<>> THEN ret ELSE None, guard |-> Guard(fl, code, b)]]
Leaf(code, name, ret) == Function(Flow(<< <<>> >>, << <<>> >>), <<code>>, name, ret)

OneArg == [h \in MCFn |-> IF h = main THEN <<>> ELSE <<arg(h)>>]
Program(m, fb, gb, args) == [main |-> main, args |-> args, usePC |-> FALSE,
                             blocks |-> [h \in MCFn |-> CASE h = main -> m [] h = f -> fb [] h = g -> gb]]

Idle(name) == Leaf(<<>>, name, Void)

\* Loops and joins in one function; I starts with 0 or with any value.
UseLast == << Load(K("x", 4), I), Index(K("t", 4), K("x", 4)) >>
Input == << [op |-> "other", dst |-> K("j", 1)], Store(I, K("j", 1)) >>
Unguarded ==
    { Program(Function(fl, <<a, b, c, UseLast>>, "br", Void), Idle("fbr"), Idle("gbr"), OneArg) :
        fl \in Flows, a \in {Input, <<Store(I, c0)>>}, b \in Codes(2), c \in Codes(3) }
    \cup { Program(Function(fl, CounterLoop, "br", Void), Idle("fbr"), Idle("gbr"), OneArg) :
        fl \in {Loop(<<1, 3>>), Loop(<<3, 1>>)} }

\* With and, where there is a guard, without -use-pc.
HasGuard(p) == \E b \in DOMAIN p.blocks[main] : p.blocks[main][b].guard # <<>>
Intraprocedural == Unguarded \cup {[p EXCEPT !.usePC = TRUE] : p \in {q \in Unguarded : HasGuard(q)}}

\* Functions with an argument: a leaf, a caller of h, and one that calls h in
\* one branch only.
Increment(name, x, h) == Leaf(<< BinOp("Add", K(x, 1), arg(h), c1) >>, name, K(x, 1))
Caller(name, j, x, h) == Leaf(<< Call(K(j, 1), h, <<x>>) >>, name, K(j, 1))
Brancher(name, j, x, h) ==
    Function(Flow(<< <<2, 3>>, <<3>>, <<>> >>, << <<>>, <<1>>, <<1, 2>> >>),
             << <<>>, << Call(K(j, 1), h, <<x>>) >>, << Call(K(j, 2), h, <<K(j, 1)>>) >> >>, name, K(j, 2))

\* main calls f twice, in a row or in a loop.
Twice == Function(Straight, << << Call(K("j", 1), f, <<c1>>) >>, << Call(K("j", 2), f, <<K("j", 1)>>) >>, <<>> >>, "br", K("j", 2))
Repeatedly == Function(Loop(<<3, 1>>), << <<>>, << Load(K("x", 2), I) >>, << Call(K("j", 3), f, <<K("x", 2)>>), Store(I, K("j", 3)) >>, UseLast >>, "br", Void)

Interprocedural ==
    { Program(m, fb, gb, args) :
        m \in {Twice, Repeatedly},
        fb \in {Increment("fbr", "fx", f)} \cup {Caller("fbr", "fj", arg(f), h) : h \in {f, g}}
                 \cup {Brancher("fbr", "fj", arg(f), h) : h \in {f, g}},
        gb \in {Idle("gbr"), Caller("gbr", "gj", arg(g), f), Brancher("gbr", "gj", arg(g), f)},
        args \in {OneArg, [h \in MCFn |-> <<>>]} }

AllPrograms == Intraprocedural \cup Interprocedural

Recursive == { Program(Twice, Caller("fbr", "fj", arg(f), f), Idle("gbr"), OneArg) }
=============================================================================
