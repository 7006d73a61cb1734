---------------------------- MODULE MCPointerSets ----------------------------
(* Four families of functions for PointerSets: pointers with aliases, chains  *)
(* of casts, allocations that share objects, and control-flow graphs.         *)
EXTENDS PointerSets, TLC

Ptr(t) == <<"ptr", t>>
I(kind, ops, type) == [kind |-> kind, ops |-> ops, fn |-> "f", name |-> "none", type |-> type, block |-> 1]
Alloc(name, ops) == [I("call", ops, Ptr("A")) EXCEPT !.name = name]
BitCast(op, t) == [I("cast", <<op>>, Ptr(t)) EXCEPT !.name = "bitcast"]
Store(v, slot) == I("store", <<v, slot>>, <<"void">>)
OneBlock == [entry |-> 1, succ |-> <<<<>>>>, cond |-> <<None>>]

Classes == {"Safe", "Seq", "Dyn"}
Cast(src, dst, kind, type, uses) ==
    [src |-> src, dst |-> dst, fromPtr |-> TRUE, resize |-> FALSE, opKind |-> kind, opType |-> type, room |-> 0, needs |-> 8, uses |-> uses]

\* What malloc gives is stored to the slot a, an element of G to the slot b: of m, l1, l2, g2 and c
\* each is an alias of the next.  g1 points into m; s is what an unknown function gives for m; h is in a function of its own.
AliasProgram(classes) ==
    [insts |-> ("m" :> Alloc("malloc", <<"n">>)) @@ ("a" :> I("alloca", <<>>, Ptr("Ap"))) @@ ("b" :> I("alloca", <<>>, Ptr("Ap")))
               @@ ("l1" :> I("load", <<"a">>, Ptr("A"))) @@ ("l2" :> I("load", <<"b">>, Ptr("A"))) @@ ("g1" :> I("gep", <<"m", "i">>, Ptr("int")))
               @@ ("g2" :> I("gep", <<"G", "i">>, Ptr("A"))) @@ ("c" :> BitCast("g2", "B")) @@ ("st1" :> Store("m", "a")) @@ ("st2" :> Store("g2", "b"))
               @@ ("s" :> I("call", <<"m">>, Ptr("A"))) @@ ("h" :> [I("gep", <<"q", "0">>, Ptr("A")) EXCEPT !.fn = "h"])
               @@ ("q" :> [I("alloca", <<>>, Ptr("A")) EXCEPT !.fn = "h"]),
     fns |-> <<"f", "h">>, cfg |-> ("f" :> OneBlock) @@ ("h" :> OneBlock), globals |-> {"G"}, trees |-> {"G"},
     memdep |-> ("l1" :> "st1") @@ ("l2" :> "st2"), nodes |-> {"m", "a", "b", "l1", "l2", "g1", "g2", "c", "s"},
     pts |-> ("m" :> {1}) @@ ("a" :> {5}) @@ ("b" :> {6}) @@ ("l1" :> {1, 2}) @@ ("l2" :> {2, 3}) @@ ("g1" :> {7}) @@ ("g2" :> {3})
             @@ ("c" :> {3}) @@ ("st1" :> {}) @@ ("st2" :> {}) @@ ("s" :> {}) @@ ("h" :> {8}) @@ ("q" :> {8}),
     casts |-> ("c" :> Cast("int", "A", "gep", "int", <<>>)),
     class |-> ("m" :> "Safe") @@ ("s" :> "Seq") @@ ("h" :> "Seq") @@ classes]
AliasPrograms == {AliasProgram(k) : k \in {f \in [{"l1", "l2", "g1", "g2", "c"} -> Classes] : f["g1"] # "Dyn" /\ f["c"] # "Seq"}}

\* p is loaded, then cast three times; d casts a fresh allocation, to which p points too if heap holds.
CastProgram(t, u, heap, room) ==
    [insts |-> ("a" :> I("alloca", <<>>, Ptr("p"))) @@ ("p" :> I("load", <<"a">>, Ptr(t[1]))) @@ ("c1" :> BitCast("p", t[2]))
               @@ ("c2" :> BitCast("c1", t[3])) @@ ("c3" :> BitCast("c2", t[4])) @@ ("m" :> Alloc("kalloc", <<"n">>)) @@ ("d" :> BitCast("m", "A")),
     fns |-> <<"f">>, cfg |-> ("f" :> OneBlock), globals |-> {}, trees |-> {}, memdep |-> <<>>, nodes |-> {"a", "p", "c1", "c2", "c3", "m", "d"},
     pts |-> [v \in {"a", "p", "c1", "c2", "c3", "m", "d"} |-> IF v = "a" THEN {5} ELSE IF v \in {"m", "d"} \/ heap THEN {1} ELSE {2}],
     casts |-> ("c1" :> Cast(t[1], t[2], "load", t[1], <<<<"cast", t[3]>>>>)) @@ ("c2" :> Cast(t[2], t[3], "cast", t[1], u \o <<<<"cast", t[4]>>>>))
               @@ ("c3" :> Cast(t[3], t[4], "cast", t[2], <<>>)) @@ ("d" :> [Cast("int", "A", "call", "int", <<>>) EXCEPT !.room = room]),
     class |-> [v \in {"p", "c1", "c2", "c3", "d"} |-> "Dyn"]]
CastPrograms ==
    {CastProgram(t, u[1], heap, u[2]) : t \in [1 .. 4 -> {"int", "A", "B"}], heap \in BOOLEAN,
                                        u \in {<<<<>>, 0>>, <<<<>>, 4>>, <<<<<<"other", "int">>, <<"store", "A">>>>, 8>>}}

\* Five allocations and the objects they may return; m1, m2 and m5 have the same argument.
AllocProgram(pts) ==
    [insts |-> ("m1" :> Alloc("malloc", <<"n">>)) @@ ("m2" :> Alloc("kalloc", <<"n">>)) @@ ("m3" :> Alloc("malloc", <<"k">>))
               @@ ("m4" :> Alloc("new", <<"k">>)) @@ ("m5" :> [Alloc("new", <<"n">>) EXCEPT !.type = Ptr("B")])
               @@ ("v" :> [Alloc("new", <<"k">>) EXCEPT !.kind = "invoke"]),
     fns |-> <<"f">>, cfg |-> ("f" :> OneBlock), globals |-> {}, trees |-> {}, memdep |-> <<>>, nodes |-> {"m1", "m2", "m3", "m4", "m5", "v"},
     pts |-> ("m1" :> {1}) @@ ("m2" :> {2}) @@ ("v" :> {4}) @@ pts,
     casts |-> <<>>, class |-> [x \in {"m1", "m2", "m3", "m4", "m5", "v"} |-> IF x \in {"m3", "v"} THEN "Seq" ELSE "Safe"]]
AllocPrograms == {AllocProgram(p) : p \in [{"m3", "m4", "m5"} -> {s \in SUBSET (1 .. 3) : s # {}}]}

\* Functions of four blocks: the last returns, the entry has no predecessor, the third may return too.
\* A condition may be an argument, without a node.
ControlProgram(succ, arg) ==
    [insts |-> [v \in {"c1", "c2", "c3", "r"} |->
                  [I("icmp", <<>>, <<"int">>) EXCEPT !.block = IF v = "c1" THEN 1 ELSE IF v = "c2" THEN 2 ELSE IF v = "c3" THEN 3 ELSE 4]],
     fns |-> <<"f">>, globals |-> {}, trees |-> {}, memdep |-> <<>>, nodes |-> {"c1", "c2", "c3", "r"}, pts |-> [v \in {"c1", "c2", "c3", "r"} |-> {}],
     cfg |-> ("f" :> [entry |-> 1, succ |-> succ,
                      cond |-> [b \in 1 .. 4 |-> IF Len(succ[b]) < 2 \/ (b = 2 /\ arg) THEN None ELSE IF b = 1 THEN "c1" ELSE IF b = 2 THEN "c2" ELSE "c3"]]),
     casts |-> <<>>, class |-> <<>>]
Targets == {<<b>> : b \in 2 .. 4} \cup ((2 .. 4) \X (2 .. 4))
Ends(succ) == \* every block can reach a return
    LET back[n \in Nat] == IF n = 0 THEN {b \in 1 .. 4 : succ[b] = <<>>}
                           ELSE LET r == back[n - 1] IN r \cup {b \in 1 .. 4 : \E i \in DOMAIN succ[b] : succ[b][i] \in r}
    IN  back[3] = 1 .. 4
ControlPrograms ==
    {ControlProgram(g, arg) : g \in {h \in {<<e, x, y, <<>>>> : e \in Targets, x \in Targets, y \in Targets \cup {<<>>}} : Ends(h)}, arg \in BOOLEAN}

MCPrograms == AliasPrograms \cup CastPrograms \cup AllocPrograms \cup ControlPrograms

\* Every order of the pointers that the loops meet, the others behind them.
Free(p) == {"l1", "l2", "g1", "g2", "c1", "c2", "c3"} \cap DOMAIN p.class
Others == <<"m", "s", "h", "c", "p", "d", "m1", "m2", "m3", "m4", "m5", "v">>
MCOrders(p) ==
    LET k == Cardinality(Free(p))
    IN  {[v \in DOMAIN p.class |-> IF v \in Free(p) THEN r[v] ELSE k + (CHOOSE j \in DOMAIN Others : Others[j] = v)] :
            r \in {g \in [Free(p) -> 1 .. k] : \A v, w \in Free(p) : g[v] = g[w] => v = w}}

=============================================================================
