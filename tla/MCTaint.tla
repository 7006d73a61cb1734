------------------------------- MODULE MCTaint -------------------------------
(* Modules with three GEPs that feed each other in different ways, and the   *)
(* options that a run of the pass is started with.                           *)
EXTENDS Taint, TLC

I(kind, ops) == [kind |-> kind, ops |-> ops, fn |-> "main", callee |-> None]
In(f, i) == [i EXCEPT !.fn = f]
Call(f, ops) == [I("call", ops) EXCEPT !.callee = f]

\* A value loaded through g1 is the index of g2, through which something is stored;
\* g3 is derived from g2 and stands beside it.  The value loaded through g2 decides a
\* branch.
Straight ==
    [insts |-> ("a" :> I("alloca", <<>>)) @@ ("b" :> I("alloca", <<>>))
               @@ ("g1" :> I("gep", <<"a", "x">>)) @@ ("l1" :> I("load", <<"g1">>)) @@ ("g2" :> I("gep", <<"b", "l1">>))
               @@ ("g3" :> I("gep", <<"g2", "y">>)) @@ ("s2" :> I("store", <<"x", "g2">>)) @@ ("l2" :> I("load", <<"g2">>))
               @@ ("c" :> I("cmp", <<"g2", "g3">>)) @@ ("t" :> I("other", <<"l2">>)) @@ ("br" :> I("br", <<"t">>)),
     code |-> << <<"a", "b", "g1", "l1", "g2", "g3", "s2", "l2", "c", "t", "br">> >>,
     pts |-> ("a" :> {"A"}) @@ ("b" :> {"B"}) @@ ("g1" :> {"A"}) @@ ("g2" :> {"B"}) @@ ("g3" :> {"B"}),
     site |-> ("A" :> "a") @@ ("B" :> "b"),
     params |-> ("main" :> <<>>), heap |-> {}, stack |-> {"g1", "g2", "g3"}, oow |-> {"g3"}, entry |-> TRUE]

\* g1 points into a heap object, its value goes to f, which is then handed to a
\* declared function whose result indexes g3; g2 uses a pointer that points nowhere known.
Calls ==
    [insts |-> ("m" :> Call("malloc", <<>>)) @@ ("a" :> I("alloca", <<>>)) @@ ("g1" :> I("gep", <<"m", "x">>))
               @@ ("l1" :> I("load", <<"g1">>)) @@ ("r" :> Call("f", <<"l1", "x">>)) @@ ("w" :> Call("apply", <<"f">>)) @@ ("g3" :> I("gep", <<"a", "w">>))
               @@ ("s3" :> I("store", <<"g1", "g3">>)) @@ ("e" :> I("ret", <<"x">>))
               @@ ("g2" :> In("f", I("gep", <<"q", "f.1">>))) @@ ("u" :> In("f", I("other", <<"f.1", "g2">>))) @@ ("fe" :> In("f", I("ret", <<"u">>))),
     code |-> << <<"m", "a", "g1", "l1", "r", "w", "g3", "s3", "e">>, <<"g2", "u", "fe">> >>,
     pts |-> ("m" :> {"M"}) @@ ("a" :> {"A"}) @@ ("g1" :> {"M"}) @@ ("g3" :> {"A"}) @@ ("q" :> {}),
     site |-> ("M" :> None) @@ ("A" :> "a"),
     params |-> ("main" :> <<>>) @@ ("f" :> <<"f.1", "f.2">>), heap |-> {"g1", "g2"}, stack |-> {"g2", "g3"}, oow |-> {}, entry |-> TRUE]

\* g2 is derived from g1; the value loaded through it goes round a loop and
\* through a slot on the stack before it indexes g3.
Loop ==
    [insts |-> ("a" :> I("alloca", <<>>)) @@ ("slot" :> I("alloca", <<>>)) @@ ("g1" :> I("gep", <<"a", "x">>))
               @@ ("g2" :> I("gep", <<"g1", "y">>)) @@ ("l2" :> I("load", <<"g2">>)) @@ ("phi" :> I("other", <<"l2", "inc">>))
               @@ ("inc" :> I("other", <<"phi">>)) @@ ("s" :> I("store", <<"inc", "slot">>)) @@ ("br" :> I("br", <<"phi">>))
               @@ ("l" :> I("load", <<"slot">>)) @@ ("g3" :> I("gep", <<"g1", "l">>)) @@ ("s2" :> I("store", <<"x", "g2">>)) @@ ("e" :> I("ret", <<"x">>)),
     code |-> << <<"a", "slot", "g1", "g2", "l2", "s2">>, <<"phi", "inc", "s", "br">>, <<"l", "g3", "e">> >>,
     pts |-> ("a" :> {"A"}) @@ ("g1" :> {"A"}) @@ ("g2" :> {"A"}) @@ ("g3" :> {"A"}) @@ ("slot" :> {"S"}),
     site |-> ("A" :> "a") @@ ("S" :> "slot"),
     params |-> ("main" :> <<>>), heap |-> {}, stack |-> {"g1", "g2", "g3"}, oow |-> {}, entry |-> TRUE]

MCPrograms == {Straight, Calls, Loop, [Straight EXCEPT !.entry = FALSE, !.stack = {"g1"}]}

\* One of the option records leaves -enable-oow out.
plain == [usePC |-> FALSE, diffOnly |-> FALSE, sfiOnly |-> FALSE, useBaggy |-> TRUE, oow |-> FALSE, taint |-> FALSE]
usePC == [plain EXCEPT !.usePC = TRUE, !.oow = TRUE]
diff == [plain EXCEPT !.diffOnly = TRUE, !.oow = TRUE]
diffSafeStack == [diff EXCEPT !.useBaggy = FALSE]
sfi == [plain EXCEPT !.sfiOnly = TRUE, !.oow = TRUE]
MCOptions == {plain, usePC, diff, diffSafeStack, sfi}

=============================================================================
