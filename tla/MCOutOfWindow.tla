---------------------------- MODULE MCOutOfWindow ----------------------------
(* Small modules for OutOfWindow: main, f and g, without recursion.         *)
EXTENDS OutOfWindow

I(op) == [op |-> op]
Call(fn) == [op |-> "call", fn |-> fn]
Block_(code, term, succ) == [code |-> Append(code, I(term)), succ |-> succ]

\* Bodies of a function: one block, a diamond, a loop, a switch whose default
\* is also one of its cases.
Line(a) == << Block_(a, "ret", <<>>) >>
Diamond(a, b, c) == << Block_(<<>>, "cond", <<2, 3>>), Block_(a, "br", <<4>>), Block_(b, "br", <<4>>), Block_(c, "ret", <<>>) >>
Loop(a, b) == << Block_(<<>>, "br", <<2>>), Block_(a, "cond", <<2, 3>>), Block_(b, "ret", <<>>) >>
Switch(a, b) == << Block_(<<>>, "switch", <<2, 2, 3>>), Block_(a, "br", <<3>>), Block_(b, "ret", <<>>) >>

gep == I("gep")
Pieces(h) == {<<gep>>, <<Call(h), gep>>, <<gep, Call(h)>>}
MainPieces == Pieces("f") \cup {<<Call("puts"), Call("g"), gep>>}
LeafPieces == {<<gep>>, <<I("op"), gep>>}

Mains == {Line(<<Call("f"), gep, gep>>), Line(<<Call("f"), Call(None), gep, gep>>)}
         \cup {Diamond(a, b, c) : a \in Pieces("f"), b \in {<<gep>>, <<Call("puts"), Call("g"), gep>>}, c \in {<<gep>>, <<Call("f"), gep>>}}
         \cup {Loop(a, b) : a \in MainPieces, b \in Pieces("f")}
Fs == {Line(a) : a \in Pieces("g")}
      \cup {Diamond(a, <<gep>>, c) : a \in Pieces("g"), c \in LeafPieces}
      \cup {Switch(a, c) : a \in {<<gep>>, <<Call("g"), gep>>}, c \in LeafPieces}
Gs == {Line(c) : c \in LeafPieces} \cup {Loop(<<gep, I("dbg")>>, <<gep>>)}

Module(m, fb, gb) == [h \in {"main", "f", "g"} |-> CASE h = "main" -> m [] h = "f" -> fb [] h = "g" -> gb]

\* A branch in front of an invoke, and in the function it invokes.
Invoke(fn) == [op |-> "invoke", fn |-> fn]
Invoking(h) == << Block_(<<>>, "cond", <<2, 5>>), [code |-> <<Invoke(h)>>, succ |-> <<3, 4>>],
                  Block_(<<gep>>, "br", <<5>>), Block_(<<I("op"), gep>>, "ret", <<>>), Block_(<<>>, "ret", <<>>) >>

\* A function that invokes a declaration, called behind both successors of a branch
\* after as many instructions or one more.
Declared == << [code |-> <<Invoke("puts")>>, succ |-> <<2, 3>>], Block_(<<gep>>, "ret", <<>>), Block_(<<>>, "ret", <<>>) >>
CalledTwice == {Diamond(<<Call("f"), gep>>, b, <<>>) : b \in {<<Call("f"), gep>>, <<I("op"), Call("f"), gep>>}}

NonRecursive ==
    {Module(m, fb, gb) : m \in Mains, fb \in Fs, gb \in Gs}
        \cup {Module(Invoking(h), Diamond(<<gep>>, <<>>, <<>>), Line(<<gep>>)) : h \in {"f", "g", "puts"}}
        \cup {Module(m, Declared, Line(<<gep>>)) : m \in CalledTwice}

\* Two indirect calls around a call of a function with a branch.
StaleStack == {Module(Line(<<Call("f"), gep>>), Line(<<Call(None), Call("g"), Call(None), gep>>), Diamond(<<>>, <<>>, <<>>))}
=============================================================================
