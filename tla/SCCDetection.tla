---------------------------- MODULE SCCDetection ----------------------------
(***************************************************************************)
(* Util/SCC.h: the strongly connected components of a graph in one depth-  *)
(* first search, and a topological order of their representatives.  The    *)
(* recursion of visit is the stack scc.calls; the graph is a parameter of  *)
(* the actions, since the caller changes it between two searches.          *)
(***************************************************************************)
EXTENDS Naturals, Sequences, FiniteSets

CONSTANT Node

VARIABLE scc

\* No representative yet, UINT_MAX in the code.
NoRep == <<"none", 0>>

\* The state of a search: visit numbers (0 is not visited), representatives, nodes
\* of each representative, nodes whose component is complete, the stack of nodes in
\* incomplete components, the stack of representatives, and the active calls.
clear == [D |-> [n \in Node |-> 0], rep |-> [n \in Node |-> NoRep], sub |-> [n \in Node |-> {}],
          inSCC |-> {}, SS |-> <<>>, T |-> <<>>, calls |-> <<>>]

visited(s, n) == s.D[n] # 0

setRep(s, n, r) ==
    [s EXCEPT !.rep[n] = r,
              !.sub = [m \in Node |-> CASE m = r -> s.sub[r] \cup {n}
                                        [] m = n /\ n # r -> {}
                                        [] OTHER -> s.sub[m]]]

\* Entry of visit(v); children holds v's successors, each with its place in the order.
enter(s, v, children) ==
    [setRep([s EXCEPT !.D[v] = 1 + Cardinality({n \in Node : visited(s, n)})], v, v)
        EXCEPT !.calls = Append(@, [v |-> v, children |-> children])]

\* mutant: without the test for complete components.
LowerByAny(s, v, w) == setRep(s, v, IF s.D[s.rep[v]] < s.D[s.rep[w]] THEN s.rep[v] ELSE s.rep[w])

\* A successor whose component is not complete lowers the representative.
lower(s, v, w) ==
    IF w \in s.inSCC THEN s
    ELSE setRep(s, v, IF s.D[s.rep[v]] < s.D[s.rep[w]] THEN s.rep[v] ELSE s.rep[w])

Top(seq) == seq[Len(seq)]
Pop(seq) == SubSeq(seq, 1, Len(seq) - 1)

\* The end of visit(v): a representative takes the nodes above it from the stack.
Below(s, v) == {i \in 1..Len(s.SS) : s.D[s.SS[i]] <= s.D[v]}
kept(s, v)  == IF Below(s, v) = {} THEN 0 ELSE CHOOSE i \in Below(s, v) : \A j \in Below(s, v) : j <= i
taken(s, v) == {s.SS[i] : i \in (kept(s, v) + 1)..Len(s.SS)}
leave(s, v) ==
    IF s.rep[v] # v
    THEN [s EXCEPT !.SS = Append(@, v)]
    ELSE [s EXCEPT !.inSCC = @ \cup taken(s, v) \cup {v},
                   !.SS = SubSeq(@, 1, kept(s, v)),
                   !.rep = [n \in Node |-> IF n \in taken(s, v) THEN v ELSE @[n]],
                   !.sub = [n \in Node |-> IF n = v THEN @[v] \cup taken(s, v)
                                           ELSE IF n \in taken(s, v) THEN {} ELSE @[n]],
                   !.T = Append(@, v)]

\* find: the next root, one successor of the active call, or its end.
findRoot(nodes, order, Children) ==
    /\ scc.calls = <<>>
    /\ \E v \in nodes :
         /\ ~visited(scc, v)
         /\ \A w \in nodes : visited(scc, w) \/ order[v] <= order[w]
         /\ scc' = enter(scc, v, Children[v])

visitChild(Children) ==
    /\ scc.calls # <<>>
    /\ LET call == Top(scc.calls) IN
       \E c \in call.children :
         /\ \A e \in call.children : c[1] <= e[1]
         /\ scc' = IF visited(scc, c[2])
                   THEN [lower(scc, call.v, c[2]) EXCEPT !.calls[Len(scc.calls)].children = @ \ {c}]
                   ELSE enter(scc, c[2], Children[c[2]])

finishVisit ==
    /\ scc.calls # <<>>
    /\ Top(scc.calls).children = {}
    /\ scc' = [leave(scc, Top(scc.calls).v) EXCEPT !.calls = Pop(@)]

found(nodes) == scc.calls = <<>> /\ \A n \in nodes : visited(scc, n)
=============================================================================
