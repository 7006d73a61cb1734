-------------------------- MODULE MCClassification --------------------------
(***************************************************************************)
(* Every program of up to three instructions over the given operations,    *)
(* for Classification.  Instruction k defines value xs[k]; its operands    *)
(* are globals, Null and the results of earlier instructions.              *)
(***************************************************************************)
EXTENDS Classification

CONSTANTS g1, g2, x1, x2, x3, f, h

MCGlobal == {g1, g2}
MCFn == {f, h}
MCValue == Global \cup {Null, x1, x2, x3}
xs == <<x1, x2, x3>>

Operand(k, consts) == consts \cup {xs[j] : j \in 1..(k - 1)}

\* Fields shared by all instructions; operands that are globals are the uses.
Base(k, op, opds) == [op |-> op, self |-> xs[k], fn |-> IF k = 1 THEN f ELSE h,
                      uses |-> SelectSeq(opds, LAMBDA x : x \in Global), gepUses |-> {}]
With(r, s) == [x \in DOMAIN r \cup DOMAIN s |-> IF x \in DOMAIN s THEN s[x] ELSE r[x]]

Kinds == {"alloc", "free", "other", "indirect"}
Instr(k, ops, consts) ==
  LET O == Operand(k, consts) IN
  {i \in
    UNION {
      {With(Base(k, "alloca", <<>>), [ofPtr |-> b, size |-> Const(8)]) : b \in BOOLEAN},
      {With(Base(k, "call", <<a>>), [kind |-> kd, size |-> Const(1), arg |-> a, retPtr |-> TRUE,
                                     rets |-> IF kd = "other" THEN <<g1, a>> ELSE <<>>]) :
          a \in O, kd \in Kinds},
      {With(Base(k, "store", <<v, p>>), [val |-> v, ptr |-> p, ptrVal |-> TRUE]) :
          v \in O, p \in O \ {Null}},
      {With(Base(k, "store", <<p>>), [val |-> Null, ptr |-> p, ptrVal |-> FALSE]) : p \in O \ {Null}},
      {With(Base(k, "load", <<p>>), [ptr |-> p, ptrVal |-> b, constPtr |-> p \in Global]) :
          p \in O, b \in BOOLEAN},
      {With(Base(k, "gep", <<p>>), [ptr |-> p, zero |-> zb[1], elemPtr |-> zb[2],
                                  fallback |-> Const(8), offset |-> Const(8)]) :
          p \in O \ {Null}, zb \in {<<FALSE, FALSE>>, <<TRUE, FALSE>>, <<FALSE, TRUE>>}},
      {With(Base(k, "cast", <<o>>), [opd |-> o, interest |-> b, srcPtr |-> TRUE, bitcast |-> TRUE]) :
          o \in O, b \in BOOLEAN},
      {[Base(k, "other", <<>>) EXCEPT !.gepUses = {g}] : g \in consts \cap Global}} : i.op \in ops}

Module(ops, consts, alias) ==
    [code : Instr(1, ops, consts) \X Instr(2, ops, consts) \X Instr(3, ops, consts),
     sizeOf : {[x \in MCValue |-> Const(8)]}, alias : {alias}]

\* All instruction kinds over one global and Null, and the instructions through
\* which classes flow over two globals.
MCPrograms ==
    Module(Ops, {g1, Null}, {<<2, 1>>, <<1, 2>>})
        \cup Module({"store", "load", "gep"}, {g1, g2}, {<<1, 2>>, <<2, 1>>, <<2, 3>>, <<3, 2>>})
=============================================================================
