---------------------------- MODULE CompatibleType ----------------------------
(***************************************************************************)
(* CompatibleType: which casts the pass takes for safe.  Of a type the     *)
(* analysis looks at the innermost type behind the pointers: "int" stands  *)
(* for every integer type, any other name for a struct, array or float     *)
(* type.  A cast is a record with                                          *)
(*   src, dst    what UnwrapPointer gives for its two types                *)
(*   fromPtr     the source is a pointer                                   *)
(*   resize      it is a sext or a trunc                                   *)
(*   opKind      what its operand is: "load", "gep", "cast", "call", ...   *)
(*   opType      the innermost type of the load, of the GEP's element, or  *)
(*               of the source of the nested cast                          *)
(*   room        bytes a malloc or calloc of constant size gives, else 0   *)
(*   needs       bytes of the destination's innermost type                 *)
(*   uses        its uses in order, as pairs <<kind, innermost type>>; of  *)
(*               a load whose result is cast, the type it is cast to       *)
(***************************************************************************)
EXTENDS Integers, Sequences

IsInteger(t) == t = "int"

\* The search of the subtypes compares an iterator with a type and finds nothing.
isPotentiallyUnsafeCast(innerSrcT, realSrcType, realDstType, innerDstT) ==
    \/ /\ IsInteger(innerSrcT) /\ IsInteger(realSrcType)
       /\ ~IsInteger(realDstType) \/ ~IsInteger(innerDstT)
    \/ ~IsInteger(realSrcType) /\ ~IsInteger(realDstType) /\ realSrcType # realDstType

\* The first use that is a store, a load or a cast decides.
realDstType(c) ==
    LET u == SelectSeq(c.uses, LAMBDA x : x[1] \in {"store", "load", "cast"})
    IN  IF u = <<>> THEN c.dst ELSE u[1][2]

undersized(c) == c.room > 0 /\ c.needs > c.room

\* handleCastOperation: the cast is taken out of the set.
judgedSafe(c) ==
    /\ c.fromPtr \/ ~c.resize
    /\ \/ c.opKind \in {"load", "gep", "cast"} /\ ~isPotentiallyUnsafeCast(c.src, c.opType, realDstType(c), c.dst)
       \/ c.opKind = "call" /\ ~undersized(c)
=============================================================================
