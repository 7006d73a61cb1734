--------------------------- MODULE AnalysisState ---------------------------
(***************************************************************************)
(* The pointer table of the analysis (class AnalysisState, Utils.hpp and   *)
(* Utils.cpp).  `Variables' is an unordered_map from LLVM values to        *)
(* VariableInfo; here it is a total function whose field `reg' says        *)
(* whether the key is present.  operator[] value-initialises a new entry   *)
(* and RegisterVariable gives it class Safe and size 0, so an absent key   *)
(* already carries those values.                                           *)
(*                                                                         *)
(* The fields hasMetadataTableEntry, hasExplicitSizeVariable and           *)
(* explicitSizeVariable are never set by a caller and stay false; the one  *)
(* place where they are read uninitialised is the temporary info of a null *)
(* pointer (see processLoadInst in Classification).                        *)
(***************************************************************************)
EXTENDS Integers

CONSTANTS Value,    \* the LLVM values of a module: globals, arguments, instructions
          Null      \* the ConstantPointerNull value

ASSUME NullAssumption == Null \in Value

\* enum class VariableStates; the order of the numbers is the order ClassifyPointerVariable compares.
Unknown == -1
Safe == 0
Seq_ == 1
Dyn == 2
VariableStates == {Unknown, Safe, Seq_, Dyn}

\* A size is a ConstantInt (a number of bytes) or some other llvm::Value.
Const(n) == [const |-> TRUE, n |-> n]
NonConst == [const |-> FALSE, n |-> 0]
Size == [const : BOOLEAN, n : Int]

VariableInfo == [reg : BOOLEAN, cls : VariableStates, size : Size, inst : BOOLEAN,
                 isGlobal : BOOLEAN, changed : BOOLEAN]

Absent == [reg |-> FALSE, cls |-> Safe, size |-> Const(0), inst |-> FALSE,
           isGlobal |-> FALSE, changed |-> FALSE]

\* A table in which RegisterVariable has put a key.
RegisterVariable(V, x) == [V EXCEPT ![x].reg = TRUE]

\* A class only rises, except that Dyn gives way to Seq (the "Wild GEP" case); a
\* change to a global raises didClassificationChange.
Raises(c, t) == c < t \/ (c = Dyn /\ t = Seq_)

\* mutant: the new class is stored without a comparison
StoresAnyClass(V, x, t) ==
    [V EXCEPT ![x] = [@ EXCEPT !.reg = TRUE, !.cls = t, !.changed = V[x].changed \/ (V[x].isGlobal /\ t # V[x].cls)]]

ClassifyPointerVariable(V, x, t) ==
    IF Raises(V[x].cls, t)
    THEN [V EXCEPT ![x] = [@ EXCEPT !.reg = TRUE, !.cls = t, !.changed = V[x].changed \/ V[x].isGlobal]]
    ELSE RegisterVariable(V, x)

SetSizeForPointerVariable(V, x, s) == [V EXCEPT ![x] = [@ EXCEPT !.reg = TRUE, !.size = s]]

SetInstantiatedExplicitSizeVariable(V, x) == [V EXCEPT ![x] = [@ EXCEPT !.reg = TRUE, !.inst = TRUE]]

\* The info of a null pointer is a fresh temporary of class Unknown, never the table's entry.
GetPointerVariableInfo(V, x) ==
    IF x = Null THEN [Absent EXCEPT !.reg = TRUE, !.cls = Unknown] ELSE V[x]

============================================================================
