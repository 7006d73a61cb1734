CONSTANTS
    WideBits = 9
    Key <- MCKey
    Const <- MCConst
    Alloca <- MCAlloca
    Malloc <- MCMalloc
    ConstVal <- MCConstVal
    MallocSize <- MCMallocSize
    Width <- MCWidth
    Stripped <- MCStripped
    Fn <- MCFn
    Root = Root
    None = None
    MaxVisits = 25
    Programs <- AllPrograms
SPECIFICATION Spec
INVARIANTS NoLostBlock LimitNotReached CalleesAnalyzed
PROPERTY Terminates
