CONSTANTS
    WideBits = 9
    Key <- MCKey
    Const <- MCConst
    Alloca <- MCAlloca
    Malloc <- MCMalloc
    ConstVal <- MCConstVal
    MallocSize <- MCMallocSize
    Width <- MCNarrow
    Stripped <- MCStripped
    Fn <- MCFn
    Root = Root
    None = None
    MaxVisits = 100
    MaxSize = 3
    Programs <- Looping
SPECIFICATION ExecSpec
INVARIANT AcceptedIndexInBounds
CHECK_DEADLOCK FALSE
PROPERTY EntryOnlyLosesPrecision
