CONSTANTS
    WideBits = 7
    Key <- MCKey
    Const <- MCConst
    Alloca <- MCAlloca
    Malloc <- MCMalloc
    ConstVal <- MCConstVal
    MallocSize <- MCMallocSize
    Width <- MCWidth
    Stripped <- MCStripped
    Ptr <- MCPtr
    MaxSteps = 6
    MaxSize = 5
    Codes <- NegativeStored
SPECIFICATION Spec
CHECK_DEADLOCK FALSE
INVARIANT AcceptedInBounds
