CONSTANTS
    WideBits = 7
    Key <- MCKey
    Const <- MCConst
    Alloca <- MCAlloca
    Malloc <- MCMalloc
    ConstVal <- MCConstVal
    MallocSize <- MCMallocSize
    Width <- MCWidth
    Stripped <- MCStripped
    Ptr <- MCPtr
    MaxSteps = 5
    MaxSize = 5
    Codes <- Sound
SPECIFICATION Spec
CHECK_DEADLOCK FALSE
INVARIANTS TypeOK AcceptedInBounds RoomNotOverstated
