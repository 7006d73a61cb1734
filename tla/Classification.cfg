SPECIFICATION Spec
CONSTANTS
    g1 = g1
    g2 = g2
    x1 = x1
    x2 = x2
    x3 = x3
    f = f
    h = h
    Value <- MCValue
    Null = Null
    Fn <- MCFn
    None = None
    Global <- MCGlobal
    Programs <- MCPrograms
INVARIANTS
    TypeOK
    NoLostClassChange
    ProcessedStayUnsafe
    UnsafetyFlows
    RescanCatchesUp
PROPERTIES
    ClassesRise
    Terminates
