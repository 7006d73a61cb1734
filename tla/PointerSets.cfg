CONSTANTS
    None = None
    Programs <- MCPrograms
    Orders <- MCOrders
SPECIFICATION Spec
INVARIANTS AliasEdgesExact ControlExact SeqChecked UnsafeAliasesFound NonAliasedExact UnsafeCastsKept
PROPERTY Terminates
