CONSTANTS
    Main = "main"
    None = None
    Window = 5
    Programs <- NonRecursive
SPECIFICATION Spec
INVARIANTS InWindowErased OnlyInWindowErased
PROPERTY Terminates
