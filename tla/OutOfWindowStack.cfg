CONSTANTS
    Main = "main"
    None = None
    Window = 5
    Programs <- StaleStack
SPECIFICATION Spec
INVARIANT InWindowErased
