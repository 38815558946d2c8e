SPECIFICATION Spec
CONSTANTS
    Fns = {"siblings"}
    Types = {"A"}
    Eh <- MCEh
    ThrowInfo <- MCThrowInfo
    NoInfo = NoInfo
    MaxDepth = 5
    Main = "siblings"
    Calls <- MCCalls
    CopyCalls = {}
    DestructorCalls = {}
    Throws <- MCThrows
    Rethrows = {}
INVARIANTS
    DestroyedOnce
