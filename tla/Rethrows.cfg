SPECIFICATION FairSpec
CONSTANTS
    Fns = {"nested", "retry"}
    Types = {"A"}
    Eh <- MCEh
    ThrowInfo <- MCThrowInfo
    NoInfo = NoInfo
    MaxDepth = 10
    Main = "nested"
    Calls <- MCCalls
    CopyCalls = {}
    DestructorCalls = {}
    Throws <- MCThrows
    Rethrows = {"retry"}
PROPERTIES
    BugCheckIsJustified
    ImplementsLifetime
    DispatchEnds
