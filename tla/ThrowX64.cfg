SPECIFICATION Spec
CONSTANTS
    Fns = {"nested", "quiet", "silent", "loud"}
    Types = {"A", "B"}
    Eh <- MCEh
    ThrowInfo <- MCThrowInfo
    NoInfo = NoInfo
    MaxDepth = 7
    Main = "nested"
    Calls <- MCCalls
    CopyCalls = {"silent"}
    DestructorCalls = {"silent", "loud"}
    Throws <- MCThrows
    Rethrows = {"nested", "quiet"}
INVARIANTS
    TypeOK
    StackShape
    OneOwner
    LinksReachOwner
    HandlersShareFrame
    CleanupsExact
    DestroyedOnce
    AliveIffReferred
PROPERTIES
    HandlerIsInnermost
    BugCheckIsJustified
    ImplementsLifetime
