SPECIFICATION Spec
CONSTANTS
    Fns = {"nested", "quiet", "loud"}
    Types = {"A"}
    Eh <- MCEh
    ThrowInfo <- MCThrowInfo
    NoInfo = NoInfo
    MaxDepth = 6
    Main = "nested"
    Calls <- MCCalls
    CopyCalls = {"loud"}
    DestructorCalls = {}
    Throws <- MCThrows
    Rethrows = {}
PROPERTIES
    BugCheckIsJustified
