SPECIFICATION Spec
CONSTANTS
    Pushed = {"rbp", "rdi", "rax"}
    Saved <- MCSaved
    Allocs = {32, 136, 1048608}
    FrameRegister = "rbp"
    Displacements = {0, 2}
    DynamicAllocs = {64}
    MaxInstructions = 6
INVARIANTS
    TypeOK
    ReadsEntries
    UnwoundIsCaller
    HandlerGetsFrame
    StopIsJustified
