SPECIFICATION FairSpec
CONSTANTS
    Types = {"A", "B"}
    Eh <- MCEh
    ThrowInfo <- MCThrowInfo
    NoInfo = NoInfo
    Graph <- MCGraph
    GraphAt <- MCGraphAt
    EntryAt <- MCEntryAt
    Edge <- MCEdge
    Arriving <- MCArriving
    Fns = {"guarded", "twice"}
INVARIANTS
    TypeOK
    LiveIsOwed
    NothingLeftBehind
PROPERTIES
    InnermostCatches
    UnwindingEnds
\* The function ends when the exception has gone on to its caller.
CHECK_DEADLOCK FALSE
