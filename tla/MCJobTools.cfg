SPECIFICATION ToolsSpec

CONSTANTS
    None = None
    Stop = Stop
    p1 = p1
    p2 = p2
    s1 = s1
    s2 = s2
    Procs <- MCProcs
    Sessions <- MCSessions
    MaxCalls = 2

INVARIANT OneServer
INVARIANT StopsWhatItStarted
INVARIANT NothingLeftServing
INVARIANT NoCallOutlivesItsSession

PROPERTY JobsEnd
