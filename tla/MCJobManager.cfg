SPECIFICATION FairSpec

CONSTANTS
    None = None
    k1 = k1
    k2 = k2
    t1 = t1
    t2 = t2
    j1 = j1
    j2 = j2
    j3 = j3
    Keys <- MCKeys
    Threads <- MCThreads
    Jobs <- MCJobs
    Kinds <- MCKinds
    Results <- MCResults

INVARIANT NoJobLost
INVARIANT QueuedOnce
INVARIANT ResultBeforeDone

PROPERTY JobsFinish
PROPERTY ImplementsBoard

