\* The system may stop: nobody has to send a request.
CHECK_DEADLOCK FALSE
SPECIFICATION TripsSpec

CONSTANTS
    None = None
    l1 = l1
    p1 = p1
    x1 = x1
    x2 = x2
    j1 = j1
    j2 = j2
    b1 = b1
    MaxSuffix = 3
    Threads <- MCThreads
    Loops <- MCLoops
    Trips <- MCTrips
    Jobs <- MCTwoJobs
    Uploaded <- MCUploaded
    Bases <- MCBases
    Kinds <- MCKinds
    Keys <- MCNames
    Results <- MCResults

INVARIANT OnlyFirstScreenCreates
