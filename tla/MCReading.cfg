SPECIFICATION MCSpec

CONSTANTS
    Trips = {t1, t2}
    Names = {a, b}
    Contents = {c1, c2, pale}
    Blank = {pale}
    MaxChanges = 1
    MaxRuns = 2
    None = None
    Torn = Torn
    Failed = Failed

SYMMETRY Symmetry

CHECK_DEADLOCK FALSE

INVARIANT HashesAreTrue
INVARIANT CacheIsTrue
INVARIANT ShownIsInFolder
INVARIANT EveryTripAccounted
