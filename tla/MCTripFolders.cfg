\* Everything may have been purged.
CHECK_DEADLOCK FALSE
SPECIFICATION Spec

CONSTANTS
    None = None
    x1 = x1
    x2 = x2
    b1 = b1
    b2 = b2
    i1 = i1
    worker = worker
    MaxSuffix = 2
    Trips <- MCTrips
    Bases <- MCBases
    Movers <- MCMovers
    Boxes <- MCBoxes

SYMMETRY Symmetry

INVARIANT OnePlace
INVARIANT DocumentsStayWithReceipts
INVARIANT TrashIsRestorable

PROPERTY OnlyPurgeDestroys
PROPERTY ImplementsStore
