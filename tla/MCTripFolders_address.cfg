\* Everything may have been purged.
CHECK_DEADLOCK FALSE
SPECIFICATION Spec

CONSTANTS
    None = None
    x1 = x1
    x2 = x2
    b1 = b1
    b2 = b2
    i1 = i1
    worker = worker
    MaxSuffix = 2
    Trips <- MCOneTrip
    Bases <- MCTwoBases
    Movers <- MCMovers
    Boxes <- MCBoxes

PROPERTY OldAddressLeadsToNew
