SPECIFICATION Spec

CONSTANTS
    None = None
    Torn = Torn
    t1 = t1
    t2 = t2
    x1 = x1
    x2 = x2
    s1 = s1
    s2 = s2
    MaxVersion = 2
    Trips <- MCOneTrip
    Values <- MCValues
    Settings <- MCSettings

INVARIANT DocumentedIsCurrent
