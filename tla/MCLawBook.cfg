SPECIFICATION Spec

CONSTANTS
    Callers = {web, cli}
    LastLaw = 2
    Effective <- MCEffective
    DayTicks = 2
    MaxTime = 4
    MaxNotices = 4
    None = None

SYMMETRY Symmetry

INVARIANT OnlineBookIsCurrent
INVARIANT TripsGetTheirLaw
INVARIANT AmendmentsAnnounced
INVARIANT BookIsFound
