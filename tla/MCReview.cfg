SPECIFICATION Spec

CONSTANTS
    None = None
    Unset = Unset
    r1 = r1
    r2 = r2
    no1 = no1
    Receipts <- MCReceipts
    Readings <- MCReadings
    Forms <- MCForms
    Confirmed <- MCConfirmed
    Verdicts <- MCVerdicts
    TripSettings <- MCTripSettings
    Adjustments <- MCAdjustments

SYMMETRY Symmetry

INVARIANT NothingPaidTwice
INVARIANT NightsFitTheTrip
INVARIANT ApprovedWithinClaim
INVARIANT FullDaysAreFullPay
