SPECIFICATION FairSpec
CONSTANTS
    TimerIds = {t1, t2}
    Owned = {t1}
    Programs = {p1, p2}
    Tickers = {k1}
    MaxCrashes = 1
    MaxFailures = 1
    t1 = t1
    t2 = t2
    p1 = p1
    p2 = p2
    k1 = k1
    None = None
INVARIANTS
    FiresOnce
    CancelledIsGone
    TimersSurvive
    MapMatchesTable
PROPERTIES
    CallsReturn
    FoundDueFires
