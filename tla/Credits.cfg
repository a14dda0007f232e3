SPECIFICATION MCSpec
CONSTANTS
    Tasks = {t1, t2}
    Amounts = {1, 2}
    MaxBalance = 3
    MaxCrashes = 1
    Operations = {"get", "deduct", "grant"}
    Failures = TRUE
    None = None
    WriterTasks = {t1, t2, t3}
    Accounts = {ann}
    Unit = 3
    MaxTokens = 2
    Rounding = 1
    Delay = 1
    MaxTime = 6
    NoBucket = NoBucket
    Rooms = {hall}
    Pictures = {pic1, pic2}
    Drawers = {t1, t2}
    MaxEdits = 1
    Nothing = Nothing
    ann = ann
    hall = hall
    pic1 = pic1
    pic2 = pic2
    t1 = t1
    t2 = t2
    t3 = t3
INVARIANTS
    NeverNegative
    CacheMatchesRow
    RefusedMeansInsufficient
    PicturesResolve
PROPERTIES
    CallsReturn
    WritersImplementCreditBook
    ImplementsTokenBucket
CHECK_DEADLOCK FALSE
