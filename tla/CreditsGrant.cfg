SPECIFICATION Spec
CONSTANTS
    Tasks = {t1, t2}
    Amounts = {1, 2}
    MaxBalance = 3
    MaxCrashes = 1
    Operations = {"get", "deduct", "grant"}
    Failures = FALSE
    t1 = t1
    t2 = t2
    None = None
PROPERTIES
    GrantAdds
