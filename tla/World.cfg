SPECIFICATION MCSpec
CONSTANTS
    Libs = {combat, utils}
    Sources = {v1, v2}
    Universes = {mud}
    Requests = {r1, r2}
    Wizards = {r1, r2}
    Admins = {r1}
    Ids = {hall, chest}
    Keys = {"name", "weight"}
    Calls = {c1, c2}
    MaxChanges = 3
    Custom = {"orc"}
    InPlay = {"orc", "npc", "living"}
    NoUniverse = NoUniverse
    MaxDefines = 2
    MaxRestarts = 1
    NoObject = NoObject
    Users = {c1, c2}
    NoEffect = NoEffect
    Types = {poisoned, stunned}
    MaxTicks = 2
    MaxPower = 1
    None = None
SYMMETRY Symmetry
INVARIANTS
    LibsResolve
    OnlyOverlapsLose
    InheritsNearest
    RestartKeepsEffects
CHECK_DEADLOCK FALSE
