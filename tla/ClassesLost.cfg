SPECIFICATION Spec
CONSTANTS
    Custom = {"orc"}
    InPlay = {"orc", "npc"}
    Keys = {"name"}
    Universes = {mud}
    NoUniverse = NoUniverse
    MaxDefines = 2
    MaxRestarts = 1
    None = None
INVARIANTS
    ClassesSurvive
CHECK_DEADLOCK FALSE
