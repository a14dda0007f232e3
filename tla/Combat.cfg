SPECIFICATION MCSpec
CONSTANTS
    Players = {a, b}
    Npcs = {npc}
    MaxHp = 3
    StartHp = 3
    DefaultHp = 4
    Damages = {1, 2}
    MaxCrashes = 1
    Rooms = {hall}
    Cap = 3
    hall = hall
    a = a
    b = b
    npc = npc
    None = None
INVARIANTS
    HpSaved
    SlainLeaveNothing
PROPERTIES
    HpNeverRises
    DeadAreRemoved
    CommandsAnswered
CHECK_DEADLOCK FALSE
