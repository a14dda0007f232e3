SPECIFICATION MCSpec
CONSTANTS
    Sockets = {s1, s2, s3}
    Few = {s1, s2}
    Rooms = {gate, cave}
    SafeRooms = {gate}
    Portal = gate
    Items = {sword, lamp}
    Uses <- MCUses
    s3 = s3
    None = None
    s1 = s1
    s2 = s2
    gate = gate
    cave = cave
    sword = sword
    lamp = lamp
INVARIANTS
    LocationAgreesInTurn
    SessionAlive
    Cancellable
PROPERTIES
    InventoryKeptInTurn
    AbandonedSettlesAny
CHECK_DEADLOCK FALSE
