SPECIFICATION MCSpec
CONSTANTS
    area = area
    room = room
    Accounts = {ann, ben}
    Wizards = {ann}
    Calls = {c1, c2}
    Segments = {area, room}
    Paths <- MCPaths
    Levels = {0, 2}
    MaxChanges = 1
    MaxGrants = 2
    MaxRestarts = 1
    Clients = {w1, w2}
    Names = {mia, ned}
    Passwords = {p, q}
    MaxTokens = 4
    None = None
    Nil = Nil
    ann = ann
    ben = ben
    c1 = c1
    c2 = c2
    w1 = w1
    w2 = w2
    mia = mia
    ned = ned
    p = p
    q = q
INVARIANTS
    DelegationHolds
    AnswersMatchTables
PROPERTIES
    ImplementsTokenBook
