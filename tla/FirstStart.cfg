SPECIFICATION Spec
CONSTANTS
    Libs = {combat}
    Sources = {v1, v2}
    Universes = {mud}
    Requests = {r1}
    Wizards = {r1}
    Admins = {r1}
    None = None
INVARIANTS
    InitGivesValid
