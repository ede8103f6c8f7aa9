\* The claim that no raw unique violation reaches a client.
CONSTANTS
    Base = 4
    MaxLen = 3
    c1 = c1  c2 = c2  c3 = c3
    A = A  B = B
    Cards = {c1, c2, c3}
    Columns = {A, B}
    NoColumn = NoColumn
    Requests = {r1, r2, r3}
    MaxConflictRetries = 2
    Menu <- MCMenu
    Layouts <- MCLayouts
SPECIFICATION Spec
INVARIANT
    NoRawConstraintError
CHECK_DEADLOCK FALSE
