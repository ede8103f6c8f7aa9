\* Three concurrent requests on three cards and two columns.  The system
\* stops once every request is answered.
CONSTANTS
    Base = 4
    MaxLen = 3
    c1 = c1  c2 = c2  c3 = c3
    A = A  B = B
    Cards = {c1, c2, c3}
    Columns = {A, B}
    NoColumn = NoColumn
    Requests = {r1, r2, r3}
    MaxConflictRetries = 2
    Menu <- MCMenu
    Layouts <- MCLayouts
SPECIFICATION FairSpec
INVARIANTS
    TypeOK
    UniquePositions
PROPERTIES
    PlacedWhereAsked
    OthersKeepTheirOrder
    LosesOnlyWhenOvertaken
    EveryRequestAnswered
CHECK_DEADLOCK FALSE
