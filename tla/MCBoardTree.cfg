\* Three concurrent requests on a small workspace of two boards.  The system
\* stops once every request is answered.
CONSTANTS
    owner = owner  guest = guest
    b1 = b1  b2 = b2  b3 = b3
    k1 = k1  k2 = k2  k3 = k3
    c1 = c1  c2 = c2
    x = x  y = y
    r1 = r1  r2 = r2  r3 = r3
    Users = {owner, guest}
    Boards = {b1, b2, b3}
    Columns = {k1, k2, k3}
    Cards = {c1, c2}
    Texts = {x, y}
    Empty = x
    Blank = Blank
    None = None
    Requests = {r1, r2, r3}
    Menu <- MCMenu
    Databases <- MCDatabases
SPECIFICATION Spec
SYMMETRY Symmetry
INVARIANTS
    TypeOK
    NoOrphans
    BoardsHaveTheirOwner
    OnlyAVanishedParentFailsAWrite
    
PROPERTIES
    WritesStayOnOnesOwnBoards
    UnnamedFieldsSurvive
    ReadsMissOnlyNewColumns
CHECK_DEADLOCK FALSE
