\* One viewer, two commits and one fault: a change, and whatever another change
\* and a failure can do to it.  Two positions to a column: every second placement
\* renormalizes.
CONSTANTS
    c1 = c1  c2 = c2
    k1 = k1  k2 = k2
    Cards = {c1, c2}
    Columns = {k1, k2}
    MaxKey = 2
    Mutations = {m1}
    MaxCommits = 2
    MaxFaults = 1
    NoData = NoData
    Nothing = Nothing
    Tables <- MCTables
SPECIFICATION Spec
INVARIANTS
    TypeOK
    
PROPERTIES
    DeletedCardsStayGone
CHECK_DEADLOCK FALSE
