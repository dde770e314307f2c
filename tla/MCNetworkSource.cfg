SPECIFICATION Spec
CONSTANTS
    sub1 = sub1
    sub2 = sub2
    once1 = once1
    home = home
    street = street
    alone = alone
    cell1 = cell1
    posA = posA
    posB = posB
    None = None
    Zero = Zero
    Client = {sub1}
    Subscriber = {sub1}
    ApList = {home, street}
    Sparse = {}
    Cell = {}
    Pos = {posA, posB}
    Worlds <- MCNoFault
    MaxQueries = 1
INVARIANTS
    FixBackendIsSource
