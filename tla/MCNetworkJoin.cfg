SPECIFICATION FairSpec
CONSTANTS
    sub1 = sub1
    sub2 = sub2
    once1 = once1
    home = home
    street = street
    alone = alone
    cell1 = cell1
    posA = posA
    posB = posB
    None = None
    Zero = Zero
    Client = {sub1, sub2}
    Subscriber = {sub1, sub2}
    ApList = {home}
    Sparse = {}
    Cell = {}
    Pos = {posA}
    Worlds <- MCNoFault
    MaxQueries = 1
PROPERTIES
    RunningRequestAnswers
