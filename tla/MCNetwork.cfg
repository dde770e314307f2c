SPECIFICATION FairSpec
CONSTANTS
    sub1 = sub1
    sub2 = sub2
    once1 = once1
    home = home
    street = street
    alone = alone
    cell1 = cell1
    posA = posA
    posB = posB
    None = None
    Zero = Zero
    Client = {sub1, once1}
    Subscriber = {sub1}
    ApList = {home, alone}
    Sparse = {alone}
    Cell = {cell1}
    Pos = {posA}
    Worlds <- MCWorlds
    MaxQueries = 1
INVARIANTS
    TypeOK
    QuietWhenStopped
    RunsForClients
    NoFixAtZero
PROPERTIES
    OfflineIsReported
