\* A page that is stamped anew every 2 seconds and a scanner that refuses from
\* 3 seconds on.  With clocks 200 ms off either way a code is seen at ages
\* below, at and above both ends of the window: -400 to 400, 1000 to 1800,
\* 1600 to 2400 and 3000 to 3800 ms.
SPECIFICATION FairSpec
CONSTANTS
    Pages = {p1}
    Scanners = {s1}
    TimerSeconds = 2
    Expiry = 3
    Instants = {0, 2000, 3400}
    Skews <- MCSkews
    MaxSkew = 200
    MaxCodes = 2
    MaxVisits = 2
    MaxDepth = 5
    Null = Null
INVARIANTS
    TypeOK
    AdmittedInWindow
    ScreenIsFresh
    OneRequestPerVisit
PROPERTIES
    BaseLostInTransition
    JoinLeavesScanner
