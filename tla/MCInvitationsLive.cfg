\* Liveness under fairness: no symmetry, one club.
SPECIFICATION FairSpec
CONSTANTS
    Clubs = {k1}
    Shares = {1}
    Pages = {p1}
    Codes = {c1, c2}
    Attempts = {a1}
    Phones = {h1}
    CountFrom = 2
    Null = Null
    Blank = Blank
PROPERTIES
    ReloadIsOffered
    EveryJoinEnds
CHECK_DEADLOCK FALSE
