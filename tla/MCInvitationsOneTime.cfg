\* Two attempts on the codes of one club.
SPECIFICATION Spec
CONSTANTS
    Clubs = {k1}
    Shares = {1}
    Pages = {p1}
    Codes = {c1, c2}
    Attempts = {a1, a2}
    Phones = {h1, h2}
    CountFrom = 1
    Null = Null
    Blank = Blank
INVARIANT OneTimeCode
CHECK_DEADLOCK FALSE
