\* Two addresses posted from one login page, one club.
SPECIFICATION SpecAll
CONSTANTS
    Emails = {e1, e2}
    Presses = {p1, p2}
    Platform = "android"
    MaxDepth = 3
    Null = Null
    Clubs = {c1}
    Items = 1
INVARIANT SharesAreCreators
