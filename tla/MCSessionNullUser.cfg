\* One user who opens CreateClub while a logout is under way.
SPECIFICATION Spec
CONSTANTS
    Emails = {e1}
    Presses = {p1}
    Platform = "android"
    MaxDepth = 3
    Null = Null
INVARIANT PagesHaveUsers
