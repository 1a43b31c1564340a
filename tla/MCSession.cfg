\* Two addresses, two presses of a button at once, stacks of four pages.
SPECIFICATION FairSpec
CONSTANTS
    Emails = {e1, e2}
    Presses = {p1, p2}
    Platform = "android"
    MaxDepth = 4
    Null = Null
INVARIANTS
    TypeOK
    LoginAtBottom
    PagesOfThisSession
    DashboardsListen
PROPERTY SplashEnds
