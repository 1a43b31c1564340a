\* Two Dashboards at a time, and calls of two runs waiting for a topic.
SPECIFICATION FairSpec
CONSTANTS
    Clubs = {c1, c2}
    Runs = {r1, r2}
    MaxCalls = 2
INVARIANTS
    TopicsFollowList
    LatestListHeard
PROPERTY ListIsHeard
