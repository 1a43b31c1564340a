\* Instants around the boundaries of the seconds, the minutes and the hours, up
\* to one that is past every draw.
SPECIFICATION FairSpec
CONSTANTS
    Instants = {0, 1, 1000, 1999, 2000, 2001, 60999, 61000, 61001, 3599999,
                3600000, 3659000, 3661000, 3661500, 3663500, 3663501, 7199001,
                7200000, 7203000}
    DrawDates = {2000, 61000, 3661500, 7200000}
    Skews <- MCSkews
    MaxAhead = 2500
    Ended = Ended
    Null = Null
INVARIANTS
    CountdownNotAhead
    EndedMeansPast
PROPERTY EndIsShown
