\* A page that is open across its draw.
SPECIFICATION Spec
CONSTANTS
    Instants = {0, 1, 1999, 2000, 2001, 61000, 3661500, 3670000}
    DrawDates = {2000, 3661500}
    Skews = {0, 2500}
    MaxAhead = 2500
    Ended = Ended
    Null = Null
INVARIANT CountdownTicks
