\* One phone that invites, to one of two clubs after the other, two codes, and
\* two concurrent attempts on one phone or on two: a code can be replaced while
\* one attempt holds it, another is about to query and a phone keeps a copy.
SPECIFICATION Spec
CONSTANTS
    Clubs = {k1, k2}
    Shares = {1}
    Pages = {p1}
    Codes = {c1, c2}
    Attempts = {a1, a2}
    Phones = {h1, h2}
    CountFrom = 1
    Null = Null
    Blank = Blank
SYMMETRY Symmetry
INVARIANTS
    TypeOK
    ShownCodeIsStored
    GrantMatchesInvitation
    ConsumedAfterAnswered
    ConsumedCodeStaysConsumed
PROPERTIES
    ImplementsLifecycle
    NoAdmissionAfterDelete
    NoUnexplainedLoss
CHECK_DEADLOCK FALSE
