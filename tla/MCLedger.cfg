\* Two phones make two payments in two accounts, under ids that may collide.
SPECIFICATION FairSpec
CONSTANTS
    Phones = {h1, h2}
    Accounts = {a1, a2}
    Payments = {p1, p2}
    Ids = {i1, i2}
    Amounts <- MCAmounts
    Empty = Empty
    Junk = Junk
    Null = Null
INVARIANTS
    LossExplained
    AmountIsTyped
    OnePaymentPerSheet
PROPERTIES
    ListsConverge
    ImplementsPayments

