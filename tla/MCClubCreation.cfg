\* Two users, two CreateClub pages, a picker of two entries; one club, since
\* creations share nothing but the user and the pages.
SPECIFICATION FairSpec
CONSTANTS
    Emails = {e1, e2}
    Clubs = {c1}
    Pages = {p1, p2}
    Items = 2
    Null = Null
INVARIANTS
    TypeOK
    EntryIsCreators
    MissingEntryExplained
PROPERTIES
    CreationPays
    PageRecovers
