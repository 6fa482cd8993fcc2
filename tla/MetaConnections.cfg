\* Two journeys, which two brands may begin, two accounts with two channels each,
\* one of them copied before, and two concurrent callbacks.
CONSTANTS
    j1 = j1
    j2 = j2
    b1 = b1
    b2 = b2
    a1 = a1
    a2 = a2
    c1 = c1
    c2 = c2
    t1 = t1
    t2 = t2
    None = None
    Journeys = {j1, j2}
    Brands = {b1, b2}
    Accounts = {a1, a2}
    Channels = {c1, c2}
    Promoted <- MCPromoted
    Threads = {t1, t2}
SYMMETRY Symmetric
SPECIFICATION Spec
INVARIANTS
    TypeOK
    TokensStayInBrand
    PublicationsStayInBrand
PROPERTIES
    RevokedNeedsNewGrant
    ImplementsDirectory
