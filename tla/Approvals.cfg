\* Two posts, three links and three concurrent requests.
CONSTANTS
    p1 = p1
    p2 = p2
    l1 = l1
    l2 = l2
    l3 = l3
    t1 = t1
    t2 = t2
    t3 = t3
    NoPost = NoPost
    NoLink = NoLink
    Posts = {p1, p2}
    Links = {l1, l2, l3}
    Threads = {t1, t2, t3}
SYMMETRY Symmetry
SPECIFICATION Spec
INVARIANTS
    TypeOK
    ApprovedOnce
    RoundsEndOnce
PROPERTIES
    ImplementsReview
