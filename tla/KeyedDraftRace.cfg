\* The documented answer to a repeated request, with two at a time.
CONSTANTS
    k1 = k1
    c1 = c1
    c2 = c2
    t1 = t1
    t2 = t2
    None = None
    Keys = {k1}
    Contents = {c1, c2}
    Threads = {t1, t2}
SPECIFICATION Spec
PROPERTIES
    RepeatedDraftReturnsOriginal
