\* Three requests at once and a worker.  Two drafts may want the same images; a
\* second link, or a second key to schedule under, would add only waits at the
\* first lock of a transaction, where it holds nothing.
SPECIFICATION Spec
CONSTANTS
    Threads = {t1, t2, t3}
    Workers = {w1}
    Links = {l1}
    Images = {i1, i2}
    Connections = {c1, c2}
    Publications = {u1}
    Drafts = {d1, d2}
    Schedulings = {s1}
    None = None
SYMMETRY Symmetry
INVARIANTS
    TypeOK
    CirclesNeedAJoin
    OnlyDecisionsCancelRecords
    WorkersNeverWaitForTheStore
