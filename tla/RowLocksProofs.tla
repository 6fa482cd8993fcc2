--------------------------- MODULE RowLocksProofs ---------------------------
(***************************************************************************)
(* Theorems about RowLocks, for every number of threads, workers, links,     *)
(* images, connections, publications and rows being inserted.                *)
(***************************************************************************)
EXTENDS RowLocks, SequenceTheorems, FiniteSetTheorems, TLAPS

-----------------------------------------------------------------------------
\* The names of rows of different tables differ.
LEMMA Disjoint ==
    /\ \A r \in Single :
        /\ r \notin Links /\ r \notin Images /\ r \notin Connections
        /\ r \notin Publications /\ r \notin Drafts /\ r \notin Schedulings
    /\ \A r \in Links :
        /\ r \notin Images /\ r \notin Connections /\ r \notin Publications
        /\ r \notin Drafts /\ r \notin Schedulings
    /\ \A r \in Images :
        /\ r \notin Connections /\ r \notin Publications
        /\ r \notin Drafts /\ r \notin Schedulings
    /\ \A r \in Connections :
        r \notin Publications /\ r \notin Drafts /\ r \notin Schedulings
    /\ \A r \in Publications : r \notin Drafts /\ r \notin Schedulings
    /\ \A r \in Drafts : r \notin Schedulings
<1>1. /\ DOMAIN Tables = 1 .. 7
      /\ Tables[1] = Single /\ Tables[2] = Links /\ Tables[3] = Images
      /\ Tables[4] = Connections /\ Tables[5] = Publications
      /\ Tables[6] = Drafts /\ Tables[7] = Schedulings
  BY DEF Tables
<1>2. \A i, j \in 1 .. 7 : i # j => Tables[i] \cap Tables[j] = {}
  BY <1>1, RowsAssumption
<1> HIDE DEF Tables
<1>3. /\ Single \cap Links = {} /\ Single \cap Images = {}
      /\ Single \cap Connections = {} /\ Single \cap Publications = {}
      /\ Single \cap Drafts = {} /\ Single \cap Schedulings = {}
  BY <1>1, <1>2
<1>4. /\ Links \cap Images = {} /\ Links \cap Connections = {}
      /\ Links \cap Publications = {} /\ Links \cap Drafts = {}
      /\ Links \cap Schedulings = {}
  BY <1>1, <1>2
<1>5. /\ Images \cap Connections = {} /\ Images \cap Publications = {}
      /\ Images \cap Drafts = {} /\ Images \cap Schedulings = {}
  BY <1>1, <1>2
<1>6. /\ Connections \cap Publications = {} /\ Connections \cap Drafts = {}
      /\ Connections \cap Schedulings = {}
  BY <1>1, <1>2
<1>7. /\ Publications \cap Drafts = {} /\ Publications \cap Schedulings = {}
      /\ Drafts \cap Schedulings = {}
  BY <1>1, <1>2
<1> QED
  BY <1>3, <1>4, <1>5, <1>6, <1>7

\* No row that there is one of has the name of another one.
LEMMA SingleRows ==
    \A r \in {"workspace", "brand", "post", "variant", "account", "store"} :
        /\ r \in Single /\ r \in Rows
        /\ r \notin Links /\ r \notin Images /\ r \notin Connections
        /\ r \notin Publications /\ r \notin Drafts /\ r \notin Schedulings
BY Disjoint DEF Single, Rows

\* A selection is a sequence of rows.
LEMMA SelectionsAreSequences ==
    ASSUME NEW S, IsFiniteSet(S), NEW f \in Selections(S)
    PROVE  f \in Seq(S)
<1>1. PICK T \in SUBSET S : f \in SetToSeqs(T)
  BY DEF Selections
<1>2. Cardinality(T) \in Nat
  BY FS_Subset, FS_CardinalityType
<1>3. f \in [1 .. Cardinality(T) -> S]
  BY <1>1 DEF SetToSeqs
<1> QED
  BY <1>2, <1>3

-----------------------------------------------------------------------------
\* The services as sequences of locks.

Early == Images \cup Drafts \cup {"store"}

Planned(service, p) ==
    \/ service = "decide" /\ \E l \in Links : p = Decide(l)
    \/ service = "revoke" /\ \E l \in Links : p = Revoke(l)
    \/ service = "request" /\ p = RequestApproval
    \/ service = "approve" /\ p = Approve
    \/ /\ service = "draft"
       /\ \E d \in Drafts, images \in Galleries : p = Draft(d, images)
    \/ service = "draft" /\ p = ReplayDraft
    \/ /\ service = "schedule"
       /\ \E s \in Schedulings, c \in Connections : p = Schedule(s, c)
    \/ service = "schedule" /\ \E u \in Publications : p = ReplaySchedule(u)
    \/ service = "insert" /\ p = InsertOnly
    \/ service = "confirm" /\ \E i \in Images : p = Confirm(i)
    \/ service = "persist" /\ \E connections \in Grants :
        p = Persist(connections)
    \/ service = "claim" /\ \E u \in Publications, c \in Connections : p = Claim(u, c)
    \/ service = "record" /\ \E u \in Publications : p = Record(u)

\* The rows that are locked FOR KEY SHARE unless they are only joined.
Shared == {"workspace", "brand", "variant"}

\* What is true of one lock of a service.
Allowed(service, h) ==
    /\ h \in Locks
    /\ ~h.joined /\ h.row \in Shared => h.mode = "share"
    /\ h.row = "store" => h = AskStore
    /\ service \in {"claim", "record"} => h.row \notin Early

\* What is true of a lock and of a later one of the same service.
Before(service, k, h) ==
    /\ h.row \notin Publications
    /\ service = "record" => k.row \in Publications \/ k = KeyShare("workspace")
    /\ h.row = "workspace" /\ h.mode = "update" =>
        service = "decide" \/ k.row \in Publications
    /\ h.row \in Early => k.row \in Early
    /\ /\ ~k.joined /\ k.row \notin Shared /\ k # AskStore
       /\ ~h.joined /\ h.row \notin Shared /\ h # AskStore
       => \/ k.row \in Links /\ h.row = "post"
          \/ /\ service = "draft"
             /\ k.row \in Drafts \cup Images /\ h.row \in Images
          \/ /\ service = "schedule"
             /\ k.row \in Schedulings /\ h.row \in Connections
          \/ /\ service = "persist"
             /\ k.row \in {"account"} \cup Connections /\ h.row \in Connections

InOrder(service, p) ==
    /\ p \in Seq(Locks)
    /\ p # <<>>
    /\ \A j \in 1 .. Len(p) :
        /\ Allowed(service, p[j])
        /\ \A i \in 1 .. j - 1 : Before(service, p[i], p[j])
    /\ service = "persist" => p[1] = Own("account")

\* A service goes on with locks that are in order among themselves and after
\* those it has.
LEMMA Continued ==
    ASSUME NEW service, NEW p, InOrder(service, p), NEW q \in Seq(Locks),
           \A j \in 1 .. Len(q) :
              /\ Allowed(service, q[j])
              /\ \A i \in 1 .. j - 1 : Before(service, q[i], q[j])
              /\ \A i \in 1 .. Len(p) : Before(service, p[i], q[j])
    PROVE  InOrder(service, p \o q)
<1>1. p \in Seq(Locks) /\ p # <<>>
  BY DEF InOrder
<1>2. /\ p \o q \in Seq(Locks)
      /\ Len(p \o q) = Len(p) + Len(q)
      /\ \A i \in 1 .. Len(p) + Len(q) :
            (p \o q)[i] = IF i <= Len(p) THEN p[i] ELSE q[i - Len(p)]
  BY <1>1, ConcatProperties
<1>3. Len(p) \in Nat /\ Len(p) > 0 /\ Len(q) \in Nat
  BY <1>1, EmptySeq, LenProperties
<1>4. p \o q # <<>> /\ (p \o q)[1] = p[1]
  BY <1>2, <1>3, EmptySeq
<1>5. ASSUME NEW j \in 1 .. Len(p) + Len(q)
      PROVE  /\ Allowed(service, (p \o q)[j])
             /\ \A i \in 1 .. j - 1 : Before(service, (p \o q)[i], (p \o q)[j])
  <2>1. CASE j <= Len(p)
    <3>1. j \in 1 .. Len(p) /\ (p \o q)[j] = p[j]
      BY <1>2, <1>3, <2>1
    <3>2. \A i \in 1 .. j - 1 : (p \o q)[i] = p[i]
      BY <1>2, <1>3, <2>1
    <3> QED
      BY <3>1, <3>2 DEF InOrder
  <2>2. CASE j > Len(p)
    <3>1. /\ j - Len(p) \in 1 .. Len(q)
          /\ (p \o q)[j] = q[j - Len(p)]
      BY <1>2, <1>3, <2>2
    <3>2. ASSUME NEW i \in 1 .. j - 1
          PROVE  Before(service, (p \o q)[i], (p \o q)[j])
      <4>1. CASE i <= Len(p)
        BY <1>2, <1>3, <3>1, <4>1
      <4>2. CASE i > Len(p)
        <5>1. i - Len(p) \in 1 .. (j - Len(p)) - 1 /\ (p \o q)[i] = q[i - Len(p)]
          BY <1>2, <1>3, <2>2, <4>2
        <5> QED
          BY <3>1, <5>1
      <4> QED
        BY <1>3, <4>1, <4>2
    <3> QED
      BY <3>1, <3>2
  <2> QED
    BY <1>3, <2>1, <2>2
<1> QED
  BY <1>2, <1>4, <1>5 DEF InOrder

\* Sequences of one lock and of two.
LEMMA ShortSequences ==
    \A a, b \in Locks :
        /\ <<a>> \in Seq(Locks) /\ Len(<<a>>) = 1 /\ <<a>>[1] = a
        /\ <<a, b>> \in Seq(Locks) /\ Len(<<a, b>>) = 2 /\ <<a, b>>[1] = a
        /\ <<a, b>>[2] = b
OBVIOUS

\* A service that goes on with two locks.
LEMMA TwoMore ==
    ASSUME NEW service, NEW p, InOrder(service, p),
           NEW a, Allowed(service, a), NEW b, Allowed(service, b),
           Before(service, a, b),
           \A i \in 1 .. Len(p) : Before(service, p[i], a) /\ Before(service, p[i], b)
    PROVE  InOrder(service, p \o <<a, b>>)
<1> DEFINE q == <<a, b>>
<1>1. q \in Seq(Locks) /\ Len(q) = 2 /\ q[1] = a /\ q[2] = b
  BY ShortSequences DEF Allowed
<1> HIDE DEF q
<1>2. \A j \in 1 .. Len(q) : Allowed(service, q[j])
  BY <1>1
<1>3. \A j \in 1 .. Len(q) : \A i \in 1 .. j - 1 : Before(service, q[i], q[j])
  BY <1>1
<1>4. \A j \in 1 .. Len(q) : \A i \in 1 .. Len(p) : Before(service, p[i], q[j])
  BY <1>1
<1>5. InOrder(service, p \o q)
  BY <1>1, <1>2, <1>3, <1>4, Continued
<1> QED
  BY <1>5 DEF q

\* A service that has its own locks goes on with those of its event.
LEMMA ThenAudit ==
    ASSUME NEW service, NEW p, InOrder(service, p),
           service = "record" => \A i \in 1 .. Len(p) : p[i].row \in Publications
    PROVE  InOrder(service, p \o Audit)
<1>1. /\ Allowed(service, KeyShare("workspace"))
      /\ Allowed(service, KeyShare("brand"))
      /\ Before(service, KeyShare("workspace"), KeyShare("brand"))
  BY SingleRows DEF Allowed, Before, Shared, Early, KeyShare, AskStore, Locks
<1>2. ASSUME NEW i \in 1 .. Len(p)
      PROVE  /\ Before(service, p[i], KeyShare("workspace"))
             /\ Before(service, p[i], KeyShare("brand"))
  BY SingleRows DEF Before, Shared, Early, KeyShare
<1> QED
  BY <1>1, <1>2, TwoMore DEF Audit

\* Services of one lock and of several.
LEMMA One ==
    ASSUME NEW service, NEW a, Allowed(service, a),
           service = "persist" => a = Own("account")
    PROVE  InOrder(service, <<a>>)
<1>1. <<a>> \in Seq(Locks) /\ <<a>> # <<>> /\ Len(<<a>>) = 1 /\ <<a>>[1] = a
  BY DEF Allowed
<1> QED
  BY <1>1 DEF InOrder

\* Two locks.
LEMMA Two ==
    ASSUME NEW service, service # "persist",
           NEW a, NEW b,
           Allowed(service, a), Allowed(service, b),
           Before(service, a, b)
    PROVE  InOrder(service, <<a, b>>)
<1>1. {a, b} \subseteq Locks
  BY DEF Allowed
<1>2. <<a, b>> \in Seq(Locks) /\ <<a, b>> # <<>> /\ Len(<<a, b>>) = 2
  BY <1>1
<1>3. \A j \in 1 .. 2 :
        /\ Allowed(service, <<a, b>>[j])
        /\ \A i \in 1 .. j - 1 : Before(service, <<a, b>>[i], <<a, b>>[j])
  OBVIOUS
<1> QED
  BY <1>2, <1>3 DEF InOrder

\* Three locks.
LEMMA Three ==
    ASSUME NEW service, service # "persist",
           NEW a, NEW b, NEW c,
           Allowed(service, a), Allowed(service, b), Allowed(service, c),
           Before(service, a, b), Before(service, a, c), Before(service, b, c)
    PROVE  InOrder(service, <<a, b, c>>)
<1>1. {a, b, c} \subseteq Locks
  BY DEF Allowed
<1>2. <<a, b, c>> \in Seq(Locks) /\ <<a, b, c>> # <<>> /\ Len(<<a, b, c>>) = 3
  BY <1>1
<1>3. \A j \in 1 .. 3 :
        /\ Allowed(service, <<a, b, c>>[j])
        /\ \A i \in 1 .. j - 1 : Before(service, <<a, b, c>>[i], <<a, b, c>>[j])
  OBVIOUS
<1> QED
  BY <1>2, <1>3 DEF InOrder

\* Four locks.
LEMMA Four ==
    ASSUME NEW service, service # "persist",
           NEW a, NEW b, NEW c, NEW d,
           Allowed(service, a), Allowed(service, b), Allowed(service, c),
           Allowed(service, d),
           Before(service, a, b), Before(service, a, c),
           Before(service, a, d), Before(service, b, c),
           Before(service, b, d), Before(service, c, d)
    PROVE  InOrder(service, <<a, b, c, d>>)
<1>1. {a, b, c, d} \subseteq Locks
  BY DEF Allowed
<1>2. <<a, b, c, d>> \in Seq(Locks) /\ <<a, b, c, d>> # <<>> /\ Len(<<a, b, c, d>>) = 4
  BY <1>1
<1>3. \A j \in 1 .. 4 :
        /\ Allowed(service, <<a, b, c, d>>[j])
        /\ \A i \in 1 .. j - 1 : Before(service, <<a, b, c, d>>[i], <<a, b, c, d>>[j])
  OBVIOUS
<1> QED
  BY <1>2, <1>3 DEF InOrder

\* Five locks.
LEMMA Five ==
    ASSUME NEW service, service # "persist",
           NEW a, NEW b, NEW c, NEW d, NEW e,
           Allowed(service, a), Allowed(service, b), Allowed(service, c),
           Allowed(service, d), Allowed(service, e),
           Before(service, a, b), Before(service, a, c),
           Before(service, a, d), Before(service, a, e),
           Before(service, b, c), Before(service, b, d),
           Before(service, b, e), Before(service, c, d),
           Before(service, c, e), Before(service, d, e)
    PROVE  InOrder(service, <<a, b, c, d, e>>)
<1>1. {a, b, c, d, e} \subseteq Locks
  BY DEF Allowed
<1>2. <<a, b, c, d, e>> \in Seq(Locks) /\ <<a, b, c, d, e>> # <<>> /\ Len(<<a, b, c, d, e>>) = 5
  BY <1>1
<1>3. \A j \in 1 .. 5 :
        /\ Allowed(service, <<a, b, c, d, e>>[j])
        /\ \A i \in 1 .. j - 1 : Before(service, <<a, b, c, d, e>>[i], <<a, b, c, d, e>>[j])
  OBVIOUS
<1> QED
  BY <1>2, <1>3 DEF InOrder

\* A service that locks some rows of a table after its first lock.
LEMMA ThenRows ==
    ASSUME NEW service, NEW a, InOrder(service, <<a>>),
           NEW T, IsFiniteSet(T), NEW f \in Selections(T),
           \A r \in T : /\ Allowed(service, Own(r))
                      /\ Before(service, a, Own(r))
                      /\ \A k \in T : Before(service, Own(k), Own(r))
    PROVE  InOrder(service, <<a>> \o [i \in DOMAIN f |-> Own(f[i])])
<1> DEFINE q == [i \in DOMAIN f |-> Own(f[i])]
<1>1. /\ f \in Seq(T) /\ Len(f) \in Nat /\ DOMAIN f = 1 .. Len(f)
      /\ \A i \in 1 .. Len(f) : f[i] \in T
  BY SelectionsAreSequences, LenProperties
<1>2. \A r \in T : Own(r) \in Locks
  BY DEF Allowed
<1>3. q \in Seq(Locks)
  BY <1>1, <1>2
<1>4. Len(q) = Len(f)
  BY <1>1, <1>2
<1>5. \A j \in 1 .. Len(f) : q[j] = Own(f[j])
  BY <1>1
<1>6. <<a>>[1] = a /\ Len(<<a>>) = 1
  OBVIOUS
<1> HIDE DEF q
<1>7. \A j \in 1 .. Len(q) : Allowed(service, q[j]) /\ Before(service, <<a>>[1], q[j])
  BY <1>1, <1>4, <1>5, <1>6
<1>8. \A j \in 1 .. Len(q) : \A i \in 1 .. j - 1 : Before(service, q[i], q[j])
  <2> SUFFICES ASSUME NEW j \in 1 .. Len(q), NEW i \in 1 .. j - 1
               PROVE  Before(service, q[i], q[j])
    OBVIOUS
  <2>1. i \in 1 .. Len(f) /\ j \in 1 .. Len(f)
    BY <1>1, <1>4
  <2>2. q[i] = Own(f[i]) /\ q[j] = Own(f[j]) /\ f[i] \in T /\ f[j] \in T
    BY <1>1, <1>5, <2>1
  <2> QED
    BY <2>2
<1>9. InOrder(service, <<a>> \o q)
  BY <1>3, <1>6, <1>7, <1>8, Continued
<1> QED
  BY <1>9 DEF q

-----------------------------------------------------------------------------
\* The approvals.
LEMMA DecideInOrder ==
    ASSUME NEW l \in Links
    PROVE  InOrder("decide", Decide(l))
<1>1. /\ l \in Rows /\ l \notin Images /\ l \notin Publications
      /\ l \notin Single /\ l \notin Connections /\ l \notin Drafts
  BY Disjoint DEF Rows
<1>2. /\ Allowed("decide", Own(l)) /\ Allowed("decide", Joined("brand"))
      /\ Allowed("decide", Joined("workspace")) /\ Allowed("decide", Own("post"))
  BY <1>1, SingleRows DEF Allowed, Shared, Early, Single, Own, Joined, Locks
<1>3. /\ Before("decide", Own(l), Joined("brand"))
      /\ Before("decide", Own(l), Joined("workspace"))
      /\ Before("decide", Own(l), Own("post"))
      /\ Before("decide", Joined("brand"), Joined("workspace"))
      /\ Before("decide", Joined("brand"), Own("post"))
      /\ Before("decide", Joined("workspace"), Own("post"))
  BY <1>1, SingleRows DEF Before, Shared, Early, Single, Own, Joined, AskStore
<1> QED
  BY <1>2, <1>3, Four, ThenAudit DEF Decide

\* The revocation.
LEMMA RevokeInOrder ==
    ASSUME NEW l \in Links
    PROVE  InOrder("revoke", Revoke(l))
<1>1. /\ l \in Rows /\ l \notin Images /\ l \notin Publications
      /\ l \notin Single /\ l \notin Connections /\ l \notin Drafts
  BY Disjoint DEF Rows
<1>2. /\ Allowed("revoke", Own(l)) /\ Allowed("revoke", Joined("brand"))
      /\ Allowed("revoke", Joined("post"))
  BY <1>1, SingleRows DEF Allowed, Shared, Early, Single, Own, Joined, Locks
<1>3. /\ Before("revoke", Own(l), Joined("brand"))
      /\ Before("revoke", Own(l), Joined("post"))
      /\ Before("revoke", Joined("brand"), Joined("post"))
  BY <1>1, SingleRows DEF Before, Shared, Early, Single, Own, Joined, AskStore
<1> QED
  BY <1>2, <1>3, Three, ThenAudit DEF Revoke

\* The request for an approval.
LEMMA RequestInOrder == InOrder("request", RequestApproval)
<1>1. /\ Allowed("request", Own("post")) /\ Allowed("request", KeyShare("brand"))
      /\ Allowed("request", KeyShare("workspace"))
  BY SingleRows DEF Allowed, Shared, Early, Own, KeyShare, Locks
<1>2. /\ Before("request", Own("post"), KeyShare("brand"))
      /\ Before("request", Own("post"), KeyShare("workspace"))
      /\ Before("request", KeyShare("brand"), KeyShare("workspace"))
  BY SingleRows DEF Before, Shared, Early, Own, KeyShare, AskStore
<1> QED
  BY <1>1, <1>2, Three DEF RequestApproval

\* The approval by a member.
LEMMA ApproveInOrder == InOrder("approve", Approve)
<1>1. Allowed("approve", Own("post"))
  BY SingleRows DEF Allowed, Shared, Early, Own, Locks
<1> QED
  BY <1>1, One, ThenAudit DEF Approve

-----------------------------------------------------------------------------
\* Drafts and publications.
LEMMA DraftInOrder ==
    ASSUME NEW d \in Drafts, NEW images \in Galleries
    PROVE  InOrder("draft", Draft(d, images))
<1>1. /\ d \in Rows /\ d \notin Single /\ d \notin Publications
      /\ \A i \in Images : i \in Rows /\ i \notin Single /\ i \notin Publications
  BY Disjoint DEF Rows
<1>2. Allowed("draft", Own(d))
  BY <1>1 DEF Allowed, Shared, Early, Single, Own, Locks
<1>3. \A i \in Images :
        /\ Allowed("draft", Own(i))
        /\ Before("draft", Own(d), Own(i))
        /\ \A k \in Images : Before("draft", Own(k), Own(i))
  BY <1>1 DEF Allowed, Before, Shared, Early, Single, Own, Locks
<1>4. InOrder("draft", <<Own(d)>>)
  BY <1>2, One
<1>5. InOrder("draft", <<Own(d)>> \o [i \in DOMAIN images |-> Own(images[i])])
  BY <1>3, <1>4, ThenRows, FiniteAssumption DEF Galleries
<1> QED
  BY <1>5, ThenAudit DEF Draft

\* A draft whose key is known.
LEMMA ReplayDraftInOrder == InOrder("draft", ReplayDraft)
<1>1. Allowed("draft", Own("post"))
  BY SingleRows DEF Allowed, Shared, Early, Own, Locks
<1> QED
  BY <1>1, One DEF ReplayDraft

\* A scheduling.
LEMMA ScheduleInOrder ==
    ASSUME NEW s \in Schedulings, NEW c \in Connections
    PROVE  InOrder("schedule", Schedule(s, c))
<1>1. /\ c \in Rows /\ c \notin Single /\ c \notin Images /\ c \notin Drafts
      /\ c \notin Publications
      /\ s \in Rows /\ s \notin Single /\ s \notin Images /\ s \notin Drafts
  BY Disjoint DEF Rows
<1>2. /\ Allowed("schedule", Own(s)) /\ Allowed("schedule", KeyShare(c))
      /\ Allowed("schedule", KeyShare("variant"))
  BY <1>1, SingleRows DEF Allowed, Shared, Early, Single, Own, KeyShare, Locks
<1>3. Before("schedule", Own(s), KeyShare(c))
  BY <1>1 DEF Before, Shared, Early, Single, Own, KeyShare, AskStore
<1>4. \A k : Before("schedule", k, KeyShare("variant"))
  BY SingleRows DEF Before, Shared, Early, KeyShare
<1> QED
  BY <1>2, <1>3, <1>4, Three, ThenAudit DEF Schedule

\* A scheduling whose key is known.
LEMMA ReplayScheduleInOrder ==
    ASSUME NEW u \in Publications
    PROVE  InOrder("schedule", ReplaySchedule(u))
<1>1. u \in Rows /\ u \notin Single
  BY Disjoint DEF Rows
<1>2. Allowed("schedule", Own(u))
  BY <1>1 DEF Allowed, Shared, Early, Single, Own, Locks
<1> QED
  BY <1>2, One DEF ReplaySchedule

-----------------------------------------------------------------------------
\* Uploads and connections.
LEMMA InsertInOrder == InOrder("insert", InsertOnly)
<1>1. /\ Allowed("insert", KeyShare("workspace")) /\ Allowed("insert", KeyShare("brand"))
      /\ Before("insert", KeyShare("workspace"), KeyShare("brand"))
  BY SingleRows DEF Allowed, Before, Shared, Early, KeyShare, AskStore, Locks
<1> QED
  BY <1>1, Two DEF InsertOnly, Audit

\* The confirmation of an image, with its question to the object store.
LEMMA ConfirmInOrder ==
    ASSUME NEW i \in Images
    PROVE  InOrder("confirm", Confirm(i))
<1>1. i \in Rows /\ i \notin Single /\ i \notin Publications
  BY Disjoint DEF Rows
<1>2. /\ Allowed("confirm", Own(i)) /\ Allowed("confirm", AskStore)
      /\ Before("confirm", Own(i), AskStore)
  BY <1>1, SingleRows
  DEF Allowed, Before, Shared, Early, Single, Own, KeyShare, AskStore, Locks
<1> QED
  BY <1>2, Two, ThenAudit DEF Confirm

\* The connections of an account.
LEMMA PersistInOrder ==
    ASSUME NEW connections \in Grants
    PROVE  InOrder("persist", Persist(connections))
<1>1. \A c \in Connections :
        /\ c \in Rows /\ c \notin Single /\ c \notin Publications
        /\ c \notin Images /\ c \notin Drafts
  BY Disjoint DEF Rows
<1>2. Allowed("persist", Own("account"))
  BY SingleRows DEF Allowed, Shared, Early, Own, Locks
<1>3. \A c \in Connections :
        /\ Allowed("persist", Own(c))
        /\ Before("persist", Own("account"), Own(c))
        /\ \A k \in Connections : Before("persist", Own(k), Own(c))
  BY <1>1 DEF Allowed, Before, Shared, Early, Single, Own, Locks
<1>4. InOrder("persist", <<Own("account")>>)
  BY <1>2, One
<1>5. InOrder("persist",
        <<Own("account")>> \o [i \in DOMAIN connections |-> Own(connections[i])])
  BY <1>3, <1>4, ThenRows, FiniteAssumption DEF Grants
<1> QED
  BY <1>5, ThenAudit DEF Persist

-----------------------------------------------------------------------------
\* The worker.
LEMMA ClaimInOrder ==
    ASSUME NEW u \in Publications, NEW c \in Connections
    PROVE  InOrder("claim", Claim(u, c))
<1>1. /\ u \in Rows /\ u \notin Single /\ u \notin Images /\ u \notin Drafts
      /\ c \in Rows /\ c \notin Single /\ c \notin Images /\ c \notin Drafts
      /\ c \notin Publications
  BY Disjoint DEF Rows
<1>2. /\ Allowed("claim", Own(u)) /\ Allowed("claim", Joined("workspace"))
      /\ Allowed("claim", Joined("brand")) /\ Allowed("claim", Joined("variant"))
      /\ Allowed("claim", Joined(c))
  BY <1>1, SingleRows DEF Allowed, Shared, Early, Single, Own, Joined, Locks
<1>3. \A k : /\ Before("claim", k, Joined("brand"))
             /\ Before("claim", k, Joined("variant"))
             /\ Before("claim", k, Joined(c))
  BY <1>1, SingleRows DEF Before, Shared, Early, Single, Joined
<1>4. Before("claim", Own(u), Joined("workspace"))
  BY SingleRows DEF Before, Shared, Early, Own, Joined
<1> QED
  BY <1>2, <1>3, <1>4, Five DEF Claim

\* The record of an outcome.
LEMMA RecordInOrder ==
    ASSUME NEW u \in Publications
    PROVE  InOrder("record", Record(u))
<1>1. u \in Rows /\ u \notin Single /\ u \notin Images /\ u \notin Drafts
  BY Disjoint DEF Rows
<1>2. Allowed("record", Own(u))
  BY <1>1 DEF Allowed, Shared, Early, Single, Own, Locks
<1>3. <<Own(u)>>[1].row \in Publications /\ Len(<<Own(u)>>) = 1
  BY DEF Own
<1> QED
  BY <1>2, <1>3, One, ThenAudit DEF Record

\* Every service takes its locks in order.
LEMMA PlannedInOrder ==
    ASSUME NEW service, NEW p, Planned(service, p)
    PROVE  InOrder(service, p)
BY DecideInOrder, RevokeInOrder, RequestInOrder, ApproveInOrder, DraftInOrder,
   ReplayDraftInOrder, ScheduleInOrder, ReplayScheduleInOrder, InsertInOrder,
   ConfirmInOrder, PersistInOrder, ClaimInOrder, RecordInOrder
DEF Planned

-----------------------------------------------------------------------------
\* The invariant.  A client has taken the first locks of a service, in order, and
\* wants the others.
Progress(t) ==
    IF doing[t] = "idle" THEN wants[t] = <<>> /\ holds[t] = {}
    ELSE \E p \in Seq(Locks) : \E n \in 0 .. Len(p) :
            /\ Planned(doing[t], p)
            /\ wants[t] = SubSeq(p, n + 1, Len(p))
            /\ holds[t] = {p[i] : i \in 1 .. n} \ {AskStore}

InProgress == \A t \in Clients : Progress(t)

\* Only threads execute the services of requests.
Roles == \A t \in Clients : doing[t] \notin {"idle", "claim", "record"} => t \in Threads

\* No two clients have locks that exclude each other.
Exclusive ==
    \A s, t \in Clients : s # t =>
        \A k \in holds[s], l \in holds[t] : ~Conflict(k, l)

IInv == TypeOK /\ InProgress /\ Roles /\ Exclusive

-----------------------------------------------------------------------------
\* The kinds of step: one client begins, acquires or ends.

\* A client that begins a service has taken none of its locks.
LEMMA Begun ==
    ASSUME IInv, NEW t \in Clients, NEW service, NEW p,
           Planned(service, p), service \in Services,
           service \in {"claim", "record"} \/ t \in Threads,
           Begin(t, service, p)
    PROVE  IInv'
<1>1. p \in Seq(Locks)
  BY PlannedInOrder DEF InOrder
<1>2. TypeOK'
  BY <1>1 DEF IInv, TypeOK, Begin
<1>3. Roles'
  BY DEF IInv, TypeOK, Roles, Begin
<1>4. Exclusive'
  BY DEF IInv, TypeOK, Exclusive, Begin
<1>5. InProgress'
  <2> SUFFICES ASSUME NEW s \in Clients
               PROVE  Progress(s)'
    BY DEF InProgress
  <2>1. CASE s = t
    <3>1. doing'[s] = service /\ wants'[s] = p /\ holds'[s] = {} /\ service # "idle"
      BY <2>1 DEF IInv, TypeOK, Begin, InProgress, Progress, Services
    <3>2. p = SubSeq(p, 0 + 1, Len(p)) /\ 0 \in 0 .. Len(p)
      BY <1>1, SubSeqFull, LenProperties
    <3>3. {} = {p[i] : i \in 1 .. 0} \ {AskStore}
      OBVIOUS
    <3> QED
      BY <1>1, <3>1, <3>2, <3>3 DEF Progress
  <2>2. CASE s # t
    <3>1. doing'[s] = doing[s] /\ wants'[s] = wants[s] /\ holds'[s] = holds[s]
      BY <2>2 DEF IInv, TypeOK, Begin
    <3> QED
      BY <3>1 DEF IInv, InProgress, Progress
  <2> QED
    BY <2>1, <2>2
<1> QED
  BY <1>2, <1>3, <1>4, <1>5 DEF IInv

\* The first lock that is wanted is the next one of the service.
LEMMA NextLock ==
    ASSUME IInv, NEW t \in Clients, wants[t] # <<>>
    PROVE  \E p \in Seq(Locks) : \E n \in 0 .. Len(p) :
            /\ doing[t] # "idle"
            /\ Planned(doing[t], p)
            /\ holds[t] = {p[i] : i \in 1 .. n} \ {AskStore}
            /\ n + 1 \in 1 .. Len(p)
            /\ Head(wants[t]) = p[n + 1]
            /\ Tail(wants[t]) = SubSeq(p, n + 2, Len(p))
<1>1. doing[t] # "idle"
  BY DEF IInv, InProgress, Progress
<1>2. PICK p \in Seq(Locks) : \E n \in 0 .. Len(p) :
            /\ Planned(doing[t], p)
            /\ wants[t] = SubSeq(p, n + 1, Len(p))
            /\ holds[t] = {p[i] : i \in 1 .. n} \ {AskStore}
  BY <1>1 DEF IInv, InProgress, Progress
<1>3. PICK n \in 0 .. Len(p) :
            /\ Planned(doing[t], p)
            /\ wants[t] = SubSeq(p, n + 1, Len(p))
            /\ holds[t] = {p[i] : i \in 1 .. n} \ {AskStore}
  BY <1>2
<1>4. Len(p) \in Nat /\ n \in Nat /\ n <= Len(p)
  BY LenProperties
<1>5. n # Len(p)
  <2>1. n + 1 > Len(p) => SubSeq(p, n + 1, Len(p)) = <<>>
    BY <1>4, SubSeqEmpty
  <2> QED
    BY <1>3, <1>4, <2>1
<1>6. n + 1 \in 1 .. Len(p) /\ Len(p) \in n + 1 .. Len(p)
  BY <1>4, <1>5
<1>7. /\ Head(SubSeq(p, n + 1, Len(p))) = p[n + 1]
      /\ Tail(SubSeq(p, n + 1, Len(p))) = SubSeq(p, (n + 1) + 1, Len(p))
  BY <1>6, HeadTailOfSubSeq
<1>8. (n + 1) + 1 = n + 2
  BY <1>4
<1> QED
  BY <1>1, <1>3, <1>6, <1>7, <1>8

\* A client that acquires a lock has one more, which excludes nobody's.
LEMMA Acquired ==
    ASSUME IInv, NEW t \in Clients, Acquire(t)
    PROVE  IInv'
<1>0. PICK p \in Seq(Locks) : \E n \in 0 .. Len(p) :
            /\ doing[t] # "idle"
            /\ Planned(doing[t], p)
            /\ holds[t] = {p[i] : i \in 1 .. n} \ {AskStore}
            /\ n + 1 \in 1 .. Len(p)
            /\ Head(wants[t]) = p[n + 1]
            /\ Tail(wants[t]) = SubSeq(p, n + 2, Len(p))
  BY NextLock DEF Acquire
<1>1. PICK n \in 0 .. Len(p) :
            /\ doing[t] # "idle"
            /\ Planned(doing[t], p)
            /\ holds[t] = {p[i] : i \in 1 .. n} \ {AskStore}
            /\ n + 1 \in 1 .. Len(p)
            /\ Head(wants[t]) = p[n + 1]
            /\ Tail(wants[t]) = SubSeq(p, n + 2, Len(p))
  BY <1>0
<1> DEFINE h == Head(wants[t])
<1>2. h \in Locks
  BY <1>1
<1>3. n \in Nat /\ Len(p) \in Nat
  BY LenProperties
<1>4. holds'[t] = {p[i] : i \in 1 .. n + 1} \ {AskStore}
  <2>1. holds'[t] = IF h = AskStore THEN holds[t] ELSE holds[t] \cup {h}
    BY DEF IInv, TypeOK, Acquire
  <2>2. {p[i] : i \in 1 .. n + 1} = {p[i] : i \in 1 .. n} \cup {p[n + 1]}
    BY <1>3
  <2> QED
    BY <1>1, <2>1, <2>2
<1>5. wants'[t] = SubSeq(p, (n + 1) + 1, Len(p))
  BY <1>1, <1>3 DEF IInv, TypeOK, Acquire
<1>6. \A s \in Clients : s # t =>
        doing'[s] = doing[s] /\ wants'[s] = wants[s] /\ holds'[s] = holds[s]
  BY DEF IInv, TypeOK, Acquire
<1>7. doing' = doing /\ call' = call
  BY DEF Acquire
<1>8. holds'[t] \subseteq holds[t] \cup {h} /\ (holds'[t] # holds[t] => h # AskStore)
  BY DEF IInv, TypeOK, Acquire
<1>9. TypeOK'
  <2>1. Tail(wants[t]) \in Seq(Locks)
    BY HeadTailProperties DEF IInv, TypeOK, Acquire
  <2>2. wants' = [wants EXCEPT ![t] = Tail(@)]
    BY DEF Acquire
  <2>3. wants' \in [Clients -> Seq(Locks)]
    BY <2>1, <2>2 DEF IInv, TypeOK
  <2>4. holds' \in [Clients -> SUBSET Locks]
    BY <1>2 DEF IInv, TypeOK, Acquire
  <2> QED
    BY <1>7, <2>3, <2>4 DEF IInv, TypeOK
<1>10. Roles'
  BY <1>7 DEF IInv, Roles
<1>11. Exclusive'
  <2>1. \A s \in Clients : s # t => \A k \in holds[s] : ~Conflict(h, k) /\ ~Conflict(k, h)
    BY DEF Acquire, WaitsFor, Conflict
  <2> SUFFICES ASSUME NEW r \in Clients, NEW s \in Clients, r # s,
                      NEW k \in holds'[r], NEW l \in holds'[s]
               PROVE  ~Conflict(k, l)
    BY DEF Exclusive
  <2>2. CASE r = t
    <3>1. l \in holds[s] /\ (k \in holds[t] \/ k = h)
      BY <1>6, <1>8, <2>2
    <3> QED
      BY <2>1, <2>2, <3>1 DEF IInv, Exclusive
  <2>3. CASE s = t
    <3>1. k \in holds[r] /\ (l \in holds[t] \/ l = h)
      BY <1>6, <1>8, <2>3
    <3> QED
      BY <2>1, <2>3, <3>1 DEF IInv, Exclusive
  <2>4. CASE r # t /\ s # t
    BY <1>6, <2>4 DEF IInv, Exclusive
  <2> QED
    BY <2>2, <2>3, <2>4
<1>12. InProgress'
  <2> SUFFICES ASSUME NEW s \in Clients
               PROVE  Progress(s)'
    BY DEF InProgress
  <2>1. CASE s = t
    <3>1. n + 1 \in 0 .. Len(p)
      BY <1>1, <1>3
    <3> QED
      BY <1>1, <1>4, <1>5, <1>7, <2>1, <3>1 DEF Progress
  <2>2. CASE s # t
    BY <1>6, <2>2 DEF IInv, InProgress, Progress
  <2> QED
    BY <2>1, <2>2
<1> QED
  BY <1>9, <1>10, <1>11, <1>12 DEF IInv

\* A client that ends has nothing.
LEMMA Released ==
    ASSUME IInv, NEW t \in Clients, Release(t),
           call' \in [Workers -> Publications \cup {None}]
    PROVE  IInv'
<1>1. TypeOK'
  <2>1. <<>> \in Seq(Locks)
    OBVIOUS
  <2> QED
    BY <2>1 DEF IInv, TypeOK, Release
<1>2. Roles'
  BY DEF IInv, TypeOK, Roles, Release
<1>3. Exclusive'
  BY DEF IInv, TypeOK, Exclusive, Release
<1>4. InProgress'
  <2> SUFFICES ASSUME NEW s \in Clients
               PROVE  Progress(s)'
    BY DEF InProgress
  <2>1. CASE s = t
    BY <2>1 DEF IInv, TypeOK, Release, Progress
  <2>2. CASE s # t
    <3>1. doing'[s] = doing[s] /\ wants'[s] = wants[s] /\ holds'[s] = holds[s]
      BY <2>2 DEF IInv, TypeOK, Release
    <3> QED
      BY <3>1 DEF IInv, InProgress, Progress
  <2> QED
    BY <2>1, <2>2
<1> QED
  BY <1>1, <1>2, <1>3, <1>4 DEF IInv

-----------------------------------------------------------------------------
\* The actions.

\* What a thread begins is a service.
LEMMA RequestBegun ==
    ASSUME IInv, NEW t \in Threads, BeginRequest(t)
    PROVE  IInv'
<1>1. PICK service, p : /\ service \in Services
                        /\ Planned(service, p)
                        /\ Begin(t, service, p)
  BY DEF BeginRequest, Planned, Services
<1> QED
  BY <1>1, Begun DEF Clients

\* A transaction ends.
LEMMA Committed ==
    ASSUME IInv, NEW t \in Clients, Commit(t)
    PROVE  IInv'
<1>1. call' \in [Workers -> Publications \cup {None}]
  BY DEF IInv, TypeOK, Commit
<1> QED
  BY <1>1, Released DEF Commit

\* A transaction is rolled back.
LEMMA RolledBack ==
    ASSUME IInv, NEW t \in Clients, Rollback(t)
    PROVE  IInv'
<1>1. call' \in [Workers -> Publications \cup {None}]
  BY DEF IInv, TypeOK, Rollback
<1> QED
  BY <1>1, Released DEF Rollback

\* The invariant holds at the start, and every step keeps it.
LEMMA Initially == Init => IInv
<1> SUFFICES ASSUME Init
             PROVE  IInv
  OBVIOUS
<1>1. TypeOK
  <2>1. <<>> \in Seq(Locks)
    OBVIOUS
  <2> QED
    BY <2>1 DEF Init, TypeOK
<1>2. InProgress /\ Roles /\ Exclusive
  BY DEF Init, InProgress, Progress, Roles, Exclusive
<1> QED
  BY <1>1, <1>2 DEF IInv

\* Every step keeps the invariant.
LEMMA Stepwise == IInv /\ [Next]_vars => IInv'
<1> SUFFICES ASSUME IInv, [Next]_vars
             PROVE  IInv'
  OBVIOUS
<1>1. ASSUME NEW t \in Threads, BeginRequest(t)
      PROVE  IInv'
  BY <1>1, RequestBegun
<1>2. ASSUME NEW w \in Workers, BeginRecord(w)
      PROVE  IInv'
  <2>1. w \in Clients /\ call[w] \in Publications
    BY <1>2 DEF IInv, TypeOK, BeginRecord, Clients
  <2>2. Planned("record", Record(call[w])) /\ "record" \in Services
    BY <2>1 DEF Planned, Services
  <2> QED
    BY <1>2, <2>1, <2>2, Begun DEF BeginRecord
<1>3. ASSUME NEW w \in Workers, NEW u \in Publications, NEW c \in Connections,
             BeginClaim(w, u, c)
      PROVE  IInv'
  <2>1. w \in Clients /\ Planned("claim", Claim(u, c)) /\ "claim" \in Services
    BY DEF Clients, Planned, Services
  <2> QED
    BY <1>3, <2>1, Begun DEF BeginClaim
<1>4. ASSUME NEW t \in Clients, Acquire(t) \/ Commit(t) \/ Rollback(t)
      PROVE  IInv'
  BY <1>4, Acquired, Committed, RolledBack
<1>5. CASE UNCHANGED vars
  BY <1>5 DEF vars, IInv, TypeOK, InProgress, Progress, Roles, Exclusive
<1> QED
  BY <1>1, <1>2, <1>3, <1>4, <1>5 DEF Next

\* Whatever is done to the database, every transaction is somewhere in the sequence
\* of its locks and excludes the others from those it has.
THEOREM Invariant == Spec => []IInv
BY Initially, Stepwise, PTL DEF Spec

\* Every reachable state is well typed.
THEOREM TypesHold == Spec => []TypeOK
<1>1. IInv => TypeOK
  BY DEF IInv
<1> QED
  BY Invariant, <1>1, PTL

-----------------------------------------------------------------------------
\* What is true of what a client waits for and of what it has.
LEMMA Waiting ==
    ASSUME IInv, NEW t \in Clients, wants[t] # <<>>
    PROVE  /\ doing[t] # "idle"
           /\ Allowed(doing[t], Head(wants[t]))
           /\ \A k \in holds[t] :
                /\ Before(doing[t], k, Head(wants[t]))
                /\ Allowed(doing[t], k)
                /\ k # AskStore
           /\ doing[t] = "persist" /\ holds[t] # {} => Own("account") \in holds[t]
<1>0. PICK p \in Seq(Locks) : \E n \in 0 .. Len(p) :
            /\ doing[t] # "idle"
            /\ Planned(doing[t], p)
            /\ holds[t] = {p[i] : i \in 1 .. n} \ {AskStore}
            /\ n + 1 \in 1 .. Len(p)
            /\ Head(wants[t]) = p[n + 1]
  BY NextLock
<1>1. PICK n \in 0 .. Len(p) :
            /\ doing[t] # "idle"
            /\ Planned(doing[t], p)
            /\ holds[t] = {p[i] : i \in 1 .. n} \ {AskStore}
            /\ n + 1 \in 1 .. Len(p)
            /\ Head(wants[t]) = p[n + 1]
  BY <1>0
<1>2. InOrder(doing[t], p)
  BY <1>1, PlannedInOrder
<1>3. n \in Nat /\ Len(p) \in Nat
  BY LenProperties
<1>4. Allowed(doing[t], p[n + 1])
  BY <1>1, <1>2 DEF InOrder
<1>5. \A i \in 1 .. n : Before(doing[t], p[i], p[n + 1]) /\ Allowed(doing[t], p[i])
  <2> SUFFICES ASSUME NEW i \in 1 .. n
               PROVE  Before(doing[t], p[i], p[n + 1]) /\ Allowed(doing[t], p[i])
    OBVIOUS
  <2>1. i \in 1 .. (n + 1) - 1 /\ i \in 1 .. Len(p)
    BY <1>1, <1>3
  <2> QED
    BY <1>1, <1>2, <2>1 DEF InOrder
<1>6. doing[t] = "persist" /\ holds[t] # {} => Own("account") \in holds[t]
  <2> SUFFICES ASSUME doing[t] = "persist", holds[t] # {}
               PROVE  Own("account") \in holds[t]
    OBVIOUS
  <2>1. n # 0
    BY <1>1
  <2>2. p[1] = Own("account") /\ 1 \in 1 .. n
    BY <1>2, <1>3, <2>1 DEF InOrder
  <2>3. Own("account") # AskStore
    BY DEF Own, AskStore
  <2> QED
    BY <1>1, <2>2, <2>3
<1> QED
  BY <1>1, <1>4, <1>5, <1>6

\* A lock that a client has is one of its service.
LEMMA Holding ==
    ASSUME IInv, NEW t \in Clients, NEW k \in holds[t]
    PROVE  Allowed(doing[t], k)
<1>1. doing[t] # "idle"
  BY DEF IInv, InProgress, Progress
<1>2. PICK p \in Seq(Locks) : \E n \in 0 .. Len(p) :
            /\ Planned(doing[t], p)
            /\ holds[t] = {p[i] : i \in 1 .. n} \ {AskStore}
  BY <1>1 DEF IInv, InProgress, Progress
<1>3. PICK n \in 0 .. Len(p), i \in 1 .. Len(p) : Planned(doing[t], p) /\ k = p[i]
  BY <1>2, LenProperties
<1> QED
  BY <1>3, PlannedInOrder DEF InOrder

\* The question to the object store is no lock: nobody has it.
LEMMA NotTheStore ==
    ASSUME IInv, NEW t \in Clients, NEW k \in holds[t]
    PROVE  k # AskStore
BY DEF IInv, InProgress, Progress

\* No worker waits for the object store: whoever has an image, or the key of a
\* new post, and still waits is a thread, and so is whoever waits for it.
THEOREM StoreIsForThreads == Spec => []WorkersNeverWaitForTheStore
<1>1. IInv => WorkersNeverWaitForTheStore
  <2> SUFFICES ASSUME IInv
               PROVE  WorkersNeverWaitForTheStore
    OBVIOUS
  <2> DEFINE waiting == {t \in Clients : wants[t] # <<>> /\ Head(wants[t]).row \in Early}
  <2>1. waiting \subseteq Threads
    <3> SUFFICES ASSUME NEW t \in Clients, wants[t] # <<>>, Head(wants[t]).row \in Early
                 PROVE  t \in Threads
      OBVIOUS
    <3>1. doing[t] \notin {"idle", "claim", "record"}
      BY Waiting DEF Allowed
    <3> QED
      BY <3>1 DEF IInv, Roles
  <2>2. \A t \in Clients : AsksStore(t) => t \in waiting
    <3>1. AskStore.row = "store"
      BY DEF AskStore
    <3> QED
      BY <3>1 DEF AsksStore, Early
  <2>3. ASSUME NEW t \in Clients, NEW s \in waiting, WaitsFor(t, s)
        PROVE  t \in waiting
    <3>1. PICK k \in holds[s] : Conflict(Head(wants[t]), k)
      BY <2>3 DEF WaitsFor
    <3>2. k.row \in Early
      BY Waiting DEF Before
    <3>3. wants[t] # <<>> /\ Head(wants[t]).row = k.row
      BY <2>3, <3>1 DEF WaitsFor, Conflict
    <3> QED
      BY <3>2, <3>3
  <2> QED
    BY <2>1, <2>2, <2>3 DEF WorkersNeverWaitForTheStore
<1> QED
  BY Invariant, <1>1, PTL

\* In a circle everyone is waited for: without somebody whom nobody waits for the
\* others would be a smaller one.
LEMMA CirclesAreTight ==
    ASSUME NEW C \in SUBSET Clients, Circle(C), NEW t \in C
    PROVE  \E s \in C : WaitsFor(s, t)
<1> SUFFICES ASSUME \A s \in C : ~WaitsFor(s, t)
             PROVE  FALSE
  OBVIOUS
<1>1. \A r \in C : \E s \in C : WaitsFor(r, s)
  BY DEF Circle, Knot
<1>2. PICK s \in C : WaitsFor(t, s)
  BY <1>1
<1>3. s # t
  BY <1>2 DEF WaitsFor
<1>4. \A r \in C \ {t} : \E q \in C \ {t} : WaitsFor(r, q)
  BY <1>1
<1>5. Knot(C \ {t}, WaitsFor)
  BY <1>3, <1>4 DEF Knot
<1>6. C \ {t} = C
  BY <1>5, Zenon DEF Circle
<1> QED
  BY <1>6

\* Every publication is the first lock of whoever locks it: a transaction that has
\* nothing but publications is in no circle.
LEMMA PublicationsAreFirst ==
    ASSUME IInv, NEW C \in SUBSET Clients, Circle(C), NEW t \in C, NEW s \in C, WaitsFor(t, s)
    PROVE  Head(wants[t]).row \notin Publications
<1>1. PICK r \in C : WaitsFor(r, t)
  BY CirclesAreTight
<1>2. PICK k \in holds[t] : TRUE
  BY <1>1 DEF WaitsFor
<1> QED
  BY <1>2, Waiting DEF WaitsFor, Before

\* Whoever is in a circle with the record of an outcome waits for a workspace that
\* the record's event refers to, and has more than a publication: it decides.
THEOREM RecordsYieldToDecisions == Spec => []OnlyDecisionsCancelRecords
<1>1. IInv => OnlyDecisionsCancelRecords
  <2> SUFFICES ASSUME IInv, NEW C \in SUBSET Clients, Circle(C),
                      NEW w \in C, doing[w] = "record"
               PROVE  \E t \in C : doing[t] = "decide"
    BY DEF OnlyDecisionsCancelRecords
  <2>1. PICK t \in C : WaitsFor(t, w)
    BY CirclesAreTight
  <2>2. PICK k \in holds[w] : Conflict(Head(wants[t]), k)
    BY <2>1 DEF WaitsFor
  <2>3. wants[w] # <<>>
    BY DEF Circle, Knot, WaitsFor
  <2>4. k.row \in Publications \/ k = KeyShare("workspace")
    BY <2>2, <2>3, Waiting DEF Before
  <2>5. k.row \notin Publications
    BY <2>1, <2>2, PublicationsAreFirst DEF Conflict
  <2>6. Head(wants[t]).row = "workspace" /\ Head(wants[t]).mode = "update"
    BY <2>2, <2>4, <2>5 DEF Conflict, KeyShare
  <2>7. PICK r \in C : WaitsFor(r, t)
    BY CirclesAreTight
  <2>8. PICK l \in holds[t] : Conflict(Head(wants[r]), l)
    BY <2>7 DEF WaitsFor
  <2>9. l.row \notin Publications
    BY <2>7, <2>8, PublicationsAreFirst DEF Conflict
  <2>10. wants[t] # <<>>
    BY <2>1 DEF WaitsFor
  <2> QED
    BY <2>6, <2>8, <2>9, <2>10, Waiting DEF Before
<1> QED
  BY Invariant, <1>1, PTL

\* A wait in order is for a row that somebody has locked FOR UPDATE as its own.
LEMMA OrderedWait ==
    ASSUME IInv, NEW x \in Clients, NEW y \in Clients, WaitsInOrder(x, y)
    PROVE  /\ wants[x] # <<>> /\ ~Head(wants[x]).joined /\ Head(wants[x]) # AskStore
           /\ Head(wants[x]).row \notin Shared
           /\ \E k \in holds[y] : k.row = Head(wants[x]).row /\ ~k.joined
<1>1. PICK k \in holds[y] : ~k.joined /\ Conflict(Head(wants[x]), k)
  BY DEF WaitsInOrder
<1>2. Head(wants[x]).row \in Shared => Head(wants[x]).mode = "share"
  BY Waiting DEF WaitsInOrder, Allowed
<1>3. k.row \in Shared => k.mode = "share"
  BY <1>1, Holding DEF Allowed
<1>4. Head(wants[x]).row \notin Shared
  BY <1>1, <1>2, <1>3 DEF Conflict
<1>5. Head(wants[x]) # AskStore
  <2>1. k.row # "store"
    BY Holding, NotTheStore DEF Allowed
  <2> QED
    BY <1>1, <2>1 DEF Conflict, AskStore
<1> QED
  BY <1>1, <1>4, <1>5 DEF WaitsInOrder, Conflict

\* Somebody who is waited for in order and waits in order: what it has, and what it
\* waits for.
LEMMA OrderedWaits ==
    ASSUME IInv, NEW r \in Clients, NEW s \in Clients, NEW q \in Clients,
           WaitsInOrder(r, s), WaitsInOrder(s, q)
    PROVE  \/ Head(wants[r]).row \in Links /\ Head(wants[s]).row = "post"
           \/ /\ Head(wants[r]).row \in Drafts \cup Images
              /\ Head(wants[s]).row \in Images
              /\ doing[s] = "draft" /\ doing[q] # "draft"
           \/ /\ Head(wants[r]).row \in Schedulings
              /\ Head(wants[s]).row \in Connections
           \/ /\ Head(wants[r]).row \in {"account"} \cup Connections
              /\ Head(wants[s]).row \in Connections
              /\ Own("account") \in holds[s]
<1>1. PICK k \in holds[s] : k.row = Head(wants[r]).row /\ ~k.joined
  BY OrderedWait
<1>2. k.row \notin Shared
  BY <1>1, OrderedWait
<1>3. /\ wants[s] # <<>> /\ ~Head(wants[s]).joined /\ Head(wants[s]) # AskStore
      /\ Head(wants[s]).row \notin Shared
  BY OrderedWait
<1>4. /\ Before(doing[s], k, Head(wants[s])) /\ k # AskStore
      /\ doing[s] = "persist" => Own("account") \in holds[s]
  BY <1>3, Waiting
<1>5. doing[s] = "draft" /\ Head(wants[s]).row \in Images => doing[q] # "draft"
  BY DEF WaitsInOrder, BetweenDrafts
<1> QED
  BY <1>1, <1>2, <1>3, <1>4, <1>5 DEF Before

\* Of waits in order, one after the other, the second is for the post, for a
\* confirmation that has nothing but its image, or for a connection, and only the
\* last goes on: to a client that has locked the account, as the next one has.
THEOREM WaitsAreOrdered == Spec => []CirclesNeedAJoin
<1>1. IInv => CirclesNeedAJoin
  <2> SUFFICES ASSUME IInv, NEW C \in SUBSET Clients, C # {},
                      \A x \in C : \E y \in C : WaitsInOrder(x, y)
               PROVE  FALSE
    BY Zenon DEF CirclesNeedAJoin, Knot
  <2>1. \A x \in C : x \in Clients /\ \E y \in C : WaitsInOrder(x, y)
    OBVIOUS
  <2>2. PICK t \in C : TRUE
    OBVIOUS
  <2>3. PICK s \in C : WaitsInOrder(t, s)
    BY <2>1
  <2>4. PICK r \in C : WaitsInOrder(s, r)
    BY <2>1
  <2>5. PICK q \in C : WaitsInOrder(r, q)
    BY <2>1
  <2>6. PICK o \in C : WaitsInOrder(q, o)
    BY <2>1
  <2>7. \/ Head(wants[s]).row = "post"
        \/ Head(wants[s]).row \in Images /\ doing[r] # "draft"
        \/ Head(wants[s]).row \in Connections
    BY <2>1, <2>3, <2>4, OrderedWaits
  <2>8. Head(wants[s]).row # "post"
    BY <2>1, <2>4, <2>5, OrderedWaits, SingleRows
  <2>9. ~(Head(wants[s]).row \in Images /\ doing[r] # "draft")
    BY <2>1, <2>4, <2>5, OrderedWaits, SingleRows, Disjoint
  <2>10. Own("account") \in holds[r] /\ Head(wants[r]).row \in Connections
    BY <2>1, <2>4, <2>5, <2>7, <2>8, <2>9, OrderedWaits, SingleRows, Disjoint
  <2>11. Own("account") \in holds[q]
    BY <2>1, <2>5, <2>6, <2>10, OrderedWaits, SingleRows, Disjoint
  <2>12. r # q
    BY <2>5 DEF WaitsInOrder
  <2> QED
    BY <2>1, <2>10, <2>11, <2>12 DEF IInv, Exclusive, Conflict, Own
<1> QED
  BY Invariant, <1>1, PTL

=============================================================================
