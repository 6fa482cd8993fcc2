------------------------------ MODULE RowLocks ------------------------------
(***************************************************************************)
(* The row locks of PostgreSQL that the services of Relay take, one by one. *)
(*                                                                         *)
(*   relay/approvals/services.py     request, revoke, decide                *)
(*   relay/api/services.py           draft, approve, schedule               *)
(*   relay/content/services.py       upload intent, confirm, ready images   *)
(*   relay/social/services.py        start, persist                         *)
(*   relay/publications/services.py  claim and record                       *)
(*                                                                         *)
(* A transaction is the sequence of the locks it needs and is here nothing  *)
(* else.  SELECT ... FOR UPDATE locks one row of every table it joins, in   *)
(* the order of its FROM clause, hence also those that select_related joins *)
(* in order to read them.  Foreign keys are DEFERRABLE INITIALLY DEFERRED,  *)
(* as Django makes them: a row that is inserted locks the rows it refers to *)
(* FOR KEY SHARE when its transaction commits.                              *)
(*                                                                         *)
(* There is one post with one variant in one brand of one workspace, apart  *)
(* from what is being created: the smaller the world, the more its requests *)
(* meet.                                                                    *)
(***************************************************************************)
EXTENDS Naturals, Sequences, FiniteSets, SequencesExt

CONSTANTS
    Threads,       \* threads of gunicorn
    Workers,       \* Celery workers
    Links,         \* rows of ApprovalRequest, all for the one post
    Images,        \* rows of MediaAsset
    Connections,   \* rows of ChannelConnection, all of one account
    Publications,  \* rows of Publication, all of the one variant
    Drafts,        \* rows of Post that are being inserted, by their keys
    Schedulings,   \* rows of Publication that are being inserted, by their keys
    None           \* no publication

\* The rows that there is one of, and the object store.
Single == {"workspace", "brand", "post", "variant", "account", "store"}

Tables ==
    <<Single, Links, Images, Connections, Publications, Drafts, Schedulings>>

ASSUME RowsAssumption ==
    \A i, j \in DOMAIN Tables : i # j => Tables[i] \cap Tables[j] = {}
ASSUME FiniteAssumption == IsFiniteSet(Images) /\ IsFiniteSet(Connections)
ASSUME NoneAssumption == None \notin Publications

VARIABLES
    doing,  \* the service each thread or worker is executing
    wants,  \* the locks it has still to take, in order
    holds,  \* the locks it has
    call    \* the publication for which each worker is calling Meta

vars == <<doing, wants, holds, call>>

Clients == Threads \cup Workers

\* A lock that a statement takes on a row it is about, on a row it only joins,
\* and that the check of a foreign key takes.
Own(r) == [row |-> r, mode |-> "update", joined |-> FALSE]
Joined(r) == [row |-> r, mode |-> "update", joined |-> TRUE]
KeyShare(r) == [row |-> r, mode |-> "share", joined |-> FALSE]

\* Not a lock: the transaction waits for the object store.
AskStore == [row |-> "store", mode |-> "call", joined |-> FALSE]

\* FOR UPDATE excludes everything, FOR KEY SHARE only FOR UPDATE.
Conflict(k, l) == k.row = l.row /\ "update" \in {k.mode, l.mode}

-----------------------------------------------------------------------------
\* The services.  The event that each of them adds to the audit log refers to
\* the workspace and the brand; PostgreSQL checks the keys of a row in the order
\* in which the migrations add them.
Audit == <<KeyShare("workspace"), KeyShare("brand")>>

Decide(l) ==
    <<Own(l), Joined("brand"), Joined("workspace"), Own("post")>> \o Audit
Revoke(l) == <<Own(l), Joined("brand"), Joined("post")>> \o Audit
RequestApproval == <<Own("post"), KeyShare("brand"), KeyShare("workspace")>>
Approve == <<Own("post")>> \o Audit

\* An insert holds its key until it commits: a second one for the key waits for
\* it.  A draft locks its images in the order in which the query finds them.
Draft(d, images) ==
    <<Own(d)>> \o [i \in DOMAIN images |-> Own(images[i])] \o Audit
ReplayDraft == <<Own("post")>>
Schedule(s, c) ==
    <<Own(s), KeyShare(c), KeyShare("variant")>> \o Audit
ReplaySchedule(u) == <<Own(u)>>

\* create_media_upload_intent and start_meta_oauth insert rows and lock none.
InsertOnly == Audit

\* Mutant: the image is locked together with its brand, which the event needs.
ConfirmWithBrand(i) == <<Own(i), Joined("brand"), AskStore>> \o Audit
Confirm(i) == <<Own(i), AskStore>> \o Audit

\* Mutant: the account is read and not locked.
PersistUnlocked(connections) ==
    [i \in DOMAIN connections |-> Own(connections[i])] \o Audit

\* update_or_create locks the account, then the connections one by one in the
\* order in which Meta lists them.
Persist(connections) ==
    <<Own("account")>> \o [i \in DOMAIN connections |-> Own(connections[i])]
        \o Audit

Claim(u, c) ==
    <<Own(u), Joined("workspace"), Joined("brand"), Joined("variant"), Joined(c)>>

\* Mutant: the publication is read again with what the event needs.
RecordJoined(u) ==
    <<Own(u), Joined("workspace"), Joined("brand")>> \o Audit

\* An attempt is only locked after its publication, and is left out here.
Record(u) == <<Own(u)>> \o Audit

Services ==
    {"decide", "revoke", "request", "approve", "draft", "schedule", "insert",
     "confirm", "persist", "claim", "record"}

Rows ==
    Single \cup Links \cup Images \cup Connections \cup Publications
        \cup Drafts \cup Schedulings

Locks == [row : Rows, mode : {"update", "share", "call"}, joined : BOOLEAN]

TypeOK ==
    /\ doing \in [Clients -> Services \cup {"idle"}]
    /\ wants \in [Clients -> Seq(Locks)]
    /\ holds \in [Clients -> SUBSET Locks]
    /\ call \in [Workers -> Publications \cup {None}]

Init ==
    /\ doing = [t \in Clients |-> "idle"]
    /\ wants = [t \in Clients |-> <<>>]
    /\ holds = [t \in Clients |-> {}]
    /\ call = [w \in Workers |-> None]

-----------------------------------------------------------------------------
Begin(t, service, locks) ==
    /\ doing[t] = "idle"
    /\ doing' = [doing EXCEPT ![t] = service]
    /\ wants' = [wants EXCEPT ![t] = locks]
    /\ UNCHANGED <<holds, call>>

\* Some images, or some connections, in some order.
Selections(S) == UNION {SetToSeqs(T) : T \in SUBSET S}
Galleries == Selections(Images)
Grants == Selections(Connections)

BeginRequest(t) ==
    \/ \E l \in Links :
        Begin(t, "decide", Decide(l)) \/ Begin(t, "revoke", Revoke(l))
    \/ Begin(t, "request", RequestApproval)
    \/ Begin(t, "approve", Approve)
    \/ \E d \in Drafts, images \in Galleries :
        Begin(t, "draft", Draft(d, images))
    \/ Begin(t, "draft", ReplayDraft)
    \/ \E s \in Schedulings, c \in Connections :
        Begin(t, "schedule", Schedule(s, c))
    \/ \E u \in Publications : Begin(t, "schedule", ReplaySchedule(u))
    \/ Begin(t, "insert", InsertOnly)
    \/ \E i \in Images : Begin(t, "confirm", Confirm(i))
    \/ \E connections \in Grants :
        Begin(t, "persist", Persist(connections))

\* The claim selects a publication in SCHEDULED, not one that is being called for.
BeginClaim(w, u, c) ==
    /\ call[w] = None
    /\ \A v \in Workers : call[v] # u
    /\ Begin(w, "claim", Claim(u, c))

\* Mutant: a worker records whatever it has.
BeginRecordUnclaimed(w) == Begin(w, "record", Record(call[w]))

BeginRecord(w) == call[w] # None /\ Begin(w, "record", Record(call[w]))

\* t waits for s.
WaitsFor(t, s) ==
    /\ t # s
    /\ wants[t] # <<>>
    /\ \E k \in holds[s] : Conflict(Head(wants[t]), k)

\* The next lock is granted, or the object store has answered.
Acquire(t) ==
    /\ wants[t] # <<>>
    /\ \A s \in Clients : ~WaitsFor(t, s)
    /\ holds' = [holds EXCEPT ![t] =
            IF Head(wants[t]) = AskStore THEN @ ELSE @ \cup {Head(wants[t])}]
    /\ wants' = [wants EXCEPT ![t] = Tail(@)]
    /\ UNCHANGED <<doing, call>>

Release(t) ==
    /\ doing' = [doing EXCEPT ![t] = "idle"]
    /\ wants' = [wants EXCEPT ![t] = <<>>]
    /\ holds' = [holds EXCEPT ![t] = {}]

\* A transaction that has its locks commits.  A worker goes on to call Meta for
\* the publication it claimed, unless another one has claimed it meanwhile.
Commit(t) ==
    /\ doing[t] # "idle"
    /\ wants[t] = <<>>
    /\ Release(t)
    /\ CASE doing[t] = "claim" ->
                \E u \in Publications :
                    /\ Own(u) \in holds[t]
                    /\ call' = [call EXCEPT ![t] =
                            IF \A v \in Workers : call[v] # u THEN u ELSE None]
         [] doing[t] = "record" -> call' = [call EXCEPT ![t] = None]
         [] OTHER -> UNCHANGED call

\* A test of the service fails, the object store does, the process dies, or
\* PostgreSQL cancels a transaction of a circle.  A worker that cannot record has
\* nothing left of its call.
Rollback(t) ==
    /\ doing[t] # "idle"
    /\ Release(t)
    /\ call' = [w \in Workers |-> IF w = t THEN None ELSE call[w]]

Next ==
    \/ \E t \in Threads : BeginRequest(t)
    \/ \E w \in Workers : BeginRecord(w)
    \/ \E w \in Workers, u \in Publications, c \in Connections :
        BeginClaim(w, u, c)
    \/ \E t \in Clients : Acquire(t) \/ Commit(t) \/ Rollback(t)

Spec == Init /\ [][Next]_vars

-----------------------------------------------------------------------------
(***************************************************************************)
(* Circles of waiting.                                                     *)
(***************************************************************************)

\* Each of C waits for another of C.
Knot(C, waits(_, _)) == C # {} /\ \A t \in C : \E s \in C : waits(t, s)

\* C is a circle and nobody else: PostgreSQL has to cancel one of its members.
Circle(C) ==
    /\ Knot(C, WaitsFor)
    /\ \A D \in SUBSET C : Knot(D, WaitsFor) => D = C

\* A draft that waits for an image of another draft.
BetweenDrafts(t, s) ==
    doing[t] = "draft" /\ doing[s] = "draft" /\ Head(wants[t]).row \in Images

\* t waits for s, neither lock is on a row that is only joined, and they are not
\* two drafts that meet at an image.
WaitsInOrder(t, s) ==
    /\ t # s
    /\ wants[t] # <<>>
    /\ ~Head(wants[t]).joined
    /\ ~BetweenDrafts(t, s)
    /\ \E k \in holds[s] : ~k.joined /\ Conflict(Head(wants[t]), k)

\* Deadlocks have two causes and no third: the rows that decide, revoke and claim
\* lock only because they join them, and drafts that lock the same images in
\* different orders.  Without a wait of these there is no circle.  In particular
\* an image is no danger to a confirmation, and two authorisations of one Meta
\* account never deadlock, in whatever order Meta lists the connections, because
\* both lock the account first.
CirclesNeedAJoin ==
    \A C \in SUBSET Clients : ~Knot(C, WaitsInOrder)

\* Recording an outcome is what must not be cancelled: Meta has published, and
\* a publication whose record is rolled back stays PUBLISHING for ever.  The
\* only service that can be in a circle with it is the decision on an approval
\* link, which locks the brand before the workspace, where the event of the
\* record refers to the workspace before the brand.
OnlyDecisionsCancelRecords ==
    \A C \in SUBSET Clients :
        (\E w \in C : doing[w] = "record") /\ Circle(C)
            => \E t \in C : doing[t] = "decide"

AsksStore(t) == wants[t] # <<>> /\ Head(wants[t]) = AskStore

\* confirm_media_upload keeps its image locked while it asks the object store, for
\* as long as that takes.  No worker ever waits for it, not even through others:
\* there are threads that wait, and nobody else waits for one of those.
WorkersNeverWaitForTheStore ==
    \E waiting \in SUBSET Threads :
        /\ \A t \in Clients : AsksStore(t) => t \in waiting
        /\ \A t \in Clients, s \in waiting : WaitsFor(t, s) => t \in waiting

=============================================================================
