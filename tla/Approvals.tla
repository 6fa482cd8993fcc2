----------------------------- MODULE Approvals ------------------------------
(***************************************************************************)
(* The editorial life of a post: review links, their decisions, expiry and  *)
(* revocation, direct approval by a member, and scheduling, which needs an  *)
(* approved post.                                                           *)
(*                                                                         *)
(*   relay/approvals/services.py  request_approval, revoke_approval,        *)
(*                                decide_approval                           *)
(*   relay/api/services.py        approve_post, schedule_publication        *)
(*                                                                         *)
(* A request runs in one of the web server's threads.  Each of the four     *)
(* editorial services is a transaction in two steps: it locks its rows      *)
(* (SELECT ... FOR UPDATE) and tests what it fetched; later it writes and   *)
(* commits.  Requests that fail a test write nothing and are left out.      *)
(* schedule_publication takes no lock on the post: the view has read the    *)
(* post before, and that copy is what it tests.                             *)
(***************************************************************************)
EXTENDS Naturals, FiniteSets

CONSTANTS
    Posts,    \* rows of Post
    Links,    \* rows of ApprovalRequest (bound: links that can be issued)
    Threads,  \* threads of the web server
    NoPost,   \* postOf[l] before link l is issued
    NoLink    \* the link of a transaction that has none

ASSUME NamesAssumption == NoPost \notin Posts /\ NoLink \notin Links
ASSUME FiniteAssumption == IsFiniteSet(Links)

VARIABLES
    postState,  \* Post.state
    postOf,     \* ApprovalRequest.post
    decision,   \* ApprovalRequest.decision
    revoked,    \* links whose revoked_at is set
    expired,    \* links whose expires_at has passed
    commented,  \* links with an ApprovalComment
    approvals,  \* AuditLog: post.approved and approval.approved events of a post
    scheduled,  \* posts with a Publication
    rounds,     \* history: how often a post went from DRAFT to review
    txn         \* what each thread's request is doing

vars == <<postState, postOf, decision, revoked, expired, commented, approvals,
          scheduled, rounds, txn>>

PostState == {"DRAFT", "PENDING_APPROVAL", "APPROVED"}
Verdict == {"APPROVED", "CHANGES_REQUESTED"}
Decision == Verdict \cup {"PENDING"}

\* A request under way.  `arg` is the verdict of a decision, or the post state
\* the view read before scheduling.
Locking == {"approve", "request", "revoke", "decide"}
NoTxn == [op |-> "none"]
Txn == [op : Locking \cup {"schedule"}, post : Posts, link : Links \cup {NoLink},
        arg : PostState \cup Decision]

TypeOK ==
    /\ postState \in [Posts -> PostState]
    /\ postOf \in [Links -> Posts \cup {NoPost}]
    /\ decision \in [Links -> Decision]
    /\ revoked \subseteq Links
    /\ expired \subseteq Links
    /\ commented \subseteq Links
    /\ approvals \in [Posts -> Nat]
    /\ scheduled \subseteq Posts
    /\ rounds \in [Posts -> Nat]
    /\ txn \in [Threads -> Txn \cup {NoTxn}]

Init ==
    /\ postState = [p \in Posts |-> "DRAFT"]
    /\ postOf = [l \in Links |-> NoPost]
    /\ decision = [l \in Links |-> "PENDING"]
    /\ revoked = {} /\ expired = {} /\ commented = {}
    /\ approvals = [p \in Posts |-> 0]
    /\ scheduled = {}
    /\ rounds = [p \in Posts |-> 0]
    /\ txn = [t \in Threads |-> NoTxn]

-----------------------------------------------------------------------------
\* Row locks.

\* select_for_update: the post's row, and the link's when there is one.
HoldsPost(t, p) == txn[t] \in Txn /\ txn[t].op \in Locking /\ txn[t].post = p
HoldsLink(t, l) == l \in Links /\ txn[t] \in Txn /\ txn[t].link = l

\* Mutant: only the link is locked, not its post.
PostUnguarded(p, l) == \A t \in Threads : ~HoldsLink(t, l)

Unlocked(p, l) ==
    /\ \A t \in Threads : ~HoldsPost(t, p)
    /\ \A t \in Threads : ~HoldsLink(t, l)

Begin(t, op, p, l, arg) ==
    /\ txn[t] = NoTxn
    /\ Unlocked(p, l)
    /\ txn' = [txn EXCEPT ![t] = [op |-> op, post |-> p, link |-> l, arg |-> arg]]
    /\ UNCHANGED <<postState, postOf, decision, revoked, expired, commented,
                   approvals, scheduled, rounds>>

\* The transaction commits: thread t is done with `op`.
End(t, op) ==
    /\ txn[t] \in Txn
    /\ txn[t].op = op
    /\ txn' = [txn EXCEPT ![t] = NoTxn]

-----------------------------------------------------------------------------
\* approve_post, by a member of the workspace.

\* The states that approve_post and request_approval accept.
Undecided == {"DRAFT", "PENDING_APPROVAL"}

BeginApprove(t, p) ==
    /\ postState[p] \in Undecided
    /\ Begin(t, "approve", p, NoLink, "PENDING")

CommitApprove(t) ==
    /\ End(t, "approve")
    /\ LET p == txn[t].post IN
        /\ postState' = [postState EXCEPT ![p] = "APPROVED"]
        /\ approvals' = [approvals EXCEPT ![p] = @ + 1]
    /\ UNCHANGED <<postOf, decision, revoked, expired, commented, scheduled, rounds>>

-----------------------------------------------------------------------------
\* request_approval: a new link, and the post enters review if it is a draft.

BeginRequest(t, p, l) ==
    /\ postState[p] \in Undecided
    /\ postOf[l] = NoPost
    /\ Begin(t, "request", p, l, "PENDING")

CommitRequest(t) ==
    /\ End(t, "request")
    /\ LET p == txn[t].post IN
        /\ postOf' = [postOf EXCEPT ![txn[t].link] = p]
        /\ postState' = [postState EXCEPT ![p] = "PENDING_APPROVAL"]
        /\ rounds' = [rounds EXCEPT ![p] =
                IF postState[p] = "DRAFT" THEN @ + 1 ELSE @]
    /\ UNCHANGED <<decision, revoked, expired, commented, approvals, scheduled>>

-----------------------------------------------------------------------------
\* revoke_approval: only a link that is neither revoked nor decided.

Revocable(l) == l \notin revoked /\ decision[l] = "PENDING"

BeginRevoke(t, l) ==
    /\ postOf[l] # NoPost
    /\ Revocable(l)
    /\ Begin(t, "revoke", postOf[l], l, "PENDING")

CommitRevoke(t) ==
    /\ End(t, "revoke")
    /\ revoked' = revoked \cup {txn[t].link}
    /\ UNCHANGED <<postState, postOf, decision, expired, commented, approvals,
                   scheduled, rounds>>

-----------------------------------------------------------------------------
\* decide_approval, by whoever holds the link.

\* Mutants: revocation or the state of the post is not tested.
UsableThoughRevoked(l) ==
    /\ l \notin expired
    /\ decision[l] = "PENDING"
    /\ postState[postOf[l]] = "PENDING_APPROVAL"
UsableInAnyState(l) == l \notin revoked \cup expired /\ decision[l] = "PENDING"

Usable(l) ==
    /\ l \notin revoked \cup expired
    /\ decision[l] = "PENDING"
    /\ postState[postOf[l]] = "PENDING_APPROVAL"

BeginDecide(t, l, verdict) ==
    /\ postOf[l] # NoPost
    /\ Usable(l)
    /\ Begin(t, "decide", postOf[l], l, verdict)

\* Mutant: the verdict is stored as the state of the post.
CommitDecideVerbatim(t, comment) ==
    /\ End(t, "decide")
    /\ decision' = [decision EXCEPT ![txn[t].link] = txn[t].arg]
    /\ postState' = [postState EXCEPT ![txn[t].post] = txn[t].arg]
    /\ UNCHANGED <<postOf, revoked, expired, commented, approvals, scheduled, rounds>>

\* A comment is required with CHANGES_REQUESTED and optional with APPROVED.
CommitDecide(t, comment) ==
    /\ End(t, "decide")
    /\ LET p == txn[t].post
           l == txn[t].link
           approved == txn[t].arg = "APPROVED" IN
        /\ approved \/ comment
        /\ decision' = [decision EXCEPT ![l] = txn[t].arg]
        /\ postState' = [postState EXCEPT ![p] = IF approved THEN "APPROVED" ELSE "DRAFT"]
        /\ commented' = IF comment THEN commented \cup {l} ELSE commented
        /\ approvals' = [approvals EXCEPT ![p] = IF approved THEN @ + 1 ELSE @]
    /\ UNCHANGED <<postOf, revoked, expired, scheduled, rounds>>

\* expires_at passes.
Expire(l) ==
    /\ postOf[l] # NoPost
    /\ l \notin expired
    /\ expired' = expired \cup {l}
    /\ UNCHANGED <<postState, postOf, decision, revoked, commented, approvals,
                   scheduled, rounds, txn>>

-----------------------------------------------------------------------------
\* Scheduling.

\* The view fetches the variant with its post; no lock is taken.
ReadForSchedule(t, p) ==
    /\ txn[t] = NoTxn
    /\ txn' = [txn EXCEPT ![t] =
            [op |-> "schedule", post |-> p, link |-> NoLink, arg |-> postState[p]]]
    /\ UNCHANGED <<postState, postOf, decision, revoked, expired, commented,
                   approvals, scheduled, rounds>>

Schedulable(seen) == seen = "APPROVED"

\* schedule_publication tests the copy and inserts, or raises.
Schedule(t) ==
    /\ End(t, "schedule")
    /\ scheduled' = IF Schedulable(txn[t].arg) THEN scheduled \cup {txn[t].post}
                    ELSE scheduled
    /\ UNCHANGED <<postState, postOf, decision, revoked, expired, commented,
                   approvals, rounds>>

\* The request dies; its transaction rolls back.
Rollback(t) ==
    /\ txn[t] # NoTxn
    /\ txn' = [txn EXCEPT ![t] = NoTxn]
    /\ UNCHANGED <<postState, postOf, decision, revoked, expired, commented,
                   approvals, scheduled, rounds>>

-----------------------------------------------------------------------------
Step(t) ==
    \/ \E p \in Posts : BeginApprove(t, p) \/ ReadForSchedule(t, p)
    \/ \E p \in Posts, l \in Links : BeginRequest(t, p, l)
    \/ \E l \in Links : BeginRevoke(t, l)
    \/ \E l \in Links, verdict \in Verdict : BeginDecide(t, l, verdict)
    \/ CommitApprove(t) \/ CommitRequest(t) \/ CommitRevoke(t)
    \/ \E comment \in BOOLEAN : CommitDecide(t, comment)
    \/ Schedule(t)
    \/ Rollback(t)

Next == (\E t \in Threads : Step(t)) \/ (\E l \in Links : Expire(l))

Spec == Init /\ [][Next]_vars

-----------------------------------------------------------------------------
\* Properties.

\* A publication exists only for a post that is approved now, although
\* schedule_publication tests a copy of the post read without a lock.
ScheduledIsApproved == \A p \in scheduled : postState[p] = "APPROVED"

\* Exactly one audited approval explains an approved post, and no other post has
\* one: a member and a client, or two clients with a link each, never both
\* approve it.
ApprovedOnce ==
    \A p \in Posts : approvals[p] = IF postState[p] = "APPROVED" THEN 1 ELSE 0

\* A link ends in one way: it is decided or revoked, never both.
DecidedOrRevoked == \A l \in revoked : decision[l] = "PENDING"

\* The links of p on which changes were requested.
ChangesRequested(p) ==
    {l \in Links : postOf[l] = p /\ decision[l] = "CHANGES_REQUESTED"}

\* Every round of review ends at most once: a post is a draft after as many
\* requests for changes as there were rounds, and in review one round later,
\* however many links of the round, or of earlier rounds, are still open.
RoundsEndOnce ==
    \A p \in Posts :
        /\ postState[p] = "DRAFT" => rounds[p] = Cardinality(ChangesRequested(p))
        /\ postState[p] = "PENDING_APPROVAL" =>
                rounds[p] = Cardinality(ChangesRequested(p)) + 1

\* An approved post never returns to review or to draft.
ApprovedIsFinal ==
    [][\A p \in Posts : postState[p] = "APPROVED" => postState'[p] = "APPROVED"]_vars

\* A decided or revoked link is closed: no later request changes it or, through
\* it, the post.
ClosedLinkIsInert ==
    [][\A l \in Links : l \in revoked \/ decision[l] # "PENDING" =>
            decision'[l] = decision[l] /\ (l \in revoked <=> l \in revoked')]_vars

\* A decision is under way on link l.
BeingDecided(l) == \E t \in Threads : HoldsLink(t, l) /\ txn[t].op = "decide"

\* What link l is good for.  decide_approval compares expires_at when it has
\* locked the link: a link that expires after that has not lapsed until the
\* transaction is over.
Standing(l) ==
    IF postOf[l] = NoPost THEN "unissued"
    ELSE IF l \in revoked THEN "revoked"
    ELSE IF decision[l] # "PENDING" THEN decision[l]
    ELSE IF l \in expired /\ ~BeingDecided(l) THEN "lapsed"
    ELSE "open"

standing == [l \in Links |-> Standing(l)]

Review == INSTANCE PostReview WITH standing <- standing

\* Every transaction of two steps, and scheduling on a copy, is one step of
\* PostReview or none, at the moment it commits: a link is open until it is
\* decided, revoked or lapsed, decides a post in review only, and nothing is
\* scheduled that is not approved at that moment.
ImplementsReview == Review!Spec
=============================================================================
