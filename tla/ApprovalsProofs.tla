-------------------------- MODULE ApprovalsProofs ---------------------------
(***************************************************************************)
(* Theorems about Approvals, for every number of posts, links and threads.  *)
(*                                                                         *)
(* The argument is the one row locks are there for: no two requests under   *)
(* way hold the same post or the same link (Exclusive), so what a request   *)
(* tested when it took its locks is still true when it commits (Fits).      *)
(***************************************************************************)
EXTENDS Approvals, FiniteSetTheorems, TLAPS

\* Posts and links are locked by one request at a time.
Exclusive ==
    \A t, u \in Threads : t # u =>
        /\ \A p \in Posts : ~(HoldsPost(t, p) /\ HoldsPost(u, p))
        /\ \A l \in Links : ~(HoldsLink(t, l) /\ HoldsLink(u, l))

\* What the request of t tested, as it is needed when it commits.
Fits(t) ==
    /\ txn[t].op \in {"approve", "request"} => postState[txn[t].post] \in Undecided
    /\ txn[t].op = "request" => txn[t].link \in Links /\ postOf[txn[t].link] = NoPost
    /\ txn[t].op \in {"revoke", "decide"} =>
            /\ txn[t].link \in Links
            /\ postOf[txn[t].link] = txn[t].post
            /\ Revocable(txn[t].link)
    /\ txn[t].op = "decide" =>
            /\ postState[txn[t].post] = "PENDING_APPROVAL"
            /\ txn[t].arg \in Verdict
    /\ txn[t].op = "schedule" /\ txn[t].arg = "APPROVED" =>
            postState[txn[t].post] = "APPROVED"

\* A link that was not issued is undecided and not revoked.
UnissuedIsBlank == \A l \in Links : postOf[l] = NoPost => Revocable(l)

LockInv == Exclusive /\ UnissuedIsBlank /\ \A t \in Threads : Fits(t)

IInv == TypeOK /\ LockInv /\ ScheduledIsApproved /\ ApprovedOnce
               /\ DecidedOrRevoked /\ RoundsEndOnce

\* A request is told from an idle thread by its `op`.
LEMMA TxnKinds ==
    /\ NoTxn \notin Txn
    /\ NoTxn.op = "none"
    /\ \A x \in Txn : x.op \in Locking \cup {"schedule"} /\ x.post \in Posts
BY DEF NoTxn, Txn, Locking

-----------------------------------------------------------------------------
\* Types.

\* The initial states are well typed.
LEMMA TypeInit == Init => TypeOK
BY DEF Init, TypeOK, PostState, Decision

\* A request that begins is well typed.
LEMMA BeginTyped ==
    ASSUME TypeOK, NEW t \in Threads, NEW op \in Locking, NEW p \in Posts,
           NEW l \in Links \cup {NoLink}, NEW arg \in PostState \cup Decision,
           Begin(t, op, p, l, arg)
    PROVE  TypeOK'
BY DEF TypeOK, Begin, Txn

\* Every step keeps the types; that a commit writes a link and a verdict is
\* what its request tested.
LEMMA TypeStep == TypeOK /\ LockInv /\ [Next]_vars => TypeOK'
<1> SUFFICES ASSUME TypeOK, LockInv, [Next]_vars PROVE TypeOK'
  OBVIOUS
<1>1. ASSUME NEW t \in Threads, Step(t) PROVE TypeOK'
  <2>1. ASSUME NEW p \in Posts, BeginApprove(t, p) PROVE TypeOK'
    BY <2>1, BeginTyped DEF BeginApprove, Locking, Decision
  <2>2. ASSUME NEW p \in Posts, ReadForSchedule(t, p) PROVE TypeOK'
    BY <2>2 DEF ReadForSchedule, TypeOK, Txn
  <2>3. ASSUME NEW p \in Posts, NEW l \in Links, BeginRequest(t, p, l) PROVE TypeOK'
    BY <2>3, BeginTyped DEF BeginRequest, Locking, Decision
  <2>4. ASSUME NEW l \in Links, BeginRevoke(t, l) PROVE TypeOK'
    BY <2>4, BeginTyped DEF BeginRevoke, Locking, Decision, TypeOK
  <2>5. ASSUME NEW l \in Links, NEW verdict \in Verdict, BeginDecide(t, l, verdict)
        PROVE  TypeOK'
    BY <2>5, BeginTyped DEF BeginDecide, Locking, Decision, TypeOK
  <2>6. CASE CommitApprove(t)
    BY <2>6, TxnKinds DEF CommitApprove, End, TypeOK, PostState
  <2>7. CASE CommitRequest(t)
    <3>1. rounds' \in [Posts -> Nat]
      BY <2>7, TxnKinds DEF CommitRequest, End, TypeOK
    <3>2. postOf' \in [Links -> Posts \cup {NoPost}]
      BY <2>7, TxnKinds DEF CommitRequest, End, TypeOK
    <3>3. postState' \in [Posts -> PostState]
      BY <2>7, TxnKinds DEF CommitRequest, End, TypeOK, PostState
    <3> QED BY <2>7, <3>1, <3>2, <3>3 DEF CommitRequest, End, TypeOK
  <2>8. CASE CommitRevoke(t)
    <3>1. txn[t].link \in Links
      BY <2>8 DEF CommitRevoke, End, LockInv, Fits
    <3> QED BY <2>8, <3>1 DEF CommitRevoke, End, TypeOK
  <2>9. ASSUME NEW comment \in BOOLEAN, CommitDecide(t, comment) PROVE TypeOK'
    <3>1. /\ txn[t].op = "decide"
          /\ txn[t].post \in Posts
          /\ txn[t].link \in Links
          /\ txn[t].arg \in Verdict
      BY <2>9, TxnKinds DEF CommitDecide, End, LockInv, Fits
    <3>2. decision' \in [Links -> Decision]
      BY <2>9, <3>1 DEF CommitDecide, TypeOK, Decision
    <3>3. postState' \in [Posts -> PostState]
      BY <2>9, <3>1 DEF CommitDecide, TypeOK, PostState
    <3>4. commented' \subseteq Links
      BY <2>9, <3>1 DEF CommitDecide, TypeOK
    <3>5. approvals' \in [Posts -> Nat]
      BY <2>9, <3>1 DEF CommitDecide, TypeOK
    <3>6. txn' \in [Threads -> Txn \cup {NoTxn}]
      BY <2>9 DEF CommitDecide, End, TypeOK
    <3> QED BY <2>9, <3>2, <3>3, <3>4, <3>5, <3>6 DEF CommitDecide, TypeOK
  <2>10. CASE Schedule(t)
    BY <2>10, TxnKinds DEF Schedule, End, TypeOK
  <2>11. CASE Rollback(t)
    BY <2>11 DEF Rollback, TypeOK
  <2> QED BY <1>1, <2>1, <2>2, <2>3, <2>4, <2>5, <2>6, <2>7, <2>8, <2>9, <2>10, <2>11
          DEF Step
<1>2. ASSUME NEW l \in Links, Expire(l) PROVE TypeOK'
  BY <1>2 DEF Expire, TypeOK
<1>3. CASE UNCHANGED vars
  BY <1>3 DEF vars, TypeOK
<1> QED BY <1>1, <1>2, <1>3 DEF Next

-----------------------------------------------------------------------------
\* Locks.

\* A request that begins takes locks nobody holds and writes nothing.
LEMMA BeginLocks ==
    ASSUME TypeOK, LockInv, NEW t \in Threads, NEW op, NEW p \in Posts,
           NEW l \in Links \cup {NoLink}, NEW arg, Begin(t, op, p, l, arg)
    PROVE  /\ Exclusive'
           /\ UnissuedIsBlank'
           /\ \A u \in Threads : u # t => Fits(u)'
           /\ txn'[t] = [op |-> op, post |-> p, link |-> l, arg |-> arg]
           /\ UNCHANGED <<postState, postOf, decision, revoked>>
<1>1. txn'[t] = [op |-> op, post |-> p, link |-> l, arg |-> arg]
  BY DEF Begin, TypeOK
<1>2. \A u \in Threads : u # t => txn'[u] = txn[u]
  BY DEF Begin, TypeOK
<1>3. UNCHANGED <<postState, postOf, decision, revoked>>
  BY DEF Begin
<1>4. Exclusive'
  <2> SUFFICES ASSUME NEW u \in Threads, u # t
               PROVE  /\ \A q \in Posts : ~(HoldsPost(t, q)' /\ HoldsPost(u, q)')
                      /\ \A k \in Links : ~(HoldsLink(t, k)' /\ HoldsLink(u, k)')
    BY <1>2 DEF LockInv, Exclusive, HoldsPost, HoldsLink
  <2>1. \A q \in Posts : HoldsPost(t, q)' => q = p
    BY <1>1 DEF HoldsPost
  <2>2. \A k \in Links : HoldsLink(t, k)' => k = l
    BY <1>1 DEF HoldsLink
  <2>3. ~HoldsPost(u, p)' /\ ~HoldsLink(u, l)'
    BY <1>2 DEF Begin, Unlocked, HoldsPost, HoldsLink
  <2> QED BY <2>1, <2>2, <2>3
<1>5. UnissuedIsBlank'
  BY <1>3 DEF LockInv, UnissuedIsBlank, Revocable
<1>6. \A u \in Threads : u # t => Fits(u)'
  BY <1>2, <1>3 DEF LockInv, Fits, Revocable
<1> QED BY <1>1, <1>3, <1>4, <1>5, <1>6

\* A request that ends releases its locks; the others keep what they tested if
\* it wrote only the rows it had locked and left approved posts approved.
LEMMA EndLocks ==
    ASSUME TypeOK, LockInv, NEW t \in Threads,
           txn' = [txn EXCEPT ![t] = NoTxn],
           \A q \in Posts : ~HoldsPost(t, q) \/ postState[q] = "APPROVED"
                                => postState'[q] = postState[q],
           \A k \in Links : ~HoldsLink(t, k) =>
                /\ postOf'[k] = postOf[k]
                /\ decision'[k] = decision[k]
                /\ k \in revoked' <=> k \in revoked
    PROVE  Exclusive' /\ \A u \in Threads : Fits(u)'
<1>1. txn'[t] = NoTxn
  BY DEF TypeOK
<1>2. \A u \in Threads : u # t => txn'[u] = txn[u]
  BY DEF TypeOK
<1>3. Exclusive'
  BY <1>1, <1>2, TxnKinds DEF LockInv, Exclusive, HoldsPost, HoldsLink
<1>4. Fits(t)'
  BY <1>1, TxnKinds DEF Fits
<1>5. ASSUME NEW u \in Threads, u # t
      PROVE  Fits(u)'
  <2>1. CASE txn[u] = NoTxn
    BY <2>1, <1>2, <1>5, TxnKinds DEF Fits
  <2>2. CASE txn[u] # NoTxn
    <3> DEFINE p == txn[u].post
               l == txn[u].link
    <3>1. txn[u] \in Txn /\ p \in Posts /\ txn[u].op \in Locking \cup {"schedule"}
      BY <2>2, TxnKinds DEF TypeOK
    <3>2. txn[u].op \in Locking => postState'[p] = postState[p]
      BY <3>1, <1>5 DEF LockInv, Exclusive, HoldsPost
    <3>3. l \in Links => /\ postOf'[l] = postOf[l]
                         /\ decision'[l] = decision[l]
                         /\ l \in revoked' <=> l \in revoked
      BY <3>1, <1>5 DEF LockInv, Exclusive, HoldsLink
    <3>4. postState[p] = "APPROVED" => postState'[p] = "APPROVED"
      BY <3>1
    <3> QED BY <3>2, <3>3, <3>4, <1>2, <1>5 DEF LockInv, Fits, Revocable, Locking
  <2> QED BY <2>1, <2>2
<1> QED BY <1>3, <1>4, <1>5

\* No request is under way at first.
LEMMA LockInit == Init => LockInv
BY TxnKinds DEF Init, LockInv, Exclusive, UnissuedIsBlank, Fits, Revocable,
                HoldsPost, HoldsLink

\* Every step keeps the locks exclusive and what was tested true.
LEMMA LockStep == TypeOK /\ LockInv /\ [Next]_vars => LockInv'
<1> SUFFICES ASSUME TypeOK, LockInv, [Next]_vars PROVE LockInv'
  OBVIOUS
<1>1. ASSUME NEW t \in Threads, Step(t) PROVE LockInv'
  <2>1. ASSUME NEW p \in Posts, BeginApprove(t, p) PROVE LockInv'
    <3>1. /\ txn'[t] = [op |-> "approve", post |-> p, link |-> NoLink, arg |-> "PENDING"]
          /\ UNCHANGED postState
      BY <2>1, BeginLocks DEF BeginApprove
    <3>2. Fits(t)'
      BY <2>1, <3>1 DEF BeginApprove, Fits, Undecided
    <3> QED BY <2>1, <3>2, BeginLocks DEF BeginApprove, LockInv
  <2>2. ASSUME NEW p \in Posts, ReadForSchedule(t, p) PROVE LockInv'
    <3>1. txn'[t] = [op |-> "schedule", post |-> p, link |-> NoLink,
                     arg |-> postState[p]]
      BY <2>2 DEF ReadForSchedule, TypeOK
    <3>2. \A u \in Threads : u # t => txn'[u] = txn[u]
      BY <2>2 DEF ReadForSchedule, TypeOK
    <3>3. UNCHANGED <<postState, postOf, decision, revoked>>
      BY <2>2 DEF ReadForSchedule
    <3>4. Fits(t)'
      BY <3>1, <3>3 DEF Fits
    <3>5. \A u \in Threads : u # t => Fits(u)'
      BY <3>2, <3>3 DEF LockInv, Fits, Revocable
    <3>6. \A q \in Posts : ~HoldsPost(t, q)'
      BY <3>1 DEF HoldsPost, Locking
    <3>7. \A k \in Links : ~HoldsLink(t, k)'
      BY <3>1, NamesAssumption DEF HoldsLink
    <3>8. Exclusive'
      BY <3>2, <3>6, <3>7 DEF LockInv, Exclusive, HoldsPost, HoldsLink
    <3> QED BY <3>3, <3>4, <3>5, <3>8 DEF LockInv, UnissuedIsBlank, Revocable
  <2>3. ASSUME NEW p \in Posts, NEW l \in Links, BeginRequest(t, p, l) PROVE LockInv'
    <3>1. /\ txn'[t] = [op |-> "request", post |-> p, link |-> l, arg |-> "PENDING"]
          /\ UNCHANGED <<postState, postOf>>
      BY <2>3, BeginLocks DEF BeginRequest
    <3>2. Fits(t)'
      BY <2>3, <3>1 DEF BeginRequest, Fits, Undecided
    <3> QED BY <2>3, <3>2, BeginLocks DEF BeginRequest, LockInv
  <2>4. ASSUME NEW l \in Links, BeginRevoke(t, l) PROVE LockInv'
    <3>1. postOf[l] \in Posts
      BY <2>4 DEF BeginRevoke, TypeOK
    <3>2. /\ txn'[t] = [op |-> "revoke", post |-> postOf[l], link |-> l,
                          arg |-> "PENDING"]
          /\ UNCHANGED <<postState, postOf, decision, revoked>>
      BY <2>4, <3>1, BeginLocks DEF BeginRevoke
    <3>3. Fits(t)'
      BY <2>4, <3>2 DEF BeginRevoke, Fits, Revocable
    <3> QED BY <2>4, <3>1, <3>3, BeginLocks DEF BeginRevoke, LockInv
  <2>5. ASSUME NEW l \in Links, NEW verdict \in Verdict, BeginDecide(t, l, verdict)
        PROVE  LockInv'
    <3>1. postOf[l] \in Posts
      BY <2>5 DEF BeginDecide, TypeOK
    <3>2. /\ txn'[t] = [op |-> "decide", post |-> postOf[l], link |-> l,
                          arg |-> verdict]
          /\ UNCHANGED <<postState, postOf, decision, revoked>>
      BY <2>5, <3>1, BeginLocks DEF BeginDecide
    <3>3. Fits(t)'
      BY <2>5, <3>2 DEF BeginDecide, Fits, Revocable, Usable
    <3> QED BY <2>5, <3>1, <3>3, BeginLocks DEF BeginDecide, LockInv
  <2>6. CASE CommitApprove(t)
    <3>1. Exclusive' /\ \A u \in Threads : Fits(u)'
      BY <2>6, EndLocks DEF CommitApprove, End, HoldsPost, Locking, TypeOK
    <3> QED BY <2>6, <3>1 DEF CommitApprove, LockInv, UnissuedIsBlank, Revocable
  <2>7. CASE CommitRequest(t)
    <3>1. /\ txn[t].post \in Posts
          /\ txn[t].link \in Links
          /\ postState[txn[t].post] \in Undecided
      BY <2>7, TxnKinds DEF CommitRequest, End, LockInv, Fits
    <3>2. Exclusive' /\ \A u \in Threads : Fits(u)'
      BY <2>7, <3>1, EndLocks
         DEF CommitRequest, End, HoldsPost, HoldsLink, Locking, TypeOK, Undecided
    <3>3. UnissuedIsBlank'
      BY <2>7, <3>1, NamesAssumption
         DEF CommitRequest, LockInv, UnissuedIsBlank, Revocable, TypeOK
    <3> QED BY <3>2, <3>3 DEF LockInv
  <2>8. CASE CommitRevoke(t)
    <3>1. /\ txn[t].post \in Posts
          /\ txn[t].link \in Links
          /\ postOf[txn[t].link] = txn[t].post
      BY <2>8, TxnKinds DEF CommitRevoke, End, LockInv, Fits
    <3>2. Exclusive' /\ \A u \in Threads : Fits(u)'
      BY <2>8, <3>1, EndLocks DEF CommitRevoke, End, HoldsLink, Locking, TypeOK
    <3>3. UnissuedIsBlank'
      BY <2>8, <3>1, NamesAssumption
         DEF CommitRevoke, LockInv, UnissuedIsBlank, Revocable
    <3> QED BY <3>2, <3>3 DEF LockInv
  <2>9. ASSUME NEW comment \in BOOLEAN, CommitDecide(t, comment) PROVE LockInv'
    <3>1. /\ txn[t].post \in Posts
          /\ txn[t].link \in Links
          /\ postOf[txn[t].link] = txn[t].post
          /\ postState[txn[t].post] = "PENDING_APPROVAL"
      BY <2>9, TxnKinds DEF CommitDecide, End, LockInv, Fits
    <3>2. Exclusive' /\ \A u \in Threads : Fits(u)'
      BY <2>9, <3>1, EndLocks
         DEF CommitDecide, End, HoldsPost, HoldsLink, Locking, TypeOK
    <3>3. UnissuedIsBlank'
      BY <2>9, <3>1, NamesAssumption
         DEF CommitDecide, LockInv, UnissuedIsBlank, Revocable, TypeOK
    <3> QED BY <3>2, <3>3 DEF LockInv
  <2>10. CASE Schedule(t)
    <3>1. Exclusive' /\ \A u \in Threads : Fits(u)'
      BY <2>10, EndLocks DEF Schedule, End
    <3> QED BY <2>10, <3>1 DEF Schedule, LockInv, UnissuedIsBlank, Revocable
  <2>11. CASE Rollback(t)
    <3>1. Exclusive' /\ \A u \in Threads : Fits(u)'
      BY <2>11, EndLocks DEF Rollback
    <3> QED BY <2>11, <3>1 DEF Rollback, LockInv, UnissuedIsBlank, Revocable
  <2> QED BY <1>1, <2>1, <2>2, <2>3, <2>4, <2>5, <2>6, <2>7, <2>8, <2>9, <2>10, <2>11
          DEF Step
<1>2. CASE (\E l \in Links : Expire(l)) \/ UNCHANGED vars
  BY <1>2 DEF Expire, vars, LockInv, Exclusive, UnissuedIsBlank, Fits, Revocable,
              HoldsPost, HoldsLink
<1> QED BY <1>1, <1>2 DEF Next

-----------------------------------------------------------------------------
\* What a step does to the post and the link of its request, and to nothing else.


\* Post p is approved, directly or through link l.
PostApproved(p) ==
    /\ postState[p] \in Undecided
    /\ postState' = [postState EXCEPT ![p] = "APPROVED"]
    /\ approvals' = [approvals EXCEPT ![p] = @ + 1]
    /\ UNCHANGED <<postOf, rounds, scheduled, revoked>>
    /\ \/ UNCHANGED decision
       \/ \E l \in Links : /\ Revocable(l)
                           /\ decision' = [decision EXCEPT ![l] = "APPROVED"]

\* Link l is issued for post p.
ReviewRequested(p, l) ==
    /\ postState[p] \in Undecided
    /\ postOf[l] = NoPost
    /\ Revocable(l)
    /\ postState' = [postState EXCEPT ![p] = "PENDING_APPROVAL"]
    /\ postOf' = [postOf EXCEPT ![l] = p]
    /\ rounds' = [rounds EXCEPT ![p] = IF postState[p] = "DRAFT" THEN @ + 1 ELSE @]
    /\ UNCHANGED <<decision, approvals, scheduled, revoked>>

\* Changes to post p are requested through link l.
ChangesAsked(p, l) ==
    /\ postState[p] = "PENDING_APPROVAL"
    /\ postOf[l] = p
    /\ Revocable(l)
    /\ postState' = [postState EXCEPT ![p] = "DRAFT"]
    /\ decision' = [decision EXCEPT ![l] = "CHANGES_REQUESTED"]
    /\ UNCHANGED <<postOf, approvals, rounds, scheduled, revoked>>

\* Neither posts nor decisions change: a link is revoked, an approved post gets a
\* publication, or nothing that the invariants see happens.
PostsUntouched ==
    /\ UNCHANGED <<postState, postOf, decision, approvals, rounds>>
    /\ \/ UNCHANGED <<scheduled, revoked>>
       \/ \E l \in Links : /\ Revocable(l)
                           /\ revoked' = revoked \cup {l}
                           /\ UNCHANGED scheduled
       \/ \E p \in Posts : /\ postState[p] = "APPROVED"
                           /\ scheduled' = scheduled \cup {p}
                           /\ UNCHANGED revoked

\* Every step is one of these four.
LEMMA PostSteps ==
    ASSUME TypeOK, LockInv, [Next]_vars
    PROVE  \/ \E p \in Posts : PostApproved(p)
           \/ \E p \in Posts, l \in Links : ReviewRequested(p, l) \/ ChangesAsked(p, l)
           \/ PostsUntouched
<1>1. ASSUME NEW t \in Threads, CommitApprove(t)
      PROVE  \E p \in Posts : PostApproved(p)
  <2>1. txn[t].post \in Posts /\ postState[txn[t].post] \in Undecided
    BY <1>1, TxnKinds DEF CommitApprove, End, LockInv, Fits
  <2>2. PostApproved(txn[t].post)
    BY <1>1, <2>1 DEF CommitApprove, PostApproved
  <2> QED BY <2>1, <2>2
<1>2. ASSUME NEW t \in Threads, CommitRequest(t)
      PROVE  \E p \in Posts, l \in Links : ReviewRequested(p, l)
  <2>1. /\ txn[t].post \in Posts
        /\ txn[t].link \in Links
        /\ postState[txn[t].post] \in Undecided
        /\ postOf[txn[t].link] = NoPost
        /\ Revocable(txn[t].link)
    BY <1>2, TxnKinds DEF CommitRequest, End, LockInv, Fits, UnissuedIsBlank
  <2>2. ReviewRequested(txn[t].post, txn[t].link)
    BY <1>2, <2>1 DEF CommitRequest, ReviewRequested
  <2> QED BY <2>1, <2>2
<1>3. ASSUME NEW t \in Threads, CommitRevoke(t)
      PROVE  PostsUntouched
  <2>1. txn[t].link \in Links /\ Revocable(txn[t].link)
    BY <1>3 DEF CommitRevoke, End, LockInv, Fits
  <2> QED BY <1>3, <2>1 DEF CommitRevoke, PostsUntouched
<1>4. ASSUME NEW t \in Threads, NEW comment \in BOOLEAN, CommitDecide(t, comment)
      PROVE  \/ \E p \in Posts : PostApproved(p)
             \/ \E p \in Posts, l \in Links : ChangesAsked(p, l)
  <2>1. /\ txn[t].post \in Posts
        /\ txn[t].link \in Links
        /\ postState[txn[t].post] = "PENDING_APPROVAL"
        /\ postOf[txn[t].link] = txn[t].post
        /\ Revocable(txn[t].link)
        /\ txn[t].arg \in Verdict
    BY <1>4, TxnKinds DEF CommitDecide, End, LockInv, Fits
  <2>2. CASE txn[t].arg = "APPROVED"
    <3>1. PostApproved(txn[t].post)
      BY <1>4, <2>1, <2>2 DEF CommitDecide, PostApproved, Undecided
    <3> QED BY <2>1, <3>1
  <2>3. CASE txn[t].arg = "CHANGES_REQUESTED"
    <3>1. UNCHANGED approvals
      BY <1>4, <2>1, <2>3 DEF CommitDecide, TypeOK
    <3>2. ChangesAsked(txn[t].post, txn[t].link)
      BY <1>4, <2>1, <2>3, <3>1 DEF CommitDecide, ChangesAsked
    <3> QED BY <2>1, <3>2
  <2> QED BY <2>1, <2>2, <2>3 DEF Verdict
<1>5. ASSUME NEW t \in Threads, Schedule(t)
      PROVE  PostsUntouched
  <2>1. txn[t].arg = "APPROVED" =>
            txn[t].post \in Posts /\ postState[txn[t].post] = "APPROVED"
    BY <1>5, TxnKinds DEF Schedule, End, LockInv, Fits
  <2> QED BY <1>5, <2>1 DEF Schedule, Schedulable, PostsUntouched
<1>6. ASSUME NEW t \in Threads,
             \/ \E p \in Posts : BeginApprove(t, p) \/ ReadForSchedule(t, p)
             \/ \E p \in Posts, l \in Links : BeginRequest(t, p, l)
             \/ \E l \in Links : BeginRevoke(t, l)
             \/ \E l \in Links, verdict \in Verdict : BeginDecide(t, l, verdict)
             \/ Rollback(t)
      PROVE  PostsUntouched
  BY <1>6 DEF BeginApprove, ReadForSchedule, BeginRequest, BeginRevoke, BeginDecide,
              Begin, Rollback, PostsUntouched
<1>7. CASE (\E l \in Links : Expire(l)) \/ UNCHANGED vars
  BY <1>7 DEF Expire, vars, PostsUntouched
<1>8. CASE \E t \in Threads : Step(t)
  BY <1>8, <1>1, <1>2, <1>3, <1>4, <1>5, <1>6 DEF Step
<1> QED BY <1>7, <1>8 DEF Next

-----------------------------------------------------------------------------
\* The invariants.

\* An approved post stays approved.
LEMMA ApprovedStays ==
    ASSUME TypeOK, LockInv, [Next]_vars, NEW p \in Posts, postState[p] = "APPROVED"
    PROVE  postState'[p] = "APPROVED"
BY PostSteps DEF PostApproved, ReviewRequested, ChangesAsked, PostsUntouched,
                 TypeOK, Undecided

\* Only approved posts are scheduled.
LEMMA ScheduledStep ==
    TypeOK /\ LockInv /\ ScheduledIsApproved /\ [Next]_vars => ScheduledIsApproved'
<1> SUFFICES ASSUME TypeOK, LockInv, ScheduledIsApproved, [Next]_vars,
                    NEW p \in scheduled'
             PROVE  postState'[p] = "APPROVED"
  BY DEF ScheduledIsApproved
<1>1. p \in Posts /\ postState[p] = "APPROVED"
  BY PostSteps DEF PostApproved, ReviewRequested, ChangesAsked, PostsUntouched,
                   ScheduledIsApproved, TypeOK
<1> QED BY <1>1, ApprovedStays

\* One audited approval for each approved post.
LEMMA ApprovedOnceStep ==
    TypeOK /\ LockInv /\ ApprovedOnce /\ [Next]_vars => ApprovedOnce'
<1> SUFFICES ASSUME TypeOK, LockInv, ApprovedOnce, [Next]_vars PROVE ApprovedOnce'
  OBVIOUS
<1>1. ASSUME NEW p \in Posts, PostApproved(p) PROVE ApprovedOnce'
  BY <1>1 DEF PostApproved, ApprovedOnce, TypeOK, Undecided
<1>2. ASSUME NEW p \in Posts, NEW l \in Links, ReviewRequested(p, l)
      PROVE  ApprovedOnce'
  BY <1>2 DEF ReviewRequested, ApprovedOnce, TypeOK, Undecided
<1>3. ASSUME NEW p \in Posts, NEW l \in Links, ChangesAsked(p, l)
      PROVE  ApprovedOnce'
  BY <1>3 DEF ChangesAsked, ApprovedOnce, TypeOK
<1>4. CASE PostsUntouched
  BY <1>4 DEF PostsUntouched, ApprovedOnce
<1> QED BY <1>1, <1>2, <1>3, <1>4, PostSteps

\* A link is decided or revoked, not both.
LEMMA DecidedOrRevokedStep ==
    TypeOK /\ LockInv /\ DecidedOrRevoked /\ [Next]_vars => DecidedOrRevoked'
BY PostSteps DEF PostApproved, ReviewRequested, ChangesAsked, PostsUntouched,
                 DecidedOrRevoked, Revocable, TypeOK

\* A round of review ends once.
LEMMA RoundsStep ==
    TypeOK /\ LockInv /\ RoundsEndOnce /\ [Next]_vars => RoundsEndOnce'
<1> SUFFICES ASSUME TypeOK, LockInv, RoundsEndOnce, [Next]_vars PROVE RoundsEndOnce'
  OBVIOUS
<1>1. ASSUME NEW p \in Posts, PostApproved(p) PROVE RoundsEndOnce'
  <2>1. \A q \in Posts : ChangesRequested(q)' = ChangesRequested(q)
    BY <1>1 DEF PostApproved, ChangesRequested, Revocable, TypeOK
  <2>2. \A q \in Posts : postState'[q] # "APPROVED" => postState'[q] = postState[q]
    BY <1>1 DEF PostApproved, TypeOK
  <2>3. UNCHANGED rounds
    BY <1>1 DEF PostApproved
  <2> QED BY <2>1, <2>2, <2>3 DEF RoundsEndOnce
<1>2. ASSUME NEW p \in Posts, NEW l \in Links, ReviewRequested(p, l)
      PROVE  RoundsEndOnce'
  <2>1. ASSUME NEW q \in Posts
        PROVE  ChangesRequested(q)' = ChangesRequested(q)
    BY <1>2 DEF ReviewRequested, ChangesRequested, Revocable, TypeOK
  <2>2. \A q \in Posts : q # p => /\ postState'[q] = postState[q]
                                  /\ rounds'[q] = rounds[q]
    BY <1>2 DEF ReviewRequested, TypeOK
  <2>3. /\ postState'[p] = "PENDING_APPROVAL"
        /\ rounds'[p] = IF postState[p] = "DRAFT" THEN rounds[p] + 1 ELSE rounds[p]
        /\ postState[p] \in {"DRAFT", "PENDING_APPROVAL"}
    BY <1>2 DEF ReviewRequested, TypeOK, Undecided
  <2> QED BY <2>1, <2>2, <2>3 DEF RoundsEndOnce
<1>3. ASSUME NEW p \in Posts, NEW l \in Links, ChangesAsked(p, l)
      PROVE  RoundsEndOnce'
  <2>1. \A q \in Posts : q # p => /\ postState'[q] = postState[q]
                                  /\ ChangesRequested(q)' = ChangesRequested(q)
    BY <1>3 DEF ChangesAsked, ChangesRequested, TypeOK
  <2>2. /\ ChangesRequested(p)' = ChangesRequested(p) \cup {l}
        /\ l \notin ChangesRequested(p)
    BY <1>3 DEF ChangesAsked, ChangesRequested, Revocable, TypeOK
  <2>3. IsFiniteSet(ChangesRequested(p))
    BY FiniteAssumption, FS_Subset DEF ChangesRequested
  <2>4. Cardinality(ChangesRequested(p)') = Cardinality(ChangesRequested(p)) + 1
    BY <2>2, <2>3, FS_AddElement
  <2>5. /\ postState'[p] = "DRAFT"
        /\ UNCHANGED rounds
        /\ postState[p] = "PENDING_APPROVAL"
    BY <1>3 DEF ChangesAsked, TypeOK
  <2> QED BY <2>1, <2>4, <2>5 DEF RoundsEndOnce
<1>4. CASE PostsUntouched
  BY <1>4 DEF PostsUntouched, RoundsEndOnce, ChangesRequested
<1> QED BY <1>1, <1>2, <1>3, <1>4, PostSteps

\* The invariant holds at first.
LEMMA InvInit == Init => IInv
<1> SUFFICES ASSUME Init PROVE IInv
  OBVIOUS
<1>1. TypeOK /\ LockInv
  BY TypeInit, LockInit
<1>2. \A p \in Posts : ChangesRequested(p) = {}
  BY DEF Init, ChangesRequested
<1>3. RoundsEndOnce
  BY <1>2, FS_EmptySet DEF Init, RoundsEndOnce
<1> QED BY <1>1, <1>3 DEF Init, IInv, ScheduledIsApproved, ApprovedOnce, DecidedOrRevoked

-----------------------------------------------------------------------------
\* Theorems of the specification.

\* The inductive invariant: types, locks, what requests tested, and the four
\* invariants of the editorial life.
THEOREM Invariant == Spec => []IInv
<1>1. Init => IInv
  BY InvInit
<1>2. IInv /\ [Next]_vars => IInv'
  BY TypeStep, LockStep, ScheduledStep, ApprovedOnceStep, DecidedOrRevokedStep,
     RoundsStep DEF IInv
<1> QED BY <1>1, <1>2, PTL DEF Spec

\* Every reachable state is well typed.
THEOREM TypeCorrect == Spec => []TypeOK
<1>1. IInv => TypeOK
  BY DEF IInv
<1> QED BY <1>1, Invariant, PTL

\* Publications exist for approved posts only, although scheduling reads the post
\* without a lock.
THEOREM OnlyApprovedIsScheduled == Spec => []ScheduledIsApproved
<1>1. IInv => ScheduledIsApproved
  BY DEF IInv
<1> QED BY <1>1, Invariant, PTL

\* One audited approval explains each approved post.
THEOREM ApprovalIsUnique == Spec => []ApprovedOnce
<1>1. IInv => ApprovedOnce
  BY DEF IInv
<1> QED BY <1>1, Invariant, PTL

\* A link is decided or revoked, never both.
THEOREM LinksEndOneWay == Spec => []DecidedOrRevoked
<1>1. IInv => DecidedOrRevoked
  BY DEF IInv
<1> QED BY <1>1, Invariant, PTL

\* Each round of review ends at most once, whatever links are open.
THEOREM RoundsAreCounted == Spec => []RoundsEndOnce
<1>1. IInv => RoundsEndOnce
  BY DEF IInv
<1> QED BY <1>1, Invariant, PTL

\* Approval is final.
THEOREM ApprovalIsFinal == Spec => ApprovedIsFinal
<1>1. IInv /\ [Next]_vars =>
        [\A p \in Posts : postState[p] = "APPROVED" => postState'[p] = "APPROVED"]_vars
  BY ApprovedStays DEF IInv
<1> QED BY <1>1, Invariant, PTL DEF Spec, ApprovedIsFinal

\* A decided or revoked link has no further effect.
THEOREM ClosedLinksStayClosed == Spec => ClosedLinkIsInert
<1>1. IInv /\ [Next]_vars =>
        [\A l \in Links : l \in revoked \/ decision[l] # "PENDING" =>
            decision'[l] = decision[l] /\ (l \in revoked <=> l \in revoked')]_vars
  BY PostSteps DEF IInv, PostApproved, ReviewRequested, ChangesAsked, PostsUntouched,
                   Revocable, TypeOK
<1> QED BY <1>1, Invariant, PTL DEF Spec, ClosedLinkIsInert

-----------------------------------------------------------------------------
\* The transactions implement PostReview.

\* A link that was not issued has not expired.
UnissuedIsFresh == \A l \in expired : postOf[l] # NoPost

\* Links expire after they were issued, and stay issued.
LEMMA FreshStep == TypeOK /\ LockInv /\ UnissuedIsFresh /\ [Next]_vars => UnissuedIsFresh'
<1> SUFFICES ASSUME TypeOK, LockInv, UnissuedIsFresh, [Next]_vars
             PROVE  UnissuedIsFresh'
  OBVIOUS
<1>1. \A l \in Links : postOf[l] # NoPost => postOf'[l] # NoPost
  BY PostSteps, NamesAssumption
     DEF PostApproved, ReviewRequested, ChangesAsked, PostsUntouched, TypeOK
<1>2. ASSUME NEW l \in expired' PROVE l \in Links /\ postOf[l] # NoPost
  <2>1. CASE \E k \in Links : Expire(k)
    BY <2>1, <1>2 DEF Expire, UnissuedIsFresh, TypeOK
  <2>2. CASE expired' = expired
    BY <2>2, <1>2 DEF UnissuedIsFresh, TypeOK
  <2>3. CASE \E t \in Threads : Step(t)
    <3>1. expired' = expired
      BY <2>3 DEF Step, BeginApprove, ReadForSchedule, BeginRequest, BeginRevoke,
                  BeginDecide, Begin, CommitApprove, CommitRequest, CommitRevoke,
                  CommitDecide, Schedule, Rollback
    <3> QED BY <3>1, <2>2
  <2> QED BY <2>1, <2>2, <2>3 DEF Next, vars
<1> QED BY <1>1, <1>2 DEF UnissuedIsFresh

\* A link is issued, not revoked and undecided while a decision on it is under way.
LEMMA DecidingIsOpen ==
    ASSUME TypeOK, LockInv, NEW l \in Links, BeingDecided(l)
    PROVE  Standing(l) = "open"
<1> PICK t \in Threads : HoldsLink(t, l) /\ txn[t].op = "decide"
  BY DEF BeingDecided
<1>1. /\ postOf[l] = txn[t].post
      /\ txn[t].post \in Posts
      /\ Revocable(l)
  BY TxnKinds DEF HoldsLink, LockInv, Fits
<1> QED BY <1>1, NamesAssumption DEF Standing, Revocable

\* The standing of a link, as the proof needs it in each case.
LEMMA Standings ==
    ASSUME TypeOK, UnissuedIsFresh, NEW l \in Links
    PROVE  /\ Standing(l) = "unissued" <=> postOf[l] = NoPost
           /\ Standing(l) \in {"open", "lapsed"} <=> postOf[l] # NoPost /\ Revocable(l)
           /\ Standing(l) = "lapsed" =>
                    l \in expired /\ ~BeingDecided(l) /\ Revocable(l)
BY DEF Standing, Revocable, TypeOK, Decision, Verdict

\* A link keeps its standing if nobody writes it and no decision on it begins or
\* ends.
LEMMA SameStanding ==
    ASSUME NEW l \in Links, postOf'[l] = postOf[l], decision'[l] = decision[l],
           l \in revoked' <=> l \in revoked, l \in expired' <=> l \in expired,
           BeingDecided(l)' <=> BeingDecided(l)
    PROVE  Standing(l)' = Standing(l)
BY DEF Standing

\* A request that begins starts a decision on its own link, or none.
LEMMA BeginDeciding ==
    ASSUME TypeOK, NEW t \in Threads, NEW op, NEW p \in Posts,
           NEW l \in Links \cup {NoLink}, NEW arg, Begin(t, op, p, l, arg),
           NEW k \in Links, op # "decide" \/ k # l
    PROVE  BeingDecided(k)' <=> BeingDecided(k)
<1>1. txn'[t] = [op |-> op, post |-> p, link |-> l, arg |-> arg] /\ txn[t] = NoTxn
  BY DEF Begin, TypeOK
<1>2. \A u \in Threads : u # t => txn'[u] = txn[u]
  BY DEF Begin, TypeOK
<1> QED BY <1>1, <1>2, TxnKinds DEF BeingDecided, HoldsLink

\* A request that ends ends the decision on its link, if it is one.
LEMMA EndDeciding ==
    ASSUME TypeOK, LockInv, NEW t \in Threads, txn' = [txn EXCEPT ![t] = NoTxn],
           NEW k \in Links
    PROVE  BeingDecided(k)' <=>
                BeingDecided(k) /\ ~(HoldsLink(t, k) /\ txn[t].op = "decide")
<1>1. txn'[t] = NoTxn
  BY DEF TypeOK
<1>2. \A u \in Threads : u # t => txn'[u] = txn[u]
  BY DEF TypeOK
<1>3. \A u \in Threads : u # t => ~(HoldsLink(t, k) /\ HoldsLink(u, k))
  BY DEF LockInv, Exclusive
<1> QED BY <1>1, <1>2, <1>3, TxnKinds DEF BeingDecided, HoldsLink

\* Nothing that PostReview sees changes.
ReviewUnchanged == UNCHANGED <<postState, postOf, standing, scheduled>>

\* A request that begins is no step of PostReview.
LEMMA BeginsUnseen ==
    ASSUME TypeOK, LockInv, UnissuedIsFresh, NEW t \in Threads, NEW op, NEW p \in Posts,
           NEW l \in Links \cup {NoLink}, NEW arg, Begin(t, op, p, l, arg),
           op = "decide" => l \in Links /\ l \notin expired
    PROVE  ReviewUnchanged
<1>1. UNCHANGED <<postState, postOf, decision, revoked, expired, scheduled>>
  BY DEF Begin
<1>2. ASSUME NEW k \in Links PROVE Standing(k)' = Standing(k)
  <2>1. CASE op = "decide" /\ k = l
    BY <2>1, <1>1 DEF Standing
  <2>2. CASE op # "decide" \/ k # l
    BY <2>2, <1>1, BeginDeciding, SameStanding
  <2> QED BY <2>1, <2>2
<1> QED BY <1>1, <1>2 DEF ReviewUnchanged, standing

\* The standing of every link but l stays, and that of l becomes `to`.
LEMMA OneTurns ==
    ASSUME NEW l \in Links, NEW to, Standing(l)' = to,
           \A k \in Links : k # l => Standing(k)' = Standing(k)
    PROVE  standing' = [standing EXCEPT ![l] = to]
BY DEF standing

\* If no decision begins or ends and no link is written, all links keep their
\* standing.
LEMMA AllStand ==
    ASSUME UNCHANGED <<postOf, decision, revoked, expired>>,
           \A k \in Links : BeingDecided(k)' <=> BeingDecided(k)
    PROVE  standing' = standing
BY SameStanding DEF standing

\* approve_post is Approve when it commits.
LEMMA ApproveReviewed ==
    ASSUME TypeOK, LockInv, NEW t \in Threads, CommitApprove(t)
    PROVE  \E p \in Posts : Review!Approve(p)
<1>1. txn[t].post \in Posts /\ postState[txn[t].post] \in Undecided
  BY TxnKinds DEF CommitApprove, End, LockInv, Fits
<1>2. standing' = standing
  BY EndDeciding, AllStand DEF CommitApprove, End
<1>3. Review!Approve(txn[t].post)
  BY <1>1, <1>2 DEF CommitApprove, Review!Approve, Review!Put, Review!Undecided, Undecided
<1> QED BY <1>1, <1>3

\* request_approval is Issue when it commits.
LEMMA RequestReviewed ==
    ASSUME TypeOK, LockInv, UnissuedIsFresh, NEW t \in Threads, CommitRequest(t)
    PROVE  \E p \in Posts, l \in Links : Review!Issue(p, l)
<1>1. PICK p \in Posts, l \in Links :
        /\ p = txn[t].post
        /\ l = txn[t].link
        /\ postState[p] \in Undecided
        /\ postOf[l] = NoPost
        /\ Revocable(l)
  BY TxnKinds DEF CommitRequest, End, LockInv, Fits, UnissuedIsBlank
<1>2. /\ postOf' = [postOf EXCEPT ![l] = p]
      /\ UNCHANGED <<decision, revoked, expired, scheduled>>
      /\ postState' = [postState EXCEPT ![p] = "PENDING_APPROVAL"]
  BY <1>1 DEF CommitRequest
<1>3. \A k \in Links : BeingDecided(k)' <=> BeingDecided(k)
  BY EndDeciding DEF CommitRequest, End
<1>4. ~BeingDecided(l) /\ l \notin expired
  BY <1>1, DecidingIsOpen DEF UnissuedIsFresh, Standing
<1>5. Standing(l) = "unissued"
  BY <1>1 DEF Standing
<1>6. Standing(l)' = "open"
  <2>1. postOf'[l] = p /\ p # NoPost
    BY <1>1, <1>2, NamesAssumption DEF TypeOK
  <2> QED BY <2>1, <1>1, <1>2, <1>4 DEF Standing, Revocable
<1>7. ASSUME NEW k \in Links, k # l PROVE Standing(k)' = Standing(k)
  <2>1. postOf'[k] = postOf[k]
    BY <1>2, <1>7 DEF TypeOK
  <2> QED BY <2>1, <1>2, <1>3, SameStanding
<1>8. standing[l] = "unissued" /\ standing' = [standing EXCEPT ![l] = "open"]
  BY <1>1, <1>5, <1>6, <1>7, OneTurns DEF standing
<1>9. Review!Issue(p, l)
  BY <1>1, <1>2, <1>8
     DEF Review!Issue, Review!Turn, Review!Put, Review!Undecided, Undecided
<1> QED BY <1>1, <1>9

\* revoke_approval is Withdraw when it commits.
LEMMA RevokeReviewed ==
    ASSUME TypeOK, LockInv, UnissuedIsFresh, NEW t \in Threads, CommitRevoke(t)
    PROVE  \E l \in Links : Review!Withdraw(l)
<1>1. PICK l \in Links : l = txn[t].link /\ postOf[l] # NoPost /\ Revocable(l)
  BY TxnKinds, NamesAssumption DEF CommitRevoke, End, LockInv, Fits
<1>2. /\ revoked' = revoked \cup {l}
      /\ UNCHANGED <<postState, postOf, decision, expired, scheduled>>
  BY <1>1 DEF CommitRevoke
<1>3. \A k \in Links : BeingDecided(k)' <=> BeingDecided(k)
  BY EndDeciding DEF CommitRevoke, End
<1>4. Standing(l) \in {"open", "lapsed"}
  BY <1>1, Standings
<1>5. Standing(l)' = "revoked"
  BY <1>1, <1>2 DEF Standing
<1>6. \A k \in Links : k # l => Standing(k)' = Standing(k)
  BY <1>2, <1>3, SameStanding
<1>7. standing' = [standing EXCEPT ![l] = "revoked"] /\ standing[l] = Standing(l)
  BY <1>1, <1>5, <1>6, OneTurns DEF standing
<1>8. Review!Withdraw(l)
  BY <1>2, <1>4, <1>7 DEF Review!Withdraw, Review!Turn
<1> QED BY <1>1, <1>8

\* decide_approval is Accept or SendBack when it commits.
LEMMA DecideReviewed ==
    ASSUME TypeOK, LockInv, NEW t \in Threads, NEW comment \in BOOLEAN,
           CommitDecide(t, comment)
    PROVE  \E l \in Links : Review!Accept(l) \/ Review!SendBack(l)
<1>1. PICK p \in Posts, l \in Links, verdict \in Verdict :
        /\ p = txn[t].post
        /\ l = txn[t].link
        /\ verdict = txn[t].arg
        /\ postOf[l] = p
        /\ postState[p] = "PENDING_APPROVAL"
        /\ Revocable(l)
        /\ txn[t] \in Txn /\ txn[t].op = "decide"
  BY TxnKinds DEF CommitDecide, End, LockInv, Fits
<1>2. /\ decision' = [decision EXCEPT ![l] = verdict]
      /\ postState' = [postState EXCEPT ![p] = IF verdict = "APPROVED" THEN "APPROVED"
                                               ELSE "DRAFT"]
      /\ UNCHANGED <<postOf, revoked, expired, scheduled>>
  BY <1>1 DEF CommitDecide
<1>3. Standing(l) = "open"
  BY <1>1, DecidingIsOpen DEF BeingDecided, HoldsLink
<1>4. Standing(l)' = verdict
  BY <1>1, <1>2, NamesAssumption DEF Standing, Revocable, TypeOK, Verdict
<1>5. ASSUME NEW k \in Links, k # l PROVE Standing(k)' = Standing(k)
  <2>1. BeingDecided(k)' <=> BeingDecided(k)
    BY <1>1, <1>5, EndDeciding DEF CommitDecide, End, HoldsLink
  <2>2. decision'[k] = decision[k]
    BY <1>2, <1>5 DEF TypeOK
  <2> QED BY <2>1, <2>2, <1>2, SameStanding
<1>6. standing[l] = "open" /\ standing' = [standing EXCEPT ![l] = verdict]
  BY <1>1, <1>3, <1>4, <1>5, OneTurns DEF standing
<1>7. CASE verdict = "APPROVED"
  <2>1. Review!Accept(l)
    BY <1>1, <1>2, <1>6, <1>7 DEF Review!Accept, Review!Turn, Review!Put
  <2> QED BY <1>1, <2>1
<1>8. CASE verdict = "CHANGES_REQUESTED"
  <2>1. Review!SendBack(l)
    BY <1>1, <1>2, <1>6, <1>8 DEF Review!SendBack, Review!Turn, Review!Put
  <2> QED BY <1>1, <2>1
<1> QED BY <1>1, <1>7, <1>8 DEF Verdict

\* schedule_publication is Schedule when it inserts.
LEMMA ScheduleReviewed ==
    ASSUME TypeOK, LockInv, NEW t \in Threads, Schedule(t)
    PROVE  ReviewUnchanged \/ \E p \in Posts : Review!Schedule(p)
<1>1. standing' = standing
  BY EndDeciding, AllStand DEF Schedule, End
<1>2. txn[t].arg = "APPROVED" =>
            txn[t].post \in Posts /\ postState[txn[t].post] = "APPROVED"
  BY TxnKinds DEF Schedule, End, LockInv, Fits
<1>3. CASE txn[t].arg = "APPROVED"
  <2>1. Review!Schedule(txn[t].post)
    BY <1>1, <1>2, <1>3 DEF Schedule, Schedulable, Review!Schedule
  <2> QED BY <1>2, <1>3, <2>1
<1>4. CASE txn[t].arg # "APPROVED"
  BY <1>1, <1>4 DEF Schedule, Schedulable, ReviewUnchanged
<1> QED BY <1>3, <1>4

\* A link whose standing becomes "lapsed" was open, and nothing else happens.
LEMMA LapseReviewed ==
    ASSUME UNCHANGED <<postState, postOf, scheduled>>, NEW l \in Links,
           Standing(l)' = Standing(l) \/ (Standing(l) = "open" /\ Standing(l)' = "lapsed"),
           \A k \in Links : k # l => Standing(k)' = Standing(k)
    PROVE  ReviewUnchanged \/ Review!Lapse(l)
<1>1. CASE Standing(l)' = Standing(l)
  BY <1>1 DEF standing, ReviewUnchanged
<1>2. CASE Standing(l) = "open" /\ Standing(l)' = "lapsed"
  <2>1. standing[l] = "open" /\ standing' = [standing EXCEPT ![l] = "lapsed"]
    BY <1>2, OneTurns DEF standing
  <2> QED BY <2>1 DEF Review!Lapse, Review!Turn
<1> QED BY <1>1, <1>2

\* A request that dies is nothing, or the end of a link that expired meanwhile.
LEMMA RollbackReviewed ==
    ASSUME TypeOK, LockInv, NEW t \in Threads, Rollback(t)
    PROVE  ReviewUnchanged \/ \E l \in Links : Review!Lapse(l)
<1>1. UNCHANGED <<postState, postOf, decision, revoked, expired, scheduled>>
  BY DEF Rollback
<1>2. CASE \E l \in Links : HoldsLink(t, l) /\ txn[t].op = "decide"
  <2> PICK l \in Links : HoldsLink(t, l) /\ txn[t].op = "decide"
    BY <1>2
  <2>1. Standing(l) = "open"
    BY DecidingIsOpen DEF BeingDecided
  <2>2. Standing(l)' \in {"open", "lapsed"}
    BY <1>1, <2>1 DEF Standing
  <2>3. ASSUME NEW k \in Links, k # l PROVE Standing(k)' = Standing(k)
    <3>1. BeingDecided(k)' <=> BeingDecided(k)
      BY <2>3, EndDeciding DEF Rollback, HoldsLink
    <3> QED BY <3>1, <1>1, SameStanding
  <2> QED BY <1>1, <2>1, <2>2, <2>3, LapseReviewed
<1>3. CASE ~\E l \in Links : HoldsLink(t, l) /\ txn[t].op = "decide"
  <2>1. standing' = standing
    BY <1>1, <1>3, EndDeciding, AllStand DEF Rollback
  <2> QED BY <1>1, <2>1 DEF ReviewUnchanged
<1> QED BY <1>2, <1>3

\* A deadline that passes is the end of an open link, or nothing.
LEMMA ExpireReviewed ==
    ASSUME NEW l \in Links, Expire(l)
    PROVE  ReviewUnchanged \/ Review!Lapse(l)
<1>1. /\ UNCHANGED <<postState, postOf, decision, revoked, scheduled>>
      /\ expired' = expired \cup {l}
      /\ l \notin expired
  BY DEF Expire
<1>2. \A k \in Links : BeingDecided(k)' <=> BeingDecided(k)
  BY DEF Expire, BeingDecided, HoldsLink
<1>3. \A k \in Links : k # l => Standing(k)' = Standing(k)
  BY <1>1, <1>2, SameStanding
<1>4. Standing(l)' = Standing(l) \/ (Standing(l) = "open" /\ Standing(l)' = "lapsed")
  BY <1>1, <1>2 DEF Standing
<1> QED BY <1>1, <1>3, <1>4, LapseReviewed

\* Every step is a step of PostReview or none.
LEMMA ReviewStep ==
    TypeOK /\ LockInv /\ UnissuedIsFresh /\ [Next]_vars => [Review!Next]_(Review!vars)
<1> SUFFICES ASSUME TypeOK, LockInv, UnissuedIsFresh, [Next]_vars
             PROVE  Review!Next \/ ReviewUnchanged
  BY DEF ReviewUnchanged, Review!vars
<1>1. ASSUME NEW t \in Threads, Step(t) PROVE Review!Next \/ ReviewUnchanged
  <2>1. ASSUME NEW p \in Posts, BeginApprove(t, p) PROVE ReviewUnchanged
    BY <2>1, BeginsUnseen DEF BeginApprove
  <2>2. ASSUME NEW p \in Posts, ReadForSchedule(t, p) PROVE ReviewUnchanged
    <3>1. \A k \in Links : BeingDecided(k)' <=> BeingDecided(k)
      <4>1. txn'[t] = [op |-> "schedule", post |-> p, link |-> NoLink,
                       arg |-> postState[p]] /\ txn[t] = NoTxn
        BY <2>2 DEF ReadForSchedule, TypeOK
      <4>2. \A u \in Threads : u # t => txn'[u] = txn[u]
        BY <2>2 DEF ReadForSchedule, TypeOK
      <4> QED BY <4>1, <4>2, TxnKinds DEF BeingDecided, HoldsLink
    <3> QED BY <2>2, <3>1, AllStand DEF ReadForSchedule, ReviewUnchanged
  <2>3. ASSUME NEW p \in Posts, NEW l \in Links, BeginRequest(t, p, l)
        PROVE  ReviewUnchanged
    BY <2>3, BeginsUnseen DEF BeginRequest
  <2>4. ASSUME NEW l \in Links, BeginRevoke(t, l) PROVE ReviewUnchanged
    BY <2>4, BeginsUnseen DEF BeginRevoke, TypeOK
  <2>5. ASSUME NEW l \in Links, NEW verdict \in Verdict, BeginDecide(t, l, verdict)
        PROVE  ReviewUnchanged
    BY <2>5, BeginsUnseen DEF BeginDecide, Usable, TypeOK
  <2>6. CASE CommitApprove(t)
    BY <2>6, ApproveReviewed DEF Review!Next
  <2>7. CASE CommitRequest(t)
    BY <2>7, RequestReviewed DEF Review!Next
  <2>8. CASE CommitRevoke(t)
    BY <2>8, RevokeReviewed DEF Review!Next
  <2>9. ASSUME NEW comment \in BOOLEAN, CommitDecide(t, comment) PROVE Review!Next
    BY <2>9, DecideReviewed DEF Review!Next
  <2>10. CASE Schedule(t)
    BY <2>10, ScheduleReviewed DEF Review!Next
  <2>11. CASE Rollback(t)
    BY <2>11, RollbackReviewed DEF Review!Next
  <2> QED BY <1>1, <2>1, <2>2, <2>3, <2>4, <2>5, <2>6, <2>7, <2>8, <2>9, <2>10, <2>11
          DEF Step
<1>2. ASSUME NEW l \in Links, Expire(l) PROVE Review!Next \/ ReviewUnchanged
  BY <1>2, ExpireReviewed DEF Review!Next
<1>3. CASE UNCHANGED vars
  <2>1. \A k \in Links : BeingDecided(k)' <=> BeingDecided(k)
    BY <1>3 DEF vars, BeingDecided, HoldsLink
  <2> QED BY <1>3, <2>1, AllStand DEF vars, ReviewUnchanged
<1> QED BY <1>1, <1>2, <1>3 DEF Next

\* The editorial services, with their locks, their transactions and a schedule on
\* an unlocked copy, implement PostReview: seen from outside each is one step.
THEOREM ApprovalsImplementReview == Spec => ImplementsReview
<1>1. Init => UnissuedIsFresh /\ Review!Init
  BY DEF Init, UnissuedIsFresh, Review!Init, standing, Standing
<1>2. IInv /\ UnissuedIsFresh /\ [Next]_vars
        => UnissuedIsFresh' /\ [Review!Next]_(Review!vars)
  BY FreshStep, ReviewStep DEF IInv
<1> QED BY <1>1, <1>2, Invariant, PTL DEF Spec, ImplementsReview, Review!Spec
=============================================================================
