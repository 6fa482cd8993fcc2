----------------------------- MODULE PostReview ------------------------------
(***************************************************************************)
(* What the editorial workflow promises of each post and each review link,  *)
(* with no threads, locks or transactions: every act is one step on what is *)
(* true at that moment.  Approvals implements it (see ImplementsReview      *)
(* there), which is why a caller may take an editorial service for one step. *)
(***************************************************************************)

CONSTANTS Posts, Links, NoPost

VARIABLES
    postState,  \* Post.state, as far as review goes
    postOf,     \* the post a link is about
    standing,   \* what a link is good for
    scheduled   \* posts with a publication

vars == <<postState, postOf, standing, scheduled>>

Undecided == {"DRAFT", "PENDING_APPROVAL"}

Init ==
    /\ postState = [p \in Posts |-> "DRAFT"]
    /\ postOf = [l \in Links |-> NoPost]
    /\ standing = [l \in Links |-> "unissued"]
    /\ scheduled = {}

\* A link goes from one standing to another, a post to a state.
Turn(l, from, to) ==
    /\ standing[l] = from
    /\ standing' = [standing EXCEPT ![l] = to]

Put(p, to) == postState' = [postState EXCEPT ![p] = to]

\* A member approves the post.
Approve(p) ==
    /\ postState[p] \in Undecided
    /\ Put(p, "APPROVED")
    /\ UNCHANGED <<postOf, standing, scheduled>>

\* A link is sent out, and the post is in review.
Issue(p, l) ==
    /\ postState[p] \in Undecided
    /\ Turn(l, "unissued", "open")
    /\ Put(p, "PENDING_APPROVAL")
    /\ postOf' = [postOf EXCEPT ![l] = p]
    /\ UNCHANGED scheduled

\* Whoever has an open link to a post in review decides, once.
Accept(l) ==
    /\ Turn(l, "open", "APPROVED")
    /\ postState[postOf[l]] = "PENDING_APPROVAL"
    /\ Put(postOf[l], "APPROVED")
    /\ UNCHANGED <<postOf, scheduled>>

SendBack(l) ==
    /\ Turn(l, "open", "CHANGES_REQUESTED")
    /\ postState[postOf[l]] = "PENDING_APPROVAL"
    /\ Put(postOf[l], "DRAFT")
    /\ UNCHANGED <<postOf, scheduled>>

\* A link is withdrawn, also after it has lapsed.
Withdraw(l) ==
    /\ \E from \in {"open", "lapsed"} : Turn(l, from, "revoked")
    /\ UNCHANGED <<postState, postOf, scheduled>>

Lapse(l) ==
    /\ Turn(l, "open", "lapsed")
    /\ UNCHANGED <<postState, postOf, scheduled>>

Schedule(p) ==
    /\ postState[p] = "APPROVED"
    /\ scheduled' = scheduled \cup {p}
    /\ UNCHANGED <<postState, postOf, standing>>

Next ==
    \/ \E p \in Posts : Approve(p) \/ Schedule(p) \/ \E l \in Links : Issue(p, l)
    \/ \E l \in Links : Accept(l) \/ SendBack(l) \/ Withdraw(l) \/ Lapse(l)

Spec == Init /\ [][Next]_vars
=============================================================================
