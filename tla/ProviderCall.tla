---------------------------- MODULE ProviderCall -----------------------------
(***************************************************************************)
(* What one delivery attempt promises of Meta, however many requests it     *)
(* takes: the post appears at most once, a result is reported once, and     *)
(* success is only reported of a post that is there.  A failure says        *)
(* nothing: the post may be there all the same.  This is the call that      *)
(* Delivery makes in each attempt; MetaPublishing implements it.            *)
(***************************************************************************)
EXTENDS Naturals

VARIABLES
    posts,  \* posts that this attempt has made public
    result  \* what the attempt reports

vars == <<posts, result>>

Failures == {"transient", "permanent", "killed"}

Init == posts = 0 /\ result = "running"

Accept ==
    /\ result = "running"
    /\ posts = 0
    /\ posts' = 1
    /\ UNCHANGED result

Report ==
    /\ result = "running"
    /\ posts = 1
    /\ result' = "published"
    /\ UNCHANGED posts

Fail ==
    /\ result = "running"
    /\ result' \in Failures
    /\ UNCHANGED posts

Next == Accept \/ Report \/ Fail

Spec == Init /\ [][Next]_vars
=============================================================================
