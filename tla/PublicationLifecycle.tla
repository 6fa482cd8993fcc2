------------------------ MODULE PublicationLifecycle ------------------------
(***************************************************************************)
(* What delivery promises of each publication, with no queue, worker,       *)
(* clock or crash: one attempt at a time, at most MaxAttempts of them, each *)
(* ending the publication or putting it back to wait, and an end that is    *)
(* final.  Delivery implements it (see ImplementsLifecycle there).          *)
(***************************************************************************)
EXTENDS Naturals

CONSTANTS Publications, MaxAttempts

VARIABLES
    state,  \* the delivery portion of LifecycleState
    tries   \* attempts started so far

vars == <<state, tries>>

Init ==
    /\ state = [p \in Publications |-> "NONE"]
    /\ tries = [p \in Publications |-> 0]

Move(p, from, to) ==
    /\ state[p] = from
    /\ state' = [state EXCEPT ![p] = to]

Schedule(p) == Move(p, "NONE", "SCHEDULED") /\ UNCHANGED tries

Try(p) ==
    /\ tries[p] < MaxAttempts
    /\ Move(p, "SCHEDULED", "PUBLISHING")
    /\ tries' = [tries EXCEPT ![p] = @ + 1]

Retry(p) ==
    /\ tries[p] < MaxAttempts
    /\ Move(p, "PUBLISHING", "SCHEDULED")
    /\ UNCHANGED tries

End(p) ==
    /\ \E result \in {"PUBLISHED", "FAILED"} : Move(p, "PUBLISHING", result)
    /\ UNCHANGED tries

Next == \E p \in Publications : Schedule(p) \/ Try(p) \/ Retry(p) \/ End(p)

Spec == Init /\ [][Next]_vars
=============================================================================
