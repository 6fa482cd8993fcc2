----------------------------- MODULE KeyRegister -----------------------------
(***************************************************************************)
(* What an Idempotency-Key promises: a key is bound once, to the content of *)
(* the first request that succeeds with it, and every answer is taken from  *)
(* that binding in one step.  A request may also be refused, which binds    *)
(* nothing, or fail, of which the client does not learn whether the key has *)
(* been bound.  KeyedCreation implements it.                                *)
(***************************************************************************)

CONSTANTS Keys, Contents, Threads, Unbound

VARIABLES
    bound,  \* the content a key stands for, or Unbound
    said    \* the last answer of each thread

vars == <<bound, said>>

Refusals == {"invalid", "collided", "failed"}

Init ==
    /\ bound = [k \in Keys |-> Unbound]
    /\ said = [t \in Threads |-> [status |-> "none"]]

Say(t, k, c, s) == said' = [said EXCEPT ![t] = [status |-> s, key |-> k, content |-> c]]

Bind(t, k, c) ==
    /\ bound[k] = Unbound
    /\ bound' = [bound EXCEPT ![k] = c]
    /\ \E s \in {"created", "failed"} : Say(t, k, c, s)

\* The key is bound for a client that is never answered.
BindUnsaid(k, c) ==
    /\ bound[k] = Unbound
    /\ bound' = [bound EXCEPT ![k] = c]
    /\ UNCHANGED said

Recall(t, k, c) ==
    /\ bound[k] = c
    /\ UNCHANGED bound
    /\ Say(t, k, c, "replayed")

Contradict(t, k, c) ==
    /\ bound[k] \in Contents \ {c}
    /\ UNCHANGED bound
    /\ Say(t, k, c, "conflict")

Refuse(t, k, c) ==
    /\ UNCHANGED bound
    /\ \E s \in Refusals : Say(t, k, c, s)

Next ==
    \E t \in Threads, k \in Keys, c \in Contents :
        \/ Bind(t, k, c) \/ BindUnsaid(k, c)
        \/ Recall(t, k, c) \/ Contradict(t, k, c) \/ Refuse(t, k, c)

Spec == Init /\ [][Next]_vars
=============================================================================
