-------------------------- MODULE ChannelDirectory ---------------------------
(***************************************************************************)
(* What connecting Meta accounts promises: a journey through the OAuth       *)
(* dialog ends once, either in one step that stores an account and its       *)
(* channels for the brand that began it, or without any effect; and what is  *)
(* scheduled goes through a connection that was active when it was picked.   *)
(* There are no callbacks, row locks or lists that are out of date.          *)
(* MetaConnections implements it (see ImplementsDirectory there).            *)
(***************************************************************************)

CONSTANTS Journeys, Brands, Accounts, Channels, Promoted, None

VARIABLES
    opened,     \* brand that began each journey
    fate,       \* how each journey stands
    account,    \* brand of each SocialAccount
    connection, \* ChannelConnection rows
    picked,     \* choices of a brand and a connection, not yet scheduled
    scheduled   \* publications, by brand and connection

rows == <<account, connection>>
vars == <<opened, fate, rows, picked, scheduled>>

Connections == Accounts \X Channels

Init ==
    /\ opened = [j \in Journeys |-> None]
    /\ fate = [j \in Journeys |-> "unissued"]
    /\ \E b \in Brands : account =
            [a \in Accounts |-> IF \E p \in Promoted : p[1] = a THEN b ELSE None]
    /\ connection = [p \in Connections |->
            IF p \in Promoted THEN [active |-> TRUE, grant |-> None] ELSE None]
    /\ picked = {} /\ scheduled = {}

Turn(j, from, to) ==
    /\ fate[j] = from
    /\ fate' = [fate EXCEPT ![j] = to]

Start(j, b) ==
    /\ Turn(j, "unissued", "open")
    /\ opened' = [opened EXCEPT ![j] = b]
    /\ UNCHANGED <<rows, picked, scheduled>>

\* The member comes back with account a, which is free or of the same brand.
Connect(j, a, cs) ==
    /\ Turn(j, "open", "connected")
    /\ account[a] \in {None, opened[j]}
    /\ account' = [account EXCEPT ![a] = opened[j]]
    /\ connection' = [p \in Connections |->
            IF p \in {a} \X cs THEN [active |-> TRUE, grant |-> j] ELSE connection[p]]
    /\ UNCHANGED <<opened, picked, scheduled>>

\* Refused, failed, killed or late: the journey connects nothing any more.
Lose(j) ==
    /\ Turn(j, "open", "lost")
    /\ UNCHANGED <<opened, rows, picked, scheduled>>

\* Only what was copied is ever revoked, and it keeps its token.
Revoke(p) ==
    /\ connection[p] # None
    /\ connection' = [connection EXCEPT ![p].active = FALSE]
    /\ UNCHANGED <<opened, fate, account, picked, scheduled>>

\* An active connection of the brand is chosen.
Pick(b, p) ==
    /\ connection[p] # None /\ connection[p].active
    /\ account[p[1]] = b
    /\ picked' = picked \cup {[brand |-> b, connection |-> p]}
    /\ UNCHANGED <<opened, fate, rows, scheduled>>

\* The choice stands even if the connection is revoked before this; others may
\* have made the same one.
Schedule(s) ==
    /\ s \in picked
    /\ scheduled' = scheduled \cup {s}
    /\ picked' \in {picked, picked \ {s}}
    /\ UNCHANGED <<opened, fate, rows>>

Drop(s) ==
    /\ picked' = picked \ {s}
    /\ UNCHANGED <<opened, fate, rows, scheduled>>

Next ==
    \/ \E j \in Journeys :
        \/ Lose(j)
        \/ \E b \in Brands : Start(j, b)
        \/ \E a \in Accounts, cs \in SUBSET Channels : Connect(j, a, cs)
    \/ \E p \in Promoted : Revoke(p)
    \/ \E b \in Brands, p \in Connections : Pick(b, p)
    \/ \E s \in picked : Schedule(s) \/ Drop(s)

Spec == Init /\ [][Next]_vars
=============================================================================
