---------------------------- MODULE MetaConnections ----------------------------
(***************************************************************************)
(* The channels a brand may publish to: how a journey through Meta's OAuth  *)
(* dialog stores them, and how they are revoked and used.                   *)
(*                                                                         *)
(*   relay/social/services.py  start_meta_oauth, consume_oauth_state,       *)
(*                             persist_meta_connections,                    *)
(*                             complete_meta_oauth                          *)
(*   relay/api/views.py        MetaOAuthCallbackView.get,                   *)
(*                             PublicationListCreateView.post               *)
(*   relay/social/management/commands/revoke_promoted_meta_connections.py   *)
(*   relay/api/services.py     schedule_publication                         *)
(*                                                                         *)
(* A callback is two transactions with requests to Meta between them: the   *)
(* first spends the journey's state under a row lock, the second stores the *)
(* account and its connections.  Callbacks run concurrently, are repeated   *)
(* by browsers and may die anywhere; whatever they have not committed is    *)
(* rolled back.  All brands are of one workspace, where an account belongs  *)
(* to one brand.  Answers are left out: the browser learns nothing from them *)
(* that changes what it does (see the README on the one after a success).   *)
(***************************************************************************)
EXTENDS Naturals

CONSTANTS
    Journeys,   \* OAuth states that may be issued
    Brands,     \* brands of the workspace
    Accounts,   \* accounts at Meta
    Channels,   \* pages and Instagram accounts an account may grant
    Promoted,   \* connections copied by the retired promote_meta_connections
    Threads,    \* threads of the web server
    None        \* no row

ASSUME PromotedAssumption == Promoted \subseteq Accounts \X Channels
ASSUME NoneAssumption ==
    /\ None \notin Brands \cup Journeys
    /\ None \notin [active : BOOLEAN, grant : Journeys \cup {None}]
    /\ None \notin [brand : Brands, connection : Accounts \X Channels]

VARIABLES
    opened,     \* brand of each OAuthState that was issued
    used,       \* OAuthStates with used_at
    expired,    \* OAuthStates past expires_at
    account,    \* brand of each SocialAccount row
    connection, \* ChannelConnection rows: is_active, and whose token they hold
    txn,        \* what the callback of each thread is doing
    request,    \* what each thread is about to schedule, and on which connection
    listed,     \* connections the revoking command has still to deactivate
    scheduled,  \* publications, by brand and connection
    stored      \* history: how often a journey has stored its connections

states == <<opened, used, expired>>
rows == <<account, connection>>
callbacks == <<states, rows, txn, stored>>
vars == <<callbacks, request, listed, scheduled>>

Connections == Accounts \X Channels
Idle == [step |-> "idle"]
Consumption == [step : {"consuming", "connecting"}, journey : Journeys]
Persistence == [step : {"persisting", "storing"}, journey : Journeys,
                account : Accounts, channels : SUBSET Channels]
Row == [active : BOOLEAN, grant : Journeys \cup {None}]
Request == [brand : Brands, connection : Connections]

TypeOK ==
    /\ opened \in [Journeys -> Brands \cup {None}]
    /\ used \subseteq Journeys /\ expired \subseteq Journeys
    /\ account \in [Accounts -> Brands \cup {None}]
    /\ connection \in [Connections -> Row \cup {None}]
    /\ txn \in [Threads -> Consumption \cup Persistence \cup {Idle}]
    /\ request \in [Threads -> Request \cup {None}]
    /\ listed \subseteq Connections
    /\ scheduled \subseteq Request
    /\ stored \in [Journeys -> Nat]

\* The copied connections are there, in some brand.
Init ==
    /\ opened = [j \in Journeys |-> None] /\ used = {} /\ expired = {}
    /\ \E b \in Brands : account =
            [a \in Accounts |-> IF \E p \in Promoted : p[1] = a THEN b ELSE None]
    /\ connection = [p \in Connections |->
            IF p \in Promoted THEN [active |-> TRUE, grant |-> None] ELSE None]
    /\ txn = [t \in Threads |-> Idle] /\ request = [t \in Threads |-> None]
    /\ listed = {} /\ scheduled = {}
    /\ stored = [j \in Journeys |-> 0]

IsActive(p) == connection[p] # None /\ connection[p].active

-----------------------------------------------------------------------------
\* OAuth states.

\* start_meta_oauth
Start(j, b) ==
    /\ opened[j] = None
    /\ opened' = [opened EXCEPT ![j] = b]
    /\ UNCHANGED <<used, expired, rows, txn, request, listed, scheduled, stored>>

\* Ten minutes pass.
Expire(j) ==
    /\ opened[j] # None
    /\ expired' = expired \cup {j}
    /\ UNCHANGED <<opened, used, rows, txn, request, listed, scheduled, stored>>

\* Mutant: the state is read without a lock.
Unlocked(j) == TRUE

\* No transaction holds the row of the state.
Unheld(j) == \A t \in Threads : txn[t] # Idle /\ txn[t].step = "consuming" => txn[t].journey # j

Fresh(j) == j \notin used /\ j \notin expired

\* consume_oauth_state locks the row and finds it usable (otherwise it raises
\* InvalidOAuthState and changes nothing).
Consume(t, j) ==
    /\ txn[t] = Idle /\ request[t] = None /\ opened[j] # None /\ Unheld(j)
    /\ Fresh(j)
    /\ txn' = [txn EXCEPT ![t] = [step |-> "consuming", journey |-> j]]
    /\ UNCHANGED <<states, rows, request, listed, scheduled, stored>>

-----------------------------------------------------------------------------
\* A callback.

At(t, step) == txn[t] # Idle /\ txn[t].step = step

\* The first transaction commits.
Spend(t) ==
    /\ At(t, "consuming")
    /\ used' = used \cup {txn[t].journey}
    /\ txn' = [txn EXCEPT ![t].step = "connecting"]
    /\ UNCHANGED <<opened, expired, rows, request, listed, scheduled, stored>>

\* MetaOAuthClient.connect: the tokens and channels of the account that the
\* member has chosen in the dialog.
Connect(t, a, cs) ==
    /\ At(t, "connecting")
    /\ txn' = [txn EXCEPT ![t] = [step |-> "persisting", journey |-> txn[t].journey,
                                  account |-> a, channels |-> cs]]
    /\ UNCHANGED <<states, rows, request, listed, scheduled, stored>>

Close(t) ==
    /\ txn' = [txn EXCEPT ![t] = Idle]
    /\ UNCHANGED <<states, request, listed, scheduled>>

\* MetaProviderError: the state stays spent.
ConnectFails(t) ==
    /\ At(t, "connecting")
    /\ Close(t)
    /\ UNCHANGED <<rows, stored>>

\* Mutant: the account is looked up without its brand.
OfAnyBrand(t) == TRUE

\* update_or_create finds the account in the journey's brand or nowhere.
OfItsBrand(t) == account[txn[t].account] \in {None, opened[txn[t].journey]}

\* The row is locked, or inserted once no other transaction has it.
LockAccount(t) ==
    /\ At(t, "persisting")
    /\ OfItsBrand(t)
    /\ \A u \in Threads : At(u, "storing") => txn[u].account # txn[t].account
    /\ txn' = [txn EXCEPT ![t].step = "storing"]
    /\ UNCHANGED <<states, rows, request, listed, scheduled, stored>>

\* IntegrityError: the account is of another brand of the workspace.
RefuseAccount(t) ==
    /\ At(t, "persisting")
    /\ ~OfItsBrand(t)
    /\ Close(t)
    /\ UNCHANGED <<rows, stored>>

\* persist_meta_connections commits.
Persist(t) ==
    /\ At(t, "storing")
    /\ LET j == txn[t].journey
           granted == {txn[t].account} \X txn[t].channels IN
        /\ account' = [account EXCEPT ![txn[t].account] = opened[j]]
        /\ connection' = [p \in Connections |->
                IF p \in granted THEN [active |-> TRUE, grant |-> j] ELSE connection[p]]
        /\ stored' = [stored EXCEPT ![j] = @ + 1]
    /\ Close(t)

\* The process is killed, or the browser goes away.
Die(t) ==
    /\ txn[t] # Idle
    /\ txn' = [txn EXCEPT ![t] = Idle]
    /\ UNCHANGED <<states, rows, request, listed, scheduled, stored>>

-----------------------------------------------------------------------------
\* The revoking command, and scheduling.

\* The connections are read before the first one is deactivated.
ListPromoted ==
    /\ listed = {}
    /\ listed' = {p \in Promoted : IsActive(p)}
    /\ UNCHANGED <<callbacks, request, scheduled>>

\* Mutant: the row is saved with nothing but the flag.
DeactivateBlank(p) ==
    /\ p \in listed
    /\ connection' = [connection EXCEPT ![p] = [active |-> FALSE]]
    /\ listed' = listed \ {p}
    /\ UNCHANGED <<states, account, txn, request, scheduled, stored>>

\* update_fields: only the flag is written.
Deactivate(p) ==
    /\ p \in listed
    /\ connection' = [connection EXCEPT ![p].active = FALSE]
    /\ listed' = listed \ {p}
    /\ UNCHANGED <<states, account, txn, request, scheduled, stored>>

CommandDies ==
    /\ listed # {}
    /\ listed' = {}
    /\ UNCHANGED <<callbacks, request, scheduled>>

\* The view reads a connection of the post's brand, without a lock; only a copy
\* that is active is of use to schedule_publication.
ReadConnection(t, b, p) ==
    /\ txn[t] = Idle /\ request[t] = None
    /\ IsActive(p) /\ account[p[1]] = b
    /\ request' = [request EXCEPT ![t] = [brand |-> b, connection |-> p]]
    /\ UNCHANGED <<callbacks, listed, scheduled>>

\* schedule_publication tests that copy, and inserts the publication.
Schedule(t) ==
    /\ request[t] # None
    /\ scheduled' = scheduled \cup {request[t]}
    /\ request' = [request EXCEPT ![t] = None]
    /\ UNCHANGED <<callbacks, listed>>

\* It is refused for another reason, or the process is killed.
Abandon(t) ==
    /\ request[t] # None
    /\ request' = [request EXCEPT ![t] = None]
    /\ UNCHANGED <<callbacks, listed, scheduled>>

Callback(t) ==
    \/ Spend(t) \/ ConnectFails(t) \/ LockAccount(t) \/ RefuseAccount(t)
    \/ Persist(t) \/ Die(t)
    \/ \E a \in Accounts, cs \in SUBSET Channels : Connect(t, a, cs)
    \/ \E j \in Journeys : Consume(t, j)

Next ==
    \/ \E t \in Threads :
        \/ Callback(t) \/ Schedule(t) \/ Abandon(t)
        \/ \E b \in Brands, p \in Connections : ReadConnection(t, b, p)
    \/ \E j \in Journeys : Expire(j) \/ \E b \in Brands : Start(j, b)
    \/ ListPromoted \/ CommandDies
    \/ \E p \in Connections : Deactivate(p)

Spec == Init /\ [][Next]_vars

-----------------------------------------------------------------------------
\* Properties.

\* However often a callback is repeated, and wherever it dies, a state that
\* consume_oauth_state has spent stores connections once at most.
StatesConnectOnce ==
    \A j \in Journeys : stored[j] =< 1 /\ (stored[j] > 0 => j \in used)

\* A token is kept only in the brand whose member asked for it, although all
\* brands of the workspace may be connected to one account at once.
TokensStayInBrand ==
    \A p \in Connections :
        (connection[p] # None /\ connection[p].grant # None) =>
            opened[connection[p].grant] = account[p[1]]

\* A publication's connection remains one of its own brand, whatever is
\* connected once the view has read it: nobody tests it again.
PublicationsStayInBrand ==
    \A s \in scheduled : account[s.connection[1]] = s.brand

\* A revoked connection is active again only with a token it did not hold: a
\* repeated callback never undoes a revocation.
RevokedNeedsNewGrant ==
    [][\A p \in Connections :
        (connection[p] # None /\ ~connection[p].active /\ connection'[p].active) =>
            connection'[p].grant # connection[p].grant]_vars

\* A callback is at work on journey j.
InHand(j) == \E t \in Threads : txn[t] # Idle /\ txn[t].journey = j

\* How journey j stands.  A state that is spent, or that expires after a callback
\* has consumed it, may still connect: it is lost when that callback has ended.
Fate(j) ==
    IF opened[j] = None THEN "unissued"
    ELSE IF stored[j] > 0 THEN "connected"
    ELSE IF j \in used \cup expired /\ ~InHand(j) THEN "lost"
    ELSE "open"

fate == [j \in Journeys |-> Fate(j)]

\* What the requests in progress have read.
picked == {request[t] : t \in Threads} \ {None}

Directory == INSTANCE ChannelDirectory WITH fate <- fate, picked <- picked

\* Both transactions of a callback, with all that may happen between them, are one
\* step of ChannelDirectory: it connects the account and all channels, or nothing;
\* the command, which works from a list that is out of date by then, revokes only
\* what was copied; and what is scheduled was read while it was active, though it
\* may have been revoked since.
ImplementsDirectory == Directory!Spec
=============================================================================
