---------------------------- MODULE KeyedCreation ----------------------------
(***************************************************************************)
(* Creation under an Idempotency-Key, with concurrent requests for one key. *)
(*                                                                         *)
(*   relay/api/views.py        PostCollectionView.post,                     *)
(*                             PublicationCollectionView.post               *)
(*   relay/api/serializers.py  PublicationCreateSerializer                  *)
(*   relay/api/services.py     create_post_draft, schedule_publication      *)
(*                                                                         *)
(* Both services look the key up, insert a row under a unique constraint    *)
(* and answer.  They differ in when they validate: a draft's images are     *)
(* read after the insert, a scheduling is validated before it (and its time *)
(* before the key is even looked up).  `service` is chosen initially.       *)
(*                                                                         *)
(* A transaction sees the rows committed before its statement (READ         *)
(* COMMITTED), so two requests may both miss the key; the second insert     *)
(* then waits for the first transaction to end.  If that one commits, the   *)
(* insert fails and the handler of IntegrityError queries inside the atomic *)
(* block that the failure has already marked for rollback: Django raises    *)
(* TransactionManagementError and the request ends in a 500 ("collided").   *)
(* Another 500 ("failed") is that of a transaction that PostgreSQL cancels, *)
(* as when two drafts lock the same images in different orders, or whose    *)
(* connection is lost.                                                      *)
(***************************************************************************)
EXTENDS Naturals

CONSTANTS
    Keys,       \* idempotency keys of one tenant
    Contents,   \* what can be asked for; equal iff request_fingerprint is
    Threads,    \* threads of the web server
    None        \* no row with that key

ASSUME NoneAssumption == None \notin Contents

VARIABLES
    service,  \* the service the keys belong to, each having its own table
    stored,   \* content of the committed row with a key
    created,  \* history: rows committed with a key
    fit,      \* contents that can be created now: a draft's images are READY;
              \* a scheduling's post is APPROVED and its connection active
    late,     \* contents whose scheduled_for has passed
    txn,      \* what each thread's request is doing
    answer    \* the last answer of each thread

vars == <<service, stored, created, fit, late, txn, answer>>
database == <<stored, created>>
world == <<service, fit, late>>

Statuses == {"created", "replayed", "conflict", "invalid", "collided", "failed"}
Idle == [step |-> "idle"]
Txn == [step : {"received", "inserting", "inserted"}, key : Keys,
        content : Contents, fit : BOOLEAN]
Silent == [status |-> "none"]
Answer == [status : Statuses, key : Keys, content : Contents]

Services == {"draft", "scheduling"}
Scheduling == service = "scheduling"

TypeOK ==
    /\ service \in Services
    /\ stored \in [Keys -> Contents \cup {None}]
    /\ created \in [Keys -> Nat]
    /\ fit \subseteq Contents
    /\ late \subseteq Contents
    /\ txn \in [Threads -> Txn \cup {Idle}]
    /\ answer \in [Threads -> Answer \cup {Silent}]

Init ==
    /\ service \in Services
    /\ stored = [k \in Keys |-> None]
    /\ created = [k \in Keys |-> 0]
    /\ fit = {} /\ late = {}
    /\ txn = [t \in Threads |-> Idle]
    /\ answer = [t \in Threads |-> Silent]

-----------------------------------------------------------------------------
\* The world around the requests.

\* A draft's images become READY, which is final; a scheduling's post is approved.
BecomeFit(c) ==
    /\ fit' = fit \cup {c}
    /\ UNCHANGED <<service, database, late, txn, answer>>

\* A connection is deactivated.
BecomeUnfit(c) ==
    /\ Scheduling
    /\ fit' = fit \ {c}
    /\ UNCHANGED <<service, database, late, txn, answer>>

\* The requested time of a scheduling passes.
BecomeLate(c) ==
    /\ Scheduling
    /\ late' = late \cup {c}
    /\ UNCHANGED <<service, database, fit, txn, answer>>

-----------------------------------------------------------------------------
\* A request.

Respond(t, k, c, s) ==
    answer' = [answer EXCEPT ![t] = [status |-> s, key |-> k, content |-> c]]

\* validate_scheduled_for: refused before the key is looked up.
RefuseLate(t, k, c) ==
    /\ txn[t] = Idle
    /\ c \in late
    /\ Respond(t, k, c, "invalid")
    /\ UNCHANGED <<database, world, txn>>

\* The view reads the variant, its post and the connection of a scheduling.
Receive(t, k, c) ==
    /\ txn[t] = Idle
    /\ c \notin late
    /\ txn' = [txn EXCEPT ![t] =
            [step |-> "received", key |-> k, content |-> c, fit |-> c \in fit]]
    /\ UNCHANGED <<database, world, answer>>

\* Thread t is at `step`, and goes to another.
GoTo(t, from, to) ==
    /\ txn[t] # Idle
    /\ txn[t].step = from
    /\ txn' = [txn EXCEPT ![t].step = to]
    /\ UNCHANGED <<database, world, answer>>

\* Mutant: the request is answered but its transaction is left open.
FinishUnclosed(t, from, status) ==
    /\ txn[t] # Idle
    /\ txn[t].step = from
    /\ txn' = [txn EXCEPT ![t].step = "answered"]
    /\ Respond(t, txn[t].key, txn[t].content, status)
    /\ UNCHANGED world

\* Thread t is at `step` and its request ends with an answer.
Finish(t, from, status) ==
    /\ txn[t] # Idle
    /\ txn[t].step = from
    /\ txn' = [txn EXCEPT ![t] = Idle]
    /\ Respond(t, txn[t].key, txn[t].content, status)
    /\ UNCHANGED world

\* Mutant: any stored row answers the request.
AnyRequest(t) == stored[txn[t].key] # None

\* existing.request_fingerprint
SameRequest(t) == stored[txn[t].key] = txn[t].content

Replay(t) ==
    /\ Finish(t, "received", "replayed")
    /\ stored[txn[t].key] # None
    /\ SameRequest(t)
    /\ UNCHANGED database

\* IdempotencyConflict
Conflict(t) ==
    /\ Finish(t, "received", "conflict")
    /\ stored[txn[t].key] # None
    /\ ~SameRequest(t)
    /\ UNCHANGED database

\* InvalidSchedule, InvalidStateTransition: from what the view read.
RefuseScheduling(t) ==
    /\ Scheduling
    /\ Finish(t, "received", "invalid")
    /\ stored[txn[t].key] = None
    /\ ~txn[t].fit
    /\ UNCHANGED database

Miss(t) ==
    /\ GoTo(t, "received", "inserting")
    /\ stored[txn[t].key] = None
    /\ Scheduling => txn[t].fit

\* Mutant: the look-up leaves a shared lock on the missing key, so that whoever
\* has missed it as well keeps the insert waiting.
ContendedByReaders(t) ==
    \E u \in Threads \ {t} :
        /\ txn[u] # Idle
        /\ txn[u].step \in {"inserting", "inserted"} /\ txn[u].key = txn[t].key

\* The key is in the index already, in a row not yet committed.
Contended(t) ==
    \E u \in Threads \ {t} :
        txn[u] # Idle /\ txn[u].step = "inserted" /\ txn[u].key = txn[t].key

\* UniqueConstraint on (tenant, idempotency_key)
Insert(t) ==
    /\ GoTo(t, "inserting", "inserted")
    /\ ~Contended(t)
    /\ stored[txn[t].key] = None

\* Mutant: the insert gives up instead of waiting (NOWAIT).
InsertFailsAtOnce(t) ==
    /\ Finish(t, "inserting", "collided")
    /\ stored[txn[t].key] # None \/ Contended(t)
    /\ UNCHANGED database

\* IntegrityError, and the query after it.
InsertFails(t) ==
    /\ Finish(t, "inserting", "collided")
    /\ stored[txn[t].key] # None
    /\ UNCHANGED database

\* InvalidMediaAsset from ready_assets_for_post: the row is rolled back.
RefuseDraft(t) ==
    /\ ~Scheduling
    /\ Finish(t, "inserted", "invalid")
    /\ txn[t].content \notin fit
    /\ UNCHANGED database

Store(t) ==
    /\ Scheduling \/ txn[t].content \in fit
    /\ stored' = [stored EXCEPT ![txn[t].key] = txn[t].content]
    /\ created' = [created EXCEPT ![txn[t].key] = @ + 1]

Commit(t) == Finish(t, "inserted", "created") /\ Store(t)

\* The row is committed, and the connection to PostgreSQL is lost with the answer
\* to COMMIT: a 500.
CommitUnconfirmed(t) == Finish(t, "inserted", "failed") /\ Store(t)

\* PostgreSQL cancels the transaction, in a deadlock for instance, or the connection
\* to it is lost: a 500, and nothing is stored.
Fail(t) ==
    /\ txn[t] # Idle
    /\ Finish(t, txn[t].step, "failed")
    /\ UNCHANGED database

Abandon(t) ==
    /\ txn' = [txn EXCEPT ![t] = Idle]
    /\ UNCHANGED <<world, answer>>

\* The process is killed: nothing is answered, and the transaction is rolled back
\* unless it has just committed.
Die(t) == txn[t] # Idle /\ Abandon(t) /\ UNCHANGED database
DieCommitted(t) ==
    /\ txn[t] # Idle
    /\ txn[t].step = "inserted"
    /\ Abandon(t)
    /\ Store(t)

Work(t) ==
    \/ Replay(t) \/ Conflict(t) \/ RefuseScheduling(t) \/ Miss(t)
    \/ Insert(t) \/ InsertFails(t) \/ RefuseDraft(t) \/ Commit(t)

Fault(t) == CommitUnconfirmed(t) \/ Fail(t) \/ Die(t) \/ DieCommitted(t)

Environment ==
    \E c \in Contents : BecomeFit(c) \/ BecomeUnfit(c) \/ BecomeLate(c)

Next ==
    \/ Environment
    \/ \E t \in Threads : Work(t) \/ Fault(t)
    \/ \E t \in Threads, k \in Keys, c \in Contents :
            Receive(t, k, c) \/ RefuseLate(t, k, c)

Spec == Init /\ [][Next]_vars

\* A thread that has a request runs it to its end.  Strong fairness, because an
\* insert that waits is woken whenever the transaction ahead of it ends, and may
\* find another one ahead of it then.
LiveSpec == Spec /\ \A t \in Threads : SF_vars(Work(t))

-----------------------------------------------------------------------------
\* Properties.

\* A key never has a second row: requests that all missed the key, retries of
\* requests that failed or died and retries of refused ones create it once.
CreatedOnce ==
    \A k \in Keys : created[k] = IF stored[k] = None THEN 0 ELSE 1

\* A unique violation means that another request has bound the key for good, never
\* that a transaction holds it which may still be rolled back: the row that the
\* handler of IntegrityError asks for exists, and a request that is repeated after
\* this 500 finds it.  The 500 of a cancelled transaction says nothing of the kind.
CollisionMeansBound ==
    \A t \in Threads : answer[t].status = "collided" => stored[answer[t].key] # None

\* The answers are those of one binding per key, made and read atomically: a
\* success names the row the key stands for, a conflict is a real one, and a
\* refused request binds nothing.  One that fails or dies has bound its key, to its
\* own content, or has done nothing at all.
Register == INSTANCE KeyRegister WITH bound <- stored, said <- answer, Unbound <- None
ImplementsRegister == Register!Spec

\* Requests for one key never wait for each other for ever: an insert waits for
\* nobody but the one that has inserted before it, and each request is answered or
\* dies.
RequestsEnd == \A t \in Threads : txn[t] # Idle ~> txn[t] = Idle

\* "repeating the same Idempotency-Key and request returns the original draft":
\* create_post_draft answers it so, whatever else is running, as long as the
\* database does not fail it.
RepeatedDraftReturnsOriginal ==
    [][service = "draft" => \A t \in Threads : answer'[t] # answer[t] =>
        \/ stored[answer'[t].key] # answer'[t].content
        \/ answer'[t].status \in {"replayed", "failed"}]_vars
=============================================================================
