------------------------------ MODULE Delivery ------------------------------
(***************************************************************************)
(* Scheduled delivery: Celery beat, the Redis queue, the Celery workers and *)
(* Meta around the two tables Publication and PublicationAttempt.           *)
(*                                                                         *)
(*   relay/publications/tasks.py     dispatch_due_publications              *)
(*   relay/publications/services.py  publish_due_publication,               *)
(*                                   _finish_failure                        *)
(*                                                                         *)
(* A worker runs one task at a time.  publish_due_publication is three      *)
(* separate steps in the code and in the model: a transaction that claims   *)
(* the publication, the call to Meta outside any transaction, and a second  *)
(* transaction that records the outcome.  Everything else may happen in     *)
(* between.                                                                 *)
(*                                                                         *)
(* One Tick is one minute.  Instants are kept relative to the present:      *)
(* dueIn[p] is scheduled_for - now, age of a task is now - its own `now`.   *)
(***************************************************************************)
EXTENDS Integers, Sequences, FiniteSets

CONSTANTS
    Publications,    \* rows of Publication
    Workers,         \* Celery worker processes
    MaxAttempts,     \* RELAY_PUBLICATION_MAX_ATTEMPTS
    DispatchLimit,   \* the slice [:100] of dispatch_due_publications
    TaskTicks,       \* CELERY_TASK_TIME_LIMIT in ticks
    LeadTimes,       \* minutes between scheduling and scheduled_for
    ReplyMayBeLost,  \* a timeout or a 5xx may hide that Meta published
    MaxFaults,       \* bound: aborted tasks and lost queue messages
    MaxCopies,       \* bound: equal messages in the queue that are told apart
    Horizon          \* bound: lateness, in minutes, that is told apart

ASSUME MaxAttemptsAssumption == MaxAttempts \in Nat \ {0}
ASSUME LimitAssumption == DispatchLimit \in Nat \ {0} /\ TaskTicks \in Nat
ASSUME LeadTimesAssumption == LeadTimes \subseteq Nat
ASSUME ReplyAssumption == ReplyMayBeLost \in BOOLEAN
ASSUME BoundsAssumption ==
    /\ MaxFaults \in Nat
    /\ MaxCopies \in Nat \ {0}
    /\ Horizon \in Nat

VARIABLES
    state,       \* Publication.state; "NONE" before the row exists
    dueIn,       \* minutes until Publication.scheduled_for
    attempts,    \* PublicationAttempt.outcome, in order of attempt_number
    queue,       \* queued publish_publication messages, counted per publication
    dispatches,  \* queued dispatch_due_publications messages
    task,        \* what each worker is executing
    live,        \* external: posts that Meta shows for each publication
    faults       \* aborted tasks and lost messages so far

vars == <<state, dueIn, attempts, queue, dispatches, task, live, faults>>

PublicationState == {"NONE", "SCHEDULED", "PUBLISHING", "PUBLISHED", "FAILED"}
Terminal == {"PUBLISHED", "FAILED"}

\* The blank outcome of an attempt that was started and not completed.
Open == ""
Outcome == {Open, "PUBLISHED", "RETRY", "FAILED"}

Idle == [pc |-> "idle"]
Dispatching == [pc : {"dispatching"}, batch : SUBSET Publications, age : Nat]
Claiming == [pc : {"claiming"}, pub : Publications, age : Nat]

\* The worker holds an attempt: it is calling Meta, Meta has accepted the post
\* and the answer is on its way, or the result of the call is known and has to
\* be recorded.
Delivering ==
    [pc : {"calling", "accepted", "published", "transient", "permanent"},
     pub : Publications, attempt : Nat \ {0}, age : Nat]

Task == {Idle} \cup Dispatching \cup Claiming \cup Delivering

TypeOK ==
    /\ state \in [Publications -> PublicationState]
    /\ dueIn \in [Publications -> Int]
    /\ attempts \in [Publications -> Seq(Outcome)]
    /\ queue \in [Publications -> 0..MaxCopies]
    /\ dispatches \in 0..MaxCopies
    /\ task \in [Workers -> Task]
    /\ live \in [Publications -> Nat]
    /\ faults \in 0..MaxFaults

Busy(w) == task[w] # Idle
Holds(w) == task[w] \in Delivering

Init ==
    /\ state = [p \in Publications |-> "NONE"]
    /\ dueIn = [p \in Publications |-> 0]
    /\ attempts = [p \in Publications |-> <<>>]
    /\ queue = [p \in Publications |-> 0]
    /\ dispatches = 0
    /\ task = [w \in Workers |-> Idle]
    /\ live = [p \in Publications |-> 0]
    /\ faults = 0

-----------------------------------------------------------------------------
\* Scheduling and the clock.

\* schedule_publication creates the row in SCHEDULED.
Schedule(p, lead) ==
    /\ state[p] = "NONE"
    /\ state' = [state EXCEPT ![p] = "SCHEDULED"]
    /\ dueIn' = [dueIn EXCEPT ![p] = lead]
    /\ UNCHANGED <<attempts, queue, dispatches, task, live, faults>>

\* A minute passes.  No task outlives its hard time limit.
Tick ==
    /\ \A w \in Workers : Busy(w) => task[w].age < TaskTicks
    /\ dueIn' = [p \in Publications |->
                    IF state[p] = "SCHEDULED" /\ dueIn[p] > -Horizon
                    THEN dueIn[p] - 1 ELSE dueIn[p]]
    /\ task' = [w \in Workers |->
                    IF Busy(w) THEN [task[w] EXCEPT !.age = @ + 1] ELSE Idle]
    /\ UNCHANGED <<state, attempts, queue, dispatches, live, faults>>

-----------------------------------------------------------------------------
\* Beat and the dispatcher task.

\* CELERY_BEAT_SCHEDULE: one dispatch_due_publications message every minute.
Beat ==
    /\ dispatches < MaxCopies
    /\ dispatches' = dispatches + 1
    /\ UNCHANGED <<state, dueIn, attempts, queue, task, live, faults>>

\* Mutant: the dispatcher looks for publications due in this very minute.
DueThisMinute == {p \in Publications : state[p] = "SCHEDULED" /\ dueIn[p] = 0}

Due == {p \in Publications : state[p] = "SCHEDULED" /\ dueIn[p] <= 0}

\* order_by("scheduled_for")[:100]: the earliest due rows, ties in any order.
IsBatch(batch) ==
    /\ batch \subseteq Due
    /\ Cardinality(batch) <= DispatchLimit
    /\ batch # Due => Cardinality(batch) = DispatchLimit
    /\ \A p \in batch, q \in Due \ batch : dueIn[p] <= dueIn[q]

StartDispatch(w) ==
    /\ ~Busy(w)
    /\ dispatches > 0
    /\ dispatches' = dispatches - 1
    /\ \E batch \in SUBSET Due :
        /\ IsBatch(batch)
        /\ task' = [task EXCEPT ![w] =
                IF batch = {} THEN Idle
                ELSE [pc |-> "dispatching", batch |-> batch, age |-> 0]]
    /\ UNCHANGED <<state, dueIn, attempts, queue, live, faults>>

\* One iteration of the loop over due_ids: publish_publication.delay(id).
Enqueue(w, p) ==
    /\ task[w] \in Dispatching
    /\ p \in task[w].batch
    /\ queue' = [queue EXCEPT ![p] = IF @ < MaxCopies THEN @ + 1 ELSE @]
    /\ task' = [task EXCEPT ![w] =
            IF task[w].batch = {p} THEN Idle
            ELSE [task[w] EXCEPT !.batch = @ \ {p}]]
    /\ UNCHANGED <<state, dueIn, attempts, dispatches, live, faults>>

-----------------------------------------------------------------------------
\* publish_due_publication.

\* The worker takes (and acknowledges) the message and reads its own `now`.
StartPublish(w, p) ==
    /\ ~Busy(w)
    /\ queue[p] > 0
    /\ queue' = [queue EXCEPT ![p] = @ - 1]
    /\ task' = [task EXCEPT ![w] = [pc |-> "claiming", pub |-> p, age |-> 0]]
    /\ UNCHANGED <<state, dueIn, attempts, dispatches, live, faults>>

\* Mutants: the locking query tests the time only; the state only.
ClaimableByTime(p, age) ==
    state[p] \in {"SCHEDULED", "PUBLISHING"} /\ dueIn[p] + age <= 0
ClaimableByState(p, age) == state[p] = "SCHEDULED"

\* The filter of the locking query, evaluated with the task's own `now`, which
\* is as old as the task.
Claimable(p, age) == state[p] = "SCHEDULED" /\ dueIn[p] + age <= 0

\* The claiming transaction, given the new attempts of the publication and the
\* number of the attempt the worker goes on with.
ClaimAs(w, newAttempts, n) ==
    LET p == task[w].pub IN
        /\ Claimable(p, task[w].age)
        /\ attempts' = [attempts EXCEPT ![p] = newAttempts]
        /\ state' = [state EXCEPT ![p] = "PUBLISHING"]
        /\ task' = [task EXCEPT ![w] =
                [pc |-> "calling", pub |-> p, attempt |-> n, age |-> task[w].age]]
        /\ UNCHANGED <<dueIn, queue, dispatches, live, faults>>

\* Mutants: the attempt is numbered count() instead of count() + 1; the open
\* outcome is not blank.
ClaimMiscounted(w) ==
    /\ task[w] \in Claiming
    /\ LET a == attempts[task[w].pub] IN
            ClaimAs(w, Append(a, Open), IF a = <<>> THEN 1 ELSE Len(a))
ClaimNotBlank(w) ==
    /\ task[w] \in Claiming
    /\ LET a == attempts[task[w].pub] IN
            ClaimAs(w, Append(a, "PUBLISHING"), Len(a) + 1)

\* attempt_number = attempts.count() + 1
Claim(w) ==
    /\ task[w] \in Claiming
    /\ LET a == attempts[task[w].pub] IN
            ClaimAs(w, Append(a, Open), Len(a) + 1)

\* return "not_due_or_claimed"
ClaimRefused(w) ==
    /\ task[w] \in Claiming
    /\ ~Claimable(task[w].pub, task[w].age)
    /\ task' = [task EXCEPT ![w] = Idle]
    /\ UNCHANGED <<state, dueIn, attempts, queue, dispatches, live, faults>>

-----------------------------------------------------------------------------
\* The call to Meta, outside any transaction.

Advance(w, from, to) ==
    /\ task[w] \in Delivering
    /\ task[w].pc = from
    /\ task' = [task EXCEPT ![w].pc = to]
    /\ UNCHANGED <<state, dueIn, attempts, queue, dispatches, faults>>

\* Meta creates the post; its answer is still on the way.
MetaAccepts(w) ==
    /\ Advance(w, "calling", "accepted")
    /\ live' = [live EXCEPT ![task[w].pub] = @ + 1]

\* Mutant: only the transient errors of the client are caught.
CallRejectedUncaught(w) ==
    /\ task[w] \in Delivering
    /\ task[w].pc = "calling"
    /\ task' = [task EXCEPT ![w] = Idle]
    /\ UNCHANGED <<state, dueIn, attempts, queue, dispatches, live, faults>>

\* Wrong number of images, a media, token or configuration error, a 4xx.
CallRejected(w) == Advance(w, "calling", "permanent") /\ UNCHANGED live

\* Meta unreachable, 429, a 5xx or a container still processing: no post.
CallUnavailable(w) == Advance(w, "calling", "transient") /\ UNCHANGED live

ReplyReceived(w) == Advance(w, "accepted", "published") /\ UNCHANGED live

\* Mutant: an unreadable answer is treated as transient.
ReplyUnreadableRetried(w) ==
    Advance(w, "accepted", "transient") /\ UNCHANGED live

\* A 2xx whose body is not JSON or carries no id.
ReplyUnreadable(w) == Advance(w, "accepted", "permanent") /\ UNCHANGED live

\* httpx.RequestError or a 5xx after Meta has created the post.
ReplyLost(w) ==
    /\ ReplyMayBeLost
    /\ Advance(w, "accepted", "transient")
    /\ UNCHANGED live

-----------------------------------------------------------------------------
\* The second transaction.

\* min(2^n, 30) minutes
RetryDelay(n) == IF 2^n < 30 THEN 2^n ELSE 30

\* It re-reads both rows under lock and tests neither before writing them.
RecordSuccess(w) ==
    /\ task[w] \in Delivering
    /\ task[w].pc = "published"
    /\ LET p == task[w].pub IN
        /\ attempts' = [attempts EXCEPT ![p][task[w].attempt] = "PUBLISHED"]
        /\ state' = [state EXCEPT ![p] = "PUBLISHED"]
    /\ task' = [task EXCEPT ![w] = Idle]
    /\ UNCHANGED <<dueIn, queue, dispatches, live, faults>>

\* Mutant: one attempt too many.
ShouldRetryOnceMore(t) == t.pc = "transient" /\ t.attempt <= MaxAttempts
ShouldRetry(t) == t.pc = "transient" /\ t.attempt < MaxAttempts

\* Mutant: the attempt says FAILED though the publication is retried.
RecordRetryAsFailed(w) ==
    /\ task[w] \in Delivering
    /\ ShouldRetry(task[w])
    /\ LET p == task[w].pub
           n == task[w].attempt IN
        /\ attempts' = [attempts EXCEPT ![p][n] = "FAILED"]
        /\ state' = [state EXCEPT ![p] = "SCHEDULED"]
        /\ dueIn' = [dueIn EXCEPT ![p] = RetryDelay(n)]
    /\ task' = [task EXCEPT ![w] = Idle]
    /\ UNCHANGED <<queue, dispatches, live, faults>>

RecordRetry(w) ==
    /\ task[w] \in Delivering
    /\ ShouldRetry(task[w])
    /\ LET p == task[w].pub
           n == task[w].attempt IN
        /\ attempts' = [attempts EXCEPT ![p][n] = "RETRY"]
        /\ state' = [state EXCEPT ![p] = "SCHEDULED"]
        /\ dueIn' = [dueIn EXCEPT ![p] = RetryDelay(n)]
    /\ task' = [task EXCEPT ![w] = Idle]
    /\ UNCHANGED <<queue, dispatches, live, faults>>

RecordFailure(w) ==
    /\ task[w] \in Delivering
    /\ task[w].pc \in {"transient", "permanent"}
    /\ ~ShouldRetry(task[w])
    /\ LET p == task[w].pub IN
        /\ attempts' = [attempts EXCEPT ![p][task[w].attempt] = "FAILED"]
        /\ state' = [state EXCEPT ![p] = "FAILED"]
    /\ task' = [task EXCEPT ![w] = Idle]
    /\ UNCHANGED <<dueIn, queue, dispatches, live, faults>>

-----------------------------------------------------------------------------
\* Faults.

\* The process dies (hard time limit, restart) or the task raises an exception
\* that publish_due_publication does not catch.  The message is acknowledged
\* already; an open transaction rolls back, which is the state kept here.
Abort(w) ==
    /\ Busy(w)
    /\ faults < MaxFaults
    /\ faults' = faults + 1
    /\ task' = [task EXCEPT ![w] = Idle]
    /\ UNCHANGED <<state, dueIn, attempts, queue, dispatches, live>>

\* The broker loses a queued message.
LoseMessage(p) ==
    /\ queue[p] > 0
    /\ faults < MaxFaults
    /\ faults' = faults + 1
    /\ queue' = [queue EXCEPT ![p] = @ - 1]
    /\ UNCHANGED <<state, dueIn, attempts, dispatches, task, live>>

-----------------------------------------------------------------------------
CallMeta(w) ==
    \/ MetaAccepts(w)
    \/ CallRejected(w)
    \/ CallUnavailable(w)

AnswerArrives(w) ==
    \/ ReplyReceived(w)
    \/ ReplyUnreadable(w)
    \/ ReplyLost(w)

Record(w) ==
    \/ RecordSuccess(w)
    \/ RecordRetry(w)
    \/ RecordFailure(w)

WorkerStep(w) ==
    \/ StartDispatch(w)
    \/ \E p \in Publications : Enqueue(w, p) \/ StartPublish(w, p)
    \/ Claim(w) \/ ClaimRefused(w)
    \/ CallMeta(w)
    \/ AnswerArrives(w)
    \/ Record(w)
    \/ Abort(w)

Next ==
    \/ \E p \in Publications, lead \in LeadTimes : Schedule(p, lead)
    \/ Tick
    \/ Beat
    \/ \E w \in Workers : WorkerStep(w)
    \/ \E p \in Publications : LoseMessage(p)

Spec == Init /\ [][Next]_vars

\* Time passes and beat keeps its schedule.  The queue is a list: no message
\* waits for ever behind newer ones (strong fairness, because the worker is not
\* idle all the time).  A started task goes on, and every HTTP call ends: the
\* client has a 20 second timeout.
Fairness ==
    /\ WF_vars(Tick)
    /\ WF_vars(Beat)
    /\ SF_vars(\E w \in Workers : StartDispatch(w))
    /\ \A p \in Publications : SF_vars(\E w \in Workers : StartPublish(w, p))
    /\ \A w \in Workers :
        /\ WF_vars(\E p \in Publications : Enqueue(w, p))
        /\ WF_vars(Claim(w) \/ ClaimRefused(w))
        /\ WF_vars(CallMeta(w))
        /\ WF_vars(AnswerArrives(w))
        /\ WF_vars(Record(w))

FairSpec == Spec /\ Fairness

-----------------------------------------------------------------------------
\* Properties.

\* Two workers never hold the same publication between the claim and the
\* recording of its outcome, however many copies of its message are queued.
ClaimExclusive ==
    \A v, w \in Workers :
        Holds(v) /\ Holds(w) /\ task[v].pub = task[w].pub => v = w

\* A worker that will record an outcome holds the publication's last attempt,
\* and that attempt is still open: no other task can have completed it.
HeldAttemptIsOpen ==
    \A w \in Workers : Holds(w) =>
        LET p == task[w].pub IN
            /\ state[p] = "PUBLISHING"
            /\ task[w].attempt = Len(attempts[p])
            /\ attempts[p][task[w].attempt] = Open

\* What the last attempt must say in each state of its publication.
LastOutcome(s) ==
    CASE s = "SCHEDULED"  -> "RETRY"
      [] s = "PUBLISHING" -> Open
      [] OTHER            -> s

\* The attempts tell the same story as Publication.state: every attempt but the
\* last was retried, and the last one matches the state.
HistoryMatchesState ==
    \A p \in Publications :
        LET n == Len(attempts[p]) IN
            /\ \A i \in 1..n : i < n => attempts[p][i] = "RETRY"
            /\ n > 0 => attempts[p][n] = LastOutcome(state[p])
            /\ n = 0 => state[p] \in {"NONE", "SCHEDULED"}

\* RELAY_PUBLICATION_MAX_ATTEMPTS bounds the attempts, duplicates and crashes
\* included, and a publication waits for another attempt only below it.
AttemptsBounded ==
    \A p \in Publications :
        /\ Len(attempts[p]) <= MaxAttempts
        /\ state[p] = "SCHEDULED" => Len(attempts[p]) < MaxAttempts

\* What Relay reports as published is live at Meta.
PublishedIsLive ==
    \A p \in Publications : state[p] = "PUBLISHED" => live[p] > 0

\* A publication appears at Meta at most once.
AtMostOnce == \A p \in Publications : live[p] <= 1

\* Extra posts have one cause only: an attempt recorded as RETRY.  Crashes,
\* lost and duplicated messages and concurrent workers never add one.
DuplicatesComeFromRetries ==
    \A p \in Publications :
        live[p] <= 1 + Cardinality({i \in 1..Len(attempts[p]) :
                                        attempts[p][i] = "RETRY"})

\* A claim is never early: neither before the requested time nor, for a message
\* left in the queue, inside the back-off of a retry.
ClaimNotEarly ==
    [][\A p \in Publications :
        state[p] = "SCHEDULED" /\ state'[p] = "PUBLISHING" => dueIn[p] <= 0]_vars

\* PUBLISHED and FAILED are final: no late task, retry or duplicate touches the
\* publication or its attempts again.
TerminalIsFinal ==
    [][\A p \in Publications : state[p] \in Terminal =>
            state'[p] = state[p] /\ attempts'[p] = attempts[p]]_vars

\* "one immutable delivery attempt": a completed attempt is never rewritten, and
\* no attempt is removed.
CompletedAttemptsImmutable ==
    [][\A p \in Publications : \A i \in 1..Len(attempts[p]) :
            /\ i <= Len(attempts'[p])
            /\ attempts[p][i] # Open => attempts'[p][i] = attempts[p][i]]_vars

\* The state in which a task that died during the call leaves its publication.
Abandoned(p) ==
    /\ state[p] = "PUBLISHING"
    /\ \A w \in Workers : ~(Holds(w) /\ task[w].pub = p)

Stranded == {p \in Publications : Abandoned(p)}

\* A death costs one publication at most: publications stay in PUBLISHING with
\* nobody at work on them only by the death of the one task that held them, so
\* never more of them than there were faults.  A lost message, a dispatcher that
\* dies and a task that dies before its claim cost none.
OneLossPerFault == Cardinality(Stranded) <= faults

\* No step of dispatcher, worker, queue or clock takes an abandoned publication
\* up again: nothing in the code looks for it.
AbandonedStays == [][Stranded \subseteq Stranded']_vars

\* Every scheduled publication is eventually published or failed, unless a task
\* died while it held it: lost and duplicated messages, a dispatcher that dies
\* half way, and a batch limit smaller than the backlog delay it, no more.
SettlesUnlessAbandoned ==
    \A p \in Publications :
        state[p] = "SCHEDULED" ~> state[p] \in Terminal \/ Abandoned(p)

\* Every scheduled publication eventually has a result.
EverySchedulingSettles ==
    \A p \in Publications : state[p] = "SCHEDULED" ~> state[p] \in Terminal

\* Seen from a publication, all of the above is one numbered attempt at a time:
\* the abstract specification, with the attempts counted.
Lifecycle == INSTANCE PublicationLifecycle
                WITH tries <- [p \in Publications |-> Len(attempts[p])]

\* Every step of beat, queue, workers and Meta is a step of the lifecycle of one
\* publication or none at all.
ImplementsLifecycle == Lifecycle!Spec
=============================================================================
