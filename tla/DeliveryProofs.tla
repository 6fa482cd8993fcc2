--------------------------- MODULE DeliveryProofs ---------------------------
(***************************************************************************)
(* Theorems about Delivery, for every number of publications and workers,   *)
(* every attempt limit and every bound.                                     *)
(***************************************************************************)
EXTENDS Delivery, SequenceTheorems, FiniteSetTheorems, TLAPS

\* The back-off is a natural number of minutes.
LEMMA RetryDelayType ==
    ASSUME NEW n \in Nat
    PROVE  RetryDelay(n) \in Int
BY DEF RetryDelay

\* Completing an attempt leaves a sequence of outcomes (also when there is no
\* such attempt: the update then changes nothing).
LEMMA CompletedAttempts ==
    ASSUME NEW s \in Seq(Outcome), NEW n, NEW o \in Outcome
    PROVE  [s EXCEPT ![n] = o] \in Seq(Outcome)
<1>1. CASE n \in 1..Len(s)
  BY <1>1, ExceptSeq
<1>2. CASE n \notin 1..Len(s)
  <2>1. s = [i \in 1..Len(s) |-> s[i]]
    OBVIOUS
  <2>2. [s EXCEPT ![n] = o] = s
    BY <1>2, <2>1
  <2> QED BY <2>2
<1> QED BY <1>1, <1>2

\* The four kinds of task.
LEMMA TaskKinds ==
    /\ Idle \in Task
    /\ \A t \in Dispatching \cup Claiming \cup Delivering : t \in Task
    /\ \A t \in Task : t # Idle => t \in Dispatching \cup Claiming \cup Delivering
BY DEF Task

-----------------------------------------------------------------------------
\* A step that only moves one worker from one point of the call to another
\* keeps the types.
LEMMA AdvanceTyped ==
    ASSUME TypeOK,
           NEW w \in Workers,
           NEW from, NEW to \in {"calling", "accepted", "published",
                                 "transient", "permanent"},
           Advance(w, from, to)
    PROVE  /\ task' \in [Workers -> Task]
           /\ task[w].pub \in Publications
           /\ UNCHANGED <<state, dueIn, attempts, queue, dispatches, faults>>
<1>1. task[w] \in Delivering
  BY DEF Advance
<1>2. [task[w] EXCEPT !.pc = to] \in Delivering
  BY <1>1 DEF Delivering
<1>3. task[w].pub \in Publications
  BY <1>1 DEF Delivering
<1> QED BY <1>2, <1>3, TaskKinds DEF Advance, TypeOK

\* The initial state is well typed.
LEMMA TypeInit == Init => TypeOK
BY BoundsAssumption, TaskKinds DEF Init, TypeOK, PublicationState, Outcome

\* Every step keeps the types.
LEMMA TypeStep == TypeOK /\ [Next]_vars => TypeOK'
<1> SUFFICES ASSUME TypeOK, [Next]_vars PROVE TypeOK'
  OBVIOUS
<1> USE BoundsAssumption, LimitAssumption
<1>1. ASSUME NEW p \in Publications, NEW lead \in LeadTimes, Schedule(p, lead)
      PROVE  TypeOK'
  BY <1>1, LeadTimesAssumption DEF Schedule, TypeOK, PublicationState
<1>2. CASE Tick
  <2>1. dueIn' \in [Publications -> Int]
    BY <1>2 DEF Tick, TypeOK
  <2>2. ASSUME NEW w \in Workers
        PROVE  (IF Busy(w) THEN [task[w] EXCEPT !.age = @ + 1] ELSE Idle) \in Task
    <3>1. CASE ~Busy(w)
      BY <3>1, TaskKinds
    <3>2. CASE Busy(w)
      <4>1. task[w] \in Dispatching \cup Claiming \cup Delivering
        BY <3>2, TaskKinds DEF TypeOK, Busy
      <4>2. task[w] \in Dispatching =>
              [task[w] EXCEPT !.age = @ + 1] \in Dispatching
        BY DEF Dispatching
      <4>3. task[w] \in Claiming =>
              [task[w] EXCEPT !.age = @ + 1] \in Claiming
        BY DEF Claiming
      <4>4. task[w] \in Delivering =>
              [task[w] EXCEPT !.age = @ + 1] \in Delivering
        BY DEF Delivering
      <4> QED BY <3>2, <4>1, <4>2, <4>3, <4>4, TaskKinds
    <3> QED BY <3>1, <3>2
  <2> QED BY <1>2, <2>1, <2>2 DEF Tick, TypeOK
<1>3. CASE Beat
  BY <1>3 DEF Beat, TypeOK
<1>4. ASSUME NEW w \in Workers, WorkerStep(w)
      PROVE  TypeOK'
  <2>1. CASE StartDispatch(w)
    <3>1. ASSUME NEW batch \in SUBSET Due
          PROVE  [pc |-> "dispatching", batch |-> batch, age |-> 0] \in Dispatching
      BY DEF Dispatching, Due
    <3>2. task' \in [Workers -> Task]
      BY <2>1, <3>1, TaskKinds DEF StartDispatch, TypeOK
    <3> QED BY <2>1, <3>2 DEF StartDispatch, TypeOK
  <2>2. ASSUME NEW p \in Publications, Enqueue(w, p)
        PROVE  TypeOK'
    <3>1. [task[w] EXCEPT !.batch = @ \ {p}] \in Dispatching
      BY <2>2 DEF Enqueue, Dispatching
    <3>2. task' \in [Workers -> Task]
      BY <2>2, <3>1, TaskKinds DEF Enqueue, TypeOK
    <3> QED BY <2>2, <3>2 DEF Enqueue, TypeOK
  <2>3. ASSUME NEW p \in Publications, StartPublish(w, p)
        PROVE  TypeOK'
    <3>1. [pc |-> "claiming", pub |-> p, age |-> 0] \in Claiming
      BY DEF Claiming
    <3> QED BY <2>3, <3>1, TaskKinds DEF StartPublish, TypeOK
  <2>4. CASE Claim(w)
    <3>1. task[w].pub \in Publications /\ task[w].age \in Nat
      BY <2>4 DEF Claim, ClaimAs, Claiming
    <3>2. Len(attempts[task[w].pub]) \in Nat
      BY <3>1 DEF TypeOK
    <3>3. [pc |-> "calling", pub |-> task[w].pub,
           attempt |-> Len(attempts[task[w].pub]) + 1,
           age |-> task[w].age] \in Delivering
      BY <3>1, <3>2 DEF Delivering
    <3>4. task' \in [Workers -> Task]
      BY <2>4, <3>3, TaskKinds DEF Claim, ClaimAs, TypeOK
    <3>5. Append(attempts[task[w].pub], Open) \in Seq(Outcome)
      BY <3>1, AppendProperties DEF TypeOK, Outcome
    <3> QED BY <2>4, <3>1, <3>4, <3>5 DEF Claim, ClaimAs, TypeOK, PublicationState
  <2>5. CASE ClaimRefused(w)
    BY <2>5, TaskKinds DEF ClaimRefused, TypeOK
  <2>6. CASE CallMeta(w)
    <3>1. \E from, to \in {"calling", "accepted", "published",
                           "transient", "permanent"} : Advance(w, from, to)
      BY <2>6 DEF CallMeta, MetaAccepts, CallRejected, CallUnavailable
    <3>2. task' \in [Workers -> Task] /\ task[w].pub \in Publications
      BY <3>1, AdvanceTyped
    <3>3. live' \in [Publications -> Nat]
      <4>1. CASE MetaAccepts(w)
        BY <4>1, <3>2 DEF MetaAccepts, TypeOK
      <4>2. CASE UNCHANGED live
        BY <4>2 DEF TypeOK
      <4> QED BY <2>6, <4>1, <4>2 DEF CallMeta, CallRejected, CallUnavailable
    <3> QED BY <3>1, <3>2, <3>3 DEF Advance, TypeOK
  <2>7. CASE AnswerArrives(w)
    BY <2>7, AdvanceTyped
       DEF AnswerArrives, ReplyReceived, ReplyUnreadable, ReplyLost, TypeOK
  <2>8. CASE Record(w)
    <3>1. task[w] \in Delivering
      BY <2>8 DEF Record, RecordSuccess, RecordRetry, RecordFailure
    <3>2. /\ task[w].pub \in Publications
          /\ task[w].attempt \in Nat
      BY <3>1 DEF Delivering
    <3>3. ASSUME NEW o \in Outcome
          PROVE  [attempts EXCEPT ![task[w].pub][task[w].attempt] = o]
                      \in [Publications -> Seq(Outcome)]
      <4>1. [attempts[task[w].pub] EXCEPT ![task[w].attempt] = o] \in Seq(Outcome)
        BY <3>2, CompletedAttempts DEF TypeOK
      <4> QED BY <3>2, <4>1 DEF TypeOK
    <3>4. RetryDelay(task[w].attempt) \in Int
      BY <3>2, RetryDelayType
    <3>5. [task EXCEPT ![w] = Idle] \in [Workers -> Task]
      BY TaskKinds DEF TypeOK
    <3>6. CASE RecordSuccess(w)
      BY <3>6, <3>2, <3>3, <3>5 DEF RecordSuccess, TypeOK, PublicationState, Outcome
    <3>7. CASE RecordRetry(w)
      BY <3>7, <3>2, <3>3, <3>4, <3>5 DEF RecordRetry, TypeOK, PublicationState, Outcome
    <3>8. CASE RecordFailure(w)
      BY <3>8, <3>2, <3>3, <3>5 DEF RecordFailure, TypeOK, PublicationState, Outcome
    <3> QED BY <2>8, <3>6, <3>7, <3>8 DEF Record
  <2>9. CASE Abort(w)
    BY <2>9, TaskKinds DEF Abort, TypeOK
  <2> QED BY <1>4, <2>1, <2>2, <2>3, <2>4, <2>5, <2>6, <2>7, <2>8, <2>9
          DEF WorkerStep
<1>5. ASSUME NEW p \in Publications, LoseMessage(p)
      PROVE  TypeOK'
  BY <1>5 DEF LoseMessage, TypeOK
<1>6. CASE UNCHANGED vars
  BY <1>6 DEF vars, TypeOK
<1> QED BY <1>1, <1>2, <1>3, <1>4, <1>5, <1>6 DEF Next

\* Type correctness: every variable keeps its type, and every worker is idle,
\* dispatching, claiming or holding one attempt.
THEOREM TypeCorrect == Spec => []TypeOK
BY TypeInit, TypeStep, PTL DEF Spec

-----------------------------------------------------------------------------
(***************************************************************************)
(* The inductive invariant.  ClaimExclusive alone is not inductive: two     *)
(* workers stay apart because a held publication is PUBLISHING and a claim  *)
(* needs SCHEDULED; that it stays PUBLISHING while held needs exclusivity;  *)
(* and that the attempt held is the open last one is what makes the second  *)
(* transaction, which tests nothing, write the right rows.                  *)
(***************************************************************************)
Consistent ==
    /\ ClaimExclusive
    /\ HeldAttemptIsOpen
    /\ HistoryMatchesState
    /\ AttemptsBounded

IInv == TypeOK /\ Consistent

\* A task that holds an attempt is not idle and names a publication.
LEMMA HeldTask ==
    ASSUME NEW t \in Delivering
    PROVE  /\ t # Idle
           /\ t \notin Dispatching
           /\ t \notin Claiming
           /\ t.pub \in Publications
           /\ t.attempt \in Nat \ {0}
           /\ t.age \in Nat
BY DEF Delivering, Idle, Dispatching, Claiming

\* An idle worker, one that dispatches and one that has not claimed hold no attempt.
LEMMA UnheldTasks ==
    /\ Idle \notin Delivering
    /\ \A t \in Dispatching \cup Claiming : t \notin Delivering
BY DEF Delivering, Idle, Dispatching, Claiming

\* The outcome of the last attempt of a publication, for each of its states.
LEMMA LastOutcomes ==
    /\ LastOutcome("SCHEDULED") = "RETRY"
    /\ LastOutcome("PUBLISHING") = Open
    /\ LastOutcome("PUBLISHED") = "PUBLISHED"
    /\ LastOutcome("FAILED") = "FAILED"
BY DEF LastOutcome

\* A step that writes neither table and gives no worker a new attempt.
LEMMA QuietStep ==
    ASSUME IInv,
           UNCHANGED <<state, attempts>>,
           \A w \in Workers : task'[w] \in Delivering =>
                /\ task[w] \in Delivering
                /\ task'[w].pub = task[w].pub
                /\ task'[w].attempt = task[w].attempt
    PROVE  Consistent'
<1>1. ClaimExclusive'
  BY DEF IInv, Consistent, ClaimExclusive, Holds
<1>2. HeldAttemptIsOpen'
  BY DEF IInv, Consistent, HeldAttemptIsOpen, Holds
<1>3. HistoryMatchesState'
  BY DEF IInv, Consistent, HistoryMatchesState
<1>4. AttemptsBounded'
  BY DEF IInv, Consistent, AttemptsBounded
<1> QED BY <1>1, <1>2, <1>3, <1>4 DEF Consistent

\* A step that rewrites one publication p and its n attempts, and leaves at most
\* worker w with an attempt of p.
LEMMA OnePublicationStep ==
    ASSUME IInv,
           NEW w \in Workers, NEW p \in Publications, NEW n \in Nat \ {0},
           Len(attempts'[p]) = n,
           \A i \in 1..n : i < n => attempts'[p][i] = "RETRY",
           attempts'[p][n] = LastOutcome(state'[p]),
           n <= MaxAttempts,
           state'[p] = "SCHEDULED" => n < MaxAttempts,
           \A q \in Publications : q # p =>
                attempts'[q] = attempts[q] /\ state'[q] = state[q],
           \A v \in Workers : v # w => task'[v] = task[v],
           \A v \in Workers : v # w /\ Holds(v) => task[v].pub # p,
           task'[w] \in Delivering =>
                /\ task'[w].pub = p
                /\ task'[w].attempt = n
                /\ state'[p] = "PUBLISHING"
    PROVE  Consistent'
<1>1. \A v \in Workers : v # w /\ Holds(v)' =>
            /\ Holds(v)
            /\ task'[v] = task[v]
            /\ task[v].pub # p
            /\ task[v].pub \in Publications
  BY HeldTask DEF Holds
<1>2. ClaimExclusive'
  BY <1>1 DEF ClaimExclusive, IInv, Consistent, Holds
<1>3. HeldAttemptIsOpen'
  <2> SUFFICES ASSUME NEW v \in Workers, Holds(v)'
               PROVE  /\ state'[task'[v].pub] = "PUBLISHING"
                      /\ task'[v].attempt = Len(attempts'[task'[v].pub])
                      /\ attempts'[task'[v].pub][task'[v].attempt] = Open
    BY DEF HeldAttemptIsOpen
  <2>1. CASE v = w
    BY <2>1, LastOutcomes DEF Holds
  <2>2. CASE v # w
    <3>1. /\ state[task[v].pub] = "PUBLISHING"
          /\ task[v].attempt = Len(attempts[task[v].pub])
          /\ attempts[task[v].pub][task[v].attempt] = Open
      BY <1>1, <2>2 DEF IInv, Consistent, HeldAttemptIsOpen
    <3> QED BY <1>1, <2>2, <3>1 DEF Holds
  <2> QED BY <2>1, <2>2
<1>4. HistoryMatchesState'
  <2> SUFFICES ASSUME NEW q \in Publications
               PROVE  LET m == Len(attempts'[q]) IN
                        /\ \A i \in 1..m : i < m => attempts'[q][i] = "RETRY"
                        /\ m > 0 => attempts'[q][m] = LastOutcome(state'[q])
                        /\ m = 0 => state'[q] \in {"NONE", "SCHEDULED"}
    BY DEF HistoryMatchesState
  <2>1. CASE q = p
    BY <2>1
  <2>2. CASE q # p
    BY <2>2 DEF IInv, Consistent, HistoryMatchesState
  <2> QED BY <2>1, <2>2
<1>5. AttemptsBounded'
  BY DEF IInv, Consistent, AttemptsBounded
<1> QED BY <1>2, <1>3, <1>4, <1>5 DEF Consistent

\* What appending the open attempt does to the attempts of a publication.
LEMMA OpenAttempt ==
    ASSUME NEW s \in Seq(Outcome)
    PROVE  /\ Len(s) \in Nat
           /\ Len(Append(s, Open)) = Len(s) + 1
           /\ Append(s, Open)[Len(s) + 1] = Open
           /\ \A i \in 1..Len(s) : Append(s, Open)[i] = s[i]
<1>1. Open \in Outcome
  BY DEF Outcome
<1> QED BY <1>1, AppendProperties, LenProperties

\* The first transaction: a claim adds the one open attempt of its publication.
LEMMA ClaimStep ==
    ASSUME IInv, NEW w \in Workers, Claim(w)
    PROVE  Consistent'
<1>1. PICK p \in Publications : p = task[w].pub
  BY DEF Claim, ClaimAs, Claiming
<1>2. PICK s \in Seq(Outcome) : s = attempts[p]
  BY <1>1 DEF IInv, TypeOK
<1>3. PICK n \in Nat \ {0} : n = Len(s) + 1
  BY <1>2, LenProperties
<1>4. /\ state[p] = "SCHEDULED"
      /\ attempts'[p] = Append(s, Open)
      /\ state'[p] = "PUBLISHING"
      /\ task'[w].pub = p /\ task'[w].attempt = n
  BY <1>1, <1>2, <1>3 DEF Claim, ClaimAs, Claimable, IInv, TypeOK
<1>5. /\ \A q \in Publications : q # p =>
            attempts'[q] = attempts[q] /\ state'[q] = state[q]
      /\ \A v \in Workers : v # w => task'[v] = task[v]
  BY <1>1 DEF Claim, ClaimAs, IInv, TypeOK
<1>6. \A v \in Workers : Holds(v) => task[v].pub # p
  BY <1>4 DEF IInv, Consistent, HeldAttemptIsOpen
<1>7. \A i \in 1..Len(s) : s[i] = "RETRY"
  <2>1. \A i \in 1..Len(s) : i < Len(s) => s[i] = "RETRY"
    BY <1>2 DEF IInv, Consistent, HistoryMatchesState
  <2>2. Len(s) > 0 => s[Len(s)] = "RETRY"
    BY <1>2, <1>4, LastOutcomes DEF IInv, Consistent, HistoryMatchesState
  <2> QED BY <2>1, <2>2, OpenAttempt
<1>8. /\ Len(attempts'[p]) = n
      /\ attempts'[p][n] = LastOutcome(state'[p])
      /\ \A i \in 1..n : i < n => attempts'[p][i] = "RETRY"
  BY <1>3, <1>4, <1>7, OpenAttempt, LastOutcomes
<1>9. n <= MaxAttempts
  BY <1>2, <1>3, <1>4, OpenAttempt, MaxAttemptsAssumption
     DEF IInv, Consistent, AttemptsBounded
<1> QED BY <1>4, <1>5, <1>6, <1>8, <1>9, OnePublicationStep

\* The second transaction: a worker that records the outcome o completes the
\* attempt it holds, puts the publication in the matching state and lets it go.
LEMMA RecordStep ==
    ASSUME IInv, NEW w \in Workers, Record(w)
    PROVE  Consistent'
<1>1. task[w] \in Delivering
  BY DEF Record, RecordSuccess, RecordRetry, RecordFailure
<1>2. PICK p \in Publications : p = task[w].pub
  BY <1>1, HeldTask
<1>3. PICK s \in Seq(Outcome) : s = attempts[p]
  BY <1>2 DEF IInv, TypeOK
<1>4. PICK n \in Nat \ {0} : n = task[w].attempt
  BY <1>1, HeldTask
<1>5. n = Len(s) /\ n \in 1..Len(s) /\ state[p] = "PUBLISHING"
  BY <1>1, <1>2, <1>3, <1>4 DEF IInv, Consistent, HeldAttemptIsOpen, Holds
<1>6. PICK o \in Outcome :
        /\ attempts' = [attempts EXCEPT ![task[w].pub][task[w].attempt] = o]
        /\ o = LastOutcome(state'[p])
        /\ state'[p] = "SCHEDULED" => n < MaxAttempts
        /\ task' = [task EXCEPT ![w] = Idle]
        /\ \A q \in Publications : q # p => state'[q] = state[q]
  <2>1. CASE RecordSuccess(w)
    BY <2>1, <1>2, LastOutcomes DEF RecordSuccess, IInv, TypeOK, Outcome
  <2>2. CASE RecordRetry(w)
    BY <2>2, <1>2, <1>4, LastOutcomes
       DEF RecordRetry, ShouldRetry, IInv, TypeOK, Outcome
  <2>3. CASE RecordFailure(w)
    BY <2>3, <1>2, LastOutcomes DEF RecordFailure, IInv, TypeOK, Outcome
  <2> QED BY <2>1, <2>2, <2>3 DEF Record
<1>7. /\ attempts'[p] = [s EXCEPT ![n] = o]
      /\ \A q \in Publications : q # p => attempts'[q] = attempts[q]
  BY <1>2, <1>3, <1>4, <1>6 DEF IInv, TypeOK
<1>8. /\ Len(attempts'[p]) = n
      /\ attempts'[p][n] = o
      /\ \A i \in 1..n : i < n => attempts'[p][i] = s[i]
  BY <1>5, <1>7, ExceptSeq
<1>9. \A i \in 1..n : i < n => attempts'[p][i] = "RETRY"
  BY <1>3, <1>5, <1>8 DEF IInv, Consistent, HistoryMatchesState
<1>10. task'[w] \notin Delivering /\ \A v \in Workers : v # w => task'[v] = task[v]
  BY <1>6, UnheldTasks DEF IInv, TypeOK
<1>11. \A v \in Workers : v # w /\ Holds(v) => task[v].pub # p
  BY <1>1, <1>2 DEF IInv, Consistent, ClaimExclusive, Holds
<1>12. n <= MaxAttempts
  BY <1>3, <1>5 DEF IInv, Consistent, AttemptsBounded
<1> QED BY <1>6, <1>7, <1>8, <1>9, <1>10, <1>11, <1>12, OnePublicationStep

\* The strengthened invariant holds at the start, where nothing has been tried.
LEMMA InvInit == Init => IInv
<1> SUFFICES ASSUME Init PROVE IInv
  OBVIOUS
<1>1. TypeOK
  BY TypeInit
<1>2. \A w \in Workers : ~Holds(w)
  BY UnheldTasks DEF Init, Holds
<1>3. \A p \in Publications : Len(attempts[p]) = 0 /\ state[p] = "NONE"
  BY DEF Init
<1>4. ClaimExclusive /\ HeldAttemptIsOpen
  BY <1>2 DEF ClaimExclusive, HeldAttemptIsOpen
<1>5. HistoryMatchesState
  BY <1>3 DEF HistoryMatchesState
<1>6. AttemptsBounded
  BY <1>3, MaxAttemptsAssumption DEF AttemptsBounded
<1> QED BY <1>1, <1>4, <1>5, <1>6 DEF IInv, Consistent

\* The steps of a worker outside the call that write neither table.
Unheld(w) ==
    \/ StartDispatch(w)
    \/ \E p \in Publications : Enqueue(w, p) \/ StartPublish(w, p)
    \/ ClaimRefused(w)
    \/ Abort(w)

\* After such a step the worker holds nothing.
LEMMA UnheldStep ==
    ASSUME TypeOK, NEW w \in Workers, Unheld(w)
    PROVE  /\ task'[w] \notin Delivering
           /\ \A v \in Workers : v # w => task'[v] = task[v]
           /\ UNCHANGED <<state, attempts, live>>
<1>1. UNCHANGED <<state, attempts, live>>
  BY DEF Unheld, StartDispatch, Enqueue, StartPublish, ClaimRefused, Abort
<1>2. \A v \in Workers : v # w => task'[v] = task[v]
  BY DEF Unheld, StartDispatch, Enqueue, StartPublish, ClaimRefused, Abort, TypeOK
<1>3. CASE StartDispatch(w)
  <2>1. \A b \in SUBSET Due :
            [pc |-> "dispatching", batch |-> b, age |-> 0] \in Dispatching
    BY DEF Dispatching, Due
  <2> QED BY <1>1, <1>2, <1>3, <2>1, UnheldTasks DEF StartDispatch, TypeOK
<1>4. ASSUME NEW p \in Publications, Enqueue(w, p)
      PROVE  task'[w] \notin Delivering
  <2>1. [task[w] EXCEPT !.batch = @ \ {p}] \in Dispatching
    BY <1>4 DEF Enqueue, Dispatching
  <2> QED BY <1>4, <2>1, UnheldTasks DEF Enqueue, TypeOK
<1>5. ASSUME NEW p \in Publications, StartPublish(w, p)
      PROVE  task'[w] \notin Delivering
  <2>1. [pc |-> "claiming", pub |-> p, age |-> 0] \in Claiming
    BY DEF Claiming
  <2> QED BY <1>5, <2>1, UnheldTasks DEF StartPublish, TypeOK
<1>6. CASE ClaimRefused(w) \/ Abort(w)
  BY <1>1, <1>2, <1>6, UnheldTasks DEF ClaimRefused, Abort, TypeOK
<1> QED BY <1>1, <1>2, <1>3, <1>4, <1>5, <1>6 DEF Unheld

\* A move inside the call keeps what the worker holds.
LEMMA AdvanceStep ==
    ASSUME TypeOK, NEW w \in Workers, NEW from, NEW to, Advance(w, from, to)
    PROVE  /\ task[w] \in Delivering /\ task[w].pc = from
           /\ task'[w].pc = to
           /\ task'[w].pub = task[w].pub
           /\ task'[w].attempt = task[w].attempt
           /\ \A v \in Workers : v # w => task'[v] = task[v]
           /\ UNCHANGED <<state, attempts>>
BY DEF Advance, Delivering, TypeOK

\* A tick changes no more of a task than its age.
LEMMA TickKeepsTasks ==
    ASSUME TypeOK, Tick, NEW v \in Workers, task'[v] \in Delivering
    PROVE  /\ task[v] \in Delivering
           /\ task'[v].pc = task[v].pc
           /\ task'[v].pub = task[v].pub
           /\ task'[v].attempt = task[v].attempt
<1>1. Busy(v) /\ task'[v] = [task[v] EXCEPT !.age = @ + 1]
  BY UnheldTasks DEF Tick
<1>2. task[v] \in Dispatching \cup Claiming \cup Delivering
  BY <1>1, TaskKinds DEF Busy, TypeOK
<1>3. task[v] \in Dispatching => task'[v] \in Dispatching
  BY <1>1 DEF Dispatching
<1>4. task[v] \in Claiming => task'[v] \in Claiming
  BY <1>1 DEF Claiming
<1>5. task[v] \in Delivering
  BY <1>2, <1>3, <1>4, UnheldTasks
<1> QED BY <1>1, <1>5 DEF Delivering

\* The call to Meta writes neither table.
LEMMA CallStep ==
    ASSUME IInv, NEW w \in Workers, CallMeta(w) \/ AnswerArrives(w)
    PROVE  Consistent'
<1>1. PICK from, to : Advance(w, from, to)
  BY DEF CallMeta, MetaAccepts, CallRejected, CallUnavailable,
         AnswerArrives, ReplyReceived, ReplyUnreadable, ReplyLost
<1>2. /\ \A v \in Workers : task'[v] \in Delivering =>
                /\ task[v] \in Delivering
                /\ task'[v].pub = task[v].pub
                /\ task'[v].attempt = task[v].attempt
      /\ UNCHANGED <<state, attempts>>
  BY <1>1, AdvanceStep DEF IInv
<1> QED BY <1>2, QuietStep

\* A new publication has no attempts and nobody holds it.
LEMMA ScheduleStep ==
    ASSUME IInv, NEW p \in Publications, NEW lead \in LeadTimes, Schedule(p, lead)
    PROVE  Consistent'
<1>1. /\ state[p] = "NONE" /\ state'[p] = "SCHEDULED"
      /\ \A q \in Publications : q # p => state'[q] = state[q]
      /\ attempts' = attempts /\ task' = task
  BY DEF Schedule, IInv, TypeOK
<1>2. Len(attempts[p]) = 0
  <2>1. attempts[p] \in Seq(Outcome) /\ Len(attempts[p]) \in Nat
    BY LenProperties DEF IInv, TypeOK
  <2>2. Len(attempts[p]) > 0 => attempts[p][Len(attempts[p])] \in Outcome
    BY <2>1, ElementOfSeq
  <2>3. LastOutcome("NONE") \notin Outcome
    BY DEF LastOutcome, Outcome, Open
  <2> QED BY <1>1, <2>1, <2>2, <2>3 DEF IInv, Consistent, HistoryMatchesState
<1>3. \A w \in Workers : Holds(w) => task[w].pub # p /\ task[w].pub \in Publications
  BY <1>1, HeldTask DEF IInv, Consistent, HeldAttemptIsOpen, Holds
<1>4. ClaimExclusive'
  BY <1>1 DEF IInv, Consistent, ClaimExclusive, Holds
<1>5. HeldAttemptIsOpen'
  BY <1>1, <1>3 DEF IInv, Consistent, HeldAttemptIsOpen, Holds
<1>6. HistoryMatchesState'
  BY <1>1, <1>2 DEF IInv, Consistent, HistoryMatchesState
<1>7. AttemptsBounded'
  BY <1>1, <1>2, MaxAttemptsAssumption DEF IInv, Consistent, AttemptsBounded
<1> QED BY <1>4, <1>5, <1>6, <1>7 DEF Consistent

\* Every step keeps the inductive invariant.
LEMMA InvStep == IInv /\ [Next]_vars => IInv'
<1> SUFFICES ASSUME IInv, [Next]_vars PROVE IInv'
  OBVIOUS
<1>1. TypeOK'
  BY TypeStep DEF IInv
<1>2. Consistent'
  <2>1. ASSUME NEW p \in Publications, NEW lead \in LeadTimes, Schedule(p, lead)
        PROVE  Consistent'
    BY <2>1, ScheduleStep
  <2>2. CASE Tick
    BY <2>2, TickKeepsTasks, QuietStep DEF Tick, IInv
  <2>3. CASE Beat
    BY <2>3, QuietStep DEF Beat
  <2>4. ASSUME NEW w \in Workers, WorkerStep(w)
        PROVE  Consistent'
    <3>1. CASE Unheld(w)
      BY <3>1, UnheldStep, QuietStep DEF IInv
    <3> QED BY <2>4, <3>1, ClaimStep, RecordStep, CallStep DEF WorkerStep, Unheld
  <2>5. ASSUME NEW p \in Publications, LoseMessage(p)
        PROVE  Consistent'
    BY <2>5, QuietStep DEF LoseMessage
  <2>6. CASE UNCHANGED vars
    BY <2>6, QuietStep DEF vars
  <2> QED BY <2>1, <2>2, <2>3, <2>4, <2>5, <2>6 DEF Next
<1> QED BY <1>1, <1>2 DEF IInv

\* The inductive invariant holds in every reachable state.
THEOREM Invariant == Spec => []IInv
BY InvInit, InvStep, PTL DEF Spec

\* No two workers ever deliver the same publication at the same time, for any
\* number of workers, duplicated messages, lost messages and crashes.
THEOREM ClaimsAreExclusive == Spec => []ClaimExclusive
<1>1. IInv => ClaimExclusive
  BY DEF IInv, Consistent
<1> QED BY <1>1, Invariant, PTL

\* The attempts of a publication always tell the same story as its state.
THEOREM HistoryIsConsistent == Spec => []HistoryMatchesState
<1>1. IInv => HistoryMatchesState
  BY DEF IInv, Consistent
<1> QED BY <1>1, Invariant, PTL

\* No publication is attempted more than MaxAttempts times.
THEOREM AttemptsAreBounded == Spec => []AttemptsBounded
<1>1. IInv => AttemptsBounded
  BY DEF IInv, Consistent
<1> QED BY <1>1, Invariant, PTL

\* The second transaction always completes the open last attempt of a
\* publication that is still PUBLISHING, though it tests neither.
THEOREM RecordsTheHeldAttempt == Spec => []HeldAttemptIsOpen
<1>1. IInv => HeldAttemptIsOpen
  BY DEF IInv, Consistent
<1> QED BY <1>1, Invariant, PTL

-----------------------------------------------------------------------------
(***************************************************************************)
(* What a step may never do.  Only Claim and Record write attempts, and     *)
(* only Schedule, Claim and Record write state.                             *)
(***************************************************************************)

\* Which steps write the two tables, and where.
LEMMA WritesOfStep ==
    ASSUME IInv, [Next]_vars, NEW p \in Publications,
           state'[p] # state[p] \/ attempts'[p] # attempts[p]
    PROVE  \/ \E lead \in LeadTimes : Schedule(p, lead)
           \/ \E w \in Workers : Claim(w) /\ task[w].pub = p
           \/ \E w \in Workers : Record(w) /\ task[w].pub = p
<1>1. ASSUME NEW q \in Publications, NEW lead \in LeadTimes, Schedule(q, lead)
      PROVE  Schedule(p, lead)
  BY <1>1 DEF Schedule, IInv, TypeOK
<1>2. ~Tick /\ ~Beat /\ ~UNCHANGED vars
  BY DEF Tick, Beat, vars
<1>3. \A q \in Publications : ~LoseMessage(q)
  BY DEF LoseMessage
<1>4. ASSUME NEW w \in Workers, WorkerStep(w)
      PROVE  (Claim(w) \/ Record(w)) /\ task[w].pub = p
  <2>1. ~Unheld(w)
    BY UnheldStep DEF IInv
  <2>2. Claim(w) \/ Record(w)
    BY <1>4, <2>1
       DEF WorkerStep, Unheld, Advance,
           CallMeta, MetaAccepts, CallRejected, CallUnavailable,
           AnswerArrives, ReplyReceived, ReplyUnreadable, ReplyLost
  <2>3. Claim(w) => task[w].pub = p
    BY DEF Claim, ClaimAs, IInv, TypeOK
  <2>4. RecordSuccess(w) => task[w].pub = p
    BY DEF RecordSuccess, IInv, TypeOK
  <2>5. RecordRetry(w) => task[w].pub = p
    BY DEF RecordRetry, IInv, TypeOK
  <2>6. RecordFailure(w) => task[w].pub = p
    BY DEF RecordFailure, IInv, TypeOK
  <2> QED BY <2>2, <2>3, <2>4, <2>5, <2>6 DEF Record
<1> QED BY <1>1, <1>2, <1>3, <1>4 DEF Next

\* A record step finds its publication in PUBLISHING, by HeldAttemptIsOpen.
LEMMA RecordFindsPublishing ==
    ASSUME IInv, NEW w \in Workers, Record(w)
    PROVE  /\ task[w] \in Delivering
           /\ state[task[w].pub] = "PUBLISHING"
           /\ task[w].attempt = Len(attempts[task[w].pub])
<1>1. Holds(w)
  BY DEF Record, RecordSuccess, RecordRetry, RecordFailure, Holds
<1> QED BY <1>1 DEF IInv, Consistent, HeldAttemptIsOpen, Holds

\* PUBLISHED and FAILED are final, whatever is still queued or running.
THEOREM TerminalStatesAreFinal == Spec => TerminalIsFinal
<1>1. ASSUME IInv, [Next]_vars, NEW p \in Publications, state[p] \in Terminal
      PROVE  state'[p] = state[p] /\ attempts'[p] = attempts[p]
  <2>1. \A lead \in LeadTimes : ~Schedule(p, lead)
    BY <1>1 DEF Schedule, Terminal
  <2>2. ASSUME NEW w \in Workers, Claim(w) PROVE task[w].pub # p
    BY <1>1, <2>2 DEF Claim, ClaimAs, Claimable, Terminal
  <2>3. ASSUME NEW w \in Workers, Record(w) PROVE task[w].pub # p
    BY <1>1, <2>3, RecordFindsPublishing DEF Terminal
  <2> QED BY <1>1, <2>1, <2>2, <2>3, WritesOfStep
<1>2. IInv /\ [Next]_vars =>
        [\A p \in Publications : state[p] \in Terminal =>
            state'[p] = state[p] /\ attempts'[p] = attempts[p]]_vars
  BY <1>1
<1> QED BY <1>2, Invariant, PTL DEF Spec, TerminalIsFinal

\* No claim is early: not before scheduled_for, and not inside a back-off.
THEOREM ClaimsAreNotEarly == Spec => ClaimNotEarly
<1>1. ASSUME IInv, [Next]_vars, NEW p \in Publications,
             state[p] = "SCHEDULED", state'[p] = "PUBLISHING"
      PROVE  dueIn[p] <= 0
  <2>1. \A lead \in LeadTimes : ~Schedule(p, lead)
    BY <1>1 DEF Schedule
  <2>2. ASSUME NEW w \in Workers, Record(w) PROVE task[w].pub # p
    BY <1>1, <2>2, RecordFindsPublishing
  <2>3. PICK w \in Workers : Claim(w) /\ task[w].pub = p
    BY <1>1, <2>1, <2>2, WritesOfStep
  <2>4. dueIn[p] + task[w].age <= 0 /\ task[w].age \in Nat
    BY <2>3 DEF Claim, ClaimAs, Claimable, Claiming
  <2>5. dueIn[p] \in Int
    BY <1>1 DEF IInv, TypeOK
  <2> QED BY <2>4, <2>5
<1>2. IInv /\ [Next]_vars =>
        [\A p \in Publications :
            state[p] = "SCHEDULED" /\ state'[p] = "PUBLISHING" => dueIn[p] <= 0]_vars
  BY <1>1
<1> QED BY <1>2, Invariant, PTL DEF Spec, ClaimNotEarly

\* A completed attempt is never rewritten and no attempt disappears.
THEOREM CompletedAttemptsStay == Spec => CompletedAttemptsImmutable
<1>1. ASSUME IInv, [Next]_vars, NEW p \in Publications,
             NEW i \in 1..Len(attempts[p])
      PROVE  /\ i <= Len(attempts'[p])
             /\ attempts[p][i] # Open => attempts'[p][i] = attempts[p][i]
  <2>1. PICK s \in Seq(Outcome) : s = attempts[p]
    BY <1>1 DEF IInv, TypeOK
  <2>2. Len(s) \in Nat
    BY LenProperties
  <2>3. CASE attempts'[p] = attempts[p]
    BY <1>1, <2>1, <2>2, <2>3
  <2>4. CASE \E lead \in LeadTimes : Schedule(p, lead)
    BY <1>1, <2>1, <2>2, <2>4 DEF Schedule
  <2>5. ASSUME NEW w \in Workers, Claim(w), task[w].pub = p
        PROVE  /\ i <= Len(attempts'[p])
               /\ attempts'[p][i] = attempts[p][i]
    <3>1. attempts'[p] = Append(s, Open)
      BY <1>1, <2>1, <2>5 DEF Claim, ClaimAs, IInv, TypeOK
    <3> QED BY <1>1, <2>1, <2>2, <3>1, OpenAttempt
  <2>6. ASSUME NEW w \in Workers, Record(w), task[w].pub = p
        PROVE  /\ i <= Len(attempts'[p])
               /\ attempts[p][i] # Open => attempts'[p][i] = attempts[p][i]
    <3>1. Holds(w)
      BY <1>1, <2>6, RecordFindsPublishing DEF Holds
    <3>2. PICK n \in Nat \ {0} : n = task[w].attempt
      BY <3>1, HeldTask DEF Holds
    <3>3. n = Len(s) /\ n \in 1..Len(s) /\ s[n] = Open
      BY <1>1, <2>1, <2>2, <2>6, <3>1, <3>2 DEF IInv, Consistent, HeldAttemptIsOpen
    <3>4. PICK o \in Outcome : attempts'[p] = [s EXCEPT ![n] = o]
      BY <1>1, <2>1, <2>6, <3>2
         DEF Record, RecordSuccess, RecordRetry, RecordFailure, IInv, TypeOK, Outcome
    <3>5. /\ Len(attempts'[p]) = Len(s)
          /\ i # n => attempts'[p][i] = s[i]
      BY <1>1, <2>1, <3>3, <3>4, ExceptSeq
    <3> QED BY <1>1, <2>1, <2>2, <3>3, <3>5
  <2> QED BY <1>1, <2>3, <2>4, <2>5, <2>6, WritesOfStep
<1>2. IInv /\ [Next]_vars =>
        [\A p \in Publications : \A i \in 1..Len(attempts[p]) :
            /\ i <= Len(attempts'[p])
            /\ attempts[p][i] # Open => attempts'[p][i] = attempts[p][i]]_vars
  BY <1>1
<1> QED BY <1>2, Invariant, PTL DEF Spec, CompletedAttemptsImmutable

-----------------------------------------------------------------------------
(***************************************************************************)
(* What Meta shows.  A post exists at most once because a publication that  *)
(* waits, or whose task may still lead to a retry, has none.  A lost answer *)
(* is the one step that breaks this, so that part needs ~ReplyMayBeLost.    *)
(***************************************************************************)
NothingPosted(w) ==
    Holds(w) /\ task[w].pc \in {"calling", "transient"} => live[task[w].pub] = 0

SomethingPosted(w) ==
    Holds(w) /\ task[w].pc \in {"accepted", "published"} => live[task[w].pub] > 0

WaitingIsNotLive ==
    \A p \in Publications : state[p] \in {"NONE", "SCHEDULED"} => live[p] = 0

LiveInv ==
    /\ PublishedIsLive
    /\ \A w \in Workers : SomethingPosted(w)
    /\ ~ReplyMayBeLost =>
        /\ AtMostOnce
        /\ WaitingIsNotLive
        /\ \A w \in Workers : NothingPosted(w)

\* A step that posts nothing, writes no state and leaves every task that still
\* holds a publication where it was in its call.
LEMMA LiveQuietStep ==
    ASSUME LiveInv,
           UNCHANGED <<state, live>>,
           \A w \in Workers : task'[w] \in Delivering =>
                /\ task[w] \in Delivering
                /\ task'[w].pub = task[w].pub
                /\ task'[w].pc = task[w].pc
    PROVE  LiveInv'
<1>1. \A w \in Workers : SomethingPosted(w)'
  BY DEF LiveInv, SomethingPosted, Holds
<1>2. ~ReplyMayBeLost => \A w \in Workers : NothingPosted(w)'
  BY DEF LiveInv, NothingPosted, Holds
<1> QED BY <1>1, <1>2 DEF LiveInv, PublishedIsLive, AtMostOnce, WaitingIsNotLive

\* Recording an outcome: a retry is recorded only after a transient error.
LEMMA LiveRecordStep ==
    ASSUME IInv, LiveInv, NEW w \in Workers, Record(w)
    PROVE  LiveInv'
<1>1. PICK p \in Publications : task[w] \in Delivering /\ p = task[w].pub
  BY HeldTask DEF Record, RecordSuccess, RecordRetry, RecordFailure
<1>2. /\ live' = live
      /\ \A q \in Publications : q # p => state'[q] = state[q]
      /\ task'[w] \notin Delivering
      /\ \A v \in Workers : v # w => task'[v] = task[v]
  BY <1>1, UnheldTasks
     DEF Record, RecordSuccess, RecordRetry, RecordFailure, IInv, TypeOK
<1>3. state'[p] = "PUBLISHED" => task[w].pc = "published"
  BY <1>1 DEF Record, RecordSuccess, RecordRetry, RecordFailure, IInv, TypeOK
<1>4. state'[p] \in {"NONE", "SCHEDULED"} => task[w].pc = "transient"
  BY <1>1 DEF Record, RecordSuccess, RecordRetry, RecordFailure, ShouldRetry,
              IInv, TypeOK
<1>5. PublishedIsLive'
  BY <1>1, <1>2, <1>3 DEF LiveInv, PublishedIsLive, SomethingPosted, Holds
<1>6. \A v \in Workers : SomethingPosted(v)'
  BY <1>2 DEF LiveInv, SomethingPosted, Holds
<1>7. ~ReplyMayBeLost => AtMostOnce' /\ WaitingIsNotLive'
  BY <1>1, <1>2, <1>4
     DEF LiveInv, AtMostOnce, WaitingIsNotLive, NothingPosted, Holds
<1>8. ~ReplyMayBeLost => \A v \in Workers : NothingPosted(v)'
  BY <1>2 DEF LiveInv, NothingPosted, Holds
<1> QED BY <1>5, <1>6, <1>7, <1>8 DEF LiveInv

\* Claiming: the publication was waiting, so nothing is posted yet.
LEMMA LiveClaimStep ==
    ASSUME IInv, LiveInv, NEW w \in Workers, Claim(w)
    PROVE  LiveInv'
<1>1. PICK p \in Publications : p = task[w].pub
  BY DEF Claim, ClaimAs, Claiming
<1>2. /\ live' = live
      /\ state[p] = "SCHEDULED" /\ state'[p] = "PUBLISHING"
      /\ \A q \in Publications : q # p => state'[q] = state[q]
      /\ task'[w].pub = p /\ task'[w].pc = "calling"
      /\ \A v \in Workers : v # w => task'[v] = task[v]
  BY <1>1 DEF Claim, ClaimAs, Claimable, IInv, TypeOK
<1>3. PublishedIsLive'
  BY <1>2 DEF LiveInv, PublishedIsLive
<1>4. \A v \in Workers : SomethingPosted(v)'
  BY <1>2 DEF LiveInv, SomethingPosted, Holds
<1>5. ~ReplyMayBeLost => AtMostOnce' /\ WaitingIsNotLive'
  BY <1>2 DEF LiveInv, AtMostOnce, WaitingIsNotLive
<1>6. ~ReplyMayBeLost => \A v \in Workers : NothingPosted(v)'
  BY <1>2 DEF LiveInv, WaitingIsNotLive, NothingPosted, Holds
<1> QED BY <1>3, <1>4, <1>5, <1>6 DEF LiveInv

\* A move inside the call that posts nothing.
LEMMA LiveAdvanceStep ==
    ASSUME IInv, LiveInv, NEW w \in Workers, NEW from, NEW to,
           Advance(w, from, to), UNCHANGED live,
           to \in {"accepted", "published"} => from \in {"accepted", "published"},
           ~ReplyMayBeLost /\ to \in {"calling", "transient"} =>
                from \in {"calling", "transient"}
    PROVE  LiveInv'
<1>1. /\ task[w] \in Delivering /\ task[w].pc = from
      /\ task'[w].pc = to /\ task'[w].pub = task[w].pub
      /\ \A v \in Workers : v # w => task'[v] = task[v]
      /\ UNCHANGED <<state, live>>
  BY AdvanceStep DEF IInv, Advance
<1>2. \A v \in Workers : SomethingPosted(v)'
  BY <1>1 DEF LiveInv, SomethingPosted, Holds
<1>3. ~ReplyMayBeLost => \A v \in Workers : NothingPosted(v)'
  BY <1>1 DEF LiveInv, NothingPosted, Holds
<1> QED BY <1>1, <1>2, <1>3
        DEF LiveInv, PublishedIsLive, AtMostOnce, WaitingIsNotLive

\* Meta publishes: nobody else holds this publication, so no other task is
\* surprised by the new post.
LEMMA LiveAcceptStep ==
    ASSUME IInv, LiveInv, NEW w \in Workers, MetaAccepts(w)
    PROVE  LiveInv'
<1>1. PICK p \in Publications : task[w] \in Delivering /\ p = task[w].pub
  BY HeldTask DEF MetaAccepts, Advance
<1>2. /\ task[w].pc = "calling" /\ task'[w].pc = "accepted" /\ task'[w].pub = p
      /\ \A v \in Workers : v # w => task'[v] = task[v]
      /\ state' = state /\ state[p] = "PUBLISHING"
      /\ live[p] \in Nat /\ live'[p] = live[p] + 1
      /\ \A q \in Publications : q # p => live'[q] = live[q]
  BY <1>1 DEF MetaAccepts, Advance, Delivering, IInv, TypeOK, Consistent,
              HeldAttemptIsOpen, Holds
<1>3. \A v \in Workers : v # w /\ task[v] \in Delivering =>
            task[v].pub # p /\ task[v].pub \in Publications
  BY <1>1, HeldTask DEF IInv, Consistent, ClaimExclusive, Holds
<1>4. PublishedIsLive'
  BY <1>2 DEF LiveInv, PublishedIsLive
<1>5. \A v \in Workers : SomethingPosted(v)'
  BY <1>2, <1>3 DEF LiveInv, SomethingPosted, Holds
<1>6. ~ReplyMayBeLost => live[p] = 0
  BY <1>1, <1>2 DEF LiveInv, NothingPosted, Holds
<1>7. ~ReplyMayBeLost => AtMostOnce' /\ WaitingIsNotLive'
  BY <1>2, <1>6 DEF LiveInv, AtMostOnce, WaitingIsNotLive
<1>8. ~ReplyMayBeLost => \A v \in Workers : NothingPosted(v)'
  BY <1>2, <1>3 DEF LiveInv, NothingPosted, Holds
<1> QED BY <1>4, <1>5, <1>7, <1>8 DEF LiveInv

\* What is live at Meta agrees with what is recorded after every step.
LEMMA LiveStep == IInv /\ LiveInv /\ [Next]_vars => LiveInv'
<1> SUFFICES ASSUME IInv, LiveInv, [Next]_vars PROVE LiveInv'
  OBVIOUS
<1>1. ASSUME NEW p \in Publications, NEW lead \in LeadTimes, Schedule(p, lead)
      PROVE  LiveInv'
  <2>1. /\ live' = live /\ task' = task
        /\ state[p] = "NONE" /\ state'[p] = "SCHEDULED"
        /\ \A q \in Publications : q # p => state'[q] = state[q]
    BY <1>1 DEF Schedule, IInv, TypeOK
  <2>2. PublishedIsLive'
    BY <2>1 DEF LiveInv, PublishedIsLive
  <2>3. ~ReplyMayBeLost => AtMostOnce' /\ WaitingIsNotLive'
    BY <2>1 DEF LiveInv, AtMostOnce, WaitingIsNotLive
  <2>4. \A w \in Workers : SomethingPosted(w)'
    BY <2>1 DEF LiveInv, SomethingPosted, Holds
  <2>5. ~ReplyMayBeLost => \A w \in Workers : NothingPosted(w)'
    BY <2>1 DEF LiveInv, NothingPosted, Holds
  <2> QED BY <2>2, <2>3, <2>4, <2>5 DEF LiveInv
<1>2. CASE Tick
  BY <1>2, TickKeepsTasks, LiveQuietStep DEF Tick, IInv
<1>3. CASE Beat
  BY <1>3, LiveQuietStep DEF Beat
<1>4. ASSUME NEW w \in Workers, WorkerStep(w)
      PROVE  LiveInv'
  <2>1. CASE Unheld(w)
    BY <2>1, UnheldStep, LiveQuietStep DEF IInv
  <2>2. CASE CallRejected(w) \/ CallUnavailable(w)
    BY <2>2, LiveAdvanceStep DEF CallRejected, CallUnavailable
  <2>3. CASE AnswerArrives(w)
    BY <2>3, LiveAdvanceStep
       DEF AnswerArrives, ReplyReceived, ReplyUnreadable, ReplyLost
  <2> QED BY <1>4, <2>1, <2>2, <2>3, LiveClaimStep, LiveRecordStep, LiveAcceptStep
          DEF WorkerStep, Unheld, CallMeta
<1>5. ASSUME NEW p \in Publications, LoseMessage(p)
      PROVE  LiveInv'
  BY <1>5, LiveQuietStep DEF LoseMessage
<1>6. CASE UNCHANGED vars
  BY <1>6, LiveQuietStep DEF vars
<1> QED BY <1>1, <1>2, <1>3, <1>4, <1>5, <1>6 DEF Next

\* Nothing is live at the start.
LEMMA LiveInit == Init => LiveInv
<1> SUFFICES ASSUME Init PROVE LiveInv
  OBVIOUS
<1>1. \A w \in Workers : ~Holds(w)
  BY UnheldTasks DEF Init, Holds
<1>2. \A p \in Publications : state[p] = "NONE" /\ live[p] = 0
  BY DEF Init
<1> QED BY <1>1, <1>2 DEF LiveInv, PublishedIsLive, AtMostOnce, WaitingIsNotLive,
                          SomethingPosted, NothingPosted

\* The two invariants hold together in every reachable state.
LEMMA LiveInvariant == Spec => [](IInv /\ LiveInv)
<1>1. IInv /\ LiveInv /\ [Next]_vars => (IInv /\ LiveInv)'
  BY InvStep, LiveStep
<1> QED BY <1>1, InvInit, LiveInit, PTL DEF Spec

\* PUBLISHED is never claimed for a post that Meta does not have.
THEOREM PublishedIsReallyLive == Spec => []PublishedIsLive
<1>1. LiveInv => PublishedIsLive
  BY DEF LiveInv
<1> QED BY <1>1, LiveInvariant, PTL

\* If no answer is lost, nothing is posted twice: not by duplicated messages,
\* concurrent workers, crashes between the claim and the record, or retries.
THEOREM PostedAtMostOnce == ~ReplyMayBeLost => (Spec => []AtMostOnce)
<1> SUFFICES ASSUME ~ReplyMayBeLost PROVE Spec => []AtMostOnce
  OBVIOUS
<1>1. LiveInv => AtMostOnce
  BY DEF LiveInv
<1> QED BY <1>1, LiveInvariant, PTL

-----------------------------------------------------------------------------
(***************************************************************************)
(* Extra posts.  Also when answers are lost, Meta gets at most one post per *)
(* attempt, and none yet for an attempt whose call is still to be made; all *)
(* attempts but the last were retried.                                      *)
(***************************************************************************)
OnePostPerAttempt ==
    \A p \in Publications : live[p] <= Len(attempts[p])

CallIsStillToPost(w) ==
    Holds(w) /\ task[w].pc = "calling" =>
        live[task[w].pub] < Len(attempts[task[w].pub])

PostsCounted == OnePostPerAttempt /\ \A w \in Workers : CallIsStillToPost(w)

\* A step that posts nothing, keeps the number of attempts and starts no call.
LEMMA CountQuietStep ==
    ASSUME PostsCounted,
           UNCHANGED live,
           \A p \in Publications : Len(attempts'[p]) = Len(attempts[p]),
           \A w \in Workers : task'[w] \in Delivering /\ task'[w].pc = "calling" =>
                /\ task[w] \in Delivering
                /\ task'[w].pub = task[w].pub
                /\ task[w].pc = "calling"
    PROVE  PostsCounted'
<1>1. OnePostPerAttempt'
  BY DEF PostsCounted, OnePostPerAttempt
<1>2. ASSUME NEW w \in Workers, Holds(w)', task'[w].pc = "calling"
      PROVE  live'[task'[w].pub] < Len(attempts'[task'[w].pub])
  <2>1. /\ task[w] \in Delivering
        /\ task'[w].pub = task[w].pub
        /\ task[w].pc = "calling"
    BY <1>2 DEF Holds
  <2>2. task[w].pub \in Publications
    BY <2>1, HeldTask
  <2> QED BY <2>1, <2>2 DEF PostsCounted, CallIsStillToPost, Holds
<1> QED BY <1>1, <1>2 DEF PostsCounted, CallIsStillToPost

\* A claim adds the attempt that its call may post for.
LEMMA CountClaimStep ==
    ASSUME IInv, PostsCounted, NEW w \in Workers, Claim(w)
    PROVE  PostsCounted'
<1>1. PICK p \in Publications : p = task[w].pub
  BY DEF Claim, ClaimAs, Claiming
<1>2. /\ live' = live /\ live[p] \in Nat
      /\ attempts[p] \in Seq(Outcome)
      /\ state[p] = "SCHEDULED"
      /\ attempts'[p] = Append(attempts[p], Open)
      /\ \A q \in Publications : q # p => attempts'[q] = attempts[q]
      /\ task'[w].pub = p
      /\ \A v \in Workers : v # w => task'[v] = task[v]
  BY <1>1 DEF Claim, ClaimAs, Claimable, IInv, TypeOK
<1>3. Len(attempts[p]) \in Nat /\ Len(attempts'[p]) = Len(attempts[p]) + 1
  BY <1>2, OpenAttempt
<1>4. live[p] < Len(attempts'[p])
  BY <1>2, <1>3 DEF PostsCounted, OnePostPerAttempt
<1>5. OnePostPerAttempt'
  <2>1. live'[p] <= Len(attempts'[p])
    BY <1>2, <1>3, <1>4
  <2> QED BY <1>2, <2>1 DEF PostsCounted, OnePostPerAttempt
<1>6. ASSUME NEW v \in Workers PROVE CallIsStillToPost(v)'
  <2>1. CASE v = w
    BY <1>2, <1>4, <2>1 DEF CallIsStillToPost
  <2>2. CASE v # w
    <3>1. Holds(v) => task[v].pub \in Publications /\ task[v].pub # p
      BY <1>2, HeldTask DEF IInv, Consistent, HeldAttemptIsOpen, Holds
    <3> QED BY <1>2, <2>2, <3>1 DEF PostsCounted, CallIsStillToPost, Holds
  <2> QED BY <2>1, <2>2
<1> QED BY <1>5, <1>6 DEF PostsCounted

\* Recording an outcome writes into the attempt that is there.
LEMMA CountRecordStep ==
    ASSUME IInv, PostsCounted, NEW w \in Workers, Record(w)
    PROVE  PostsCounted'
<1>1. PICK p \in Publications : task[w] \in Delivering /\ p = task[w].pub
  BY HeldTask DEF Record, RecordSuccess, RecordRetry, RecordFailure
<1>2. PICK n \in Nat \ {0} : n = task[w].attempt
  BY <1>1, HeldTask
<1>3. PICK s \in Seq(Outcome) : s = attempts[p]
  BY <1>1 DEF IInv, TypeOK
<1>4. n \in 1..Len(s)
  BY <1>1, <1>2, <1>3 DEF IInv, Consistent, HeldAttemptIsOpen, Holds
<1>5. PICK o \in Outcome : attempts' = [attempts EXCEPT ![p][n] = o]
  BY <1>1, <1>2 DEF Record, RecordSuccess, RecordRetry, RecordFailure, Outcome
<1>6. attempts'[p] = [s EXCEPT ![n] = o]
      /\ \A q \in Publications : q # p => attempts'[q] = attempts[q]
  BY <1>3, <1>5 DEF IInv, TypeOK
<1>7. \A q \in Publications : Len(attempts'[q]) = Len(attempts[q])
  BY <1>3, <1>4, <1>6, ExceptSeq
<1>8. /\ live' = live
      /\ task'[w] \notin Delivering
      /\ \A v \in Workers : v # w => task'[v] = task[v]
  BY <1>1, UnheldTasks
     DEF Record, RecordSuccess, RecordRetry, RecordFailure, IInv, TypeOK
<1> QED BY <1>7, <1>8, CountQuietStep

\* Meta posts for an attempt that has no post yet, and nobody else is calling
\* for the same publication.
LEMMA CountAcceptStep ==
    ASSUME IInv, PostsCounted, NEW w \in Workers, MetaAccepts(w)
    PROVE  PostsCounted'
<1>1. PICK p \in Publications : task[w] \in Delivering /\ p = task[w].pub
  BY HeldTask DEF MetaAccepts, Advance
<1>2. /\ task[w].pc = "calling" /\ task'[w].pc = "accepted"
      /\ \A v \in Workers : v # w => task'[v] = task[v]
      /\ attempts' = attempts
      /\ live[p] \in Nat /\ live'[p] = live[p] + 1
      /\ \A q \in Publications : q # p => live'[q] = live[q]
  BY <1>1 DEF MetaAccepts, Advance, Delivering, IInv, TypeOK
<1>3. live[p] < Len(attempts[p]) /\ Len(attempts[p]) \in Nat
  BY <1>1, <1>2, LenProperties
     DEF PostsCounted, CallIsStillToPost, Holds, IInv, TypeOK
<1>4. live'[p] <= Len(attempts'[p])
  BY <1>2, <1>3
<1>5. OnePostPerAttempt'
  BY <1>2, <1>4 DEF PostsCounted, OnePostPerAttempt
<1>6. \A v \in Workers : v # w /\ task[v] \in Delivering =>
            task[v].pub # p /\ task[v].pub \in Publications
  BY <1>1, HeldTask DEF IInv, Consistent, ClaimExclusive, Holds
<1>7. \A v \in Workers : CallIsStillToPost(v)'
  BY <1>2, <1>6 DEF PostsCounted, CallIsStillToPost, Holds
<1> QED BY <1>5, <1>7 DEF PostsCounted

\* Posts never outnumber the attempts, whatever the step.
LEMMA CountStep == IInv /\ PostsCounted /\ [Next]_vars => PostsCounted'
<1> SUFFICES ASSUME IInv, PostsCounted, [Next]_vars PROVE PostsCounted'
  OBVIOUS
<1>1. ASSUME NEW p \in Publications, NEW lead \in LeadTimes, Schedule(p, lead)
      PROVE  PostsCounted'
  BY <1>1, CountQuietStep DEF Schedule
<1>2. CASE Tick
  BY <1>2, TickKeepsTasks, CountQuietStep DEF Tick, IInv
<1>3. CASE Beat
  BY <1>3, CountQuietStep DEF Beat
<1>4. ASSUME NEW w \in Workers, WorkerStep(w)
      PROVE  PostsCounted'
  <2>1. CASE Unheld(w)
    BY <2>1, UnheldStep, CountQuietStep DEF IInv
  <2>2. ASSUME NEW from, NEW to, Advance(w, from, to), UNCHANGED live,
               to # "calling"
        PROVE  PostsCounted'
    <3>1. /\ task'[w].pc = to
          /\ \A v \in Workers : v # w => task'[v] = task[v]
          /\ UNCHANGED <<attempts, live>>
      BY <2>2, AdvanceStep DEF IInv, Advance
    <3> QED BY <2>2, <3>1, CountQuietStep
  <2>3. CASE CallRejected(w) \/ CallUnavailable(w) \/ AnswerArrives(w)
    BY <2>2, <2>3 DEF CallRejected, CallUnavailable,
                      AnswerArrives, ReplyReceived, ReplyUnreadable, ReplyLost
  <2> QED BY <1>4, <2>1, <2>3, CountClaimStep, CountRecordStep, CountAcceptStep
          DEF WorkerStep, Unheld, CallMeta
<1>5. ASSUME NEW p \in Publications, LoseMessage(p)
      PROVE  PostsCounted'
  BY <1>5, CountQuietStep DEF LoseMessage
<1>6. CASE UNCHANGED vars
  BY <1>6, CountQuietStep DEF vars
<1> QED BY <1>1, <1>2, <1>3, <1>4, <1>5, <1>6 DEF Next

\* No attempt and no post at the start.
LEMMA CountInit == Init => PostsCounted
<1> SUFFICES ASSUME Init PROVE PostsCounted
  OBVIOUS
<1>1. \A w \in Workers : ~Holds(w)
  BY UnheldTasks DEF Init, Holds
<1>2. \A p \in Publications : live[p] = 0 /\ Len(attempts[p]) = 0
  BY DEF Init
<1> QED BY <1>1, <1>2 DEF PostsCounted, OnePostPerAttempt, CallIsStillToPost

\* All attempts but the last are counted as retries.
LEMMA RetriesCounted ==
    ASSUME TypeOK, HistoryMatchesState, NEW p \in Publications
    PROVE  LET retried == {i \in 1..Len(attempts[p]) : attempts[p][i] = "RETRY"}
           IN  Cardinality(retried) \in Nat
               /\ Len(attempts[p]) <= 1 + Cardinality(retried)
<1> DEFINE n == Len(attempts[p])
           retried == {i \in 1..n : attempts[p][i] = "RETRY"}
<1>1. n \in Nat
  BY LenProperties DEF TypeOK
<1> HIDE DEF n
<1>2. IsFiniteSet(1..n) /\ retried \in SUBSET (1..n)
  BY <1>1, FS_Interval
<1>3. IsFiniteSet(retried)
  BY <1>2, FS_Subset
<1>4. Cardinality(retried) \in Nat
  BY <1>3, FS_CardinalityType
<1>5. CASE n = 0
  BY <1>4, <1>5 DEF n
<1>6. CASE n > 0
  <2>1. \A i \in 1..(n - 1) : i \in 1..n /\ i < n
    BY <1>1, <1>6
  <2>2. 1..(n - 1) \in SUBSET retried
    BY <2>1 DEF HistoryMatchesState, n
  <2>3. Cardinality(1..(n - 1)) <= Cardinality(retried)
    BY <1>3, <2>2, FS_Subset
  <2>4. Cardinality(1..(n - 1)) = n - 1
    <3>1. 1 \in Int /\ n - 1 \in Int
      BY <1>1
    <3>2. Cardinality(1..(n - 1)) = IF 1 > n - 1 THEN 0 ELSE (n - 1) - 1 + 1
      BY <3>1, FS_Interval
    <3> QED BY <1>1, <1>6, <3>2
  <2>5. n <= 1 + Cardinality(retried)
    BY <1>1, <1>4, <2>3, <2>4
  <2> QED BY <1>4, <2>5 DEF n
<1> QED BY <1>1, <1>5, <1>6

\* A second post always has a recorded RETRY behind it, also when answers are
\* lost, tasks die, messages are lost or duplicated and workers run in parallel.
THEOREM ExtraPostsAreRetries == Spec => []DuplicatesComeFromRetries
<1>1. IInv /\ PostsCounted /\ [Next]_vars => (IInv /\ PostsCounted)'
  BY InvStep, CountStep
<1>2. IInv /\ PostsCounted => DuplicatesComeFromRetries
  <2> SUFFICES ASSUME IInv, PostsCounted, NEW p \in Publications
               PROVE  live[p] <= 1 + Cardinality({i \in 1..Len(attempts[p]) :
                                                    attempts[p][i] = "RETRY"})
    BY DEF DuplicatesComeFromRetries
  <2>1. live[p] \in Nat /\ live[p] <= Len(attempts[p]) /\ Len(attempts[p]) \in Nat
    BY LenProperties DEF IInv, TypeOK, PostsCounted, OnePostPerAttempt
  <2> QED BY <2>1, RetriesCounted DEF IInv, Consistent
<1> QED BY <1>1, <1>2, InvInit, CountInit, PTL DEF Spec

-----------------------------------------------------------------------------
(***************************************************************************)
(* Publications left behind.  A publication is held from its claim to its   *)
(* record unless the worker dies, and the death of a worker takes one task  *)
(* with it; nothing is claimed again before its outcome is recorded.        *)
(***************************************************************************)

\* Whoever holds a publication after a step held it before or has just claimed it.
LEMMA HolderBefore ==
    ASSUME IInv, [Next]_vars, NEW w \in Workers, task'[w] \in Delivering
    PROVE  \/ task[w] \in Delivering /\ task'[w].pub = task[w].pub
           \/ Claim(w) /\ state[task'[w].pub] = "SCHEDULED"
<1>1. CASE task' = task
  BY <1>1
<1>2. CASE Tick
  BY <1>2, TickKeepsTasks DEF IInv
<1>3. ASSUME NEW v \in Workers, WorkerStep(v)
      PROVE  \/ task[w] \in Delivering /\ task'[w].pub = task[w].pub
             \/ Claim(w) /\ state[task'[w].pub] = "SCHEDULED"
  <2>1. CASE Unheld(v)
    BY <2>1, UnheldStep DEF IInv
  <2>2. CASE Claim(v)
    BY <2>2 DEF Claim, ClaimAs, Claimable, IInv, TypeOK
  <2>3. CASE Record(v)
    BY <2>3, UnheldTasks DEF Record, RecordSuccess, RecordRetry, RecordFailure, IInv, TypeOK
  <2>4. ASSUME NEW from, NEW to, Advance(v, from, to)
        PROVE  task[w] \in Delivering /\ task'[w].pub = task[w].pub
    BY <2>4, AdvanceStep DEF IInv
  <2>5. CASE CallMeta(v) \/ AnswerArrives(v)
    BY <2>4, <2>5
       DEF CallMeta, MetaAccepts, CallRejected, CallUnavailable,
           AnswerArrives, ReplyReceived, ReplyUnreadable, ReplyLost
  <2> QED BY <1>3, <2>1, <2>2, <2>3, <2>5 DEF WorkerStep, Unheld
<1> QED BY <1>1, <1>2, <1>3 DEF Next, vars, Schedule, Beat, LoseMessage

\* Whoever holds a publication goes on holding it, records its outcome or dies.
LEMMA HolderAfter ==
    ASSUME IInv, [Next]_vars, NEW w \in Workers, task[w] \in Delivering
    PROVE  \/ task'[w] \in Delivering /\ task'[w].pub = task[w].pub
           \/ Record(w) /\ state'[task[w].pub] # "PUBLISHING"
           \/ Abort(w)
<1>1. CASE task' = task
  BY <1>1
<1>2. CASE Tick
  <2>1. task'[w] = [task[w] EXCEPT !.age = @ + 1]
    BY <1>2, HeldTask DEF Tick, Busy
  <2> QED BY <2>1 DEF Delivering
<1>3. ASSUME NEW v \in Workers, WorkerStep(v)
      PROVE  \/ task'[w] \in Delivering /\ task'[w].pub = task[w].pub
             \/ Record(w) /\ state'[task[w].pub] # "PUBLISHING"
             \/ Abort(w)
  <2>1. CASE v # w
    <3>1. CASE Unheld(v)
      BY <2>1, <3>1, UnheldStep DEF IInv
    <3>2. CASE Claim(v) \/ Record(v) \/ CallMeta(v) \/ AnswerArrives(v)
      BY <2>1, <3>2
         DEF Claim, ClaimAs, Record, RecordSuccess, RecordRetry, RecordFailure,
             CallMeta, MetaAccepts, CallRejected, CallUnavailable, AnswerArrives,
             ReplyReceived, ReplyUnreadable, ReplyLost, Advance, IInv, TypeOK
    <3> QED BY <1>3, <3>1, <3>2 DEF WorkerStep, Unheld
  <2>2. CASE v = w
    <3>1. /\ ~StartDispatch(w) /\ ~Claim(w) /\ ~ClaimRefused(w)
          /\ \A p \in Publications : ~Enqueue(w, p) /\ ~StartPublish(w, p)
      BY HeldTask DEF StartDispatch, Claim, ClaimRefused, Enqueue, StartPublish, Busy
    <3>2. CASE Record(w)
      <4>1. task[w].pub \in Publications
        BY HeldTask
      <4> QED BY <3>2, <4>1
              DEF Record, RecordSuccess, RecordRetry, RecordFailure, IInv, TypeOK
    <3>3. ASSUME NEW from,
                 NEW to \in {"calling", "accepted", "published",
                             "transient", "permanent"},
                 Advance(w, from, to)
          PROVE  task'[w] \in Delivering /\ task'[w].pub = task[w].pub
      BY <3>3 DEF Advance, Delivering, IInv, TypeOK
    <3>4. CASE CallMeta(w) \/ AnswerArrives(w)
      BY <3>3, <3>4
         DEF CallMeta, MetaAccepts, CallRejected, CallUnavailable,
             AnswerArrives, ReplyReceived, ReplyUnreadable, ReplyLost
    <3> QED BY <1>3, <2>2, <3>1, <3>2, <3>4 DEF WorkerStep
  <2> QED BY <2>1, <2>2
<1> QED BY <1>1, <1>2, <1>3 DEF Next, vars, Schedule, Beat, LoseMessage

\* An abandoned publication stays abandoned, whatever the step.
LEMMA AbandonedStep ==
    ASSUME IInv, [Next]_vars, NEW p \in Publications, Abandoned(p)
    PROVE  Abandoned(p)'
<1>1. state[p] = "PUBLISHING" /\ \A w \in Workers : ~(Holds(w) /\ task[w].pub = p)
  BY DEF Abandoned
<1>2. state'[p] = "PUBLISHING"
  <2>1. \A lead \in LeadTimes : ~Schedule(p, lead)
    BY <1>1 DEF Schedule
  <2>2. ASSUME NEW w \in Workers, Claim(w) PROVE task[w].pub # p
    BY <1>1, <2>2 DEF Claim, ClaimAs, Claimable
  <2>3. ASSUME NEW w \in Workers, Record(w) PROVE task[w].pub # p
    BY <1>1, <2>3, RecordFindsPublishing DEF Holds
  <2> QED BY <1>1, <2>1, <2>2, <2>3, WritesOfStep
<1>3. ASSUME NEW w \in Workers, task'[w] \in Delivering PROVE task'[w].pub # p
  BY <1>1, <1>3, HolderBefore DEF Holds
<1> QED BY <1>2, <1>3 DEF Abandoned, Holds

\* A publication newly abandoned is the one whose holder has just died.
LEMMA NewlyAbandoned ==
    ASSUME IInv, [Next]_vars, NEW p \in Publications, ~Abandoned(p), Abandoned(p)'
    PROVE  \E w \in Workers : Abort(w) /\ task[w].pub = p
<1>1. /\ state'[p] = "PUBLISHING"
      /\ \A w \in Workers : ~(task'[w] \in Delivering /\ task'[w].pub = p)
  BY DEF Abandoned, Holds
<1>2. state[p] = "PUBLISHING"
  <2>1. \A lead \in LeadTimes : ~Schedule(p, lead)
    BY <1>1 DEF Schedule, IInv, TypeOK
  <2>2. ASSUME NEW w \in Workers, Claim(w), task[w].pub = p PROVE FALSE
    <3>1. task'[w].pub = p
      BY <2>2 DEF Claim, ClaimAs, IInv, TypeOK
    <3>2. task'[w] \in Delivering
      <4>1. task[w].age \in Nat
        BY <2>2 DEF Claim, Claiming
      <4>2. Len(attempts[p]) + 1 \in Nat \ {0}
        BY LenProperties DEF IInv, TypeOK
      <4> QED BY <2>2, <4>1, <4>2 DEF Claim, ClaimAs, Delivering, IInv, TypeOK
    <3> QED BY <1>1, <3>1, <3>2
  <2>3. ASSUME NEW w \in Workers, Record(w), task[w].pub = p
        PROVE  state[p] = "PUBLISHING"
    BY <2>3, RecordFindsPublishing
  <2> QED BY <1>1, <2>1, <2>2, <2>3, WritesOfStep
<1>3. PICK w \in Workers : task[w] \in Delivering /\ task[w].pub = p
  BY <1>2 DEF Abandoned, Holds
<1> QED BY <1>1, <1>3, HolderAfter

StrandedCounted == IsFiniteSet(Stranded) /\ OneLossPerFault

\* One step abandons one publication at most, and only as a fault.
LEMMA StrandedStep == IInv /\ StrandedCounted /\ [Next]_vars => StrandedCounted'
<1> SUFFICES ASSUME IInv, StrandedCounted, [Next]_vars PROVE StrandedCounted'
  OBVIOUS
<1>1. faults \in Nat /\ IsFiniteSet(Stranded) /\ Cardinality(Stranded) <= faults
  BY BoundsAssumption DEF IInv, TypeOK, StrandedCounted, OneLossPerFault
<1>2. Cardinality(Stranded) \in Nat
  BY <1>1, FS_CardinalityType
<1>3. CASE Stranded' \subseteq Stranded
  <2>1. faults' \in Nat /\ faults <= faults'
    <3>1. \A w \in Workers : WorkerStep(w) => faults' = faults \/ faults' = faults + 1
      BY DEF WorkerStep, StartDispatch, Enqueue, StartPublish, Claim, ClaimAs,
             ClaimRefused, CallMeta, MetaAccepts, CallRejected, CallUnavailable,
             AnswerArrives, ReplyReceived, ReplyUnreadable, ReplyLost, Advance,
             Record, RecordSuccess, RecordRetry, RecordFailure, Abort
    <3>2. faults' = faults \/ faults' = faults + 1
      BY <3>1 DEF Next, vars, Schedule, Tick, Beat, LoseMessage
    <3> QED BY <1>1, <3>2
  <2>2. IsFiniteSet(Stranded') /\ Cardinality(Stranded') <= Cardinality(Stranded)
    BY <1>1, <1>3, FS_Subset
  <2>3. Cardinality(Stranded') \in Nat
    BY <2>2, FS_CardinalityType
  <2>4. Cardinality(Stranded') <= faults'
    BY <1>1, <1>2, <2>1, <2>2, <2>3
  <2> QED BY <2>2, <2>4 DEF StrandedCounted, OneLossPerFault
<1>4. CASE ~(Stranded' \subseteq Stranded)
  <2>1. PICK p \in Publications : p \notin Stranded /\ p \in Stranded'
    BY <1>4 DEF Stranded
  <2>2. PICK w \in Workers : Abort(w) /\ task[w].pub = p
    BY <2>1, NewlyAbandoned DEF Stranded
  <2>3. Stranded' \subseteq Stranded \cup {p}
    <3> SUFFICES ASSUME NEW q \in Publications, ~Abandoned(q), Abandoned(q)'
                 PROVE  q = p
      BY DEF Stranded
    <3>1. PICK v \in Workers : Abort(v) /\ task[v].pub = q
      BY NewlyAbandoned
    <3>2. v = w
      <4>1. task'[v] = Idle /\ task[v] # Idle
        BY <3>1 DEF Abort, Busy, IInv, TypeOK
      <4>2. w # v => task'[v] = task[v]
        BY <2>2 DEF Abort, IInv, TypeOK
      <4> QED BY <4>1, <4>2
    <3> QED BY <2>2, <3>1, <3>2
  <2>4. faults' = faults + 1
    BY <2>2 DEF Abort
  <2>5. /\ IsFiniteSet(Stranded \cup {p})
        /\ Cardinality(Stranded \cup {p}) = Cardinality(Stranded) + 1
    BY <1>1, <2>1, FS_AddElement
  <2>6. /\ IsFiniteSet(Stranded')
        /\ Cardinality(Stranded') <= Cardinality(Stranded \cup {p})
    BY <2>3, <2>5, FS_Subset
  <2>7. Cardinality(Stranded') \in Nat
    BY <2>6, FS_CardinalityType
  <2>8. Cardinality(Stranded') <= faults'
    BY <1>1, <1>2, <2>4, <2>5, <2>6, <2>7
  <2> QED BY <2>6, <2>8 DEF StrandedCounted, OneLossPerFault
<1> QED BY <1>3, <1>4

\* Nothing is abandoned at the start.
LEMMA StrandedInit == Init => StrandedCounted
<1> SUFFICES ASSUME Init PROVE StrandedCounted
  OBVIOUS
<1>1. Stranded = {} /\ faults = 0
  BY DEF Init, Stranded, Abandoned
<1> QED BY <1>1, FS_EmptySet DEF StrandedCounted, OneLossPerFault

\* Never more publications are stuck in PUBLISHING than there were faults, for
\* any number of publications, workers, lost and duplicated messages.
THEOREM LossesAreCounted == Spec => []OneLossPerFault
<1>1. IInv /\ StrandedCounted /\ [Next]_vars => (IInv /\ StrandedCounted)'
  BY InvStep, StrandedStep
<1>2. StrandedCounted => OneLossPerFault
  BY DEF StrandedCounted
<1> QED BY <1>1, <1>2, InvInit, StrandedInit, PTL DEF Spec

\* A publication whose task died while it held it stays in PUBLISHING for ever:
\* no retry, dispatcher, late message or other worker ends it.
THEOREM AbandonedForGood == Spec => AbandonedStays
<1>1. IInv /\ [Next]_vars => [Stranded \subseteq Stranded']_vars
  BY AbandonedStep DEF Stranded
<1> QED BY <1>1, Invariant, PTL DEF Spec, AbandonedStays

-----------------------------------------------------------------------------
(***************************************************************************)
(* Delivery implements PublicationLifecycle.                                *)
(***************************************************************************)
LEMMA LifecycleInit == Init => Lifecycle!Init
<1> SUFFICES ASSUME Init PROVE Lifecycle!Init
  OBVIOUS
<1>1. \A p \in Publications : Len(attempts[p]) = 0
  BY DEF Init
<1> QED BY <1>1 DEF Init, Lifecycle!Init

\* The abstract steps are exactly the writes of Schedule, Claim and Record.
LEMMA LifecycleStep == IInv /\ [Next]_vars => [Lifecycle!Next]_(Lifecycle!vars)
<1> SUFFICES ASSUME IInv, [Next]_vars, ~UNCHANGED <<state, attempts>>
             PROVE  Lifecycle!Next
  BY DEF Lifecycle!vars
<1>1. \A q \in Publications : attempts[q] \in Seq(Outcome) /\ Len(attempts[q]) \in Nat
  BY LenProperties DEF IInv, TypeOK
<1>2. PICK p \in Publications : state'[p] # state[p] \/ attempts'[p] # attempts[p]
  <2>1. state' \in [Publications -> PublicationState]
        /\ attempts' \in [Publications -> Seq(Outcome)]
    BY TypeStep DEF IInv, TypeOK
  <2> QED BY <2>1 DEF IInv, TypeOK
<1>3. ASSUME NEW lead \in LeadTimes, Schedule(p, lead)
      PROVE  Lifecycle!Schedule(p)
  BY <1>3 DEF Schedule, Lifecycle!Schedule, Lifecycle!Move
<1>4. ASSUME NEW w \in Workers, Claim(w), task[w].pub = p
      PROVE  Lifecycle!Try(p)
  <2>1. Len(attempts[p]) < MaxAttempts
    BY <1>4 DEF Claim, ClaimAs, Claimable, IInv, Consistent, AttemptsBounded
  <2>2. attempts' = [attempts EXCEPT ![p] = Append(attempts[p], Open)]
    BY <1>4 DEF Claim, ClaimAs
  <2>3. \A q \in Publications :
            Len(attempts'[q]) = IF q = p THEN Len(attempts[p]) + 1
                                ELSE Len(attempts[q])
    <3>1. Len(attempts'[p]) = Len(attempts[p]) + 1
      BY <1>1, <2>2, OpenAttempt DEF IInv, TypeOK
    <3>2. \A q \in Publications : q # p => attempts'[q] = attempts[q]
      BY <2>2 DEF IInv, TypeOK
    <3> QED BY <3>1, <3>2
  <2>4. Lifecycle!Move(p, "SCHEDULED", "PUBLISHING")
    BY <1>4 DEF Claim, ClaimAs, Claimable, Lifecycle!Move
  <2> QED BY <2>1, <2>3, <2>4 DEF Lifecycle!Try
<1>5. ASSUME NEW w \in Workers, Record(w), task[w].pub = p
      PROVE  Lifecycle!Retry(p) \/ Lifecycle!End(p)
  <2>1. /\ task[w] \in Delivering
        /\ state[p] = "PUBLISHING"
        /\ task[w].attempt = Len(attempts[p])
    BY <1>5, RecordFindsPublishing
  <2>2. PICK n \in Nat \ {0} : n = task[w].attempt
    BY <2>1, HeldTask
  <2>3. PICK o \in Outcome : attempts' = [attempts EXCEPT ![p][n] = o]
    BY <1>5, <2>2 DEF Record, RecordSuccess, RecordRetry, RecordFailure, Outcome
  <2>4. attempts'[p] = [attempts[p] EXCEPT ![n] = o]
        /\ \A q \in Publications : q # p => attempts'[q] = attempts[q]
    BY <2>3 DEF IInv, TypeOK
  <2>5. n \in 1..Len(attempts[p])
    BY <1>1, <2>1, <2>2
  <2>6. \A q \in Publications : Len(attempts'[q]) = Len(attempts[q])
    BY <1>1, <2>4, <2>5, ExceptSeq
  <2>7. CASE RecordSuccess(w)
    BY <1>5, <2>1, <2>6, <2>7 DEF RecordSuccess, Lifecycle!End, Lifecycle!Move
  <2>8. CASE RecordFailure(w)
    BY <1>5, <2>1, <2>6, <2>8 DEF RecordFailure, Lifecycle!End, Lifecycle!Move
  <2>9. CASE RecordRetry(w)
    BY <1>5, <2>1, <2>6, <2>9
       DEF RecordRetry, ShouldRetry, Lifecycle!Retry, Lifecycle!Move
  <2> QED BY <1>5, <2>7, <2>8, <2>9 DEF Record
<1> QED BY <1>2, <1>3, <1>4, <1>5, WritesOfStep DEF Lifecycle!Next

\* Queue, workers, clock, faults and Meta together are invisible to the owner of
\* a publication: what happens to it is one bounded sequence of attempts.
THEOREM DeliveryImplementsLifecycle == Spec => ImplementsLifecycle
BY LifecycleInit, LifecycleStep, Invariant, PTL
   DEF Spec, ImplementsLifecycle, Lifecycle!Spec
=============================================================================
