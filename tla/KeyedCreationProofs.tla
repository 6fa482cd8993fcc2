------------------------- MODULE KeyedCreationProofs -------------------------
(***************************************************************************)
(* Theorems about KeyedCreation, for every number of keys, contents and     *)
(* threads, and for both services.  The argument: an uncommitted row owns   *)
(* its key, so it is the only one, and no committed row has that key.       *)
(***************************************************************************)
EXTENDS KeyedCreation, TLAPS

Inserted(t) == txn[t] # Idle /\ txn[t].step = "inserted"

OwnsKey ==
    /\ \A t \in Threads : Inserted(t) => stored[txn[t].key] = None
    /\ \A t, u \in Threads : t # u /\ Inserted(t) /\ Inserted(u) =>
            txn[t].key # txn[u].key

IInv == TypeOK /\ CreatedOnce /\ CollisionMeansBound /\ OwnsKey

\* A thread that is not idle has a request.
LEMMA Busy ==
    ASSUME TypeOK, NEW t \in Threads, txn[t] # Idle
    PROVE  /\ txn[t] \in Txn
           /\ txn[t].key \in Keys
           /\ txn[t].content \in Contents
BY DEF TypeOK, Txn

\* Initially nothing is stored and nobody has asked.
LEMMA InitInv == Init => IInv
BY NoneAssumption
   DEF Init, IInv, TypeOK, CreatedOnce, CollisionMeansBound, OwnsKey, Inserted, Idle, Silent

\* The kinds of step, told by what they do to the database and to the answers.
Moves(t) ==
    /\ UNCHANGED <<database, answer>>
    /\ \E x \in Txn \cup {Idle} :
        /\ txn' = [txn EXCEPT ![t] = x]
        /\ Inserted(t)' => stored[txn'[t].key] = None
                           /\ \A u \in Threads \ {t} :
                                 Inserted(u) => txn[u].key # txn'[t].key

Ends(t) ==
    /\ txn' = [txn EXCEPT ![t] = Idle]
    /\ UNCHANGED database
    /\ \E k \in Keys, c \in Contents, s \in Statuses :
        /\ Respond(t, k, c, s)
        /\ s = "replayed" => stored[k] = c
        /\ s = "conflict" => stored[k] \in Contents \ {c}
        /\ s = "collided" => stored[k] # None
        /\ s # "created"

Commits(t) ==
    /\ Inserted(t)
    /\ stored[txn[t].key] = None
    /\ txn' = [txn EXCEPT ![t] = Idle]
    /\ \/ Respond(t, txn[t].key, txn[t].content, "created")
       \/ Respond(t, txn[t].key, txn[t].content, "failed")
       \/ UNCHANGED answer
    /\ stored' = [stored EXCEPT ![txn[t].key] = txn[t].content]
    /\ created' = [created EXCEPT ![txn[t].key] = @ + 1]

Idles == UNCHANGED <<database, txn, answer>>

\* A request that ends does so with an answer of one of those kinds.
LEMMA FinishEnds ==
    ASSUME IInv, NEW t \in Threads, NEW from, NEW s \in Statuses \ {"created"},
           Finish(t, from, s), UNCHANGED database,
           s = "replayed" => stored[txn[t].key] = txn[t].content,
           s = "conflict" => stored[txn[t].key] \in Contents \ {txn[t].content},
           s = "collided" => stored[txn[t].key] # None
    PROVE  Ends(t)
BY Busy DEF IInv, Finish, Ends

\* Every step of Next is of one of those kinds, and keeps the world well typed.
LEMMA StepKinds ==
    ASSUME IInv, Next
    PROVE  /\ fit' \subseteq Contents /\ late' \subseteq Contents /\ service' \in Services
           /\ Idles \/ \E t \in Threads : Moves(t) \/ Ends(t) \/ Commits(t)
<1> DEFINE Worlds == fit' \subseteq Contents /\ late' \subseteq Contents /\ service' \in Services
<1>0. TypeOK /\ OwnsKey BY DEF IInv
<1>1. CASE Environment
  BY <1>0, <1>1 DEF Environment, BecomeFit, BecomeUnfit, BecomeLate, Idles, TypeOK
<1>2. ASSUME NEW t \in Threads, Work(t)
      PROVE  Worlds /\ (Moves(t) \/ Ends(t) \/ Commits(t))
  <2>1. Worlds
    BY <1>0, <1>2 DEF Work, Replay, Conflict, RefuseScheduling, Miss, Insert, InsertFails,
       RefuseDraft, Commit, Store, GoTo, Finish, world, TypeOK
  <2>2. txn[t] # Idle
    BY <1>2 DEF Work, Replay, Conflict, RefuseScheduling, Miss, Insert, InsertFails,
       RefuseDraft, Commit, GoTo, Finish
  <2>3. txn[t] \in Txn /\ txn[t].key \in Keys /\ txn[t].content \in Contents
    BY <1>0, <2>2, Busy
  <2>4. stored[txn[t].key] \in Contents \cup {None}
    BY <1>0, <2>3 DEF TypeOK
  <2>5. CASE Replay(t)
    <3>1. Finish(t, "received", "replayed") BY <2>5 DEF Replay
    <3>. QED BY <2>1, <2>5, <3>1, FinishEnds DEF Replay, SameRequest, Statuses
  <2>6. CASE Conflict(t)
    <3>1. Finish(t, "received", "conflict") BY <2>6 DEF Conflict
    <3>. QED BY <2>1, <2>4, <2>6, <3>1, FinishEnds DEF Conflict, SameRequest, Statuses
  <2>7. CASE RefuseScheduling(t)
    <3>1. Finish(t, "received", "invalid") BY <2>7 DEF RefuseScheduling
    <3>. QED BY <2>1, <2>7, <3>1, FinishEnds DEF RefuseScheduling, Statuses
  <2>8. CASE InsertFails(t)
    <3>1. Finish(t, "inserting", "collided") BY <2>8 DEF InsertFails
    <3>. QED BY <2>1, <2>8, <3>1, FinishEnds DEF InsertFails, Statuses
  <2>9. CASE RefuseDraft(t)
    <3>1. Finish(t, "inserted", "invalid") BY <2>9 DEF RefuseDraft
    <3>. QED BY <2>1, <2>9, <3>1, FinishEnds DEF RefuseDraft, Statuses
  <2>10. CASE Commit(t)
    <3>1. Inserted(t) BY <2>10 DEF Commit, Finish, Inserted
    <3>2. stored[txn[t].key] = None BY <1>0, <3>1 DEF OwnsKey
    <3>. QED BY <2>1, <2>10, <3>1, <3>2 DEF Commit, Store, Finish, Commits
  <2>11. CASE Miss(t) \/ Insert(t)
    <3>1. PICK to \in {"inserting", "inserted"} :
              /\ txn' = [txn EXCEPT ![t].step = to]
              /\ UNCHANGED <<database, answer>>
              /\ to = "inserted" => Insert(t)
      BY <2>11 DEF Miss, Insert, GoTo, world
    <3> DEFINE x == [txn[t] EXCEPT !.step = to]
    <3>2. x \in Txn /\ x.key = txn[t].key /\ x.step = to BY <2>3 DEF Txn
    <3>3. txn' = [txn EXCEPT ![t] = x] /\ txn'[t] = x BY <1>0, <3>1 DEF TypeOK
    <3>4. to = "inserted" => stored[x.key] = None
                             /\ \A u \in Threads \ {t} : Inserted(u) => txn[u].key # x.key
      BY <3>1, <3>2 DEF Insert, Contended, Inserted
    <3>5. Inserted(t)' => to = "inserted" BY <3>2, <3>3 DEF Inserted
    <3>6. Moves(t) BY <3>1, <3>2, <3>3, <3>4, <3>5 DEF Moves
    <3>. QED BY <2>1, <3>6
  <2>. QED BY <1>2, <2>5, <2>6, <2>7, <2>8, <2>9, <2>10, <2>11 DEF Work
<1>3. ASSUME NEW t \in Threads, Fault(t)
      PROVE  Worlds /\ (Moves(t) \/ Ends(t) \/ Commits(t))
  <2>1. Worlds
    BY <1>0, <1>3 DEF Fault, CommitUnconfirmed, Fail, Die, DieCommitted, Abandon, Finish,
       world, TypeOK
  <2>2. CASE Die(t)
    <3>1. txn'[t] = Idle BY <1>0, <2>2 DEF Die, Abandon, TypeOK
    <3>2. ~Inserted(t)' BY <3>1 DEF Inserted
    <3>. QED BY <1>0, <2>1, <2>2, <3>2 DEF Die, Abandon, Moves, TypeOK
  <2>3. CASE Fail(t)
    <3>1. Finish(t, txn[t].step, "failed") /\ UNCHANGED database BY <2>3 DEF Fail
    <3>. QED BY <2>1, <3>1, FinishEnds DEF Statuses
  <2>4. CASE CommitUnconfirmed(t) \/ DieCommitted(t)
    <3>1. Inserted(t) BY <2>4 DEF CommitUnconfirmed, DieCommitted, Finish, Inserted
    <3>2. stored[txn[t].key] = None BY <1>0, <3>1 DEF OwnsKey
    <3>. QED BY <2>1, <2>4, <3>1, <3>2
             DEF CommitUnconfirmed, DieCommitted, Abandon, Store, Finish, Commits
  <2>. QED BY <1>3, <2>2, <2>3, <2>4 DEF Fault
<1>4. ASSUME NEW t \in Threads, NEW k \in Keys, NEW c \in Contents, Receive(t, k, c)
      PROVE  Worlds /\ Moves(t)
  <2> DEFINE x == [step |-> "received", key |-> k, content |-> c, fit |-> c \in fit]
  <2>1. x \in Txn /\ txn' = [txn EXCEPT ![t] = x] /\ UNCHANGED <<database, world, answer>>
    BY <1>4 DEF Receive, Txn
  <2>2. txn'[t] = x BY <1>0, <2>1 DEF TypeOK
  <2>3. ~Inserted(t)' BY <2>2 DEF Inserted
  <2>. QED BY <1>0, <2>1, <2>3 DEF Moves, world, TypeOK
<1>5. ASSUME NEW t \in Threads, NEW k \in Keys, NEW c \in Contents, RefuseLate(t, k, c)
      PROVE  Worlds /\ Ends(t)
  <2>1. txn' = [txn EXCEPT ![t] = Idle] BY <1>0, <1>5 DEF RefuseLate, TypeOK
  <2>. QED BY <1>0, <1>5, <2>1 DEF RefuseLate, Ends, Statuses, world, TypeOK
<1>. QED BY <1>1, <1>2, <1>3, <1>4, <1>5 DEF Next

\* The invariant is kept by every step.
LEMMA StepInv == IInv /\ [Next]_vars => IInv'
<1> SUFFICES ASSUME IInv, [Next]_vars PROVE IInv' OBVIOUS
<1>0. TypeOK /\ CreatedOnce /\ CollisionMeansBound /\ OwnsKey BY DEF IInv
<1>1. CASE UNCHANGED vars
  BY <1>0, <1>1 DEF vars, database, IInv, TypeOK, CreatedOnce, CollisionMeansBound, OwnsKey, Inserted
<1>2. CASE Next
  <2>0. fit' \subseteq Contents /\ late' \subseteq Contents /\ service' \in Services BY <1>2, StepKinds
  <2>1. CASE Idles
    BY <1>0, <2>0, <2>1 DEF Idles, database, IInv, TypeOK, CreatedOnce, CollisionMeansBound,
       OwnsKey, Inserted
  <2>2. ASSUME NEW t \in Threads, Moves(t) PROVE IInv'
    <3>1. PICK x \in Txn \cup {Idle} : txn' = [txn EXCEPT ![t] = x] BY <2>2 DEF Moves
    <3>2. UNCHANGED <<stored, created, answer>> BY <2>2 DEF Moves, database
    <3>3. TypeOK' BY <1>0, <2>0, <3>1, <3>2 DEF TypeOK
    <3>4. \A u \in Threads \ {t} : txn'[u] = txn[u] BY <1>0, <3>1 DEF TypeOK
    <3>5. Inserted(t)' => stored[txn'[t].key] = None
                          /\ \A u \in Threads \ {t} : Inserted(u) => txn[u].key # txn'[t].key
      BY <2>2 DEF Moves
    <3>6. OwnsKey' BY <1>0, <3>2, <3>4, <3>5 DEF OwnsKey, Inserted
    <3>7. CreatedOnce' /\ CollisionMeansBound'
      BY <1>0, <3>2 DEF CreatedOnce, CollisionMeansBound
    <3>. QED BY <3>3, <3>6, <3>7 DEF IInv
  <2>3. ASSUME NEW t \in Threads, Ends(t) PROVE IInv'
    <3>1. PICK k \in Keys, c \in Contents, s \in Statuses :
              Respond(t, k, c, s) /\ (s = "collided" => stored[k] # None)
      BY <2>3 DEF Ends
    <3>2. txn' = [txn EXCEPT ![t] = Idle] /\ UNCHANGED <<stored, created>>
      BY <2>3 DEF Ends, database
    <3>3. TypeOK' BY <1>0, <2>0, <3>1, <3>2 DEF TypeOK, Respond, Answer
    <3>4. OwnsKey' BY <1>0, <3>2 DEF OwnsKey, Inserted, TypeOK
    <3>5. CollisionMeansBound' BY <1>0, <3>1, <3>2 DEF CollisionMeansBound, Respond, TypeOK
    <3>6. CreatedOnce' BY <1>0, <3>2 DEF CreatedOnce
    <3>. QED BY <3>3, <3>4, <3>5, <3>6 DEF IInv
  <2>4. ASSUME NEW t \in Threads, Commits(t) PROVE IInv'
    <3> DEFINE k == txn[t].key
               c == txn[t].content
    <3>1. k \in Keys /\ c \in Contents BY <1>0, <2>4, Busy DEF Commits, Inserted
    <3>2. /\ stored[k] = None /\ c # None
          /\ txn' = [txn EXCEPT ![t] = Idle]
          /\ \/ \E s \in {"created", "failed"} : Respond(t, k, c, s)
             \/ UNCHANGED answer
          /\ stored' = [stored EXCEPT ![k] = c]
          /\ created' = [created EXCEPT ![k] = @ + 1]
      BY <2>4, <3>1, NoneAssumption DEF Commits
    <3> HIDE DEF k, c
    <3>3. TypeOK' BY <1>0, <2>0, <3>1, <3>2 DEF TypeOK, Respond, Answer, Statuses
    <3>4. CreatedOnce' BY <1>0, <3>1, <3>2 DEF CreatedOnce, TypeOK
    <3>5. CollisionMeansBound'
      BY <1>0, <3>1, <3>2 DEF CollisionMeansBound, Respond, TypeOK, Answer, Silent
    <3>6. OwnsKey'
      <4>1. \A u \in Threads : Inserted(u)' => u # t /\ Inserted(u) /\ txn'[u] = txn[u]
        BY <1>0, <3>2 DEF Inserted, TypeOK
      <4>2. \A u \in Threads : u # t /\ Inserted(u) => txn[u].key # k
        BY <1>0, <2>4 DEF OwnsKey, Commits, k
      <4>3. \A j \in Keys : j # k => stored'[j] = stored[j] BY <1>0, <3>2 DEF TypeOK
      <4>4. \A u \in Threads : Inserted(u) => txn[u].key \in Keys
        BY <1>0, Busy DEF Inserted
      <4>. QED BY <1>0, <4>1, <4>2, <4>3, <4>4 DEF OwnsKey
    <3>. QED BY <3>3, <3>4, <3>5, <3>6 DEF IInv
  <2>. QED BY <1>2, <2>1, <2>2, <2>3, <2>4, StepKinds
<1>. QED BY <1>1, <1>2

\* The strengthened invariant holds in every reachable state.
THEOREM Invariant == Spec => []IInv
BY InitInv, StepInv, PTL DEF Spec

\* Every reachable state is well typed.
THEOREM TypeCorrect == Spec => []TypeOK
<1>1. IInv => TypeOK BY DEF IInv
<1>. QED BY <1>1, Invariant, PTL

\* No key ever has two rows, however many requests race for it.
THEOREM KeysAreCreatedOnce == Spec => []CreatedOnce
<1>1. IInv => CreatedOnce BY DEF IInv
<1>. QED BY <1>1, Invariant, PTL

\* A unique violation is answered only for a key that is bound for good.
THEOREM CollisionsAreBound == Spec => []CollisionMeansBound
<1>1. IInv => CollisionMeansBound BY DEF IInv
<1>. QED BY <1>1, Invariant, PTL

\* Initially no key is bound.
LEMMA RegisterInit == Init => Register!Init
BY DEF Init, Register!Init, Silent

\* Every step is a step of the register, or none.
LEMMA RegisterStep == IInv /\ [Next]_vars => [Register!Next]_(Register!vars)
<1> SUFFICES ASSUME IInv, [Next]_vars PROVE [Register!Next]_(Register!vars) OBVIOUS
<1>0. TypeOK BY DEF IInv
<1>1. CASE UNCHANGED vars BY <1>1 DEF vars, database, Register!vars
<1>2. CASE Next
  <2>1. CASE Idles BY <2>1 DEF Idles, database, Register!vars
  <2>2. ASSUME NEW t \in Threads, Moves(t) PROVE UNCHANGED Register!vars
    BY <2>2 DEF Moves, database, Register!vars
  <2>3. ASSUME NEW t \in Threads, Ends(t) PROVE Register!Next
    <3>1. PICK k \in Keys, c \in Contents, s \in Statuses :
              /\ Respond(t, k, c, s)
              /\ s = "replayed" => stored[k] = c
              /\ s = "conflict" => stored[k] \in Contents \ {c}
              /\ s # "created"
      BY <2>3 DEF Ends
    <3>2. UNCHANGED stored BY <2>3 DEF Ends, database
    <3>3. Register!Say(t, k, c, s) BY <3>1 DEF Register!Say, Respond
    <3>4. \/ Register!Recall(t, k, c)
          \/ Register!Contradict(t, k, c)
          \/ Register!Refuse(t, k, c)
      BY <3>1, <3>2, <3>3
         DEF Register!Recall, Register!Contradict, Register!Refuse, Register!Refusals, Statuses
    <3>. QED BY <3>4 DEF Register!Next
  <2>4. ASSUME NEW t \in Threads, Commits(t) PROVE Register!Next
    <3>1. txn[t].key \in Keys /\ txn[t].content \in Contents
      BY <1>0, <2>4, Busy DEF Commits, Inserted
    <3>2. \/ Register!Bind(t, txn[t].key, txn[t].content)
          \/ Register!BindUnsaid(txn[t].key, txn[t].content)
      BY <2>4 DEF Commits, Register!Bind, Register!BindUnsaid, Register!Say, Respond
    <3>. QED BY <3>1, <3>2 DEF Register!Next
  <2>. QED BY <1>2, <2>1, <2>2, <2>3, <2>4, StepKinds
<1>. QED BY <1>1, <1>2

\* Keyed creation implements the atomic register of KeyRegister.
THEOREM CreationImplementsRegister == Spec => ImplementsRegister
BY RegisterInit, RegisterStep, Invariant, PTL DEF Spec, ImplementsRegister, Register!Spec
=============================================================================
