------------------------ MODULE MetaConnectionsProofs ------------------------
(***************************************************************************)
(* Theorems about MetaConnections, for every number of journeys, brands,    *)
(* accounts, channels and threads.  The argument: a journey is in the hands *)
(* of one callback at a time, because the state's row lock is held until    *)
(* the state is spent and nobody consumes a spent one; and an account row   *)
(* that is being stored is held by one transaction of the row's own brand.  *)
(***************************************************************************)
EXTENDS MetaConnections, TLAPS

Busy(t) == txn[t] # Idle

\* A callback in progress has not stored anything; it has spent its state as soon
\* as it holds the row no more.
CallbacksAreNew ==
    \A t \in Threads : Busy(t) =>
        /\ opened[txn[t].journey] # None
        /\ stored[txn[t].journey] = 0
        /\ txn[t].step = "consuming" <=> txn[t].journey \notin used

OneCallback ==
    \A t, u \in Threads : Busy(t) /\ Busy(u) /\ txn[t].journey = txn[u].journey => t = u

\* An account is stored by one transaction, and for its own brand.
OneStorer ==
    \A t \in Threads : At(t, "storing") =>
        /\ OfItsBrand(t)
        /\ \A u \in Threads : At(u, "storing") /\ txn[u].account = txn[t].account => t = u

SpentWereOpened == \A j \in used : opened[j] # None

\* A token comes from a journey that has stored it.
TokensWereStored ==
    \A p \in Connections : connection[p] # None /\ connection[p].grant # None =>
        stored[connection[p].grant] > 0

\* What a request has read is a connection of its brand.
RequestsStayInBrand ==
    \A t \in Threads : request[t] # None =>
        account[request[t].connection[1]] = request[t].brand

\* No row is ever deleted.
ListedExist == \A p \in listed : connection[p] # None

IInv ==
    /\ TypeOK /\ ListedExist
    /\ CallbacksAreNew /\ OneCallback /\ OneStorer
    /\ SpentWereOpened /\ TokensWereStored
    /\ StatesConnectOnce /\ TokensStayInBrand
    /\ RequestsStayInBrand /\ PublicationsStayInBrand

\* The initial state satisfies the invariant.
LEMMA InitInv == Init => IInv
<1> SUFFICES ASSUME Init PROVE IInv
  OBVIOUS
<1>1. TypeOK
  BY NoneAssumption, PromotedAssumption DEF Init, TypeOK, Row, Connections
<1>2. \A t \in Threads : ~Busy(t) /\ \A s : At(t, s) => FALSE
  BY DEF Init, Busy, At
<1>3. \A p \in Connections : connection[p] # None => connection[p].grant = None
  BY DEF Init
<1> QED
  BY <1>1, <1>2, <1>3 DEF Init, IInv, ListedExist, CallbacksAreNew, OneCallback, OneStorer,
     SpentWereOpened, TokensWereStored, StatesConnectOnce, TokensStayInBrand,
     RequestsStayInBrand, PublicationsStayInBrand

\* What the record of a callback holds at each of its steps.
LEMMA CallbackKinds ==
    ASSUME TypeOK, NEW t \in Threads, Busy(t)
    PROVE  /\ txn[t].journey \in Journeys
           /\ At(t, "consuming") \/ At(t, "connecting") => txn[t] \in Consumption
           /\ At(t, "persisting") \/ At(t, "storing") =>
                /\ txn[t] \in Persistence
                /\ txn[t].account \in Accounts /\ txn[t].channels \subseteq Channels
BY DEF TypeOK, Busy, At, Consumption, Persistence, Idle

\* Steps that change at most what one callback is doing, and the state it has
\* spent: starting, moving on and ending.
Begins(t) ==
    \E j \in Journeys :
        /\ ~Busy(t) /\ opened[j] # None /\ j \notin used
        /\ \A u \in Threads : Busy(u) => txn[u].journey # j
        /\ txn' = [txn EXCEPT ![t] = [step |-> "consuming", journey |-> j]]
        /\ used' = used

GoesOn(t) ==
    /\ Busy(t)
    /\ \E x \in Consumption \cup Persistence :
        /\ txn' = [txn EXCEPT ![t] = x]
        /\ x.journey = txn[t].journey
        /\ x.step # "consuming"
        /\ used' = used \cup {x.journey}
        /\ x.step = "storing" =>
              /\ account[x.account] \in {None, opened[x.journey]}
              /\ \A u \in Threads : At(u, "storing") => txn[u].account # x.account

Ends(t) ==
    /\ Busy(t)
    /\ txn' = [txn EXCEPT ![t] = Idle]
    /\ used' = used

\* A state that is usable and not being consumed is in nobody's hands.
LEMMA FreshIsFree ==
    ASSUME IInv, NEW j \in Journeys, Unheld(j), Fresh(j)
    PROVE  \A u \in Threads : Busy(u) => txn[u].journey # j
BY DEF IInv, CallbacksAreNew, Unheld, Fresh, Busy

\* Every step of a callback but Persist is of one of those kinds.
LEMMA CallbackSteps ==
    ASSUME IInv, NEW t \in Threads, Callback(t), ~Persist(t)
    PROVE  /\ Begins(t) \/ GoesOn(t) \/ Ends(t)
           /\ UNCHANGED <<opened, expired, rows, request, listed, scheduled, stored>>
<1>0. TypeOK BY DEF IInv
<1>1. CASE Spend(t)
  <2>1. Busy(t) /\ txn[t] \in Consumption BY <1>0, <1>1, CallbackKinds DEF Spend, At, Busy
  <2> DEFINE x == [txn[t] EXCEPT !.step = "connecting"]
  <2>2. x \in Consumption /\ x.journey = txn[t].journey /\ x.step = "connecting"
    BY <2>1 DEF Consumption
  <2>3. txn' = [txn EXCEPT ![t] = x] BY <1>0, <1>1 DEF Spend, TypeOK
  <2> QED BY <1>1, <2>1, <2>2, <2>3 DEF Spend, GoesOn, rows
<1>2. ASSUME NEW a \in Accounts, NEW cs \in SUBSET Channels, Connect(t, a, cs)
      PROVE  GoesOn(t) /\ UNCHANGED <<opened, expired, rows, request, listed, scheduled, stored>>
  <2>1. Busy(t) /\ txn[t].journey \in Journeys BY <1>0, <1>2, CallbackKinds DEF Connect, At, Busy
  <2>2. txn[t].journey \in used
    BY <1>2, <2>1 DEF Connect, At, IInv, CallbacksAreNew
  <2> DEFINE x == [step |-> "persisting", journey |-> txn[t].journey, account |-> a, channels |-> cs]
  <2>3. x \in Persistence /\ x.journey = txn[t].journey /\ x.step = "persisting"
    BY <2>1 DEF Persistence
  <2>4. used' = used \cup {x.journey} BY <1>2, <2>2 DEF Connect, states
  <2> QED BY <1>2, <2>1, <2>3, <2>4 DEF Connect, GoesOn, states, rows
<1>3. CASE LockAccount(t)
  <2>1. Busy(t) /\ txn[t] \in Persistence BY <1>0, <1>3, CallbackKinds DEF LockAccount, At, Busy
  <2>2. txn[t].journey \in used
    BY <1>3, <2>1 DEF LockAccount, At, IInv, CallbacksAreNew
  <2> DEFINE x == [txn[t] EXCEPT !.step = "storing"]
  <2>3. x \in Persistence /\ x.journey = txn[t].journey /\ x.account = txn[t].account /\ x.step = "storing"
    BY <2>1 DEF Persistence
  <2>4. txn' = [txn EXCEPT ![t] = x] BY <1>0, <1>3 DEF LockAccount, TypeOK
  <2>5. used' = used \cup {x.journey} BY <1>3, <2>2, <2>3 DEF LockAccount, states
  <2>6. /\ account[x.account] \in {None, opened[x.journey]}
        /\ \A u \in Threads : At(u, "storing") => txn[u].account # x.account
    BY <1>3, <2>3 DEF LockAccount, OfItsBrand
  <2>7. UNCHANGED <<opened, expired, rows, request, listed, scheduled, stored>>
    BY <1>3 DEF LockAccount, states, rows
  <2> HIDE DEF x
  <2> QED BY <2>1, <2>3, <2>4, <2>5, <2>6, <2>7 DEF GoesOn
<1>4. ASSUME NEW j \in Journeys, Consume(t, j)
      PROVE  Begins(t) /\ UNCHANGED <<opened, expired, rows, request, listed, scheduled, stored>>
  <2>1. \A u \in Threads : Busy(u) => txn[u].journey # j
    BY <1>4, FreshIsFree DEF Consume
  <2> QED BY <1>4, <2>1 DEF Consume, Begins, Busy, Fresh, states, rows
<1>5. CASE ConnectFails(t) \/ RefuseAccount(t) \/ Die(t)
  BY <1>5 DEF ConnectFails, RefuseAccount, Die, Close, At, Ends, Busy, states, rows
<1> QED BY <1>1, <1>2, <1>3, <1>4, <1>5 DEF Callback

\* Such a step keeps the invariant.
LEMMA CallbackStepInv ==
    ASSUME IInv, NEW t \in Threads, Begins(t) \/ GoesOn(t) \/ Ends(t),
           UNCHANGED <<opened, expired, rows, request, listed, scheduled, stored>>
    PROVE  IInv'
<1>0. TypeOK /\ CallbacksAreNew /\ OneCallback /\ OneStorer BY DEF IInv
<1>1. PICK x \in Consumption \cup Persistence \cup {Idle} :
          /\ txn' = [txn EXCEPT ![t] = x]
          /\ x # Idle => /\ x.journey \in Journeys
                         /\ opened[x.journey] # None /\ stored[x.journey] = 0
                         /\ x.step = "consuming" <=> x.journey \notin used'
                         /\ \A u \in Threads \ {t} : Busy(u) => txn[u].journey # x.journey
          /\ x # Idle /\ x.step = "storing" =>
                /\ account[x.account] \in {None, opened[x.journey]}
                /\ \A u \in Threads : At(u, "storing") => txn[u].account # x.account
  <2>1. CASE Begins(t)
    <3>1. PICK j \in Journeys :
              /\ ~Busy(t) /\ opened[j] # None /\ j \notin used
              /\ \A u \in Threads : Busy(u) => txn[u].journey # j
              /\ txn' = [txn EXCEPT ![t] = [step |-> "consuming", journey |-> j]]
              /\ used' = used
      BY <2>1 DEF Begins
    <3>2. stored[j] = 0 BY <1>0, <3>1 DEF IInv, StatesConnectOnce, TypeOK
    <3> DEFINE y == [step |-> "consuming", journey |-> j]
    <3>3. y \in Consumption /\ y.step = "consuming" /\ y.journey = j BY DEF Consumption
    <3> QED BY <3>1, <3>2, <3>3
  <2>2. CASE GoesOn(t)
    <3>1. PICK y \in Consumption \cup Persistence :
              /\ txn' = [txn EXCEPT ![t] = y]
              /\ y.journey = txn[t].journey
              /\ y.step # "consuming"
              /\ used' = used \cup {y.journey}
              /\ y.step = "storing" =>
                    /\ account[y.account] \in {None, opened[y.journey]}
                    /\ \A u \in Threads : At(u, "storing") => txn[u].account # y.account
      BY <2>2 DEF GoesOn
    <3>2. Busy(t) /\ txn[t].journey \in Journeys BY <1>0, <2>2, CallbackKinds DEF GoesOn
    <3>3. /\ opened[y.journey] # None /\ stored[y.journey] = 0
          /\ \A u \in Threads \ {t} : Busy(u) => txn[u].journey # y.journey
      BY <1>0, <3>1, <3>2 DEF CallbacksAreNew, OneCallback
    <3>4. y.step = "consuming" <=> y.journey \notin used' BY <3>1
    <3> QED BY <3>1, <3>2, <3>3, <3>4
  <2>3. CASE Ends(t) BY <2>3 DEF Ends
  <2> QED BY <2>1, <2>2, <2>3
<1>2. \A u \in Threads : txn'[u] = IF u = t THEN x ELSE txn[u] BY <1>0, <1>1 DEF TypeOK
<1>3. used \subseteq used' /\ used' \subseteq Journeys /\ \A j \in used' : opened[j] # None
  <2>1. CASE GoesOn(t)
    BY <1>0, <2>1, CallbackKinds DEF GoesOn, IInv, SpentWereOpened, CallbacksAreNew, TypeOK
  <2> QED BY <1>0, <2>1 DEF Begins, Ends, IInv, SpentWereOpened, TypeOK
<1>4. TypeOK' BY <1>0, <1>1, <1>3 DEF TypeOK, rows
<1>5. CallbacksAreNew'
  <2>1. ASSUME NEW u \in Threads, u # t, Busy(u)
        PROVE  txn[u].step = "consuming" <=> txn[u].journey \notin used'
    <3>1. txn[u].journey \in used' => txn[u].journey \in used
      BY <1>0, <2>1 DEF Begins, GoesOn, Ends, OneCallback
    <3> QED BY <1>0, <1>3, <2>1, <3>1 DEF CallbacksAreNew
  <2> QED BY <1>0, <1>1, <1>2, <2>1 DEF CallbacksAreNew, Busy
<1>6. OneCallback' BY <1>0, <1>1, <1>2 DEF OneCallback, Busy
<1>7. OneStorer' BY <1>0, <1>1, <1>2 DEF OneStorer, OfItsBrand, At, rows
<1>8. SpentWereOpened' BY <1>3 DEF SpentWereOpened
<1>9. StatesConnectOnce' BY <1>3 DEF IInv, StatesConnectOnce
<1>10. /\ TokensWereStored' /\ TokensStayInBrand' /\ ListedExist'
       /\ RequestsStayInBrand' /\ PublicationsStayInBrand'
  BY DEF IInv, ListedExist, TokensWereStored, TokensStayInBrand, RequestsStayInBrand,
     PublicationsStayInBrand, rows
<1> QED BY <1>4, <1>5, <1>6, <1>7, <1>8, <1>9, <1>10 DEF IInv

\* The transaction that stores an account keeps the invariant.
LEMMA PersistInv ==
    ASSUME IInv, NEW t \in Threads, Persist(t)
    PROVE  IInv'
<1>0. TypeOK /\ CallbacksAreNew /\ OneCallback /\ OneStorer BY DEF IInv
<1> DEFINE j == txn[t].journey
           a == txn[t].account
<1>1. /\ Busy(t) /\ At(t, "storing") /\ txn[t].step = "storing"
      /\ j \in Journeys /\ a \in Accounts /\ txn[t].channels \subseteq Channels
  BY <1>0, CallbackKinds DEF Persist, At, Busy
<1>2. /\ opened[j] \in Brands /\ stored[j] = 0 /\ j \in used
      /\ account[a] \in {None, opened[j]}
  BY <1>0, <1>1 DEF CallbacksAreNew, OneStorer, OfItsBrand, TypeOK
<1>3. /\ txn' = [txn EXCEPT ![t] = Idle]
      /\ account' = [account EXCEPT ![a] = opened[j]]
      /\ stored' = [stored EXCEPT ![j] = @ + 1]
      /\ UNCHANGED <<opened, used, expired, request, listed, scheduled>>
  BY DEF Persist, Close, states
<1>4. \A p \in Connections :
        \/ connection'[p] = connection[p]
        \/ p[1] = a /\ connection'[p] = [active |-> TRUE, grant |-> j]
  BY DEF Persist
<1>5. connection' \in [Connections -> Row \cup {None}]
  <2>1. [active |-> TRUE, grant |-> j] \in Row BY <1>1 DEF Row
  <2> QED BY <1>0, <2>1 DEF Persist, TypeOK
<1> HIDE DEF j, a
<1>6. /\ \A u \in Threads : txn'[u] = IF u = t THEN Idle ELSE txn[u]
      /\ \A b \in Accounts : account'[b] = IF b = a THEN opened[j] ELSE account[b]
      /\ \A k \in Journeys : stored'[k] = IF k = j THEN 1 ELSE stored[k]
  BY <1>0, <1>1, <1>2, <1>3 DEF TypeOK
<1>7. TypeOK' BY <1>0, <1>1, <1>2, <1>3, <1>5 DEF TypeOK
<1>8. CallbacksAreNew'
  <2>1. \A u \in Threads : u # t /\ Busy(u) => txn[u].journey \in Journeys \ {j}
    BY <1>0, <1>1, CallbackKinds DEF OneCallback, j
  <2> QED BY <1>0, <1>3, <1>6, <2>1 DEF CallbacksAreNew, Busy
<1>9. OneCallback' BY <1>0, <1>6 DEF OneCallback, Busy
<1>10. OneStorer'
  <2>1. ASSUME NEW u \in Threads, u # t, At(u, "storing")
        PROVE  txn[u].account \in Accounts \ {a}
    BY <1>0, <1>1, <2>1, CallbackKinds DEF OneStorer, a, At, Busy
  <2> QED BY <1>0, <1>3, <1>6, <2>1 DEF OneStorer, At, OfItsBrand
<1>11. SpentWereOpened' BY <1>3 DEF IInv, SpentWereOpened
<1>12. StatesConnectOnce'
  BY <1>2, <1>3, <1>6 DEF IInv, StatesConnectOnce
<1>13. ASSUME NEW p \in Connections, connection[p] # None, connection[p].grant # None
       PROVE  /\ connection[p].grant \in Journeys
              /\ stored[connection[p].grant] > 0
              /\ opened[connection[p].grant] = account[p[1]]
              /\ account[p[1]] # None
  <2>1. connection[p] \in Row BY <1>0, <1>13 DEF TypeOK
  <2>2. connection[p].grant \in Journeys BY <1>13, <2>1 DEF Row
  <2> QED
    BY <1>13, <2>2 DEF IInv, TokensWereStored, TokensStayInBrand, StatesConnectOnce,
       SpentWereOpened
<1>14. TokensWereStored'
  BY <1>1, <1>4, <1>6, <1>13 DEF TokensWereStored
<1>15. TokensStayInBrand'
  <2> SUFFICES ASSUME NEW p \in Connections, connection'[p] # None, connection'[p].grant # None
               PROVE  opened[connection'[p].grant] = account'[p[1]]
    BY <1>3 DEF TokensStayInBrand
  <2>1. p[1] \in Accounts BY DEF Connections
  <2>2. CASE p[1] = a /\ connection'[p] = [active |-> TRUE, grant |-> j]
    BY <1>6, <2>1, <2>2
  <2>3. CASE connection'[p] = connection[p]
    BY <1>2, <1>6, <1>13, <2>1, <2>3
  <2> QED BY <1>4, <2>2, <2>3
<1>16. PublicationsStayInBrand'
  <2> SUFFICES ASSUME NEW s \in scheduled PROVE account'[s.connection[1]] = s.brand
    BY <1>3 DEF PublicationsStayInBrand
  <2>1. /\ s.connection[1] \in Accounts /\ s.brand # None
        /\ account[s.connection[1]] = s.brand
    BY <1>0, NoneAssumption DEF TypeOK, Request, Connections, IInv, PublicationsStayInBrand
  <2> QED BY <1>2, <1>6, <2>1
<1>17. RequestsStayInBrand'
  <2> SUFFICES ASSUME NEW u \in Threads, request[u] # None
               PROVE  account'[request[u].connection[1]] = request[u].brand
    BY <1>3 DEF RequestsStayInBrand
  <2>1. request[u] \in Request BY <1>0 DEF TypeOK
  <2>2. /\ request[u].connection[1] \in Accounts /\ request[u].brand # None
        /\ account[request[u].connection[1]] = request[u].brand
    BY <2>1, NoneAssumption DEF Request, Connections, IInv, RequestsStayInBrand
  <2> QED BY <1>2, <1>6, <2>2
<1>18. ListedExist'
  <2> DEFINE stored_row == [active |-> TRUE, grant |-> j]
  <2>1. stored_row \in Row BY <1>1 DEF Row
  <2>2. stored_row # None BY <2>1, NoneAssumption DEF Row
  <2>3. \A p \in Connections : connection'[p] \in {connection[p], stored_row} BY <1>4
  <2> HIDE DEF stored_row
  <2> QED BY <1>0, <1>3, <2>2, <2>3 DEF IInv, ListedExist, TypeOK
<1> QED
  BY <1>7, <1>8, <1>9, <1>10, <1>11, <1>12, <1>14, <1>15, <1>16, <1>17, <1>18 DEF IInv

\* A state that is issued had no brand, so nothing that has one is disturbed.
LEMMA StartInv ==
    ASSUME IInv, NEW j \in Journeys, NEW b \in Brands, Start(j, b)
    PROVE  IInv'
<1>0. TypeOK /\ CallbacksAreNew /\ OneStorer /\ SpentWereOpened BY DEF IInv
<1>1. /\ opened[j] = None
      /\ UNCHANGED <<used, expired, account, connection, txn, request, listed, scheduled, stored>>
      /\ \A k \in Journeys : opened'[k] = IF k = j THEN b ELSE opened[k]
      /\ opened' \in [Journeys -> Brands \cup {None}]
  BY <1>0 DEF Start, TypeOK, rows
<1>2. b # None BY NoneAssumption
<1>3. TypeOK' BY <1>0, <1>1 DEF TypeOK
<1>4. \A t \in Threads : Busy(t) => txn[t].journey \in Journeys \ {j}
  BY <1>0, <1>1, CallbackKinds DEF CallbacksAreNew
<1>5. CallbacksAreNew' BY <1>0, <1>1, <1>4 DEF CallbacksAreNew, Busy
<1>6. OneStorer' BY <1>0, <1>1, <1>4 DEF OneStorer, OfItsBrand, At, Busy
<1>7. SpentWereOpened' BY <1>0, <1>1, <1>2 DEF SpentWereOpened, TypeOK
<1>8. TokensStayInBrand'
  <2> SUFFICES ASSUME NEW p \in Connections, connection[p] # None, connection[p].grant # None
               PROVE  opened'[connection[p].grant] = account[p[1]]
    BY <1>1 DEF TokensStayInBrand
  <2>1. connection[p] \in Row BY <1>0 DEF TypeOK
  <2>2. connection[p].grant \in Journeys /\ opened[connection[p].grant] # None
    BY <2>1 DEF Row, IInv, TokensWereStored, StatesConnectOnce, SpentWereOpened
  <2> QED BY <1>1, <2>2 DEF IInv, TokensStayInBrand
<1> QED
  BY <1>1, <1>3, <1>5, <1>6, <1>7, <1>8 DEF IInv, ListedExist, OneCallback, TokensWereStored,
     StatesConnectOnce, RequestsStayInBrand, PublicationsStayInBrand, Busy

\* A request that has read a connection schedules it, or drops it.
LEMMA RequestInv ==
    ASSUME IInv, NEW t \in Threads,
           \/ Schedule(t) \/ Abandon(t)
           \/ \E b \in Brands, p \in Connections : ReadConnection(t, b, p)
    PROVE  IInv'
<1>0. TypeOK BY DEF IInv
<1>1. UNCHANGED <<opened, used, expired, account, connection, txn, listed, stored>>
  BY DEF Schedule, Abandon, ReadConnection, callbacks, states, rows
<1>2. PICK x \in Request \cup {None} :
        /\ request' = [request EXCEPT ![t] = x]
        /\ x # None => account[x.connection[1]] = x.brand
  <2>1. ASSUME NEW b \in Brands, NEW p \in Connections, ReadConnection(t, b, p)
        PROVE  \E y \in Request :
                 request' = [request EXCEPT ![t] = y] /\ account[y.connection[1]] = y.brand
    <3> DEFINE y == [brand |-> b, connection |-> p]
    <3>1. y \in Request /\ y.connection = p /\ y.brand = b BY DEF Request
    <3>2. request' = [request EXCEPT ![t] = y] /\ account[p[1]] = b BY <2>1 DEF ReadConnection
    <3> HIDE DEF y
    <3> QED BY <3>1, <3>2
  <2>2. CASE Schedule(t) \/ Abandon(t) BY <2>2 DEF Schedule, Abandon
  <2> QED BY <2>1, <2>2
<1>3. \A u \in Threads : request'[u] = IF u = t THEN x ELSE request[u]
  BY <1>0, <1>2 DEF TypeOK
<1>4. /\ scheduled' \subseteq Request
      /\ \A s \in scheduled' : s \in scheduled \/ account[s.connection[1]] = s.brand
  BY <1>0 DEF Schedule, Abandon, ReadConnection, TypeOK, IInv, RequestsStayInBrand
<1>5. TypeOK' BY <1>0, <1>1, <1>2, <1>4 DEF TypeOK
<1>6. RequestsStayInBrand' /\ PublicationsStayInBrand'
  BY <1>1, <1>2, <1>3, <1>4 DEF IInv, RequestsStayInBrand, PublicationsStayInBrand
<1> QED
  BY <1>1, <1>5, <1>6 DEF IInv, ListedExist, CallbacksAreNew, OneCallback, OneStorer,
     OfItsBrand, At, Busy, SpentWereOpened, TokensWereStored, StatesConnectOnce,
     TokensStayInBrand

\* The revoking command changes a flag, and time ends states: neither touches what
\* a callback or a request relies on.
LEMMA RestInv ==
    ASSUME IInv,
           \/ \E j \in Journeys : Expire(j)
           \/ ListPromoted \/ CommandDies
           \/ \E p \in Connections : Deactivate(p)
    PROVE  IInv'
<1>0. TypeOK BY DEF IInv
<1>1. UNCHANGED <<opened, used, account, txn, request, scheduled, stored>>
  BY DEF Expire, ListPromoted, CommandDies, Deactivate, callbacks, states, rows
<1>2. /\ connection' \in [Connections -> Row \cup {None}]
      /\ \A p \in Connections :
            /\ connection'[p] # None <=> connection[p] # None
            /\ connection'[p] # None => connection'[p].grant = connection[p].grant
  <2>1. ASSUME NEW p \in Connections, Deactivate(p)
        PROVE  <1>2!1 /\ <1>2!2
    <3>1. connection[p] \in Row BY <1>0, <2>1 DEF TypeOK, IInv, ListedExist, Deactivate
    <3> DEFINE x == [connection[p] EXCEPT !.active = FALSE]
    <3>2. x \in Row /\ x.grant = connection[p].grant BY <3>1 DEF Row
    <3>3. x # None /\ connection[p] # None BY <3>1, <3>2, NoneAssumption DEF Row
    <3>4. connection' = [connection EXCEPT ![p] = x] BY <2>1 DEF Deactivate
    <3> HIDE DEF x
    <3> QED BY <1>0, <3>2, <3>3, <3>4 DEF TypeOK
  <2>2. CASE UNCHANGED connection BY <1>0, <2>2 DEF TypeOK
  <2> QED BY <2>1, <2>2 DEF Expire, ListPromoted, CommandDies, callbacks, rows
<1>3. /\ expired' \subseteq Journeys /\ listed' \subseteq Connections
  BY <1>0, PromotedAssumption
     DEF Expire, ListPromoted, CommandDies, Deactivate, callbacks, states, TypeOK, Connections
<1>4. TypeOK' BY <1>0, <1>1, <1>2, <1>3 DEF TypeOK
<1>5. CallbacksAreNew' /\ OneCallback' /\ OneStorer' /\ SpentWereOpened' /\ StatesConnectOnce'
  BY <1>1 DEF IInv, CallbacksAreNew, OneCallback, OneStorer, OfItsBrand, At, Busy,
     SpentWereOpened, StatesConnectOnce
<1>6. TokensWereStored' /\ TokensStayInBrand'
  BY <1>1, <1>2 DEF IInv, TokensWereStored, TokensStayInBrand
<1>7. RequestsStayInBrand' /\ PublicationsStayInBrand'
  BY <1>1 DEF IInv, RequestsStayInBrand, PublicationsStayInBrand
<1>8. ListedExist'
  <2>1. \A p \in Connections : connection[p] # None => connection'[p] # None
    BY <1>2
  <2>2. \A p \in listed' : p \in Connections /\ connection[p] # None
    BY <1>0, <1>3, PromotedAssumption DEF IInv, ListedExist, Expire, ListPromoted, IsActive,
       CommandDies, Deactivate, callbacks, states, rows, TypeOK, Connections
  <2> QED BY <2>1, <2>2 DEF ListedExist
<1> QED BY <1>4, <1>5, <1>6, <1>7, <1>8 DEF IInv

\* The invariant is inductive.
LEMMA NextInv == IInv /\ [Next]_vars => IInv'
<1> SUFFICES ASSUME IInv, [Next]_vars PROVE IInv'
  OBVIOUS
<1>1. ASSUME NEW t \in Threads, Callback(t) PROVE IInv'
  <2>1. CASE Persist(t) BY <2>1, PersistInv
  <2>2. CASE ~Persist(t) BY <1>1, <2>2, CallbackSteps, CallbackStepInv
  <2> QED BY <2>1, <2>2
<1>2. ASSUME NEW j \in Journeys, NEW b \in Brands, Start(j, b) PROVE IInv'
  BY <1>2, StartInv
<1>3. CASE UNCHANGED vars
  <2>1. UNCHANGED <<opened, used, expired, account, connection, txn, request, listed, scheduled, stored>>
    BY <1>3 DEF vars, callbacks, states, rows
  <2> QED
    BY <2>1 DEF IInv, TypeOK, ListedExist, CallbacksAreNew, OneCallback, OneStorer, OfItsBrand, At, Busy,
       SpentWereOpened, TokensWereStored, StatesConnectOnce, TokensStayInBrand,
       RequestsStayInBrand, PublicationsStayInBrand
<1> QED BY <1>1, <1>2, <1>3, RequestInv, RestInv DEF Next

\* The invariant holds in every reachable state.
THEOREM Invariant == Spec => []IInv
BY InitInv, NextInv, PTL DEF Spec

\* Every reachable state is well typed.
THEOREM TypeCorrect == Spec => []TypeOK
<1>1. IInv => TypeOK BY DEF IInv
<1> QED BY <1>1, Invariant, PTL

\* consume_oauth_state: a spent state never stores connections a second time,
\* however many callbacks carry it and wherever they die.
THEOREM SpentStatesConnectOnce == Spec => []StatesConnectOnce
<1>1. IInv => StatesConnectOnce BY DEF IInv
<1> QED BY <1>1, Invariant, PTL

\* persist_meta_connections: the token of a journey is kept in the brand that
\* began it, although several brands connect one account at once.
THEOREM TokensKeepTheirBrand == Spec => []TokensStayInBrand
<1>1. IInv => TokensStayInBrand BY DEF IInv
<1> QED BY <1>1, Invariant, PTL

\* schedule_publication: what it has scheduled on a connection of the brand stays
\* on one, so the worker has nothing to test again.
THEOREM PublicationsKeepTheirBrand == Spec => []PublicationsStayInBrand
<1>1. IInv => PublicationsStayInBrand BY DEF IInv
<1> QED BY <1>1, Invariant, PTL

\* A revoked connection is active again only with a token it did not hold: the
\* journey that stores it had not stored anything, and the one whose token the
\* row held had.
THEOREM RevocationsAreNotReplayed == Spec => RevokedNeedsNewGrant
<1> DEFINE Reopened == \A p \in Connections :
        (connection[p] # None /\ ~connection[p].active /\ connection'[p].active) =>
            connection'[p].grant # connection[p].grant
<1>1. ASSUME IInv, [Next]_vars PROVE [Reopened]_vars
  <2> SUFFICES ASSUME NEW p \in Connections, connection[p] # None, Next,
                      ~connection[p].active, connection'[p].active
               PROVE  connection'[p].grant # connection[p].grant
    BY <1>1
  <2>0. TypeOK /\ connection[p] \in Row BY <1>1 DEF IInv, TypeOK
  <2>1. ASSUME NEW t \in Threads, Persist(t) PROVE connection'[p].grant # connection[p].grant
    <3>1. Busy(t) /\ stored[txn[t].journey] = 0
      BY <1>1, <2>1 DEF Persist, At, Busy, IInv, CallbacksAreNew
    <3>2. txn[t].journey \in Journeys BY <2>0, <3>1, CallbackKinds
    <3>3. connection'[p] = [active |-> TRUE, grant |-> txn[t].journey]
          \/ connection'[p] = connection[p]
      BY <2>1 DEF Persist
    <3>4. connection'[p].grant = txn[t].journey BY <3>3
    <3>5. connection[p].grant # None => stored[connection[p].grant] > 0
      BY <1>1 DEF IInv, TokensWereStored
    <3> QED BY <3>1, <3>2, <3>4, <3>5, NoneAssumption
  <2>2. ASSUME NEW q \in Connections, Deactivate(q) PROVE FALSE
    BY <2>0, <2>2 DEF Deactivate, TypeOK, Row
  <2>3. CASE UNCHANGED connection BY <2>3
  <2>4. ASSUME NEW t \in Threads, Callback(t), ~Persist(t) PROVE UNCHANGED connection
    BY <1>1, <2>4, CallbackSteps DEF rows
  <2> QED
    BY <2>1, <2>2, <2>3, <2>4 DEF Next, Start, Expire, ListPromoted, CommandDies, ReadConnection,
       Schedule, Abandon, callbacks, rows
<1> QED BY <1>1, Invariant, PTL DEF Spec, RevokedNeedsNewGrant

-----------------------------------------------------------------------------
\* The callbacks and the command implement ChannelDirectory.

\* States expire after they were issued, and the command lists what was copied.
DirectoryInv == (\A j \in expired : opened[j] # None) /\ listed \subseteq Promoted

\* Nobody takes the brand from a state, and what is listed was copied.
LEMMA DirectoryInvStep == IInv /\ DirectoryInv /\ [Next]_vars => DirectoryInv'
<1> SUFFICES ASSUME IInv, DirectoryInv, [Next]_vars PROVE DirectoryInv'
  OBVIOUS
<1>0. TypeOK BY DEF IInv
<1>1. ASSUME NEW t \in Threads, Callback(t) PROVE UNCHANGED <<opened, expired, listed>>
  <2>1. CASE Persist(t) BY <2>1 DEF Persist, Close, states
  <2>2. CASE ~Persist(t) BY <1>1, <2>2, CallbackSteps
  <2> QED BY <2>1, <2>2
<1>2. ASSUME NEW j \in Journeys, NEW b \in Brands, Start(j, b) PROVE DirectoryInv'
  BY <1>0, <1>2, NoneAssumption DEF Start, DirectoryInv, TypeOK
<1>3. ASSUME NEW j \in Journeys, Expire(j) PROVE DirectoryInv'
  BY <1>3 DEF Expire, DirectoryInv
<1> QED
  BY <1>1, <1>2, <1>3 DEF Next, DirectoryInv, ListPromoted, CommandDies, Deactivate,
     ReadConnection, Schedule, Abandon, callbacks, states, vars

\* A journey in a callback's hands is open.
LEMMA InHandIsOpen ==
    ASSUME IInv, NEW j \in Journeys, InHand(j)
    PROVE  Fate(j) = "open" /\ opened[j] \in Brands /\ stored[j] = 0
<1>1. PICK t \in Threads : Busy(t) /\ txn[t].journey = j
  BY DEF InHand, Busy
<1> QED BY <1>1 DEF IInv, CallbacksAreNew, Fate, TypeOK

\* A journey has the same fate if nothing that decides it changes.
LEMMA SameFate ==
    ASSUME NEW j \in Journeys, opened'[j] = opened[j], stored'[j] = stored[j],
           j \in used' \cup expired' <=> j \in used \cup expired,
           InHand(j)' <=> InHand(j)
    PROVE  Fate(j)' = Fate(j)
BY DEF Fate

\* A journey stays open in the hands of a callback, whatever is spent or expires.
LEMMA HeldFate ==
    ASSUME IInv, NEW j \in Journeys, opened'[j] = opened[j], stored'[j] = stored[j],
           InHand(j), InHand(j)'
    PROVE  Fate(j)' = Fate(j)
BY InHandIsOpen, NoneAssumption DEF Fate

\* The fate of every journey but j stays, and that of j becomes `to`.
LEMMA OneFate ==
    ASSUME NEW j \in Journeys, NEW to, Fate(j)' = to,
           \A k \in Journeys : k # j => Fate(k)' = Fate(k)
    PROVE  fate' = [fate EXCEPT ![j] = to]
BY DEF fate

\* Nothing that ChannelDirectory sees changes.
DirectoryUnchanged == UNCHANGED <<opened, fate, account, connection, picked, scheduled>>

\* The first transaction consumes a journey that is open, and it stays open.
LEMMA ConsumeDirected ==
    ASSUME IInv, NEW t \in Threads, NEW j \in Journeys, Consume(t, j)
    PROVE  DirectoryUnchanged
<1>0. TypeOK BY DEF IInv
<1>1. UNCHANGED <<opened, used, expired, account, connection, request, scheduled, stored>>
  BY DEF Consume, states, rows
<1>2. \A u \in Threads : txn'[u] = IF u = t THEN [step |-> "consuming", journey |-> j]
                                   ELSE txn[u]
  BY <1>0 DEF Consume, TypeOK
<1>3. \A k \in Journeys \ {j} : InHand(k)' <=> InHand(k)
  BY <1>2 DEF InHand, Consume, Idle
<1>4. Fate(j)' = Fate(j)
  BY <1>1 DEF Fate, Consume, Fresh
<1>5. \A k \in Journeys \ {j} : Fate(k)' = Fate(k)
  BY <1>1, <1>3, SameFate
<1> QED BY <1>1, <1>4, <1>5 DEF DirectoryUnchanged, fate, picked

\* A callback that goes on keeps its journey.
LEMMA GoesOnDirected ==
    ASSUME IInv, NEW t \in Threads, GoesOn(t),
           UNCHANGED <<opened, expired, rows, request, listed, scheduled, stored>>
    PROVE  DirectoryUnchanged
<1>0. TypeOK BY DEF IInv
<1>1. PICK x \in Consumption \cup Persistence :
          /\ txn' = [txn EXCEPT ![t] = x]
          /\ x.journey = txn[t].journey
          /\ used' = used \cup {x.journey}
  BY DEF GoesOn
<1>2. Busy(t) /\ txn[t].journey \in Journeys
  BY <1>0, CallbackKinds DEF GoesOn
<1>3. x # Idle
  BY DEF Consumption, Persistence, Idle
<1>4. \A u \in Threads : txn'[u] = IF u = t THEN x ELSE txn[u]
  BY <1>0, <1>1 DEF TypeOK
<1>5. \A k \in Journeys : InHand(k)' <=> InHand(k)
  BY <1>1, <1>2, <1>3, <1>4 DEF InHand, Busy
<1>6. InHand(x.journey)
  BY <1>1, <1>2 DEF InHand, Busy
<1>7. \A k \in Journeys : Fate(k)' = Fate(k)
  BY <1>1, <1>5, <1>6, SameFate, HeldFate
<1> QED BY <1>7 DEF DirectoryUnchanged, fate, picked, rows

\* A journey whose fate becomes "lost" was open, and nothing else happens.
LEMMA LoseDirected ==
    ASSUME UNCHANGED <<opened, account, connection, picked, scheduled>>, NEW j \in Journeys,
           Fate(j)' = Fate(j) \/ (Fate(j) = "open" /\ Fate(j)' = "lost"),
           \A k \in Journeys : k # j => Fate(k)' = Fate(k)
    PROVE  DirectoryUnchanged \/ Directory!Lose(j)
<1>1. CASE Fate(j)' = Fate(j)
  BY <1>1 DEF fate, DirectoryUnchanged
<1>2. CASE Fate(j) = "open" /\ Fate(j)' = "lost"
  <2>1. fate[j] = "open" /\ fate' = [fate EXCEPT ![j] = "lost"]
    BY <1>2, OneFate DEF fate
  <2> QED BY <2>1 DEF Directory!Lose, Directory!Turn, Directory!rows
<1> QED BY <1>1, <1>2

\* A callback that fails, is refused or dies loses its journey if the state is
\* spent or has expired meanwhile.
LEMMA EndsDirected ==
    ASSUME IInv, NEW t \in Threads, Ends(t),
           UNCHANGED <<opened, expired, rows, request, listed, scheduled, stored>>
    PROVE  DirectoryUnchanged \/ \E j \in Journeys : Directory!Lose(j)
<1>0. TypeOK /\ OneCallback BY DEF IInv
<1>1. PICK j \in Journeys : Busy(t) /\ j = txn[t].journey
  BY <1>0, CallbackKinds DEF Ends
<1>2. \A u \in Threads : txn'[u] = IF u = t THEN Idle ELSE txn[u]
  BY <1>0 DEF Ends, TypeOK
<1>3. \A k \in Journeys : k # j => (InHand(k)' <=> InHand(k))
  BY <1>1, <1>2 DEF InHand, Busy
<1>4. InHand(j)
  BY <1>1 DEF InHand, Busy
<1>5. Fate(j) = "open" /\ opened[j] # None /\ stored[j] = 0
  BY <1>4, InHandIsOpen, NoneAssumption
<1>6. Fate(j)' \in {"open", "lost"}
  BY <1>5 DEF Fate
<1>7. \A k \in Journeys : k # j => Fate(k)' = Fate(k)
  BY <1>3, SameFate DEF Ends
<1> QED BY <1>5, <1>6, <1>7, LoseDirected DEF rows, picked

\* The second transaction is Connect when it commits.
LEMMA PersistDirected ==
    ASSUME IInv, NEW t \in Threads, Persist(t)
    PROVE  \E j \in Journeys, a \in Accounts, cs \in SUBSET Channels : Directory!Connect(j, a, cs)
<1>0. TypeOK /\ OneCallback /\ OneStorer BY DEF IInv
<1>1. PICK j \in Journeys, a \in Accounts, cs \in SUBSET Channels :
        /\ Busy(t) /\ At(t, "storing")
        /\ j = txn[t].journey /\ a = txn[t].account /\ cs = txn[t].channels
  BY <1>0, CallbackKinds DEF Persist, At, Busy
<1>2. account[a] \in {None, opened[j]}
  BY <1>0, <1>1 DEF OneStorer, OfItsBrand
<1>3. /\ txn' = [txn EXCEPT ![t] = Idle]
      /\ account' = [account EXCEPT ![a] = opened[j]]
      /\ connection' = [p \in Connections |->
            IF p \in {a} \X cs THEN [active |-> TRUE, grant |-> j] ELSE connection[p]]
      /\ stored' = [stored EXCEPT ![j] = @ + 1]
      /\ UNCHANGED <<opened, used, expired, request, scheduled>>
  BY <1>1 DEF Persist, Close, states
<1>4. InHand(j)
  BY <1>1 DEF InHand, Busy
<1>5. Fate(j) = "open" /\ opened[j] # None /\ stored[j] = 0
  BY <1>4, InHandIsOpen, NoneAssumption
<1>6. Fate(j)' = "connected"
  BY <1>0, <1>3, <1>5 DEF Fate, TypeOK
<1>7. ASSUME NEW k \in Journeys, k # j PROVE Fate(k)' = Fate(k)
  <2>1. stored'[k] = stored[k]
    BY <1>0, <1>3, <1>7 DEF TypeOK
  <2>2. InHand(k)' <=> InHand(k)
    BY <1>0, <1>1, <1>3, <1>7 DEF InHand, Busy, TypeOK
  <2> QED BY <1>3, <2>1, <2>2, SameFate
<1>8. fate[j] = "open" /\ fate' = [fate EXCEPT ![j] = "connected"]
  BY <1>5, <1>6, <1>7, OneFate DEF fate
<1>9. Directory!Connect(j, a, cs)
  BY <1>2, <1>3, <1>8 DEF Directory!Connect, Directory!Turn, Directory!Connections, Connections, picked
<1> QED BY <1>9

\* start_meta_oauth is Start.
LEMMA StartDirected ==
    ASSUME IInv, DirectoryInv, NEW j \in Journeys, NEW b \in Brands, Start(j, b)
    PROVE  Directory!Start(j, b)
<1>0. TypeOK /\ SpentWereOpened BY DEF IInv
<1>1. /\ opened[j] = None
      /\ opened' = [opened EXCEPT ![j] = b]
      /\ UNCHANGED <<used, expired, account, connection, txn, request, scheduled, stored>>
  BY DEF Start, rows
<1>2. \A k \in Journeys : InHand(k)' <=> InHand(k)
  BY <1>1 DEF InHand
<1>3. j \notin used /\ j \notin expired /\ stored[j] = 0
  BY <1>0, <1>1 DEF DirectoryInv, SpentWereOpened, IInv, StatesConnectOnce, TypeOK
<1>4. Fate(j) = "unissued"
  BY <1>1 DEF Fate
<1>5. Fate(j)' = "open"
  BY <1>0, <1>1, <1>3, NoneAssumption DEF Fate, TypeOK
<1>6. \A k \in Journeys : k # j => Fate(k)' = Fate(k)
  BY <1>0, <1>1, <1>2, SameFate DEF TypeOK
<1>7. fate[j] = "unissued" /\ fate' = [fate EXCEPT ![j] = "open"]
  BY <1>4, <1>5, <1>6, OneFate DEF fate
<1> QED BY <1>1, <1>7 DEF Directory!Start, Directory!Turn, Directory!rows, picked

\* A state that expires loses its journey, unless a callback has consumed it.
LEMMA ExpireDirected ==
    ASSUME NEW j \in Journeys, Expire(j)
    PROVE  DirectoryUnchanged \/ Directory!Lose(j)
<1>1. /\ expired' = expired \cup {j}
      /\ UNCHANGED <<opened, used, account, connection, txn, request, scheduled, stored>>
  BY DEF Expire, rows
<1>2. \A k \in Journeys : InHand(k)' <=> InHand(k)
  BY <1>1 DEF InHand
<1>3. \A k \in Journeys : k # j => Fate(k)' = Fate(k)
  BY <1>1, <1>2, SameFate
<1>4. Fate(j)' = Fate(j) \/ (Fate(j) = "open" /\ Fate(j)' = "lost")
  BY <1>1, <1>2 DEF Fate
<1> QED BY <1>1, <1>3, <1>4, LoseDirected DEF picked

\* The steps of nobody's callback leave every fate as it is.
LEMMA FatesStand ==
    ASSUME UNCHANGED <<opened, used, expired, stored, txn>>
    PROVE  fate' = fate
<1>1. \A j \in Journeys : InHand(j)' <=> InHand(j)
  BY DEF InHand
<1> QED BY <1>1, SameFate DEF fate

\* A request of the view picks a connection, and schedules or drops what it picked.
LEMMA RequestDirected ==
    ASSUME IInv, NEW t \in Threads,
           \/ Schedule(t) \/ Abandon(t)
           \/ \E b \in Brands, p \in Connections : ReadConnection(t, b, p)
    PROVE  Directory!Next \/ DirectoryUnchanged
<1>0. TypeOK BY DEF IInv
<1>1. UNCHANGED <<opened, account, connection>> /\ fate' = fate
  BY FatesStand DEF Schedule, Abandon, ReadConnection, callbacks, states, rows
<1>2. ASSUME NEW b \in Brands, NEW p \in Connections, ReadConnection(t, b, p)
      PROVE  Directory!Next
  <2> DEFINE s == [brand |-> b, connection |-> p]
  <2>1. s # None BY NoneAssumption DEF Connections
  <2>2. \A u \in Threads : request'[u] = IF u = t THEN s ELSE request[u]
    BY <1>0, <1>2 DEF ReadConnection, TypeOK
  <2>3. request[t] = None BY <1>2 DEF ReadConnection
  <2> HIDE DEF s
  <2>4. picked' = picked \cup {s} BY <2>1, <2>2, <2>3 DEF picked
  <2>5. Directory!Pick(b, p)
    BY <1>1, <1>2, <2>4 DEF s, ReadConnection, IsActive, Directory!Pick, Directory!rows
  <2> QED BY <2>5 DEF Directory!Next, Directory!Connections, Connections
<1>3. CASE Schedule(t) \/ Abandon(t)
  <2> DEFINE s == request[t]
  <2>1. s # None /\ s \in picked BY <1>3 DEF Schedule, Abandon, picked
  <2>2. \A u \in Threads : request'[u] = IF u = t THEN None ELSE request[u]
    BY <1>0, <1>3 DEF Schedule, Abandon, TypeOK
  <2>3. picked' \in {picked, picked \ {s}}
    <3>1. CASE \E u \in Threads \ {t} : request[u] = s
      <4>1. picked' = picked BY <2>1, <2>2, <3>1 DEF picked
      <4> QED BY <4>1
    <3>2. CASE ~\E u \in Threads \ {t} : request[u] = s
      <4>1. picked' = picked \ {s} BY <2>1, <2>2, <3>2 DEF picked
      <4> QED BY <4>1
    <3> QED BY <3>1, <3>2
  <2>4. CASE Schedule(t)
    <3>1. Directory!Schedule(s)
      BY <1>1, <2>1, <2>3, <2>4 DEF Schedule, Directory!Schedule, Directory!rows
    <3> QED BY <2>1, <3>1 DEF Directory!Next
  <2>5. CASE Abandon(t) /\ picked' = picked \ {s}
    <3>1. Directory!Drop(s) BY <1>1, <2>5 DEF Abandon, Directory!Drop, Directory!rows
    <3> QED BY <2>1, <3>1 DEF Directory!Next
  <2>6. CASE Abandon(t) /\ picked' = picked
    BY <1>1, <2>6 DEF Abandon, DirectoryUnchanged
  <2> QED BY <1>3, <2>3, <2>4, <2>5, <2>6
<1> QED BY <1>2, <1>3

\* Every step is a step of ChannelDirectory or none.
LEMMA DirectoryStep ==
    IInv /\ DirectoryInv /\ [Next]_vars => [Directory!Next]_(Directory!vars)
<1> SUFFICES ASSUME IInv, DirectoryInv, [Next]_vars
             PROVE  Directory!Next \/ DirectoryUnchanged
  BY DEF DirectoryUnchanged, Directory!vars, Directory!rows
<1>1. ASSUME NEW t \in Threads, Callback(t) PROVE Directory!Next \/ DirectoryUnchanged
  <2>1. CASE Persist(t)
    BY <2>1, PersistDirected DEF Directory!Next
  <2>2. CASE ~Persist(t) /\ \E j \in Journeys : Consume(t, j)
    BY <2>2, ConsumeDirected
  <2>3. CASE ~Persist(t) /\ ~\E j \in Journeys : Consume(t, j)
    <3>1. ~Begins(t)
      BY <1>1, <2>3
         DEF Callback, Begins, Spend, ConnectFails, LockAccount, RefuseAccount, Die, Connect,
             At, Busy
    <3>2. GoesOn(t) \/ Ends(t)
      BY <1>1, <2>3, <3>1, CallbackSteps
    <3> QED BY <1>1, <2>3, <3>2, CallbackSteps, GoesOnDirected, EndsDirected
            DEF Directory!Next
  <2> QED BY <2>1, <2>2, <2>3
<1>2. ASSUME NEW j \in Journeys, Expire(j) PROVE Directory!Next \/ DirectoryUnchanged
  BY <1>2, ExpireDirected DEF Directory!Next
<1>3. ASSUME NEW j \in Journeys, NEW b \in Brands, Start(j, b) PROVE Directory!Next
  BY <1>3, StartDirected DEF Directory!Next
<1>4. CASE ListPromoted \/ CommandDies
  BY <1>4, FatesStand DEF ListPromoted, CommandDies, callbacks, states, rows, picked, DirectoryUnchanged
<1>5. ASSUME NEW p \in Connections, Deactivate(p) PROVE Directory!Next
  <2>1. p \in Promoted /\ connection[p] # None
    BY <1>5 DEF Deactivate, DirectoryInv, IInv, ListedExist
  <2>2. Directory!Revoke(p)
    BY <1>5, <2>1, FatesStand DEF Deactivate, states, picked, Directory!Revoke
  <2> QED BY <2>1, <2>2 DEF Directory!Next
<1>6. ASSUME NEW t \in Threads,
             \/ Schedule(t) \/ Abandon(t)
             \/ \E b \in Brands, p \in Connections : ReadConnection(t, b, p)
      PROVE  Directory!Next \/ DirectoryUnchanged
  BY <1>6, RequestDirected
<1>7. CASE UNCHANGED vars
  BY <1>7, FatesStand DEF vars, callbacks, states, rows, picked, DirectoryUnchanged
<1> QED BY <1>1, <1>2, <1>3, <1>4, <1>5, <1>6, <1>7 DEF Next

\* complete_meta_oauth, in two transactions with requests between them, and the
\* revoking command, row by row, implement ChannelDirectory.
THEOREM ConnectionsImplementDirectory == Spec => ImplementsDirectory
<1>1. Init => DirectoryInv /\ Directory!Init
  BY DEF Init, DirectoryInv, Directory!Init, Directory!Connections, Connections, fate, Fate, picked
<1>2. IInv /\ DirectoryInv /\ [Next]_vars => DirectoryInv' /\ [Directory!Next]_(Directory!vars)
  BY DirectoryInvStep, DirectoryStep
<1> QED BY <1>1, <1>2, Invariant, PTL DEF Spec, ImplementsDirectory, Directory!Spec
=============================================================================
