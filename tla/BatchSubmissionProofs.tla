------------------------ MODULE BatchSubmissionProofs ------------------------
(***************************************************************************)
(* Proofs about BatchSubmission, for every size of the manifest and any      *)
(* number of runs and failing calls.  A run has at most one call on the wire, *)
(* and a call on the wire says how far its run had come: with these two, the  *)
(* calls that stopped runs have left behind do no harm.                      *)
(***************************************************************************)
EXTENDS BatchSubmission, TLAPS

\* The key of an item's draft, and the row of an item's publication.
DraftKey(i) == [call |-> "draft", item |-> i, n |-> 1]
Row(i, c) ==
    [key |-> [call |-> "schedule", item |-> i, n |-> c], post |-> DraftKey(i),
     item |-> i, channel |-> c]

Uploads == {"intent", "put", "confirm"}

\* A call that the script makes.
Sound(q) ==
    /\ q \in Request
    /\ q.call \in Uploads => q.n \in 1 .. Slides
    /\ q.call \in {"draft", "approve"} => q.n = 1
    /\ q.call = "schedule" => q.n \in 1 .. Channels

\* The run of q has no image that q comes before.
UploadsReached(q) ==
    \A a \in DOMAIN assets :
        a.run = q.run =>
            \/ a.item < q.item
            \/ /\ a.item = q.item
               /\ q.call \in Uploads =>
                    a.slide < q.n \/ (a.slide = q.n /\ q.call # "intent")

\* What comes before q in the manifest is scheduled, by whichever run.
SchedulesReached(q) ==
    \A i \in 1 .. Items, c \in 1 .. Channels :
        i < q.item \/ (i = q.item /\ q.call = "schedule" /\ c < q.n) => Row(i, c) \in pubs

\* The invariant: the calls on the wire, ...
Wire ==
    /\ \A q \in wire : Sound(q) /\ q.run <= script.run
    /\ \A p, q \in wire : p.run = q.run => p = q
    /\ script.status = "waiting" => script.at \in wire /\ script.at.run = script.run
    /\ \A q \in wire : UploadsReached(q) /\ SchedulesReached(q)

\* ... the rows of the database, ...
Rows ==
    /\ \A a \in DOMAIN assets : a.run <= script.run /\ (assets[a] = "READY" => a \in objects)
    /\ \A p \in posts :
        \E i \in 1 .. Items, r \in 1 .. MaxRuns, s \in {"DRAFT", "APPROVED"} :
            p = [key |-> DraftKey(i), state |-> s,
                 images |-> [n \in 1 .. Slides |-> [run |-> r, item |-> i, slide |-> n]]]
    /\ \A p \in posts : \A n \in 1 .. Slides : p.images[n] \in DOMAIN assets
    /\ \A p \in pubs : \E i \in 1 .. Items, c \in 1 .. Channels : p = Row(i, c)
    /\ \A p \in pubs : \E x \in posts : x.key = p.post /\ x.state = "APPROVED"

\* ... and the end of a run.
Complete ==
    script.status = "done" =>
        \A i \in 1 .. Items, c \in 1 .. Channels : Row(i, c) \in pubs

IInv == TypeOK /\ Wire /\ Rows /\ Complete /\ InManifestOrder /\ PostsAreWhole


-----------------------------------------------------------------------------
\* Requests and images are records.
LEMMA RequestsAreRecords ==
    ASSUME NEW q \in Request
    PROVE  /\ q = [call |-> q.call, run |-> q.run, item |-> q.item, n |-> q.n]
           /\ q.call \in Calls /\ q.run \in 1 .. MaxRuns /\ q.item \in 1 .. Items
           /\ q.n \in 1 .. Slides + Channels
           /\ Items \in Nat \ {0} /\ Slides \in Nat \ {0} /\ Channels \in Nat \ {0}
           /\ MaxRuns \in Nat \ {0}
BY SizeAssumption DEF Request

\* The first call of a run, and the one after a call, are calls of the script.
LEMMA FirstIsSound ==
    ASSUME NEW r \in 1 .. MaxRuns
    PROVE  Sound(First(r)) /\ First(r).run = r
BY SizeAssumption DEF First, Sound, Request, Calls, Uploads

\* What follows a call: the next one of the same image, the next image or channel,
\* or the next item.
LEMMA AfterIs ==
    ASSUME NEW q, Sound(q), ~IsLast(q)
    PROVE  /\ Sound(After(q)) /\ After(q).run = q.run
           /\ \/ /\ After(q).item = q.item /\ After(q).n = q.n
                 /\ \/ q.call = "intent" /\ After(q).call = "put"
                    \/ q.call = "put" /\ After(q).call = "confirm"
                    \/ q.call = "draft" /\ After(q).call = "approve"
                    \/ q.call = "approve" /\ After(q).call = "schedule"
              \/ /\ q.call = "confirm" /\ After(q).call = "intent"
                 /\ After(q).item = q.item /\ After(q).n = q.n + 1
              \/ /\ q.call = "confirm" /\ After(q).call = "draft"
                 /\ After(q).item = q.item /\ q.n = Slides
              \/ /\ q.call = "schedule" /\ After(q).call = "schedule"
                 /\ After(q).item = q.item /\ After(q).n = q.n + 1
              \/ /\ q.call = "schedule" /\ q.n = Channels /\ After(q).call = "intent"
                 /\ After(q).item = q.item + 1 /\ After(q).n = 1
<1>1. q \in Request
  BY DEF Sound
<1>2. q = [call |-> q.call, run |-> q.run, item |-> q.item, n |-> q.n]
      /\ q.call \in Calls /\ q.run \in 1 .. MaxRuns /\ q.item \in 1 .. Items
      /\ q.n \in 1 .. Slides + Channels
      /\ Items \in Nat \ {0} /\ Slides \in Nat \ {0} /\ Channels \in Nat \ {0}
  BY <1>1, RequestsAreRecords
<1>3. CASE q.call = "intent"
  <2>1. After(q) = [call |-> "put", run |-> q.run, item |-> q.item, n |-> q.n]
    BY <1>2, <1>3 DEF After
  <2> QED
    BY <1>2, <1>3, <2>1 DEF Sound, Request, Calls, Uploads
<1>4. CASE q.call = "put"
  <2>1. After(q) = [call |-> "confirm", run |-> q.run, item |-> q.item, n |-> q.n]
    BY <1>2, <1>4 DEF After
  <2> QED
    BY <1>2, <1>4, <2>1 DEF Sound, Request, Calls, Uploads
<1>5. CASE q.call = "confirm" /\ q.n < Slides
  <2>0. q.n # Slides
    BY <1>2, <1>5
  <2>1. After(q) = [q EXCEPT !.call = "intent", !.n = @ + 1]
    BY <1>2, <1>5, <2>0 DEF After
  <2>2. After(q) = [call |-> "intent", run |-> q.run, item |-> q.item, n |-> q.n + 1]
    BY <1>2, <2>1
  <2> QED
    BY <1>2, <1>5, <2>2 DEF Sound, Request, Calls, Uploads
<1>6. CASE q.call = "confirm" /\ ~(q.n < Slides)
  <2>0. q.n = Slides
    BY <1>2, <1>6 DEF Sound, Uploads
  <2>1. After(q) = [call |-> "draft", run |-> q.run, item |-> q.item, n |-> 1]
    BY <1>2, <1>6, <2>0 DEF After
  <2> QED
    BY <1>2, <1>6, <2>0, <2>1 DEF Sound, Request, Calls, Uploads
<1>7. CASE q.call = "draft"
  <2>1. After(q) = [call |-> "approve", run |-> q.run, item |-> q.item, n |-> q.n]
    BY <1>2, <1>7 DEF After
  <2> QED
    BY <1>2, <1>7, <2>1 DEF Sound, Request, Calls, Uploads
<1>8. CASE q.call = "approve"
  <2>1. After(q) = [call |-> "schedule", run |-> q.run, item |-> q.item, n |-> q.n]
    BY <1>2, <1>8 DEF After
  <2> QED
    BY <1>2, <1>8, <2>1 DEF Sound, Request, Calls, Uploads
<1>9. CASE q.call = "schedule" /\ q.n < Channels
  <2>1. After(q) = [call |-> "schedule", run |-> q.run, item |-> q.item, n |-> q.n + 1]
    BY <1>2, <1>9 DEF After
  <2> QED
    BY <1>2, <1>9, <2>1 DEF Sound, Request, Calls, Uploads
<1>10. CASE q.call = "schedule" /\ ~(q.n < Channels)
  <2>0. q.n = Channels /\ q.item < Items
    BY <1>2, <1>10 DEF Sound, IsLast
  <2>1. After(q) = [call |-> "intent", run |-> q.run, item |-> q.item + 1, n |-> 1]
    BY <1>2, <1>10, <2>0 DEF After
  <2> QED
    BY <1>2, <1>10, <2>0, <2>1 DEF Sound, Request, Calls, Uploads
<1> QED
  BY <1>2, <1>3, <1>4, <1>5, <1>6, <1>7, <1>8, <1>9, <1>10 DEF Calls

-----------------------------------------------------------------------------
\* A service carries a call out and answers it: what it has uploaded and scheduled
\* is where the next call expects it.
LEMMA AnswerKeepsWire ==
    ASSUME TypeOK, Wire, NEW q \in wire, NEW success \in BOOLEAN, Answer(q, success),
           \A a \in DOMAIN assets' :
                a \in DOMAIN assets \/ (q.call = "intent" /\ a = AssetOf(q)),
           pubs \subseteq pubs',
           q.call = "schedule" /\ success => Row(q.item, q.n) \in pubs'
    PROVE  Wire'
<1>1. Sound(q) /\ q \in Request /\ q.run <= script.run
  BY DEF Wire, Sound
<1>2. q.call \in Calls /\ q.run \in 1 .. MaxRuns /\ q.item \in 1 .. Items
      /\ q.n \in 1 .. Slides + Channels /\ Items \in Nat /\ Slides \in Nat /\ Channels \in Nat
      /\ MaxRuns \in Nat
  BY <1>1, RequestsAreRecords
<1>3. script.run \in 1 .. MaxRuns /\ script'.run = script.run
      /\ script \in [run : 1 .. MaxRuns, status : {"waiting", "stopped", "done"}, at : Request]
  BY DEF TypeOK, Answer, GoOn, Throw
<1>4. AssetOf(q).run = q.run /\ AssetOf(q).item = q.item /\ AssetOf(q).slide = q.n
  BY DEF AssetOf
\* The calls of the other runs.
<1>5. \A p \in wire \ {q} :
        Sound(p) /\ p.run <= script.run /\ UploadsReached(p)' /\ SchedulesReached(p)'
  <2> SUFFICES ASSUME NEW p \in wire \ {q}
               PROVE  Sound(p) /\ p.run <= script.run /\ UploadsReached(p)' /\ SchedulesReached(p)'
    OBVIOUS
  <2>1. p.run # q.run /\ Sound(p) /\ p.run <= script.run /\ UploadsReached(p) /\ SchedulesReached(p)
    BY DEF Wire
  <2>2. UploadsReached(p)'
    BY <1>4, <2>1 DEF UploadsReached
  <2>3. SchedulesReached(p)'
    BY <2>1 DEF SchedulesReached
  <2> QED
    BY <2>1, <2>2, <2>3
<1>6. CASE Awaits(q) /\ success /\ ~IsLast(q)
  <2>1. /\ script' = [script EXCEPT !.at = After(q)]
        /\ wire' = (wire \ {q}) \cup {After(q)}
        /\ script.status = "waiting" /\ q.run = script.run
    BY <1>6 DEF Answer, GoOn, Awaits, Wire
  <2> DEFINE n == After(q)
  <2>2. Sound(n) /\ n.run = q.run
    BY <1>1, <1>6, AfterIs
  <2>3. n \in Request /\ n.item \in 1 .. Items /\ n.n \in 1 .. Slides + Channels
    BY <2>2, RequestsAreRecords DEF Sound
  <2>4. UploadsReached(n)'
    <3> SUFFICES ASSUME NEW a \in DOMAIN assets', a.run = n.run
                 PROVE  \/ a.item < n.item
                        \/ /\ a.item = n.item
                           /\ n.call \in Uploads =>
                                a.slide < n.n \/ (a.slide = n.n /\ n.call # "intent")
      BY DEF UploadsReached
    <3>1. a.item \in Nat /\ a.slide \in Nat
      BY <1>1, <1>2, <1>4 DEF TypeOK, Asset
    <3>2. \/ a.item < q.item
          \/ /\ a.item = q.item
             /\ q.call \in Uploads => a.slide <= q.n
      <4>1. CASE a \in DOMAIN assets
        <5>1. UploadsReached(q)
          BY DEF Wire
        <5> QED
          BY <1>2, <2>2, <3>1, <4>1, <5>1 DEF UploadsReached
      <4>2. CASE q.call = "intent" /\ a = AssetOf(q)
        BY <1>2, <1>4, <4>2
      <4> QED
        BY <4>1, <4>2
    <3> QED
      BY <1>1, <1>2, <1>6, <2>3, <3>1, <3>2, AfterIs DEF Uploads
  <2>5. SchedulesReached(n)'
    <3> SUFFICES ASSUME NEW i \in 1 .. Items, NEW c \in 1 .. Channels,
                        i < n.item \/ (i = n.item /\ n.call = "schedule" /\ c < n.n)
                 PROVE  Row(i, c) \in pubs'
      BY DEF SchedulesReached
    <3>1. \/ i < q.item \/ (i = q.item /\ q.call = "schedule" /\ c < q.n)
          \/ i = q.item /\ q.call = "schedule" /\ c = q.n
      BY <1>1, <1>2, <1>6, <2>2, <2>3, AfterIs DEF Sound
    <3> QED
      BY <1>6, <3>1 DEF Wire, SchedulesReached
  <2>6. \A p, r \in wire' : p.run = r.run => p = r
    BY <2>1, <2>2 DEF Wire
  <2>7. script'.status = "waiting" => script'.at \in wire' /\ script'.at.run = script'.run
    BY <1>3, <2>1, <2>2
  <2> QED
    BY <1>3, <1>5, <2>1, <2>2, <2>4, <2>5, <2>6, <2>7 DEF Wire
<1>7. CASE ~(Awaits(q) /\ success /\ ~IsLast(q))
  <2>1. wire' = wire \ {q}
    BY <1>7 DEF Answer, GoOn
  <2>2. script'.status = "waiting" => script' = script /\ script.at # q
    BY <1>3, <1>7 DEF Answer, GoOn, Throw, Awaits
  <2>3. script'.status = "waiting" => script'.at \in wire' /\ script'.at.run = script'.run
    BY <2>1, <2>2 DEF Wire
  <2> QED
    BY <1>3, <1>5, <2>1, <2>3 DEF Wire
<1> QED
  BY <1>6, <1>7

\* The script goes on without a service: it fails, is started again, or what it has
\* sent is lost.
LEMMA ScriptKeepsWire ==
    ASSUME TypeOK, Wire, Fail \/ Resubmit \/ \E q \in wire : Lose(q),
           \A a \in DOMAIN assets : a.run <= script.run
    PROVE  Wire' /\ TypeOK'
<1>1. script \in [run : 1 .. MaxRuns, status : {"waiting", "stopped", "done"}, at : Request]
      /\ wire \subseteq Request /\ MaxRuns \in Nat
      /\ \A a \in DOMAIN assets : a \in Asset
  BY SizeAssumption DEF TypeOK
<1>2. UNCHANGED server /\ assets' = assets /\ pubs' = pubs
  BY DEF Fail, Resubmit, Lose, server
<1>3. \A q : UploadsReached(q)' <=> UploadsReached(q)
  BY <1>2 DEF UploadsReached
<1>4. \A q : SchedulesReached(q)' <=> SchedulesReached(q)
  BY <1>2 DEF SchedulesReached
<1>5. CASE Fail
  BY <1>1, <1>2, <1>3, <1>4, <1>5, FaultAssumption DEF Fail, Throw, Wire, TypeOK, server
<1>6. CASE Resubmit
  <2>1. PICK r \in 1 .. MaxRuns : r = script.run + 1
    BY <1>1, <1>6 DEF Resubmit
  <2>2. Sound(First(r)) /\ First(r).run = r /\ First(r) \in Request
    BY <2>1, FirstIsSound DEF Sound
  <2>3. /\ script' = [run |-> r, status |-> "waiting", at |-> First(r)]
        /\ wire' = wire \cup {First(r)}
    BY <1>6, <2>1 DEF Resubmit
  <2>4. \A q \in wire : q.run < r /\ q.run \in Nat /\ script.run < r
    BY <1>1, <2>1, RequestsAreRecords DEF Wire
  <2>5. UploadsReached(First(r))'
    <3>1. \A a \in DOMAIN assets : a.run # r
      BY <1>1, <2>1 DEF Asset
    <3> QED
      BY <1>2, <2>2, <3>1 DEF UploadsReached
  <2>6. SchedulesReached(First(r))'
    BY SizeAssumption DEF SchedulesReached, First
  <2>7. \A q \in wire' : Sound(q) /\ q.run <= script'.run
    BY <1>1, <2>2, <2>3, <2>4 DEF Wire
  <2>8. \A p, q \in wire' : p.run = q.run => p = q
    BY <2>2, <2>3, <2>4 DEF Wire
  <2>9. script'.status = "waiting" => script'.at \in wire' /\ script'.at.run = script'.run
    BY <2>2, <2>3
  <2>10. \A q \in wire' : UploadsReached(q)' /\ SchedulesReached(q)'
    BY <1>3, <1>4, <2>3, <2>5, <2>6 DEF Wire
  <2>11. Wire'
    BY <2>7, <2>8, <2>9, <2>10 DEF Wire
  <2>12. TypeOK'
    BY <1>2, <1>6, <2>1, <2>2, <2>3 DEF TypeOK, Resubmit, server
  <2> QED
    BY <2>11, <2>12
<1>7. ASSUME NEW q \in wire, Lose(q)
      PROVE  Wire' /\ TypeOK'
  BY <1>2, <1>3, <1>4, <1>7 DEF Lose, Awaits, Wire, TypeOK, server
<1> QED
  BY <1>5, <1>6, <1>7

-----------------------------------------------------------------------------
\* What an answer does to the types of the script.
LEMMA AnswerKeepsTypes ==
    ASSUME TypeOK, Wire, NEW q \in wire, NEW success \in BOOLEAN, Answer(q, success)
    PROVE  /\ script' \in [run : 1 .. MaxRuns, status : {"waiting", "stopped", "done"},
                           at : Request]
           /\ script'.run = script.run
           /\ faults' \in 0 .. MaxFaults
           /\ wire' \subseteq Request
           /\ script'.status = "done" =>
                script.status = "done" \/ (success /\ Awaits(q) /\ IsLast(q))
<1>1. script \in [run : 1 .. MaxRuns, status : {"waiting", "stopped", "done"}, at : Request]
      /\ wire \subseteq Request /\ faults \in 0 .. MaxFaults
  BY DEF TypeOK
<1>2. ~IsLast(q) => After(q) \in Request
  BY AfterIs DEF Wire, Sound
<1> QED
  BY <1>1, <1>2 DEF Answer, GoOn, Throw

LEMMA InitInv == Init => IInv
<1> SUFFICES ASSUME Init
             PROVE  IInv
  OBVIOUS
<1>1. 1 \in 1 .. MaxRuns /\ MaxRuns \in Nat
  BY SizeAssumption
<1>2. Sound(First(1)) /\ First(1).run = 1 /\ First(1) \in Request
  BY <1>1, FirstIsSound DEF Sound
<1>3. DOMAIN assets = {}
  BY DEF Init
<1>4. TypeOK
  BY <1>1, <1>2, <1>3, FaultAssumption DEF Init, TypeOK
<1>5. SchedulesReached(First(1))
  BY SizeAssumption DEF SchedulesReached, First
<1>6. Wire
  BY <1>1, <1>2, <1>3, <1>5 DEF Init, Wire, UploadsReached
<1> QED
  BY <1>3, <1>4, <1>6 DEF Init, IInv, Rows, Complete, InManifestOrder, PostsAreWhole

\* The script ends after the last call of the manifest has succeeded.
LEMMA AnswerCompletes ==
    ASSUME IInv, NEW q \in wire, NEW success \in BOOLEAN, Answer(q, success),
           pubs \subseteq pubs',
           q.call = "schedule" /\ success => Row(q.item, q.n) \in pubs'
    PROVE  Complete'
<1> USE DEF IInv
<1>1. CASE script.status = "done"
  BY <1>1 DEF Complete
<1>2. CASE script'.status = "done" /\ script.status # "done"
  <2>1. success /\ Awaits(q) /\ IsLast(q)
    BY <1>2, AnswerKeepsTypes
  <2>2. q.call = "schedule" /\ q.n = Channels /\ q.item = Items
    BY <2>1 DEF IsLast
  <2>3. SchedulesReached(q)
    BY DEF Wire
  <2>4. \A i \in 1 .. Items, c \in 1 .. Channels :
          i < q.item \/ (i = q.item /\ c < q.n) \/ (i = q.item /\ c = q.n)
    BY <2>2, SizeAssumption
  <2> QED
    BY <2>1, <2>2, <2>3, <2>4 DEF Complete, SchedulesReached
<1> QED
  BY <1>1, <1>2 DEF Complete

\* A new image has no row yet: no run asks for one twice.
LEMMA CreateIntentKeeps ==
    ASSUME IInv, NEW q \in wire, CreateIntent(q)
    PROVE  IInv'
<1>1. TypeOK /\ Wire /\ Rows /\ Complete /\ InManifestOrder /\ PostsAreWhole
  BY DEF IInv
<1>2. /\ q.call = "intent" /\ Answer(q, TRUE)
      /\ assets' = [a \in DOMAIN assets \cup {AssetOf(q)} |->
                        IF a = AssetOf(q) THEN "PENDING" ELSE assets[a]]
      /\ UNCHANGED <<objects, posts, pubs>>
  BY DEF CreateIntent
<1>3. Sound(q) /\ q \in Request /\ UploadsReached(q) /\ q.run <= script.run
  BY <1>1 DEF Wire, Sound
<1>4. q.run \in 1 .. MaxRuns /\ q.item \in 1 .. Items /\ q.n \in 1 .. Slides
  BY <1>2, <1>3, RequestsAreRecords DEF Sound, Uploads
<1>5. /\ AssetOf(q) \in Asset /\ AssetOf(q).run = q.run
      /\ AssetOf(q).item = q.item /\ AssetOf(q).slide = q.n
  BY <1>4 DEF Asset, AssetOf
<1>6. AssetOf(q) \notin DOMAIN assets
  BY <1>2, <1>3, <1>4, <1>5 DEF UploadsReached, Uploads
<1>7. DOMAIN assets' = DOMAIN assets \cup {AssetOf(q)}
      /\ \A a \in DOMAIN assets : assets'[a] = assets[a]
      /\ assets'[AssetOf(q)] = "PENDING"
  BY <1>2, <1>6
<1>8. script'.run = script.run
  BY <1>1, <1>2, AnswerKeepsTypes
<1>9. TypeOK'
  BY <1>1, <1>2, <1>5, <1>7, AnswerKeepsTypes DEF TypeOK
<1>10. Wire'
  BY <1>1, <1>2, <1>7, AnswerKeepsWire
<1>11. Complete'
  BY <1>2, AnswerCompletes
<1>12. Rows'
  <2>1. \A a \in DOMAIN assets' :
            a.run <= script'.run /\ (assets'[a] = "READY" => a \in objects')
    BY <1>1, <1>2, <1>3, <1>5, <1>7, <1>8 DEF Rows
  <2> QED
    BY <1>1, <1>2, <1>7, <2>1 DEF Rows
<1>13. PostsAreWhole'
  <2>1. \A p \in posts : \A n \in 1 .. Slides : assets'[p.images[n]] = assets[p.images[n]]
    BY <1>1, <1>7 DEF Rows
  <2> SUFFICES ASSUME NEW p \in posts
               PROVE  \E r \in 1 .. MaxRuns : \A n \in 1 .. Slides :
                        /\ p.images[n] = [run |-> r, item |-> p.key.item, slide |-> n]
                        /\ p.images[n] \in objects
                        /\ assets'[p.images[n]] = "READY"
    BY <1>2 DEF PostsAreWhole
  <2>2. PICK r \in 1 .. MaxRuns : \A n \in 1 .. Slides :
            /\ p.images[n] = [run |-> r, item |-> p.key.item, slide |-> n]
            /\ p.images[n] \in objects
            /\ assets[p.images[n]] = "READY"
    BY <1>1 DEF PostsAreWhole
  <2>3. \A n \in 1 .. Slides : assets'[p.images[n]] = "READY"
    BY <2>1, <2>2
  <2> QED
    BY <2>2, <2>3
<1>14. InManifestOrder'
  BY <1>1, <1>2 DEF InManifestOrder
<1> QED
  BY <1>9, <1>10, <1>11, <1>12, <1>13, <1>14 DEF IInv

LEMMA PutKeeps ==
    ASSUME IInv, NEW q \in wire, Put(q)
    PROVE  IInv'
<1>1. TypeOK /\ Wire /\ Rows /\ Complete /\ InManifestOrder /\ PostsAreWhole
  BY DEF IInv
<1>2. /\ q.call = "put" /\ Answer(q, TRUE)
      /\ objects' = objects \cup {AssetOf(q)}
      /\ UNCHANGED <<assets, posts, pubs>>
  BY DEF Put
<1>3. Sound(q) /\ q \in Request
  BY <1>1 DEF Wire, Sound
<1>4. AssetOf(q) \in Asset
  BY <1>2, <1>3, RequestsAreRecords DEF Sound, Uploads, Asset, AssetOf
<1>5. script'.run = script.run
  BY <1>1, <1>2, AnswerKeepsTypes
<1>6. TypeOK'
  BY <1>1, <1>2, <1>4, AnswerKeepsTypes DEF TypeOK
<1>7. Wire'
  BY <1>1, <1>2, AnswerKeepsWire
<1>8. Complete'
  BY <1>2, AnswerCompletes
<1>9. Rows'
  BY <1>1, <1>2, <1>5 DEF Rows
<1>10. PostsAreWhole'
  BY <1>1, <1>2 DEF PostsAreWhole
<1>11. InManifestOrder'
  BY <1>1, <1>2 DEF InManifestOrder
<1> QED
  BY <1>6, <1>7, <1>8, <1>9, <1>10, <1>11 DEF IInv

\* An image is ready if it is in the bucket.
LEMMA ConfirmKeeps ==
    ASSUME IInv, NEW q \in wire, Confirm(q)
    PROVE  IInv'
<1>1. TypeOK /\ Wire /\ Rows /\ Complete /\ InManifestOrder /\ PostsAreWhole
  BY DEF IInv
<1> DEFINE found == AssetOf(q) \in DOMAIN assets /\ AssetOf(q) \in objects
<1>2. /\ q.call = "confirm" /\ Answer(q, found) /\ found \in BOOLEAN
      /\ assets' = IF found THEN [assets EXCEPT ![AssetOf(q)] = "READY"] ELSE assets
      /\ UNCHANGED <<objects, posts, pubs>>
  BY DEF Confirm
<1>3. DOMAIN assets' = DOMAIN assets
      /\ \A a \in DOMAIN assets :
            assets'[a] = assets[a] \/ (a \in objects /\ assets'[a] = "READY")
  BY <1>2
<1>4. script'.run = script.run
  BY <1>1, <1>2, AnswerKeepsTypes
<1>5. TypeOK'
  BY <1>1, <1>2, <1>3, AnswerKeepsTypes DEF TypeOK
<1>6. Wire'
  BY <1>1, <1>2, <1>3, AnswerKeepsWire
<1>7. Complete'
  BY <1>2, AnswerCompletes
<1>8. Rows'
  BY <1>1, <1>2, <1>3, <1>4 DEF Rows
<1>9. PostsAreWhole'
  BY <1>1, <1>2, <1>3 DEF PostsAreWhole, Rows
<1>10. InManifestOrder'
  BY <1>1, <1>2 DEF InManifestOrder
<1> QED
  BY <1>5, <1>6, <1>7, <1>8, <1>9, <1>10 DEF IInv

\* A post is created with the images of one run, once they are all ready.
LEMMA DraftKeeps ==
    ASSUME IInv, NEW q \in wire, Draft(q)
    PROVE  IInv'
<1>1. TypeOK /\ Wire /\ Rows /\ Complete /\ InManifestOrder /\ PostsAreWhole
  BY DEF IInv
<1> DEFINE post == [key |-> Key(q), images |-> Images(q), state |-> "DRAFT"]
<1>2. /\ q.call = "draft"
      /\ posts' = posts \/ (posts' = posts \cup {post} /\ AllReady(Images(q)))
      /\ UNCHANGED <<assets, objects, pubs>>
  BY DEF Draft
<1>3. PICK success \in BOOLEAN : Answer(q, success)
  <2>1. AllReady(Images(q)) \in BOOLEAN
    BY DEF AllReady
  <2>2. (\A p \in {x \in posts : x.key = Key(q)} : p.images = Images(q)) \in BOOLEAN
    OBVIOUS
  <2> QED
    BY <2>1, <2>2 DEF Draft
<1>4. Sound(q) /\ q \in Request
  BY <1>1 DEF Wire, Sound
<1>5. q.run \in 1 .. MaxRuns /\ q.item \in 1 .. Items /\ q.n = 1
  BY <1>2, <1>4, RequestsAreRecords DEF Sound
<1>6. post = [key |-> DraftKey(q.item), state |-> "DRAFT",
              images |-> [n \in 1 .. Slides |-> [run |-> q.run, item |-> q.item, slide |-> n]]]
  BY <1>2, <1>5 DEF Key, DraftKey, Images
<1>7. post.images \in [1 .. Slides -> Asset]
  BY <1>5, <1>6 DEF Asset
<1>8. post.key.item = q.item /\ post.state = "DRAFT"
  BY <1>6 DEF DraftKey
<1>9. AllReady(Images(q)) =>
        \A n \in 1 .. Slides :
            /\ post.images[n] = [run |-> q.run, item |-> q.item, slide |-> n]
            /\ post.images[n] \in DOMAIN assets /\ assets[post.images[n]] = "READY"
            /\ post.images[n] \in objects
  BY <1>1, <1>5, <1>6 DEF AllReady, Rows, Images
<1>10. script'.run = script.run
  BY <1>1, <1>3, AnswerKeepsTypes
<1>11. TypeOK'
  BY <1>1, <1>2, <1>3, <1>7, <1>8, AnswerKeepsTypes DEF TypeOK
<1>12. Wire'
  BY <1>1, <1>2, <1>3, AnswerKeepsWire
<1>13. Complete'
  BY <1>2, <1>3, AnswerCompletes
<1>14. Rows'
  <2>1. \A p \in posts' :
          \E i \in 1 .. Items, r \in 1 .. MaxRuns, s \in {"DRAFT", "APPROVED"} :
            p = [key |-> DraftKey(i), state |-> s,
                 images |-> [n \in 1 .. Slides |-> [run |-> r, item |-> i, slide |-> n]]]
    BY <1>1, <1>2, <1>5, <1>6 DEF Rows
  <2>2. \A p \in posts' : \A n \in 1 .. Slides : p.images[n] \in DOMAIN assets
    BY <1>1, <1>2, <1>9 DEF Rows
  <2>3. \A p \in pubs' : \E x \in posts' : x.key = p.post /\ x.state = "APPROVED"
    BY <1>1, <1>2 DEF Rows
  <2> QED
    BY <1>1, <1>2, <1>10, <2>1, <2>2, <2>3 DEF Rows
<1>15. PostsAreWhole'
  BY <1>1, <1>2, <1>5, <1>8, <1>9 DEF PostsAreWhole
<1>16. InManifestOrder'
  BY <1>1, <1>2 DEF InManifestOrder
<1> QED
  BY <1>11, <1>12, <1>13, <1>14, <1>15, <1>16 DEF IInv

\* An approval changes the state of posts and nothing else of them.
LEMMA ApproveKeeps ==
    ASSUME IInv, NEW q \in wire, Approve(q)
    PROVE  IInv'
<1>1. TypeOK /\ Wire /\ Rows /\ Complete /\ InManifestOrder /\ PostsAreWhole
  BY DEF IInv
<1> DEFINE approved(p) == IF p.key = PostOf(q) THEN [p EXCEPT !.state = "APPROVED"] ELSE p
<1>2. /\ q.call = "approve" /\ Answer(q, TRUE)
      /\ posts' = {approved(p) : p \in posts}
      /\ UNCHANGED <<assets, objects, pubs>>
  BY DEF Approve
<1>3. \A p \in posts :
        /\ approved(p).key = p.key /\ approved(p).images = p.images
        /\ approved(p).state = p.state \/ approved(p).state = "APPROVED"
        /\ \E i \in 1 .. Items, r \in 1 .. MaxRuns, s \in {"DRAFT", "APPROVED"} :
            approved(p) = [key |-> DraftKey(i), state |-> s,
                 images |-> [n \in 1 .. Slides |-> [run |-> r, item |-> i, slide |-> n]]]
  <2> SUFFICES ASSUME NEW p \in posts
               PROVE  /\ approved(p).key = p.key /\ approved(p).images = p.images
                      /\ approved(p).state = p.state \/ approved(p).state = "APPROVED"
                      /\ \E i \in 1 .. Items, r \in 1 .. MaxRuns, s \in {"DRAFT", "APPROVED"} :
                            approved(p) =
                              [key |-> DraftKey(i), state |-> s,
                               images |-> [n \in 1 .. Slides |->
                                            [run |-> r, item |-> i, slide |-> n]]]
    OBVIOUS
  <2>1. PICK i \in 1 .. Items, r \in 1 .. MaxRuns, s \in {"DRAFT", "APPROVED"} :
            p = [key |-> DraftKey(i), state |-> s,
                 images |-> [n \in 1 .. Slides |-> [run |-> r, item |-> i, slide |-> n]]]
    BY <1>1 DEF Rows
  <2>2. PICK f : f = [n \in 1 .. Slides |-> [run |-> r, item |-> i, slide |-> n]]
    OBVIOUS
  <2>3. p = [key |-> DraftKey(i), state |-> s, images |-> f]
    BY <2>1, <2>2
  <2>4. [p EXCEPT !.state = "APPROVED"] =
            [key |-> DraftKey(i), state |-> "APPROVED", images |-> f]
    BY <2>3
  <2>5. approved(p) = p \/ approved(p) = [p EXCEPT !.state = "APPROVED"]
    OBVIOUS
  <2>6. \E t \in {"DRAFT", "APPROVED"} :
            approved(p) = [key |-> DraftKey(i), state |-> t, images |-> f]
    BY <2>3, <2>4, <2>5
  <2>7. /\ approved(p).key = p.key /\ approved(p).images = p.images
        /\ approved(p).state = p.state \/ approved(p).state = "APPROVED"
    BY <2>3, <2>4, <2>5
  <2>8. \E t \in {"DRAFT", "APPROVED"} :
            approved(p) =
              [key |-> DraftKey(i), state |-> t,
               images |-> [n \in 1 .. Slides |-> [run |-> r, item |-> i, slide |-> n]]]
    <3> HIDE DEF approved
    <3> QED BY <2>2, <2>6
  <2> HIDE DEF approved
  <2> QED
    BY <2>7, <2>8
<1> HIDE DEF approved
<1>4. script'.run = script.run
  BY <1>1, <1>2, AnswerKeepsTypes
<1>5. TypeOK'
  <2>1. \A x \in posts' :
            x.images \in [1 .. Slides -> Asset] /\ x.state \in {"DRAFT", "APPROVED"}
    <3> SUFFICES ASSUME NEW p \in posts
                 PROVE  /\ approved(p).images \in [1 .. Slides -> Asset]
                        /\ approved(p).state \in {"DRAFT", "APPROVED"}
      BY <1>2
    <3>1. p.images \in [1 .. Slides -> Asset] /\ p.state \in {"DRAFT", "APPROVED"}
      BY <1>1 DEF TypeOK
    <3>2. /\ approved(p).images = p.images
          /\ approved(p).state = p.state \/ approved(p).state = "APPROVED"
      BY <1>3
    <3> QED
      BY <3>1, <3>2
  <2> QED
    BY <1>1, <1>2, <2>1, AnswerKeepsTypes DEF TypeOK
<1>6. Wire'
  BY <1>1, <1>2, AnswerKeepsWire
<1>7. Complete'
  BY <1>2, AnswerCompletes
<1>8. Rows'
  <2>1. \A p \in pubs' : \E x \in posts' : x.key = p.post /\ x.state = "APPROVED"
    BY <1>1, <1>2, <1>3 DEF Rows
  <2> QED
    BY <1>1, <1>2, <1>3, <1>4, <2>1 DEF Rows
<1>9. PostsAreWhole'
  BY <1>1, <1>2, <1>3 DEF PostsAreWhole
<1>10. InManifestOrder'
  BY <1>1, <1>2 DEF InManifestOrder
<1> QED
  BY <1>5, <1>6, <1>7, <1>8, <1>9, <1>10 DEF IInv

\* A publication is added after all that come before it in the manifest.
LEMMA ScheduleKeeps ==
    ASSUME IInv, NEW q \in wire, Schedule(q)
    PROVE  IInv'
<1>1. TypeOK /\ Wire /\ Rows /\ Complete /\ InManifestOrder /\ PostsAreWhole
  BY DEF IInv
<1>2. Sound(q) /\ q \in Request /\ q.call = "schedule" /\ SchedulesReached(q)
  BY <1>1 DEF Wire, Sound, Schedule
<1>3. q.item \in 1 .. Items /\ q.n \in 1 .. Channels
  BY <1>2, RequestsAreRecords DEF Sound
<1> DEFINE row == [key |-> Key(q), post |-> PostOf(q), item |-> q.item, channel |-> q.n]
<1>4. PostOf(q) = DraftKey(q.item) /\ row = Row(q.item, q.n)
  <2>1. PICK x : x = [q EXCEPT !.call = "draft", !.n = 1]
    OBVIOUS
  <2>2. x.item = q.item
    BY <1>2, <2>1, RequestsAreRecords
  <2>3. PostOf(q) = DraftKey(q.item)
    BY <2>1, <2>2 DEF PostOf, Key, DraftKey
  <2> QED
    BY <1>2, <2>3 DEF Key, Row, DraftKey
<1>5. PICK success \in BOOLEAN :
        /\ pubs' = pubs \/ (pubs' = pubs \cup {row} /\ Schedulable(q))
        /\ Answer(q, success) /\ (success => row \in pubs')
        /\ UNCHANGED <<assets, objects, posts>>
  <2>1. Answer(q, row \in pubs')
    BY DEF Schedule
  <2>2. (row \in pubs') \in BOOLEAN
    OBVIOUS
  <2>3. \E success \in BOOLEAN : Answer(q, success) /\ (success => row \in pubs')
    BY <2>1, <2>2, Zenon
  <2>4. /\ pubs' = pubs \/ (pubs' = pubs \cup {row} /\ Schedulable(q))
        /\ UNCHANGED <<assets, objects, posts>>
    BY DEF Schedule
  <2> QED
    BY <2>3, <2>4
<1>6. script'.run = script.run
  BY <1>1, <1>5, AnswerKeepsTypes
<1>7. TypeOK'
  BY <1>1, <1>3, <1>5, AnswerKeepsTypes DEF TypeOK
<1>8. Wire'
  BY <1>1, <1>4, <1>5, AnswerKeepsWire
<1>9. Complete'
  BY <1>4, <1>5, AnswerCompletes
<1>10. Rows'
  <2>1. \A p \in pubs' : \E i \in 1 .. Items, c \in 1 .. Channels : p = Row(i, c)
    BY <1>1, <1>3, <1>4, <1>5 DEF Rows
  <2>2. \A p \in pubs' : \E x \in posts' : x.key = p.post /\ x.state = "APPROVED"
    BY <1>1, <1>5 DEF Rows, Schedulable
  <2> QED
    BY <1>1, <1>5, <1>6, <2>1, <2>2 DEF Rows
<1>11. InManifestOrder'
  <2>1. \A i \in 1 .. Items, c \in 1 .. Channels :
          i < q.item \/ (i = q.item /\ c < q.n) =>
            \E p \in pubs : p.item = i /\ p.channel = c
    BY <1>2 DEF SchedulesReached, Row
  <2>2. row.item = q.item /\ row.channel = q.n
    OBVIOUS
  <2> QED
    BY <1>1, <1>5, <2>1, <2>2 DEF InManifestOrder
<1>12. PostsAreWhole'
  BY <1>1, <1>5 DEF PostsAreWhole
<1> QED
  BY <1>7, <1>8, <1>9, <1>10, <1>11, <1>12 DEF IInv

LEMMA NextInv == IInv /\ [Next]_vars => IInv'
<1> SUFFICES ASSUME IInv, [Next]_vars
             PROVE  IInv'
  OBVIOUS
<1>1. ASSUME NEW q \in wire, Serve(q)
      PROVE  IInv'
  BY <1>1, CreateIntentKeeps, PutKeeps, ConfirmKeeps, DraftKeeps, ApproveKeeps, ScheduleKeeps
     DEF Serve
<1>2. CASE Fail \/ Resubmit \/ \E q \in wire : Lose(q)
  <2>1. TypeOK /\ Wire /\ Rows /\ Complete /\ InManifestOrder /\ PostsAreWhole
    BY DEF IInv
  <2>2. UNCHANGED server
    BY <1>2 DEF Fail, Resubmit, Lose
  <2>3. assets' = assets /\ objects' = objects /\ posts' = posts /\ pubs' = pubs
    BY <2>2 DEF server
  <2>4. Wire' /\ TypeOK'
    BY <1>2, <2>1, ScriptKeepsWire DEF Rows
  <2>5. script'.run \in Nat /\ script.run \in Nat /\ script.run <= script'.run
        /\ (script'.status = "done" => script.status = "done")
    BY <1>2, <2>1, <2>4 DEF TypeOK, Fail, Throw, Resubmit, Lose
  <2>6. Rows'
    <3>1. \A a \in DOMAIN assets : a.run \in Nat /\ a.run <= script'.run
      BY <2>1, <2>5 DEF Rows, TypeOK, Asset
    <3> QED
      BY <2>1, <2>3, <3>1 DEF Rows
  <2>7. Complete' /\ InManifestOrder' /\ PostsAreWhole'
    BY <2>1, <2>3, <2>5 DEF Complete, InManifestOrder, PostsAreWhole
  <2> QED
    BY <2>4, <2>6, <2>7 DEF IInv
<1>3. CASE UNCHANGED vars
  BY <1>3 DEF vars, IInv, TypeOK, Wire, Sound, UploadsReached, SchedulesReached, Rows,
              Complete, InManifestOrder, PostsAreWhole
<1> QED
  BY <1>1, <1>2, <1>3 DEF Next, Serving

\* Whatever fails, is lost or arrives late, the invariant holds.
THEOREM Invariant == Spec => []IInv
BY InitInv, NextInv, PTL DEF Spec

-----------------------------------------------------------------------------
\* Every reachable state is well typed.
THEOREM TypesHold == Spec => []TypeOK
<1>1. IInv => TypeOK
  BY DEF IInv
<1> QED
  BY Invariant, <1>1, PTL

\* However often a manifest is submitted, an item has one publication for a channel.
THEOREM ItemsAreScheduledOnce == Spec => []OnePerChannel
<1>1. IInv => OnePerChannel
  BY DEF IInv, Rows, Row, OnePerChannel
<1> QED
  BY Invariant, <1>1, PTL

\* What is scheduled is at every moment a beginning of the manifest.
THEOREM SchedulesAreInOrder == Spec => []InManifestOrder
<1>1. IInv => InManifestOrder
  BY DEF IInv
<1> QED
  BY Invariant, <1>1, PTL

\* A batch that says it is complete has approved and scheduled every item.
THEOREM SuccessIsReal == Spec => []SuccessIsComplete
<1>1. IInv => SuccessIsComplete
  <2> SUFFICES ASSUME IInv, script.status = "done",
                      NEW i \in 1 .. Items, NEW c \in 1 .. Channels
               PROVE  \E q \in pubs, p \in posts :
                        /\ q.item = i /\ q.channel = c
                        /\ q.post = p.key /\ p.state = "APPROVED"
    BY DEF SuccessIsComplete
  <2>1. Row(i, c) \in pubs
    BY DEF IInv, Complete
  <2>2. Row(i, c).item = i /\ Row(i, c).channel = c
    BY DEF Row
  <2> QED
    BY <2>1, <2>2 DEF IInv, Rows
<1> QED
  BY Invariant, <1>1, PTL

\* A post shows the images of one run, all uploaded, in the manifest's order.
THEOREM PostsShowOneRun == Spec => []PostsAreWhole
<1>1. IInv => PostsAreWhole
  BY DEF IInv
<1> QED
  BY Invariant, <1>1, PTL

-----------------------------------------------------------------------------
(***************************************************************************)
(* BatchSubmission implements PostReview, with no review links.             *)
(***************************************************************************)
\* The key that an approval or a scheduling uses for its post is a draft's.
LEMMA PostOfIsDraft ==
    ASSUME NEW q \in Request
    PROVE  PostOf(q) \in Drafts
<1>1. PICK x : x = [q EXCEPT !.call = "draft", !.n = 1]
  OBVIOUS
<1>2. x.call = "draft" /\ x.item = q.item /\ x.n = 1
  BY <1>1, RequestsAreRecords
<1> QED
  BY <1>1, <1>2, RequestsAreRecords DEF PostOf, Key, Drafts

LEMMA ReviewInit == Init => Review!Init
BY DEF Init, Review!Init, Reviewed

\* A draft is a new post that nobody has approved; a second one changes nothing.
LEMMA ReviewDraft ==
    ASSUME NEW q \in wire, Draft(q)
    PROVE  UNCHANGED Review!vars
<1>1. \A p \in posts' : p \in posts \/ p.state = "DRAFT"
  <2> DEFINE post == [key |-> Key(q), images |-> Images(q), state |-> "DRAFT"]
  <2>1. posts' = posts \/ posts' = posts \cup {post}
    BY DEF Draft
  <2>2. post.state = "DRAFT"
    OBVIOUS
  <2> QED BY <2>1, <2>2
<1>2. posts \subseteq posts' /\ pubs' = pubs
  BY DEF Draft
<1>3. \A k \in Drafts : Reviewed(k)' = Reviewed(k)
  BY <1>1, <1>2 DEF Reviewed
<1> QED
  BY <1>2, <1>3 DEF Review!vars

\* An approval approves its post, or finds it approved or not there at all.
LEMMA ReviewApprove ==
    ASSUME TypeOK, Wire, NEW q \in wire, Approve(q)
    PROVE  [Review!Next]_(Review!vars)
<1>1. q \in Request
  BY DEF Wire, Sound
<1>2. PICK k \in Drafts : k = PostOf(q)
  BY <1>1, PostOfIsDraft
<1> DEFINE approved(p) == IF p.key = k THEN [p EXCEPT !.state = "APPROVED"] ELSE p
<1>3. posts' = {approved(p) : p \in posts} /\ pubs' = pubs
  BY <1>2 DEF Approve
<1>4. \A p \in posts : p.key # k => approved(p) = p
  OBVIOUS
<1>5. ASSUME NEW j \in Drafts, j # k
      PROVE  Reviewed(j)' = Reviewed(j)
  <2>1. \A p \in posts : p.key = k => approved(p).key # j
    BY <1>5
  <2> HIDE DEF approved
  <2> QED BY <1>3, <1>4, <1>5, <2>1 DEF Reviewed
<1>6. Reviewed(k)' = Reviewed(k) \/ (Reviewed(k) = "DRAFT" /\ Reviewed(k)' = "APPROVED")
  <2>1. CASE Reviewed(k) = "APPROVED"
    <3>1. PICK p \in posts : p.key = k /\ p.state = "APPROVED"
      BY <2>1 DEF Reviewed
    <3>2. approved(p).key = k /\ approved(p).state = "APPROVED"
      BY <3>1
    <3>3. approved(p) \in posts'
      BY <1>3
    <3> QED BY <2>1, <3>2, <3>3 DEF Reviewed
  <2>2. CASE Reviewed(k) # "APPROVED"
    BY <2>2 DEF Reviewed
  <2> QED BY <2>1, <2>2
<1>7. CASE Reviewed(k)' = Reviewed(k)
  BY <1>3, <1>5, <1>7 DEF Review!vars
<1>8. CASE Reviewed(k) = "DRAFT" /\ Reviewed(k)' = "APPROVED"
  <2>1. [j \in Drafts |-> Reviewed(j)]' =
            [[j \in Drafts |-> Reviewed(j)] EXCEPT ![k] = "APPROVED"]
    BY <1>5, <1>8
  <2>2. Review!Approve(k)
    BY <1>3, <1>8, <2>1 DEF Review!Approve, Review!Put, Review!Undecided
  <2> QED BY <2>2 DEF Review!Next
<1> QED BY <1>6, <1>7, <1>8

\* A publication is made for an approved post.
LEMMA ReviewSchedule ==
    ASSUME TypeOK, Wire, NEW q \in wire, Schedule(q)
    PROVE  [Review!Next]_(Review!vars)
<1>1. q \in Request
  BY DEF Wire, Sound
<1>2. PICK k \in Drafts : k = PostOf(q)
  BY <1>1, PostOfIsDraft
<1>3. PICK row : row.post = k /\ (pubs' = pubs \/ (pubs' = pubs \cup {row} /\ Schedulable(q)))
  BY <1>2 DEF Schedule
<1>4. posts' = posts /\ \A j \in Drafts : Reviewed(j)' = Reviewed(j)
  BY DEF Schedule, Reviewed
<1>5. CASE pubs' = pubs
  BY <1>4, <1>5 DEF Review!vars
<1>6. CASE pubs' = pubs \cup {row} /\ Schedulable(q)
  <2>1. Reviewed(k) = "APPROVED"
    BY <1>2, <1>6 DEF Schedulable, Reviewed
  <2>2. {p.post : p \in pubs'} = {p.post : p \in pubs} \cup {k}
    BY <1>3, <1>6
  <2>3. Review!Schedule(k)
    BY <1>4, <2>1, <2>2 DEF Review!Schedule
  <2> QED BY <2>3 DEF Review!Next
<1> QED BY <1>3, <1>5, <1>6

\* The other calls and the script leave posts and publications alone.
LEMMA ReviewStep == IInv /\ [Next]_vars => [Review!Next]_(Review!vars)
<1> SUFFICES ASSUME IInv, [Next]_vars PROVE [Review!Next]_(Review!vars)
  OBVIOUS
<1>1. TypeOK /\ Wire
  BY DEF IInv
<1>2. ASSUME UNCHANGED <<posts, pubs>> PROVE UNCHANGED Review!vars
  BY <1>2 DEF Review!vars, Reviewed
<1>3. ASSUME NEW q \in wire, Serve(q) PROVE [Review!Next]_(Review!vars)
  BY <1>1, <1>2, <1>3, ReviewDraft, ReviewApprove, ReviewSchedule
     DEF Serve, CreateIntent, Put, Confirm
<1>4. CASE Fail \/ Resubmit \/ (\E q \in wire : Lose(q)) \/ UNCHANGED vars
  BY <1>2, <1>4 DEF Fail, Resubmit, Lose, server, vars
<1> QED BY <1>3, <1>4 DEF Next, Serving

\* Every call of every run, however late, is an act of the editorial workflow or
\* leaves it alone: the contract that Approvals keeps under concurrent requests.
THEOREM BatchImplementsReview == Spec => ImplementsReview
BY ReviewInit, ReviewStep, Invariant, PTL DEF Spec, ImplementsReview, Review!Spec
=============================================================================
