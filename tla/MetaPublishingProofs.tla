------------------------ MODULE MetaPublishingProofs -------------------------
(***************************************************************************)
(* Theorems about MetaPublishing, for every number of images, polls and     *)
(* seconds.  The argument follows the client's ids: id i names an object    *)
(* that shows image i and, on Instagram, is finished; nothing is public     *)
(* before the last request of the attempt is done.                          *)
(***************************************************************************)
EXTENDS MetaPublishing, FiniteSetTheorems, TLAPS

\* The images, in the author's order.
Whole == [j \in 1..count |-> j]

\* Where the client is: how many parts it has, and how many objects there are.
Place ==
    /\ request \in {"photos", "media"} => Len(ids) < count
    /\ request \in {"feed", "carousel"} => Len(ids) = count /\ count > 1
    /\ phase = "waiting" => request \in {"media", "carousel"}
    /\ phase = "sent" /\ request # "media_publish" => Len(objects) = Len(ids)
    /\ phase # "sent" \/ request = "media_publish" => Len(objects) = Len(ids) + 1
    /\ Len(ids) <= count

Parts ==
    \A i \in 1..Len(ids) :
        ids[i] \in 1..Len(objects) /\ objects[ids[i]].slides = <<i>>

\* What the object of the request at hand shows.
Slides ==
    /\ request \in {"photos", "media"} /\ phase # "sent" =>
            objects[Current].slides = <<Len(ids) + 1>>
    /\ request \in {"feed", "carousel"} /\ phase # "sent" =>
            objects[Current].slides = Whole
    /\ request = "media_publish" => objects[Current].slides = Whole

\* Only the object of the last request is ever public, once that is done.
Publicity ==
    \A i \in 1..Len(objects) :
        objects[i].live <=> i = Current /\ phase = "done" /\ Final

\* Only the container the client waits for may be unfinished.
Finished ==
    \A i \in 1..Len(objects) :
        \/ objects[i].status = "FINISHED"
        \/ i = Current /\ request \in {"media", "carousel"} /\ phase # "sent"

Reported == result = "published" => phase = "done" /\ Final

IInv == TypeOK /\ Place /\ Parts /\ Slides /\ Publicity /\ Finished /\ Reported

\* Initially there is no object and no id.
LEMMA InitInv == Init => IInv
<1> SUFFICES ASSUME Init PROVE IInv OBVIOUS
<1>1. TypeOK BY BoundsAssumption DEF Init, TypeOK, Requests, Results
<1>2. Place /\ Parts /\ Slides /\ Publicity /\ Finished /\ Reported
  BY <1>1, BoundsAssumption
     DEF Init, TypeOK, Place, Parts, Slides, Publicity, Finished, Reported, Current, Final
<1>. QED BY <1>1, <1>2 DEF IInv

\* The client's ids, in order, give all the images.
LEMMA AttachedIsWhole ==
    ASSUME IInv, Len(ids) = count
    PROVE  Attached = Whole /\ Whole \in Seq(1..MaxImages)
<1>1. \A i \in 1..Len(ids) : Head(objects[ids[i]].slides) = i
  BY DEF IInv, Parts
<1>2. Attached = Whole BY <1>1 DEF Attached, Whole
<1>3. count \in 1..MaxImages BY DEF IInv, TypeOK
<1>4. Whole \in [1..count -> 1..MaxImages] BY <1>3, BoundsAssumption DEF Whole
<1>5. Whole \in Seq(1..MaxImages) BY <1>3, <1>4, BoundsAssumption
<1>. QED BY <1>2, <1>5

\* A new object comes last and leaves the others alone.
LEMMA Created ==
    ASSUME TypeOK, NEW slides \in Seq(1..MaxImages),
           NEW status \in {"IN_PROGRESS", "FINISHED", "ERROR"}, NEW live \in BOOLEAN,
           Create(slides, status, live)
    PROVE  /\ objects' \in Seq(Object)
           /\ Len(objects') = Len(objects) + 1
           /\ \A i \in 1..Len(objects) : objects'[i] = objects[i]
           /\ objects'[Len(objects')] = [slides |-> slides, status |-> status, live |-> live]
BY DEF TypeOK, Create, Object

\* An object that is replaced leaves the others alone.
LEMMA Replaced ==
    ASSUME TypeOK, NEW i \in 1..Len(objects), NEW o \in Object,
           objects' = [objects EXCEPT ![i] = o]
    PROVE  /\ objects' \in Seq(Object)
           /\ Len(objects') = Len(objects)
           /\ objects'[i] = o
           /\ \A j \in 1..Len(objects) : j # i => objects'[j] = objects[j]
BY DEF TypeOK

\* The request at hand makes an object of the right slides.
Makes(slides, status, live) ==
    /\ slides \in Seq(1..MaxImages)
    /\ slides = IF request \in {"photos", "media"} THEN <<Len(ids) + 1>> ELSE Whole
    /\ status \in {"IN_PROGRESS", "FINISHED"}
    /\ status = "IN_PROGRESS" => request \in {"media", "carousel"}
    /\ live \in BOOLEAN
    /\ live <=> Final

\* A request that makes an object keeps the invariant.
LEMMA CreateStep ==
    ASSUME IInv, NEW r, Sent(r), r # "media_publish",
           NEW slides, NEW status, NEW live, Makes(slides, status, live),
           Create(slides, status, live)
    PROVE  IInv'
<1>0. TypeOK /\ Place /\ Parts /\ Slides /\ Publicity /\ Finished /\ Reported BY DEF IInv
<1>1. /\ request = r /\ phase = "sent" /\ phase' = "done" /\ result = "running"
      /\ UNCHANGED <<channel, count, request, ids, polls, slept, result>>
      /\ asked' = asked + 1
  BY DEF Sent, job
<1>2. /\ objects' \in Seq(Object)
      /\ Len(objects') = Len(objects) + 1
      /\ \A i \in 1..Len(objects) : objects'[i] = objects[i]
      /\ objects'[Len(objects')] = [slides |-> slides, status |-> status, live |-> live]
  BY <1>0, Created DEF Makes
<1>3. Len(objects) \in Nat /\ Len(ids) \in Nat BY <1>0 DEF TypeOK
<1>4. TypeOK' BY <1>0, <1>1, <1>2 DEF TypeOK
<1>5. Place' BY <1>0, <1>1, <1>2, <1>3 DEF Place
<1>6. Parts' BY <1>0, <1>1, <1>2, <1>3 DEF Parts
<1>7. Slides' BY <1>0, <1>1, <1>2 DEF Slides, Makes, Current, Whole, TypeOK, Requests
<1>8. Final' <=> Final BY <1>1 DEF Final
<1>9. Publicity'
  <2>1. \A i \in 1..Len(objects) : ~objects[i].live BY <1>0, <1>1 DEF Publicity
  <2>. QED BY <1>1, <1>2, <1>3, <1>8, <2>1 DEF Publicity, Makes, Current
<1>10. Finished'
  <2>1. \A i \in 1..Len(objects) : objects[i].status = "FINISHED"
    BY <1>0, <1>1 DEF Finished
  <2>. QED BY <1>1, <1>2, <1>3, <2>1 DEF Finished, Makes, Current
<1>11. Reported' BY <1>1 DEF Reported
<1>. QED BY <1>4, <1>5, <1>6, <1>7, <1>9, <1>10, <1>11 DEF IInv

\* The single images and the parts.
LEMMA OneSlide ==
    ASSUME IInv, request \in {"photos", "media"}
    PROVE  <<Len(ids) + 1>> \in Seq(1..MaxImages)
<1>1. Len(ids) \in Nat /\ Len(ids) < count /\ count \in 1..MaxImages
  BY DEF IInv, TypeOK, Place
<1>2. Len(ids) + 1 \in 1..MaxImages BY <1>1, BoundsAssumption
<1>. QED BY <1>2

\* Every request that Meta does keeps the invariant.
LEMMA MetaStep == ASSUME IInv, Meta PROVE IInv'
<1>0. TypeOK /\ Place /\ Parts /\ Slides /\ Publicity /\ Finished /\ Reported BY DEF IInv
<1>1. CASE DoPhotos
  <2>1. Sent("photos") /\ request = "photos" BY <1>1 DEF DoPhotos, Sent
  <2>2. Makes(<<Len(ids) + 1>>, "FINISHED", PhotoIsPublic)
    BY <2>1, OneSlide DEF Makes, PhotoIsPublic, Final
  <2>. QED BY <1>1, <2>1, <2>2, CreateStep DEF DoPhotos
<1>2. CASE DoFeed
  <2>1. Sent("feed") /\ request = "feed" BY <1>2 DEF DoFeed, Sent
  <2>2. Attached = Whole /\ Whole \in Seq(1..MaxImages)
    BY <1>0, <2>1, AttachedIsWhole DEF Place
  <2>3. Makes(Attached, "FINISHED", TRUE) BY <2>1, <2>2 DEF Makes, Final
  <2>. QED BY <1>2, <2>1, <2>3, CreateStep DEF DoFeed
<1>3. CASE DoMedia
  <2>1. Sent("media") /\ request = "media" BY <1>3 DEF DoMedia, Sent
  <2>2. Makes(<<Len(ids) + 1>>, "IN_PROGRESS", FALSE)
    BY <2>1, OneSlide DEF Makes, Final
  <2>. QED BY <1>3, <2>1, <2>2, CreateStep DEF DoMedia
<1>4. CASE DoCarousel
  <2>1. Sent("carousel") /\ request = "carousel" BY <1>4 DEF DoCarousel, Sent
  <2>2. Attached = Whole /\ Whole \in Seq(1..MaxImages)
    BY <1>0, <2>1, AttachedIsWhole DEF Place
  <2>3. Makes(Attached, "IN_PROGRESS", FALSE) BY <2>1, <2>2 DEF Makes, Final
  <2>. QED BY <1>4, <2>1, <2>3, CreateStep DEF DoCarousel
<1>5. CASE DoPublish
  <2>1. /\ request = "media_publish" /\ phase = "sent" /\ phase' = "done"
        /\ result = "running"
        /\ UNCHANGED <<channel, count, request, ids, polls, slept, result>>
        /\ asked' = asked + 1
        /\ objects' = [objects EXCEPT ![Current].live = TRUE]
    BY <1>5 DEF DoPublish, Sent, job
  <2>2. Current \in 1..Len(objects) /\ Len(objects) \in Nat
    BY <1>0, <2>1 DEF Place, Current, TypeOK
  <2>3. objects[Current] \in Object BY <1>0, <2>2 DEF TypeOK
  <2> DEFINE o == [objects[Current] EXCEPT !.live = TRUE]
  <2>11. /\ o \in Object /\ o.live = TRUE
         /\ o.slides = objects[Current].slides /\ o.status = objects[Current].status
    BY <2>3 DEF Object
  <2>12. objects' = [objects EXCEPT ![Current] = o] BY <2>1
  <2> HIDE DEF o
  <2>4. /\ Len(objects') = Len(objects)
        /\ objects' \in Seq(Object)
        /\ \A i \in 1..Len(objects) :
              /\ objects'[i].slides = objects[i].slides
              /\ objects'[i].status = objects[i].status
              /\ i # Current => objects'[i].live = objects[i].live
        /\ objects'[Current].live = TRUE
    BY <1>0, <2>2, <2>11, <2>12, Replaced
  <2>5. TypeOK' BY <1>0, <2>1, <2>4 DEF TypeOK
  <2>6. Place' /\ Reported' BY <1>0, <2>1, <2>4 DEF Place, Reported
  <2>7. Parts' BY <1>0, <2>1, <2>4 DEF Parts
  <2>8. Slides' BY <1>0, <2>1, <2>2, <2>4 DEF Slides, Current, Whole
  <2>9. Publicity' BY <1>0, <2>1, <2>2, <2>4 DEF Publicity, Current, Final
  <2>10. Finished' BY <1>0, <2>1, <2>4 DEF Finished
  <2>. QED BY <2>5, <2>6, <2>7, <2>8, <2>9, <2>10 DEF IInv
<1>. QED BY <1>1, <1>2, <1>3, <1>4, <1>5 DEF Meta

\* The end of an attempt keeps the invariant, if success is the last answer.
LEMMA EndStep ==
    ASSUME IInv, NEW r \in Results, End(r), r = "published" => phase = "done" /\ Final
    PROVE  IInv'
<1>0. TypeOK /\ Place /\ Parts /\ Slides /\ Publicity /\ Finished /\ Reported BY DEF IInv
<1>1. /\ UNCHANGED <<channel, count, objects, request, phase, ids, polls, slept, asked>>
      /\ result' = r
  BY DEF End, job
<1>2. TypeOK' BY <1>0, <1>1 DEF TypeOK
<1>3. Place' /\ Parts' /\ Slides' BY <1>0, <1>1 DEF Place, Parts, Slides, Current, Whole
<1>4. Publicity' /\ Finished' /\ Reported'
  BY <1>0, <1>1 DEF Publicity, Finished, Reported, Current, Final
<1>. QED BY <1>2, <1>3, <1>4 DEF IInv

\* A finished part joins the ids, and the next request is of the right kind.
LEMMA AppendStep ==
    ASSUME IInv, count > 1, NEW r1 \in {"photos", "media"}, request = r1,
           phase \in {"done", "waiting"}, objects[Current].status = "FINISHED",
           NEW r2 \in {"feed", "carousel"}, r1 = "photos" <=> r2 = "feed",
           AppendId, GoOn(IF Len(ids') < count THEN r1 ELSE r2), polls' \in 0..MaxPolls, asked' \in Nat
    PROVE  IInv'
<1>0. TypeOK /\ Place /\ Parts /\ Slides /\ Publicity /\ Finished /\ Reported BY DEF IInv
<1>1. /\ result = "running" /\ phase' = "sent"
      /\ request' = IF Len(ids') < count THEN r1 ELSE r2
      /\ UNCHANGED <<channel, count, objects, slept, result>>
      /\ ids' = Append(ids, Current)
  BY DEF GoOn, AppendId, job
<1>2. /\ Len(ids) \in Nat /\ Len(objects) = Len(ids) + 1 /\ Len(ids) < count
      /\ count \in 1..MaxImages /\ Current \in Positions
  BY <1>0, BoundsAssumption DEF TypeOK, Place, Current, Positions
<1>3. /\ ids' \in Seq(Positions) /\ Len(ids') = Len(ids) + 1
      /\ \A i \in 1..Len(ids) : ids'[i] = ids[i]
      /\ ids'[Len(ids) + 1] = Current
  BY <1>0, <1>1, <1>2 DEF TypeOK
<1>4. TypeOK' BY <1>0, <1>1, <1>3 DEF TypeOK, Requests
<1>5. Place' BY <1>1, <1>2, <1>3, BoundsAssumption DEF Place
<1>6. Parts'
  <2>1. objects[Current].slides = <<Len(ids) + 1>> BY <1>0 DEF Slides
  <2>. QED BY <1>0, <1>1, <1>2, <1>3, <2>1 DEF Parts, Current
<1>7. Slides' BY <1>1 DEF Slides
<1>8. ~Final BY DEF Final
<1>9. Publicity' BY <1>0, <1>1, <1>8 DEF Publicity
<1>10. Finished' BY <1>0, <1>1 DEF Finished
<1>11. Reported' BY <1>1 DEF Reported
<1>. QED BY <1>4, <1>5, <1>6, <1>7, <1>9, <1>10, <1>11 DEF IInv

\* A finished whole is the object to publish.
LEMMA PublishStep ==
    ASSUME IInv, phase = "waiting", request \in {"media", "carousel"},
           request = "carousel" \/ count = 1, objects[Current].status = "FINISHED",
           GoOn("media_publish"), polls' = 0, asked' \in Nat, UNCHANGED ids
    PROVE  IInv'
<1>0. TypeOK /\ Place /\ Parts /\ Slides /\ Publicity /\ Finished /\ Reported BY DEF IInv
<1>1. /\ result = "running" /\ phase' = "sent" /\ request' = "media_publish"
      /\ UNCHANGED <<channel, count, objects, slept, result, ids>>
  BY DEF GoOn, job
<1>2. Len(ids) \in Nat /\ count \in Nat /\ Len(objects) = Len(ids) + 1
  BY <1>0 DEF TypeOK, Place
<1>3. TypeOK' BY <1>0, <1>1, BoundsAssumption DEF TypeOK, Requests
<1>4. Place' BY <1>0, <1>1, <1>2 DEF Place
<1>5. Parts' BY <1>0, <1>1 DEF Parts
<1>6. Slides'
  <2>1. CASE request = "carousel" BY <1>0, <1>1, <2>1 DEF Slides, Current, Whole
  <2>2. CASE request = "media"
    <3>1. count = 1 /\ Len(ids) = 0 BY <1>0, <1>2, <2>2 DEF Place
    <3>2. objects[Current].slides = <<1>> BY <1>0, <2>2, <3>1 DEF Slides
    <3>3. <<1>> = [j \in 1..1 |-> j] OBVIOUS
    <3>. QED BY <1>1, <3>1, <3>2, <3>3 DEF Slides, Current, Whole
  <2>. QED BY <2>1, <2>2
<1>7. Publicity' BY <1>0, <1>1 DEF Publicity
<1>8. Finished' BY <1>0, <1>1 DEF Finished, Current
<1>9. Reported' BY <1>1 DEF Reported
<1>. QED BY <1>3, <1>4, <1>5, <1>6, <1>7, <1>8, <1>9 DEF IInv

\* Every step of the client keeps the invariant.
LEMMA ClientStep == ASSUME IInv, Client PROVE IInv'
<1>0. TypeOK /\ Place /\ Parts /\ Slides /\ Publicity /\ Finished /\ Reported BY DEF IInv
<1>1. CASE \/ NotAccepted \/ Rejected \/ AnswerLost \/ AnswerUnreadable
           \/ PollFailed \/ PollUnavailable \/ PollRejected \/ GiveUp
  <2>1. PICK r \in {"transient", "permanent"} : End(r)
    BY <1>1 DEF NotAccepted, Rejected, AnswerLost, AnswerUnreadable, PollFailed,
       PollUnavailable, PollRejected, GiveUp
  <2>. QED BY <2>1, EndStep DEF Results
<1>2. CASE AnswerPublished
  BY <1>2, EndStep DEF AnswerPublished, Results
<1>3. CASE AnswerPhoto
  <2>1. phase = "done" /\ request = "photos" /\ count > 1 BY <1>3 DEF AnswerPhoto
  <2>2. /\ AppendId /\ GoOn(IF Len(ids') < count THEN "photos" ELSE "feed")
        /\ UNCHANGED <<polls, asked>>
    BY <1>3 DEF AnswerPhoto
  <2>3. Current \in 1..Len(objects) BY <1>0, <2>1 DEF Place, Current, TypeOK
  <2>4. objects[Current].status = "FINISHED" BY <1>0, <2>1, <2>3 DEF Finished
  <2>5. polls' \in 0..MaxPolls /\ asked' \in Nat BY <1>0, <2>2 DEF TypeOK
  <2>. QED BY <2>1, <2>2, <2>4, <2>5, AppendStep
<1>4. CASE AnswerContainer
  <2>1. /\ phase = "done" /\ phase' = "waiting" /\ request \in {"media", "carousel"}
        /\ result = "running" /\ polls' = 0
        /\ UNCHANGED <<channel, count, objects, request, ids, slept, asked, result>>
    BY <1>4 DEF AnswerContainer, job
  <2>2. ~Final /\ ~Final'
    BY <2>1 DEF Final
  <2>3. TypeOK' BY <1>0, <2>1, BoundsAssumption DEF TypeOK
  <2>4. Place' /\ Parts' /\ Slides' BY <1>0, <2>1 DEF Place, Parts, Slides, Current, Whole
  <2>5. Publicity' /\ Finished' /\ Reported'
    BY <1>0, <2>1, <2>2 DEF Publicity, Finished, Reported, Current
  <2>. QED BY <2>3, <2>4, <2>5 DEF IInv
<1>5. CASE PollUnfinished
  <2>1. /\ polls < MaxPolls /\ polls' = polls + 1 /\ asked' = asked + 1
        /\ slept' = IF polls' < MaxPolls THEN slept + PollDelay ELSE slept
        /\ UNCHANGED <<channel, count, objects, request, phase, ids, result>>
    BY <1>5 DEF PollUnfinished, Polled, job
  <2>2. TypeOK' BY <1>0, <2>1, BoundsAssumption DEF TypeOK
  <2>3. Place' /\ Parts' /\ Slides' BY <1>0, <2>1 DEF Place, Parts, Slides, Current, Whole
  <2>4. Publicity' /\ Finished' /\ Reported'
    BY <1>0, <2>1 DEF Publicity, Finished, Reported, Current, Final
  <2>. QED BY <2>2, <2>3, <2>4 DEF IInv
<1>6. CASE PollFinishedPart
  <2>1. /\ phase = "waiting" /\ request = "media" /\ count > 1
        /\ objects[Current].status = "FINISHED"
        /\ polls' \in 0..MaxPolls /\ asked' \in Nat
    BY <1>0, <1>6, BoundsAssumption DEF PollFinishedPart, Polled, TypeOK
  <2>2. AppendId /\ GoOn(IF Len(ids') < count THEN "media" ELSE "carousel")
    BY <1>6 DEF PollFinishedPart
  <2>. QED BY <2>1, <2>2, AppendStep
<1>7. CASE PollFinishedWhole
  <2>1. /\ phase = "waiting" /\ objects[Current].status = "FINISHED"
        /\ asked' \in Nat
    BY <1>0, <1>7 DEF PollFinishedWhole, Polled, TypeOK
  <2>2. request \in {"media", "carousel"} BY <1>0, <2>1 DEF Place
  <2>. QED BY <1>7, <2>1, <2>2, PublishStep DEF PollFinishedWhole
<1>. QED BY <1>1, <1>2, <1>3, <1>4, <1>5, <1>6, <1>7 DEF Client

\* Meta's processing of a container keeps the invariant.
LEMMA ProcessStep == ASSUME IInv, Process PROVE IInv'
<1>0. TypeOK /\ Place /\ Parts /\ Slides /\ Publicity /\ Finished /\ Reported BY DEF IInv
<1>1. PICK i \in 1..Len(objects), s \in {"FINISHED", "ERROR"} :
          /\ objects[i].status = "IN_PROGRESS"
          /\ objects' = [objects EXCEPT ![i].status = s]
          /\ UNCHANGED <<channel, count, request, phase, ids, polls, slept, asked, result>>
  BY DEF Process, job
<1>2. objects[i] \in Object BY <1>0 DEF TypeOK
<1> DEFINE o == [objects[i] EXCEPT !.status = s]
<1>11. /\ o \in Object
       /\ o.slides = objects[i].slides /\ o.live = objects[i].live
  BY <1>2 DEF Object
<1>12. objects' = [objects EXCEPT ![i] = o] BY <1>1
<1> HIDE DEF o
<1>3. /\ Len(objects') = Len(objects)
      /\ objects' \in Seq(Object)
      /\ \A j \in 1..Len(objects) :
            /\ objects'[j].slides = objects[j].slides
            /\ objects'[j].live = objects[j].live
            /\ j # i => objects'[j].status = objects[j].status
  BY <1>0, <1>11, <1>12, Replaced
<1>4. TypeOK' BY <1>0, <1>1, <1>3 DEF TypeOK
<1>5. Place' /\ Reported' BY <1>0, <1>1, <1>3 DEF Place, Reported, Final
<1>6. Parts' BY <1>0, <1>1, <1>3 DEF Parts
<1>7. Slides'
  <2>1. phase # "sent" \/ request = "media_publish" => Current \in 1..Len(objects)
    BY <1>0 DEF Place, Current, TypeOK
  <2>. QED BY <1>0, <1>1, <1>3, <2>1 DEF Slides, Current, Whole
<1>8. Publicity' BY <1>0, <1>1, <1>3 DEF Publicity, Current, Final
<1>9. Finished' BY <1>0, <1>1, <1>3 DEF Finished, Current
<1>. QED BY <1>4, <1>5, <1>6, <1>7, <1>8, <1>9 DEF IInv

\* The invariant is kept by every step.
LEMMA StepInv == IInv /\ [Next]_vars => IInv'
<1> SUFFICES ASSUME IInv, [Next]_vars PROVE IInv' OBVIOUS
<1>1. CASE UNCHANGED vars
  BY <1>1 DEF vars, IInv, TypeOK, Place, Parts, Slides, Publicity, Finished, Reported,
     Current, Final, Whole
<1>2. CASE InTime(Meta) BY <1>2, MetaStep DEF InTime
<1>3. CASE InTime(Client) BY <1>3, ClientStep DEF InTime
<1>4. CASE Process BY <1>4, ProcessStep
<1>5. CASE Kill BY <1>5, EndStep DEF Kill, Results
<1>6. CASE Ended BY <1>1, <1>6 DEF Ended
<1>. QED BY <1>1, <1>2, <1>3, <1>4, <1>5, <1>6 DEF Next

\* The strengthened invariant holds in every reachable state.
THEOREM Invariant == Spec => []IInv
BY InitInv, StepInv, PTL DEF Spec

\* Every reachable state is well typed.
THEOREM TypeCorrect == Spec => []TypeOK
<1>1. IInv => TypeOK BY DEF IInv
<1>. QED BY <1>1, Invariant, PTL

\* What an attempt makes public is whole and in the author's order.
THEOREM PublicPostsAreWhole == Spec => []PublicIsWhole
<1>1. IInv => PublicIsWhole
  <2> SUFFICES ASSUME IInv, NEW i \in 1..Len(objects), objects[i].live
               PROVE  objects[i].slides = Whole
    BY DEF PublicIsWhole, Whole
  <2>1. i = Current /\ phase = "done" /\ Final BY DEF IInv, Publicity
  <2>2. CASE request = "photos"
    <3>1. count = 1 /\ Len(ids) = 0 BY <2>1, <2>2 DEF Final, IInv, Place, TypeOK
    <3>2. objects[i].slides = <<1>> BY <2>1, <2>2, <3>1 DEF IInv, Slides
    <3>3. <<1>> = [j \in 1..1 |-> j] OBVIOUS
    <3>. QED BY <3>1, <3>2, <3>3 DEF Whole
  <2>3. CASE request # "photos" BY <2>1, <2>3 DEF IInv, Slides, Final
  <2>. QED BY <2>2, <2>3
<1>. QED BY <1>1, Invariant, PTL

\* Nothing is public while any of its containers is unfinished.
THEOREM PublicPostsAreFinished == Spec => []PublicIsFinished
<1>1. IInv => PublicIsFinished
  BY DEF IInv, PublicIsFinished, Publicity, Finished, Final
<1>. QED BY <1>1, Invariant, PTL

\* The public objects, as ImplementsCall counts them.
Live == {i \in 1..Len(objects) : objects[i].live}

AllDone == phase = "done" /\ Final

\* There is one public object once the last request is done, none before.
LEMMA LiveSet ==
    ASSUME IInv PROVE Live = IF AllDone THEN {Current} ELSE {}
<1>1. AllDone => Current \in 1..Len(objects)
  BY DEF AllDone, IInv, Place, Current, TypeOK
<1>. QED BY <1>1 DEF AllDone, Live, IInv, Publicity

\* The sizes of such sets.
LEMMA Sizes == ASSUME NEW x PROVE Cardinality({x}) = 1 /\ Cardinality({}) = 0
BY FS_Singleton, FS_EmptySet

\* Initially nothing is public.
LEMMA CallInit == Init => Call!Init
<1> SUFFICES ASSUME Init PROVE Call!Init OBVIOUS
<1>1. Cardinality(Live) = 0
  BY FS_EmptySet DEF Init, Live
<1>. QED BY <1>1 DEF Call!Init, Init, Live

\* Every step of Meta and of the client is a step of the one call, or none.
LEMMA CallStep == IInv /\ [Next]_vars => [Call!Next]_(Call!vars)
<1> SUFFICES ASSUME IInv, [Next]_vars PROVE [Call!Next]_(Call!vars) OBVIOUS
<1>1. Live = IF AllDone THEN {Current} ELSE {} BY LiveSet
<1>2. Live' = IF AllDone' THEN {Current'} ELSE {}
  <2>1. IInv' BY StepInv
  <2>2. AllDone' => Current' \in 1..Len(objects')
    BY <2>1 DEF AllDone, IInv, Place, Current, TypeOK
  <2>. QED BY <2>1, <2>2 DEF AllDone, Live, IInv, Publicity
<1>3. /\ Cardinality(Live) = IF AllDone THEN 1 ELSE 0
      /\ Cardinality(Live') = IF AllDone' THEN 1 ELSE 0
  BY <1>1, <1>2, Sizes
<1> DEFINE Post == Cardinality({i \in 1..Len(objects) : objects[i].live})
<1>4. Post = (IF AllDone THEN 1 ELSE 0) /\ Post' = (IF AllDone' THEN 1 ELSE 0)
  BY <1>3 DEF Live
<1> HIDE DEF Post
<1>5. SUFFICES [\/ result = "running" /\ Post = 0 /\ Post' = 1 /\ UNCHANGED result
                \/ result = "running" /\ Post = 1 /\ result' = "published" /\ UNCHANGED Post
                \/ result = "running" /\ result' \in Call!Failures /\ UNCHANGED Post
               ]_<<Post, result>>
  BY DEF Post, Call!Next, Call!vars, Call!Accept, Call!Report, Call!Fail
<1>6. CASE UNCHANGED vars
  BY <1>4, <1>6 DEF vars, AllDone, Final
<1>7. ASSUME NEW r \in Results \ {"running"}, End(r), r = "published" => AllDone
      PROVE  UNCHANGED <<request, phase, count>> /\ result = "running" /\ result' = r
             /\ (r = "published" => AllDone)
  BY <1>7 DEF End, job
<1>8. CASE \E r \in Results \ {"running"} : End(r) /\ (r = "published" => AllDone)
  BY <1>4, <1>7, <1>8 DEF AllDone, Final, Results, Call!Failures
<1>9. CASE Meta
  <2>1. result = "running" /\ UNCHANGED result /\ ~AllDone
    BY <1>9 DEF Meta, DoPhotos, DoFeed, DoMedia, DoCarousel, DoPublish, Sent, AllDone
  <2>. QED BY <1>4, <2>1
<1>10. CASE AnswerPhoto \/ AnswerContainer \/ PollUnfinished \/ PollFinishedPart \/ PollFinishedWhole
  <2>1. UNCHANGED result /\ ~AllDone /\ ~AllDone'
    <3>1. phase = "waiting" => request \in {"media", "carousel"} BY DEF IInv, Place
    <3>. QED
      BY <1>10, <3>1 DEF AnswerPhoto, AnswerContainer, PollUnfinished, PollFinishedPart,
         PollFinishedWhole, Polled, GoOn, AllDone, Final, job
  <2>. QED BY <1>4, <2>1
<1>11. CASE Process
  BY <1>4, <1>11 DEF Process, job, AllDone, Final
<1>12. Client => \/ AnswerPhoto \/ AnswerContainer \/ PollUnfinished \/ PollFinishedPart
                 \/ PollFinishedWhole
                 \/ \E r \in Results \ {"running"} : End(r) /\ (r = "published" => AllDone)
  BY DEF Client, NotAccepted, Rejected, AnswerLost, AnswerUnreadable, AnswerPublished,
     PollFailed, PollUnavailable, PollRejected, GiveUp, Results, AllDone
<1>. QED
  BY <1>6, <1>8, <1>9, <1>10, <1>11, <1>12 DEF Next, InTime, Kill, Ended, Results

\* All the requests of an attempt are one call of ProviderCall.
THEOREM PublishingImplementsCall == Spec => ImplementsCall
BY CallInit, CallStep, Invariant, PTL DEF Spec, ImplementsCall, Call!Spec

-----------------------------------------------------------------------------
(***************************************************************************)
(* The effort of an attempt.  Every container that was finished has cost at *)
(* most MostWait seconds and MostAsked requests, the one at hand the pauses *)
(* and requests made so far; and there are never more than Containers.      *)
(***************************************************************************)

\* The most a container can cost, in seconds and in requests.
MostWait == (MaxPolls - 1) * PollDelay
MostAsked == 1 + MaxPolls

\* The containers whose wait is over, and what the current one has cost.
WaitsOver == IF request = "media_publish" THEN Containers ELSE Len(ids)
CurrentWait ==
    CASE phase # "waiting" -> 0
      [] phase = "waiting" /\ polls < MaxPolls -> polls * PollDelay
      [] OTHER -> MostWait
CurrentAsked ==
    CASE phase = "sent" -> 0
      [] phase = "done" -> 1
      [] OTHER -> 1 + polls

EffortInv ==
    /\ channel = "facebook" <=> request \in {"photos", "feed"}
    /\ channel = "facebook" => slept = 0 /\ asked = Len(objects)
    /\ channel = "instagram" => /\ slept <= WaitsOver * MostWait + CurrentWait
                                /\ asked <= WaitsOver * MostAsked + CurrentAsked

\* The products that occur.
LEMMA Products ==
    ASSUME NEW a \in Nat, NEW b \in Nat, NEW d \in Nat
    PROVE  /\ a * d \in Nat
           /\ (a + 1) * d = a * d + d
           /\ a <= b => a * d <= b * d
<1>1. a * d \in Nat OBVIOUS
<1>2. (a + 1) * d = a * d + d OBVIOUS
<1>3. ASSUME a <= b PROVE a * d <= b * d
  <2>1. PICK c \in Nat : b = a + c
    <3>1. b - a \in Nat /\ b = a + (b - a) BY <1>3
    <3>. QED BY <3>1
  <2>2. b * d = a * d + c * d BY <2>1
  <2>3. c * d \in Nat OBVIOUS
  <2>. QED BY <1>1, <2>2, <2>3
<1>. QED BY <1>1, <1>2, <1>3

\* What the pauses for one container add up to.
LEMMA PollCost ==
    /\ MostWait \in Nat
    /\ \A p \in 0..MaxPolls : p < MaxPolls =>
          /\ p * PollDelay \in Nat
          /\ p * PollDelay <= MostWait
          /\ (p + 1) * PollDelay = p * PollDelay + PollDelay
          /\ p + 1 = MaxPolls => p * PollDelay = MostWait
<1>1. MostWait \in Nat
  <2>1. MaxPolls - 1 \in Nat BY BoundsAssumption
  <2>. QED BY <2>1, Products, BoundsAssumption DEF MostWait
<1>2. ASSUME NEW p \in 0..MaxPolls, p < MaxPolls
      PROVE  /\ p * PollDelay \in Nat
             /\ p * PollDelay <= MostWait
             /\ (p + 1) * PollDelay = p * PollDelay + PollDelay
             /\ p + 1 = MaxPolls => p * PollDelay = MostWait
  <2>1. /\ p \in Nat /\ MaxPolls - 1 \in Nat /\ p <= MaxPolls - 1
        /\ MostWait = (MaxPolls - 1) * PollDelay
    BY <1>2, BoundsAssumption DEF MostWait
  <2>2. p + 1 = MaxPolls => p = MaxPolls - 1
    BY <2>1, BoundsAssumption
  <2>. QED BY <2>1, <2>2, Products, BoundsAssumption
<1>. QED BY <1>1, <1>2

\* The types of the quantities.
LEMMA EffortTypes ==
    ASSUME IInv
    PROVE  /\ Containers \in Nat /\ WaitsOver \in Nat
           /\ CurrentWait \in Nat /\ CurrentWait <= MostWait /\ MostWait \in Nat
           /\ CurrentAsked \in Nat /\ CurrentAsked <= MostAsked /\ MostAsked \in Nat
           /\ WaitsOver * MostWait \in Nat /\ WaitsOver * MostAsked \in Nat
           /\ slept \in Nat /\ asked \in Nat /\ polls \in 0..MaxPolls
<1>1. /\ Len(ids) \in Nat /\ count \in Nat /\ slept \in Nat /\ asked \in Nat
      /\ polls \in 0..MaxPolls
  BY BoundsAssumption DEF IInv, TypeOK
<1>2. Containers \in Nat /\ WaitsOver \in Nat
  BY <1>1 DEF Containers, WaitsOver
<1>3. MostWait \in Nat BY PollCost
<1>4. CurrentWait \in Nat /\ CurrentWait <= MostWait
  <2>1. CASE phase = "waiting" /\ polls < MaxPolls
    BY <1>1, <1>3, <2>1, PollCost DEF CurrentWait
  <2>2. CASE ~(phase = "waiting" /\ polls < MaxPolls)
    BY <1>3, <2>2 DEF CurrentWait
  <2>. QED BY <2>1, <2>2
<1>5. MostAsked \in Nat /\ CurrentAsked \in Nat /\ CurrentAsked <= MostAsked
  BY <1>1, BoundsAssumption DEF CurrentAsked, MostAsked
<1>6. WaitsOver * MostWait \in Nat /\ WaitsOver * MostAsked \in Nat
  BY <1>2, <1>3, <1>5, Products
<1>. QED BY <1>1, <1>2, <1>3, <1>4, <1>5, <1>6

\* Containers that are done and the one at hand are within the bound.
LEMMA Fits ==
    ASSUME IInv, NEW most \in Nat, NEW now \in Nat, now <= most
    PROVE  /\ request # "media_publish" /\ request # "feed" =>
                WaitsOver * most + now <= Containers * most
           /\ WaitsOver <= Containers
           /\ WaitsOver * most <= Containers * most
           /\ WaitsOver * most \in Nat /\ Containers * most \in Nat
<1>1. Containers \in Nat /\ WaitsOver \in Nat BY EffortTypes
<1>2. Len(ids) \in Nat /\ count \in Nat /\ count > 0
  BY DEF IInv, TypeOK
<1>3. WaitsOver <= Containers
  BY <1>2 DEF IInv, Place, WaitsOver, Containers
<1>4. /\ WaitsOver * most <= Containers * most
      /\ WaitsOver * most \in Nat /\ Containers * most \in Nat
  BY <1>1, <1>3, Products
<1>5. ASSUME request # "media_publish", request # "feed"
      PROVE  WaitsOver * most + now <= Containers * most
  <2>1. WaitsOver + 1 <= Containers
    BY <1>2, <1>5 DEF IInv, TypeOK, Requests, Place, WaitsOver, Containers
  <2>2. (WaitsOver + 1) * most <= Containers * most
    <3>1. WaitsOver + 1 \in Nat BY <1>1
    <3>. QED BY <1>1, <2>1, <3>1, Products
  <2>3. (WaitsOver + 1) * most = WaitsOver * most + most BY <1>1, Products
  <2>. QED BY <1>4, <2>2, <2>3
<1>. QED BY <1>3, <1>4, <1>5

\* The bounds follow from the invariant.
LEMMA EffortBound ==
    ASSUME IInv, EffortInv
    PROVE  EffortIsBounded
<1>1. CASE channel = "facebook"
  <2>1. slept = 0 /\ asked = Len(objects) /\ request \in {"photos", "feed"}
    BY <1>1 DEF EffortInv
  <2>2. Len(objects) <= Containers
    <3>1. Len(ids) \in Nat /\ Len(objects) \in Nat /\ count \in Nat /\ count > 0
      BY DEF IInv, TypeOK
    <3>. QED BY <2>1, <3>1 DEF IInv, Place, Containers
  <2>. QED BY <1>1, <2>1, <2>2 DEF EffortIsBounded
<1>2. CASE channel # "facebook"
  <2>1. channel = "instagram" /\ request \in {"media", "carousel", "media_publish"}
    BY <1>2 DEF EffortInv, IInv, TypeOK, Channels, Requests
  <2>2. /\ slept <= WaitsOver * MostWait + CurrentWait
        /\ asked <= WaitsOver * MostAsked + CurrentAsked
    BY <2>1 DEF EffortInv
  <2>3. /\ slept \in Nat /\ asked \in Nat
        /\ CurrentWait \in Nat /\ CurrentWait <= MostWait /\ MostWait \in Nat
        /\ CurrentAsked \in Nat /\ CurrentAsked <= MostAsked /\ MostAsked \in Nat
    BY EffortTypes
  <2>4. slept <= Containers * MostWait
    <3>1. /\ request # "media_publish" =>
                WaitsOver * MostWait + CurrentWait <= Containers * MostWait
          /\ WaitsOver * MostWait <= Containers * MostWait
          /\ WaitsOver * MostWait \in Nat /\ Containers * MostWait \in Nat
      BY <2>1, <2>3, Fits
    <3>2. request = "media_publish" => CurrentWait = 0
      BY DEF IInv, Place, CurrentWait
    <3>. QED BY <2>2, <2>3, <3>1, <3>2
  <2>5. asked <= Containers * MostAsked + 1
    <3>1. /\ request # "media_publish" =>
                WaitsOver * MostAsked + CurrentAsked <= Containers * MostAsked
          /\ WaitsOver * MostAsked <= Containers * MostAsked
          /\ WaitsOver * MostAsked \in Nat /\ Containers * MostAsked \in Nat
      BY <2>1, <2>3, Fits
    <3>2. request = "media_publish" => CurrentAsked <= 1
      BY DEF IInv, TypeOK, Place, CurrentAsked
    <3>. QED BY <2>2, <2>3, <3>1, <3>2
  <2>. QED BY <1>2, <2>4, <2>5 DEF EffortIsBounded, MostWait, MostAsked
<1>. QED BY <1>1, <1>2

\* A step that neither asks, nor sleeps, nor ends a wait.
LEMMA EffortKept ==
    ASSUME EffortInv,
           UNCHANGED <<channel, count, request, phase, ids, polls, slept, asked>>,
           Len(objects') = Len(objects)
    PROVE  EffortInv'
<1>1. WaitsOver' = WaitsOver /\ CurrentWait' = CurrentWait /\ CurrentAsked' = CurrentAsked
  BY DEF WaitsOver, CurrentWait, CurrentAsked, Containers
<1>. QED BY <1>1 DEF EffortInv

\* A container that is finished was asked for once more, and cost no more than any.
LEMMA WaitEnds ==
    ASSUME IInv, EffortInv, phase = "waiting", phase' = "sent", polls < MaxPolls,
           UNCHANGED <<channel, count, slept, result>>, asked' = asked + 1,
           request' \in {"media", "carousel", "media_publish"},
           WaitsOver' = WaitsOver + 1
    PROVE  EffortInv'
<1>1. channel = "instagram"
  BY DEF IInv, TypeOK, Channels, Place, EffortInv
<1>2. /\ WaitsOver \in Nat
      /\ CurrentWait \in Nat /\ CurrentWait <= MostWait /\ MostWait \in Nat
      /\ CurrentAsked \in Nat /\ MostAsked \in Nat
      /\ WaitsOver * MostWait \in Nat /\ WaitsOver * MostAsked \in Nat
      /\ slept \in Nat /\ asked \in Nat
  BY EffortTypes
<1>3. /\ slept <= WaitsOver * MostWait + CurrentWait
      /\ asked <= WaitsOver * MostAsked + CurrentAsked
  BY <1>1 DEF EffortInv
<1>4. /\ (WaitsOver + 1) * MostWait = WaitsOver * MostWait + MostWait
      /\ (WaitsOver + 1) * MostAsked = WaitsOver * MostAsked + MostAsked
  BY <1>2, Products
<1>5. CurrentWait' = 0 /\ CurrentAsked' = 0 BY DEF CurrentWait, CurrentAsked
<1>6. CurrentAsked + 1 <= MostAsked
  BY BoundsAssumption DEF CurrentAsked, MostAsked, IInv, TypeOK
<1>7. slept' <= WaitsOver' * MostWait + CurrentWait'
  BY <1>2, <1>3, <1>4, <1>5
<1>8. asked' <= WaitsOver' * MostAsked + CurrentAsked'
  BY <1>2, <1>3, <1>4, <1>5, <1>6
<1>. QED BY <1>1, <1>7, <1>8 DEF EffortInv, MostWait, MostAsked

\* Meta does what it is asked: one request more.
LEMMA EffortMetaStep ==
    ASSUME IInv, EffortInv, Meta
    PROVE  EffortInv'
<1>1. /\ UNCHANGED <<channel, count, request, ids, polls, slept>>
      /\ phase = "sent" /\ phase' = "done" /\ asked' = asked + 1
  BY DEF Meta, DoPhotos, DoFeed, DoMedia, DoCarousel, DoPublish, Sent, job
<1>2. WaitsOver' = WaitsOver BY <1>1 DEF WaitsOver, Containers
<1>3. CurrentWait = 0 /\ CurrentWait' = 0 BY <1>1 DEF CurrentWait
<1>4. CurrentAsked = 0 /\ CurrentAsked' = 1 BY <1>1 DEF CurrentAsked
<1>5. /\ asked \in Nat /\ WaitsOver * MostAsked \in Nat BY EffortTypes
<1>6. channel = "facebook" => Len(objects') = Len(objects) + 1
  <2>1. request \in {"photos", "feed"} => DoPhotos \/ DoFeed
    BY DEF Meta, DoMedia, DoCarousel, DoPublish, Sent
  <2>2. DoPhotos \/ DoFeed => Len(objects') = Len(objects) + 1
    BY DEF DoPhotos, DoFeed, Create, IInv, TypeOK
  <2>. QED BY <2>1, <2>2 DEF EffortInv
<1>7. asked <= WaitsOver * MostAsked + CurrentAsked
        => asked' <= WaitsOver' * MostAsked + CurrentAsked'
  BY <1>1, <1>2, <1>4, <1>5
<1>8. slept <= WaitsOver * MostWait + CurrentWait
        => slept' <= WaitsOver' * MostWait + CurrentWait'
  BY <1>1, <1>2, <1>3 DEF MostWait
<1>. QED BY <1>1, <1>6, <1>7, <1>8 DEF EffortInv, MostWait, MostAsked

\* Every step of the client keeps the effort within the bound.
LEMMA EffortClientStep ==
    ASSUME IInv, EffortInv, Client
    PROVE  EffortInv'
<1>0. TypeOK /\ Place BY DEF IInv
<1>1. CASE \/ NotAccepted \/ Rejected \/ AnswerLost \/ AnswerUnreadable
           \/ AnswerPublished \/ PollFailed \/ PollUnavailable \/ PollRejected \/ GiveUp
  <2>1. PICK r \in {"transient", "permanent", "published"} : End(r)
    BY <1>1 DEF NotAccepted, Rejected, AnswerLost, AnswerUnreadable, AnswerPublished,
       PollFailed, PollUnavailable, PollRejected, GiveUp
  <2>2. UNCHANGED <<channel, count, objects, request, phase, ids, polls, slept, asked>>
    BY <2>1 DEF End, job
  <2>. QED BY <2>2, EffortKept
<1>2. CASE AnswerPhoto
  <2>1. /\ UNCHANGED <<channel, count, objects, slept, asked>>
        /\ request = "photos" /\ request' \in {"photos", "feed"}
    BY <1>2 DEF AnswerPhoto, GoOn, job
  <2>2. channel = "facebook" BY <2>1 DEF EffortInv
  <2>. QED BY <2>1, <2>2 DEF EffortInv
<1>3. CASE AnswerContainer
  <2>1. /\ UNCHANGED <<channel, count, objects, request, ids, slept, asked>>
        /\ phase = "done" /\ phase' = "waiting" /\ polls' = 0
    BY <1>3 DEF AnswerContainer, job
  <2>2. WaitsOver' = WaitsOver BY <2>1 DEF WaitsOver, Containers
  <2>3. CurrentWait = 0 /\ CurrentWait' = 0
    <3>1. 0 * PollDelay = 0 /\ 0 < MaxPolls BY BoundsAssumption
    <3>. QED BY <2>1, <3>1 DEF CurrentWait
  <2>4. CurrentAsked = 1 /\ CurrentAsked' = 1 BY <2>1 DEF CurrentAsked
  <2>. QED BY <2>1, <2>2, <2>3, <2>4 DEF EffortInv, MostWait, MostAsked
<1>4. CASE PollUnfinished
  <2>1. /\ polls < MaxPolls /\ polls' = polls + 1
        /\ asked' = asked + 1
        /\ slept' = IF polls' < MaxPolls THEN slept + PollDelay ELSE slept
        /\ UNCHANGED <<channel, count, objects, request, phase, ids, result>>
        /\ phase = "waiting"
    BY <1>4 DEF PollUnfinished, Polled, job
  <2>2. /\ WaitsOver \in Nat /\ MostWait \in Nat
        /\ WaitsOver * MostWait \in Nat /\ WaitsOver * MostAsked \in Nat
        /\ slept \in Nat /\ asked \in Nat /\ polls \in 0..MaxPolls
    BY EffortTypes
  <2>3. channel = "instagram" BY <1>0, <2>1 DEF EffortInv, TypeOK, Channels, Place
  <2>4. /\ slept <= WaitsOver * MostWait + polls * PollDelay
        /\ asked <= WaitsOver * MostAsked + (1 + polls)
    BY <2>1, <2>3 DEF EffortInv, CurrentWait, CurrentAsked
  <2>5. /\ polls * PollDelay \in Nat
        /\ (polls + 1) * PollDelay = polls * PollDelay + PollDelay
        /\ polls + 1 = MaxPolls => polls * PollDelay = MostWait
    BY <2>1, <2>2, PollCost
  <2>6. WaitsOver' = WaitsOver BY <2>1 DEF WaitsOver, Containers
  <2>7. slept' <= WaitsOver * MostWait + CurrentWait'
    <3>1. CASE polls' < MaxPolls
      <4>1. CurrentWait' = polls * PollDelay + PollDelay
        BY <2>1, <2>5, <3>1 DEF CurrentWait
      <4>2. slept' = slept + PollDelay BY <2>1, <3>1
      <4>. QED BY <2>2, <2>4, <2>5, <4>1, <4>2, BoundsAssumption
    <3>2. CASE ~(polls' < MaxPolls)
      <4>1. polls + 1 = MaxPolls BY <2>1, <2>2, <3>2, BoundsAssumption
      <4>2. CurrentWait' = polls * PollDelay
        BY <2>1, <2>5, <3>2, <4>1 DEF CurrentWait, MostWait
      <4>. QED BY <2>1, <2>4, <3>2, <4>2
    <3>. QED BY <3>1, <3>2
  <2>8. asked' <= WaitsOver * MostAsked + CurrentAsked'
    <3>1. CurrentAsked' = 1 + (polls + 1) BY <2>1 DEF CurrentAsked
    <3>. QED BY <2>1, <2>2, <2>4, <3>1
  <2>. QED BY <2>1, <2>3, <2>6, <2>7, <2>8 DEF EffortInv, MostWait, MostAsked
<1>5. CASE PollFinishedPart
  <2>1. /\ phase = "waiting" /\ phase' = "sent" /\ polls < MaxPolls
        /\ UNCHANGED <<channel, count, slept, result>> /\ asked' = asked + 1
        /\ request = "media" /\ request' \in {"media", "carousel"}
        /\ ids' = Append(ids, Current)
    BY <1>5 DEF PollFinishedPart, Polled, GoOn, AppendId, job
  <2>2. WaitsOver' = WaitsOver + 1
    <3>1. Len(ids') = Len(ids) + 1
      BY <1>0, <2>1 DEF TypeOK
    <3>. QED BY <2>1, <3>1 DEF WaitsOver
  <2>. QED BY <2>1, <2>2, WaitEnds
<1>6. CASE PollFinishedWhole
  <2>1. /\ phase = "waiting" /\ phase' = "sent" /\ polls < MaxPolls
        /\ UNCHANGED <<channel, count, slept, result, ids>> /\ asked' = asked + 1
        /\ request = "carousel" \/ count = 1
        /\ request' = "media_publish"
    BY <1>6 DEF PollFinishedWhole, Polled, GoOn, job
  <2>2. request \in {"media", "carousel"} BY <1>0, <2>1 DEF Place
  <2>3. WaitsOver' = WaitsOver + 1
    <3>1. Len(ids) \in Nat BY <1>0 DEF TypeOK
    <3>. QED BY <1>0, <2>1, <2>2, <3>1 DEF WaitsOver, Containers, Place
  <2>. QED BY <2>1, <2>3, WaitEnds
<1>. QED BY <1>1, <1>2, <1>3, <1>4, <1>5, <1>6 DEF Client

\* So does every step.
LEMMA EffortStep == IInv /\ EffortInv /\ [Next]_vars => EffortInv'
<1> SUFFICES ASSUME IInv, EffortInv, [Next]_vars PROVE EffortInv' OBVIOUS
<1>1. CASE UNCHANGED vars BY <1>1, EffortKept DEF vars
<1>2. CASE Meta BY <1>2, EffortMetaStep
<1>3. CASE Client BY <1>3, EffortClientStep
<1>4. CASE Process
  <2>1. UNCHANGED <<channel, count, request, phase, ids, polls, slept, asked>>
    BY <1>4 DEF Process, job
  <2>2. Len(objects') = Len(objects) BY <1>4 DEF Process, IInv, TypeOK
  <2>. QED BY <2>1, <2>2, EffortKept
<1>5. CASE Kill BY <1>5, EffortKept DEF Kill, End, job
<1>. QED BY <1>1, <1>2, <1>3, <1>4, <1>5 DEF Next, InTime, Ended

\* At the start nothing has been asked or waited for.
LEMMA EffortInit == Init => EffortInv
<1> SUFFICES ASSUME Init PROVE EffortInv OBVIOUS
<1>1. MostWait \in Nat /\ MostAsked \in Nat BY PollCost, BoundsAssumption DEF MostAsked
<1>2. /\ slept = 0 /\ asked = 0 /\ Len(objects) = 0
      /\ WaitsOver = 0 /\ CurrentWait = 0 /\ CurrentAsked = 0
  BY DEF Init, WaitsOver, CurrentWait, CurrentAsked
<1>3. 0 <= 0 * MostWait + 0 /\ 0 <= 0 * MostAsked + 0 BY <1>1
<1>. QED BY <1>2, <1>3 DEF Init, EffortInv, Channels

\* An attempt makes no more requests, and sleeps no longer, than its containers
\* can cost, however slow Meta is.
THEOREM AttemptsAreBounded == Spec => []EffortIsBounded
<1>1. IInv /\ EffortInv /\ [Next]_vars => (IInv /\ EffortInv)' BY StepInv, EffortStep
<1>2. IInv /\ EffortInv => EffortIsBounded BY EffortBound
<1>. QED BY <1>1, <1>2, InitInv, EffortInit, PTL DEF Spec
=============================================================================
