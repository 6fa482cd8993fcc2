---------------------------- MODULE MetaPublishing ---------------------------
(***************************************************************************)
(* One call of MetaPublishingClient.publish_images: the requests that put   *)
(* one to ten images on a Facebook page or an Instagram account.            *)
(*                                                                         *)
(*   relay/social/publishing.py                                             *)
(*                                                                         *)
(*   Facebook, one image     POST photos                                    *)
(*   Facebook, several       POST photos (unpublished) each, POST feed      *)
(*   Instagram, one image    POST media, wait, POST media_publish           *)
(*   Instagram, several      (POST media, wait) each, POST media (carousel),*)
(*                           wait, POST media_publish                       *)
(*                                                                         *)
(* A POST is two steps: Meta does it, then the answer reaches the client or *)
(* does not.  An Instagram container is processed by Meta in the meantime;  *)
(* the client polls it five times, two seconds apart.                       *)
(*                                                                         *)
(* Celery kills the task at a hard limit.  How long a request takes is not  *)
(* in the model (the client waits up to 20 seconds for every answer), so    *)
(* the limit may come at any time; it has certainly come when the pauses    *)
(* alone amount to it.                                                      *)
(***************************************************************************)
EXTENDS Naturals, Sequences, FiniteSets

CONSTANTS
    MaxImages,  \* publish_images: ten
    MaxPolls,   \* _wait_for_instagram_container: range(5)
    PollDelay,  \* sleep(2)
    TimeLimit   \* CELERY_TASK_TIME_LIMIT

ASSUME BoundsAssumption ==
    /\ MaxImages \in Nat /\ MaxPolls \in Nat \ {0} /\ PollDelay \in Nat
    /\ TimeLimit \in Nat \ {0}

VARIABLES
    channel,  \* ChannelConnection.channel
    count,    \* len(image_urls)
    objects,  \* what Meta has created; the id of an object is its position
    request,  \* the POST the client is at
    phase,    \* of that request: "sent", "done" (by Meta) or "waiting"
    ids,      \* media_ids, child_ids
    polls,    \* polls of the current container that found it unfinished
    slept,    \* seconds slept in this attempt
    asked,    \* requests of this attempt that did not end it
    result    \* how the attempt has ended

vars == <<channel, count, objects, request, phase, ids, polls, slept, asked,
          result>>
job == <<channel, count>>

Channels == {"facebook", "instagram"}
Requests == {"photos", "feed", "media", "carousel", "media_publish"}
Results == {"running", "published", "transient", "permanent", "killed"}
Positions == 1..(MaxImages + 1)
Object == [slides : Seq(1..MaxImages), status : {"IN_PROGRESS", "FINISHED", "ERROR"},
           live : BOOLEAN]

TypeOK ==
    /\ channel \in Channels
    /\ count \in 1..MaxImages
    /\ objects \in Seq(Object)
    /\ request \in Requests
    /\ phase \in {"sent", "done", "waiting"}
    /\ ids \in Seq(Positions)
    /\ polls \in 0..MaxPolls
    /\ slept \in Nat
    /\ asked \in Nat
    /\ result \in Results

Init ==
    /\ channel \in Channels
    /\ count \in 1..MaxImages
    /\ objects = <<>>
    /\ request = IF channel = "facebook" THEN "photos" ELSE "media"
    /\ phase = "sent"
    /\ ids = <<>>
    /\ polls = 0 /\ slept = 0 /\ asked = 0
    /\ result = "running"

-----------------------------------------------------------------------------
\* Meta.

\* The id the answer carries: that of the object just created, or published.
Current == Len(objects)

Create(slides, status, live) ==
    objects' = Append(objects, [slides |-> slides, status |-> status, live |-> live])

\* The images of the client's ids, in that order.
Attached == [i \in 1..Len(ids) |-> Head(objects[ids[i]].slides)]

Sent(r) ==
    /\ result = "running"
    /\ request = r
    /\ phase = "sent"
    /\ phase' = "done"
    /\ asked' = asked + 1
    /\ UNCHANGED <<job, request, ids, polls, slept, result>>

\* Mutant: the parts of a Facebook carousel are published, too.
PublicPhoto == TRUE

\* A photo is public at once unless it is posted with published=false.
PhotoIsPublic == count = 1

DoPhotos == Sent("photos") /\ Create(<<Len(ids) + 1>>, "FINISHED", PhotoIsPublic)

DoFeed == Sent("feed") /\ Create(Attached, "FINISHED", TRUE)

DoMedia == Sent("media") /\ Create(<<Len(ids) + 1>>, "IN_PROGRESS", FALSE)

DoCarousel == Sent("carousel") /\ Create(Attached, "IN_PROGRESS", FALSE)

DoPublish ==
    /\ Sent("media_publish")
    /\ objects' = [objects EXCEPT ![Current].live = TRUE]

\* Meta finishes a container, or fails or expires it.
Process ==
    \E i \in 1..Len(objects), s \in {"FINISHED", "ERROR"} :
        /\ objects[i].status = "IN_PROGRESS"
        /\ objects' = [objects EXCEPT ![i].status = s]
        /\ UNCHANGED <<job, request, phase, ids, polls, slept, asked, result>>

-----------------------------------------------------------------------------
\* The client's requests.

\* The attempt ends as r.
End(r) ==
    /\ result = "running"
    /\ result' = r
    /\ UNCHANGED <<job, objects, request, phase, ids, polls, slept, asked>>

\* The client goes on with a request.
GoOn(r) ==
    /\ result = "running"
    /\ request' = r
    /\ phase' = "sent"
    /\ UNCHANGED <<job, objects, slept, result>>

\* Mutant: a request that got no answer is taken for done.
NotAcceptedIgnored == phase = "sent" /\ End("published")

\* Not accepted: httpx.RequestError, 429 or 5xx; or any other 4xx.
NotAccepted == phase = "sent" /\ End("transient")
Rejected == phase = "sent" /\ End("permanent")

\* Accepted, and the answer is lost, or a 5xx; or it is no JSON or has no id.
AnswerLost == phase = "done" /\ End("transient")
AnswerUnreadable == phase = "done" /\ End("permanent")

Final == request \in {"feed", "media_publish"} \/ (request = "photos" /\ count = 1)

AnswerPublished ==
    /\ phase = "done"
    /\ Final
    /\ End("published")

\* Mutant: the newest part comes first.
PrependId == ids' = <<Current>> \o ids

\* media_ids.append, child_ids.append
AppendId == ids' = Append(ids, Current)

AnswerPhoto ==
    /\ phase = "done"
    /\ request = "photos" /\ count > 1
    /\ AppendId
    /\ GoOn(IF Len(ids') < count THEN "photos" ELSE "feed")
    /\ UNCHANGED <<polls, asked>>

\* An Instagram container: its answer starts the wait.
AnswerContainer ==
    /\ phase = "done"
    /\ request \in {"media", "carousel"}
    /\ result = "running"
    /\ phase' = "waiting"
    /\ polls' = 0
    /\ UNCHANGED <<job, objects, request, ids, slept, asked, result>>

-----------------------------------------------------------------------------
\* _wait_for_instagram_container.

\* Mutant: one poll too many.
PolledOnceMore(status) ==
    /\ result = "running"
    /\ phase = "waiting"
    /\ polls <= MaxPolls
    /\ objects[Current].status = status

Polled(status) ==
    /\ result = "running"
    /\ phase = "waiting"
    /\ polls < MaxPolls
    /\ objects[Current].status = status

\* Mutant: the loop does not count.
PollUncounted ==
    /\ Polled("IN_PROGRESS")
    /\ asked' = asked + 1
    /\ slept' = slept + PollDelay
    /\ UNCHANGED <<job, objects, request, phase, ids, polls, result>>

\* No sleep after the last poll.
PollUnfinished ==
    /\ Polled("IN_PROGRESS")
    /\ polls' = polls + 1
    /\ asked' = asked + 1
    /\ slept' = IF polls' < MaxPolls THEN slept + PollDelay ELSE slept
    /\ UNCHANGED <<job, objects, request, phase, ids, result>>

PollFinishedPart ==
    /\ Polled("FINISHED")
    /\ request = "media" /\ count > 1
    /\ AppendId
    /\ GoOn(IF Len(ids') < count THEN "media" ELSE "carousel")
    /\ polls' = 0 /\ asked' = asked + 1

\* Mutant: the carousel itself is published as soon as it is created.
PollFinishedWholeUnwaited ==
    /\ result = "running" /\ phase = "waiting"
    /\ request = "carousel" \/ count = 1
    /\ GoOn("media_publish")
    /\ polls' = 0 /\ asked' = asked + 1
    /\ UNCHANGED ids

PollFinishedWhole ==
    /\ Polled("FINISHED")
    /\ request = "carousel" \/ count = 1
    /\ GoOn("media_publish")
    /\ polls' = 0 /\ asked' = asked + 1
    /\ UNCHANGED ids

PollFailed == Polled("ERROR") /\ End("permanent")

\* The poll gets no answer or a 5xx; or another error or no JSON.
PollUnavailable == phase = "waiting" /\ polls < MaxPolls /\ End("transient")
PollRejected == phase = "waiting" /\ polls < MaxPolls /\ End("permanent")

\* "Instagram media is still processing; Relay will retry."
GiveUp == phase = "waiting" /\ polls = MaxPolls /\ End("transient")

\* The hard limit of the task, or the worker is stopped.
Kill == End("killed")

-----------------------------------------------------------------------------
Meta == DoPhotos \/ DoFeed \/ DoMedia \/ DoCarousel \/ DoPublish

Client ==
    \/ NotAccepted \/ Rejected \/ AnswerLost \/ AnswerUnreadable
    \/ AnswerPublished \/ AnswerPhoto \/ AnswerContainer
    \/ PollUnfinished \/ PollFinishedPart \/ PollFinishedWhole
    \/ PollFailed \/ PollUnavailable \/ PollRejected \/ GiveUp

\* A task whose pauses alone amount to its limit does nothing more.
InTime(A) == slept < TimeLimit /\ A

\* The caller goes on; nothing is left to do here.
Ended == result # "running" /\ UNCHANGED vars

Next == InTime(Meta) \/ InTime(Client) \/ Process \/ Kill \/ Ended

Spec == Init /\ [][Next]_vars

-----------------------------------------------------------------------------
\* Properties.

\* What is public shows every image, in the author's order: a failure half way
\* through the parts leaves nothing public.
PublicIsWhole ==
    \A i \in 1..Len(objects) : objects[i].live =>
        objects[i].slides = [j \in 1..count |-> j]

\* "never publish an unfinished container": neither the one that is published
\* nor one of its parts.
PublicIsFinished ==
    (\E i \in 1..Len(objects) : objects[i].live) =>
        \A i \in 1..Len(objects) : objects[i].status = "FINISHED"

Call == INSTANCE ProviderCall
            WITH posts <- Cardinality({i \in 1..Len(objects) : objects[i].live})

\* All these requests are, for the caller, one call.
ImplementsCall == Call!Spec

\* What an attempt has Meta create: its parts, and what shows them together.
Containers == IF count = 1 THEN 1 ELSE count + 1

\* What an attempt costs before it ends, however slow Meta is with every container:
\* a request for each object on Facebook; on Instagram a request and five polls
\* with four pauses between them, and one request more.  With the numbers of the
\* code, the pauses alone fit the limit of the task for an image alone and for
\* carousels of up to six.
EffortIsBounded ==
    IF channel = "facebook" THEN slept = 0 /\ asked <= Containers
    ELSE /\ slept <= Containers * ((MaxPolls - 1) * PollDelay)
         /\ asked <= Containers * (1 + MaxPolls) + 1

=============================================================================
