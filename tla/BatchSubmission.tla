---------------------------- MODULE BatchSubmission ----------------------------
(***************************************************************************)
(* The task client submits a manifest, and submits it again when it stops.  *)
(*                                                                         *)
(*   tools/relay-task-vault.ps1  SubmitBatch, Submit-RelayItem,             *)
(*                               Get-RelayMediaAsset, Invoke-RelayJson      *)
(*   relay/content/services.py   create_media_upload_intent,                *)
(*                               confirm_media_upload, ready_assets_for_post *)
(*   relay/api/services.py       create_post_draft, approve_post,           *)
(*                               schedule_publication                       *)
(*                                                                         *)
(* The script makes one call after the other: for each item, three for each *)
(* image, then a draft, its approval and one scheduling for each channel.   *)
(* A call that fails or times out ends the run; what it sent may still be   *)
(* carried out afterwards, beside a later run.  Drafts and schedulings have *)
(* keys made from the item's id; images are uploaded anew by every run.     *)
(*                                                                         *)
(* A service is one step here: KeyedCreation shows that creation under a    *)
(* key is atomic, Approvals that an approval is.  The times of the manifest *)
(* do not pass while it is submitted and its channels stay active.          *)
(***************************************************************************)
EXTENDS Naturals, FiniteSets

CONSTANTS
    Items,      \* number of items in the manifest
    Slides,     \* number of images of an item
    Channels,   \* number of connection_ids in the profile
    MaxRuns,    \* bound: times the manifest is submitted
    MaxFaults   \* bound: calls that fail or are not answered in time

ASSUME SizeAssumption == {Items, Slides, Channels, MaxRuns} \subseteq Nat \ {0}
ASSUME FaultAssumption == MaxFaults \in Nat

VARIABLES
    script,   \* the run, whether it waits for an answer, and to which call
    faults,   \* calls that have failed so far
    wire,     \* calls sent and not yet carried out
    assets,   \* upload_state of the images that have a row
    objects,  \* images stored in the bucket
    posts,    \* rows of Post with their variant
    pubs      \* rows of Publication

vars == <<script, faults, wire, assets, objects, posts, pubs>>
server == <<assets, objects, posts, pubs>>

Calls == {"intent", "put", "confirm", "draft", "approve", "schedule"}

\* n is the image's place for an upload, the channel's for a scheduling.
Request == [call : Calls, run : 1 .. MaxRuns, item : 1 .. Items,
            n : 1 .. Slides + Channels]
Asset == [run : 1 .. MaxRuns, item : 1 .. Items, slide : 1 .. Slides]

AssetOf(q) == [run |-> q.run, item |-> q.item, slide |-> q.n]

\* Mutant: a fresh key for every run, as Submit makes one for every call.
FreshKey(q) == [call |-> q.call, item |-> q.item, n |-> q.n, run |-> q.run]

\* Get-RelayIdempotencyKey: from the item's id and the channel's place.
Key(q) == [call |-> q.call, item |-> q.item, n |-> q.n]

\* The key of the draft of the same item, which stands for the post's id.
PostOf(q) == Key([q EXCEPT !.call = "draft", !.n = 1])

First(r) == [call |-> "intent", run |-> r, item |-> 1, n |-> 1]

TypeOK ==
    /\ script \in [run : 1 .. MaxRuns, status : {"waiting", "stopped", "done"},
                   at : Request]
    /\ faults \in 0 .. MaxFaults
    /\ wire \subseteq Request
    /\ DOMAIN assets \subseteq Asset
    /\ \A a \in DOMAIN assets : assets[a] \in {"PENDING", "READY"}
    /\ objects \subseteq Asset
    /\ \A p \in posts :
            /\ p.images \in [1 .. Slides -> Asset]
            /\ p.state \in {"DRAFT", "APPROVED"}
    /\ \A p \in pubs : p.item \in 1 .. Items /\ p.channel \in 1 .. Channels

Init ==
    /\ script = [run |-> 1, status |-> "waiting", at |-> First(1)]
    /\ faults = 0
    /\ wire = {First(1)}
    /\ assets = << >> /\ objects = {}
    /\ posts = {} /\ pubs = {}

-----------------------------------------------------------------------------
\* The script.

Awaits(q) == script.status = "waiting" /\ script.at = q

\* Mutant: the loop over the items runs once too often.
IsLastAfterOverrun(q) == q.call = "schedule" /\ q.n = Channels /\ q.item > Items

IsLast(q) == q.call = "schedule" /\ q.n = Channels /\ q.item = Items

\* The call that follows an answered one.
After(q) ==
    CASE q.call = "intent" -> [q EXCEPT !.call = "put"]
      [] q.call = "put" -> [q EXCEPT !.call = "confirm"]
      [] q.call = "confirm" /\ q.n < Slides -> [q EXCEPT !.call = "intent", !.n = @ + 1]
      [] q.call = "confirm" /\ q.n = Slides -> [q EXCEPT !.call = "draft", !.n = 1]
      [] q.call = "draft" -> [q EXCEPT !.call = "approve"]
      [] q.call = "approve" -> [q EXCEPT !.call = "schedule"]
      [] q.call = "schedule" /\ q.n < Channels -> [q EXCEPT !.n = @ + 1]
      [] OTHER -> [q EXCEPT !.call = "intent", !.item = @ + 1, !.n = 1]

\* The script goes on after q: it sends the next call, or ends.
GoOn(q) ==
    IF IsLast(q)
    THEN /\ script' = [script EXCEPT !.status = "done"]
         /\ wire' = wire \ {q}
    ELSE /\ script' = [script EXCEPT !.at = After(q)]
         /\ wire' = (wire \ {q}) \cup {After(q)}

Throw == script' = [script EXCEPT !.status = "stopped"]

\* Call q is carried out and answered, to nobody if its run has stopped.
Answer(q, success) ==
    /\ faults' = faults
    /\ \/ Awaits(q) /\ success /\ GoOn(q)
       \/ Awaits(q) /\ ~success /\ Throw /\ wire' = wire \ {q}
       \/ ~Awaits(q) /\ script' = script /\ wire' = wire \ {q}

\* Mutant: a call that fails does not stop the run ($ErrorActionPreference).
Shrug ==
    /\ script.status = "waiting"
    /\ faults < MaxFaults
    /\ faults' = faults + 1
    /\ GoOn(script.at)
    /\ UNCHANGED server

\* A call fails or its answer does not come: Invoke-RestMethod throws.  What it
\* sent may still arrive.
Fail ==
    /\ script.status = "waiting"
    /\ faults < MaxFaults
    /\ faults' = faults + 1
    /\ Throw
    /\ UNCHANGED <<wire, server>>

\* The manifest is submitted again.
Resubmit ==
    /\ script.status = "stopped"
    /\ script.run < MaxRuns
    /\ LET r == script.run + 1 IN
        /\ script' = [run |-> r, status |-> "waiting", at |-> First(r)]
        /\ wire' = wire \cup {First(r)}
    /\ UNCHANGED <<faults, server>>

\* What a stopped run has sent never arrives.
Lose(q) ==
    /\ ~Awaits(q)
    /\ wire' = wire \ {q}
    /\ UNCHANGED <<script, faults, server>>

-----------------------------------------------------------------------------
\* The services.

\* create_media_upload_intent: a new asset for every call.
CreateIntent(q) ==
    /\ q.call = "intent"
    /\ assets' = [a \in DOMAIN assets \cup {AssetOf(q)} |->
                    IF a = AssetOf(q) THEN "PENDING" ELSE assets[a]]
    /\ Answer(q, TRUE)
    /\ UNCHANGED <<objects, posts, pubs>>

\* The signed PUT stores the image in the bucket.
Put(q) ==
    /\ q.call = "put"
    /\ objects' = objects \cup {AssetOf(q)}
    /\ Answer(q, TRUE)
    /\ UNCHANGED <<assets, posts, pubs>>

\* confirm_media_upload: head_object must find the image.
Confirm(q) ==
    /\ q.call = "confirm"
    /\ LET found == AssetOf(q) \in DOMAIN assets /\ AssetOf(q) \in objects IN
        /\ assets' = IF found THEN [assets EXCEPT ![AssetOf(q)] = "READY"] ELSE assets
        /\ Answer(q, found)
    /\ UNCHANGED <<objects, posts, pubs>>

\* Mutant: the images in the order the query returns them.
ImagesUnordered(q) ==
    [s \in 1 .. Slides |-> [run |-> q.run, item |-> q.item, slide |-> Slides + 1 - s]]

\* media_asset_ids, kept in order by ready_assets_for_post.
Images(q) == [s \in 1 .. Slides |-> [run |-> q.run, item |-> q.item, slide |-> s]]

AllReady(images) ==
    \A s \in 1 .. Slides : images[s] \in DOMAIN assets /\ assets[images[s]] = "READY"

\* create_post_draft: the fingerprint includes the images.
Draft(q) ==
    /\ q.call = "draft"
    /\ LET existing == {p \in posts : p.key = Key(q)}
           post == [key |-> Key(q), images |-> Images(q), state |-> "DRAFT"] IN
        \/ /\ existing = {}
           /\ posts' = IF AllReady(Images(q)) THEN posts \cup {post} ELSE posts
           /\ Answer(q, AllReady(Images(q)))
        \/ /\ existing # {}
           /\ posts' = posts
           /\ Answer(q, \A p \in existing : p.images = Images(q))
    /\ UNCHANGED <<assets, objects, pubs>>

\* approve_post
Approve(q) ==
    /\ q.call = "approve"
    /\ posts' = {IF p.key = PostOf(q) THEN [p EXCEPT !.state = "APPROVED"] ELSE p : p \in posts}
    /\ Answer(q, TRUE)
    /\ UNCHANGED <<assets, objects, pubs>>

\* schedule_publication admits an approved post whose images are ready.
Schedulable(q) ==
    \E p \in posts : p.key = PostOf(q) /\ p.state = "APPROVED" /\ AllReady(p.images)

\* schedule_publication: a bound key is answered with its row or a conflict.
Schedule(q) ==
    /\ q.call = "schedule"
    /\ LET row == [key |-> Key(q), post |-> PostOf(q), item |-> q.item, channel |-> q.n]
           bound == \E p \in pubs : p.key = row.key IN
        /\ pubs' = IF ~bound /\ Schedulable(q) THEN pubs \cup {row} ELSE pubs
        /\ Answer(q, row \in pubs')
    /\ UNCHANGED <<assets, objects, posts>>

Serve(q) ==
    \/ CreateIntent(q) \/ Put(q) \/ Confirm(q)
    \/ Draft(q) \/ Approve(q) \/ Schedule(q)

Serving == \E q \in wire : Serve(q)

Next ==
    \/ Serving
    \/ Fail \/ Resubmit
    \/ \E q \in wire : Lose(q)

Spec == Init /\ [][Next]_vars

\* Calls are carried out, and a run that stops is followed by another one as long
\* as there are runs left.
FairSpec == Spec /\ WF_vars(Serving) /\ WF_vars(Resubmit)

-----------------------------------------------------------------------------
\* Properties.

\* "reintentar el mismo manifiesto no duplica publicaciones": however many runs
\* stop, and whatever their calls still do later, an item has one publication for
\* a channel.
OnePerChannel ==
    \A p, q \in pubs : p.item = q.item /\ p.channel = q.channel => p = q

\* Publications are made in the order of the manifest, so a batch that stops
\* leaves a prefix of it, whatever arrives late.
InManifestOrder ==
    \A p \in pubs, i \in 1 .. Items, c \in 1 .. Channels :
        (i < p.item \/ (i = p.item /\ c < p.channel)) =>
            \E q \in pubs : q.item = i /\ q.channel = c

\* "Lote completado" is true: every item is approved and scheduled on every
\* channel.
SuccessIsComplete ==
    script.status = "done" =>
        \A i \in 1 .. Items, c \in 1 .. Channels :
            \E q \in pubs, p \in posts :
                /\ q.item = i /\ q.channel = c
                /\ q.post = p.key /\ p.state = "APPROVED"

\* A post shows the images of one run, all of them uploaded, in the manifest's
\* order: two runs never mix their uploads.
PostsAreWhole ==
    \A p \in posts : \E r \in 1 .. MaxRuns : \A s \in 1 .. Slides :
        /\ p.images[s] = [run |-> r, item |-> p.key.item, slide |-> s]
        /\ p.images[s] \in objects
        /\ assets[p.images[s]] = "READY"

\* "deja cada post APPROVED con una publicación SCHEDULED por canal": a batch
\* that is submitted again with the same ids completes in the end.
RetryCompletes == <>(script.status = "done")

\* Seen from the editorial workflow, each call of the script is one of its acts or
\* none, whichever run it comes from and however late: nothing is scheduled before
\* it is approved, and what is approved stays so.
Drafts == [call : {"draft"}, item : 1 .. Items, n : {1}]
Reviewed(k) ==
    IF \E p \in posts : p.key = k /\ p.state = "APPROVED" THEN "APPROVED" ELSE "DRAFT"

Review == INSTANCE PostReview
            WITH Posts <- Drafts, Links <- {}, NoPost <- 0,
                 postState <- [k \in Drafts |-> Reviewed(k)],
                 postOf <- << >>, standing <- << >>,
                 scheduled <- {p.post : p \in pubs}

ImplementsReview == Review!Spec
=============================================================================
