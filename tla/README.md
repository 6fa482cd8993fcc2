# Relay, in TLA+

Relay lets an agency draft posts, have them approved, schedule them and publish
them to Facebook pages and Instagram accounts. It is a Django application with
PostgreSQL behind it, Celery with Redis for what happens later, and the Meta
Graph API at its end. This directory models the control of that program: what
happens between a draft and a live post when requests run side by side, answers
get lost and processes die. The modules are translated from the code, with
`PROJECT.json` naming the lines of every definition; TLC checks them on small
instances, and TLAPS proves their most important properties for every value of
the constants.

Contents: 1 inventory, 2 modules, 3 runs, 4 fairness, 5 proofs, 6 what the
project found, 7 abstractions and what is not modelled, 8 plan, 9 how to run it.

## 1. Inventory

How the deployment runs decides what may interleave: gunicorn has one process
with four threads (`Dockerfile:22`), so four HTTP requests run at once; Celery
has beat and one worker with concurrency 1
(`docker-compose.production.yml:45`), which nothing in the code relies on, so
Delivery is checked and proved for more workers too; PostgreSQL runs at READ
COMMITTED; a request is not one transaction unless the service says
`@transaction.atomic`; Celery acknowledges a message before the task runs and
kills a task after 60 seconds (`config/settings.py:63`).

| component | state it keeps | operations | correct when |
|---|---|---|---|
| scheduled delivery (`relay/publications`) | `Publication.state`, `scheduled_for`; `PublicationAttempt` rows; messages in Redis | beat's dispatch, claim, the call, recording an outcome | one worker at a time, bounded attempts, history agrees with the state, ends are final, nothing is forgotten or posted twice |
| editorial workflow (`relay/approvals`, `approve_post`) | `Post.state`, `ApprovalRequest` links and decisions, comments | request, revoke, decide, expire, direct approval | one approval per approved post, a round of review ends once, only approved posts are scheduled |
| keyed creation (`create_post_draft`, `schedule_publication`) | `Post` and `Publication` rows under (tenant, Idempotency-Key) | look up, insert, replay, refuse | a key is bound once and answers are those of an atomic register |
| Meta publishing client (`relay/social/publishing.py`) | none of its own; objects at Meta | the four request sequences, polling a container | public posts are whole, ordered and finished; one attempt is one call |
| Meta connections (`relay/social/services.py`, `meta.py`) | `OAuthState`, `SocialAccount`, `ChannelConnection` | start, callback, revoking command | a state connects once, tokens and publications stay in their brand |
| media upload (`relay/content`) | `MediaAsset.upload_state`, objects in the bucket | intent, signed PUT, confirm, selection | a post shows images that were uploaded for it |
| task client (`tools/relay-task-vault.ps1`) | an encrypted profile; nothing of a batch | submit a manifest, call by call | repeating a manifest duplicates nothing and completes it |
| browser panel (`frontend/src/App.tsx`) | the brand, the lists and the form on screen | refresh, choose a brand, compose: upload, draft, approve, schedule on all channels | what is saved without an error was done, and done once; what the page shows late harms nothing |
| panel session and permissions (`api/authentication.py`, `permissions.py`) | the session's workspace, memberships | resolving the user of a request, tenant scoping | no post, image or connection crosses a brand |
| row locks (PostgreSQL, under all services) | the rows each transaction has locked | `select_for_update`, joins, foreign keys | who can deadlock with whom, and who waits for the object store |
| audit log | `AuditLog` rows | written inside the transaction of the change | one event per change |
| token encryption, serializers and URLs, provisioning commands, deployment scripts | none, or rows edited by hand | | |

How they interact: the panel and the task client call the HTTP services;
`schedule_publication` reads the editorial state and the connections and creates
the row that delivery works on; delivery makes one call of the publishing client
per attempt, with the token a connection holds. Components share the database
and nothing else, apart from the queue between beat and the worker. There are no
callbacks except Meta's redirect of a browser.

The hard behaviours are listed line by line under `hazards` in `PROJECT.json`,
each with the properties that cover it or the reason why none does. They fall
into these groups:

- a task or request that dies between two transactions
  (`publications/services.py:53`, `social/services.py:90`);
- an answer of Meta, or of Relay to its client, that is lost after the work was
  done (`publishing.py:142`, `relay-task-vault.ps1:79`);
- two requests that pass the same test before either writes
  (`api/services.py:98`, `social/services.py:44`, `:56`,
  `approvals/services.py:120`);
- rows that are locked in different orders (`approvals/services.py:120`,
  `content/services.py:136`, `publications/services.py:70`), or while the network
  is asked (`content/services.py:99`);
- a page whose workspace, brand or form has changed by the time an answer comes
  (`authentication.py:111`, `App.tsx:244`, `:245`, `:251`);
- tests made on a copy read earlier and without a lock (`api/services.py:162`,
  `:165`, `publications/services.py:34`);
- repetitions that are not the same as the first try (`relay-task-vault.ps1:154`,
  `serializers.py:119`).

## 2. Modules

A module per component, abstract specifications of their own, an MC module where
TLC needs symmetry or a structured constant, a Proofs module for the theorems.

```
   task client: BatchSubmission        browser panel: Panel, on PanelAccess
     (services in one step)              (services in one step)
        |  relies on      \  implements      /  implements
        v                  v                v
  KeyedCreation           PostReview <--implements-- Approvals
   --implements--> KeyRegister                |
                                  approved posts, rows in SCHEDULED
                                              v
  MetaConnections               Delivery --implements--> PublicationLifecycle
   --implements--> ChannelDirectory           |  one call per attempt
                                MetaPublishing --implements--> ProviderCall

  RowLocks: the locks of all these services, and nothing else of them
```

**Delivery** is beat, the queue, the workers and Meta around `Publication` and
`PublicationAttempt`. `Schedule` is `schedule_publication` as delivery sees it;
`Beat` and `StartDispatch` are the beat schedule and
`dispatch_due_publications` (its query with `order_by` and `[:100]` is
`IsBatch`), `Enqueue` one turn of its loop. `publish_due_publication` is
`StartPublish` (message acknowledged, `now` read), `Claim`/`ClaimRefused` (first
transaction), `MetaAccepts`, `CallRejected`, `CallUnavailable`, `ReplyReceived`,
`ReplyUnreadable`, `ReplyLost` (the call, outside any transaction, in two steps
because Meta may have acted although no answer comes) and `RecordSuccess`,
`RecordRetry`, `RecordFailure` (second transaction, which tests neither row it
writes). `Abort` is a task that dies at any of these points, `LoseMessage` a
message Redis loses; messages are duplicated by beat itself. A queue is a bag:
order is not relied on. Instants are relative to the present, so that the state
space stays finite: `dueIn` is `scheduled_for - now` and a task's `age` is the
time since it read its own `now`, which is what makes a stale `now` visible.

**PublicationLifecycle** is the abstract promise about one publication: one
attempt at a time, at most `MaxAttempts`, a final end.

**Approvals** has the four editorial services as transactions of two steps: a
`Begin...` that takes the row locks and passes the tests, a `Commit...` that
writes. `ReadForSchedule` and `Schedule` are the view's read of the post and the
insert, with no lock in between. `Expire` is time, `Rollback` a request that
dies. `approvals` counts the audit events that explain an approval; `rounds` is a
history variable.

**PostReview** is the promise of the workflow with no threads, locks or
transactions: every act (`Approve`, `Issue`, `Accept`, `SendBack`, `Withdraw`,
`Lapse`, `Schedule`) is one step, taken on what is true at that moment. Approvals
implements it: an act happens when its transaction commits. What a link is good
for, its `standing`, is worked out from the columns of its row; a link that
expires while a transaction that has already compared `expires_at` decides on it
is open until that transaction is over. BatchSubmission and Panel take the
services for one step each, and implement PostReview too, without its links: what
they ask of the workflow is what Approvals keeps under concurrent requests.

**KeyedCreation** is both services under a key, one chosen at the start, because
they validate in a different order. `Receive` is the view's reads, `Replay`,
`Conflict` and `Miss` the look-up, `Insert` the insert that waits for a
concurrent one (`Contended`) and `InsertFails` the unique violation together
with what the handler does with it; `RefuseLate`, `RefuseScheduling`,
`RefuseDraft` and `Commit` are the ends. There are two kinds of 500: `collided` is
the handler of the unique violation, `failed` a transaction that PostgreSQL
cancels or whose connection is lost (`Fail`), even after it has committed
(`CommitUnconfirmed`); a process that is killed answers nothing (`Die`,
`DieCommitted`). The world around changes what can be created: images become
ready, connections are deactivated, times pass.

**KeyRegister** is the promise of an Idempotency-Key: one binding, read and
written atomically. A request that failed may have bound its key or not, and a
binding may remain unsaid (`BindUnsaid`).

**MetaPublishing** is one call of `publish_images`: every POST is two steps (Meta
does it, the answer arrives or not), containers are processed by Meta
concurrently, and the client polls, sleeps and gives up as the code does. Celery
may kill it at any time (`Kill`), since the hard limit covers the requests, whose
time is not modelled; when the pauses alone amount to the limit, nothing more is
done (`InTime`). Each
`Do...` is a request done by Meta, each `Answer...`, `Poll...` a branch of the
client. **ProviderCall** is what the caller sees; its steps are those Delivery
allows in one attempt, which composes the two.

**MetaConnections** has the two transactions of Meta's redirect with the requests
between them: `Consume` and `Spend` (lock, test, mark used, commit), `Connect` or
`ConnectFails`, `LockAccount` or `RefuseAccount` (`update_or_create` under the
unique constraint of the workspace), `Persist`. `ListPromoted` and `Deactivate`
are the command `revoke_promoted_meta_connections`, row by row as it is written;
`ReadConnection` is the view's read of a connection, `Schedule` the insert of a
publication after a test of that copy, with no lock in between, and `Abandon` a
request that is refused or dies. Several brands of one workspace compete for one
Meta account.

**ChannelDirectory** is the promise of connecting: a journey ends once, connected
in one step that stores the account and its channels for the brand that began it,
or lost with nothing stored. There is no list that is read before it is worked
on: `Revoke` deactivates what was copied, whenever it comes. A connection is
picked while it is active (`Pick`) and may be scheduled on from then, revoked or
not (`Schedule`). MetaConnections implements it; a journey whose state is spent,
or expires, while a callback has it in hand (`InHand`) may still connect and is
`open` until the callback ends.

**BatchSubmission** is the PowerShell loop of `SubmitBatch` with the services it
calls: every call is sent, carried out and answered, or fails at the client while
it is still on the wire and may be carried out during a later run (`Fail`,
`Resubmit`, `Lose`). Services are atomic here, which KeyedCreation and Approvals
justify.

**RowLocks** is across the others: each service is the sequence of the row locks
it needs, read off its queries, and a transaction takes them one by one
(`Acquire`), waits while another one has a lock in conflict (`WaitsFor`), and
releases all when it ends (`Commit`, `Rollback`). Three kinds of lock matter. A
row that a statement is about is `Own`. `select_for_update` with
`select_related` locks the rows it only reads as well: those are `Joined`, in the
order of the FROM clause. A row that is inserted refers to others; Django makes
foreign keys DEFERRABLE INITIALLY DEFERRED, so these are locked `KeyShare` when
the transaction commits, in the order in which the migrations add the keys: of a
publication connection, variant, workspace and brand. A row that is being inserted
holds its key, each draft and scheduling its own. `AskStore` is
`head_object` in the middle of `confirm_media_upload`: no lock, but a time in
which the others are held. Whatever is deadlocked in the model is cancelled by
`Rollback`, as PostgreSQL does; the properties say which circles there can be.

**PanelAccess** is what the server makes of a request of the panel:
`panel_principal` (`Memberships`, `Tenant`, `Admitted`, `KeepTenant`), the roles
(`MayRead`, `MayWrite`) and the lookups (`BrandFound`, `ConnectionFound`), while
an administrator changes memberships and closes workspaces (`Administer`).

**Panel** extends it with the page. `ChooseBrand`, `Refresh` and `EndRefresh` are
the lists, which answers may overtake; `OpenForm`, `CloseForm`, `Toggle` and
`Save` the form; `Draft`, `Approve`, `Schedule` and `EndSave` the calls of a save,
each of which is carried out and answered, carried out and not answered, or
refused. The schedulings of a save are in flight together, and go on when one has
failed, or the form is closed.

## 3. Runs

Every run is exhaustive within its bounds. "States" are distinct states.

| run | what it checks | bounds | states |
|---|---|---|---|
| delivery_safety | a recorded attempt is the last and open one, history matches the state, every extra post has its retry, no more publications are left behind than there were faults, claims are not early; refinement of PublicationLifecycle | 2 publications, 2 workers, 2 attempts, 2 faults, batch limit 1, answers may be lost | 627,268 |
| delivery_liveness | what was scheduled settles unless a task died holding it; without lost answers nothing is posted twice | 2 publications, 1 worker, 2 copies of a message, 2 faults | 168,240 |
| delivery_stuck | counterexample, section 6 | 1 publication, 1 worker | |
| approvals | one approval, a round ends once; refinement of PostReview: closed links decide nothing, only approved posts are scheduled | 2 posts, 3 links, 3 requests at once | 465,700 |
| keyed_creation | a unique violation means that the key is bound, refinement of KeyRegister, requests end | both services, 1 key, 2 contents, 2 requests at once, any of which may fail or die | 151,610 |
| keyed_draft_race | counterexample | the same | |
| meta_publishing | what is public is whole, in order and finished; the pauses and requests of an attempt are bounded; refinement of ProviderCall | the code's own numbers: 1 to 10 images, 5 polls, 2 s, 60 s | 78,486 |
| batch_submission | one publication per item and channel, in the manifest's order; "completed" is true; posts are whole | 2 items of 2 images, 2 channels, 3 submissions, 3 failing calls | 39,744 |
| batch_retry | counterexample | 2 items of 1 image, 2 channels, 1 failing call | |
| meta_connections | tokens and publications stay in their brand, revocations are not replayed; refinement of ChannelDirectory: a journey connects once and as a whole, what is scheduled was read while active | 2 journeys, brands, accounts and channels, 2 callbacks or requests at once | 120,756 |
| row_locks | no circle of waiting without a row that is only joined, or two drafts that meet at an image; the record of an outcome can only be in one with a decision; no worker waits for the object store | 3 threads, 1 worker, 1 link, 2 images, 2 connections, 1 post and publication, 2 drafts and 1 scheduling to be inserted | 478,633 |
| panel | nothing crosses a brand or workspace; a second post follows a shown error; a save without an error did all | 2 workspaces of 2 brands of 2 connections, 2 forms, 2 saves, 1 change of the administrator | 929,920 |

Why the bounds are enough to be interesting:

- *Delivery.* Two publications with a batch limit of 1 make the dispatcher pass
  one over; two workers with copies of one message race for a claim; two
  attempts let a retry and an exhausted retry happen; two faults let a retry
  follow an abort. `MaxFaults` and `MaxCopies` cap counters, `Horizon` and
  `TaskTicks` cap how late a publication and how old a task is told apart.
  `TaskTicks = 1` is the 60-second limit in ticks of a minute, so a task's `now`
  may be a minute old. A publication is scheduled one minute ahead.
- *Approvals.* Three links on one post, or two and one, give two decisions in one
  round and links left open from an earlier one; three requests at once put a
  decision, a revocation and an approval on the same rows.
- *KeyedCreation.* Keys are independent, so one is enough; two contents make a
  conflict, two requests a race. Symmetry is not used because a liveness property
  is checked.
- *MetaPublishing* is checked with the real numbers.
- *MetaConnections.* Two brands and two journeys compete for an account of which
  one channel had been copied; the second account makes a channel granted afresh.
  Two threads put a callback beside a request that has read its connection.
- *BatchSubmission.* Two of everything has a first and a last item, image and
  channel; three runs let a call of the first arrive during the third.
- *RowLocks.* A circle of two services needs two clients; the third thread makes
  the longer circles and the waits through others. There is one row of everything
  that all services share, so that they meet, and two of what is locked in a
  chosen order. Two drafts may each have an image that the other wants. A second
  link or key of a scheduling would be locked first and wait with nothing held.
  More workers and rows are the proofs' part. This run uses symmetry.
- *Panel.* One change is enough to take the workspace from under an open page; two
  saves are of one form or of two; one refresh besides those of the saves makes
  lists that arrive late. This run uses symmetry of brands and of channels.

Deadlock is checked except in BatchSubmission, where the script stops at its end,
or when no submissions are left.

Every property of a passing run has a mutant in `PROJECT.json`: a plausible bug
(a dropped test, an off-by-one, a lock not taken) written next to the definition
it would replace, with which TLC finds that property violated.

## 4. Fairness

*Delivery* (`FairSpec`). Time and beat go on (weak fairness of `Tick` and
`Beat`). A worker that is idle takes messages, and each message is taken in the
end: strong fairness for taking, because the worker is busy now and then, and
justified because Redis lists are first in, first out. A started task goes on
(weak fairness of each of its stages), since each HTTP call has a timeout of 20
seconds. Nothing is assumed of the kind of answer, nor that a fault happens or
does not.

*KeyedCreation* (`LiveSpec`). Strong fairness for each request: PostgreSQL wakes
an insert that waits whenever the transaction ahead of it ends, and it may then
find another one ahead of it.

*BatchSubmission* (`FairSpec`, used by the counterexample only). Calls that
arrived are carried out, and an operator submits a batch that stopped again, as
the manual tells him to, as long as submissions are left.

The safety runs and all proofs assume no fairness.

## 5. Proofs

| module | theorems | inductive invariant |
|---|---|---|
| DeliveryProofs | types, exclusive claims, consistent history, bounded attempts, held attempt open, final ends, no early claim, immutable attempts, published is live, at most once if no answer is lost, extra posts are retries, losses are counted, what is abandoned stays so, refinement of PublicationLifecycle | `IInv`: types and `Consistent`; `LiveInv`; `PostsCounted`; `StrandedCounted` |
| ApprovalsProofs | all four properties of the run, the refinement of PostReview among them; a link ends one way and stays closed, approval is final, only approved posts are scheduled | `IInv`: types, `LockInv`, the schedule and approval invariants |
| KeyedCreationProofs | types, created once, a collision means bound, refinement of KeyRegister | `IInv` with `OwnsKey` |
| MetaPublishingProofs | types, public is whole, public is finished, pauses and requests bounded, refinement of ProviderCall | `IInv`: `Place`, `Parts`, `Slides`, `Publicity`, `Finished`, `Reported`; `EffortInv` |
| MetaConnectionsProofs | all five properties of the run, the refinement of ChannelDirectory among them; a spent state connects once | `IInv` with `CallbacksAreNew`, `OneCallback`, `OneStorer`, `RequestsStayInBrand`; `DirectoryInv` |
| BatchSubmissionProofs | all five properties of the run; refinement of PostReview | `IInv`: types, `Wire`, `Rows`, `Complete` and two of the properties |
| RowLocksProofs | all four properties of the run | `IInv`: types, `InProgress`, `Roles`, `Exclusive` |
| PanelProofs | all four properties of the run; refinement of PostReview | `IInv`: types, `SavesInOrder`, `OpenMeansUnsaved`, `DoneSoFar` and two of the properties; `UndraftedYet` |

Some theorems state what no run checks, because a run checks a stronger property:
exclusive claims, bounded attempts, final ends, immutable completed attempts and
"published is live" (Delivery), links that end one way, closed links, final
approval and "only approved posts are scheduled" (Approvals, where the last two
follow from PostReview), states that connect once (MetaConnections), and keys that
are created once (KeyedCreation). `AbandonedStays` (Delivery) and
`ImplementsReview` of BatchSubmission and Panel were checked with TLC on the
constants of their components' runs before they were proved, and have no run of
their own. The proofs hold for every value of the constants.

The arguments, in a sentence or two each:

- *Delivery.* A publication in PUBLISHING has exactly one open attempt, its last,
  and at most one worker holds it: the claim tests SCHEDULED under the row lock
  and nothing else leaves that state. So the second transaction may overwrite
  without testing anything, and the attempts always spell out the state. `LiveInv`
  adds how many posts Meta can show: without lost answers, a publication that has
  a post waits for its record, is abandoned, or has ended. `PostsCounted` needs no
  such assumption: Meta has at most one post for each attempt, and none yet for one
  whose call is still to be made; and all attempts but the last are RETRY.
  `StrandedCounted` says how many publications are in PUBLISHING with nobody at
  work on them: whoever holds one goes on, records or dies (`HolderAfter`), one
  death ends one task, and by exclusivity that task held one publication; nobody
  claims what is in PUBLISHING (`HolderBefore`), so it never becomes fewer.
- *Approvals.* The row locks are exclusive, and what a transaction has tested
  under its lock is still true when it commits (`LockInv`). Scheduling has no lock
  and needs none, because approval is final: the copy it tests can only be out of
  date in the harmless direction. The refinement adds that only an
  issued link expires (`UnissuedIsFresh`). Then each committing step is the act of
  PostReview of the same name, because its locks keep true what the act asks for;
  each beginning is none, except that one which finds its link expired, or ends
  and lets go of one, may be its `Lapse`.
- *KeyedCreation.* A transaction that has inserted a key owns it until it ends:
  no other one has, and no committed row does (`OwnsKey`). Hence an insert fails
  on committed rows only, and a commit, confirmed or not, binds a free key.
- *MetaPublishing.* `Place` says what the client's point in the sequence implies
  about the objects at Meta and the ids it has collected; only the last object
  can be public, and it is made public only after all parts are finished.
  `EffortInv` adds up the pauses and the requests: `MostWait` seconds and
  `MostAsked` requests at most for each container that was finished (`WaitsOver`),
  and for the current one what it has cost so far. A finished container raises
  `WaitsOver` by one, and there are never more than `Containers`.
- *MetaConnections.* A journey is in one callback's hands: its row is locked until
  the state is spent, and a spent state is not consumed again (`OneCallback`).
  Hence a callback in progress has not stored anything (`CallbacksAreNew`), and an
  account that is being stored is in one transaction's hands, of the account's own
  brand (`OneStorer`). For the refinement, `Persist` is `Connect`; the end of a
  callback that has stored nothing, and the expiry of a state that nobody has in
  hand, is `Lose`; and every turn of the revoking command is `Revoke` or none,
  because its list, however old, holds copied connections only (`DirectoryInv`).
  An account never changes its brand, so neither does what a request has read.
- *BatchSubmission.* A run has at most one call on the wire (`Wire`), since the
  script waits for each, and a call on the wire says how far its run had come: it
  has uploaded only images that come before (`UploadsReached`), so none is asked
  for twice and a ready image stays ready, and everything before it in the manifest
  is scheduled (`SchedulesReached`), by whichever run. A call that arrives late
  therefore adds the next publication, or none.
- *RowLocks.* `InProgress` says that what a transaction has, followed by what it
  wants, is one of the sequences of its service (`Progress`). From it, a wait says
  how far both sides have come: whoever waits has only locks that come before the
  one it wants. Consider waits that follow one another, none of them for a joined
  row or between two drafts at an image. Whoever is waited for and waits itself
  waits for the post, for an image of a confirmation, or for a connection. In the
  first two cases that is the end: a confirmation has nothing but its image, and
  who has the post needs only workspace and brand, where no order is violated
  without a join. In the third, the next one has locked the account, and so would
  the one after it, which excludes that (`Exclusive`): no circle closes. In a circle
  somebody waits for the record of an outcome. Not for its publication, which
  everyone locks first, so that nobody who wants it has anything; hence for the
  workspace that the record's event refers to, to lock it for update. Claims and
  decisions do that, and a claim has by then only its publication: it is a
  decision. Those who ask the object store, or wait for those who do, have images
  or a new post and nothing else, and only threads want these.
- *Panel.* Every save has done what its stage says, and the calls still in flight
  are those of its targets that are not scheduled; a form's saves follow each
  other because the buttons are disabled in between. The lists and the session may
  be of any workspace, and do not occur in the argument: the server asks again for
  the brand of the post, at every call.
- *BatchSubmission and Panel against PostReview.* Only an approval makes a post
  APPROVED and nothing takes that back: in the batch because a key counts as
  approved from its first approved post on, whatever drafts it gets later, in
  the panel because a save that is still to make its post has none
  (`UndraftedYet`). Scheduling looks for an approved post in the step that
  inserts.

Assumptions of the proofs are the `ASSUME`s of the component modules and no
others: numbers are naturals, names such as `None` are not elements of the sets
they are an alternative to, sets of rows do not overlap, `Links`, `Images` and
`Connections` are finite. TLC evaluates them in every run.

Every invariant, action property and refinement of the passing runs is proved
for every value of the constants. Only model-checked: liveness
(`SettlesUnlessAbandoned`, `RequestsEnd`), which needs fairness and `ENABLED`.

## 6. What the project found

Three places where the code does not do what the repository says. Each is a run
whose counterexample TLC finds, and a finding in `PROJECT.json` with the quoted
text:

1. **A publication may stay in PUBLISHING for ever** (delivery_stuck). If the task
   dies between its two transactions, no later dispatch selects the row.
   `SettlesUnlessAbandoned` shows this to be the only way to be forgotten,
   `OneLossPerFault` that a death costs one publication and no more, and
   `AbandonedStays` that nothing in the code makes up for it. One way
   to die there needs no crash: the limit of 60 seconds covers the whole attempt,
   pauses and requests, and the client waits up to 20 seconds for every answer
   (`publishing.py:39`), so that slow answers can reach it with any post. A carousel
   of seven images or more on Instagram reaches it with the pauses alone, 64 seconds
   if every container is slow (`publishing.py:178`). `EffortIsBounded` gives the
   numbers: up to 11 requests on Facebook and 67 on Instagram, and pauses of 8
   seconds per container. Another is a deadlock of the recording transaction with
   a decision on an approval link, see below.
2. **A repeated draft request may be answered with a 500** (keyed_draft_race). The
   handler of the unique violation queries inside the atomic block that the
   violation has broken. `CollisionMeansBound` shows that the key is bound by then,
   so that a repetition finds the draft. A request that fails otherwise (a deadlock,
   a lost connection) may have bound its key or not; `ImplementsRegister` shows that
   it did so to its own content or did nothing, and that repeating it is safe.
3. **A manifest that is submitted again does not complete** (batch_retry). Its
   images are uploaded anew, so its drafts differ from the stored ones and are
   refused. With a draft answered by the stored post instead, the same run passes.

What the other runs and proofs show to be possible, and why they bound it:

- *A post may appear twice.* An answer that is lost after Meta has published is
  retried, and nothing in the second call refers to the first. With
  `ReplyMayBeLost = TRUE`, `AtMostOnce` has a counterexample;
  the theorems `ExtraPostsAreRetries` and `PostedAtMostOnce` show this to be
  the only cause.
- *Deadlocks.* Decisions, revocations and claims lock rows that they only read, in
  orders of their own, and drafts lock images in no order; `CirclesNeedAJoin`
  shows these to be the only causes, so that two authorisations of an account never
  deadlock. `select_for_update(of=("self",))` would remove the joins of revocations
  and claims; a decision needs the lock of its post, hence `of=("self", "post")`
  (without the post, Approvals fails: its mutant `PostUnguarded`). Drafts would have
  to order their images. A request that is cancelled is a 500 that can be
  repeated. A record that is cancelled is not: Meta has published, and the
  publication stays in PUBLISHING. `OnlyDecisionsCancelRecords` shows that it
  takes a client who decides at that moment, in the same brand.
- *The panel makes a post twice* when one of several schedulings fails and the
  member saves again, as the form invites him to. `SecondPostNeedsError` shows
  that it never happens without an error on the screen. A save whose form was
  closed goes on silently, and closes the form that is open when it ends.

Noticed on the way, without a run:

- `panel_context` overwrites the user it has looked up with the principal that
  session authentication left in `request._request.user` (`views.py:135`, against
  its own comment in lines 118 to 120): `/panel/me/` and `/panel/workspace/` end in
  an AttributeError for whoever is logged in. A page that is reloaded asks for a
  new login, and the workspace cannot be switched.
- `redirect` is not imported in `relay/api/views.py` (line 644): a callback that
  has stored its connections ends in a NameError. The connections are stored, the
  member sees a 500. MetaConnections leaves the answers of callbacks out, because
  nothing that follows depends on them.
- A scheduling request repeated after its own time is a 400, since
  `validate_scheduled_for` comes before the look-up of the key
  (`serializers.py:119`): `RefuseLate`.
- PowerShell 7 converts the manifest's `scheduled_for` to a date before the script
  formats and parses it again, in the culture of the machine.
- `FAILED` is saved and then rolled back with the exception that follows it
  (`content/services.py:105`).

## 7. Abstractions, and what is not modelled

- Contents, captions, tokens and images are model values or records of what the
  properties tell apart. Request fingerprints are equal exactly if the contents
  are: SHA-256 is taken to be injective.
- Requests that fail a test and write nothing are left out unless their answer
  matters (KeyedCreation, BatchSubmission).
- *Delivery:* a wrong number of images, an unsupported channel and a token that
  cannot be decrypted are all `CallRejected`. Exceptions the task does not catch
  are `Abort`. The connection's `is_active` is not tested by the worker, and not
  by the model.
- *MetaPublishing:* how long a request takes is not modelled, only that the limit
  may come at any time for it. Answers that are JSON are taken to be JSON objects.
- *MetaConnections:* one workspace, where accounts are unique. `Connect` is one
  step: the requests in it read only. The tokens of a journey are represented by
  the journey.
- *BatchSubmission:* local files and the profile do not change while a batch is
  repeated, the manifest's times do not pass and its channels stay active. Each of
  these would only add refusals. A call of an earlier run may be overtaken or
  lost, not duplicated: the client does not send a call twice.
- *RowLocks:* locks only, without the values the services test. A service may stop
  at every point (`Rollback`), which stands for a failed test too; the circles
  found are thus possible as far as the locks go. Rows that only their own
  transaction locks are left out: an attempt is locked after its publication, an
  OAuth state alone, a comment when it is inserted. The commands run by hand take
  no locks in advance. `ready_assets_for_post` may lock in any order, since the
  query has no ORDER BY.
- *PanelAccess, Panel:* one user on one page, whose workspaces have the same names
  of brands. Brands are not closed: a closed one is refused like one of another
  workspace. The form's upload is part of `Draft`, because an image alone is not
  seen by anybody. Connections stay active. A call is carried out when it is
  answered or lost, not later. What is chosen during a save is chosen after it.
  Left out: logout, reloading, the page of connections, whose button leaves the
  page, and the switch of workspace, which fails (section 6).
- Not modelled: token encryption (a pure library call), serializers and routing
  (their validations are guards), service tokens (a signature and a list of
  brands), provisioning commands and deployment scripts (run by hand, once). Not
  yet modelled: uploads that do not match their intent, the audit log as a record
  of its own.

## 8. Plan

In this order, most important first; where a run is added, one of the
counterexamples above shares its module or an existing run takes it in.

1. **MediaUpload**: intents, uploads that do not match them, concurrent
   confirmations, the failure state that is rolled back, against an abstract "a
   READY asset is what its intent declared".
2. **Audit**: one event per change, over the commands that write without a
   transaction.

## 9. Running it

```
tlc -config DeliverySafety.cfg MCDelivery
tlc -config DeliveryLiveness.cfg MCDelivery
tlc -config Approvals.cfg MCApprovals
tlc -config KeyedCreation.cfg KeyedCreation
tlc -config MetaPublishing.cfg MetaPublishing
tlc -config MetaConnections.cfg MCMetaConnections
tlc -config BatchSubmission.cfg BatchSubmission
tlc -config RowLocks.cfg MCRowLocks
tlc -config Panel.cfg MCPanel
tlapm DeliveryProofs.tla        # and the other *Proofs modules
```

All nine finish in less than three minutes each on two cores. The configurations
`DeliveryStuck`, `KeyedDraftRace` and `BatchRetry` end with the counterexamples of
section 6.
