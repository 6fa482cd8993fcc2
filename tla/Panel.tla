-------------------------------- MODULE Panel --------------------------------
(***************************************************************************)
(* The page of the panel: its lists, the form for a new post, and the calls  *)
(* of both to the API.                                                       *)
(*                                                                         *)
(*   frontend/src/App.tsx     Panel, Composer                               *)
(*   relay/api/views.py       the views that they call                      *)
(*   relay/api/services.py    create_post_draft, approve_post,              *)
(*                            schedule_publication, under keys that nobody   *)
(*                            uses twice                                    *)
(*                                                                         *)
(* A call is carried out and answered in one step, or fails: it is refused,  *)
(* or it or its answer is lost.  All that React does in one callback is one  *)
(* step too.  What a save began goes on when its form is closed.            *)
(***************************************************************************)
EXTENDS PanelAccess

CONSTANTS
    MaxForms,      \* bound: forms opened
    MaxTargets,    \* bound: connections chosen at once
    MaxSaves,      \* bound: clicks on one of the buttons that save
    MaxRefreshes,  \* bound: refreshes in flight at once, besides those of saves
    None           \* no brand, no save, no post

Saves == 1 .. MaxSaves
Refreshes == 1 .. MaxRefreshes

ASSUME BoundsAssumption ==
    {MaxForms, MaxTargets, MaxSaves, MaxRefreshes} \subseteq Nat

VARIABLES
    brand,         \* the brand chosen in the header
    lists,         \* the brand whose connections, posts and publications are shown
    refreshing,    \* the brand that each refresh in flight asks for
    form,          \* how many forms were opened; the last one may be open
    open,          \* whether it is
    targets,       \* the connections chosen in it
    saves,         \* what each save does
    posts,         \* the post that each save created
    publications   \* the pairs of a save and a connection it is scheduled on

vars == <<accessVars, brand, lists, refreshing, form, open, targets, saves,
          posts, publications>>

pageVars == <<brand, lists, refreshing, form, open, targets>>

Posts == [tenant : Workspaces, brand : Brands, approved : BOOLEAN]

\* The steps of a save, in order; then it is saved or has failed.
Stages == {"draft", "approve", "schedule", "refresh", "saved", "failed"}

\* "targets" is empty for a save that only drafts.  "calls" are the schedulings in
\* flight, which go on when one of them has failed.  "told": the form showed an
\* error, which it does not when it is closed.
SaveRecords ==
    [form : 1 .. MaxForms, brand : Brands, targets : SUBSET Connections,
     calls : SUBSET Connections, stage : Stages, told : BOOLEAN]

ASSUME NoneAssumption == None \notin Brands \cup Posts \cup SaveRecords

TypeOK ==
    /\ AccessTypeOK
    /\ brand \in Brands
    /\ lists \in Brands \cup {None}
    /\ refreshing \in [Refreshes -> Brands \cup {None}]
    /\ form \in 0 .. MaxForms
    /\ open \in BOOLEAN
    /\ targets \subseteq Connections
    /\ saves \in [Saves -> SaveRecords \cup {None}]
    /\ posts \in [Saves -> Posts \cup {None}]
    /\ publications \subseteq Saves \X Connections

\* The page of a user who has just logged in asks for its lists.
Init ==
    /\ AccessInit
    /\ brand \in {b \in Brands : b.workspace = session}
    /\ lists = None
    /\ refreshing = [r \in Refreshes |-> IF r = 1 THEN brand ELSE None]
    /\ form = 0
    /\ open = FALSE
    /\ targets = {}
    /\ saves = [s \in Saves |-> None]
    /\ posts = [s \in Saves |-> None]
    /\ publications = {}

-----------------------------------------------------------------------------
\* The lists.

Ask(b) ==
    \E r \in Refreshes :
        /\ refreshing[r] = None
        /\ refreshing' = [refreshing EXCEPT ![r] = b]

\* The form covers the header and the button.  useEffect asks for the lists of the
\* new brand; those of the old one stay until they are there.
ChooseBrand(b) ==
    /\ ~open
    /\ b # brand
    /\ b.workspace = brand.workspace
    /\ brand' = b
    /\ Ask(b)
    /\ UNCHANGED <<accessVars, lists, form, open, targets, saves, posts, publications>>

Refresh ==
    /\ ~open
    /\ Ask(brand)
    /\ UNCHANGED <<accessVars, brand, lists, form, open, targets, saves, posts,
                   publications>>

\* All four answers are there, or one of them is an error and nothing is shown.
ShowLists(b) ==
    \/ MayRead(b) /\ KeepTenant /\ lists' = b
    \/ (KeepTenant \/ UNCHANGED session) /\ UNCHANGED lists

EndRefresh(r) ==
    /\ refreshing[r] # None
    /\ ShowLists(refreshing[r])
    /\ refreshing' = [refreshing EXCEPT ![r] = None]
    /\ UNCHANGED <<adminVars, brand, form, open, targets, saves, posts, publications>>

-----------------------------------------------------------------------------
\* The form.

OpenForm ==
    /\ ~open
    /\ form < MaxForms
    /\ form' = form + 1
    /\ open' = TRUE
    /\ targets' = {}
    /\ UNCHANGED <<accessVars, brand, lists, refreshing, saves, posts, publications>>

\* "Cerrar" works while a save is going on.
CloseForm ==
    /\ open
    /\ open' = FALSE
    /\ targets' = {}
    /\ UNCHANGED <<accessVars, brand, lists, refreshing, form, saves, posts, publications>>

Active(s) == saves[s] # None /\ saves[s].stage \notin {"saved", "failed"}

\* Mutant: the buttons are not disabled.
NeverBusy == FALSE

\* The buttons of the form are disabled while it is being saved.
Busy == \E s \in Saves : Active(s) /\ saves[s].form = form

\* A connection that is listed is chosen or not; one that was chosen before the
\* lists changed stays chosen.  What is chosen during a save could as well be
\* chosen after it.
Toggle(c) ==
    /\ open
    /\ ~Busy
    /\ c.brand = lists
    /\ targets' = IF c \in targets THEN targets \ {c} ELSE targets \cup {c}
    /\ Cardinality(targets') <= MaxTargets
    /\ UNCHANGED <<accessVars, brand, lists, refreshing, form, open, saves, posts,
                   publications>>

\* Mutant: the buttons are there without a form.
SaveAtAnyTime(s, chosen) ==
    /\ ~Busy
    /\ saves[s] = None
    /\ \A r \in Saves : r < s => saves[r] # None
    /\ saves' = [saves EXCEPT ![s] =
            [form |-> form, brand |-> brand, targets |-> chosen, calls |-> {},
             stage |-> "draft", told |-> FALSE]]
    /\ UNCHANGED <<accessVars, pageVars, posts, publications>>

\* To draft, with no connection, or to schedule on those that are chosen.
Save(s, chosen) ==
    /\ open
    /\ ~Busy
    /\ saves[s] = None
    /\ \A r \in Saves : r < s => saves[r] # None
    /\ saves' = [saves EXCEPT ![s] =
            [form |-> form, brand |-> brand, targets |-> chosen, calls |-> {},
             stage |-> "draft", told |-> FALSE]]
    /\ UNCHANGED <<accessVars, pageVars, posts, publications>>

-----------------------------------------------------------------------------
\* The calls of a save.

Continue(s, stage) == saves' = [saves EXCEPT ![s].stage = stage]

\* The error is shown if the form is still there; what was chosen is of no more use.
GiveUp(s) ==
    saves' = [saves EXCEPT ![s].stage = "failed",
                           ![s].targets = {},
                           ![s].told = open /\ saves[s].form = form]

At(s, stage) == saves[s] # None /\ saves[s].stage = stage

PostFound(s) == posts[s] # None /\ BrandFound(posts[s].brand) /\ posts[s].tenant = Tenant

\* mediaAsset before it stores an image of the brand, which nobody sees without the
\* post, and is part of this call.
CreateDraft(s) ==
    /\ MayWrite(saves[s].brand)
    /\ KeepTenant
    /\ posts' = [posts EXCEPT ![s] =
            [tenant |-> Tenant, brand |-> saves[s].brand, approved |-> FALSE]]

Draft(s) ==
    /\ At(s, "draft")
    /\ \/ /\ CreateDraft(s)
          /\ \/ Continue(s, IF saves[s].targets = {} THEN "refresh" ELSE "approve")
             \/ GiveUp(s)
       \/ (KeepTenant \/ UNCHANGED session) /\ UNCHANGED posts /\ GiveUp(s)
    /\ UNCHANGED <<adminVars, pageVars, publications>>

ApprovePost(s) ==
    /\ PostFound(s)
    /\ MayWrite(posts[s].brand)
    /\ KeepTenant
    /\ posts' = [posts EXCEPT ![s].approved = TRUE]

\* All schedulings are sent at once.
StartCalls(s) ==
    saves' = [saves EXCEPT ![s].stage = "schedule", ![s].calls = saves[s].targets]

Approve(s) ==
    /\ At(s, "approve")
    /\ \/ ApprovePost(s) /\ (StartCalls(s) \/ GiveUp(s))
       \/ (KeepTenant \/ UNCHANGED session) /\ UNCHANGED posts /\ GiveUp(s)
    /\ UNCHANGED <<adminVars, pageVars, publications>>

SchedulePublication(s, c) ==
    /\ PostFound(s)
    /\ posts[s].approved
    /\ MayWrite(posts[s].brand)
    /\ ConnectionFound(c, posts[s].brand)
    /\ KeepTenant
    /\ publications' = publications \cup {<<s, c>>}

\* Mutant: the save does not wait for the calls that are still in flight.
AnsweredFirst(s, c) ==
    saves' = [saves EXCEPT ![s].calls = @ \ {c},
                           ![s].stage = IF @ = "schedule" THEN "refresh" ELSE @]

\* The save goes on when the last of the calls has succeeded, unless one failed.
Answered(s, c) ==
    saves' = [saves EXCEPT ![s].calls = @ \ {c},
                           ![s].stage = IF @ = "schedule" /\ saves[s].calls = {c}
                                        THEN "refresh" ELSE @]

\* The first call that fails ends the save; the others go on.
Rejected(s, c) ==
    IF saves[s].stage = "failed"
    THEN saves' = [saves EXCEPT ![s].calls = @ \ {c}]
    ELSE saves' = [saves EXCEPT ![s].calls = @ \ {c},
                                ![s].stage = "failed",
                                ![s].targets = {},
                                ![s].told = open /\ saves[s].form = form]

Schedule(s, c) ==
    /\ saves[s] # None
    /\ c \in saves[s].calls
    /\ \/ SchedulePublication(s, c) /\ (Answered(s, c) \/ Rejected(s, c))
       \/ (KeepTenant \/ UNCHANGED session) /\ UNCHANGED publications /\ Rejected(s, c)
    /\ UNCHANGED <<adminVars, pageVars, posts>>

\* saved() asks for the lists of the brand that was chosen when the save began and
\* never throws; close() closes the form that is open, whichever it is.
EndSave(s) ==
    /\ At(s, "refresh")
    /\ ShowLists(saves[s].brand)
    /\ Continue(s, "saved")
    /\ open' = FALSE
    /\ targets' = {}
    /\ UNCHANGED <<adminVars, brand, refreshing, form, posts, publications>>

-----------------------------------------------------------------------------
Next ==
    \/ \E b \in Brands : ChooseBrand(b)
    \/ Refresh
    \/ \E r \in Refreshes : EndRefresh(r)
    \/ OpenForm
    \/ CloseForm
    \/ \E c \in Connections : Toggle(c)
    \/ \E s \in Saves : Save(s, {}) \/ Save(s, targets)
    \/ \E s \in Saves : Draft(s) \/ Approve(s) \/ EndSave(s)
    \/ \E s \in Saves, c \in Connections : Schedule(s, c)
    \/ Administer /\ UNCHANGED <<pageVars, saves, posts, publications>>

Spec == Init /\ [][Next]_vars

-----------------------------------------------------------------------------
\* Nothing crosses a workspace or a brand: a post is in the workspace of its brand
\* and in the brand whose name its form showed, and it is scheduled on connections
\* of that brand only.  The page may show the connections of another brand, and
\* the session may have moved to another workspace since the page was opened.
StaysInBrand ==
    \A s \in Saves :
        /\ posts[s] # None =>
            /\ posts[s].tenant = posts[s].brand.workspace
            /\ posts[s].brand = saves[s].brand
        /\ \A c \in Connections :
            <<s, c>> \in publications => posts[s] # None /\ c.brand = posts[s].brand

\* A form may make its post twice, as the keys are new for every save; but not
\* unless it has shown an error in between.
SecondPostNeedsError ==
    \A s, t \in Saves :
        /\ s < t
        /\ saves[t] # None
        /\ saves[s].form = saves[t].form
        => saves[s].stage = "failed" /\ saves[s].told

\* A save that ends without an error has done all that was asked: its post is
\* there and is scheduled on every connection that was chosen.
SavedMeansScheduled ==
    \A s \in Saves :
        At(s, "saved") =>
            /\ posts[s] # None
            /\ saves[s].targets # {} => posts[s].approved
            /\ \A c \in saves[s].targets : <<s, c>> \in publications

\* Seen from the editorial workflow, each call of the page is one of its acts or
\* none, also a call that goes on behind a form that is closed or a save that has
\* failed: nothing is scheduled before it is approved, and what is approved stays so.
Reviewed(s) == IF posts[s] # None /\ posts[s].approved THEN "APPROVED" ELSE "DRAFT"

Review == INSTANCE PostReview
            WITH Posts <- Saves, Links <- {}, NoPost <- None,
                 postState <- [s \in Saves |-> Reviewed(s)],
                 postOf <- << >>, standing <- << >>,
                 scheduled <- {s \in Saves :
                                \E c \in Connections : <<s, c>> \in publications}

ImplementsReview == Review!Spec
=============================================================================
