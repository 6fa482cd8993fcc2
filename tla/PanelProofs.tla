----------------------------- MODULE PanelProofs -----------------------------
(***************************************************************************)
(* Theorems about Panel, for every number of workspaces, brands, channels,   *)
(* forms, saves, refreshes and changes.                                      *)
(***************************************************************************)
EXTENDS Panel, WellFoundedInduction, TLAPS

-----------------------------------------------------------------------------
\* The first of some workspaces is one of them.
LEMMA FirstIsMember ==
    ASSUME NEW S \in SUBSET Workspaces, S # {}
    PROVE  First(S) \in S
<1> DEFINE Less == {p \in Nat \X Nat : p[1] < p[2]}
<1>1. IsWellFoundedOn(Less, Nat)
  BY NatLessThanWellFounded DEF OpToRel
<1>2. \E x \in S : \A y \in S : <<y, x>> \notin Less
  BY <1>1, WFMin, WorkspacesAssumption
<1>3. ASSUME NEW x \in S, NEW y \in S, <<y, x>> \notin Less
      PROVE  x <= y
  BY <1>3, WorkspacesAssumption
<1>4. \E x \in S : \A y \in S : x <= y
  <2> HIDE DEF Less
  <2> QED BY <1>2, <1>3
<1> QED
  BY <1>4 DEF First

\* A member has a workspace.
LEMMA TenantIsWorkspace ==
    ASSUME AccessTypeOK, Memberships # {}
    PROVE  Tenant \in Workspaces
<1>1. Memberships \in SUBSET Workspaces
  BY DEF Memberships
<1> QED
  BY <1>1, FirstIsMember DEF Tenant

\* Whatever a request does to the session, it names a workspace.
LEMMA SessionStays ==
    ASSUME AccessTypeOK, KeepTenant \/ UNCHANGED session
    PROVE  session' \in Workspaces
BY TenantIsWorkspace DEF KeepTenant, Admitted, AccessTypeOK

-----------------------------------------------------------------------------
\* The invariant.  Saves are numbered in the order in which they begin, and one
\* that has not begun has done nothing.
SavesInOrder ==
    /\ \A s, t \in Saves : s < t /\ saves[t] # None => saves[s] # None
    /\ \A s \in Saves : saves[s] = None =>
        posts[s] = None /\ \A c \in Connections : <<s, c>> \notin publications

\* A form that is open has never been saved, is being saved or shows an error.
OpenMeansUnsaved ==
    /\ open => form > 0
    /\ \A s \in Saves : saves[s] # None =>
        /\ saves[s].form <= form
        /\ open /\ saves[s].form = form =>
            Active(s) \/ (saves[s].stage = "failed" /\ saves[s].told)

\* How far each save has got.
DoneSoFar ==
    \A s \in Saves : saves[s] # None =>
        /\ saves[s].stage \in {"approve", "schedule"} => posts[s] # None
        /\ saves[s].stage = "schedule" =>
            /\ posts[s].approved
            /\ \A c \in saves[s].targets : c \in saves[s].calls \/ <<s, c>> \in publications
        /\ saves[s].stage \in {"refresh", "saved"} =>
            /\ posts[s] # None
            /\ saves[s].targets # {} => posts[s].approved
            /\ \A c \in saves[s].targets : <<s, c>> \in publications

IInv ==
    /\ TypeOK
    /\ SavesInOrder
    /\ OpenMeansUnsaved
    /\ DoneSoFar
    /\ StaysInBrand
    /\ SecondPostNeedsError

-----------------------------------------------------------------------------
\* The kinds of step: one that is about the page or the administrator, one that
\* begins a save, and one of a call of a save.
PageStep ==
    /\ UNCHANGED <<saves, posts, publications>>
    /\ form' \in {form, form + 1}
    /\ open' => form' = form + 1 \/ (form' = form /\ open)

CallStep(s) ==
    /\ saves[s] # None
    /\ saves' = [saves EXCEPT ![s] = saves'[s]]
    /\ saves'[s] \in SaveRecords
    /\ saves'[s].form = saves[s].form /\ saves'[s].brand = saves[s].brand
    /\ form' = form
    /\ open' => open
    /\ saves'[s].stage = "saved" => saves[s].stage = "saved" \/ ~open'
    /\ saves[s].stage = "failed" =>
        saves'[s].stage = "failed" /\ saves'[s].told = saves[s].told
    /\ saves[s].stage # "failed" /\ saves'[s].stage = "failed" =>
        saves'[s].told = (open /\ saves[s].form = form)

\* A step is well typed and of one of these kinds.
LEMMA PageSteps ==
    ASSUME TypeOK,
           \/ \E b \in Brands : ChooseBrand(b)
           \/ Refresh
           \/ \E r \in Refreshes : EndRefresh(r)
           \/ OpenForm
           \/ CloseForm
           \/ \E c \in Connections : Toggle(c)
           \/ Administer /\ UNCHANGED <<pageVars, saves, posts, publications>>
    PROVE  TypeOK' /\ PageStep
<1> USE DEF TypeOK, AccessTypeOK, accessVars, adminVars, pageVars, PageStep
<1>1. ASSUME NEW b \in Brands, ChooseBrand(b) PROVE TypeOK' /\ PageStep
  BY <1>1 DEF ChooseBrand, Ask
<1>2. CASE Refresh
  BY <1>2 DEF Refresh, Ask
<1>3. ASSUME NEW r \in Refreshes, EndRefresh(r) PROVE TypeOK' /\ PageStep
  <2>1. session' \in Workspaces /\ lists' \in Brands \cup {None}
    BY <1>3, SessionStays DEF EndRefresh, ShowLists
  <2> QED BY <1>3, <2>1 DEF EndRefresh
<1>4. CASE OpenForm
  BY <1>4, BoundsAssumption DEF OpenForm
<1>5. CASE CloseForm
  BY <1>5 DEF CloseForm
<1>6. ASSUME NEW c \in Connections, Toggle(c) PROVE TypeOK' /\ PageStep
  BY <1>6 DEF Toggle
<1>7. CASE Administer /\ UNCHANGED <<pageVars, saves, posts, publications>>
  BY <1>7, ChangesAssumption DEF Administer
<1> QED
  BY <1>1, <1>2, <1>3, <1>4, <1>5, <1>6, <1>7

\* A save that has begun is well typed.
LEMMA SaveTyped ==
    ASSUME TypeOK, NEW s \in Saves, saves[s] # None
    PROVE  /\ saves[s] \in SaveRecords
           /\ saves[s].form \in 1 .. MaxForms /\ saves[s].brand \in Brands
           /\ saves[s].targets \subseteq Connections
           /\ saves[s].calls \subseteq Connections
           /\ saves[s].stage \in Stages /\ saves[s].told \in BOOLEAN
BY DEF TypeOK, SaveRecords

\* What the creation of the draft does.
LEMMA DraftSteps ==
    ASSUME TypeOK, NEW s \in Saves, Draft(s)
    PROVE  TypeOK' /\ CallStep(s)
<1>1. saves[s] # None
  BY DEF Draft, At
<1>2. session' \in Workspaces
  BY SessionStays DEF Draft, CreateDraft, TypeOK
<1>3. /\ saves' = [saves EXCEPT ![s] = saves'[s]]
      /\ saves'[s] \in SaveRecords
      /\ saves'[s].form = saves[s].form /\ saves'[s].brand = saves[s].brand
      /\ saves'[s].stage = "saved" => saves[s].stage = "saved" \/ ~open'
      /\ saves[s].stage = "failed" =>
            saves'[s].stage = "failed" /\ saves'[s].told = saves[s].told
      /\ saves[s].stage # "failed" /\ saves'[s].stage = "failed" =>
            saves'[s].told = (open /\ saves[s].form = form)
  BY <1>1, SaveTyped DEF Draft, At, Continue, GiveUp, SaveRecords, Stages, TypeOK, pageVars
<1>4. posts' \in [Saves -> Posts \cup {None}]
  <2>1. CASE UNCHANGED posts
    BY <2>1 DEF TypeOK
  <2>2. CASE CreateDraft(s)
    <3>1. Tenant \in Workspaces
      BY <2>2, TenantIsWorkspace DEF CreateDraft, MayWrite, BrandFound, Admitted, TypeOK
    <3> QED BY <1>1, <2>2, <3>1, SaveTyped DEF CreateDraft, Posts, TypeOK
  <2> QED BY <2>1, <2>2 DEF Draft
<1> QED
  BY <1>1, <1>2, <1>3, <1>4 DEF Draft, TypeOK, AccessTypeOK, CallStep, adminVars, pageVars

\* What the approval does.
LEMMA ApproveSteps ==
    ASSUME TypeOK, NEW s \in Saves, Approve(s)
    PROVE  TypeOK' /\ CallStep(s)
<1>1. saves[s] # None
  BY DEF Approve, At
<1>2. session' \in Workspaces
  BY SessionStays DEF Approve, ApprovePost, TypeOK
<1>3. /\ saves' = [saves EXCEPT ![s] = saves'[s]]
      /\ saves'[s] \in SaveRecords
      /\ saves'[s].form = saves[s].form /\ saves'[s].brand = saves[s].brand
      /\ saves'[s].stage = "saved" => saves[s].stage = "saved" \/ ~open'
      /\ saves[s].stage = "failed" =>
            saves'[s].stage = "failed" /\ saves'[s].told = saves[s].told
      /\ saves[s].stage # "failed" /\ saves'[s].stage = "failed" =>
            saves'[s].told = (open /\ saves[s].form = form)
  BY <1>1, SaveTyped DEF Approve, At, StartCalls, GiveUp, SaveRecords, Stages, TypeOK, pageVars
<1>4. posts' \in [Saves -> Posts \cup {None}]
  BY DEF Approve, ApprovePost, PostFound, Posts, TypeOK
<1> QED
  BY <1>1, <1>2, <1>3, <1>4 DEF Approve, TypeOK, AccessTypeOK, CallStep, adminVars, pageVars

\* What the scheduling on one connection does.
LEMMA ScheduleSteps ==
    ASSUME TypeOK, NEW s \in Saves, NEW c \in Connections, Schedule(s, c)
    PROVE  TypeOK' /\ CallStep(s)
<1>1. saves[s] # None
  BY DEF Schedule
<1>2. session' \in Workspaces
  BY SessionStays DEF Schedule, SchedulePublication, TypeOK
<1>3. /\ saves' = [saves EXCEPT ![s] = saves'[s]]
      /\ saves'[s] \in SaveRecords
      /\ saves'[s].form = saves[s].form /\ saves'[s].brand = saves[s].brand
      /\ saves'[s].stage = "saved" => saves[s].stage = "saved" \/ ~open'
      /\ saves[s].stage = "failed" =>
            saves'[s].stage = "failed" /\ saves'[s].told = saves[s].told
      /\ saves[s].stage # "failed" /\ saves'[s].stage = "failed" =>
            saves'[s].told = (open /\ saves[s].form = form)
  BY <1>1, SaveTyped
     DEF Schedule, Answered, Rejected, SaveRecords, Stages, TypeOK, pageVars
<1>4. publications' \subseteq Saves \X Connections
  BY DEF Schedule, SchedulePublication, TypeOK
<1> QED
  BY <1>1, <1>2, <1>3, <1>4 DEF Schedule, TypeOK, AccessTypeOK, CallStep, adminVars, pageVars

\* What the end of a save does.
LEMMA EndSaveSteps ==
    ASSUME TypeOK, NEW s \in Saves, EndSave(s)
    PROVE  TypeOK' /\ CallStep(s)
<1>1. saves[s] # None
  BY DEF EndSave, At
<1>2. session' \in Workspaces /\ lists' \in Brands \cup {None}
  BY <1>1, SaveTyped, SessionStays DEF EndSave, ShowLists, TypeOK
<1>3. /\ saves' = [saves EXCEPT ![s] = saves'[s]]
      /\ saves'[s] \in SaveRecords
      /\ saves'[s].form = saves[s].form /\ saves'[s].brand = saves[s].brand
      /\ saves'[s].stage = "saved" => saves[s].stage = "saved" \/ ~open'
      /\ saves[s].stage = "failed" =>
            saves'[s].stage = "failed" /\ saves'[s].told = saves[s].told
      /\ saves[s].stage # "failed" /\ saves'[s].stage = "failed" =>
            saves'[s].told = (open /\ saves[s].form = form)
  BY <1>1, SaveTyped DEF EndSave, At, Continue, SaveRecords, Stages, TypeOK
<1> QED
  BY <1>1, <1>2, <1>3 DEF EndSave, TypeOK, AccessTypeOK, CallStep, adminVars

\* What the click on a button does.
LEMMA SaveSteps ==
    ASSUME TypeOK, OpenMeansUnsaved,
           NEW s \in Saves, NEW chosen \in SUBSET Connections, Save(s, chosen)
    PROVE  TypeOK'
<1>1. form \in 1 .. MaxForms
  BY BoundsAssumption DEF TypeOK, OpenMeansUnsaved, Save
<1> QED
  BY <1>1 DEF Save, TypeOK, AccessTypeOK, SaveRecords, Stages, accessVars, pageVars

-----------------------------------------------------------------------------
\* A step of the page keeps the invariant.
LEMMA PageKeeps ==
    ASSUME IInv, TypeOK', PageStep
    PROVE  IInv'
<1> USE DEF IInv, PageStep
<1>1. SavesInOrder'
  BY DEF SavesInOrder
<1>2. OpenMeansUnsaved'
  BY SaveTyped DEF OpenMeansUnsaved, Active, TypeOK
<1>3. DoneSoFar'
  BY DEF DoneSoFar
<1>4. StaysInBrand'
  BY DEF StaysInBrand
<1>5. SecondPostNeedsError'
  BY DEF SecondPostNeedsError
<1> QED
  BY <1>1, <1>2, <1>3, <1>4, <1>5

\* Beginning a save keeps it: the form is open and not busy, so that every save of
\* it has failed and shown its error.
LEMMA SaveKeeps ==
    ASSUME IInv, TypeOK', NEW s \in Saves, NEW chosen \in SUBSET Connections,
           Save(s, chosen)
    PROVE  IInv'
<1> USE DEF IInv
<1>0. /\ saves[s] = None
      /\ saves' = [saves EXCEPT ![s] = saves'[s]]
      /\ saves'[s] # None
      /\ saves'[s].form = form /\ saves'[s].stage = "draft"
      /\ \A r \in Saves : r < s => saves[r] # None
      /\ UNCHANGED <<form, open, posts, publications>>
      /\ open /\ ~Busy
  <2>1. saves'[s] = [form |-> form, brand |-> brand, targets |-> chosen, calls |-> {},
                     stage |-> "draft", told |-> FALSE]
    BY DEF Save, TypeOK
  <2>2. saves'[s] \in SaveRecords
    BY <2>1, BoundsAssumption DEF TypeOK, SaveRecords, Stages, OpenMeansUnsaved, Save
  <2> QED BY <2>1, <2>2, NoneAssumption DEF Save, TypeOK, pageVars
<1>1. SavesInOrder'
  BY <1>0 DEF SavesInOrder, TypeOK, Saves
<1>2. OpenMeansUnsaved'
  BY <1>0, SaveTyped DEF OpenMeansUnsaved, Active, TypeOK
<1>3. DoneSoFar'
  BY <1>0 DEF DoneSoFar, TypeOK
<1>4. StaysInBrand'
  BY <1>0 DEF StaysInBrand, SavesInOrder, TypeOK
<1>5. SecondPostNeedsError'
  BY <1>0 DEF SecondPostNeedsError, OpenMeansUnsaved, SavesInOrder, Busy, Active, TypeOK, Saves
<1> QED
  BY <1>1, <1>2, <1>3, <1>4, <1>5

\* What every step of a call keeps.
LEMMA CallKeepsForms ==
    ASSUME IInv, TypeOK', NEW s \in Saves, CallStep(s)
    PROVE  /\ OpenMeansUnsaved' /\ SecondPostNeedsError'
           /\ \A r \in Saves \ {s} : saves'[r] = saves[r]
           /\ saves'[s] # None
           /\ \A r \in Saves : saves'[r] # None <=> saves[r] # None
<1> USE DEF IInv
<1>1. \A r \in Saves \ {s} : saves'[r] = saves[r]
  BY DEF CallStep, TypeOK
<1>2. saves'[s] # None
  BY NoneAssumption DEF CallStep
<1>3. \A r \in Saves : saves'[r] # None <=> saves[r] # None
  BY <1>1, <1>2 DEF CallStep
<1>4. OpenMeansUnsaved'
  BY <1>1, <1>2, SaveTyped DEF CallStep, OpenMeansUnsaved, Active, TypeOK, SaveRecords, Stages
<1>5. SecondPostNeedsError'
  BY <1>1, <1>2, <1>3 DEF CallStep, SecondPostNeedsError
<1> QED
  BY <1>1, <1>2, <1>3, <1>4, <1>5

\* Creating the draft: get_brand has found the brand in the workspace of the request.
LEMMA DraftKeeps ==
    ASSUME IInv, NEW s \in Saves, Draft(s)
    PROVE  IInv'
<1>0. TypeOK' /\ CallStep(s)
  BY DraftSteps DEF IInv
<1>1. /\ OpenMeansUnsaved' /\ SecondPostNeedsError'
      /\ \A r \in Saves \ {s} : saves'[r] = saves[r]
      /\ \A r \in Saves : saves'[r] # None <=> saves[r] # None
  BY <1>0, CallKeepsForms
<1>t. TypeOK BY DEF IInv
<1>2. /\ saves[s] # None /\ saves[s].stage = "draft" /\ saves[s] \in SaveRecords
      /\ publications' = publications
      /\ \A r \in Saves \ {s} : posts'[r] = posts[r]
      /\ saves'[s].brand = saves[s].brand
  <2>1. saves[s] # None /\ saves[s].stage = "draft" /\ publications' = publications
    BY DEF Draft, At
  <2>2. \A r \in Saves \ {s} : posts'[r] = posts[r]
    BY <1>t DEF Draft, CreateDraft, TypeOK
  <2> QED BY <1>0, <1>t, <2>1, <2>2, SaveTyped DEF CallStep
<1>g. ASSUME GiveUp(s) PROVE saves'[s].stage = "failed"
  BY <1>2, <1>t, <1>g DEF GiveUp, SaveRecords, TypeOK
<1>3. CASE UNCHANGED posts /\ saves'[s].stage = "failed"
  <2>1. SavesInOrder'
    BY <1>1, <1>2, <1>3 DEF IInv, SavesInOrder
  <2>2. DoneSoFar'
    BY <1>1, <1>2, <1>3 DEF IInv, DoneSoFar
  <2>3. StaysInBrand'
    BY <1>1, <1>2, <1>3 DEF IInv, StaysInBrand
  <2> QED BY <1>0, <1>1, <2>1, <2>2, <2>3 DEF IInv
<1>4. CASE CreateDraft(s)
  <2>1. Tenant \in Workspaces /\ saves[s].brand.workspace = Tenant
    BY <1>4, TenantIsWorkspace
       DEF CreateDraft, MayWrite, BrandFound, BrandIds, Admitted, IInv, TypeOK
  <2>2. /\ posts'[s] = [tenant |-> Tenant, brand |-> saves[s].brand, approved |-> FALSE]
        /\ posts'[s] \in Posts /\ posts'[s] # None
    <3>1. posts'[s] = [tenant |-> Tenant, brand |-> saves[s].brand, approved |-> FALSE]
      BY <1>4, <1>t DEF CreateDraft, TypeOK
    <3>2. posts'[s] \in Posts
      BY <1>2, <1>t, <2>1, <3>1, SaveTyped DEF Posts
    <3> QED BY <3>1, <3>2, NoneAssumption
  <2>3. SavesInOrder'
    BY <1>1, <1>2, <2>2 DEF IInv, SavesInOrder
  <2>4. saves'[s].stage \in {"failed", "approve"}
            \/ (saves'[s].stage = "refresh" /\ saves'[s].targets = {})
    <3>1. ASSUME NEW stage, Continue(s, stage)
          PROVE  saves'[s].stage = stage /\ saves'[s].targets = saves[s].targets
      BY <1>2, <1>t, <3>1 DEF Continue, SaveRecords, TypeOK
    <3> QED BY <1>g, <3>1 DEF Draft
  <2>5. DoneSoFar'
    BY <1>1, <1>2, <2>2, <2>4 DEF IInv, DoneSoFar
  <2>6. StaysInBrand'
    BY <1>1, <1>2, <2>1, <2>2 DEF IInv, StaysInBrand
  <2> QED BY <1>0, <1>1, <2>3, <2>5, <2>6 DEF IInv
<1> QED
  BY <1>g, <1>3, <1>4 DEF Draft

\* Approving it changes neither its workspace nor its brand.
LEMMA ApproveKeeps ==
    ASSUME IInv, NEW s \in Saves, Approve(s)
    PROVE  IInv'
<1>0. TypeOK' /\ CallStep(s)
  BY ApproveSteps DEF IInv
<1>1. /\ OpenMeansUnsaved' /\ SecondPostNeedsError'
      /\ \A r \in Saves \ {s} : saves'[r] = saves[r]
      /\ \A r \in Saves : saves'[r] # None <=> saves[r] # None
  BY <1>0, CallKeepsForms
<1>2. /\ saves[s] # None /\ saves[s].stage = "approve" /\ posts[s] \in Posts
      /\ publications' = publications
      /\ \A r \in Saves \ {s} : posts'[r] = posts[r]
      /\ saves'[s].brand = saves[s].brand
  BY <1>0 DEF Approve, At, ApprovePost, CallStep, IInv, TypeOK, DoneSoFar
<1>3. /\ posts'[s].tenant = posts[s].tenant /\ posts'[s].brand = posts[s].brand
      /\ posts'[s] # None
  <2>1. CASE UNCHANGED posts
    BY <1>2, <2>1, NoneAssumption
  <2>2. CASE ApprovePost(s)
    <3>1. posts'[s] = [posts[s] EXCEPT !.approved = TRUE]
      BY <2>2 DEF ApprovePost, IInv, TypeOK
    <3>2. posts'[s] \in Posts
      BY <1>2, <3>1 DEF Posts
    <3> QED BY <1>2, <3>1, <3>2, NoneAssumption DEF Posts
  <2> QED BY <2>1, <2>2 DEF Approve
<1>4. \/ saves'[s].stage = "failed"
      \/ saves'[s].stage = "schedule" /\ saves'[s].calls = saves'[s].targets
         /\ posts'[s].approved
  BY <1>2 DEF Approve, ApprovePost, StartCalls, GiveUp, IInv, TypeOK, SaveRecords, Posts
<1>5. SavesInOrder'
  BY <1>1, <1>2 DEF IInv, SavesInOrder
<1>6. DoneSoFar'
  BY <1>1, <1>2, <1>3, <1>4 DEF IInv, DoneSoFar
<1>7. StaysInBrand'
  <2>1. posts[s] # None
    BY <1>2, NoneAssumption
  <2>2. ASSUME NEW r \in Saves
        PROVE  /\ posts'[r] # None <=> posts[r] # None
               /\ posts[r] # None => posts'[r].tenant = posts[r].tenant
                                    /\ posts'[r].brand = posts[r].brand
               /\ saves'[r].brand = saves[r].brand
    BY <1>1, <1>2, <1>3, <2>1
  <2> QED BY <1>2, <2>2 DEF IInv, StaysInBrand
<1> QED
  BY <1>0, <1>1, <1>5, <1>6, <1>7 DEF IInv

\* Scheduling it finds a connection of its brand.
LEMMA ScheduleKeeps ==
    ASSUME IInv, NEW s \in Saves, NEW c \in Connections, Schedule(s, c)
    PROVE  IInv'
<1>0. TypeOK' /\ CallStep(s)
  BY ScheduleSteps DEF IInv
<1>t. TypeOK BY DEF IInv
<1>1. /\ OpenMeansUnsaved' /\ SecondPostNeedsError'
      /\ \A r \in Saves \ {s} : saves'[r] = saves[r]
      /\ \A r \in Saves : saves'[r] # None <=> saves[r] # None
  BY <1>0, CallKeepsForms
<1>2. /\ saves[s] # None /\ saves[s] \in SaveRecords /\ c \in saves[s].calls
      /\ posts' = posts
      /\ saves'[s].brand = saves[s].brand
  BY <1>0, <1>t, SaveTyped DEF Schedule, CallStep
<1>3. /\ publications \subseteq publications'
      /\ publications' \subseteq publications \cup {<<s, c>>}
      /\ publications' = publications
            \/ (posts[s] # None /\ c.brand = posts[s].brand /\ publications' = publications \cup {<<s, c>>})
  BY DEF Schedule, SchedulePublication, PostFound, ConnectionFound
<1>4. \/ saves'[s].stage = "failed"
      \/ /\ <<s, c>> \in publications'
         /\ saves'[s].targets = saves[s].targets
         /\ saves'[s].calls = saves[s].calls \ {c}
         /\ \/ saves'[s].stage = saves[s].stage
            \/ saves[s].stage = "schedule" /\ saves'[s].stage = "refresh" /\ saves[s].calls = {c}
  <2>1. ASSUME Rejected(s, c) PROVE saves'[s].stage = "failed"
    BY <1>2, <1>t, <2>1 DEF Rejected, SaveRecords, TypeOK
  <2>2. ASSUME Answered(s, c)
        PROVE  /\ saves'[s].targets = saves[s].targets
               /\ saves'[s].calls = saves[s].calls \ {c}
               /\ \/ saves'[s].stage = saves[s].stage
                  \/ saves[s].stage = "schedule" /\ saves'[s].stage = "refresh" /\ saves[s].calls = {c}
    BY <1>2, <1>t, <2>2 DEF Answered, SaveRecords, TypeOK
  <2> QED BY <2>1, <2>2 DEF Schedule, SchedulePublication
<1>5. SavesInOrder'
  BY <1>1, <1>2, <1>3 DEF IInv, SavesInOrder
<1>6. DoneSoFar'
  <2>1. ASSUME NEW r \in Saves \ {s}
        PROVE  saves'[r] = saves[r] /\ posts'[r] = posts[r]
               /\ \A d \in saves[r].targets : <<r, d>> \in publications => <<r, d>> \in publications'
    BY <1>1, <1>2, <1>3
  <2>2. ASSUME saves'[s].stage # "failed"
        PROVE  \A d \in saves'[s].targets :
                  saves[s].stage \in {"schedule", "refresh", "saved"} =>
                      d \in saves'[s].calls \/ <<s, d>> \in publications'
    BY <1>2, <1>3, <1>4, <2>2 DEF IInv, DoneSoFar
  <2>3. ASSUME saves'[s].stage # "failed", saves'[s].stage \in {"refresh", "saved"}
        PROVE  \A d \in saves'[s].targets : <<s, d>> \in publications'
    BY <1>2, <1>3, <1>4, <2>3 DEF IInv, DoneSoFar
  <2> QED BY <1>1, <1>2, <1>4, <2>1, <2>2, <2>3 DEF IInv, DoneSoFar
<1>7. StaysInBrand'
  BY <1>1, <1>2, <1>3 DEF IInv, StaysInBrand
<1> QED
  BY <1>0, <1>1, <1>5, <1>6, <1>7 DEF IInv

\* The end of a save.
LEMMA EndSaveKeeps ==
    ASSUME IInv, NEW s \in Saves, EndSave(s)
    PROVE  IInv'
<1>0. TypeOK' /\ CallStep(s)
  BY EndSaveSteps DEF IInv
<1>t. TypeOK BY DEF IInv
<1>1. /\ OpenMeansUnsaved' /\ SecondPostNeedsError'
      /\ \A r \in Saves \ {s} : saves'[r] = saves[r]
      /\ \A r \in Saves : saves'[r] # None <=> saves[r] # None
  BY <1>0, CallKeepsForms
<1>2. /\ saves[s] # None /\ saves[s] \in SaveRecords /\ saves[s].stage = "refresh"
      /\ UNCHANGED <<posts, publications>>
      /\ saves'[s].brand = saves[s].brand
  BY <1>0, <1>t, SaveTyped DEF EndSave, At, CallStep
<1>3. saves'[s].stage = "saved" /\ saves'[s].targets = saves[s].targets
  BY <1>2, <1>t DEF EndSave, Continue, SaveRecords, TypeOK
<1>4. SavesInOrder' /\ DoneSoFar' /\ StaysInBrand'
  BY <1>1, <1>2, <1>3 DEF IInv, SavesInOrder, DoneSoFar, StaysInBrand
<1> QED
  BY <1>0, <1>1, <1>4 DEF IInv

-----------------------------------------------------------------------------
\* The page of a user who has just logged in.
LEMMA InitInv == Init => IInv
<1> SUFFICES ASSUME Init PROVE IInv
  OBVIOUS
<1>1. First(Workspaces) \in Workspaces
  BY FirstIsMember, WorkspacesAssumption
<1>2. TypeOK
  <2>1. MaxForms \in Nat /\ MaxChanges \in Nat
    BY BoundsAssumption, ChangesAssumption
  <2>2. AccessTypeOK
    BY <1>1, <2>1 DEF Init, AccessInit, AccessTypeOK, Roles
  <2>3. brand \in Brands /\ open = FALSE
    BY DEF Init
  <2>4. refreshing \in [Refreshes -> Brands \cup {None}]
    BY <2>3 DEF Init
  <2>5. form \in 0 .. MaxForms
    BY <2>1 DEF Init
  <2> QED BY <2>2, <2>3, <2>4, <2>5 DEF Init, TypeOK
<1> QED
  BY <1>2 DEF Init, IInv, SavesInOrder, OpenMeansUnsaved, DoneSoFar, StaysInBrand,
              SecondPostNeedsError

\* Every step keeps the invariant.
LEMMA NextInv == IInv /\ [Next]_vars => IInv'
<1> SUFFICES ASSUME IInv, [Next]_vars PROVE IInv'
  OBVIOUS
<1>t. TypeOK /\ targets \in SUBSET Connections BY DEF IInv, TypeOK
<1>1. CASE UNCHANGED vars
  BY <1>1 DEF vars, accessVars, IInv, TypeOK, AccessTypeOK, SavesInOrder, OpenMeansUnsaved,
              Active, DoneSoFar, StaysInBrand, SecondPostNeedsError
<1>2. ASSUME NEW s \in Saves, NEW chosen \in SUBSET Connections, Save(s, chosen)
      PROVE  IInv'
  BY <1>2, SaveSteps, SaveKeeps DEF IInv
<1>3. ASSUME NEW s \in Saves, Draft(s) \/ Approve(s) \/ EndSave(s) PROVE IInv'
  BY <1>3, DraftKeeps, ApproveKeeps, EndSaveKeeps
<1>4. ASSUME NEW s \in Saves, NEW c \in Connections, Schedule(s, c) PROVE IInv'
  BY <1>4, ScheduleKeeps
<1>5. ASSUME TypeOK' /\ PageStep PROVE IInv'
  BY <1>5, PageKeeps
<1> QED
  BY <1>t, <1>1, <1>2, <1>3, <1>4, <1>5, PageSteps DEF Next

\* Whatever the user, the administrator and the network do, saves are numbered in their
\* order, each has done what its stage says, and forms show their errors.
THEOREM Invariant == Spec => []IInv
BY InitInv, NextInv, PTL DEF Spec

-----------------------------------------------------------------------------
\* Every variable of the page, of the session and of the database has its type.
THEOREM TypesHold == Spec => []TypeOK
<1>1. IInv => TypeOK BY DEF IInv
<1> QED BY Invariant, <1>1, PTL

\* A post is in the workspace of its brand and in the brand its form showed, and is
\* scheduled on connections of that brand only, whatever lists the page shows and
\* whichever workspace the session has moved to.
THEOREM PostsStayInBrand == Spec => []StaysInBrand
<1>1. IInv => StaysInBrand BY DEF IInv
<1> QED BY Invariant, <1>1, PTL

\* A form that makes its post a second time has shown an error before.
THEOREM SecondPostsNeedErrors == Spec => []SecondPostNeedsError
<1>1. IInv => SecondPostNeedsError BY DEF IInv
<1> QED BY Invariant, <1>1, PTL

\* A save that ends without an error has scheduled its post on every connection
\* that was chosen, however many calls were in flight at once.
THEOREM SavesAreScheduled == Spec => []SavedMeansScheduled
<1>1. IInv => SavedMeansScheduled
  BY DEF IInv, DoneSoFar, SavedMeansScheduled, At
<1> QED BY Invariant, <1>1, PTL

-----------------------------------------------------------------------------
(***************************************************************************)
(* Panel implements PostReview, with no review links.  An approval is not    *)
(* taken back because a save that is still to make its post has none.       *)
(***************************************************************************)
UndraftedYet ==
    \A s \in Saves : saves[s] # None /\ saves[s].stage = "draft" => posts[s] = None

\* No step makes a save start again.
LEMMA UndraftedStep == IInv /\ UndraftedYet /\ [Next]_vars => UndraftedYet'
<1> SUFFICES ASSUME IInv, UndraftedYet, [Next]_vars PROVE UndraftedYet'
  OBVIOUS
<1>t. TypeOK BY DEF IInv
<1>1. CASE UNCHANGED <<saves, posts>>
  BY <1>1 DEF UndraftedYet
<1>2. ASSUME NEW s \in Saves, NEW chosen, Save(s, chosen) PROVE UndraftedYet'
  BY <1>t, <1>2 DEF UndraftedYet, Save, IInv, SavesInOrder, TypeOK
<1>3. ASSUME NEW s \in Saves, Draft(s) PROVE UndraftedYet'
  <2>1. saves[s] # None /\ saves[s] \in SaveRecords
    BY <1>t, <1>3, SaveTyped DEF Draft, At
  <2>2. saves'[s].stage \in {"refresh", "approve", "failed"}
    BY <1>t, <1>3, <2>1 DEF Draft, Continue, GiveUp, SaveRecords, TypeOK
  <2>3. \A r \in Saves \ {s} : saves'[r] = saves[r] /\ posts'[r] = posts[r]
    BY <1>t, <1>3 DEF Draft, CreateDraft, Continue, GiveUp, TypeOK
  <2> QED BY <2>2, <2>3 DEF UndraftedYet
<1>4. ASSUME NEW s \in Saves, Approve(s) PROVE UndraftedYet'
  <2>1. saves[s] # None /\ saves[s] \in SaveRecords
    BY <1>t, <1>4, SaveTyped DEF Approve, At
  <2>2. saves'[s].stage \in {"schedule", "failed"}
    BY <1>t, <1>4, <2>1 DEF Approve, StartCalls, GiveUp, SaveRecords, TypeOK
  <2>3. \A r \in Saves \ {s} : saves'[r] = saves[r] /\ posts'[r] = posts[r]
    BY <1>t, <1>4 DEF Approve, ApprovePost, StartCalls, GiveUp, TypeOK
  <2> QED BY <2>2, <2>3 DEF UndraftedYet
<1>5. ASSUME NEW s \in Saves, NEW c \in Connections, Schedule(s, c) PROVE UndraftedYet'
  <2>1. saves[s] # None /\ saves[s] \in SaveRecords /\ posts' = posts
    BY <1>t, <1>5, SaveTyped DEF Schedule
  <2>2. saves'[s].stage \in {saves[s].stage, "refresh", "failed"}
    BY <1>t, <1>5, <2>1 DEF Schedule, Answered, Rejected, SaveRecords, TypeOK
  <2>3. \A r \in Saves \ {s} : saves'[r] = saves[r]
    BY <1>t, <1>5 DEF Schedule, Answered, Rejected, TypeOK
  <2> QED BY <2>1, <2>2, <2>3 DEF UndraftedYet
<1>6. ASSUME NEW s \in Saves, EndSave(s) PROVE UndraftedYet'
  BY <1>t, <1>6, SaveTyped DEF EndSave, At, Continue, SaveRecords, UndraftedYet, TypeOK
<1> QED
  BY <1>t, <1>1, <1>2, <1>3, <1>4, <1>5, <1>6, PageSteps DEF Next, PageStep, vars

LEMMA ReviewInit == Init => Review!Init /\ UndraftedYet
BY DEF Init, Review!Init, Reviewed, UndraftedYet

\* A draft is a post that nobody has approved.
LEMMA ReviewDraft ==
    ASSUME IInv, UndraftedYet, NEW s \in Saves, Draft(s)
    PROVE  UNCHANGED Review!vars
<1>t. TypeOK BY DEF IInv
<1>1. posts[s] = None /\ publications' = publications
  BY DEF Draft, At, UndraftedYet
<1>2. \A r \in Saves : r # s => posts'[r] = posts[r]
  BY <1>t DEF Draft, CreateDraft, TypeOK
<1>3. posts'[s] = None \/ posts'[s].approved = FALSE
  BY <1>t, <1>1 DEF Draft, CreateDraft, TypeOK
<1>4. \A r \in Saves : Reviewed(r)' = Reviewed(r)
  BY <1>1, <1>2, <1>3 DEF Reviewed
<1> QED BY <1>1, <1>4 DEF Review!vars

\* An approval approves its post, or finds it approved or fails.
LEMMA ReviewApprove ==
    ASSUME TypeOK, NEW s \in Saves, Approve(s)
    PROVE  [Review!Next]_(Review!vars)
<1>1. publications' = publications
  BY DEF Approve
<1>2. \A r \in Saves : r # s => Reviewed(r)' = Reviewed(r)
  BY DEF Approve, ApprovePost, Reviewed, TypeOK
<1>3. UNCHANGED posts \/ Reviewed(s)' = "APPROVED"
  <2> SUFFICES ASSUME ApprovePost(s) PROVE Reviewed(s)' = "APPROVED"
    BY DEF Approve
  <2>1. PICK p \in Posts : p = posts[s]
    BY DEF ApprovePost, PostFound, TypeOK
  <2>2. posts'[s] = [p EXCEPT !.approved = TRUE]
    BY <2>1 DEF ApprovePost, TypeOK
  <2>3. posts'[s] \in Posts /\ posts'[s].approved = TRUE
    BY <2>2 DEF Posts
  <2> QED BY <2>3, NoneAssumption DEF Reviewed
<1>4. CASE Reviewed(s)' = Reviewed(s)
  BY <1>1, <1>2, <1>4 DEF Review!vars
<1>5. CASE Reviewed(s)' # Reviewed(s)
  <2>1. Reviewed(s) = "DRAFT" /\ Reviewed(s)' = "APPROVED"
    BY <1>3, <1>5 DEF Reviewed
  <2>2. [r \in Saves |-> Reviewed(r)]' =
            [[r \in Saves |-> Reviewed(r)] EXCEPT ![s] = "APPROVED"]
    BY <1>2, <2>1
  <2>3. Review!Approve(s)
    BY <1>1, <2>1, <2>2 DEF Review!Approve, Review!Put, Review!Undecided
  <2> QED BY <2>3 DEF Review!Next
<1> QED BY <1>4, <1>5

\* A publication is made for an approved post.
LEMMA ReviewSchedule ==
    ASSUME TypeOK, NEW s \in Saves, NEW c \in Connections, Schedule(s, c)
    PROVE  [Review!Next]_(Review!vars)
<1> DEFINE Scheduled == {r \in Saves : \E d \in Connections : <<r, d>> \in publications}
<1>1. posts' = posts /\ \A r \in Saves : Reviewed(r)' = Reviewed(r)
  BY DEF Schedule, Reviewed
<1>2. CASE UNCHANGED publications
  BY <1>1, <1>2 DEF Review!vars
<1>3. CASE SchedulePublication(s, c)
  <2>1. Reviewed(s) = "APPROVED"
    BY <1>3 DEF SchedulePublication, PostFound, Reviewed
  <2>2. publications' = publications \cup {<<s, c>>}
    BY <1>3 DEF SchedulePublication
  <2>3. Scheduled' = Scheduled \cup {s}
    BY <2>2
  <2>4. Review!Schedule(s)
    BY <1>1, <2>1, <2>3 DEF Review!Schedule
  <2> QED BY <2>4 DEF Review!Next
<1> QED BY <1>2, <1>3 DEF Schedule

\* The other steps leave posts and publications alone.
LEMMA ReviewStep == IInv /\ UndraftedYet /\ [Next]_vars => [Review!Next]_(Review!vars)
<1> SUFFICES ASSUME IInv, UndraftedYet, [Next]_vars PROVE [Review!Next]_(Review!vars)
  OBVIOUS
<1>t. TypeOK BY DEF IInv
<1>1. ASSUME UNCHANGED <<posts, publications>> PROVE UNCHANGED Review!vars
  BY <1>1 DEF Review!vars, Reviewed
<1>2. ASSUME NEW s \in Saves, Draft(s) \/ Approve(s) \/ EndSave(s)
      PROVE  [Review!Next]_(Review!vars)
  BY <1>t, <1>1, <1>2, ReviewDraft, ReviewApprove DEF EndSave
<1>3. ASSUME NEW s \in Saves, NEW c \in Connections, Schedule(s, c)
      PROVE  [Review!Next]_(Review!vars)
  BY <1>t, <1>3, ReviewSchedule
<1>4. ASSUME NEW s \in Saves, NEW chosen, Save(s, chosen)
      PROVE  [Review!Next]_(Review!vars)
  BY <1>1, <1>4 DEF Save
<1> QED
  BY <1>t, <1>1, <1>2, <1>3, <1>4, PageSteps DEF Next, PageStep, vars

\* Every call of the page, in whatever order its answers come, is an act of the
\* editorial workflow or leaves it alone: the contract that Approvals keeps under
\* concurrent requests.
THEOREM PanelImplementsReview == Spec => ImplementsReview
<1>1. IInv /\ UndraftedYet /\ [Next]_vars => (IInv /\ UndraftedYet)'
  BY NextInv, UndraftedStep
<1> QED
  BY <1>1, InitInv, ReviewInit, ReviewStep, PTL DEF Spec, ImplementsReview, Review!Spec
=============================================================================
