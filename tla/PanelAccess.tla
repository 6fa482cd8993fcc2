----------------------------- MODULE PanelAccess -----------------------------
(***************************************************************************)
(* What the server lets a member of the panel do.                           *)
(*                                                                         *)
(*   relay/api/authentication.py   panel_principal, ROLE_SCOPES             *)
(*   relay/api/permissions.py      HasRelayScope                            *)
(*   relay/api/views.py            get_tenant, get_brand, the lookups       *)
(*   relay/tenancy                 Tenant, Brand, Membership                *)
(*                                                                         *)
(* There is one user.  Every request resolves the user anew, from the        *)
(* workspace that the session names and the memberships of that moment, and  *)
(* leaves the workspace it found in the session: a member who is removed     *)
(* from a workspace goes on, with the page that is already open, in another. *)
(***************************************************************************)
EXTENDS Naturals, FiniteSets

CONSTANTS
    Workspaces,  \* rows of Tenant, as numbers in the order of their names
    Names,       \* names of brands, unique in a workspace
    Channels,    \* each brand has one connection for each of them
    MaxChanges   \* bound: changes an administrator makes

ASSUME WorkspacesAssumption == Workspaces \subseteq Nat /\ Workspaces # {}
ASSUME ChangesAssumption == MaxChanges \in Nat

VARIABLES
    roles,    \* the role of the user in each workspace
    closed,   \* the workspaces whose is_active is false
    session,  \* the workspace that the session names
    changes   \* how many changes an administrator made

accessVars == <<roles, closed, session, changes>>
adminVars == <<roles, closed, changes>>

\* OWNER, MANAGER and CONTENT_CREATOR may do all that a save does, the other two
\* roles only read.  "none" is no membership or one that is not active.
Roles == {"writer", "reader", "none"}

Brands == [workspace : Workspaces, name : Names]
Connections == [brand : Brands, channel : Channels]

AccessTypeOK ==
    /\ roles \in [Workspaces -> Roles]
    /\ closed \subseteq Workspaces
    /\ session \in Workspaces
    /\ changes \in 0 .. MaxChanges

First(S) == CHOOSE w \in S : \A v \in S : w <= v

-----------------------------------------------------------------------------
Memberships == {w \in Workspaces : roles[w] # "none"}

\* The workspace of the request: the session's, else the first one by name.
Tenant == IF session \in Memberships THEN session ELSE First(Memberships)

\* The first one by name is refused if it is not active, whatever the others are.
Admitted == Memberships # {} /\ Tenant \notin closed

\* A request that is admitted leaves its workspace in the session, even if the
\* view then refuses it.
KeepTenant == session' = IF Admitted THEN Tenant ELSE session

\* principal.brand_ids.  No brand is closed here: it would be refused like one of
\* another workspace.
BrandIds == {b \in Brands : b.workspace = Tenant}

\* Mutant: a brand is looked up by its id alone.
BrandOfAnybody(b) == Admitted /\ b \in Brands

\* get_brand; the lookup of a row of this brand asks for the same.
BrandFound(b) == Admitted /\ b \in BrandIds

MayRead(b) == BrandFound(b)
MayWrite(b) == BrandFound(b) /\ roles[Tenant] = "writer"

\* Mutant: a connection is looked up in the workspace, whatever its brand.
ConnectionOfTenant(c, b) == c.brand.workspace = Tenant

\* The view asks for a connection of the workspace and of the brand of the post,
\* and schedule_publication asks again.
ConnectionFound(c, b) == c.brand.workspace = Tenant /\ c.brand = b

-----------------------------------------------------------------------------
\* PanelLoginView: panel_context finds the first workspace for a new session.
AccessInit ==
    /\ roles = [w \in Workspaces |-> "writer"]
    /\ closed = {}
    /\ session = First(Workspaces)
    /\ changes = 0

\* An administrator changes a membership, or closes or reopens a workspace.
\* Nothing in the panel does.
Administer ==
    /\ changes < MaxChanges
    /\ changes' = changes + 1
    /\ \E w \in Workspaces :
        \/ /\ \E r \in Roles \ {roles[w]} : roles' = [roles EXCEPT ![w] = r]
           /\ UNCHANGED closed
        \/ /\ closed' = IF w \in closed THEN closed \ {w} ELSE closed \cup {w}
           /\ UNCHANGED roles
    /\ UNCHANGED session

=============================================================================
