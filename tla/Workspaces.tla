----------------------------- MODULE Workspaces -----------------------------
(***************************************************************************)
(* Workspaces, projects and what a run is bound to: product_service.py     *)
(* with the routes that resolve a project, execution.py and                *)
(* assert_judge.py.                                                        *)
(*                                                                         *)
(* A project is found by its key, which several users may use, or by its   *)
(* id, which is unique.  All projects of the model have the same key: a    *)
(* user owns at most one (the unique constraint of entities.py:91), and    *)
(* the id of a project is its owner.  A user sees what they own and what a *)
(* workspace of theirs holds.                                              *)
(*                                                                         *)
(* Each request is one transaction.  Getting or creating a row recovers    *)
(* from a request that created it meanwhile, so it is one step.  Names,    *)
(* plans, settings and saved reports decide nothing here.                  *)
(***************************************************************************)
EXTENDS Naturals, FiniteSets

CONSTANTS Users, Places,
          Founder,  \* Founder[p]: the user who creates the workspace p
          Offers,   \* the members an admin adds or invites: <<place, user, role>>
          Runners,  \* the users who start a run
          Absent, Personal, Free, Unbound

(* "admin" stands for owner too: every check accepts both or neither. *)
Roles == {"viewer", "editor", "admin"}

ASSUME WorkspacesAssumption ==
  /\ Founder \in [Places -> Users] /\ Runners \subseteq Users
  /\ Offers \subseteq Places \X Users \X Roles
  /\ {Absent, Personal, Free, Unbound} \cap (Users \cup Places) = {}

VARIABLES
  role,      \* role[p][u]: of the member u of p, or "none"
  invited,   \* pending invitations
  home,      \* home[o]: where the project of o is
  bound,     \* bound[u]: the project of the run of u, Unbound (it has none), or Free (no run)
  resolving  \* resolving[u]: the projects its reviews have resolved and not yet bound

workspaceVars == <<role, invited, home, bound, resolving>>

WorkspacesInit ==
  /\ role = [p \in Places |-> [u \in Users |-> "none"]]
  /\ invited = {}
  /\ home = [o \in Users |-> Absent]
  /\ bound = [u \in Users |-> Free]
  /\ resolving = [u \in Users |-> {}]

-----------------------------------------------------------------------------
Member(u, o) == home[o] \in Places /\ role[home[o]][u] # "none"

(* find_visible_projects, _visible_project_clause *)
Visible(u) == {o \in Users : home[o] # Absent /\ (o = u \/ Member(u, o))}

(* Mutant: a key that became ambiguous refuses an exact id too. *)
ResolvedAfterKey(u, named) ==
  IF Cardinality(Visible(u)) > 1 THEN {} ELSE IF named = Unbound THEN Visible(u)
                                                               ELSE Visible(u) \cap {named}

(* resolve_execution_product_project_id: at most one project, the named one or
   the only one of the key.                                                 *)
Resolved(u, named) ==
  IF named # Unbound THEN Visible(u) \cap {named}
  ELSE IF Cardinality(Visible(u)) = 1 THEN Visible(u) ELSE {}

(* Without a project at all, the key alone is accepted. *)
Accepted(u, named) == Resolved(u, named) # {} \/ (named = Unbound /\ Visible(u) = {})

(* execution_project_accessible *)
Accessible(u) == bound[u] # Free /\ Accepted(u, bound[u])

-----------------------------------------------------------------------------
NoRun == UNCHANGED <<bound, resolving>>

(* upsert_workspace: its owner is made owner again. *)
FoundWorkspace(p) ==
  /\ role' = [role EXCEPT ![p][Founder[p]] = "admin"]
  /\ UNCHANGED <<invited, home>> /\ NoRun

(* add_workspace_member: whoever is named gets the role, also a lower one. *)
SetMember(requester, offer) ==
  /\ role[offer[1]][requester] = "admin"
  /\ role' = [role EXCEPT ![offer[1]][offer[2]] = offer[3]]
  /\ UNCHANGED <<invited, home>> /\ NoRun

Invite(requester, offer) ==
  /\ role[offer[1]][requester] = "admin"
  /\ invited' = invited \cup {offer}
  /\ UNCHANGED <<role, home>> /\ NoRun

Accept(offer) ==
  /\ offer \in invited
  /\ invited' = invited \ {offer}
  /\ role' = [role EXCEPT ![offer[1]][offer[2]] = offer[3]]
  /\ UNCHANGED home /\ NoRun

(* _get_or_create_project: saving a report or a project makes one's own. *)
WithOwn(u) == IF home[u] = Absent THEN [home EXCEPT ![u] = Personal] ELSE home

Own(u) == home' = WithOwn(u) /\ UNCHANGED <<role, invited>> /\ NoRun

(* upsert_project into a workspace: one's own project, by any member. *)
Share(u, p) ==
  /\ role[p][u] # "none"
  /\ home' = [home EXCEPT ![u] = p]
  /\ UNCHANGED <<role, invited>> /\ NoRun

(* create_execution_run *)
StartRun(u, named) ==
  /\ bound[u] = Free /\ Accepted(u, named)
  /\ bound' = [bound EXCEPT ![u] = IF Resolved(u, named) = {} THEN Unbound
                                   ELSE CHOOSE o \in Resolved(u, named) : TRUE]
  /\ UNCHANGED <<role, invited, home, resolving>>

(* ensure_execution_product_project_id: a review resolves the project of the
   run, and creates one where there is none.                                *)
ResolveReview(u) ==
  /\ Accessible(u)
  /\ LET found == Resolved(u, bound[u]) IN
       /\ resolving' = [resolving EXCEPT ![u] = @ \cup (IF found = {} THEN {u} ELSE found)]
       /\ home' = IF found = {} THEN WithOwn(u) ELSE home
  /\ UNCHANGED <<role, invited, bound>>

(* bind_execution_run_product_project; a review that finds another project
   bound is refused.                                                        *)
BindReview(u, o) ==
  /\ o \in resolving[u]
  /\ resolving' = [resolving EXCEPT ![u] = @ \ {o}]
  /\ bound' = [bound EXCEPT ![u] = IF @ = Unbound THEN o ELSE @]
  /\ UNCHANGED <<role, invited, home>>

Directory ==
  \/ \E p \in Places : FoundWorkspace(p)
  \/ \E u \in Users, offer \in Offers : SetMember(u, offer)
  \/ \E u \in Users : Own(u) \/ \E p \in Places : Share(u, p)

WorkspacesNext ==
  \/ Directory
  \/ \E offer \in Offers : Accept(offer) \/ \E u \in Users : Invite(u, offer)
  \/ \E u \in Runners, named \in Users \cup {Unbound} : StartRun(u, named)
  \/ \E u \in Users : ResolveReview(u) \/ \E o \in Users : BindReview(u, o)

WorkspacesSpec == WorkspacesInit /\ [][WorkspacesNext]_workspaceVars
-----------------------------------------------------------------------------
WorkspacesTypeOK ==
  /\ role \in [Places -> [Users -> Roles \cup {"none"}]]
  /\ invited \subseteq Offers
  /\ home \in [Users -> {Absent, Personal} \cup Places]
  /\ bound \in [Users -> Users \cup {Free, Unbound}]
  /\ resolving \in [Users -> SUBSET Users]

(* execution_run_store.py:61, product_service.py:369: a run keeps the project it
   is bound to, and its user keeps access to it whatever becomes of other
   projects with the same key; only moving this very project to another
   workspace may take it away.                                              *)
BoundStays ==
  [][\A u \in Users : bound[u] \in Users =>
       /\ bound'[u] = bound[u]
       /\ Accessible(u) /\ home'[bound[u]] = home[bound[u]] => Accessible(u)']_workspaceVars
=============================================================================
