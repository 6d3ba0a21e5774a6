--------------------------- MODULE Records_proofs ---------------------------
(***************************************************************************)
(* Theorems about the workspaces, the designs and the scenarios written    *)
(* for them (Workspaces, SpecVersions, UserScenarios), the evaluation      *)
(* (Evaluation) and the composition of all the records (MCRecords): each   *)
(* part of it behaves as the specification of its module, which carries    *)
(* the theorems about the modules over.                                    *)
(***************************************************************************)
EXTENDS MCRecords, Runs_proofs, Calls_proofs, WellFoundedInduction

(* A non-empty set of naturals with a bound has a greatest element: the naturals
   are well founded, also when counted down from the bound.                 *)
LEMMA BoundedMax ==
  ASSUME NEW n \in Nat, NEW S, S \subseteq 0..n, S # {}
  PROVE  Max(S) \in S /\ \A y \in S : y <= Max(S)
<1> DEFINE T == {n - x : x \in S}
           R == {pair \in Nat \X Nat : pair[1] < pair[2]}
<1>0. \A x \in S : x \in 0..n /\ n - x \in Nat
  OBVIOUS
<1>1. T \subseteq Nat /\ T # {}
  BY <1>0
<1>2. IsWellFoundedOn(R, Nat)
  BY NatLessThanWellFounded DEF OpToRel
<1>3. \E z \in T : \A y \in T : ~(<<y, z>> \in R)
  <2> HIDE DEF T, R
  <2> QED
    BY <1>1, <1>2, WFMin
<1>4. PICK x \in S : \A y \in S : ~(<<n - y, n - x>> \in R)
  BY <1>3
<1>5. ASSUME NEW y \in S PROVE x >= y
  <2>1. ~(n - y < n - x)
    BY <1>0, <1>4
  <2> QED
    BY <1>0, <2>1
<1> QED
  BY <1>0, <1>5 DEF Max
-----------------------------------------------------------------------------
(* Workspaces. *)

LEMMA NoneIsNoRole == "none" \notin Roles
  BY DEF Roles

LEMMA OfferTypes ==
  ASSUME NEW offer \in Offers
  PROVE  offer[1] \in Places /\ offer[2] \in Users /\ offer[3] \in Roles
  BY WorkspacesAssumption

LEMMA OwnTypes ==
  ASSUME WorkspacesTypeOK, NEW u \in Users
  PROVE  WithOwn(u) \in [Users -> {Absent, Personal} \cup Places]
  BY DEF WithOwn, WorkspacesTypeOK

(* What a step may do to the directory: a member keeps a role, and a project
   that is there stays.                                                     *)
Grows ==
  /\ \A p \in Places, u \in Users : role[p][u] # "none" => role'[p][u] # "none"
  /\ \A o \in Users : home[o] # Absent => home'[o] # Absent

LEMMA GrantStep ==
  ASSUME WorkspacesTypeOK, NEW p \in Places, NEW u \in Users, NEW r \in Roles,
         role' = [role EXCEPT ![p][u] = r]
  PROVE  /\ role' \in [Places -> [Users -> Roles \cup {"none"}]]
         /\ \A q \in Places, v \in Users : role[q][v] # "none" => role'[q][v] # "none"
<1>1. role[p] \in [Users -> Roles \cup {"none"}]
  BY DEF WorkspacesTypeOK
<1>2. role' \in [Places -> [Users -> Roles \cup {"none"}]]
  BY <1>1 DEF WorkspacesTypeOK
<1>3. ASSUME NEW q \in Places, NEW v \in Users, role[q][v] # "none" PROVE role'[q][v] # "none"
  BY <1>1, <1>3, NoneIsNoRole DEF WorkspacesTypeOK
<1> QED
  BY <1>2, <1>3

LEMMA OwnStep ==
  ASSUME WorkspacesTypeOK, NEW u \in Users, home' = WithOwn(u)
  PROVE  /\ home' \in [Users -> {Absent, Personal} \cup Places]
         /\ \A o \in Users : home[o] # Absent => home'[o] = home[o]
  BY OwnTypes DEF WithOwn, WorkspacesTypeOK

(* The absent project is no place, no user and no other mark. *)
LEMMA AbsentIsNoPlace == Absent \notin Places
  BY WorkspacesAssumption

(* The directory: users, workspaces and projects. *)
LEMMA DirectoryStep ==
  ASSUME WorkspacesTypeOK, Directory
  PROVE  WorkspacesTypeOK' /\ Grows /\ UNCHANGED <<bound, resolving>>
<1> USE DEF WorkspacesTypeOK
<1>1. ASSUME NEW p \in Places, FoundWorkspace(p)
      PROVE  WorkspacesTypeOK' /\ Grows /\ UNCHANGED <<bound, resolving>>
  <2>1. Founder[p] \in Users /\ "admin" \in Roles
    BY WorkspacesAssumption DEF Roles
  <2> QED
    BY <1>1, <2>1, GrantStep DEF FoundWorkspace, NoRun, Grows
<1>2. ASSUME NEW u \in Users, NEW offer \in Offers, SetMember(u, offer)
      PROVE  WorkspacesTypeOK' /\ Grows /\ UNCHANGED <<bound, resolving>>
  BY <1>2, OfferTypes, GrantStep DEF SetMember, NoRun, Grows
<1>3. ASSUME NEW u \in Users, Own(u)
      PROVE  WorkspacesTypeOK' /\ Grows /\ UNCHANGED <<bound, resolving>>
  BY <1>3, OwnStep DEF Own, NoRun, Grows
<1>4. ASSUME NEW u \in Users, NEW p \in Places, Share(u, p)
      PROVE  WorkspacesTypeOK' /\ Grows /\ UNCHANGED <<bound, resolving>>
  BY <1>4, AbsentIsNoPlace DEF Share, NoRun, Grows
<1> QED
  BY <1>1, <1>2, <1>3, <1>4 DEF Directory

(* Invitations and runs: a run that has a project keeps it. *)
KeepsBound == \A u \in Users : bound[u] \in Users => bound'[u] = bound[u]

LEMMA RunStep ==
  ASSUME WorkspacesTypeOK,
         \/ \E offer \in Offers : Accept(offer) \/ \E u \in Users : Invite(u, offer)
         \/ \E u \in Runners, named \in Users \cup {Unbound} : StartRun(u, named)
         \/ \E u \in Users : ResolveReview(u) \/ \E o \in Users : BindReview(u, o)
  PROVE  WorkspacesTypeOK' /\ Grows /\ KeepsBound
<1> USE DEF WorkspacesTypeOK
<1>n. Free \notin Users /\ Unbound \notin Users
  BY WorkspacesAssumption
<1>1. ASSUME NEW offer \in Offers, Accept(offer)
      PROVE  WorkspacesTypeOK' /\ Grows /\ KeepsBound
  BY <1>1, OfferTypes, GrantStep DEF Accept, NoRun, Grows, KeepsBound
<1>2. ASSUME NEW offer \in Offers, NEW u \in Users, Invite(u, offer)
      PROVE  WorkspacesTypeOK' /\ Grows /\ KeepsBound
  BY <1>2 DEF Invite, NoRun, Grows, KeepsBound
<1>3. ASSUME NEW u \in Runners, NEW named \in Users \cup {Unbound}, StartRun(u, named)
      PROVE  WorkspacesTypeOK' /\ Grows /\ KeepsBound
  <2>1. u \in Users
    BY WorkspacesAssumption
  <2>2. Resolved(u, named) \subseteq Users
    BY DEF Resolved, Visible
  <2>3. PICK o \in Users \cup {Unbound} : bound' = [bound EXCEPT ![u] = o]
    BY <1>3, <2>2 DEF StartRun
  <2>4. bound' \in [Users -> Users \cup {Free, Unbound}]
    BY <2>1, <2>3
  <2>5. bound[u] = Free /\ UNCHANGED <<role, invited, home, resolving>>
    BY <1>3 DEF StartRun
  <2>6. KeepsBound
    BY <1>n, <2>1, <2>3, <2>5 DEF KeepsBound
  <2> QED
    BY <2>4, <2>5, <2>6 DEF Grows
<1>4. ASSUME NEW u \in Users, ResolveReview(u)
      PROVE  WorkspacesTypeOK' /\ Grows /\ KeepsBound
  <2> DEFINE found == Resolved(u, bound[u])
  <2>1. found \subseteq Users
    BY DEF Resolved, Visible
  <2>2. resolving' \in [Users -> SUBSET Users]
    BY <1>4, <2>1 DEF ResolveReview
  <2>3. home' = home \/ home' = WithOwn(u)
    BY <1>4 DEF ResolveReview
  <2> QED
    BY <1>4, <2>2, <2>3, OwnStep DEF ResolveReview, Grows, KeepsBound
<1>5. ASSUME NEW u \in Users, NEW o \in Users, BindReview(u, o)
      PROVE  WorkspacesTypeOK' /\ Grows /\ KeepsBound
  <2>1. bound' \in [Users -> Users \cup {Free, Unbound}] /\ KeepsBound
    BY <1>5, <1>n DEF BindReview, KeepsBound
  <2>2. resolving' \in [Users -> SUBSET Users]
    BY <1>5 DEF BindReview
  <2> QED
    BY <1>5, <2>1, <2>2 DEF BindReview, Grows
<1> QED
  BY <1>1, <1>2, <1>3, <1>4, <1>5

LEMMA WorkspacesStep ==
  ASSUME WorkspacesTypeOK, WorkspacesNext
  PROVE  WorkspacesTypeOK' /\ Grows /\ KeepsBound
<1>1. CASE Directory
  BY <1>1, DirectoryStep DEF KeepsBound
<1> QED
  BY <1>1, RunStep DEF WorkspacesNext

LEMMA WorkspacesTypeInit == WorkspacesInit => WorkspacesTypeOK
  BY DEF WorkspacesInit, WorkspacesTypeOK

(* Every reachable state is well typed. *)
THEOREM WorkspacesTypeCorrect == WorkspacesSpec => []WorkspacesTypeOK
<1>1. WorkspacesTypeOK /\ [WorkspacesNext]_workspaceVars => WorkspacesTypeOK'
  BY WorkspacesStep DEF WorkspacesTypeOK, workspaceVars
<1> QED
  BY <1>1, WorkspacesTypeInit, PTL DEF WorkspacesSpec

(* A user reaches the run bound to a project exactly when they see it. *)
LEMMA AccessIsSight ==
  ASSUME NEW u \in Users, bound[u] \in Users
  PROVE  Accessible(u) <=> home[bound[u]] # Absent /\ (bound[u] = u \/ Member(u, bound[u]))
<1>1. bound[u] # Free /\ bound[u] # Unbound
  BY WorkspacesAssumption
<1> QED
  BY <1>1 DEF Accessible, Accepted, Resolved, Visible

Stays == \A u \in Users : bound[u] \in Users =>
           /\ bound'[u] = bound[u]
           /\ Accessible(u) /\ home'[bound[u]] = home[bound[u]] => Accessible(u)'

LEMMA StaysStep == ASSUME WorkspacesTypeOK, Grows, KeepsBound PROVE Stays
<1> SUFFICES ASSUME NEW u \in Users, bound[u] \in Users,
                    Accessible(u), home'[bound[u]] = home[bound[u]]
             PROVE  Accessible(u)'
  BY DEF KeepsBound, Stays
<1>1. bound'[u] = bound[u]
  BY DEF KeepsBound
<1>2. home[bound[u]] # Absent /\ (bound[u] = u \/ Member(u, bound[u]))
  BY AccessIsSight
<1>3. Member(u, bound[u]) => home'[bound[u]] \in Places /\ role'[home'[bound[u]]][u] # "none"
  BY DEF Member, Grows
<1>4. bound'[u] # Free /\ bound'[u] # Unbound
  BY <1>1, WorkspacesAssumption
<1> QED
  BY <1>1, <1>2, <1>3, <1>4 DEF Accessible, Accepted, Resolved, Visible, Member

(* A run keeps the project it is bound to, and its user keeps access to it
   whatever becomes of other projects with the same key, of memberships and of
   invitations, unless this very project moves (execution_run_store.py:61).  *)
THEOREM BoundStaysHolds == WorkspacesSpec => BoundStays
<1>1. WorkspacesTypeOK /\ [WorkspacesNext]_workspaceVars => [Stays]_workspaceVars
  BY WorkspacesStep, StaysStep
<1>2. WorkspacesSpec => [][Stays]_workspaceVars
  BY <1>1, WorkspacesTypeCorrect, PTL DEF WorkspacesSpec
<1> QED
  BY <1>2 DEF BoundStays, Stays
-----------------------------------------------------------------------------
(* The versions of a design.  What an editor record promises, given the rows
   committed so far; rows are only ever added, each under a number that was
   free.                                                                    *)
Committed(at, R) == \E r \in R : r.at = at

Unsaved == {"edit", "select", "create", "lock", "read", "write", "failed"}

(* Until the save returns there is no version; then there is one, and it is the
   one that is published.                                                   *)
Phases(e) ==
  /\ e.step \in Unsaved => e.saved = NoOne /\ e.suite = NoOne
  /\ e.step \in {"saved", "refresh", "answer"} => e.saved # NoOne
  /\ e.step = "saved" => e.suite = NoOne
  /\ e.step \in {"refresh", "answer"} => e.suite = e.saved

(* A save has tried as many numbers as it has lost, all of them taken; the one
   it is about to write is another, and those below it are taken.           *)
Trying(e, R) ==
  /\ IsFiniteSet(e.tried) /\ \A at \in e.tried : Committed(at, R)
  /\ e.step \in {"select", "create", "lock", "read", "write"} => Cardinality(e.tried) = e.attempt - 1
  /\ e.step = "failed" => Cardinality(e.tried) = Attempts
  /\ e.step \in {"lock", "read", "write"} => e.project \in Users
  /\ e.step = "write" => /\ e.version \in 1..MaxVersions
                         /\ <<e.project, e.version>> \notin e.tried
                         /\ \A v \in 1..(e.version - 1) : Committed(<<e.project, v>>, R)

(* The version an author was told of holds what they approved, and no other. *)
Theirs(e, a, R) ==
  e.saved # NoOne => {r \in R : r.at = e.saved} = {[at |-> e.saved, design |-> <<a, e.draft>>]}

EditorOK(e, a, R) == e \in Editors /\ Phases(e) /\ Trying(e, R) /\ Theirs(e, a, R)

NoGaps(R) == \A r \in R : \A v \in 1..r.at[2] : Committed(<<r.at[1], v>>, R)

(* A refresh has read what was published before it and at least what its process
   lists, and is the only one in its process; so what is listed next does not
   fall behind what an author was shown.                                    *)
RefreshOK(a) ==
  LET e == editor[a] IN
  /\ e.step \in {"refresh", "answer"} => e.process \in Processes /\ e.suite \in publications
  /\ refresh[a] # NoOne => /\ e.step = "refresh" /\ refresh[a] \subseteq publications
                           /\ e.suite \in refresh[a] /\ catalog[e.process] \subseteq refresh[a]
  /\ e.step = "answer" => e.suite \in listed[a] /\ listed[a] \subseteq catalog[e.process]

CatalogsOK ==
  /\ \A a \in Authors : RefreshOK(a)
  /\ \A p \in Processes : catalog[p] \subseteq publications
  /\ \A a, b \in Authors : refresh[a] # NoOne /\ refresh[b] # NoOne
                           /\ editor[a].process = editor[b].process => a = b

SpecInv == /\ SpecVersionsTypeOK /\ NoGaps(rows) /\ CatalogsOK
           /\ \A a \in Authors : EditorOK(editor[a], a, rows)

LEMMA NoOneFacts == /\ NoOne \notin Users /\ NoOne \notin Authors /\ NoOne \notin Versions
                    /\ NoOne \notin Processes /\ \A read \in SUBSET Versions : NoOne # read
  BY SpecVersionsAssumption

LEMMA FreshEditor ==
  ASSUME NEW d \in Nat
  PROVE  /\ Editing(d) \in Editors
         /\ Editing(d).saved = NoOne /\ Editing(d).suite = NoOne /\ Editing(d).tried = {}
         /\ Editing(d).attempt = 1 /\ Editing(d).step = "edit" /\ Editing(d).draft = d
<1>1. 0 \in 0..MaxVersions /\ 1 \in 1..Attempts
  BY SpecVersionsAssumption
<1> QED
  BY <1>1 DEF Editing, Editors

LEMMA EditingOK == ASSUME NEW d \in Nat, NEW a, NEW R PROVE EditorOK(Editing(d), a, R)
  BY FreshEditor, FS_EmptySet DEF EditorOK, Phases, Trying, Theirs, Unsaved

(* The rows of other editors grow. *)
LEMMA RowsGrow ==
  ASSUME NEW R, NEW at, NEW d, NEW e, NEW a, EditorOK(e, a, R), ~Committed(at, R),
         e.saved = NoOne \/ Committed(e.saved, R)
  PROVE  EditorOK(e, a, R \cup {[at |-> at, design |-> d]})
<1> DEFINE new == [at |-> at, design |-> d]
           grown == R \cup {new}
<1>1. \A x : Committed(x, R) => Committed(x, grown)
  BY DEF Committed
<1>2. Trying(e, grown)
  BY <1>1 DEF EditorOK, Trying
<1>3. ASSUME e.saved # NoOne
      PROVE  {r \in grown : r.at = e.saved} = {r \in R : r.at = e.saved}
  <2>1. at # e.saved
    BY <1>3
  <2>2. new.at # e.saved
    BY <2>1
  <2> QED
    BY <2>2
<1>4. Theirs(e, a, grown)
  BY <1>3 DEF EditorOK, Theirs
<1> QED
  BY <1>2, <1>4 DEF EditorOK

(* The latest version: every version of the project is at or below it, and it
   is there unless there is none.                                           *)
LEMMA LatestFacts ==
  ASSUME SpecInv, NEW o \in Users
  PROVE  /\ LatestVersion(o) \in 0..MaxVersions
         /\ \A r \in rows : r.at[1] = o => r.at[2] <= LatestVersion(o)
         /\ \A v \in 1..LatestVersion(o) : Committed(<<o, v>>, rows)
<1> DEFINE S == {0} \cup {r.at[2] : r \in {s \in rows : s.at[1] = o}}
<1>1. \A r \in rows : r.at \in Versions
  BY DEF SpecInv, SpecVersionsTypeOK
<1>2. MaxVersions \in Nat /\ S \subseteq 0..MaxVersions /\ S # {}
  BY <1>1, SpecVersionsAssumption DEF Versions
<1>3. LatestVersion(o) = Max(S)
  BY DEF LatestVersion
<1>4. Max(S) \in S /\ \A y \in S : y <= Max(S)
  <2> HIDE DEF S
  <2> QED
    BY <1>2, BoundedMax
<1>5. \A v \in 1..LatestVersion(o) : Committed(<<o, v>>, rows)
  <2>1. CASE LatestVersion(o) = 0
    BY <2>1
  <2>2. CASE LatestVersion(o) # 0
    <3>1. PICK r \in rows : r.at[1] = o /\ r.at[2] = LatestVersion(o)
      BY <1>3, <1>4, <2>2
    <3> QED
      BY <3>1 DEF SpecInv, NoGaps
  <2> QED
    BY <2>1, <2>2
<1> QED
  BY <1>2, <1>3, <1>4, <1>5

(* A step of one author that leaves the rows and the catalogs alone. *)
LEMMA EditStep ==
  ASSUME SpecInv, NEW a \in Authors, NEW e, Edit(a, e), EditorOK(e, a, rows),
         e.step \notin {"refresh", "answer"}, refresh[a] = NoOne,
         UNCHANGED <<rows, publications, catalog, refresh, restarts>>,
         writer' \in Authors \cup {NoOne},
         specLock' \in [Processes -> [Users -> Authors \cup {NoOne}]],
         listed' = listed \/ listed' = [listed EXCEPT ![a] = {}]
  PROVE  SpecInv'
<1>1. /\ editor' \in [Authors -> Editors] /\ editor'[a] = e
      /\ \A b \in Authors : b # a => editor'[b] = editor[b]
  BY DEF Edit, SpecInv, SpecVersionsTypeOK, EditorOK
<1>2. /\ listed' \in [Authors -> SUBSET Versions]
      /\ \A b \in Authors : b # a => listed'[b] = listed[b]
  BY DEF SpecInv, SpecVersionsTypeOK
<1>3. SpecVersionsTypeOK'
  BY <1>1, <1>2 DEF SpecInv, SpecVersionsTypeOK
<1>4. \A b \in Authors : EditorOK(editor[b], b, rows)'
  BY <1>1 DEF SpecInv
<1>5. \A b \in Authors : RefreshOK(b)'
  BY <1>1, <1>2 DEF SpecInv, CatalogsOK, RefreshOK
<1>6. CatalogsOK'
  BY <1>1, <1>5 DEF SpecInv, CatalogsOK
<1> QED
  BY <1>3, <1>4, <1>6 DEF SpecInv

LEMMA UnlockedType ==
  ASSUME SpecInv, NEW a \in Authors
  PROVE  Unlocked(a) \in [Processes -> [Users -> Authors \cup {NoOne}]]
  BY DEF SpecInv, SpecVersionsTypeOK, Unlocked

LEMMA LockedType ==
  ASSUME SpecInv, NEW a \in Authors, NEW p, NEW o
  PROVE  [specLock EXCEPT ![p][o] = a] \in [Processes -> [Users -> Authors \cup {NoOne}]]
  BY DEF SpecInv, SpecVersionsTypeOK

(* Only who refreshes has read. *)
LEMMA NotReading ==
  ASSUME SpecInv, NEW a \in Authors, editor[a].step # "refresh" PROVE refresh[a] = NoOne
  BY DEF SpecInv, CatalogsOK, RefreshOK

LEMMA ApproveStep ==
  ASSUME SpecInv, NEW a \in Authors, NEW p \in Processes, Approve(a, p) PROVE SpecInv'
<1> DEFINE d == editor[a].draft + 1
           e == [Editing(d) EXCEPT !.step = "select", !.process = p]
<1>1. editor[a] \in Editors /\ At(a, "edit")
  BY DEF Approve, SpecInv, SpecVersionsTypeOK
<1>2. d \in Nat
  BY <1>1 DEF Editors
<1> HIDE DEF d
<1>3. /\ e \in Editors /\ e.step = "select" /\ e.saved = NoOne /\ e.suite = NoOne
      /\ e.tried = {} /\ e.attempt = 1
  <2>1. PICK fresh \in Editors : fresh = Editing(d)
    BY <1>2, FreshEditor
  <2>2. /\ fresh.saved = NoOne /\ fresh.suite = NoOne /\ fresh.tried = {} /\ fresh.attempt = 1
    BY <1>2, <2>1, FreshEditor
  <2>3. LET new == [fresh EXCEPT !.step = "select", !.process = p]
        IN  /\ new \in Editors /\ new.step = "select" /\ new.saved = fresh.saved
            /\ new.suite = fresh.suite /\ new.tried = fresh.tried /\ new.attempt = fresh.attempt
    BY DEF Editors
  <2> QED
    BY <2>1, <2>2, <2>3
<1>4. EditorOK(e, a, rows)
  BY <1>3, FS_EmptySet DEF EditorOK, Phases, Trying, Theirs
<1>5. Edit(a, e)
  BY DEF Approve, d
<1> HIDE DEF e
<1> QED
  BY <1>1, <1>3, <1>4, <1>5, NotReading, EditStep
     DEF Approve, At, NoWrite, Rest, SpecInv, SpecVersionsTypeOK

(* An editor record of a save that goes on with another step. *)
LEMMA GoesOn ==
  ASSUME NEW e, NEW a, NEW R, EditorOK(e, a, R),
         e.step \in {"select", "create", "lock", "read"}, NEW new \in Editors,
         new.step \in {"select", "create", "lock", "read"},
         new.step \in {"lock", "read"} => new.project \in Users,
         new.saved = e.saved, new.suite = e.suite, new.tried = e.tried, new.attempt = e.attempt
  PROVE  EditorOK(new, a, R)
  BY DEF EditorOK, Phases, Trying, Theirs, Unsaved

LEMMA SelectStep ==
  ASSUME SpecInv, NEW a \in Authors, SelectProject(a) \/ CreateProject(a) \/ LockDesign(a)
  PROVE  SpecInv'
<1> DEFINE e == editor[a]
<1>1. /\ e \in Editors /\ EditorOK(e, a, rows) /\ e.step \in {"select", "create", "lock"} /\ e.draft \in Nat
      /\ refresh[a] = NoOne
  BY NotReading DEF SelectProject, CreateProject, LockDesign, At, SpecInv, SpecVersionsTypeOK, Editors
<1>2. UNCHANGED <<rows, publications, catalog, refresh, listed, restarts>>
  BY DEF SelectProject, CreateProject, LockDesign, NoWrite, Rest
<1>3. writer' \in Authors \cup {NoOne}
  BY DEF SelectProject, CreateProject, LockDesign, NoWrite, Rest, SpecInv, SpecVersionsTypeOK
<1>4. specLock' \in [Processes -> [Users -> Authors \cup {NoOne}]]
  <2>1. specLock \in [Processes -> [Users -> Authors \cup {NoOne}]]
    BY DEF SpecInv, SpecVersionsTypeOK
  <2>2. specLock' = specLock \/ specLock' = Unlocked(a)
          \/ specLock' = [specLock EXCEPT ![e.process][e.project] = a]
    BY DEF SelectProject, CreateProject, LockDesign
  <2>3. CASE specLock' = [specLock EXCEPT ![e.process][e.project] = a]
    BY <2>3, LockedType
  <2> QED
    BY <2>1, <2>2, <2>3, UnlockedType
<1>5. PICK new : /\ Edit(a, new) /\ EditorOK(new, a, rows) /\ new.step \notin {"refresh", "answer"}
  <2>1. ASSUME NEW o \in Users PROVE EditorOK(WithProject(e, o), a, rows)
                                     /\ WithProject(e, o).step \in {"lock", "read"}
    <3>1. /\ WithProject(e, o) \in Editors /\ WithProject(e, o).step \in {"lock", "read"}
          /\ WithProject(e, o).project = o
          /\ WithProject(e, o).saved = e.saved /\ WithProject(e, o).suite = e.suite
          /\ WithProject(e, o).tried = e.tried /\ WithProject(e, o).attempt = e.attempt
      <4>1. PICK step \in {"lock", "read"} : step = IF e.locked = NoOne THEN "lock" ELSE "read"
        OBVIOUS
      <4>2. LET new == [e EXCEPT !.project = o, !.step = step]
            IN  /\ new \in Editors /\ new.step = step /\ new.project = o
                /\ new.saved = e.saved /\ new.suite = e.suite
                /\ new.tried = e.tried /\ new.attempt = e.attempt
        BY ZenonT(60), <1>1 DEF Editors
      <4> QED
        BY <4>1, <4>2 DEF WithProject
    <3> QED
      BY <1>1, <3>1, GoesOn
  <2>2. EditorOK(Editing(e.draft), a, rows) /\ Editing(e.draft).step = "edit"
    BY <1>1, EditingOK, FreshEditor
  <2>3. CASE SelectProject(a)
    <3>1. LET new == [e EXCEPT !.step = "create"] IN EditorOK(new, a, rows) /\ new.step = "create"
      <4> DEFINE new == [e EXCEPT !.step = "create"]
      <4>1. /\ new \in Editors /\ new.step = "create" /\ new.saved = e.saved /\ new.suite = e.suite
            /\ new.tried = e.tried /\ new.attempt = e.attempt
        BY <1>1 DEF Editors
      <4> HIDE DEF new
      <4> QED
        BY <1>1, <4>1, GoesOn DEF new
    <3>2. \/ Edit(a, Editing(e.draft)) \/ \E o \in Users : Edit(a, WithProject(e, o))
          \/ Edit(a, [e EXCEPT !.step = "create"])
      BY <2>3 DEF SelectProject
    <3> QED
      BY <2>1, <2>2, <3>1, <3>2
  <2>4. CASE CreateProject(a)
    BY <2>1, <2>4, SpecVersionsAssumption DEF CreateProject
  <2>5. CASE LockDesign(a)
    <3> DEFINE new == [e EXCEPT !.step = "read", !.locked = e.project]
    <3>1. e.project \in Users
      BY <1>1, <2>5 DEF LockDesign, At, EditorOK, Trying
    <3>2. /\ new \in Editors /\ new.step = "read" /\ new.saved = e.saved /\ new.suite = e.suite
          /\ new.tried = e.tried /\ new.attempt = e.attempt /\ new.project = e.project
      BY ZenonT(60), <1>1, <3>1 DEF Editors
    <3>3. Edit(a, new)
      BY <2>5 DEF LockDesign
    <3> HIDE DEF new
    <3> QED
      BY <1>1, <3>1, <3>2, <3>3, GoesOn
  <2> QED
    BY <2>3, <2>4, <2>5
<1> HIDE DEF e
<1> QED
  BY <1>1, <1>2, <1>3, <1>4, <1>5, EditStep

(* The number of the next version is free, so no number tried before. *)
LEMMA ReadVersionStep == ASSUME SpecInv, NEW a \in Authors, ReadVersion(a) PROVE SpecInv'
<1> DEFINE e == editor[a]
           o == e.project
           n == NextVersion(e)
           new == [e EXCEPT !.step = "write", !.version = n]
<1>1. e \in Editors /\ EditorOK(e, a, rows) /\ e.step = "read" /\ refresh[a] = NoOne /\ o \in Users
  BY NotReading DEF ReadVersion, At, SpecInv, SpecVersionsTypeOK, EditorOK, Trying
<1>2. /\ LatestVersion(o) \in 0..MaxVersions /\ LatestVersion(o) < MaxVersions
      /\ \A r \in rows : r.at[1] = o => r.at[2] <= LatestVersion(o)
      /\ \A v \in 1..LatestVersion(o) : Committed(<<o, v>>, rows)
  BY <1>1, LatestFacts DEF ReadVersion
<1>3. n \in 1..MaxVersions /\ n - 1 = LatestVersion(o)
  BY <1>2, SpecVersionsAssumption DEF NextVersion
<1>4. <<o, n>> \notin e.tried
  <2>1. ~Committed(<<o, n>>, rows)
    BY <1>2, <1>3, SpecVersionsAssumption DEF Committed
  <2> QED
    BY <1>1, <2>1 DEF EditorOK, Trying
<1> HIDE DEF n, o
<1>5. /\ new \in Editors /\ new.step = "write" /\ new.version = n /\ new.project = e.project
      /\ new.tried = e.tried /\ new.attempt = e.attempt /\ new.saved = e.saved /\ new.suite = e.suite
      /\ new.draft = e.draft
  <2>1. n \in 0..MaxVersions
    BY <1>3, SpecVersionsAssumption
  <2> QED
    BY ZenonT(60), <1>1, <2>1 DEF Editors
<1>6. Edit(a, new)
  BY DEF ReadVersion, n
<1> HIDE DEF new
<1>7. EditorOK(new, a, rows)
  BY <1>1, <1>2, <1>3, <1>4, <1>5 DEF EditorOK, Phases, Trying, Theirs, Unsaved, o
<1> QED
  BY <1>1, <1>5, <1>6, <1>7, EditStep DEF ReadVersion, NoWrite, Rest, SpecInv, SpecVersionsTypeOK

(* A number that is lost is one more that was tried. *)
LEMMA ConflictStep == ASSUME SpecInv, NEW a \in Authors, Conflict(a) PROVE SpecInv'
<1> DEFINE e == editor[a]
           at == <<e.project, e.version>>
           tried == e.tried \cup {at}
<1>1. /\ e \in Editors /\ EditorOK(e, a, rows) /\ e.step = "write" /\ refresh[a] = NoOne
      /\ e.draft \in Nat /\ Committed(at, rows)
  BY NotReading DEF Conflict, At, SpecInv, SpecVersionsTypeOK, Editors, Taken, Committed
<1>2. at \in Versions /\ at \notin e.tried
  BY <1>1 DEF EditorOK, Trying, Versions
<1>3. /\ IsFiniteSet(tried) /\ Cardinality(tried) = e.attempt
      /\ \A x \in tried : Committed(x, rows) /\ tried \in SUBSET Versions
  <2>1. /\ IsFiniteSet(e.tried) /\ Cardinality(e.tried) = e.attempt - 1 /\ e.attempt \in 1..Attempts
        /\ \A x \in e.tried : Committed(x, rows) /\ e.tried \in SUBSET Versions
    BY <1>1 DEF EditorOK, Trying, Editors
  <2>2. IsFiniteSet(tried) /\ Cardinality(tried) = Cardinality(e.tried) + 1
    BY <1>2, <2>1, FS_AddElement
  <2>3. Cardinality(tried) = e.attempt
    BY <2>1, <2>2, SpecVersionsAssumption
  <2> QED
    BY <1>1, <1>2, <2>1, <2>2, <2>3
<1> HIDE DEF at, tried
<1>t. tried \in SUBSET Versions
  BY <1>1, <1>2 DEF tried, Editors
<1>4. PICK new : /\ Edit(a, new) /\ EditorOK(new, a, rows) /\ new.step \notin {"refresh", "answer"}
  <2>1. CASE e.attempt = Attempts
    <3>1. PICK fresh \in Editors : fresh = Editing(e.draft)
      BY <1>1, FreshEditor
    <3>2. fresh.saved = NoOne /\ fresh.suite = NoOne
      BY <1>1, <3>1, FreshEditor
    <3> DEFINE new == [fresh EXCEPT !.step = "failed", !.tried = tried]
    <3>3. /\ new \in Editors /\ new.step = "failed" /\ new.saved = NoOne /\ new.suite = NoOne
          /\ new.tried = tried
      BY <1>t, <3>2 DEF Editors
    <3>4. Edit(a, new)
      BY <2>1, <3>1 DEF Conflict, tried, at
    <3> HIDE DEF new
    <3>5. EditorOK(new, a, rows)
      BY <1>3, <2>1, <3>3 DEF EditorOK, Phases, Trying, Theirs
    <3> QED
      BY <3>3, <3>4, <3>5
  <2>2. CASE e.attempt # Attempts
    <3> DEFINE new == [e EXCEPT !.step = "select", !.attempt = @ + 1, !.tried = tried]
    <3>1. e.attempt + 1 \in 1..Attempts /\ e.attempt + 1 - 1 = e.attempt
      BY <1>1, <2>2, SpecVersionsAssumption DEF Editors
    <3>2. /\ new \in Editors /\ new.step = "select" /\ new.saved = e.saved /\ new.suite = e.suite
          /\ new.tried = tried /\ new.attempt = e.attempt + 1
      BY ZenonT(60), <1>1, <1>t, <3>1 DEF Editors
    <3>3. Edit(a, new)
      BY <2>2 DEF Conflict, tried, at
    <3> HIDE DEF new
    <3>4. Phases(new) /\ Theirs(new, a, rows)
      BY <1>1, <3>2 DEF EditorOK, Phases, Theirs, Unsaved
    <3>5. Cardinality(new.tried) = new.attempt - 1
      <4>1. new.attempt - 1 = e.attempt
        BY <1>1, <3>2 DEF Editors
      <4> QED
        BY <1>3, <3>2, <4>1
    <3>6. Trying(new, rows)
      BY <1>3, <3>2, <3>5 DEF Trying
    <3> QED
      BY <3>2, <3>3, <3>4, <3>6 DEF EditorOK
  <2> QED
    BY <2>1, <2>2
<1>5. specLock' = specLock \/ specLock' = Unlocked(a)
  BY DEF Conflict
<1>6. /\ specLock' \in [Processes -> [Users -> Authors \cup {NoOne}]] /\ writer' = NoOne
      /\ UNCHANGED <<rows, publications, catalog, refresh, listed, restarts>>
  BY <1>5, UnlockedType DEF Conflict, Rest, SpecInv, SpecVersionsTypeOK
<1> QED
  BY <1>1, <1>4, <1>6, EditStep

LEMMA LeaveStep ==
  ASSUME SpecInv, NEW a \in Authors, Leave(a) PROVE SpecInv'
<1>1. /\ editor[a] \in Editors /\ editor[a].draft \in Nat /\ editor[a].step # "refresh" /\ refresh[a] = NoOne
  BY NotReading DEF Leave, SpecInv, SpecVersionsTypeOK, Editors
<1>2. EditorOK(Editing(editor[a].draft), a, rows) /\ Editing(editor[a].draft).step = "edit"
  BY <1>1, EditingOK, FreshEditor
<1> QED
  BY <1>1, <1>2, EditStep DEF Leave, NoWrite, SpecInv, SpecVersionsTypeOK

(* The version is committed under a number that is free. *)
LEMMA WriteVersionStep == ASSUME SpecInv, NEW a \in Authors, WriteVersion(a) PROVE SpecInv'
<1> DEFINE e == editor[a]
           at == <<e.project, e.version>>
           put == [at |-> at, design |-> Design(a)]
<1>1. /\ e \in Editors /\ EditorOK(e, a, rows) /\ e.step = "write" /\ refresh[a] = NoOne
      /\ e.draft \in Nat /\ ~Committed(at, rows)
  BY NotReading DEF WriteVersion, At, SpecInv, SpecVersionsTypeOK, Editors, Taken, Committed
<1>2. /\ at \in Versions /\ e.version \in 1..MaxVersions
      /\ \A v \in 1..(e.version - 1) : Committed(<<e.project, v>>, rows)
  BY <1>1 DEF EditorOK, Trying, Versions
<1>3. rows' = rows \cup {put} /\ put \in [at : Versions, design : Authors \X Nat]
  BY <1>1, <1>2 DEF WriteVersion, Design
<1>4. PICK new : /\ Edit(a, new) /\ EditorOK(new, a, rows') /\ new.step = "saved"
  <2>1. PICK fresh \in Editors : fresh = Editing(e.draft)
    BY <1>1, FreshEditor
  <2>2. fresh.saved = NoOne /\ fresh.suite = NoOne /\ fresh.tried = {} /\ fresh.draft = e.draft
    BY <1>1, <2>1, FreshEditor
  <2> DEFINE new == [fresh EXCEPT !.step = "saved", !.saved = at]
  <2>3. /\ new \in Editors /\ new.step = "saved" /\ new.saved = at /\ new.suite = NoOne
        /\ new.tried = {} /\ new.draft = e.draft
    <3> HIDE DEF at
    <3> QED
      BY <1>2, <2>2 DEF Editors
  <2>4. Edit(a, new)
    BY <2>1 DEF WriteVersion
  <2> HIDE DEF new
  <2>5. {r \in rows' : r.at = at} = {put}
    BY <1>1, <1>3 DEF Committed
  <2>6. Phases(new)
    BY <1>2, <2>3, NoOneFacts DEF Phases, Unsaved
  <2>7. Trying(new, rows')
    BY <2>3, FS_EmptySet DEF Trying
  <2>8. Theirs(new, a, rows')
    BY <2>3, <2>5 DEF Theirs, Design
  <2> QED
    BY <2>3, <2>4, <2>6, <2>7, <2>8 DEF EditorOK
<1> HIDE DEF put
<1>5. ASSUME NEW b \in Authors, b # a PROVE EditorOK(editor[b], b, rows')
  <2>1. EditorOK(editor[b], b, rows)
    BY DEF SpecInv
  <2>2. editor[b].saved = NoOne \/ Committed(editor[b].saved, rows)
    BY <2>1 DEF EditorOK, Theirs, Committed
  <2> QED
    BY <1>1, <1>3, <2>1, <2>2, RowsGrow DEF put
<1>6. NoGaps(rows')
  <2>1. \A x : Committed(x, rows) => Committed(x, rows')
    BY <1>3 DEF Committed
  <2>2. Committed(at, rows')
    <3>1. put.at = at
      BY DEF put
    <3> QED
      BY <1>3, <3>1 DEF Committed
  <2>3. \A v \in 1..e.version : Committed(<<e.project, v>>, rows')
    BY <1>2, <2>1, <2>2, SpecVersionsAssumption
  <2>4. put.at[1] = e.project /\ put.at[2] = e.version
    BY DEF put
  <2> QED
    BY <1>3, <2>1, <2>3, <2>4 DEF SpecInv, NoGaps
<1>7. /\ editor' \in [Authors -> Editors] /\ editor'[a] = new
      /\ \A b \in Authors : b # a => editor'[b] = editor[b]
  BY <1>4 DEF Edit, SpecInv, SpecVersionsTypeOK, EditorOK
<1>8. /\ UNCHANGED <<publications, catalog, refresh, listed, restarts>> /\ writer' = NoOne
      /\ specLock' = Unlocked(a)
  BY DEF WriteVersion
<1>9. SpecVersionsTypeOK'
  BY <1>3, <1>7, <1>8, UnlockedType DEF SpecInv, SpecVersionsTypeOK
<1>10. CatalogsOK'
  <2>1. \A b \in Authors : RefreshOK(b)'
    BY <1>1, <1>4, <1>7, <1>8 DEF SpecInv, CatalogsOK, RefreshOK
  <2> QED
    BY <1>1, <1>7, <1>8, <2>1 DEF SpecInv, CatalogsOK
<1>11. \A b \in Authors : EditorOK(editor[b], b, rows)'
  BY <1>4, <1>5, <1>7
<1> QED
  BY <1>6, <1>9, <1>10, <1>11 DEF SpecInv


(* What is published is the version the save returned. *)
LEMMA PublishSuiteStep ==
  ASSUME SpecInv, NEW a \in Authors, NEW p \in Processes, PublishSuite(a, p) PROVE SpecInv'
<1> DEFINE e == editor[a]
<1>1. /\ e \in Editors /\ EditorOK(e, a, rows) /\ e.step = "saved" /\ refresh[a] = NoOne
      /\ e.saved \in Versions /\ e.suite = NoOne
  BY NotReading DEF PublishSuite, At, SpecInv, SpecVersionsTypeOK, EditorOK, Phases, Editors
<1>2. /\ UNCHANGED <<rows, writer, specLock, catalog, refresh, listed, restarts>>
      /\ publications' = publications \cup {e.saved}
      /\ Edit(a, [e EXCEPT !.step = "refresh", !.process = p, !.suite = e.saved])
  <2>1. PICK o \in PublishedIn(a) : LET at == <<o, e.saved[2]>> IN
          /\ publications' = publications \cup {at}
          /\ Edit(a, [e EXCEPT !.step = "refresh", !.process = p, !.suite = at])
    BY DEF PublishSuite
  <2>2. <<o, e.saved[2]>> = e.saved
    BY <1>1 DEF PublishedIn, Versions
  <2> QED
    BY <2>1, <2>2 DEF PublishSuite, Rest
<1> DEFINE new == [e EXCEPT !.step = "refresh", !.process = p, !.suite = e.saved]
<1>3. /\ new \in Editors /\ new.step = "refresh" /\ new.suite = e.saved /\ new.saved = e.saved
      /\ new.tried = e.tried /\ new.draft = e.draft /\ new.process = p
  BY <1>1 DEF Editors
<1>4. Edit(a, new)
  BY <1>2
<1> HIDE DEF new, e
<1>5. EditorOK(new, a, rows)
  BY <1>1, <1>3 DEF EditorOK, Phases, Trying, Theirs, Unsaved
<1>6. /\ editor' \in [Authors -> Editors] /\ editor'[a] = new
      /\ \A b \in Authors : b # a => editor'[b] = editor[b]
  BY <1>3, <1>4 DEF Edit, SpecInv, SpecVersionsTypeOK
<1>7. SpecVersionsTypeOK'
  BY <1>1, <1>2, <1>6 DEF SpecInv, SpecVersionsTypeOK
<1>8. \A b \in Authors : RefreshOK(b)'
  <2>1. RefreshOK(a)'
    BY <1>1, <1>2, <1>3, <1>6 DEF RefreshOK
  <2>2. ASSUME NEW b \in Authors, b # a PROVE RefreshOK(b)'
    BY <1>2, <1>6, <2>2 DEF SpecInv, CatalogsOK, RefreshOK
  <2> QED
    BY <2>1, <2>2
<1>9. CatalogsOK'
  BY <1>1, <1>2, <1>6, <1>8 DEF e, SpecInv, CatalogsOK
<1>10. \A b \in Authors : EditorOK(editor[b], b, rows)'
  BY <1>2, <1>5, <1>6 DEF SpecInv
<1> QED
  BY <1>2, <1>7, <1>9, <1>10 DEF SpecInv

LEMMA ReadPublishedStep ==
  ASSUME SpecInv, NEW a \in Authors, ReadPublished(a) PROVE SpecInv'
<1>1. /\ UNCHANGED <<editor, catalog, listed, restarts, specLock, rows, publications, writer>>
      /\ refresh' = [refresh EXCEPT ![a] = publications]
      /\ editor[a].step = "refresh"
      /\ \A b \in Authors : refresh[b] = NoOne \/ editor[b].process # editor[a].process
  BY DEF ReadPublished, NoWrite, At, MayRead, NoRefresh
<1>2. publications \in SUBSET Versions /\ refresh \in [Authors -> (SUBSET Versions) \cup {NoOne}]
  BY DEF SpecInv, SpecVersionsTypeOK
<1>3. /\ refresh' \in [Authors -> (SUBSET Versions) \cup {NoOne}] /\ refresh'[a] = publications
      /\ \A b \in Authors : b # a => refresh'[b] = refresh[b]
  BY <1>1, <1>2
<1>4. SpecVersionsTypeOK'
  BY <1>1, <1>3 DEF SpecInv, SpecVersionsTypeOK
<1>5. \A b \in Authors : RefreshOK(b)'
  BY <1>1, <1>3 DEF SpecInv, CatalogsOK, RefreshOK
<1>6. CatalogsOK'
  BY <1>1, <1>3, <1>5 DEF SpecInv, CatalogsOK
<1> QED
  BY <1>1, <1>4, <1>6 DEF SpecInv

LEMMA ListPublishedStep ==
  ASSUME SpecInv, NEW a \in Authors, ListPublished(a) PROVE SpecInv'
<1> DEFINE e == editor[a]
           read == refresh[a]
           new == [e EXCEPT !.step = "answer"]
<1>1. /\ e \in Editors /\ EditorOK(e, a, rows) /\ RefreshOK(a) /\ read \in SUBSET Versions /\ read # NoOne
  BY DEF ListPublished, SpecInv, SpecVersionsTypeOK, CatalogsOK
<1>2. /\ e.step = "refresh" /\ e.process \in Processes /\ e.suite \in publications
      /\ read \subseteq publications /\ e.suite \in read /\ catalog[e.process] \subseteq read
  BY <1>1 DEF RefreshOK
<1>3. /\ UNCHANGED <<rows, publications, writer, specLock, restarts>> /\ Edit(a, new)
      /\ catalog' = [catalog EXCEPT ![e.process] = read]
      /\ refresh' = [refresh EXCEPT ![a] = NoOne] /\ listed' = [listed EXCEPT ![a] = read]
  BY DEF ListPublished, NoWrite
<1>4. /\ new \in Editors /\ new.step = "answer" /\ new.suite = e.suite /\ new.saved = e.saved
      /\ new.tried = e.tried /\ new.draft = e.draft /\ new.process = e.process
  BY <1>1 DEF Editors
<1> HIDE DEF new, read, e
<1>5. EditorOK(new, a, rows)
  BY <1>1, <1>2, <1>4 DEF EditorOK, Phases, Trying, Theirs, Unsaved
<1>6. /\ editor' \in [Authors -> Editors] /\ editor'[a] = new
      /\ \A b \in Authors : b # a => editor'[b] = editor[b]
  BY <1>3, <1>4 DEF Edit, SpecInv, SpecVersionsTypeOK
<1>7. /\ catalog' \in [Processes -> SUBSET Versions] /\ catalog'[e.process] = read
      /\ \A p \in Processes : p # e.process => catalog'[p] = catalog[p]
      /\ refresh' \in [Authors -> (SUBSET Versions) \cup {NoOne}] /\ refresh'[a] = NoOne
      /\ \A b \in Authors : b # a => refresh'[b] = refresh[b]
      /\ listed' \in [Authors -> SUBSET Versions] /\ listed'[a] = read
      /\ \A b \in Authors : b # a => listed'[b] = listed[b]
  BY <1>1, <1>2, <1>3 DEF SpecInv, SpecVersionsTypeOK
<1>8. SpecVersionsTypeOK'
  BY <1>3, <1>6, <1>7 DEF SpecInv, SpecVersionsTypeOK
<1>9. ASSUME NEW b \in Authors PROVE RefreshOK(b)'
  <2>1. CASE b = a
    BY <1>2, <1>3, <1>4, <1>6, <1>7, <2>1 DEF RefreshOK
  <2>2. CASE b # a
    <3>1. RefreshOK(b) /\ editor'[b] = editor[b] /\ refresh'[b] = refresh[b] /\ listed'[b] = listed[b]
      BY <1>6, <1>7, <2>2 DEF SpecInv, CatalogsOK
    <3>2. refresh[b] # NoOne => editor[b].process # e.process
      BY <1>1, <2>2 DEF SpecInv, CatalogsOK, e, read
    <3>3. editor[b].step \in {"refresh", "answer"} =>
            editor[b].process \in Processes /\ catalog[editor[b].process] \subseteq catalog'[editor[b].process]
      BY <1>2, <1>7, <3>1 DEF RefreshOK
    <3>4. refresh[b] # NoOne => editor[b].process \in Processes /\ catalog'[editor[b].process] = catalog[editor[b].process]
      BY <1>7, <3>1, <3>2 DEF RefreshOK
    <3> QED
      BY <1>3, <3>1, <3>3, <3>4 DEF RefreshOK
  <2> QED
    BY <2>1, <2>2
<1>10. CatalogsOK'
  <2>1. \A p \in Processes : catalog'[p] \subseteq publications'
    BY <1>2, <1>3, <1>7 DEF SpecInv, CatalogsOK
  <2> QED
    BY <1>6, <1>7, <1>9, <2>1 DEF SpecInv, CatalogsOK
<1>11. \A b \in Authors : EditorOK(editor[b], b, rows)'
  BY <1>3, <1>5, <1>6 DEF SpecInv
<1> QED
  BY <1>3, <1>8, <1>10, <1>11 DEF SpecInv

(* A restart forgets what is in flight, and never a version that was saved. *)
LEMMA RestartStep == ASSUME SpecInv, NEW p \in Processes, Restart(p) PROVE SpecInv'
<1> DEFINE lost == {a \in Authors : editor[a].process = p}
<1>1. /\ UNCHANGED <<rows, publications>> /\ restarts' \in 0..MaxRestarts
      /\ catalog' = [catalog EXCEPT ![p] = {}]
      /\ writer' \in {NoOne, writer}
      /\ specLock' = [specLock EXCEPT ![p] = [o \in Users |-> NoOne]]
  <2>1. restarts' \in 0..MaxRestarts
    <3>1. restarts \in 0..MaxRestarts /\ restarts < MaxRestarts /\ restarts' = restarts + 1
      BY DEF Restart, SpecInv, SpecVersionsTypeOK
    <3> QED
      BY <3>1, SpecVersionsAssumption
  <2> QED
    BY <2>1 DEF Restart
<1>2. ASSUME NEW a \in Authors
      PROVE  /\ EditorOK(editor'[a], a, rows)
             /\ a \notin lost => editor'[a] = editor[a]
             /\ a \in lost => editor'[a].step \in {"edit", "saved"}
  <2> DEFINE e == editor[a]
  <2>1. e \in Editors /\ EditorOK(e, a, rows) /\ e.draft \in Nat
    BY DEF SpecInv, SpecVersionsTypeOK, Editors
  <2>2. /\ a \notin lost => editor'[a] = e
        /\ a \in lost /\ e.saved = NoOne => editor'[a] = Editing(e.draft)
        /\ a \in lost /\ e.saved # NoOne => editor'[a] = [e EXCEPT !.step = "saved", !.suite = NoOne]
    BY DEF Restart
  <2>3. EditorOK(Editing(e.draft), a, rows) /\ Editing(e.draft).step = "edit"
    BY <2>1, EditingOK, FreshEditor
  <2>4. ASSUME e.saved # NoOne
        PROVE  LET new == [e EXCEPT !.step = "saved", !.suite = NoOne]
               IN  EditorOK(new, a, rows) /\ new.step = "saved"
    <3> DEFINE new == [e EXCEPT !.step = "saved", !.suite = NoOne]
    <3>1. /\ new \in Editors /\ new.step = "saved" /\ new.suite = NoOne /\ new.saved = e.saved
          /\ new.tried = e.tried /\ new.draft = e.draft
      BY <2>1 DEF Editors
    <3> HIDE DEF new, e
    <3>2. EditorOK(new, a, rows)
      BY <2>1, <2>4, <3>1 DEF EditorOK, Phases, Trying, Theirs, Unsaved
    <3> QED
      BY <3>1, <3>2 DEF new
  <2> HIDE DEF lost, e
  <2> QED
    BY <2>1, <2>2, <2>3, <2>4 DEF e
<1>3. editor' \in [Authors -> Editors]
  <2>1. DOMAIN editor' = Authors /\ editor' = [a \in Authors |-> editor'[a]]
    BY DEF Restart
  <2> QED
    BY <1>2, <2>1 DEF EditorOK
<1>4. /\ refresh' \in [Authors -> (SUBSET Versions) \cup {NoOne}]
      /\ \A a \in lost : refresh'[a] = NoOne
      /\ \A a \in Authors : a \notin lost => refresh'[a] = refresh[a]
  BY DEF Restart, SpecInv, SpecVersionsTypeOK
<1>5. /\ listed' \in [Authors -> SUBSET Versions]
      /\ \A a \in Authors : a \notin lost => listed'[a] = listed[a]
  BY DEF Restart, SpecInv, SpecVersionsTypeOK
<1>6. /\ specLock' \in [Processes -> [Users -> Authors \cup {NoOne}]]
      /\ catalog' \in [Processes -> SUBSET Versions] /\ catalog'[p] = {}
      /\ \A q \in Processes : q # p => catalog'[q] = catalog[q]
  BY <1>1 DEF SpecInv, SpecVersionsTypeOK
<1>7. \A a \in Authors : a \notin lost => editor[a].process # p
  OBVIOUS
<1> HIDE DEF lost
<1>8. SpecVersionsTypeOK'
  BY <1>1, <1>3, <1>4, <1>5, <1>6 DEF SpecInv, SpecVersionsTypeOK
<1>9. ASSUME NEW a \in Authors PROVE RefreshOK(a)'
  <2>1. CASE a \in lost
    BY <1>2, <1>4, <2>1 DEF RefreshOK
  <2>2. CASE a \notin lost
    BY <1>1, <1>2, <1>4, <1>5, <1>6, <1>7, <2>2 DEF SpecInv, CatalogsOK, RefreshOK
  <2> QED
    BY <2>1, <2>2
<1>10. CatalogsOK'
  <2>1. \A q \in Processes : catalog'[q] \subseteq publications'
    BY <1>1, <1>6 DEF SpecInv, CatalogsOK
  <2> QED
    BY <1>2, <1>4, <1>9, <2>1 DEF SpecInv, CatalogsOK
<1> QED
  BY <1>1, <1>2, <1>8, <1>10 DEF SpecInv

LEMMA SpecInvStutter == SpecInv /\ UNCHANGED specVars => SpecInv'
  BY DEF SpecInv, SpecVersionsTypeOK, specVars, CatalogsOK, RefreshOK

LEMMA SpecInvStep == SpecInv /\ [SpecVersionsNext]_<<workspaceVars, specVars>> => SpecInv'
<1> SUFFICES ASSUME SpecInv, [SpecVersionsNext]_<<workspaceVars, specVars>> PROVE SpecInv'
  OBVIOUS
<1>1. CASE UNCHANGED specVars
  BY <1>1, SpecInvStutter
<1>2. ASSUME NEW a \in Authors, SelectProject(a) \/ CreateProject(a) \/ LockDesign(a) PROVE SpecInv'
  BY <1>2, SelectStep
<1>3. ASSUME NEW a \in Authors, ReadVersion(a) \/ WriteVersion(a) \/ Conflict(a) \/ Leave(a) PROVE SpecInv'
  BY <1>3, ReadVersionStep, WriteVersionStep, ConflictStep, LeaveStep
<1>4. ASSUME NEW a \in Authors, ReadPublished(a) \/ ListPublished(a) PROVE SpecInv'
  BY <1>4, ReadPublishedStep, ListPublishedStep
<1>5. ASSUME NEW a \in Authors, NEW p \in Processes, Approve(a, p) \/ PublishSuite(a, p) PROVE SpecInv'
  BY <1>5, ApproveStep, PublishSuiteStep
<1>6. ASSUME NEW p \in Processes, Restart(p) PROVE SpecInv'
  BY <1>6, RestartStep
<1> QED
  BY <1>1, <1>2, <1>3, <1>4, <1>5, <1>6 DEF SpecVersionsNext

LEMMA SpecInvInit == SpecVersionsInit => SpecInv
<1> SUFFICES ASSUME SpecVersionsInit PROVE SpecInv
  OBVIOUS
<1>1. \A a \in Authors : editor[a] = Editing(0) /\ refresh[a] = NoOne
  BY DEF SpecVersionsInit
<1>2. \A a \in Authors : EditorOK(editor[a], a, rows) /\ editor[a].step = "edit"
  BY <1>1, EditingOK, FreshEditor
<1>3. SpecVersionsTypeOK
  <2>1. editor \in [Authors -> Editors]
    BY FreshEditor DEF SpecVersionsInit
  <2> QED
    BY <2>1, SpecVersionsAssumption DEF SpecVersionsInit, SpecVersionsTypeOK
<1>4. CatalogsOK
  BY <1>1, <1>2 DEF SpecVersionsInit, CatalogsOK, RefreshOK
<1> QED
  BY <1>2, <1>3, <1>4 DEF SpecInv, NoGaps, SpecVersionsInit

(* What the invariant says of an author is what they are promised. *)
LEMMA SpecInvKeeps == SpecInv => AuthoringIsKept
<1> SUFFICES ASSUME SpecInv PROVE AuthoringIsKept
  OBVIOUS
<1>1. DesignIsKept
  <2> SUFFICES ASSUME NEW a \in Authors, NEW at \in {editor[a].saved, editor[a].suite} \ {NoOne}
               PROVE  {r \in rows : r.at = at} = {[at |-> at, design |-> Design(a)]}
    BY DEF DesignIsKept
  <2>1. editor[a] \in Editors /\ EditorOK(editor[a], a, rows)
    BY DEF SpecInv, SpecVersionsTypeOK
  <2>2. at = editor[a].saved
    BY <2>1 DEF EditorOK, Phases, Editors, Unsaved
  <2> QED
    BY <2>1, <2>2 DEF EditorOK, Theirs, Design
<1>2. ConflictIsProgress
  BY DEF SpecInv, EditorOK, Trying, NoGaps, ConflictIsProgress, At, Committed, Taken
<1>3. PublishedIsListed
  BY DEF SpecInv, CatalogsOK, RefreshOK, PublishedIsListed, At
<1> QED
  BY <1>1, <1>2, <1>3 DEF AuthoringIsKept

(* save_spec, publish_scenarios and refresh_published_catalog as the editor
   calls them: whatever others save, publish and restart at the same time, an
   author finds under the version they were told of what they approved, has
   lost a number only to a version of another, and finds listed what they
   published; for any authors, processes and bounds.                        *)
THEOREM AuthoringIsKeptHolds == SpecVersionsSpec => []AuthoringIsKept
<1>1. SpecVersionsSpec => []SpecInv
  BY SpecInvInit, SpecInvStep, PTL DEF SpecVersionsSpec
<1> QED
  BY <1>1, SpecInvKeeps, PTL
-----------------------------------------------------------------------------
(* The scenarios users write.  A request that works alone keeps, from the copy
   of the records to the last key, what it will make of the catalog; how many
   are at work is what `mixed' remembers, and what the file lacks `unsaved'. *)
InRequest(x) == ~AtStep(x, "idle")

Alone == ~mixed => \A x, y \in Requests : InRequest(x) /\ InRequest(y) => x = y

SyncOf(x) ==
  /\ AtStep(x, "suite") => sync[x].copy = records
  /\ AtStep(x, "keys") => sync[x].copy = records /\ suite = records
  /\ AtStep(x, "drop") => sync[x].copy = records /\ suite = records /\ sync[x].keys = cases
  /\ AtStep(x, "fill") => sync[x].copy = records /\ suite = records /\ cases = {}

Syncs == ~mixed /\ ~unsaved => \A x \in Requests : SyncOf(x)

ScenariosInv == UserScenariosTypeOK /\ Alone /\ Syncs /\ CatalogHeals

LEMMA ScenariosInit == UserScenariosInit => ScenariosInv
<1> SUFFICES ASSUME UserScenariosInit PROVE ScenariosInv
  OBVIOUS
<1>1. UserScenariosTypeOK
  <2>1. scenarioFaults \in 0..MaxScenarioFaults
    BY UserScenariosAssumption DEF UserScenariosInit
  <2> QED
    BY <2>1 DEF UserScenariosInit, UserScenariosTypeOK, AtRest
<1>2. Alone /\ Syncs /\ CatalogHeals
  BY DEF UserScenariosInit, Alone, InRequest, Syncs, SyncOf, AtStep, CatalogHeals, AtRest
<1> QED
  BY <1>1, <1>2 DEF ScenariosInv

(* A request that starts work: alone if all were quiet. *)
LEMMA ChangeStep ==
  ASSUME ScenariosInv, NEW x \in Requests, NEW changed \in SUBSET ScenarioIds, Change(x, changed)
  PROVE  ScenariosInv'
<1> USE DEF ScenariosInv
<1>1. CASE file' = changed /\ unsaved' = FALSE /\ Move(x, [AtRest EXCEPT !.step = "copy"])
           /\ mixed' = ~Quiet /\ UNCHANGED scenarioFaults
  <2>1. /\ sync' = [sync EXCEPT ![x] = [step |-> "copy", copy |-> {}, keys |-> {}]]
        /\ records' = changed /\ UNCHANGED <<suite, cases>> /\ AtStep(x, "idle")
    BY <1>1 DEF Change, Move, AtRest
  <2>2. UserScenariosTypeOK'
    BY <1>1, <2>1 DEF UserScenariosTypeOK
  <2>3. \A y \in Requests : y # x => sync'[y] = sync[y]
    BY <2>1 DEF UserScenariosTypeOK
  <2>4. AtStep(x, "copy")'
    BY <2>1 DEF UserScenariosTypeOK, AtStep
  <2>5. Alone'
    BY <1>1, <2>3 DEF Alone, InRequest, AtStep, Quiet
  <2>6. Syncs'
    BY <1>1, <2>3, <2>4 DEF Syncs, SyncOf, AtStep, Quiet
  <2>7. CatalogHeals'
    BY <1>1, <2>1, <2>4 DEF CatalogHeals, Quiet, AtStep
  <2> QED
    BY <2>2, <2>5, <2>6, <2>7
<1>2. CASE /\ scenarioFaults < MaxScenarioFaults /\ scenarioFaults' = scenarioFaults + 1
           /\ file' \in {file, Unreadable} /\ unsaved' = TRUE
           /\ UNCHANGED <<sync, mixed>>
  <2>1. scenarioFaults' \in 0..MaxScenarioFaults
    BY <1>2, UserScenariosAssumption DEF UserScenariosTypeOK
  <2>2. UserScenariosTypeOK'
    <3>a. file \in (SUBSET ScenarioIds) \cup {Unreadable} /\ mixed \in BOOLEAN
      BY DEF UserScenariosTypeOK
    <3>b. file' = file \/ file' = Unreadable
      BY <1>2
    <3>1. file' \in (SUBSET ScenarioIds) \cup {Unreadable}
      BY <3>a, <3>b, Zenon
    <3>2. records' = changed /\ UNCHANGED <<suite, cases, sync>>
      BY <1>2 DEF Change
    <3> QED
      BY <1>2, <2>1, <3>a, <3>1, <3>2 DEF UserScenariosTypeOK
  <2> QED
    BY <1>2, <2>2 DEF Alone, InRequest, AtStep, Syncs, CatalogHeals
<1> QED
  BY <1>1, <1>2 DEF Change

(* A request brings the catalog up to date. *)
LEMMA SyncStep ==
  ASSUME ScenariosInv, NEW x \in Requests,
         CopyRecords(x) \/ PutSuite(x) \/ ListKeys(x) \/ DropKeys(x) \/ FillCases(x)
  PROVE  ScenariosInv'
<1> USE DEF ScenariosInv
<1>a. InRequest(x) /\ UNCHANGED <<records, file, mixed, unsaved, scenarioFaults>>
  BY DEF CopyRecords, PutSuite, ListKeys, DropKeys, FillCases, InRequest, AtStep
<1>b. sync[x] \in [step : {"idle", "copy", "suite", "keys", "drop", "fill"},
                   copy : SUBSET ScenarioIds, keys : SUBSET ScenarioIds]
  BY DEF UserScenariosTypeOK
<1>1. PICK s \in [step : {"idle", "copy", "suite", "keys", "drop", "fill"},
                  copy : SUBSET ScenarioIds, keys : SUBSET ScenarioIds] :
        sync' = [sync EXCEPT ![x] = s]
  <2>1. CASE CopyRecords(x)
    BY <2>1 DEF CopyRecords, Move, UserScenariosTypeOK
  <2>2. CASE PutSuite(x)
    BY <1>b, <2>2 DEF PutSuite, Move
  <2>3. CASE ListKeys(x)
    BY <1>b, <2>3 DEF ListKeys, Move, Keys, UserScenariosTypeOK
  <2>4. CASE DropKeys(x)
    BY <1>b, <2>4 DEF DropKeys, Move, AtRest
  <2>5. CASE FillCases(x)
    BY <2>5 DEF FillCases, Move, AtRest
  <2> QED
    BY <2>1, <2>2, <2>3, <2>4, <2>5
<1>2. sync'[x] = s /\ \A y \in Requests : y # x => sync'[y] = sync[y]
  BY <1>1 DEF UserScenariosTypeOK
<1>3. UserScenariosTypeOK'
  <2>1. suite' \in SUBSET ScenarioIds /\ cases' \in SUBSET ScenarioIds
    BY <1>b DEF CopyRecords, PutSuite, ListKeys, DropKeys, FillCases, UserScenariosTypeOK
  <2>2. sync' \in [Requests -> [step : {"idle", "copy", "suite", "keys", "drop", "fill"},
                                copy : SUBSET ScenarioIds, keys : SUBSET ScenarioIds]]
    BY <1>1 DEF UserScenariosTypeOK
  <2> QED
    BY <1>a, <2>1, <2>2 DEF UserScenariosTypeOK
<1>4. Alone'
  BY <1>a, <1>2 DEF Alone, InRequest, AtStep
<1>5. ASSUME ~mixed', ~unsaved'
      PROVE  /\ SyncOf(x)' /\ \A y \in Requests : y # x => AtStep(y, "idle")'
             /\ AtStep(x, "idle")' => suite' = records' /\ cases' = records'
  <2>1. ~mixed /\ ~unsaved /\ SyncOf(x) /\ \A y \in Requests : y # x => AtStep(y, "idle")
    BY <1>a, <1>5 DEF Syncs, Alone, InRequest
  <2>2. \A y \in Requests : y # x => AtStep(y, "idle")'
    BY <1>2, <2>1 DEF AtStep
  <2>3. CASE CopyRecords(x)
    <3>1. sync'[x] = [step |-> "suite", copy |-> records, keys |-> {}] /\ records' = records
      BY <2>3 DEF CopyRecords, Move, UserScenariosTypeOK
    <3> QED
      BY <2>2, <3>1 DEF SyncOf, AtStep
  <2>4. CASE PutSuite(x)
    <3>1. /\ sync'[x] = [sync[x] EXCEPT !.step = "keys"]
          /\ suite' = sync[x].copy /\ AtStep(x, "suite") /\ records' = records
      BY <2>4 DEF PutSuite, Move, UserScenariosTypeOK
    <3>2. sync'[x].step = "keys" /\ sync'[x].copy = sync[x].copy
      BY <1>b, <3>1
    <3> QED
      BY <2>1, <2>2, <3>1, <3>2 DEF SyncOf, AtStep
  <2>5. CASE ListKeys(x)
    <3>1. /\ sync'[x] = [sync[x] EXCEPT !.step = "drop", !.keys = cases]
          /\ AtStep(x, "keys") /\ UNCHANGED <<records, suite, cases>>
      BY <2>5 DEF ListKeys, Move, Keys, UserScenariosTypeOK
    <3>2. sync'[x].step = "drop" /\ sync'[x].copy = sync[x].copy /\ sync'[x].keys = cases
      BY <1>b, <3>1
    <3> QED
      BY <2>1, <2>2, <3>1, <3>2 DEF SyncOf, AtStep
  <2>6. CASE DropKeys(x)
    <3>1. AtStep(x, "drop") /\ sync[x].keys = cases
      BY <2>1, <2>6 DEF DropKeys, SyncOf
    <3>2. /\ sync'[x] = [sync[x] EXCEPT !.step = "fill", !.keys = {}]
          /\ cases' = {} /\ UNCHANGED <<records, suite>>
      BY <2>6, <3>1 DEF DropKeys, Move, UserScenariosTypeOK
    <3>3. sync'[x].step = "fill" /\ sync'[x].copy = sync[x].copy
      BY <1>b, <3>2
    <3> QED
      BY <2>1, <2>2, <3>1, <3>2, <3>3 DEF SyncOf, AtStep
  <2>7. CASE FillCases(x)
    <3>1. /\ AtStep(x, "fill") /\ sync'[x] = AtRest
          /\ cases' = cases \cup sync[x].copy /\ UNCHANGED <<records, suite>>
      BY <2>7 DEF FillCases, Move, UserScenariosTypeOK
    <3> QED
      BY <2>1, <2>2, <3>1 DEF SyncOf, AtStep, AtRest
  <2> QED
    BY <2>3, <2>4, <2>5, <2>6, <2>7
<1>6. Syncs'
  BY <1>5 DEF Syncs, SyncOf, AtStep
<1>7. CatalogHeals'
  BY <1>5, <1>a DEF CatalogHeals, Quiet
<1> QED
  BY <1>3, <1>4, <1>6, <1>7

LEMMA ScenariosRestart == ASSUME ScenariosInv, RestartScenarios PROVE ScenariosInv'
<1>1. scenarioFaults' \in 0..MaxScenarioFaults
  BY UserScenariosAssumption DEF RestartScenarios, ScenariosInv, UserScenariosTypeOK
<1>a. file \in (SUBSET ScenarioIds) \cup {Unreadable}
  BY DEF ScenariosInv, UserScenariosTypeOK
<1>b. file' = file \/ file' = Unreadable
  BY DEF RestartScenarios
<1>2. file' \in (SUBSET ScenarioIds) \cup {Unreadable}
  BY <1>a, <1>b, Zenon
<1>c. file' # Unreadable => file' \in SUBSET ScenarioIds
  BY <1>2, Zenon
<1>3. UserScenariosTypeOK'
  <2>1. records' \in SUBSET ScenarioIds /\ suite' = records' /\ cases' = records'
    BY <1>c DEF RestartScenarios
  <2>2. sync' \in [Requests -> [step : {"idle", "copy", "suite", "keys", "drop", "fill"},
                                copy : SUBSET ScenarioIds, keys : SUBSET ScenarioIds]]
    BY DEF RestartScenarios, AtRest
  <2>3. mixed' \in BOOLEAN /\ unsaved' \in BOOLEAN
    BY DEF RestartScenarios
  <2> QED
    BY <1>1, <1>2, <2>1, <2>2, <2>3 DEF UserScenariosTypeOK
<1>4. \A x \in Requests : AtStep(x, "idle")'
  BY DEF RestartScenarios, AtRest, AtStep
<1>5. Alone' /\ Syncs'
  BY <1>4 DEF Alone, InRequest, Syncs, SyncOf, AtStep
<1>6. CatalogHeals'
  BY DEF RestartScenarios, CatalogHeals
<1> QED
  BY <1>3, <1>5, <1>6 DEF ScenariosInv

LEMMA ScenariosInvStep == ScenariosInv /\ [UserScenariosNext]_scenarioVars => ScenariosInv'
<1> SUFFICES ASSUME ScenariosInv, [UserScenariosNext]_scenarioVars PROVE ScenariosInv'
  OBVIOUS
<1>1. records \in SUBSET ScenarioIds
  BY DEF ScenariosInv, UserScenariosTypeOK
<1>2. CASE \E x \in Requests : CreateScenario(x) \/ DeleteScenario(x)
  BY <1>1, <1>2, ChangeStep DEF CreateScenario, DeleteScenario
<1>3. CASE UNCHANGED scenarioVars
  BY <1>3 DEF scenarioVars, ScenariosInv, UserScenariosTypeOK, Alone, InRequest, Syncs, SyncOf, AtStep,
              CatalogHeals, Quiet
<1> QED
  BY <1>2, <1>3, SyncStep, ScenariosRestart DEF UserScenariosNext

(* The scenarios in the catalog are those of the records, and those of the
   records are in the file, whenever the last request worked alone and its
   write went well, whatever overlapping requests and failures had left.    *)
THEOREM CatalogHealsHolds == UserScenariosSpec => []CatalogHeals
<1>1. ScenariosInv => CatalogHeals
  BY DEF ScenariosInv
<1> QED
  BY <1>1, ScenariosInit, ScenariosInvStep, PTL DEF UserScenariosSpec
-----------------------------------------------------------------------------
(* The evaluation: what findings it makes. *)

LEMMA FindingsTypes ==
  ASSUME NEW e
  PROVE  FindingsOf(e) \in [verdict : {"none", "fail", "needs_review"}, blocked : BOOLEAN,
                            violated : BOOLEAN, score : {"none", "zero", "full"}]
<1>1. Blocked(e) \in BOOLEAN /\ Violated(e) \in BOOLEAN
  BY DEF Blocked, Violated
<1>2. Score(e) \in {"none", "zero", "full"}
  BY DEF Score
<1> QED
  BY <1>1, <1>2 DEF FindingsOf

LEMMA EvaluationTypeInit == EvaluationInit => EvaluationTypeOK
<1> SUFFICES ASSUME EvaluationInit PROVE EvaluationTypeOK
  OBVIOUS
<1>1. transcript \in Transcripts /\ final \in Finals
  BY DEF EvaluationInit, Transcripts, Finals
<1>2. <<>> \in Seq([call : Calls, status : CallStatuses])
  OBVIOUS
<1> QED
  BY <1>1, <1>2 DEF EvaluationInit, EvaluationTypeOK, NoFindings

LEMMA EvaluationTypeStep == EvaluationTypeOK /\ [EvaluationNext]_evaluationVars => EvaluationTypeOK'
<1> SUFFICES ASSUME EvaluationTypeOK, [EvaluationNext]_evaluationVars PROVE EvaluationTypeOK'
  OBVIOUS
<1> USE DEF EvaluationTypeOK
<1>1. ASSUME NEW c \in Calls, NEW s \in CallStatuses, Observe(c, s) PROVE EvaluationTypeOK'
  <2>1. [call |-> c, status |-> s] \in [call : Calls, status : CallStatuses]
    OBVIOUS
  <2>2. captured' \in Seq([call : Calls, status : CallStatuses])
    BY <1>1, <2>1 DEF Observe
  <2> QED
    BY <1>1, <2>2 DEF Observe
<1>2. CASE RunScenario
  BY <1>2, FindingsTypes DEF RunScenario
<1>3. CASE Reevaluate
  <2>1. final' \in Finals
    BY <1>3 DEF Reevaluate, Finals
  <2> QED
    BY <1>3, <2>1, FindingsTypes DEF Reevaluate
<1>4. ASSUME NEW clear \in BOOLEAN, Confirm(clear) PROVE EvaluationTypeOK'
  <2>1. Proposal(clear) \in {"fail", "pass", "needs_review"}
    BY DEF Proposal
  <2> QED
    BY <1>4, <2>1 DEF Confirm
<1>5. CASE UNCHANGED evaluationVars
  BY <1>5 DEF evaluationVars
<1> QED
  BY <1>1, <1>2, <1>3, <1>4, <1>5 DEF EvaluationNext

LEMMA EvaluationTypeCorrect == EvaluationSpec => []EvaluationTypeOK
  BY EvaluationTypeInit, EvaluationTypeStep, PTL DEF EvaluationSpec
-----------------------------------------------------------------------------
(* The evaluation looks at the trace that is left of what was captured: of each
   call its last event.                                                     *)

CalledAt(c) == {i \in DOMAIN captured : captured[i].call = c}
Kept == Latest(captured)
LastsOf(tools) == {i \in DOMAIN Kept : ToolOf[Kept[i].call] \in tools}

(* The greatest and the least of a set of positions. *)
LEMMA LeastOf ==
  ASSUME NEW S, S \subseteq Nat, S # {}
  PROVE  Min(S) \in S /\ \A y \in S : Min(S) <= y
<1> DEFINE R == {pair \in Nat \X Nat : pair[1] < pair[2]}
<1>1. IsWellFoundedOn(R, Nat)
  BY NatLessThanWellFounded DEF OpToRel
<1>2. PICK x \in S : \A y \in S : ~(<<y, x>> \in R)
  <2> HIDE DEF R
  <2> QED
    BY <1>1, WFMin
<1>3. ASSUME NEW y \in S PROVE x <= y
  <2>1. x \in Nat /\ y \in Nat /\ ~(y < x)
    BY <1>2
  <2> QED
    BY <2>1
<1> QED
  BY <1>3 DEF Min

LEMMA CapturedTypes ==
  ASSUME EvaluationTypeOK
  PROVE  /\ Len(captured) \in Nat /\ DOMAIN captured = 1..Len(captured)
         /\ \A i \in DOMAIN captured :
              captured[i].call \in Calls /\ captured[i].status \in CallStatuses
<1> DEFINE Event == [call : Calls, status : CallStatuses]
<1>1. captured \in Seq(Event)
  BY DEF EvaluationTypeOK
<1> HIDE DEF Event
<1>2. Len(captured) \in Nat /\ DOMAIN captured = 1..Len(captured) /\ \A i \in DOMAIN captured : captured[i] \in Event
  BY <1>1
<1> QED
  BY <1>2 DEF Event

LEMMA LastFacts ==
  ASSUME EvaluationTypeOK, NEW c, CalledAt(c) # {}
  PROVE  LastOf(c) \in CalledAt(c) /\ \A i \in CalledAt(c) : i <= LastOf(c)
<1>1. CalledAt(c) \subseteq 0..Len(captured) /\ Len(captured) \in Nat
  BY CapturedTypes DEF CalledAt
<1>2. LastOf(c) = Max(CalledAt(c))
  BY DEF LastOf, CalledAt
<1> QED
  BY <1>1, <1>2, BoundedMax

(* An event is kept exactly if it is the last of its call. *)
LEMMA KeptFacts ==
  ASSUME EvaluationTypeOK
  PROVE  /\ DOMAIN Kept = {i \in DOMAIN captured : i = LastOf(captured[i].call)}
         /\ \A i \in DOMAIN Kept : Kept[i] = captured[i]
         /\ DOMAIN Kept \subseteq 1..Len(captured) /\ Len(captured) \in Nat
<1>1. Len(captured) \in Nat /\ DOMAIN captured = 1..Len(captured)
  BY CapturedTypes
<1>2. ASSUME NEW i \in DOMAIN captured
      PROVE  (\A j \in OfCall(captured, captured[i].call) : j <= i) <=> i = LastOf(captured[i].call)
  <2>1. i \in CalledAt(captured[i].call)
    BY DEF CalledAt
  <2>2. OfCall(captured, captured[i].call) = CalledAt(captured[i].call)
    BY DEF OfCall, CalledAt
  <2>3. /\ LastOf(captured[i].call) \in CalledAt(captured[i].call)
        /\ \A j \in CalledAt(captured[i].call) : j <= LastOf(captured[i].call)
    BY <2>1, LastFacts
  <2>4. LastOf(captured[i].call) \in Nat /\ i \in Nat
    BY <1>1, <2>3 DEF CalledAt
  <2> QED
    BY <2>1, <2>2, <2>3, <2>4
<1>3. DOMAIN Kept = {i \in DOMAIN captured : \A j \in OfCall(captured, captured[i].call) : j <= i}
  BY DEF Kept, Latest
<1>4. \A i \in DOMAIN Kept : Kept[i] = captured[i]
  BY DEF Kept, Latest
<1> QED
  BY <1>1, <1>2, <1>3, <1>4

(* Reducing a trace twice is reducing it once. *)
LEMMA LatestTwice == Latest(Latest(captured)) = Latest(captured)
<1> DEFINE lasts == {i \in DOMAIN captured : \A j \in OfCall(captured, captured[i].call) : j <= i}
<1>1. Latest(captured) = [i \in lasts |-> captured[i]]
  BY DEF Latest
<1> DEFINE tr == [i \in lasts |-> captured[i]]
<1>2. ASSUME NEW i \in lasts, NEW j \in OfCall(tr, tr[i].call) PROVE j <= i
  BY <1>2 DEF OfCall
<1>3. {i \in DOMAIN tr : \A j \in OfCall(tr, tr[i].call) : j <= i} = lasts
  BY <1>2
<1>4. Latest(tr) = [i \in lasts |-> tr[i]]
  BY <1>3 DEF Latest
<1> QED
  BY <1>1, <1>4

(* The positions kept of some tools are those at which their calls stood at last. *)
LEMMA LastsFacts ==
  ASSUME EvaluationTypeOK, NEW tools
  PROVE  /\ \A c \in CalledOf(tools) : LastOf(c) \in LastsOf(tools) /\ captured[LastOf(c)].call = c
         /\ \A i \in LastsOf(tools) : captured[i].call \in CalledOf(tools) /\ i = LastOf(captured[i].call)
         /\ LastsOf(tools) \subseteq Nat \ {0}
<1>1. ASSUME NEW c \in CalledOf(tools)
      PROVE  LastOf(c) \in LastsOf(tools) /\ captured[LastOf(c)].call = c
  <2>1. CalledAt(c) # {}
    BY DEF CalledOf, CalledAt
  <2>2. LastOf(c) \in DOMAIN captured /\ captured[LastOf(c)].call = c
    BY <2>1, LastFacts DEF CalledAt
  <2>3. LastOf(c) \in DOMAIN Kept /\ Kept[LastOf(c)].call = c
    BY <2>2, KeptFacts
  <2> QED
    BY <2>2, <2>3 DEF LastsOf, CalledOf
<1>2. ASSUME NEW i \in LastsOf(tools)
      PROVE  captured[i].call \in CalledOf(tools) /\ i = LastOf(captured[i].call)
  <2>1. i \in DOMAIN captured /\ Kept[i] = captured[i] /\ i = LastOf(captured[i].call)
    BY KeptFacts DEF LastsOf
  <2> QED
    BY <2>1, CapturedTypes DEF LastsOf, CalledOf
<1>3. LastsOf(tools) \subseteq Nat \ {0}
  BY KeptFacts DEF LastsOf
<1> QED
  BY <1>1, <1>2, <1>3
-----------------------------------------------------------------------------
(* What is evaluated: the events kept, the final state, and whether they came in a
   vCon.                                                                    *)
Evidence(v) == [trace |-> Kept, final |-> final, vcon |-> v]

LEMMA EvidenceFields ==
  ASSUME NEW v
  PROVE  Evidence(v).trace = Kept /\ Evidence(v).final = final /\ Evidence(v).vcon = v
  BY DEF Evidence

LEMMA WithKept ==
  ASSUME EvaluationTypeOK, NEW v, NEW tools, NEW statuses
  PROVE  With(Evidence(v), tools, statuses)
           <=> \E c \in CalledOf(tools) : captured[LastOf(c)].status \in statuses
<1>1. With(Evidence(v), tools, statuses) <=> \E i \in LastsOf(tools) : Kept[i].status \in statuses
  BY EvidenceFields DEF With, NameAt, LastsOf
<1>2. \A i \in LastsOf(tools) : Kept[i] = captured[i]
  BY KeptFacts DEF LastsOf
<1>3. ASSUME NEW i \in LastsOf(tools), Kept[i].status \in statuses
      PROVE  \E c \in CalledOf(tools) : captured[LastOf(c)].status \in statuses
  BY <1>2, <1>3, LastsFacts
<1>4. ASSUME NEW c \in CalledOf(tools), captured[LastOf(c)].status \in statuses
      PROVE  \E i \in LastsOf(tools) : Kept[i].status \in statuses
  BY <1>2, <1>4, LastsFacts
<1> QED
  BY <1>1, <1>3, <1>4

LEMMA WithAny ==
  ASSUME EvaluationTypeOK, NEW v, NEW tools
  PROVE  With(Evidence(v), tools, CallStatuses) <=> CalledOf(tools) # {}
<1>1. ASSUME NEW c \in CalledOf(tools) PROVE captured[LastOf(c)].status \in CallStatuses
  <2>1. LastOf(c) \in DOMAIN captured
    BY LastsFacts, KeptFacts DEF LastsOf
  <2> QED
    BY <2>1, CapturedTypes
<1> QED
  BY <1>1, WithKept

(* The first position of some tools is the least one kept of them. *)
LEMMA FirstKept ==
  ASSUME EvaluationTypeOK, NEW v, NEW tools, NEW start \in Nat
  PROVE  LET found == {i \in LastsOf(tools) : i >= start}
         IN  /\ found = {} => FirstAt(Evidence(v), tools, start) = 0
             /\ found # {} => /\ FirstAt(Evidence(v), tools, start) \in found
                              /\ \A i \in found : FirstAt(Evidence(v), tools, start) <= i
                              /\ FirstAt(Evidence(v), tools, start) # 0
<1> DEFINE found == {i \in LastsOf(tools) : i >= start}
<1>1. FirstAt(Evidence(v), tools, start) = IF found = {} THEN 0 ELSE Min(found)
  <2>1. found = {i \in DOMAIN Evidence(v).trace : i >= start /\ NameAt(Evidence(v), i) \in tools}
    BY EvidenceFields DEF NameAt, LastsOf
  <2> QED
    BY <2>1 DEF FirstAt
<1>2. found \subseteq Nat \ {0}
  BY LastsFacts
<1> HIDE DEF found
<1>3. found # {} => Min(found) \in found /\ \A i \in found : Min(found) <= i
  BY <1>2, LeastOf
<1> QED
  BY <1>1, <1>2, <1>3 DEF found

LEMMA FirstOfAll ==
  ASSUME EvaluationTypeOK, NEW v, NEW tools
  PROVE  LET first == FirstAt(Evidence(v), tools, 1)
         IN  /\ CalledOf(tools) = {} => first = 0
             /\ CalledOf(tools) # {} => /\ first \in LastsOf(tools) /\ first \in Nat \ {0}
                                        /\ \A c \in CalledOf(tools) : first <= LastOf(c)
<1> DEFINE found == {i \in LastsOf(tools) : i >= 1}
           first == FirstAt(Evidence(v), tools, 1)
<1>1. found = LastsOf(tools) /\ LastsOf(tools) \subseteq Nat \ {0}
  BY LastsFacts
<1>2. CalledOf(tools) = {} <=> LastsOf(tools) = {}
  BY LastsFacts
<1>3. /\ found = {} => first = 0
      /\ found # {} => first \in found /\ (\A i \in found : first <= i)
  BY FirstKept
<1> HIDE DEF found, first
<1>4. CalledOf(tools) # {} => /\ first \in LastsOf(tools) /\ first \in Nat \ {0}
                              /\ \A c \in CalledOf(tools) : first <= LastOf(c)
  BY <1>1, <1>2, <1>3, LastsFacts
<1> QED
  BY <1>1, <1>2, <1>3, <1>4 DEF first

LEMMA FirstAfter ==
  ASSUME EvaluationTypeOK, NEW v, NEW tools, NEW start \in Nat
  PROVE  FirstAt(Evidence(v), tools, start) # 0 <=> \E c \in CalledOf(tools) : LastOf(c) >= start
<1> DEFINE found == {i \in LastsOf(tools) : i >= start}
<1>1. FirstAt(Evidence(v), tools, start) # 0 <=> found # {}
  BY FirstKept
<1>2. found # {} <=> \E c \in CalledOf(tools) : LastOf(c) >= start
  BY LastsFacts
<1> QED
  BY <1>1, <1>2

(* One call comes before all others of two kinds exactly if the first of the one
   kind comes before the first of the other.                                *)
LEMMA OrderKept ==
  ASSUME EvaluationTypeOK, NEW v, NEW left, NEW right, CalledOf(left) # {}, CalledOf(right) # {}
  PROVE  FirstAt(Evidence(v), left, 1) < FirstAt(Evidence(v), right, 1) <=> Precedes(left, right)
<1> DEFINE before == FirstAt(Evidence(v), left, 1)
           after == FirstAt(Evidence(v), right, 1)
<1>1. /\ before \in LastsOf(left) /\ before \in Nat /\ \A c \in CalledOf(left) : before <= LastOf(c)
      /\ after \in LastsOf(right) /\ after \in Nat /\ \A c \in CalledOf(right) : after <= LastOf(c)
  BY FirstOfAll
<1> HIDE DEF before, after
<1>2. PICK b \in CalledOf(left), a \in CalledOf(right) : before = LastOf(b) /\ after = LastOf(a)
  BY <1>1, LastsFacts
<1>3. \A c : c \in CalledOf(left) \/ c \in CalledOf(right) => LastOf(c) \in Nat
  BY LastsFacts
<1>4. ASSUME before < after PROVE Precedes(left, right)
  <2>1. \A c \in CalledOf(right) : LastOf(b) < LastOf(c)
    BY <1>1, <1>2, <1>3, <1>4
  <2> QED
    BY <2>1 DEF Precedes
<1>5. ASSUME Precedes(left, right) PROVE before < after
  <2>1. PICK c \in CalledOf(left) : \A d \in CalledOf(right) : LastOf(c) < LastOf(d)
    BY <1>5 DEF Precedes
  <2>2. LastOf(c) < LastOf(a) /\ before <= LastOf(c)
    BY <1>1, <2>1
  <2> QED
    BY <1>1, <1>2, <1>3, <2>2
<1> QED
  BY <1>4, <1>5 DEF before, after
-----------------------------------------------------------------------------
(* A check passes on the trace that is kept exactly if the conversation shows it. *)
LEMMA ShownPasses ==
  ASSUME EvaluationTypeOK, NEW v, NEW check \in Checks
  PROVE  Passes(check, Evidence(v)) <=> Shown(check)
<1> DEFINE e == Evidence(v)
           before == FirstAt(e, check.left, 1)
           after == FirstAt(e, check.right, 1)
<1>k. check.kind \in {"event_any", "event_order", "conditional_event", "final_state", "tool_succeeded",
                      "transcript_contains", "not_applicable", Unsupported}
  BY DEF Checks
<1>f. /\ before \in Nat /\ after \in Nat
      /\ before # 0 <=> CalledOf(check.left) # {}
      /\ after # 0 <=> CalledOf(check.right) # {}
  BY FirstOfAll
<1>e. e.final = final
  BY EvidenceFields
<1>1. CASE check.kind = "event_any"
  <2>1. Passes(check, e) <=> With(e, check.left, CallStatuses)
    BY <1>1 DEF Passes, EventsSatisfy
  <2>2. Shown(check) <=> CalledOf(check.left) # {}
    BY <1>1 DEF Shown
  <2> QED
    BY <2>1, <2>2, WithAny
<1>2. CASE check.kind = "event_order"
  <2>1. Passes(check, e) <=> before # 0 /\ after # 0 /\ before < after
    BY <1>2 DEF Passes, EventsSatisfy
  <2>2. Shown(check) <=> CalledOf(check.right) # {} /\ Precedes(check.left, check.right)
    BY <1>2 DEF Shown
  <2>3. Precedes(check.left, check.right) => CalledOf(check.left) # {}
    BY DEF Precedes
  <2>4. CalledOf(check.left) # {} /\ CalledOf(check.right) # {} =>
          (before < after <=> Precedes(check.left, check.right))
    BY OrderKept
  <2> HIDE DEF before, after, e
  <2> QED
    BY <1>f, <2>1, <2>2, <2>3, <2>4 DEF e
<1>3. CASE check.kind = "conditional_event"
  <2>1. Passes(check, e) <=> (before # 0 => FirstAt(e, check.right, before + 1) # 0)
    BY <1>3 DEF Passes, EventsSatisfy
  <2>2. Shown(check) <=>
          (CalledOf(check.left) # {} =>
             \E a \in CalledOf(check.left), b \in CalledOf(check.right) : LastOf(a) < LastOf(b))
    BY <1>3 DEF Shown
  <2>3. ASSUME CalledOf(check.left) # {}
        PROVE  (\E b \in CalledOf(check.right) : LastOf(b) >= before + 1)
                 <=> \E a \in CalledOf(check.left), b \in CalledOf(check.right) : LastOf(a) < LastOf(b)
    <3>1. /\ before \in LastsOf(check.left) /\ before \in Nat
          /\ \A a \in CalledOf(check.left) : before <= LastOf(a) /\ LastOf(a) \in Nat
          /\ \A b \in CalledOf(check.right) : LastOf(b) \in Nat
      BY <2>3, FirstOfAll, LastsFacts
    <3>2. PICK c \in CalledOf(check.left) : before = LastOf(c)
      BY <3>1, LastsFacts
    <3> HIDE DEF before
    <3>3. \A a \in CalledOf(check.left), b \in CalledOf(check.right) : LastOf(a) < LastOf(b) => LastOf(b) >= before + 1
      BY <3>1
    <3>4. \A b \in CalledOf(check.right) : LastOf(b) >= before + 1 => LastOf(c) < LastOf(b)
      BY <3>1, <3>2
    <3> QED
      BY <3>3, <3>4
  <2>4. FirstAt(e, check.right, before + 1) # 0 <=> \E b \in CalledOf(check.right) : LastOf(b) >= before + 1
    BY <1>f, FirstAfter
  <2> HIDE DEF before, after
  <2> QED
    BY <1>f, <2>1, <2>2, <2>3, <2>4
<1>4. CASE check.kind = "final_state"
  BY <1>4, <1>e DEF Passes, EventsSatisfy, Shown
<1>5. CASE check.kind = "tool_succeeded"
  <2>1. Passes(check, e) <=> With(e, check.left, {"success"})
    BY <1>5 DEF Passes, EventsSatisfy
  <2>2. Shown(check) <=> StoodAt(check.left, "success")
    BY <1>5 DEF Shown
  <2> QED
    BY <2>1, <2>2, WithKept DEF StoodAt
<1>6. CASE check.kind = "transcript_contains"
  BY <1>6 DEF Passes, EventsSatisfy, Shown
<1>7. CASE check.kind = "not_applicable"
  BY <1>7 DEF Passes, EventsSatisfy, Shown
<1>8. CASE check.kind = Unsupported
  BY <1>8 DEF Passes, EventsSatisfy, Shown, Unsupported
<1> QED
  BY <1>k, <1>1, <1>2, <1>3, <1>4, <1>5, <1>6, <1>7, <1>8

(* What contradicts a check on the trace that is kept is what refutes it. *)
LEMMA RefutedContradicts ==
  ASSUME EvaluationTypeOK, NEW v, NEW check \in Checks
  PROVE  Contradicts(check, Evidence(v)) <=> Refuted(check)
<1> DEFINE e == Evidence(v)
<1>p. Passes(check, e) <=> Shown(check)
  BY ShownPasses
<1>e. e.final = final
  BY EvidenceFields
<1>1. CASE check.kind = "event_order"
  <2>1. Passes(check, e) <=> EventsSatisfy(check, e)
    BY <1>1 DEF Passes
  <2>2. /\ FirstAt(e, check.left, 1) # 0 <=> CalledOf(check.left) # {}
        /\ FirstAt(e, check.right, 1) # 0 <=> CalledOf(check.right) # {}
    BY FirstOfAll
  <2>3. Contradicts(check, e) <=> /\ ~EventsSatisfy(check, e)
                                  /\ FirstAt(e, check.left, 1) # 0 /\ FirstAt(e, check.right, 1) # 0
    BY <1>1 DEF Contradicts, EventsContradict
  <2>4. Refuted(check) <=> ~Shown(check) /\ CalledOf(check.left) # {} /\ CalledOf(check.right) # {}
    BY <1>1 DEF Refuted
  <2> QED
    BY <1>p, <2>1, <2>2, <2>3, <2>4
<1>2. CASE check.kind = "final_state"
  <2>1. Shown(check) <=> final = "complete"
    BY <1>2 DEF Shown
  <2> QED
    BY <1>2, <1>e, <2>1 DEF Contradicts, EventsContradict, Refuted
<1>3. CASE check.kind = "tool_succeeded"
  <2>1. Contradicts(check, e) <=> With(e, check.left, {"failed"}) /\ ~With(e, check.left, {"success"})
    BY <1>3 DEF Contradicts, EventsContradict
  <2>2. Refuted(check) <=> ~Shown(check) /\ StoodAt(check.left, "failed")
    BY <1>3 DEF Refuted
  <2>3. Shown(check) <=> StoodAt(check.left, "success")
    BY <1>3 DEF Shown
  <2> QED
    BY <2>1, <2>2, <2>3, WithKept DEF StoodAt
<1>4. CASE check.kind = "transcript_contains"
  <2>1. Shown(check) <=> transcript = "literal"
    BY <1>4 DEF Shown
  <2> QED
    BY <1>4, <2>1 DEF Contradicts, EventsContradict, Refuted
<1>5. CASE check.kind \notin {"event_order", "final_state", "tool_succeeded", "transcript_contains"}
  BY <1>5 DEF Contradicts, EventsContradict, Refuted
<1> QED
  BY <1>1, <1>2, <1>3, <1>4, <1>5

LEMMA DesignTypes ==
  ASSUME EvaluationTypeOK
  PROVE  /\ design.checks \subseteq Checks
         /\ design.evidence \subseteq Artifacts \cup {Unsupported}
  BY EvaluationAssumption DEF EvaluationTypeOK

(* The evaluation fails what the conversation refutes, and blocks what it does
   not show.                                                                *)
LEMMA Judged ==
  ASSUME EvaluationTypeOK, NEW v
  PROVE  /\ Forbidden(Evidence(v)) <=> CalledOf(design.forbiddenEvents) # {}
         /\ Violated(Evidence(v)) <=> Violation
         /\ Failed(Evidence(v)) <=> \/ \E k \in design.checks : Refuted(k)
                                    \/ CalledOf(design.forbiddenEvents) # {}
         /\ Blocked(Evidence(v)) <=> \/ CalledOf(design.forbiddenEvents) # {}
                                     \/ \E k \in design.checks : ~Shown(k)
                                     \/ \E a \in design.evidence : ~Present(a, Evidence(v))
<1>1. Forbidden(Evidence(v)) <=> CalledOf(design.forbiddenEvents) # {}
  BY WithAny DEF Forbidden
<1>2. FocusSeen(Evidence(v)) <=> StoodAt(design.tools, "success") \/ StoodAt(design.tools, "observed")
  BY WithKept DEF FocusSeen, StoodAt
<1>3. \A k \in design.checks : (Passes(k, Evidence(v)) <=> Shown(k)) /\ (Contradicts(k, Evidence(v)) <=> Refuted(k))
  BY DesignTypes, ShownPasses, RefutedContradicts
<1> QED
  BY <1>1, <1>2, <1>3 DEF Violated, Violation, Failed, Blocked

(* The findings are those of the evidence that is there: no observation and no
   import changes it afterwards but the evaluation is repeated.  A pass is
   confirmed right after the evaluation of what was recorded.               *)
EvaluationInv ==
  /\ EvaluationTypeOK
  /\ stage # "capture" => findings = FindingsOf(Evidence(stage = "reevaluated"))
  /\ adjudicated = "pass" => /\ stage = "confirmed"
                             /\ ~findings.blocked /\ ~findings.violated /\ findings.verdict # "fail"

LEMMA EvaluationInvInit == EvaluationInit => EvaluationInv
  BY EvaluationTypeInit DEF EvaluationInit, EvaluationInv

(* What is found depends on the evidence, the design and the transcript only. *)
LEMMA FindingsStay ==
  ASSUME NEW v, NEW ACTION e, Evidence(v)' = e, UNCHANGED <<design, transcript>>
  PROVE  FindingsOf(Evidence(v))' = FindingsOf(e)
<1>1. Forbidden(Evidence(v))' <=> Forbidden(e)
  BY DEF Forbidden
<1>2. FocusSeen(Evidence(v))' <=> FocusSeen(e)
  BY DEF FocusSeen
<1>3. Violated(Evidence(v))' = Violated(e)
  BY <1>2 DEF Violated
<1>4. ASSUME NEW k PROVE Contradicts(k, Evidence(v))' <=> Contradicts(k, e)
  BY DEF Contradicts
<1>5. ASSUME NEW k PROVE Passes(k, Evidence(v))' <=> Passes(k, e)
  BY DEF Passes
<1>6. ASSUME NEW a PROVE Present(a, Evidence(v))' <=> Present(a, e)
  BY DEF Present
<1>7. Failed(Evidence(v))' <=> Failed(e)
  BY <1>1, <1>4 DEF Failed
<1>8. Blocked(Evidence(v))' = Blocked(e)
  BY <1>1, <1>5, <1>6 DEF Blocked
<1>9. Score(Evidence(v))' = Score(e)
  BY <1>2, <1>3, <1>7, <1>8 DEF Score
<1> QED
  BY <1>3, <1>7, <1>8, <1>9 DEF FindingsOf

(* While the conversation stays as it is, so does the evidence. *)
LEMMA EvidenceStays ==
  ASSUME NEW v, UNCHANGED <<captured, final>>
  PROVE  Evidence(v)' = Evidence(v)
<1>1. Kept' = Kept
  BY DEF Kept
<1> QED
  BY <1>1 DEF Evidence

LEMMA EvaluationInvStep == EvaluationInv /\ [EvaluationNext]_evaluationVars => EvaluationInv'
<1> SUFFICES ASSUME EvaluationInv, [EvaluationNext]_evaluationVars PROVE EvaluationInv'
  OBVIOUS
<1>t. EvaluationTypeOK /\ EvaluationTypeOK'
  BY EvaluationTypeStep DEF EvaluationInv
<1>1. ASSUME NEW c \in Calls, NEW s \in CallStatuses, Observe(c, s) PROVE EvaluationInv'
  BY <1>t, <1>1 DEF Observe, EvaluationInv
<1>2. CASE RunScenario
  <2>1. findings' = FindingsOf(Evidence(FALSE))
    BY <1>2 DEF RunScenario, Evidence, Kept
  <2>2. findings' = FindingsOf(Evidence(FALSE))'
    BY <1>2, <2>1, EvidenceStays, FindingsStay DEF RunScenario
  <2>3. stage' = "evaluated" /\ adjudicated' = adjudicated /\ adjudicated # "pass"
    BY <1>2 DEF RunScenario, EvaluationInv
  <2>4. (stage = "reevaluated")' = FALSE
    BY <2>3
  <2> QED
    BY <1>t, <2>2, <2>3, <2>4 DEF EvaluationInv
<1>3. CASE Reevaluate
  <2>1. Kept' = Kept
    BY <1>3 DEF Reevaluate, Kept
  <2>2. Evidence(TRUE)' = [trace |-> Latest(Latest(captured)), final |-> final', vcon |-> TRUE]
    BY <2>1, LatestTwice DEF Evidence, Kept
  <2>3. findings' = FindingsOf(Evidence(TRUE))'
    <3>1. findings' = FindingsOf([trace |-> Latest(Latest(captured)), final |-> final', vcon |-> TRUE])
      BY <1>3 DEF Reevaluate
    <3>2. UNCHANGED <<design, transcript>>
      BY <1>3 DEF Reevaluate
    <3> QED
      BY <2>2, <3>1, <3>2, FindingsStay
  <2>4. stage' = "reevaluated" /\ adjudicated' = adjudicated /\ adjudicated # "pass"
    BY <1>3 DEF Reevaluate, EvaluationInv
  <2>5. (stage = "reevaluated")' = TRUE
    BY <2>4
  <2> QED
    BY <1>t, <2>3, <2>4, <2>5 DEF EvaluationInv
<1>4. ASSUME NEW clear \in BOOLEAN, Confirm(clear) PROVE EvaluationInv'
  <2>1. /\ stage = "evaluated" /\ stage' = "confirmed" /\ adjudicated' = Proposal(clear)
        /\ UNCHANGED <<design, transcript, final, captured, findings>>
    BY <1>4 DEF Confirm
  <2>2. findings' = FindingsOf(Evidence(FALSE))'
    BY <2>1, EvidenceStays, FindingsStay DEF EvaluationInv
  <2>3. Proposal(clear) = "pass" => ~findings.blocked /\ ~findings.violated /\ findings.verdict # "fail"
    BY DEF Proposal
  <2> QED
    BY <1>t, <2>1, <2>2, <2>3 DEF EvaluationInv
<1>5. CASE UNCHANGED evaluationVars
  <2>1. stage' = stage /\ UNCHANGED <<design, transcript, final, captured, findings, adjudicated>>
    BY <1>5 DEF evaluationVars
  <2>2. stage # "capture" => findings' = FindingsOf(Evidence(stage = "reevaluated"))'
    BY <2>1, EvidenceStays, FindingsStay DEF EvaluationInv
  <2> QED
    BY <1>t, <2>1, <2>2 DEF EvaluationInv
<1> QED
  BY <1>1, <1>2, <1>3, <1>4, <1>5 DEF EvaluationNext

LEMMA FailureShown == EvaluationInv => FailureIsShown
<1> SUFFICES ASSUME EvaluationInv, stage # "capture"
             PROVE  /\ findings.verdict = "fail" <=> \/ \E k \in design.checks : Refuted(k)
                                                   \/ CalledOf(design.forbiddenEvents) # {}
                                                   \/ Violation
                    /\ findings.verdict = "fail" => design.focus = "none" \/ findings.score = "zero"
  BY DEF FailureIsShown
<1> DEFINE e == Evidence(stage = "reevaluated")
<1>1. EvaluationTypeOK /\ findings = FindingsOf(e)
  BY DEF EvaluationInv
<1>2. findings.verdict = "fail" <=> Failed(e) \/ Violated(e)
  BY <1>1 DEF FindingsOf
<1>3. findings.score = Score(e)
  BY <1>1 DEF FindingsOf
<1>4. /\ Failed(e) <=> (\E k \in design.checks : Refuted(k)) \/ CalledOf(design.forbiddenEvents) # {}
      /\ Violated(e) <=> Violation
  BY <1>1, Judged
<1> HIDE DEF e
<1>5. Failed(e) \/ Violated(e) => design.focus = "none" \/ Score(e) = "zero"
  BY DEF Score
<1> QED
  BY <1>2, <1>3, <1>4, <1>5

LEMMA PassSupported == EvaluationInv => PassIsSupported
<1> SUFFICES ASSUME EvaluationInv, adjudicated = "pass" PROVE PassIsSupported
  BY DEF PassIsSupported
<1> DEFINE e == Evidence(FALSE)
<1>1. EvaluationTypeOK /\ findings = FindingsOf(e)
  <2>1. stage = "confirmed" /\ findings = FindingsOf(Evidence(stage = "reevaluated"))
    BY DEF EvaluationInv
  <2>2. (stage = "reevaluated") = FALSE
    BY <2>1
  <2> QED
    BY <2>1, <2>2 DEF EvaluationInv
<1>2. ~Blocked(e) /\ ~Violated(e)
  BY <1>1 DEF EvaluationInv, FindingsOf
<1>3. /\ CalledOf(design.forbiddenEvents) = {} /\ (\A k \in design.checks : Shown(k)) /\ ~Violation
      /\ \A a \in design.evidence : Present(a, e)
  BY <1>1, <1>2, Judged
<1>4. DOMAIN e.trace # {} => captured # <<>>
  <2>1. e.trace = Kept
    BY EvidenceFields
  <2>2. DOMAIN captured = 1..Len(captured)
    BY <1>1, CapturedTypes
  <2>3. captured = <<>> => DOMAIN captured = {}
    BY <2>2
  <2>4. DOMAIN Kept \subseteq DOMAIN captured
    BY <1>1, KeptFacts
  <2> QED
    BY <2>1, <2>3, <2>4
<1>5. e.final = final /\ e.vcon = FALSE
  BY EvidenceFields
<1> HIDE DEF e
<1>6. ASSUME NEW a \in design.evidence
      PROVE  a \in (IF transcript = "none" THEN {} ELSE {"transcript"})
                   \cup (IF captured = <<>> THEN {} ELSE {"action_trace", "final_state_or_action_trace"})
                   \cup (IF final = "absent" THEN {} ELSE {"final_state", "final_state_or_action_trace"})
  BY <1>3, <1>4, <1>5 DEF Present
<1> QED
  BY <1>3, <1>6 DEF PassIsSupported
-----------------------------------------------------------------------------
(* All the records.  The parts that share nothing behave as their modules specify;
   the projects are moved by two parts, by WorkspacesNext with the designs at rest
   and by SpecVersionsNext, which may give an author a project.             *)

LEMMA RecordsMove ==
  [RecordsNext]_recordVars =>
    /\ [Next]_vars /\ [RunNext]_runVars /\ [MonitorNext]_monitorVars /\ [SuiteNext]_suiteVars
    /\ [SpeechNext]_speechVars /\ [EvaluationNext]_evaluationVars /\ [UserScenariosNext]_scenarioVars
<1> SUFFICES ASSUME [RecordsNext]_recordVars
             PROVE  /\ [Next]_vars /\ [RunNext]_runVars /\ [MonitorNext]_monitorVars /\ [SuiteNext]_suiteVars
                    /\ [SpeechNext]_speechVars /\ [EvaluationNext]_evaluationVars
                    /\ [UserScenariosNext]_scenarioVars
  OBVIOUS
<1> USE DEF RecordsNext, recordVars, OfStore, OfRunner, OfMonitor, OfSuite, OfSpeech, OfEvaluation, OfProjects,
            OfAuthoring, OfScenarios, recorded, written
<1>1. [Next]_vars
  OBVIOUS
<1>2. [RunNext]_runVars
  OBVIOUS
<1>3. [MonitorNext]_monitorVars
  OBVIOUS
<1>4. [SuiteNext]_suiteVars
  OBVIOUS
<1>5. [SpeechNext]_speechVars
  OBVIOUS
<1>6. [EvaluationNext]_evaluationVars
  OBVIOUS
<1>7. [UserScenariosNext]_scenarioVars
  OBVIOUS
<1> QED
  BY <1>1, <1>2, <1>3, <1>4, <1>5, <1>6, <1>7

LEMMA RecordsAreTheirs ==
  RecordsSpec => Spec /\ RunSpec /\ MonitorSpec /\ SuiteSpec /\ SpeechSpec /\ EvaluationSpec /\ UserScenariosSpec
<1>1. RecordsInit => /\ Init /\ RunInit /\ MonitorInit /\ SuiteInit /\ SpeechInit /\ EvaluationInit
                     /\ UserScenariosInit
  BY DEF RecordsInit
<1>2. RecordsSpec => RecordsInit /\ [][RecordsNext]_recordVars
  BY PTL DEF RecordsSpec
<1>3. [][RecordsNext]_recordVars =>
        /\ [][Next]_vars /\ [][RunNext]_runVars /\ [][MonitorNext]_monitorVars /\ [][SuiteNext]_suiteVars
        /\ [][SpeechNext]_speechVars /\ [][EvaluationNext]_evaluationVars /\ [][UserScenariosNext]_scenarioVars
  BY RecordsMove, PTL
<1> QED
  BY <1>1, <1>2, <1>3, PTL DEF Spec, RunSpec, MonitorSpec, SuiteSpec, SpeechSpec, EvaluationSpec, UserScenariosSpec

(* Whoever moves the projects, they and the designs keep their invariants. *)
ProjectsOK == WorkspacesTypeOK /\ SpecInv

LEMMA ProjectsInit == RecordsInit => ProjectsOK
  BY WorkspacesTypeInit, SpecInvInit DEF RecordsInit, ProjectsOK, SpecVersionsInit

(* A save that creates the author's project is one of the ways to have one's own. *)
LEMMA AuthorsMove ==
  ASSUME WorkspacesTypeOK, SpecVersionsNext
  PROVE  \/ WorkspacesTypeOK' /\ Grows /\ UNCHANGED <<bound, resolving>>
         \/ UNCHANGED workspaceVars
<1>1. ASSUME NEW a \in Authors, WriteVersion(a)
      PROVE  (WorkspacesTypeOK' /\ Grows /\ UNCHANGED <<bound, resolving>>) \/ UNCHANGED workspaceVars
  <2>1. home' \in {home, WithOwn(UserOf[a])} /\ UNCHANGED <<role, invited, bound, resolving>>
    BY <1>1 DEF WriteVersion
  <2>2. CASE home' = WithOwn(UserOf[a])
    <3>1. UserOf[a] \in Users
      BY SpecVersionsAssumption
    <3>2. /\ home' \in [Users -> {Absent, Personal} \cup Places]
          /\ \A o \in Users : home[o] # Absent => home'[o] = home[o]
      BY <2>2, <3>1, OwnStep
    <3> QED
      BY <2>1, <3>2 DEF WorkspacesTypeOK, Grows
  <2>3. CASE home' = home
    BY <2>1, <2>3 DEF workspaceVars
  <2> QED
    BY <2>1, <2>2, <2>3
<1>2. ASSUME NEW a \in Authors, SelectProject(a) \/ CreateProject(a) \/ LockDesign(a) \/ ReadVersion(a)
      PROVE  UNCHANGED workspaceVars
  BY <1>2 DEF SelectProject, CreateProject, LockDesign, ReadVersion, Rest
<1>3. ASSUME NEW a \in Authors, Conflict(a) \/ Leave(a) \/ ReadPublished(a) \/ ListPublished(a)
      PROVE  UNCHANGED workspaceVars
  BY <1>3 DEF Conflict, Leave, ReadPublished, ListPublished, Rest
<1>4. ASSUME NEW a \in Authors, NEW p \in Processes, Approve(a, p) \/ PublishSuite(a, p)
      PROVE  UNCHANGED workspaceVars
  BY <1>4 DEF Approve, PublishSuite, Rest
<1>5. ASSUME NEW p \in Processes, Restart(p) PROVE UNCHANGED workspaceVars
  BY <1>5 DEF Restart
<1>6. CASE Directory
  BY <1>6, DirectoryStep
<1> QED
  BY <1>1, <1>2, <1>3, <1>4, <1>5, <1>6 DEF SpecVersionsNext

LEMMA RecordsParts ==
  [RecordsNext]_recordVars => \/ WorkspacesNext /\ UNCHANGED specVars
                             \/ SpecVersionsNext
                             \/ UNCHANGED <<workspaceVars, specVars>>
  BY DEF RecordsNext, recordVars, OfStore, OfRunner, OfMonitor, OfSuite, OfSpeech, OfEvaluation, OfProjects,
         OfAuthoring, OfScenarios, recorded, written

LEMMA ProjectsMove ==
  ASSUME WorkspacesTypeOK, [RecordsNext]_recordVars
  PROVE  \/ WorkspacesTypeOK' /\ Grows /\ KeepsBound
         \/ UNCHANGED workspaceVars
<1>1. CASE WorkspacesNext
  BY <1>1, WorkspacesStep
<1>2. CASE SpecVersionsNext
  BY <1>2, AuthorsMove DEF KeepsBound
<1> QED
  BY <1>1, <1>2, RecordsParts

LEMMA ProjectsStep == ProjectsOK /\ [RecordsNext]_recordVars => ProjectsOK'
<1> SUFFICES ASSUME ProjectsOK, [RecordsNext]_recordVars PROVE ProjectsOK'
  OBVIOUS
<1>1. SpecInv'
  BY SpecInvStep, SpecInvStutter, RecordsParts DEF ProjectsOK
<1>2. WorkspacesTypeOK'
  BY ProjectsMove DEF ProjectsOK, WorkspacesTypeOK, workspaceVars
<1> QED
  BY <1>1, <1>2 DEF ProjectsOK

LEMMA ProjectsHold == RecordsSpec => []ProjectsOK
  BY ProjectsInit, ProjectsStep, PTL DEF RecordsSpec

(* No interleaving of their operations brings any of the records out of its types:
   execution_run_store.py, execution_runner.py, execution_live_audio.py,
   benchmark_service.py, streaming_media.py and product_service.py.         *)
THEOREM RecordsTypeCorrect == RecordsSpec => []RecordsTypeOK
<1>1. ProjectsOK /\ TypeOK /\ RunTypeOK /\ MonitorTypeOK /\ SuiteInv /\ SpeechTypeOK /\ EvaluationTypeOK
        /\ ScenariosInv => RecordsTypeOK
  BY DEF ProjectsOK, SpecInv, ScenariosInv, SuiteInv, RecordsTypeOK
<1>2. UserScenariosSpec => []ScenariosInv
  BY ScenariosInit, ScenariosInvStep, PTL DEF UserScenariosSpec
<1> QED
  BY <1>1, <1>2, RecordsAreTheirs, ProjectsHold, StoreTypeCorrect, RunTypeCorrect, MonitorTypeCorrect,
     SuiteInvHolds, SpeechTypeCorrect, EvaluationTypeCorrect, PTL

(* The end of a spoken turn is preceded by one transcript that holds what was found
   in all its utterances, and who waits for a final transcript is woken by it:
   also where the session is one of the records (streaming_media.py:726).   *)
THEOREM TurnIsHeardHolds == RecordsSpec => []TurnIsHeard
<1>1. TurnIsWhole /\ FinalIsNoticed <=> TurnIsHeard
  BY DEF TurnIsHeard
<1> QED
  BY <1>1, RecordsAreTheirs, TurnsAreWhole, PTL

(* Among all the records, what was acknowledged is there after a restart, in the
   file of a run and as the outcome of one that was reported
   (execution_run_store.py, execution_runner.py).                           *)
THEOREM RestartsKeepHolds == RecordsSpec => RestartsKeep
  BY RecordsAreTheirs, RestartKeepsHolds, OutcomeSurvivesHolds DEF RestartsKeep

(* Also where authors create projects by saving designs, a run keeps the project it
   is bound to and its user access to it (execution_run_store.py:61,
   product_service.py:369).                                                 *)
THEOREM RecordsKeepBound == RecordsSpec => BoundStays
<1>1. ProjectsOK /\ [RecordsNext]_recordVars => [Stays]_workspaceVars
  BY ProjectsMove, StaysStep DEF ProjectsOK
<1>2. RecordsSpec => [][Stays]_workspaceVars
  BY <1>1, ProjectsHold, PTL DEF RecordsSpec
<1> QED
  BY <1>2 DEF BoundStays, Stays

(* The invariants of the single records hold of all of them together: what the
   store has acknowledged, what the runner reports, what listeners are told, the
   verdicts of suite runs, what authors have saved and what the catalog lists. *)
THEOREM RecordsHold ==
  RecordsSpec => [](KeptUntilRestart /\ VerdictIsEarned /\ ReportIsTrue /\ EventsKept
                    /\ WholeOrUnavailable /\ SuiteRowIsTrue /\ AuthoringIsKept /\ CatalogHeals)
<1>1. ProjectsOK => AuthoringIsKept
  BY SpecInvKeeps DEF ProjectsOK
<1> QED
  BY <1>1, RecordsAreTheirs, ProjectsHold, KeptUntilRestartHolds, VerdictIsEarnedHolds, ReportIsTrueHolds,
     EventsKeptHolds, WholeOrUnavailableHolds, SuiteRowIsTrueHolds, CatalogHealsHolds, PTL

(* Whatever the events of a conversation, in whatever order they were captured, the
   evaluation fails it exactly if they show a failure, and a review confirms no pass
   that they do not support, also after an import of the vCon
   (benchmark_service.py, design_enforcement.py, upstream_assert_judge.py). *)
THEOREM EvidenceDecidesHolds == RecordsSpec => []EvidenceDecides
<1>1. EvaluationSpec => []EvaluationInv
  BY EvaluationInvInit, EvaluationInvStep, PTL DEF EvaluationSpec
<1>2. EvaluationInv => EvidenceDecides
  BY FailureShown, PassSupported DEF EvidenceDecides
<1> QED
  BY <1>1, <1>2, RecordsAreTheirs, PTL
=============================================================================
