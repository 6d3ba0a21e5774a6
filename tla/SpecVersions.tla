---------------------------- MODULE SpecVersions ----------------------------
(***************************************************************************)
(* The versions of an evaluation design and their publication: save_spec   *)
(* of editable_assert_spec.py, publish_scenarios and                       *)
(* refresh_published_catalog of spec_scenario_authoring.py, and the editor *)
(* that calls them, SpecEditorPage.tsx.                                    *)
(*                                                                         *)
(* An author approves what the editor shows; the editor saves it under the *)
(* key of the project, and publishes the version that came back under the  *)
(* id of its project.  Several API processes share the database; a lock of *)
(* a process serves a design of a project, another its catalog.  There is  *)
(* one design, and a published suite is the version it points to.          *)
(*                                                                         *)
(* The database has one writer at a time.  A request that creates the      *)
(* project writes from then on until its version is committed.             *)
(***************************************************************************)
EXTENDS Workspaces, FiniteSetsExt

CONSTANTS Authors, Processes, NoOne,
          UserOf,       \* UserOf[a]: the user in whose name a edits
          MaxVersions,  \* bound on the versions of a project
          Attempts,     \* save_spec: 3
          MaxDrafts,    \* MaxDrafts[a]: bound on what a approves
          MaxRestarts   \* bound on restarts of processes

Versions == Users \X (1..MaxVersions)

ASSUME SpecVersionsAssumption ==
  /\ UserOf \in [Authors -> Users] /\ MaxDrafts \in [Authors -> Nat]
  /\ MaxVersions \in Nat /\ Attempts \in Nat \ {0} /\ MaxRestarts \in Nat
  /\ NoOne \notin Authors \cup Users \cup Places \cup Processes \cup Versions
  /\ \A read \in SUBSET Versions : NoOne # read

VARIABLES
  editor,    \* of an author, with the request it waits for
  rows,      \* editable_assert_spec_versions
  publications, \* published_assert_scenario_sets: the versions they point to
  writer,    \* the author whose request has written and not committed
  specLock,  \* specLock[p][o]: _spec_lock, the author whose request holds it
  catalog,   \* catalog[p]: the published suites in _SUITES_BY_ID
  refresh,   \* refresh[a]: the suites a refresh for a has read and not yet listed
  listed,    \* listed[a]: the suites a knows its process to list
  restarts

specVars == <<editor, rows, publications, writer, specLock, catalog, refresh, listed, restarts>>

(* A request that waits for nothing has no process. *)
Editing(draft) ==
  [step |-> "edit", draft |-> draft, process |-> NoOne, project |-> NoOne, locked |-> NoOne,
   version |-> 0, attempt |-> 1, tried |-> {}, saved |-> NoOne, suite |-> NoOne]

SpecVersionsInit ==
  /\ editor = [a \in Authors |-> Editing(0)]
  /\ rows = {} /\ publications = {} /\ writer = NoOne
  /\ specLock = [p \in Processes |-> [o \in Users |-> NoOne]]
  /\ catalog = [p \in Processes |-> {}]
  /\ refresh = [a \in Authors |-> NoOne]
  /\ listed = [a \in Authors |-> {}]
  /\ restarts = 0

-----------------------------------------------------------------------------
At(a, step) == editor[a].step = step
Edit(a, e) == editor' = [editor EXCEPT ![a] = e]
Design(a) == <<a, editor[a].draft>>

CanEdit(u, o) == o = u \/ (home[o] \in Places /\ role[home[o]][u] \in {"editor", "admin"})

Rest == UNCHANGED <<workspaceVars, catalog, refresh, listed, restarts>>
NoWrite == UNCHANGED <<rows, publications, writer>>

Unlocked(a) == LET e == editor[a] IN
  IF e.locked = NoOne THEN specLock ELSE [specLock EXCEPT ![e.process][e.locked] = NoOne]

(* approveAndContinue, or saveVersion: what the editor shows is submitted. *)
Approve(a, p) ==
  /\ At(a, "edit") /\ editor[a].draft < MaxDrafts[a]
  /\ Edit(a, [Editing(editor[a].draft + 1) EXCEPT !.step = "select", !.process = p])
  /\ UNCHANGED specLock /\ NoWrite /\ Rest

(* _select_visible_project prefers a shared project to one's own. *)
Selected(u) ==
  LET shared == {o \in Visible(u) : home[o] \in Places} IN
  IF shared # {} THEN shared ELSE Visible(u)

WithProject(e, o) ==
  [e EXCEPT !.project = o, !.step = IF e.locked = NoOne THEN "lock" ELSE "read"]

(* _resolve_project: the project is ambiguous, not open to edits, found, or
   still to be created.                                                     *)
SelectProject(a) ==
  LET u == UserOf[a] e == editor[a] IN
  /\ At(a, "select")
  /\ \/ /\ Cardinality(Selected(u)) > 1 \/ \E o \in Selected(u) : ~CanEdit(u, o)
        /\ Edit(a, Editing(e.draft)) /\ specLock' = Unlocked(a)
     \/ /\ \E o \in Users : Selected(u) = {o} /\ CanEdit(u, o) /\ Edit(a, WithProject(e, o))
        /\ UNCHANGED specLock
     \/ /\ Selected(u) = {}
        /\ Edit(a, [e EXCEPT !.step = "create"]) /\ UNCHANGED specLock
  /\ NoWrite /\ Rest

(* The project is inserted; one that another request has created is found. *)
CreateProject(a) ==
  /\ At(a, "create") /\ writer = NoOne
  /\ writer' = IF home[UserOf[a]] = Absent THEN a ELSE NoOne
  /\ Edit(a, WithProject(editor[a], UserOf[a]))
  /\ UNCHANGED <<rows, publications, specLock>> /\ Rest

LockDesign(a) == LET e == editor[a] IN
  /\ At(a, "lock") /\ specLock[e.process][e.project] = NoOne
  /\ specLock' = [specLock EXCEPT ![e.process][e.project] = a]
  /\ Edit(a, [e EXCEPT !.step = "read", !.locked = e.project])
  /\ NoWrite /\ Rest

LatestVersion(o) == Max({0} \cup {r.at[2] : r \in {s \in rows : s.at[1] = o}})

(* Mutant: the number is read once, before the first attempt. *)
VersionReadOnce(e) == IF e.attempt = 1 THEN LatestVersion(e.project) + 1 ELSE e.version

NextVersion(e) == LatestVersion(e.project) + 1

ReadVersion(a) == LET e == editor[a] IN
  /\ At(a, "read") /\ LatestVersion(e.project) < MaxVersions
  /\ Edit(a, [e EXCEPT !.step = "write", !.version = NextVersion(e)])
  /\ UNCHANGED specLock /\ NoWrite /\ Rest

(* The unique constraint of entities.py:128. *)
Taken(at) == \E r \in rows : r.at = at

(* The commit of a version, and of the project created with it. *)
WriteVersion(a) ==
  LET e == editor[a] at == <<e.project, e.version>> IN
  /\ At(a, "write") /\ writer \in {NoOne, a} /\ ~Taken(at)
  /\ rows' = rows \cup {[at |-> at, design |-> Design(a)]}
  /\ home' = IF writer = a THEN WithOwn(UserOf[a]) ELSE home
  /\ writer' = NoOne /\ specLock' = Unlocked(a)
  /\ Edit(a, [Editing(e.draft) EXCEPT !.step = "saved", !.saved = at])
  /\ UNCHANGED <<role, invited, bound, resolving, publications, catalog, refresh, listed, restarts>>

(* IntegrityError: the transaction is rolled back and the project resolved
   again, under the lock of the project before; the third time is the last. *)
Conflict(a) ==
  LET e == editor[a] at == <<e.project, e.version>> tried == e.tried \cup {at} IN
  /\ At(a, "write") /\ writer \in {NoOne, a} /\ Taken(at)
  /\ writer' = NoOne
  /\ IF e.attempt = Attempts
     THEN /\ specLock' = Unlocked(a)
          /\ Edit(a, [Editing(e.draft) EXCEPT !.step = "failed", !.tried = tried])
     ELSE /\ UNCHANGED specLock
          /\ Edit(a, [e EXCEPT !.step = "select", !.attempt = @ + 1, !.tried = tried])
  /\ UNCHANGED <<rows, publications>> /\ Rest

(* The answer arrives and the author turns to another design, or it is lost. *)
Leave(a) ==
  /\ editor[a].step \in {"saved", "failed", "answer"}
  /\ Edit(a, Editing(editor[a].draft))
  /\ listed' = [listed EXCEPT ![a] = {}]
  /\ UNCHANGED <<workspaceVars, catalog, refresh, restarts, specLock>> /\ NoWrite

-----------------------------------------------------------------------------
(* Mutant: the editor publishes under the key of the project. *)
PublishedByKey(a) == Selected(UserOf[a])

(* The project a publication names: that of the version the save returned. *)
PublishedIn(a) == {editor[a].saved[1]} \cap Visible(UserOf[a])

(* publish_scenarios up to its commit, again after a lost answer or a failure. *)
PublishSuite(a, p) ==
  /\ At(a, "saved") /\ writer = NoOne
  /\ \E o \in PublishedIn(a) : LET at == <<o, editor[a].saved[2]>> IN
       /\ CanEdit(UserOf[a], o) /\ Taken(at)
       /\ publications' = publications \cup {at}
       /\ Edit(a, [editor[a] EXCEPT !.step = "refresh", !.process = p, !.suite = at])
  /\ UNCHANGED <<rows, writer, specLock>> /\ Rest

(* The lock of the catalog of a process is held while one of its refreshes has
   read and not listed.                                                     *)
NoRefresh(p) == \A a \in Authors : refresh[a] = NoOne \/ editor[a].process # p

(* Mutant: the lock covers the update of the catalog only. *)
MayAlwaysRead(a) == TRUE

MayRead(a) == NoRefresh(editor[a].process)

(* refresh_published_catalog: the publications are read, *)
ReadPublished(a) ==
  /\ At(a, "refresh") /\ refresh[a] = NoOne /\ MayRead(a)
  /\ refresh' = [refresh EXCEPT ![a] = publications]
  /\ UNCHANGED <<workspaceVars, editor, catalog, listed, restarts, specLock>> /\ NoWrite

(* and replace what is listed. *)
ListPublished(a) ==
  /\ refresh[a] # NoOne
  /\ catalog' = [catalog EXCEPT ![editor[a].process] = refresh[a]]
  /\ refresh' = [refresh EXCEPT ![a] = NoOne]
  /\ listed' = [listed EXCEPT ![a] = refresh[a]]
  /\ Edit(a, [editor[a] EXCEPT !.step = "answer"])
  /\ UNCHANGED <<workspaceVars, restarts, specLock>> /\ NoWrite

(* A process restarts: its requests are lost, its catalog is empty, and what
   they have not committed is rolled back.  A saved version can be published
   again.                                                                   *)
Restart(p) ==
  LET lost == {a \in Authors : editor[a].process = p} IN
  /\ restarts < MaxRestarts /\ restarts' = restarts + 1
  /\ editor' = [a \in Authors |->
       IF a \notin lost THEN editor[a]
       ELSE IF editor[a].saved = NoOne THEN Editing(editor[a].draft)
       ELSE [editor[a] EXCEPT !.step = "saved", !.suite = NoOne]]
  /\ writer' = IF writer \in lost THEN NoOne ELSE writer
  /\ specLock' = [specLock EXCEPT ![p] = [o \in Users |-> NoOne]]
  /\ catalog' = [catalog EXCEPT ![p] = {}]
  /\ refresh' = [a \in Authors |-> IF a \in lost THEN NoOne ELSE refresh[a]]
  /\ listed' = [a \in Authors |-> IF a \in lost THEN {} ELSE listed[a]]
  /\ UNCHANGED <<workspaceVars, rows, publications>>

SpecVersionsNext ==
  \/ \E a \in Authors :
       \/ SelectProject(a) \/ CreateProject(a) \/ LockDesign(a)
       \/ ReadVersion(a) \/ WriteVersion(a) \/ Conflict(a) \/ Leave(a)
       \/ ReadPublished(a) \/ ListPublished(a)
       \/ \E p \in Processes : Approve(a, p) \/ PublishSuite(a, p)
  \/ \E p \in Processes : Restart(p)
  \/ writer = NoOne /\ Directory /\ UNCHANGED specVars

SpecVersionsSpec ==
  WorkspacesInit /\ SpecVersionsInit /\ [][SpecVersionsNext]_<<workspaceVars, specVars>>
-----------------------------------------------------------------------------
Editors ==
  [step : {"edit", "select", "create", "lock", "read", "write", "saved", "failed", "refresh", "answer"},
   draft : Nat, process : Processes \cup {NoOne}, project : Users \cup {NoOne},
   locked : Users \cup {NoOne}, version : 0..MaxVersions, attempt : 1..Attempts,
   tried : SUBSET Versions, saved : Versions \cup {NoOne}, suite : Versions \cup {NoOne}]

SpecVersionsTypeOK ==
  /\ editor \in [Authors -> Editors]
  /\ rows \subseteq [at : Versions, design : Authors \X Nat]
  /\ publications \subseteq Versions /\ writer \in Authors \cup {NoOne}
  /\ specLock \in [Processes -> [Users -> Authors \cup {NoOne}]]
  /\ catalog \in [Processes -> SUBSET Versions]
  /\ refresh \in [Authors -> (SUBSET Versions) \cup {NoOne}]
  /\ listed \in [Authors -> SUBSET Versions] /\ restarts \in 0..MaxRestarts

(* docs/assert-test-generation.md:27: the version an author is told of, and the
   one that is published for them, hold exactly what they approved, whatever
   others save under the same key.                                          *)
DesignIsKept ==
  \A a \in Authors : \A at \in {editor[a].saved, editor[a].suite} \ {NoOne} :
    {r \in rows : r.at = at} = {[at |-> at, design |-> Design(a)]}

(* editable_assert_spec.py:359: a save that gives up has lost to three others,
   each of which has its own version; versions have no gaps.                *)
ConflictIsProgress ==
  /\ \A a \in Authors : At(a, "failed") => Cardinality(editor[a].tried) = Attempts
  /\ \A r \in rows : \A v \in 1..r.at[2] : Taken(<<r.at[1], v>>)

(* docs/spec-driven-scenario-authoring.md:50: who has refreshed the catalog of a
   process finds there all that was published before, by any process, however
   many refresh it at a time.                                               *)
PublishedIsListed ==
  \A a \in Authors : At(a, "answer") =>
    editor[a].suite \in listed[a] /\ listed[a] \subseteq catalog[editor[a].process]

(* An author finds under the version they were told of what they approved, loses
   a number only to a version of another, and finds listed what they published. *)
AuthoringIsKept == DesignIsKept /\ ConflictIsProgress /\ PublishedIsListed
=============================================================================
