------------------------- MODULE WorkspaceProjects -------------------------
(***************************************************************************)
(* The life of the projects of a workspace: creation in two saves, the     *)
(* archive, the restore actions of the admin and the purge after thirty    *)
(* days (apps/projects/services.py, views.py, models.py, admin.py).        *)
(*                                                                         *)
(* Creation and rename end with Project.save() without update_fields: they *)
(* write every column of the row as they have read it, so what others have *)
(* saved meanwhile is undone, and a row that is gone is inserted again.    *)
(* Here the columns are the lifecycle, the API key and the revision of the *)
(* company attributes.  Saves that name their fields (time zone, product   *)
(* URL, tracking, last event) touch none of these and are left out.        *)
(***************************************************************************)
EXTENDS WorkspaceMembers

CONSTANTS Projects, NoWorkspace

ASSUME ProjectsAssumption == NoWorkspace \notin Workspaces

VARIABLES
    project,        \* projects_project: its workspace, lifecycle, key and revision
    purge           \* the purge in progress: what it has selected and deleted, or NoPurge

ProjectStates == {"absent", "active", "archived", "expired", "purged"}
NoProject == [ws |-> NoWorkspace, state |-> "absent", keyed |-> FALSE, revision |-> 0]
NoPurge == [step |-> "none", ids |-> {}, workspaces |-> {}, empty |-> NoWorkspace,
            gone |-> {}, taken |-> {}, came |-> {}, late |-> {}]

Stored(p) == project[p].state \notin {"absent", "purged"}

\* get_accessible_project_or_404
CanView(p, u) == project[p].state = "active" /\ CanOpen(project[p].ws, u)

\* user_can_edit_project_settings
CanEdit(p, u) == CanView(p, u) /\ Standing(project[p].ws, u) # "viewer"

OwnsWorkspace(w, u) == Standing(w, u) \in {"owner", "superuser"}

MembersUnchanged == UNCHANGED <<workspace, membership>>

-----------------------------------------------------------------------------
\* project_create: the view has checked; the project exists from its first save on, and gets its
\* key with a second one.
AskProject(r, w, actor) ==
    /\ CanOpen(w, actor)
    /\ OwnsWorkspace(w, actor)
    /\ Begin(r, [kind |-> "create", ws |-> w])
    /\ MembersUnchanged
    /\ UNCHANGED <<project, purge>>

FirstSave(w) == [ws |-> w, state |-> "active", keyed |-> FALSE, revision |-> 0]

CreateProject(r, p) ==
    /\ request[r].kind = "create"
    /\ project[p] = NoProject
    /\ workspace[request[r].ws] # "purged"
    /\ project' = [project EXCEPT ![p] = FirstSave(request[r].ws)]
    /\ request' = [request EXCEPT ![r] =
           [kind |-> "key", project |-> p, row |-> FirstSave(request[r].ws)]]
    /\ MembersUnchanged
    /\ UNCHANGED <<begun, purge>>

\* Project.save(): all columns, and an INSERT when there is no row to update.
FullSave(p, row) ==
    /\ workspace[row.ws] # "purged"
    /\ project' = [project EXCEPT ![p] = row]

SaveKey(r) ==
    /\ request[r].kind = "key"
    /\ FullSave(request[r].project, [request[r].row EXCEPT !.keyed = TRUE])
    /\ End(r)
    /\ MembersUnchanged
    /\ UNCHANGED purge

\* update_project_name
AskRename(r, p, actor) ==
    /\ CanEdit(p, actor)
    /\ Begin(r, [kind |-> "rename", project |-> p, row |-> project[p]])
    /\ MembersUnchanged
    /\ UNCHANGED <<project, purge>>

SaveName(r) ==
    /\ request[r].kind = "rename"
    /\ FullSave(request[r].project, request[r].row)
    /\ End(r)
    /\ MembersUnchanged
    /\ UNCHANGED purge

\* project_delete
AskArchive(r, p, actor) ==
    /\ CanView(p, actor)
    /\ OwnsWorkspace(project[p].ws, actor)
    /\ Begin(r, [kind |-> "archive", project |-> p])
    /\ MembersUnchanged
    /\ UNCHANGED <<project, purge>>

ArchiveProject(r) ==
    /\ request[r].kind = "archive"
    /\ Stored(request[r].project)
    /\ project' = [project EXCEPT ![request[r].project].state = "archived"]
    /\ End(r)
    /\ MembersUnchanged
    /\ UNCHANGED purge

\* delete_workspace: refused while it has an active project; the archive follows unchecked.
AskDelete(r, w, actor) ==
    /\ CanOpenSettings(w, actor)
    /\ OwnsWorkspace(w, actor)
    /\ \A p \in Projects : project[p].ws = w => project[p].state # "active"
    /\ Begin(r, [kind |-> "delete", ws |-> w])
    /\ MembersUnchanged
    /\ UNCHANGED <<project, purge>>

ArchiveWorkspace(r) ==
    /\ request[r].kind = "delete"
    /\ workspace[request[r].ws] # "purged"
    /\ workspace' = [workspace EXCEPT ![request[r].ws] = "archived"]
    /\ End(r)
    /\ UNCHANGED <<membership, project, purge>>

\* create_first_workspace_project: one transaction.  The row locks it takes on the memberships of
\* the user lock nothing when there are none.
AskOnboarding(r, w, actor) ==
    /\ workspace[w] = "absent"
    /\ CanCreateWorkspace(actor)
    /\ \A v \in Workspaces : ~membership[v][actor].active
    /\ Begin(r, [kind |-> "onboard", ws |-> w, actor |-> actor])
    /\ MembersUnchanged
    /\ UNCHANGED <<project, purge>>

Onboard(r, p) ==
    /\ request[r].kind = "onboard"
    /\ CanCreateWorkspace(request[r].actor)
    /\ Founded(request[r].ws, request[r].actor)
    /\ project[p] = NoProject
    /\ project' = [project EXCEPT ![p] = [FirstSave(request[r].ws) EXCEPT !.keyed = TRUE]]
    /\ End(r)
    /\ UNCHANGED purge

\* restore_selected_projects
RestoreProject(p) ==
    /\ Stored(p)
    /\ project[p].state # "active"
    /\ project' = [project EXCEPT ![p].state = "active"]
    /\ AtOnce
    /\ MembersUnchanged
    /\ UNCHANGED <<request, purge>>

ExpireProject(p) ==
    /\ project[p].state = "archived"
    /\ \A r \in Requests : request[r] = Idle
    /\ project' = [project EXCEPT ![p].state = "expired"]
    /\ MembersUnchanged
    /\ UNCHANGED <<request, begun, purge>>

-----------------------------------------------------------------------------
(* purge_archived_entities: one transaction, visible at its end, without a *)
(* lock.  Its deletions name what its queries have selected, whatever has  *)
(* become of the rows.  A workspace is looked at and then deleted with     *)
(* what a query finds in it by then; a project that comes later still has  *)
(* the foreign key refuse the whole purge.                                 *)
(*                                                                         *)
(* Of a purge, ids are the projects it has found expired, workspaces those *)
(* still to be looked at, empty the one in which no project was found,     *)
(* gone the workspaces deleted and taken the projects deleted with them.   *)
(* came and late are history: the projects that were not in the workspace  *)
(* when it was looked at, and those of them that were deleted with it.     *)

Reading(step) ==
    /\ purge.step = step
    /\ MembersUnchanged
    /\ UNCHANGED <<project, request, begun>>

PurgeSelect ==
    /\ Reading("none")
    /\ \/ \E p \in Projects : project[p].state = "expired"
       \/ \E w \in Workspaces : workspace[w] = "expired"
    /\ purge' = [NoPurge EXCEPT !.step = "projects",
                              !.ids = {p \in Projects : project[p].state = "expired"}]

PurgeSelectWorkspaces ==
    /\ Reading("projects")
    /\ purge' = [purge EXCEPT !.step = "workspaces",
                            !.workspaces = {w \in Workspaces : workspace[w] = "expired"}]

Holds(w) == {p \in Projects : Stored(p) /\ project[p].ws = w}

\* Mutant of Left: the workspace takes its projects with it.
LeftBehind(w) == {}

\* The projects that keep a workspace.
Left(w) == Holds(w) \ purge.ids

\* The next workspace; one with a project is passed over.
PurgeLook(w) ==
    /\ Reading("workspaces")
    /\ purge.empty = NoWorkspace /\ w \in purge.workspaces
    /\ purge' = [purge EXCEPT !.workspaces = @ \ {w},
                            !.empty = IF Left(w) = {} THEN w ELSE NoWorkspace,
                            !.came = Projects \ Holds(w)]

\* workspace.delete() finds what belongs to it.
PurgeCollect ==
    /\ Reading("workspaces")
    /\ purge.empty # NoWorkspace
    /\ purge' = [purge EXCEPT !.empty = NoWorkspace,
                            !.gone = @ \cup {purge.empty},
                            !.taken = @ \cup Holds(purge.empty),
                            !.late = @ \cup (Holds(purge.empty) \cap purge.came)]

PurgeDelete ==
    /\ purge.step = "workspaces"
    /\ purge.empty = NoWorkspace /\ purge.workspaces = {}
    /\ LET deleted == purge.ids \cup purge.taken
       IN  /\ \A w \in purge.gone : Holds(w) \subseteq deleted
           \* with all that refers to them
           /\ workspace' = [w \in Workspaces |->
                  IF w \in purge.gone THEN "purged" ELSE workspace[w]]
           /\ membership' = [w \in Workspaces |->
                  IF w \in purge.gone THEN [u \in Users |-> NotAMember] ELSE membership[w]]
           /\ project' = [p \in Projects |->
                  IF Stored(p) /\ p \in deleted
                  THEN [project[p] EXCEPT !.state = "purged"]
                  ELSE project[p]]
    /\ purge' = NoPurge
    /\ UNCHANGED <<request, begun>>

\* Refused, or broken off at any point: nothing of it remains.
PurgeFails ==
    /\ purge # NoPurge
    /\ purge' = NoPurge
    /\ MembersUnchanged
    /\ UNCHANGED <<project, request, begun>>

ProjectsInit ==
    /\ project \in [Projects -> {NoProject} \cup
                                 {[FirstSave(w) EXCEPT !.keyed = TRUE] : w \in Workspaces}]
    /\ \A p \in Projects : project[p] # NoProject => workspace[project[p].ws] = "active"
    /\ purge = NoPurge

ProjectsStep ==
    \/ \E r \in Free, w \in Workspaces, actor \in Users :
        AskProject(r, w, actor) \/ AskDelete(r, w, actor) \/ AskOnboarding(r, w, actor)
    \/ \E r \in Free, p \in Projects, actor \in Users :
        AskRename(r, p, actor) \/ AskArchive(r, p, actor)
    \/ \E r \in Requests, p \in Projects : CreateProject(r, p) \/ Onboard(r, p)
    \/ \E r \in Requests :
        SaveKey(r) \/ SaveName(r) \/ ArchiveProject(r) \/ ArchiveWorkspace(r)
    \/ \E p \in Projects : RestoreProject(p) \/ ExpireProject(p)
    \/ \E w \in Workspaces : PurgeLook(w)
    \/ PurgeSelect \/ PurgeSelectWorkspaces \/ PurgeCollect \/ PurgeDelete \/ PurgeFails

-----------------------------------------------------------------------------
(* What must hold.                                                         *)

\* A project is deleted only when thirty days have passed since it was archived
\* and nobody has restored it, with two exceptions: a restore that comes between
\* the selection and the deletion of one purge, and a project that comes into its
\* workspace between the purge's look at it and the workspace's deletion.  In
\* particular no project that was there goes with its workspace.
PurgesOnlyExpired ==
    [][\A p \in Projects : Stored(p) /\ ~Stored(p)' =>
        project[p].state = "expired" \/ p \in purge.ids \/ p \in purge.late]_project
=============================================================================
