------------------------- MODULE WorkspaceMembers -------------------------
(***************************************************************************)
(* The members of workspaces and the requests that change them             *)
(* (apps/projects/access.py, services.py, views.py, models.py).            *)
(*                                                                         *)
(* A view decides on rows it has read without a lock; the change is one    *)
(* transaction later.  Removal and change of role then lock the workspace  *)
(* and the membership and look again, addition locks the membership only.  *)
(* "request" holds what each request in progress has read.  Two fields are *)
(* history: as, what gave the actor the right, and seen, the target's role *)
(* at that time.                                                           *)
(*                                                                         *)
(* Leaving (views.py:2065) is removing oneself.  What an administrator     *)
(* edits by hand in Django's admin is left out, but for the restore        *)
(* actions.                                                                *)
(***************************************************************************)
EXTENDS Integers, FiniteSets

CONSTANTS
    Users,          \* accounts, and addresses for which one can be created
    Superusers,     \* the administrators of the installation
    Workspaces,
    Requests,       \* slots: how many requests are in progress at once
    Starts,         \* bound: the roles that users have in a workspace at first, "none" of all of
                    \* them when it does not exist yet
    Asked(_),       \* bound: the requests that are made
    MaxRequests     \* bound on their number in a behaviour

Roles == {"owner", "admin", "member", "viewer"}

ASSUME MembersAssumption ==
    /\ Superusers \subseteq Users
    /\ IsFiniteSet(Users)
    /\ MaxRequests \in Nat
    /\ Starts \subseteq [Users -> Roles \cup {"none"}]
    /\ \A roles \in Starts : (\E u \in Users : roles[u] # "none") => \E u \in Users : roles[u] = "owner"

VARIABLES
    workspace,      \* absent, active, archived, expired (delete_after has passed) or purged
    membership,     \* projects_workspacemembership, by workspace and user
    request,        \* the requests in progress
    begun           \* how many have begun

NotAMember == [role |-> "none", active |-> FALSE]
Idle == [kind |-> "idle"]

-----------------------------------------------------------------------------
(* Who may do what (access.py).                                            *)

\* get_workspace_membership: the role of an active member of a workspace that is not archived.
Role(w, u) ==
    IF workspace[w] = "active" /\ membership[w][u].active THEN membership[w][u].role ELSE "none"

\* What a permission that superusers have too is granted for.
Standing(w, u) == IF u \in Superusers THEN "superuser" ELSE Role(w, u)

\* get_accessible_workspace_or_404
CanOpen(w, u) == workspace[w] = "active" /\ Standing(w, u) # "none"

\* _workspace_settings_access: viewers are denied, whoever they are.
CanOpenSettings(w, u) == CanOpen(w, u) /\ Role(w, u) # "viewer"

\* INVITABLE_ROLES_BY_ROLE
Invitable(role) ==
    CASE role = "owner" -> Roles
      [] role = "admin" -> Roles \ {"owner"}
      [] OTHER -> {}

ManagedByAdmins == Roles \ {"owner"}

Owners(w) == {u \in Users : membership[w][u].active /\ membership[w][u].role = "owner"}

\* is_last_owner, of any row: also of one that is no longer active.
IsLastOwner(w, u) == membership[w][u].role = "owner" /\ Cardinality(Owners(w)) <= 1

\* user_can_remove_workspace_member
CanRemove(w, actor, target) ==
    IF actor = target \/ Standing(w, actor) \in {"owner", "superuser"}
    THEN ~IsLastOwner(w, target)
    ELSE Role(w, actor) = "admin" /\ membership[w][target].role \in ManagedByAdmins

\* Mutant of CanAssign: the role that is asked for is not looked at.
CanAssignAny(w, actor, target, role) ==
    /\ role # "owner" => ~IsLastOwner(w, target)
    /\ \/ Standing(w, actor) \in {"owner", "superuser"}
       \/ Role(w, actor) = "admin" /\ membership[w][target].role \in ManagedByAdmins

\* user_can_assign_workspace_role
CanAssign(w, actor, target, role) ==
    /\ role # "owner" => ~IsLastOwner(w, target)
    /\ \/ Standing(w, actor) \in {"owner", "superuser"}
       \/ /\ Role(w, actor) = "admin"
          /\ {membership[w][target].role, role} \subseteq ManagedByAdmins

\* user_can_create_workspace
CanCreateWorkspace(u) == u \in Superusers \/ \E w \in Workspaces : Role(w, u) = "owner"

-----------------------------------------------------------------------------
(* Requests.                                                               *)

Begin(r, record) ==
    /\ Asked(record)
    /\ request' = [request EXCEPT ![r] = record]
    /\ begun' = begun + 1

End(r) == request' = [request EXCEPT ![r] = Idle] /\ UNCHANGED begun

\* The slots for another request.
Free == IF begun < MaxRequests THEN {r \in Requests : request[r] = Idle} ELSE {}

\* A change that needs no step of its own for its permission.
AtOnce == begun < MaxRequests /\ begun' = begun + 1

AskAdd(r, w, actor, target, role) ==
    /\ CanOpenSettings(w, actor)
    /\ role \in Invitable(Role(w, actor))       \* superusers who are not members: none
    /\ Begin(r, [kind |-> "add", ws |-> w, actor |-> actor, target |-> target, role |-> role,
                 as |-> Role(w, actor), seen |-> membership[w][target].role])
    /\ UNCHANGED <<workspace, membership>>

AskRemove(r, w, actor, target) ==
    /\ CanOpenSettings(w, actor)
    /\ membership[w][target] # NotAMember       \* any row of the workspace, active or not
    /\ CanRemove(w, actor, target)
    /\ Begin(r, [kind |-> "remove", ws |-> w, actor |-> actor, target |-> target,
                 as |-> Standing(w, actor), seen |-> membership[w][target].role])
    /\ UNCHANGED <<workspace, membership>>

AskRole(r, w, actor, target, role) ==
    /\ CanOpenSettings(w, actor)
    /\ membership[w][target] # NotAMember
    /\ CanAssign(w, actor, target, role)
    /\ Begin(r, [kind |-> "role", ws |-> w, actor |-> actor, target |-> target, role |-> role,
                 as |-> Standing(w, actor), seen |-> membership[w][target].role])
    /\ UNCHANGED <<workspace, membership>>

\* add_local_workspace_member: a new row, or the row of a former member with the role asked for
\* now.  An active member is refused.
AddMember(r) ==
    /\ request[r].kind = "add"
    /\ workspace[request[r].ws] # "purged"
    /\ membership' =
           IF membership[request[r].ws][request[r].target].active THEN membership
           ELSE [membership EXCEPT ![request[r].ws][request[r].target] =
                    [role |-> request[r].role, active |-> TRUE]]
    /\ End(r)
    /\ UNCHANGED workspace

\* Mutant of KeepsAnOwner: the owners are not counted again.
KeepsAnOwnerAsRead(w, target, role) == Owners(w) # {}

\* The check under the lock, by the role the row has now.
KeepsAnOwner(w, target, role) ==
    membership[w][target].role = "owner" /\ role # "owner" => Cardinality(Owners(w)) > 1

\* remove_workspace_member_safely
RemoveMember(r) ==
    /\ request[r].kind = "remove"
    /\ workspace[request[r].ws] # "purged"
    /\ membership' =
           IF KeepsAnOwner(request[r].ws, request[r].target, "none")
           THEN [membership EXCEPT ![request[r].ws][request[r].target] =
                    [role |-> @.role, active |-> FALSE]]
           ELSE membership
    /\ End(r)
    /\ UNCHANGED workspace

\* change_workspace_member_role_safely
ChangeRole(r) ==
    /\ request[r].kind = "role"
    /\ workspace[request[r].ws] # "purged"
    /\ membership' =
           IF KeepsAnOwner(request[r].ws, request[r].target, request[r].role)
           THEN [membership EXCEPT ![request[r].ws][request[r].target].role = request[r].role]
           ELSE membership
    /\ End(r)
    /\ UNCHANGED workspace

\* create_workspace_for_user asks again, what the view has asked, in the transaction that creates.
AskWorkspace(r, w, actor) ==
    /\ workspace[w] = "absent"
    /\ CanCreateWorkspace(actor)
    /\ Begin(r, [kind |-> "workspace", ws |-> w, actor |-> actor])
    /\ UNCHANGED <<workspace, membership>>

Founded(w, u) ==
    /\ workspace[w] = "absent"
    /\ workspace' = [workspace EXCEPT ![w] = "active"]
    /\ membership' = [membership EXCEPT ![w][u] = [role |-> "owner", active |-> TRUE]]

CreateWorkspace(r) ==
    /\ request[r].kind = "workspace"
    /\ CanCreateWorkspace(request[r].actor)
    /\ Founded(request[r].ws, request[r].actor)
    /\ End(r)

\* restore_selected_workspaces, an action of the admin.
RestoreWorkspace(w) ==
    /\ workspace[w] \notin {"absent", "purged"}
    /\ workspace' = [workspace EXCEPT ![w] = "active"]
    /\ AtOnce
    /\ UNCHANGED <<membership, request>>

\* Thirty days after it was archived; no request takes as long.
ExpireWorkspace(w) ==
    /\ workspace[w] = "archived"
    /\ \A r \in Requests : request[r] = Idle
    /\ workspace' = [workspace EXCEPT ![w] = "expired"]
    /\ UNCHANGED <<membership, request, begun>>

MembersInit ==
    /\ \E roles \in [Workspaces -> Starts] :
        /\ workspace = [w \in Workspaces |->
               IF \E u \in Users : roles[w][u] # "none" THEN "active" ELSE "absent"]
        /\ membership = [w \in Workspaces |-> [u \in Users |->
               [role |-> roles[w][u], active |-> roles[w][u] # "none"]]]
    /\ request = [r \in Requests |-> Idle]
    /\ begun = 0

MembersStep ==
    \/ \E r \in Free, w \in Workspaces, actor, target \in Users :
        \/ AskRemove(r, w, actor, target)
        \/ \E role \in Roles : AskAdd(r, w, actor, target, role) \/ AskRole(r, w, actor, target, role)
    \/ \E r \in Free, w \in Workspaces, actor \in Users : AskWorkspace(r, w, actor)
    \/ \E r \in Requests : AddMember(r) \/ RemoveMember(r) \/ ChangeRole(r) \/ CreateWorkspace(r)
    \/ \E w \in Workspaces : RestoreWorkspace(w) \/ ExpireWorkspace(w)

-----------------------------------------------------------------------------
(* What must hold.                                                         *)

\* A workspace always has an owner, whoever leaves, is removed or is given
\* another role at the same time as others: without one nobody but an
\* administrator of the installation could ever manage it again.
OwnerRemains == \A w \in Workspaces : workspace[w] \notin {"absent", "purged"} => Owners(w) # {}

Commits(r, w, u, kinds) ==
    /\ request[r].kind \in kinds
    /\ request[r].ws = w
    /\ request[r].target = u
    /\ request'[r] = Idle

MadeByOwner(w, u) ==
    \E r \in Requests :
        Commits(r, w, u, {"add", "role"}) /\ request[r].as \in {"owner", "superuser"}

UndoneByOwner(w, u) ==
    \E r \in Requests :
        /\ Commits(r, w, u, {"remove", "role"})
        /\ \/ request[r].actor = u
           \/ request[r].as \in {"owner", "superuser"}
           \/ request[r].seen # "owner"
=============================================================================
