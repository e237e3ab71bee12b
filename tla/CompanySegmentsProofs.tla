------------------------ MODULE CompanySegmentsProofs ------------------------
(***************************************************************************)
(* Every workspace keeps an owner, ownership changes by the act of an      *)
(* owner or a superuser only, only expired projects are purged, the review *)
(* flags of the segments come true, and pages apply whole segments after   *)
(* two redirects at the most: for any users, workspaces, projects,         *)
(* segments, attributes and number of requests.                            *)
(*                                                                         *)
(* A request acts on what its view has found some time before.  The        *)
(* invariants say what is left of that: as whom the actor was let through, *)
(* that the row to be saved is of a project in use, which segment it saw.  *)
(* Who is owner by then is not in it, which is why removal and change of   *)
(* role have to count again.                                               *)
(***************************************************************************)
EXTENDS CompanySegments, FiniteSetTheorems, TLAPS

WorkspaceStates == {"absent", "active", "archived", "expired", "purged"}

MembersTyped ==
    /\ workspace \in [Workspaces -> WorkspaceStates]
    /\ membership \in [Workspaces -> [Users -> [role : Roles \cup {"none"}, active : BOOLEAN]]]

Rows == [ws : Workspaces \cup {NoWorkspace}, state : ProjectStates, keyed : BOOLEAN, revision : Nat]

ProjectsTyped == project \in [Projects -> Rows]

PurgeTyped ==
    purge = [step |-> purge.step, ids |-> purge.ids, workspaces |-> purge.workspaces,
             empty |-> purge.empty, gone |-> purge.gone, taken |-> purge.taken,
             came |-> purge.came, late |-> purge.late]

\* What a purge deletes it has found expired, or it has come into an empty workspace.
PurgeSound ==
    /\ PurgeTyped
    /\ purge.empty # NoWorkspace => Projects \subseteq purge.ids \cup purge.came
    /\ purge.taken \subseteq purge.ids \cup purge.late

\* The kinds of requests of which nothing has to be known.
Harmless == {"idle", "archive", "segment", "page"}

OnMember(q) == q.kind \in {"add", "remove", "role"} => q.ws \in Workspaces /\ q.target \in Users

ByRight(q) ==
    /\ q.kind \in {"add", "role"} =>
        q.role \in Roles /\ (q.role = "owner" => q.as \in {"owner", "superuser"})
    /\ q.kind \in {"remove", "role"} =>
        q.actor = q.target \/ q.as \in {"owner", "superuser"} \/ q.seen # "owner"

Founds(q) == q.kind \in {"workspace", "onboard"} => q.ws \in Workspaces /\ q.actor \in Users

Archives(q) == q.kind = "delete" => q.ws \in Workspaces /\ workspace[q.ws] # "absent"

Creates(q) == q.kind = "create" => q.ws \in Workspaces

Saves(q) == q.kind \in {"key", "rename"} => q.row \in Rows /\ q.row.state = "active"

Sound(q) ==
    /\ "kind" \in DOMAIN q
    /\ OnMember(q) /\ ByRight(q) /\ Founds(q) /\ Archives(q) /\ Creates(q) /\ Saves(q)

RequestsSound ==
    /\ request = [r \in Requests |-> request[r]]
    /\ \A r \in Requests : Sound(request[r])

IInv == MembersTyped /\ ProjectsTyped /\ PurgeSound /\ RequestsSound /\ OwnerRemains

-----------------------------------------------------------------------------
(* Owners.                                                                 *)

LEMMA AnotherOwner ==
    ASSUME NEW w, NEW u, Cardinality(Owners(w)) > 1
    PROVE  \E v \in Owners(w) : v # u
<1>1. IsFiniteSet(Owners(w))
    BY MembersAssumption, FS_Subset DEF Owners
<1>2. SUFFICES ASSUME Owners(w) \subseteq {u} PROVE FALSE
    OBVIOUS
<1>3. IsFiniteSet({u}) /\ Cardinality({u}) = 1
    BY FS_Singleton
<1>4. Cardinality(Owners(w)) <= 1 /\ Cardinality(Owners(w)) \in Nat
    BY <1>1, <1>2, <1>3, FS_Subset, FS_CardinalityType
<1>. QED
    BY <1>4

\* A step that changes one member of one workspace.
LEMMA OneMember ==
    ASSUME MembersTyped, OwnerRemains, UNCHANGED workspace,
           NEW w \in Workspaces, NEW u \in Users,
           NEW row \in [role : Roles \cup {"none"}, active : BOOLEAN],
           membership' = [membership EXCEPT ![w][u] = row],
           u \in Owners(w) /\ (row.role # "owner" \/ ~row.active) => Cardinality(Owners(w)) > 1
    PROVE  MembersTyped' /\ OwnerRemains'
<1>1. MembersTyped'
    BY DEF MembersTyped
<1>2. ASSUME NEW v \in Workspaces, workspace[v] \notin {"absent", "purged"}
      PROVE  Owners(v)' # {}
    <2>1. PICK o \in Owners(v) : TRUE
        BY <1>2 DEF OwnerRemains
    <2>2. CASE v = w /\ o = u
        <3>1. CASE row.role = "owner" /\ row.active
            BY <2>2, <3>1 DEF Owners, MembersTyped
        <3>2. CASE row.role # "owner" \/ ~row.active
            <4>1. PICK x \in Owners(w) : x # u
                BY <2>1, <2>2, <3>2, AnotherOwner
            <4>2. x \in Owners(w)'
                BY <4>1 DEF Owners, MembersTyped
            <4>. QED
                BY <4>2, <2>2
        <3>. QED
            BY <3>1, <3>2
    <2>3. CASE ~(v = w /\ o = u)
        <3>1. membership'[v][o] = membership[v][o]
            BY <2>1, <2>3 DEF Owners, MembersTyped
        <3>. QED
            BY <2>1, <3>1 DEF Owners
    <2>. QED
        BY <2>2, <2>3
<1>. QED
    BY <1>1, <1>2 DEF OwnerRemains

\* A step that changes no member and makes no workspace of one that is absent.
LEMMA SameMembers ==
    ASSUME MembersTyped, OwnerRemains, UNCHANGED membership,
           workspace' \in [Workspaces -> WorkspaceStates],
           \A w \in Workspaces :
               workspace[w] \in {"absent", "purged"} => workspace'[w] \in {"absent", "purged"}
    PROVE  MembersTyped' /\ OwnerRemains'
<1>1. \A w \in Workspaces : Owners(w)' = Owners(w)
    BY DEF Owners
<1>. QED
    BY <1>1 DEF MembersTyped, OwnerRemains

LEMMA Foundation ==
    ASSUME MembersTyped, OwnerRemains, NEW w \in Workspaces, NEW u \in Users, Founded(w, u)
    PROVE  MembersTyped' /\ OwnerRemains'
<1>1. MembersTyped'
    BY DEF MembersTyped, Founded, WorkspaceStates, Roles
<1>2. u \in Owners(w)'
    BY DEF MembersTyped, Founded, Owners
<1>3. \A v \in Workspaces \ {w} : workspace'[v] = workspace[v] /\ Owners(v)' = Owners(v)
    BY DEF MembersTyped, Founded, Owners
<1>. QED
    BY <1>1, <1>2, <1>3 DEF OwnerRemains

-----------------------------------------------------------------------------
(* Requests.                                                               *)

\* No step makes a workspace absent, so what holds of a request stays.
LEMMA RequestsStay ==
    ASSUME RequestsSound,
           \A w \in Workspaces : workspace[w] # "absent" => workspace'[w] # "absent",
           request' = [r \in Requests |-> request'[r]],
           \A r \in Requests :
               \/ request'[r] = request[r]
               \/ ("kind" \in DOMAIN request'[r] /\ request'[r].kind \in Harmless)
               \/ Sound(request[r])'
    PROVE  RequestsSound'
<1>1. SUFFICES ASSUME NEW r \in Requests PROVE Sound(request[r])'
    BY DEF RequestsSound
<1>2. CASE request'[r] = request[r]
    BY <1>2 DEF RequestsSound, Sound, OnMember, ByRight, Founds, Archives, Creates, Saves
<1>3. CASE "kind" \in DOMAIN request'[r] /\ request'[r].kind \in Harmless
    BY <1>3 DEF Harmless, Sound, OnMember, ByRight, Founds, Archives, Creates, Saves
<1>. QED
    BY <1>2, <1>3

LEMMA Begun ==
    ASSUME RequestsSound, UNCHANGED workspace, NEW r \in Requests, NEW q, Begin(r, q), Sound(q)
    PROVE  RequestsSound'
<1>1. request' = [request EXCEPT ![r] = q]
    BY DEF Begin
<1>2. Sound(request[r])'
    BY <1>1 DEF RequestsSound, Sound, OnMember, ByRight, Founds, Archives, Creates, Saves
<1>. QED
    BY <1>1, <1>2, RequestsStay DEF RequestsSound

LEMMA Ended ==
    ASSUME RequestsSound,
           \A w \in Workspaces : workspace[w] # "absent" => workspace'[w] # "absent",
           NEW r \in Requests, End(r)
    PROVE  RequestsSound'
BY RequestsStay DEF RequestsSound, End, Idle, Harmless

\* A request that only reads, or only stores what no member and no project depends on.
LEMMA Harmlessly ==
    ASSUME RequestsSound, UNCHANGED workspace,
           request' = [r \in Requests |-> request'[r]],
           \A r \in Requests :
               \/ request'[r] = request[r]
               \/ ("kind" \in DOMAIN request'[r] /\ request'[r].kind \in Harmless)
    PROVE  RequestsSound'
BY RequestsStay

-----------------------------------------------------------------------------
LEMMA FirstSaveTyped == ASSUME NEW w \in Workspaces
                        PROVE  FirstSave(w) \in Rows /\ FirstSave(w).state = "active"
                               /\ [FirstSave(w) EXCEPT !.keyed = TRUE] \in Rows
                               /\ [FirstSave(w) EXCEPT !.keyed = TRUE].state = "active"
BY DEF FirstSave, Rows, ProjectStates

LEMMA InitSound == Init => IInv
<1>. SUFFICES ASSUME Init PROVE IInv
    OBVIOUS
<1>1. PICK roles \in [Workspaces -> Starts] :
        /\ workspace = [w \in Workspaces |->
               IF \E u \in Users : roles[w][u] # "none" THEN "active" ELSE "absent"]
        /\ membership = [w \in Workspaces |-> [u \in Users |->
               [role |-> roles[w][u], active |-> roles[w][u] # "none"]]]
    BY DEF Init, MembersInit
<1>2. MembersTyped
    BY <1>1, MembersAssumption DEF MembersTyped, WorkspaceStates
<1>3. OwnerRemains
    <2>1. SUFFICES ASSUME NEW w \in Workspaces, workspace[w] # "absent" PROVE Owners(w) # {}
        BY DEF OwnerRemains
    <2>2. roles[w] \in Starts /\ \E u \in Users : roles[w][u] # "none"
        BY <1>1, <2>1
    <2>3. PICK u \in Users : roles[w][u] = "owner"
        BY <2>2, MembersAssumption
    <2>4. u \in Owners(w)
        BY <1>1, <2>3 DEF Owners
    <2>. QED
        BY <2>4
<1>4. RequestsSound
    BY DEF Init, MembersInit, Idle, RequestsSound, Sound, OnMember, ByRight, Founds, Archives, Creates, Saves
<1>5. ProjectsTyped
    <2>1. NoProject \in Rows
        BY DEF NoProject, Rows, ProjectStates
    <2>2. \A w \in Workspaces : [FirstSave(w) EXCEPT !.keyed = TRUE] \in Rows
        BY FirstSaveTyped
    <2>. QED
        BY <2>1, <2>2 DEF Init, ProjectsInit, ProjectsTyped
<1>6. PurgeSound
    BY DEF Init, ProjectsInit, NoPurge, PurgeSound, PurgeTyped
<1>. QED
    BY <1>2, <1>3, <1>4, <1>5, <1>6 DEF IInv

-----------------------------------------------------------------------------
(* Steps.                                                                  *)

OwnersStep ==
    \A w \in Workspaces, u \in Users :
        /\ u \notin Owners(w) /\ u \in Owners(w)' => workspace[w] = "absent" \/ MadeByOwner(w, u)
        /\ u \in Owners(w) /\ u \notin Owners(w)' =>
            workspace'[w] = "purged" \/ UndoneByOwner(w, u)

PurgeStep ==
    \A p \in Projects : Stored(p) /\ ~Stored(p)' =>
        project[p].state = "expired" \/ p \in purge.ids \/ p \in purge.late

SoundStep == MembersTyped' /\ RequestsSound' /\ OwnerRemains' /\ OwnersStep

LEMMA NoMemberChanged ==
    ASSUME IInv, UNCHANGED <<workspace, membership>>, RequestsSound'
    PROVE  SoundStep
<1>1. \A w \in Workspaces : Owners(w)' = Owners(w)
    BY DEF Owners
<1>. QED
    BY <1>1, SameMembers DEF SoundStep, IInv, OwnersStep, MembersTyped

\* The step of a request that changes one member.
LEMMA OneMemberChanged ==
    ASSUME IInv, UNCHANGED workspace, NEW r \in Requests, End(r),
           NEW w \in Workspaces, NEW u \in Users, request[r].ws = w, request[r].target = u,
           NEW row \in [role : Roles \cup {"none"}, active : BOOLEAN],
           membership' = [membership EXCEPT ![w][u] = row],
           u \in Owners(w) /\ (row.role # "owner" \/ ~row.active) =>
               /\ Cardinality(Owners(w)) > 1
               /\ request[r].kind \in {"remove", "role"},
           u \notin Owners(w) /\ row.role = "owner" /\ row.active =>
               request[r].kind \in {"add", "role"} /\ request[r].as \in {"owner", "superuser"},
           request[r].kind = "role" => row.role = request[r].role
    PROVE  SoundStep
<1>1. MembersTyped' /\ OwnerRemains'
    BY OneMember DEF IInv
<1>2. RequestsSound' /\ request'[r] = Idle
    BY Ended DEF IInv, End, RequestsSound
<1>3. OwnersStep
    <2>1. SUFFICES ASSUME NEW v \in Workspaces, NEW x \in Users
                   PROVE  /\ x \notin Owners(v) /\ x \in Owners(v)' => MadeByOwner(v, x)
                          /\ x \in Owners(v) /\ x \notin Owners(v)' => UndoneByOwner(v, x)
        BY DEF OwnersStep
    <2>2. CASE v = w /\ x = u
        <3>1. x \in Owners(v)' <=> row.role = "owner" /\ row.active
            BY <2>2 DEF Owners, IInv, MembersTyped
        <3>2. ASSUME x \notin Owners(v), x \in Owners(v)' PROVE MadeByOwner(v, x)
            BY <1>2, <2>2, <3>1, <3>2 DEF MadeByOwner, Commits
        <3>3. ASSUME x \in Owners(v), x \notin Owners(v)' PROVE UndoneByOwner(v, x)
            BY <1>2, <2>2, <3>1, <3>3
            DEF UndoneByOwner, Commits, IInv, RequestsSound, Sound, ByRight
        <3>. QED
            BY <3>2, <3>3
    <2>3. CASE ~(v = w /\ x = u)
        <3>1. membership'[v][x] = membership[v][x]
            BY <2>3 DEF IInv, MembersTyped
        <3>. QED
            BY <3>1 DEF Owners
    <2>. QED
        BY <2>2, <2>3
<1>. QED
    BY <1>1, <1>2, <1>3 DEF IInv, SoundStep

LEMMA SameOwners ==
    ASSUME IInv, NEW r \in Requests, End(r), UNCHANGED <<workspace, membership>>
    PROVE  SoundStep
BY Ended, NoMemberChanged DEF IInv

LEMMA AddMemberSound == ASSUME IInv, NEW r \in Requests, AddMember(r) PROVE SoundStep
<1>1. request[r].kind = "add" /\ End(r) /\ UNCHANGED workspace /\ Sound(request[r])
    BY DEF AddMember, IInv, RequestsSound
<1>. DEFINE w == request[r].ws
            u == request[r].target
<1>2. w \in Workspaces /\ u \in Users /\ request[r].role \in Roles
      /\ (request[r].role = "owner" => request[r].as \in {"owner", "superuser"})
    BY <1>1 DEF Sound, OnMember, ByRight
<1>3. CASE membership[w][u].active
    BY <1>1, <1>3, SameOwners DEF AddMember
<1>4. CASE ~membership[w][u].active
    <2>. DEFINE row == [role |-> request[r].role, active |-> TRUE]
    <2>1. u \notin Owners(w)
        BY <1>4 DEF Owners
    <2>2. membership' = [membership EXCEPT ![w][u] = row]
        BY <1>4 DEF AddMember
    <2>3. row \in [role : Roles \cup {"none"}, active : BOOLEAN] /\ row.role = request[r].role
        BY <1>2
    <2>. HIDE DEF w, u, row
    <2>. QED
        BY <1>1, <1>2, <2>1, <2>2, <2>3, OneMemberChanged DEF w, u
<1>. QED
    BY <1>3, <1>4

LEMMA RemoveMemberSound == ASSUME IInv, NEW r \in Requests, RemoveMember(r) PROVE SoundStep
<1>1. request[r].kind = "remove" /\ End(r) /\ UNCHANGED workspace /\ Sound(request[r])
    BY DEF RemoveMember, IInv, RequestsSound
<1>. DEFINE w == request[r].ws
            u == request[r].target
<1>2. w \in Workspaces /\ u \in Users
    BY <1>1 DEF Sound, OnMember
<1>3. CASE ~KeepsAnOwner(w, u, "none")
    BY <1>1, <1>3, SameOwners DEF RemoveMember
<1>4. CASE KeepsAnOwner(w, u, "none")
    <2>. DEFINE row == [role |-> membership[w][u].role, active |-> FALSE]
    <2>1. row \in [role : Roles \cup {"none"}, active : BOOLEAN]
        BY <1>2 DEF IInv, MembersTyped
    <2>2. membership' = [membership EXCEPT ![w][u] = row]
        BY <1>4 DEF RemoveMember
    <2>3. u \in Owners(w) => Cardinality(Owners(w)) > 1
        BY <1>4 DEF KeepsAnOwner, Owners
    <2>4. ~row.active
        OBVIOUS
    <2>. HIDE DEF w, u, row
    <2>. QED
        BY <1>1, <1>2, <2>1, <2>2, <2>3, <2>4, OneMemberChanged DEF w, u
<1>. QED
    BY <1>3, <1>4

LEMMA ChangeRoleSound == ASSUME IInv, NEW r \in Requests, ChangeRole(r) PROVE SoundStep
<1>1. request[r].kind = "role" /\ End(r) /\ UNCHANGED workspace /\ Sound(request[r])
    BY DEF ChangeRole, IInv, RequestsSound
<1>. DEFINE w == request[r].ws
            u == request[r].target
<1>2. w \in Workspaces /\ u \in Users /\ request[r].role \in Roles
      /\ (request[r].role = "owner" => request[r].as \in {"owner", "superuser"})
    BY <1>1 DEF Sound, OnMember, ByRight
<1>3. CASE ~KeepsAnOwner(w, u, request[r].role)
    BY <1>1, <1>3, SameOwners DEF ChangeRole
<1>4. CASE KeepsAnOwner(w, u, request[r].role)
    <2>. DEFINE row == [role |-> request[r].role, active |-> membership[w][u].active]
    <2>1. row \in [role : Roles \cup {"none"}, active : BOOLEAN]
        BY <1>2 DEF IInv, MembersTyped
    <2>2. membership' = [membership EXCEPT ![w][u] = row]
        <3>1. membership[w][u] \in [role : Roles \cup {"none"}, active : BOOLEAN]
            BY <1>2 DEF IInv, MembersTyped
        <3>2. [membership[w][u] EXCEPT !.role = request[r].role] = row
            BY <3>1
        <3>3. membership' = [membership EXCEPT ![w][u] = [membership[w][u] EXCEPT !.role = request[r].role]]
            BY <1>4 DEF ChangeRole
        <3>. QED
            BY <3>2, <3>3
    <2>3. u \in Owners(w) /\ (row.role # "owner" \/ ~row.active) => Cardinality(Owners(w)) > 1
        BY <1>4 DEF KeepsAnOwner, Owners
    <2>4. row.role = request[r].role
        OBVIOUS
    <2>5. u \notin Owners(w) /\ row.role = "owner" /\ row.active =>
              request[r].as \in {"owner", "superuser"}
        BY <1>2
    <2>. HIDE DEF w, u, row
    <2>. QED
        BY <1>1, <1>2, <2>1, <2>2, <2>3, <2>4, <2>5, OneMemberChanged DEF w, u
<1>. QED
    BY <1>3, <1>4

LEMMA FoundedSound ==
    ASSUME IInv, NEW r \in Requests, request[r].kind \in {"workspace", "onboard"}, End(r),
           Founded(request[r].ws, request[r].actor)
    PROVE  SoundStep
<1>. DEFINE w == request[r].ws
<1>1. w \in Workspaces /\ request[r].actor \in Users
    BY DEF IInv, RequestsSound, Sound, Founds
<1>2. MembersTyped' /\ OwnerRemains'
    BY <1>1, Foundation DEF IInv
<1>3. RequestsSound'
    BY <1>1, Ended DEF IInv, MembersTyped, Founded
<1>4. OwnersStep
    <2>1. SUFFICES ASSUME NEW v \in Workspaces, NEW x \in Users
                   PROVE  /\ x \notin Owners(v) /\ x \in Owners(v)' => workspace[v] = "absent"
                          /\ x \in Owners(v) => x \in Owners(v)'
        BY DEF OwnersStep
    <2>2. CASE v = w /\ x = request[r].actor
        BY <1>1, <2>2 DEF IInv, MembersTyped, Founded, Owners
    <2>3. CASE ~(v = w /\ x = request[r].actor)
        <3>1. membership'[v][x] = membership[v][x]
            BY <1>1, <2>3 DEF IInv, MembersTyped, Founded
        <3>. QED
            BY <3>1 DEF Owners
    <2>. QED
        BY <2>2, <2>3
<1>. QED
    BY <1>2, <1>3, <1>4 DEF IInv, SoundStep

LEMMA MembersStepSound == ASSUME IInv, MembersStep PROVE SoundStep
<1>1. ASSUME NEW r \in Free, NEW w \in Workspaces, NEW actor \in Users, NEW target \in Users,
             AskRemove(r, w, actor, target)
      PROVE  SoundStep
    <2>1. CanRemove(w, actor, target)
        BY <1>1 DEF AskRemove
    <2>2. actor = target \/ Standing(w, actor) \in {"owner", "superuser"}
          \/ membership[w][target].role # "owner"
        BY <2>1 DEF CanRemove, ManagedByAdmins
    <2>. DEFINE q == [kind |-> "remove", ws |-> w, actor |-> actor, target |-> target,
                      as |-> Standing(w, actor), seen |-> membership[w][target].role]
    <2>3. Sound(q)
        BY <2>2 DEF Sound, OnMember, ByRight, Founds, Archives, Creates, Saves
    <2>4. Begin(r, q) /\ UNCHANGED <<workspace, membership>>
        BY <1>1 DEF AskRemove
    <2>. QED
        BY <2>3, <2>4, Begun, NoMemberChanged DEF IInv, Free
<1>2. ASSUME NEW r \in Free, NEW w \in Workspaces, NEW actor \in Users, NEW target \in Users,
             NEW role \in Roles, AskAdd(r, w, actor, target, role)
      PROVE  SoundStep
    <2>1. role = "owner" => Role(w, actor) = "owner"
        BY <1>2 DEF AskAdd, Invitable
    <2>. DEFINE q == [kind |-> "add", ws |-> w, actor |-> actor, target |-> target, role |-> role,
                      as |-> Role(w, actor), seen |-> membership[w][target].role]
    <2>2. Sound(q)
        BY <2>1 DEF Sound, OnMember, ByRight, Founds, Archives, Creates, Saves
    <2>3. Begin(r, q) /\ UNCHANGED <<workspace, membership>>
        BY <1>2 DEF AskAdd
    <2>. QED
        BY <2>2, <2>3, Begun, NoMemberChanged DEF IInv, Free
<1>3. ASSUME NEW r \in Free, NEW w \in Workspaces, NEW actor \in Users, NEW target \in Users,
             NEW role \in Roles, AskRole(r, w, actor, target, role)
      PROVE  SoundStep
    <2>1. CanAssign(w, actor, target, role)
        BY <1>3 DEF AskRole
    <2>2. Standing(w, actor) \in {"owner", "superuser"}
          \/ (role # "owner" /\ membership[w][target].role # "owner")
        <3>1. "owner" \notin ManagedByAdmins
            BY DEF ManagedByAdmins
        <3>. QED
            BY <2>1, <3>1 DEF CanAssign
    <2>. DEFINE q == [kind |-> "role", ws |-> w, actor |-> actor, target |-> target, role |-> role,
                      as |-> Standing(w, actor), seen |-> membership[w][target].role]
    <2>3. Sound(q)
        BY <2>2 DEF Sound, OnMember, ByRight, Founds, Archives, Creates, Saves
    <2>4. Begin(r, q) /\ UNCHANGED <<workspace, membership>>
        BY <1>3 DEF AskRole
    <2>. QED
        BY <2>3, <2>4, Begun, NoMemberChanged DEF IInv, Free
<1>4. ASSUME NEW r \in Free, NEW w \in Workspaces, NEW actor \in Users, AskWorkspace(r, w, actor)
      PROVE  SoundStep
    <2>1. Sound([kind |-> "workspace", ws |-> w, actor |-> actor])
        BY DEF Sound, OnMember, ByRight, Founds, Archives, Creates, Saves
    <2>. QED
        BY <1>4, <2>1, Begun, NoMemberChanged DEF AskWorkspace, IInv, Free
<1>5. ASSUME NEW r \in Requests, CreateWorkspace(r) PROVE SoundStep
    BY <1>5, FoundedSound DEF CreateWorkspace
<1>6. ASSUME NEW w \in Workspaces, RestoreWorkspace(w) \/ ExpireWorkspace(w) PROVE SoundStep
    <2>1. /\ UNCHANGED <<membership, request>>
          /\ workspace' \in [Workspaces -> WorkspaceStates]
          /\ \A v \in Workspaces :
                 /\ workspace[v] \in {"absent", "purged"} => workspace'[v] = workspace[v]
                 /\ workspace[v] # "absent" => workspace'[v] # "absent"
        BY <1>6 DEF RestoreWorkspace, ExpireWorkspace, IInv, MembersTyped, WorkspaceStates
    <2>2. RequestsSound'
        BY <2>1, RequestsStay DEF IInv, RequestsSound
    <2>3. \A v \in Workspaces : Owners(v)' = Owners(v)
        BY <2>1 DEF Owners
    <2>. QED
        BY <2>1, <2>2, <2>3, SameMembers DEF IInv, SoundStep, OwnersStep
<1>. QED
    BY <1>1, <1>2, <1>3, <1>4, <1>5, <1>6, AddMemberSound, RemoveMemberSound, ChangeRoleSound
    DEF MembersStep

-----------------------------------------------------------------------------
(* Projects.                                                               *)

ProjectsSound == ProjectsTyped' /\ PurgeStep

LEMMA SameProjects == ASSUME IInv, UNCHANGED project PROVE ProjectsSound
BY DEF IInv, ProjectsTyped, ProjectsSound, PurgeStep, Stored

LEMMA OneProject ==
    ASSUME IInv, NEW p, NEW row \in Rows, project' = [project EXCEPT ![p] = row],
           p \in Projects => ~Stored(p) \/ row.state \notin {"absent", "purged"}
    PROVE  ProjectsSound
<1>1. ProjectsTyped'
    BY DEF IInv, ProjectsTyped
<1>2. ASSUME NEW x \in Projects, Stored(x), ~Stored(x)' PROVE FALSE
    BY <1>2 DEF Stored, IInv, ProjectsTyped
<1>. QED
    BY <1>1, <1>2 DEF ProjectsSound, PurgeStep

LEMMA ProjectAsked ==
    ASSUME IInv, UNCHANGED <<workspace, membership, project>>,
           NEW r \in Requests, NEW q, Begin(r, q), Sound(q)
    PROVE  SoundStep /\ ProjectsSound
BY Begun, NoMemberChanged, SameProjects DEF IInv

LEMMA PurgeDeleteSound == ASSUME IInv, PurgeDelete PROVE SoundStep /\ ProjectsSound
<1>. DEFINE gone == purge.gone
            deleted == purge.ids \cup purge.taken
<1>1. /\ workspace' = [w \in Workspaces |-> IF w \in gone THEN "purged" ELSE workspace[w]]
      /\ membership' = [w \in Workspaces |->
             IF w \in gone THEN [u \in Users |-> NotAMember] ELSE membership[w]]
      /\ project' = [p \in Projects |->
             IF Stored(p) /\ p \in deleted
             THEN [project[p] EXCEPT !.state = "purged"] ELSE project[p]]
      /\ UNCHANGED request
    BY DEF PurgeDelete
<1>2. MembersTyped'
    BY <1>1 DEF IInv, MembersTyped, WorkspaceStates, NotAMember
<1>3. \A w \in Workspaces \ gone : workspace'[w] = workspace[w] /\ Owners(w)' = Owners(w)
    BY <1>1 DEF Owners
<1>4. \A w \in Workspaces \cap gone : workspace'[w] = "purged"
    BY <1>1
<1>5. OwnerRemains' /\ OwnersStep
    <2>1. \A w \in Workspaces \cap gone : Owners(w)' = {}
        BY <1>1 DEF Owners, NotAMember
    <2>. HIDE DEF gone, deleted
    <2>. QED
        BY <1>3, <1>4, <2>1 DEF IInv, OwnerRemains, OwnersStep
<1>6. RequestsSound'
    BY <1>1, <1>3, <1>4, RequestsStay DEF IInv, RequestsSound
<1>7. ProjectsTyped'
    BY <1>1 DEF IInv, ProjectsTyped, Rows, ProjectStates
<1>8. PurgeStep
    <2>1. SUFFICES ASSUME NEW p \in Projects, Stored(p), ~Stored(p)'
                   PROVE  p \in purge.ids \/ p \in purge.late
        BY DEF PurgeStep
    <2>2. p \in deleted
        BY <1>1, <2>1 DEF Stored
    <2>. QED
        BY <2>2 DEF IInv, PurgeSound
<1>. QED
    BY <1>2, <1>5, <1>6, <1>7, <1>8 DEF SoundStep, ProjectsSound

LEMMA ProjectsStepSound == ASSUME IInv, ProjectsStep PROVE SoundStep /\ ProjectsSound
<1>1. ASSUME NEW r \in Free, NEW w \in Workspaces, NEW actor \in Users,
             AskProject(r, w, actor) \/ AskDelete(r, w, actor) \/ AskOnboarding(r, w, actor)
      PROVE  SoundStep /\ ProjectsSound
    <2>1. CASE AskProject(r, w, actor)
        <3>1. Sound([kind |-> "create", ws |-> w])
            BY DEF Sound, OnMember, ByRight, Founds, Archives, Creates, Saves
        <3>. QED
            BY <2>1, <3>1, ProjectAsked DEF AskProject, MembersUnchanged, Free
    <2>2. CASE AskDelete(r, w, actor)
        <3>1. workspace[w] # "absent"
            BY <2>2 DEF AskDelete, CanOpenSettings, CanOpen
        <3>2. Sound([kind |-> "delete", ws |-> w])
            BY <3>1 DEF Sound, OnMember, ByRight, Founds, Archives, Creates, Saves
        <3>. QED
            BY <2>2, <3>2, ProjectAsked DEF AskDelete, MembersUnchanged, Free
    <2>3. CASE AskOnboarding(r, w, actor)
        <3>1. Sound([kind |-> "onboard", ws |-> w, actor |-> actor])
            BY DEF Sound, OnMember, ByRight, Founds, Archives, Creates, Saves
        <3>. QED
            BY <2>3, <3>1, ProjectAsked DEF AskOnboarding, MembersUnchanged, Free
    <2>. QED
        BY <1>1, <2>1, <2>2, <2>3
<1>2. ASSUME NEW r \in Free, NEW p \in Projects, NEW actor \in Users,
             AskRename(r, p, actor) \/ AskArchive(r, p, actor)
      PROVE  SoundStep /\ ProjectsSound
    <2>1. CASE AskRename(r, p, actor)
        <3>1. project[p] \in Rows /\ project[p].state = "active"
            BY <2>1 DEF AskRename, CanEdit, CanView, IInv, ProjectsTyped
        <3>2. Sound([kind |-> "rename", project |-> p, row |-> project[p]])
            BY <3>1 DEF Sound, OnMember, ByRight, Founds, Archives, Creates, Saves
        <3>. QED
            BY <2>1, <3>2, ProjectAsked DEF AskRename, MembersUnchanged, Free
    <2>2. CASE AskArchive(r, p, actor)
        <3>1. Sound([kind |-> "archive", project |-> p])
            BY DEF Sound, OnMember, ByRight, Founds, Archives, Creates, Saves
        <3>. QED
            BY <2>2, <3>1, ProjectAsked DEF AskArchive, MembersUnchanged, Free
    <2>. QED
        BY <1>2, <2>1, <2>2
<1>3. ASSUME NEW r \in Requests, NEW p \in Projects, CreateProject(r, p)
      PROVE  SoundStep /\ ProjectsSound
    <2>. DEFINE row == FirstSave(request[r].ws)
                q   == [kind |-> "key", project |-> p, row |-> row]
    <2>1. request[r].ws \in Workspaces
        BY <1>3 DEF CreateProject, IInv, RequestsSound, Sound, Creates
    <2>2. row \in Rows /\ row.state = "active"
        BY <2>1, FirstSaveTyped
    <2>3. /\ UNCHANGED <<workspace, membership>>
          /\ project' = [project EXCEPT ![p] = row]
          /\ request' = [request EXCEPT ![r] = q]
        BY <1>3 DEF CreateProject, MembersUnchanged
    <2>. HIDE DEF row
    <2>4. Sound(request[r])'
        BY <2>2, <2>3 DEF IInv, RequestsSound, Sound, OnMember, ByRight, Founds, Archives, Creates, Saves
    <2>5. RequestsSound'
        BY <2>3, <2>4, RequestsStay DEF IInv, RequestsSound
    <2>. QED
        BY <2>2, <2>3, <2>5, NoMemberChanged, OneProject
<1>4. ASSUME NEW r \in Requests, SaveKey(r) \/ SaveName(r) PROVE SoundStep /\ ProjectsSound
    <2>1. PICK row : /\ row \in Rows /\ row.state = "active"
                     /\ project' = [project EXCEPT ![request[r].project] = row]
        <3>1. request[r].row \in Rows /\ request[r].row.state = "active"
            BY <1>4 DEF SaveKey, SaveName, IInv, RequestsSound, Sound, Saves
        <3>2. /\ [request[r].row EXCEPT !.keyed = TRUE] \in Rows
              /\ [request[r].row EXCEPT !.keyed = TRUE].state = "active"
            BY <3>1 DEF Rows
        <3>. QED
            BY <1>4, <3>1, <3>2 DEF SaveKey, SaveName, FullSave
    <2>2. UNCHANGED <<workspace, membership>> /\ End(r)
        BY <1>4 DEF SaveKey, SaveName, MembersUnchanged
    <2>. QED
        BY <2>1, <2>2, SameOwners, OneProject
<1>5. ASSUME NEW r \in Requests, ArchiveProject(r) PROVE SoundStep /\ ProjectsSound
    <2>1. UNCHANGED <<workspace, membership>> /\ End(r)
        BY <1>5 DEF ArchiveProject, MembersUnchanged
    <2>2. project' = [project EXCEPT ![request[r].project] = [@ EXCEPT !.state = "archived"]]
        BY <1>5 DEF ArchiveProject
    <2>3. ProjectsSound
        BY <2>2 DEF IInv, ProjectsTyped, Rows, ProjectStates, ProjectsSound, PurgeStep, Stored
    <2>. QED
        BY <2>1, <2>3, SameOwners
<1>6. ASSUME NEW r \in Requests, ArchiveWorkspace(r) PROVE SoundStep /\ ProjectsSound
    <2>. DEFINE w == request[r].ws
    <2>1. w \in Workspaces /\ workspace[w] \notin {"absent", "purged"}
        BY <1>6 DEF ArchiveWorkspace, IInv, RequestsSound, Sound, Archives
    <2>2. /\ workspace' = [workspace EXCEPT ![w] = "archived"]
          /\ UNCHANGED <<membership, project>> /\ End(r)
        BY <1>6 DEF ArchiveWorkspace
    <2>3. MembersTyped' /\ OwnerRemains'
        BY <2>1, <2>2, SameMembers DEF IInv, MembersTyped, WorkspaceStates
    <2>4. RequestsSound'
        BY <2>1, <2>2, Ended DEF IInv, MembersTyped
    <2>5. OwnersStep
        BY <2>2 DEF OwnersStep, Owners
    <2>. QED
        BY <2>2, <2>3, <2>4, <2>5, SameProjects DEF SoundStep
<1>7. ASSUME NEW r \in Requests, NEW p \in Projects, Onboard(r, p)
      PROVE  SoundStep /\ ProjectsSound
    <2>. DEFINE row == [FirstSave(request[r].ws) EXCEPT !.keyed = TRUE]
    <2>1. request[r].ws \in Workspaces
        BY <1>7 DEF Onboard, IInv, RequestsSound, Sound, Founds
    <2>2. row \in Rows /\ row.state = "active"
        BY <2>1, FirstSaveTyped
    <2>3. project' = [project EXCEPT ![p] = row]
        BY <1>7 DEF Onboard
    <2>4. ProjectsSound
        BY <2>2, <2>3, OneProject
    <2>. QED
        BY <1>7, <2>4, FoundedSound DEF Onboard
<1>8. ASSUME NEW p \in Projects, RestoreProject(p) \/ ExpireProject(p)
      PROVE  SoundStep /\ ProjectsSound
    <2>1. UNCHANGED <<workspace, membership, request>>
        BY <1>8 DEF RestoreProject, ExpireProject, MembersUnchanged
    <2>2. PICK state \in {"active", "expired"} :
              project' = [project EXCEPT ![p] = [@ EXCEPT !.state = state]]
        BY <1>8 DEF RestoreProject, ExpireProject
    <2>3. ProjectsSound
        BY <2>2 DEF IInv, ProjectsTyped, Rows, ProjectStates, ProjectsSound, PurgeStep, Stored
    <2>4. RequestsSound'
        BY <2>1, RequestsStay DEF IInv, RequestsSound
    <2>. QED
        BY <2>1, <2>3, <2>4, NoMemberChanged
<1>9. ASSUME \/ PurgeSelect \/ PurgeSelectWorkspaces \/ PurgeCollect \/ PurgeFails
             \/ \E w \in Workspaces : PurgeLook(w)
      PROVE  SoundStep /\ ProjectsSound
    <2>1. UNCHANGED <<workspace, membership, request, project>>
        BY <1>9 DEF PurgeSelect, PurgeSelectWorkspaces, PurgeLook, PurgeCollect, PurgeFails,
                    Reading, MembersUnchanged
    <2>2. RequestsSound'
        BY <2>1, RequestsStay DEF IInv, RequestsSound
    <2>. QED
        BY <2>1, <2>2, NoMemberChanged, SameProjects
<1>. QED
    BY <1>1, <1>2, <1>3, <1>4, <1>5, <1>6, <1>7, <1>8, <1>9, PurgeDeleteSound DEF ProjectsStep

-----------------------------------------------------------------------------
(* Attributes, segments and pages change no member, and of the project the *)
(* revision only.                                                          *)

HarmlessChange(before, after) ==
    after = before \/ ("kind" \in DOMAIN after /\ after.kind \in Harmless)

LEMMA HarmlessStep ==
    ASSUME IInv, UNCHANGED <<workspace, membership, project>>,
           request' = [r \in Requests |-> request'[r]],
           \A r \in Requests : HarmlessChange(request[r], request'[r])
    PROVE  SoundStep /\ ProjectsSound
BY Harmlessly, NoMemberChanged, SameProjects DEF HarmlessChange, IInv

LEMMA DisturbedHarmless ==
    ASSUME IInv, NEW kinds \in SUBSET {"segment", "page"}
    PROVE  /\ Disturbed(kinds) = [r \in Requests |-> Disturbed(kinds)[r]]
           /\ \A r \in Requests :
                /\ HarmlessChange(request[r], Disturbed(kinds)[r])
                /\ "kind" \in DOMAIN Disturbed(kinds)[r]
                /\ Disturbed(kinds)[r].kind = request[r].kind
BY DEF Disturbed, HarmlessChange, Harmless, IInv, RequestsSound, Sound

\* One request is replaced, by one that only reads, while others learn of a write.
LEMMA OneHarmless ==
    ASSUME IInv, UNCHANGED <<workspace, membership, project>>, NEW r \in Requests, NEW q,
           NEW others, others = [x \in Requests |-> others[x]],
           \A x \in Requests : HarmlessChange(request[x], others[x]),
           request' = [others EXCEPT ![r] = q], "kind" \in DOMAIN q, q.kind \in Harmless
    PROVE  SoundStep /\ ProjectsSound
BY HarmlessStep DEF HarmlessChange

\* One request learns something.
LEMMA OneLearns ==
    ASSUME IInv, UNCHANGED <<workspace, membership, project>>, NEW r \in Requests, NEW q,
           request' = [request EXCEPT ![r] = q], "kind" \in DOMAIN q, q.kind \in Harmless
    PROVE  SoundStep /\ ProjectsSound
BY OneHarmless DEF HarmlessChange, IInv, RequestsSound

LEMMA RevisionSound ==
    ASSUME IInv, project' = [project EXCEPT ![Product] = NextRevision(@)]
    PROVE  ProjectsSound
<1>1. project[Product] \in Rows /\ Product \in Projects
    BY SegmentsAssumption DEF IInv, ProjectsTyped
<1>2. NextRevision(project[Product]) \in Rows
      /\ NextRevision(project[Product]).state = project[Product].state
    BY <1>1 DEF NextRevision, Rows
<1>3. project' = [project EXCEPT ![Product] = NextRevision(project[Product])]
    OBVIOUS
<1>. QED
    BY <1>1, <1>2, <1>3, OneProject DEF Stored

LEMMA APageIsHarmless ==
    ASSUME NEW u, NEW cachedRead, NEW url, NEW hops, NEW quiet
    PROVE  LET q == PageRequest(u, cachedRead, url, hops, quiet)
           IN  "kind" \in DOMAIN q /\ q.kind \in Harmless
BY DEF PageRequest, Harmless

LEMMA SegmentsStepSound == ASSUME IInv, SegmentsStep PROVE SoundStep /\ ProjectsSound
<1>. USE DEF workspaceVars
<1>1. ASSUME NEW u \in Users, NEW new, NEW deleted, NEW removed,
             SaveDefinitions(u, new, deleted, removed)
      PROVE  SoundStep /\ ProjectsSound
    <2>1. UNCHANGED <<workspace, membership>> /\ request' = Disturbed({"segment", "page"})
        BY <1>1 DEF SaveDefinitions
    <2>2. RequestsSound'
        BY <2>1, DisturbedHarmless, Harmlessly DEF HarmlessChange, IInv
    <2>. QED
        BY <1>1, <2>1, <2>2, NoMemberChanged, RevisionSound DEF SaveDefinitions
<1>2. ASSUME NEW u \in Users, SaveValues(u) PROVE SoundStep /\ ProjectsSound
    <2>1. UNCHANGED <<workspace, membership, request>>
        BY <1>2 DEF SaveValues
    <2>2. RequestsSound'
        BY <2>1, RequestsStay DEF IInv, RequestsSound
    <2>. QED
        BY <1>2, <2>1, <2>2, NoMemberChanged, RevisionSound DEF SaveValues
<1>3. ASSUME NEW r \in Free, NEW u \in Users, NEW s \in Segments,
             NEW definition, AskSegment(r, u, s, definition)
      PROVE  SoundStep /\ ProjectsSound
    <2>. DEFINE q == [kind |-> "segment", user |-> u, segment |-> s, definition |-> definition,
                      row |-> segment[s], saved |-> FALSE, quiet |-> TRUE]
    <2>1. request' = [request EXCEPT ![r] = q]
        BY <1>3 DEF AskSegment, Begin
    <2>2. "kind" \in DOMAIN q /\ q.kind \in Harmless
        BY DEF Harmless
    <2>3. r \in Requests /\ UNCHANGED <<workspace, membership, project>>
        BY <1>3 DEF AskSegment, Free
    <2>. HIDE DEF q
    <2>. QED
        BY <2>1, <2>2, <2>3, OneLearns
<1>4. ASSUME NEW u \in Users, NEW s \in Segments, DeleteSegment(u, s)
      PROVE  SoundStep /\ ProjectsSound
    BY <1>4, DisturbedHarmless, HarmlessStep DEF DeleteSegment
<1>5. ASSUME NEW r \in Free, NEW u \in Users, NEW cachedRead \in BOOLEAN, NEW url \in Urls,
             OpenPage(r, u, cachedRead, url)
      PROVE  SoundStep /\ ProjectsSound
    <2>. DEFINE q == PageRequest(u, cachedRead, url, 0, TRUE)
    <2>1. request' = [request EXCEPT ![r] = q]
        BY <1>5 DEF OpenPage, Begin
    <2>2. "kind" \in DOMAIN q /\ q.kind \in Harmless
        BY APageIsHarmless
    <2>3. r \in Requests /\ UNCHANGED <<workspace, membership, project>>
        BY <1>5 DEF OpenPage, Free
    <2>. HIDE DEF q
    <2>. QED
        BY <2>1, <2>2, <2>3, OneLearns
<1>6. ASSUME NEW r \in Requests, StoreSegment(r) \/ ClearReview(r) PROVE SoundStep /\ ProjectsSound
    BY <1>6, DisturbedHarmless, OneHarmless DEF StoreSegment, ClearReview, Idle, Harmless
<1>7. ASSUME NEW r \in Requests, StoreDefinition(r) PROVE SoundStep /\ ProjectsSound
    <2>. DEFINE others == Disturbed({"page"})
                q      == [others[r] EXCEPT !.saved = TRUE]
    <2>1. request' = [others EXCEPT ![r] = q] /\ UNCHANGED <<workspace, membership, project>>
        BY <1>7 DEF StoreDefinition
    <2>2. "kind" \in DOMAIN q /\ q.kind \in Harmless
        BY <1>7, DisturbedHarmless DEF StoreDefinition, Harmless
    <2>3. others = [x \in Requests |-> others[x]]
          /\ \A x \in Requests : HarmlessChange(request[x], others[x])
        BY DisturbedHarmless
    <2>. QED
        BY <2>1, <2>2, <2>3, OneHarmless
<1>8. ASSUME NEW r \in Requests, Fail(r) \/ Render(r) PROVE SoundStep /\ ProjectsSound
    BY <1>8, OneLearns DEF Fail, Render, End, Idle, Harmless
<1>9. ASSUME NEW r \in Requests, ReadCachedAttributes(r) \/ ReadAttributes(r) \/ ReadSegment(r)
      PROVE  SoundStep /\ ProjectsSound
    <2>1. request[r].kind = "page" /\ "kind" \in DOMAIN request[r]
          /\ UNCHANGED <<workspace, membership, project>>
        BY <1>9 DEF ReadCachedAttributes, ReadAttributes, ReadSegment, IInv, RequestsSound, Sound
    <2>2. PICK field, value :
              /\ field \in {"attributes", "found"}
              /\ request' = [request EXCEPT ![r] = [request[r] EXCEPT ![field] = value]]
        BY <1>9 DEF ReadCachedAttributes, ReadAttributes, ReadSegment, Known
    <2>3. LET q == [request[r] EXCEPT ![field] = value]
          IN  "kind" \in DOMAIN q /\ q.kind = "page"
        BY <2>1, <2>2
    <2>. QED
        BY <2>1, <2>2, <2>3, OneLearns DEF Harmless
<1>10. ASSUME NEW r \in Requests, RedirectCanonical(r) \/ RedirectRestored(r)
       PROVE  SoundStep /\ ProjectsSound
    <2>1. PICK url : Redirect(r, url)
        BY <1>10 DEF RedirectCanonical, RedirectRestored
    <2>. DEFINE q == PageRequest(request[r].user, request[r].cachedRead, url,
                                 request[r].hops + 1, request[r].quiet)
    <2>2. request' = [request EXCEPT ![r] = q] /\ UNCHANGED <<workspace, membership, project>>
        BY <2>1 DEF Redirect
    <2>3. "kind" \in DOMAIN q /\ q.kind \in Harmless
        BY APageIsHarmless
    <2>. HIDE DEF q
    <2>. QED
        BY <2>2, <2>3, OneLearns
<1>. QED
    BY <1>1, <1>2, <1>3, <1>4, <1>5, <1>6, <1>7, <1>8, <1>9, <1>10 DEF SegmentsStep

\* What a purge knows of its workspace stays true of it: who comes later is no longer found.
LEMMA PurgeSoundStep == ASSUME IInv, [Next]_vars PROVE PurgeSound'
<1>. USE DEF workspaceVars
<1>1. ASSUME UNCHANGED purge PROVE PurgeSound'
    BY <1>1 DEF IInv, PurgeSound, PurgeTyped
<1>2. CASE UNCHANGED vars
    BY <1>1, <1>2 DEF vars
<1>3. CASE MembersStep /\ UNCHANGED <<project, purge>>
    BY <1>1, <1>3
<1>4. CASE SegmentsStep
    <2>1. UNCHANGED purge
        BY <1>4 DEF SegmentsStep, SaveDefinitions, SaveValues, AskSegment, DeleteSegment, OpenPage,
                    StoreSegment, StoreDefinition, ClearReview, Fail, ReadCachedAttributes,
                    ReadAttributes, ReadSegment, RedirectCanonical, RedirectRestored, Redirect,
                    Render
    <2>. QED
        BY <1>1, <2>1
<1>5. CASE ProjectsStep
    <2>1. CASE UNCHANGED purge
        BY <1>1, <2>1
    <2>2. CASE \/ PurgeSelect \/ PurgeSelectWorkspaces \/ PurgeCollect \/ PurgeDelete \/ PurgeFails
               \/ \E w \in Workspaces : PurgeLook(w)
        <3>1. CASE PurgeSelect \/ PurgeDelete \/ PurgeFails
            <4>1. CASE purge' = NoPurge
                BY <4>1 DEF NoPurge, PurgeSound, PurgeTyped
            <4>2. ASSUME NEW ids, purge' = [NoPurge EXCEPT !.step = "projects", !.ids = ids]
                  PROVE  PurgeSound'
                BY <4>2 DEF NoPurge, PurgeSound, PurgeTyped
            <4>. QED
                BY <3>1, <4>1, <4>2 DEF PurgeSelect, PurgeDelete, PurgeFails
        <3>. DEFINE new == purge'
        <3>2. CASE PurgeSelectWorkspaces
            <4>1. purge' = [purge EXCEPT !.step = "workspaces",
                                !.workspaces = {w \in Workspaces : workspace[w] = "expired"}]
                BY <3>2 DEF PurgeSelectWorkspaces
            <4>2. new.empty = purge.empty /\ new.ids = purge.ids /\ new.came = purge.came
                  /\ new.taken = purge.taken /\ new.late = purge.late
                BY <4>1 DEF IInv, PurgeSound, PurgeTyped
            <4>. QED
                BY <4>1, <4>2 DEF IInv, PurgeSound, PurgeTyped
        <3>3. ASSUME NEW w \in Workspaces, PurgeLook(w) PROVE PurgeSound'
            <4>1. purge' = [purge EXCEPT !.workspaces = @ \ {w},
                                !.empty = IF Left(w) = {} THEN w ELSE NoWorkspace,
                                !.came = Projects \ Holds(w)]
                BY <3>3 DEF PurgeLook
            <4>2. /\ new.ids = purge.ids /\ new.taken = purge.taken /\ new.late = purge.late
                  /\ new.came = Projects \ Holds(w)
                  /\ new.empty # NoWorkspace => Left(w) = {}
                BY <4>1 DEF IInv, PurgeSound, PurgeTyped
            <4>3. Left(w) = {} => Projects \subseteq purge.ids \cup (Projects \ Holds(w))
                BY DEF Left
            <4>. QED
                BY <4>1, <4>2, <4>3 DEF IInv, PurgeSound, PurgeTyped
        <3>4. CASE PurgeCollect
            <4>1. purge' = [purge EXCEPT !.empty = NoWorkspace,
                                !.gone = @ \cup {purge.empty},
                                !.taken = @ \cup Holds(purge.empty),
                                !.late = @ \cup (Holds(purge.empty) \cap purge.came)]
                BY <3>4 DEF PurgeCollect
            <4>2. /\ new.ids = purge.ids /\ new.came = purge.came /\ new.empty = NoWorkspace
                  /\ new.taken = purge.taken \cup Holds(purge.empty)
                  /\ new.late = purge.late \cup (Holds(purge.empty) \cap purge.came)
                BY <4>1 DEF IInv, PurgeSound, PurgeTyped
            <4>3. Projects \subseteq purge.ids \cup purge.came /\ Holds(purge.empty) \subseteq Projects
                BY <3>4 DEF PurgeCollect, IInv, PurgeSound, Holds
            <4>. QED
                BY <4>1, <4>2, <4>3 DEF IInv, PurgeSound, PurgeTyped
        <3>. QED
            BY <2>2, <3>1, <3>2, <3>3, <3>4
    <2>. QED
        BY <1>5, <2>1, <2>2
        DEF ProjectsStep, AskProject, AskDelete, AskOnboarding, AskRename, AskArchive, CreateProject,
            Onboard, SaveKey, SaveName, ArchiveProject, ArchiveWorkspace, RestoreProject,
            ExpireProject
<1>. QED
    BY <1>2, <1>3, <1>4, <1>5 DEF Next

LEMMA NextSound == IInv /\ [Next]_vars => IInv' /\ OwnersStep /\ PurgeStep
<1>. SUFFICES ASSUME IInv, [Next]_vars PROVE SoundStep /\ ProjectsSound
    BY PurgeSoundStep DEF SoundStep, ProjectsSound, IInv
<1>1. CASE MembersStep /\ UNCHANGED <<project, purge>>
    BY <1>1, MembersStepSound, SameProjects
<1>2. CASE UNCHANGED vars
    <2>1. RequestsSound'
        BY <1>2, RequestsStay DEF vars, IInv, RequestsSound
    <2>. QED
        BY <1>2, <2>1, NoMemberChanged, SameProjects DEF vars
<1>. QED
    BY <1>1, <1>2, ProjectsStepSound, SegmentsStepSound DEF Next

-----------------------------------------------------------------------------
(* Theorems.                                                               *)

\* However removals, departures and changes of role interleave, a workspace in
\* use has an owner: the second of two owners who leave at once is refused by
\* the count under the row lock of the workspace (services.py:214-222,
\* 236-246).
THEOREM OwnersRemain == Spec => []OwnerRemains
<1>. QED
    BY InitSound, NextSound, PTL DEF Spec, IInv

\* An owner is made by an owner or a superuser, and unmade by oneself, by one
\* of those, or by an admin who looked before the user was an owner: what the
\* permission checks of access.py leave open once the row has changed under
\* them.
THEOREM OwnersByRight == Spec => OwnersAnswerToOwners
<1>1. OwnersStep => [\A w \in Workspaces, u \in Users :
        /\ u \notin Owners(w) /\ u \in Owners(w)' => workspace[w] = "absent" \/ MadeByOwner(w, u)
        /\ u \in Owners(w) /\ u \notin Owners(w)' =>
            workspace'[w] = "purged" \/ UndoneByOwner(w, u)]_<<membership, request>>
    BY DEF OwnersStep
<1>. QED
    BY <1>1, InitSound, NextSound, PTL DEF Spec, OwnersAnswerToOwners

\* Nothing deletes a project but a purge that has found it expired, neither a
\* late save of its row nor the deletion of its workspace, unless the project
\* came into that after the purge had found it empty (services.py:149-178).
THEOREM PurgesKeepTheRest == Spec => PurgesOnlyExpired
<1>1. PurgeStep => [\A p \in Projects : Stored(p) /\ ~Stored(p)' =>
        project[p].state = "expired" \/ p \in purge.ids \/ p \in purge.late]_project
    BY DEF PurgeStep
<1>. QED
    BY <1>1, InitSound, NextSound, PTL DEF Spec, PurgesOnlyExpired

-----------------------------------------------------------------------------
(* The flag of a segment.  A request that edits a segment knows the row as *)
(* it was; what it may conclude from it depends on whether a deletion has  *)
(* come in between (quiet).                                                *)

SegmentRows == [user : Users, definition : SUBSET Terms, review : BOOLEAN,
                pending : SUBSET Terms, unsettled : BOOLEAN]
SegmentStates == SegmentRows \cup {NoSegment, Deleted}
Edits == [kind : {"segment"}, user : Users, segment : Segments, definition : SUBSET Terms,
          row : SegmentRows \cup {NoSegment}, saved : BOOLEAN, quiet : BOOLEAN]

Edit(r) == request[r].kind = "segment"

SegmentsTyped ==
    /\ defined \subseteq spent /\ spent \subseteq Terms
    /\ segment \in [Segments -> SegmentStates]
    /\ reverted \in BOOLEAN
    /\ \A r \in Requests : Edit(r) => request[r] \in Edits

\* Ids are not used again: what was deleted stays undefined.
IdsSpent ==
    /\ \A a \in Attributes : a \cap spent # {} => a \cap defined # {} \/ a \subseteq spent
    /\ \A s \in Segments : InUse(s) =>
        segment[s].definition \subseteq spent /\ segment[s].pending \subseteq spent \ defined
    /\ \A r \in Requests : Edit(r) =>
        /\ request[r].definition \subseteq spent
        /\ request[r].row \in SegmentRows =>
            /\ request[r].row.pending \subseteq spent \ defined
            /\ request[r].definition \cap request[r].row.pending = {}

Settled(s) == InUse(s) /\ ~segment[s].unsettled
Complete(s) == Gone(segment[s].definition) = {}

\* A flag that is set although nothing is missing will be cleared by a request that knows of it.
FlagSound(s) ==
    /\ ~Complete(s) => segment[s].review
    /\ segment[s].review /\ Complete(s) => \E r \in Editing(s) : request[r].row.review

\* What a request knows, when no deletion has come in between.
EditSound(r) ==
    LET q == request[r]
        s == q.segment
    IN  /\ q.saved => q.row # NoSegment
        /\ q.row # NoSegment => segment[s] # NoSegment
        /\ q.quiet /\ q.row = NoSegment /\ ~reverted => q.definition \subseteq defined
        /\ q.quiet /\ q.row # NoSegment /\ InUse(s) =>
            /\ q.definition \subseteq defined
            /\ segment[s].review => q.row.review
            /\ q.saved => segment[s].unsettled \/ Complete(s)

FlagInv ==
    /\ SegmentsTyped
    /\ IdsSpent
    /\ \A s \in Segments : Settled(s) => FlagSound(s)
    /\ \A r \in Requests : Edit(r) => EditSound(r)

LEMMA RowsInUse ==
    ASSUME SegmentsTyped
    PROVE  /\ NoSegment \notin SegmentRows /\ Deleted \notin SegmentRows
           /\ \A s \in Segments : InUse(s) <=> segment[s] \in SegmentRows
<1>1. NoSegment \notin SegmentRows
    BY SegmentsAssumption DEF NoSegment, SegmentRows
<1>2. Deleted \notin SegmentRows
    BY SegmentsAssumption DEF Deleted, SegmentRows
<1>. QED
    BY <1>1, <1>2 DEF SegmentsTyped, InUse, SegmentStates

\* Nothing of what is defined is gone.
LEMMA NothingGone ==
    ASSUME NEW definition, definition \subseteq defined PROVE Gone(definition) = {}
BY DEF Gone, Named

LEMMA FlagInit == Init => FlagInv
<1>. SUFFICES ASSUME Init PROVE FlagInv
    OBVIOUS
<1>1. \A r \in Requests : ~Edit(r)
    BY DEF Init, MembersInit, Idle, Edit
<1>2. \A s \in Segments : ~InUse(s)
    BY DEF Init, InUse
<1>3. SegmentsTyped
    BY <1>1 DEF Init, SegmentsTyped, SegmentStates
<1>4. spent = defined
    BY DEF Init
<1>. QED
    BY <1>1, <1>2, <1>3, <1>4 DEF FlagInv, IdsSpent, Settled

LEMMA FlagTruth == FlagInv => FlagTruthful
BY DEF FlagInv, FlagTruthful, FlagSound, Settled, Complete, Gone

-----------------------------------------------------------------------------
(* Steps that leave the edits in progress alone.                           *)

EditsKept == \A r \in Requests : Edit(r) \/ Edit(r)' => request'[r] = request[r]

\* With the ids that are left, and without losing a segment that is in use.
LEMMA NothingStored ==
    ASSUME FlagInv, EditsKept, UNCHANGED <<defined, spent, segment>>,
           reverted' \in BOOLEAN, reverted => reverted'
    PROVE  FlagInv'
<1>1. \A s \in Segments : Editing(s)' = Editing(s)
    BY DEF EditsKept, Editing, Edit
<1>2. \A s \in Segments : InUse(s)' <=> InUse(s)
    BY DEF InUse
<1>3. \A r \in Requests : Edit(r)' => Edit(r) /\ request'[r] = request[r]
    BY DEF EditsKept, Edit
<1>4. SegmentsTyped'
    BY <1>3 DEF FlagInv, SegmentsTyped
<1>5. IdsSpent'
    BY <1>2, <1>3 DEF FlagInv, IdsSpent
<1>6. ASSUME NEW s \in Segments, Settled(s)' PROVE FlagSound(s)'
    <2>1. Settled(s) /\ FlagSound(s)
        BY <1>2, <1>6 DEF Settled, FlagInv
    <2>2. \A r \in Editing(s) : request'[r] = request[r]
        BY DEF EditsKept, Editing, Edit
    <2>. QED
        BY <1>1, <2>1, <2>2 DEF FlagSound, Complete, Gone
<1>7. ASSUME NEW r \in Requests, Edit(r)' PROVE EditSound(r)'
    <2>1. EditSound(r) /\ request'[r] = request[r] /\ request[r].segment \in Segments
        BY <1>3, <1>7 DEF FlagInv, SegmentsTyped, Edits
    <2>. QED
        BY <1>2, <2>1 DEF EditSound, Complete, Gone
<1>. QED
    BY <1>4, <1>5, <1>6, <1>7 DEF FlagInv

\* The project is purged with its segments.
LEMMA AllDropped ==
    ASSUME FlagInv, EditsKept, defined' = {}, reverted' = TRUE,
           spent' = spent \cup UNION Named(defined, Attributes),
           segment' = [s \in Segments |-> IF InUse(s) THEN Deleted ELSE segment[s]]
    PROVE  FlagInv'
<1>1. \A s \in Segments : ~InUse(s)' /\ (segment[s] # NoSegment => segment'[s] # NoSegment)
    BY DEF InUse, Deleted, NoSegment
<1>2. \A r \in Requests : Edit(r)' => Edit(r) /\ request'[r] = request[r]
    BY DEF EditsKept, Edit
<1>2a. spent \subseteq spent' /\ spent' \subseteq Terms
    BY DEF FlagInv, SegmentsTyped, Named, Terms
<1>3. SegmentsTyped'
    BY <1>2, <1>2a DEF FlagInv, SegmentsTyped, SegmentStates
<1>4. IdsSpent'
    <2>1. \A a \in Attributes : a \cap spent' # {} => a \subseteq spent'
        <3>1. ASSUME NEW a \in Attributes, a \cap spent' # {} PROVE a \subseteq spent'
            <4>1. a \cap spent # {}
                BY <3>1, SegmentsAssumption DEF Named, FlagInv, SegmentsTyped
            <4>. QED
                BY <4>1 DEF FlagInv, IdsSpent, Named
        <3>. QED
            BY <3>1
    <2>. QED
        BY <1>1, <1>2, <1>2a, <2>1 DEF FlagInv, IdsSpent
<1>5. ASSUME NEW r \in Requests, Edit(r)' PROVE EditSound(r)'
    <2>1. EditSound(r) /\ request'[r] = request[r] /\ request[r].segment \in Segments
        BY <1>2, <1>5 DEF FlagInv, SegmentsTyped, Edits
    <2>. QED
        BY <1>1, <2>1 DEF EditSound
<1>. QED
    BY <1>1, <1>3, <1>4, <1>5 DEF FlagInv, Settled

LEMMA CascadeFlag == ASSUME FlagInv, EditsKept, Cascade PROVE FlagInv'
<1>1. reverted' \in BOOLEAN /\ (reverted => reverted')
    BY DEF Cascade
<1>2. CASE Stored(Product) /\ ~Stored(Product)'
    BY <1>2, AllDropped DEF Cascade
<1>3. CASE ~(Stored(Product) /\ ~Stored(Product)')
    BY <1>1, <1>3, NothingStored DEF Cascade
<1>. QED
    BY <1>2, <1>3

\* The requests that only concern members and projects leave the others alone.
Readers == {"segment", "page"}
MembersOnly ==
    \A r \in Requests :
        request[r].kind \in Readers \/ request'[r].kind \in Readers => request'[r] = request[r]

LEMMA OtherKind ==
    ASSUME RequestsSound, NEW r \in Requests, request[r].kind \notin Readers,
           NEW q, q.kind \notin Readers, request' = [request EXCEPT ![r] = q]
    PROVE  MembersOnly
BY DEF MembersOnly, RequestsSound

LEMMA OnlyMembers == MembersOnly => EditsKept
BY DEF MembersOnly, EditsKept, Edit, Readers

LEMMA NotAnEdit ==
    ASSUME RequestsSound, NEW r \in Requests, ~Edit(r), NEW q, q.kind # "segment",
           request' = [request EXCEPT ![r] = q]
    PROVE  EditsKept
BY DEF EditsKept, Edit, RequestsSound

LEMMA MembersKeep == ASSUME IInv, MembersStep PROVE MembersOnly
<1>1. CASE UNCHANGED request
    BY <1>1 DEF MembersOnly
<1>2. ASSUME NEW r \in Requests, request[r].kind \notin Readers, NEW q, q.kind \notin Readers,
             request' = [request EXCEPT ![r] = q]
      PROVE  MembersOnly
    BY <1>2, OtherKind DEF IInv
<1>3. ASSUME NEW r \in Free, NEW w \in Workspaces, NEW actor \in Users, NEW target \in Users,
             NEW role \in Roles,
             \/ AskRemove(r, w, actor, target)
             \/ AskAdd(r, w, actor, target, role)
             \/ AskRole(r, w, actor, target, role)
             \/ AskWorkspace(r, w, actor)
      PROVE  MembersOnly
    <2>1. r \in Requests /\ request[r].kind \notin Readers
        BY DEF Free, Idle, Readers
    <2>2. \E q : q.kind \notin Readers /\ request' = [request EXCEPT ![r] = q]
        BY <1>3 DEF AskRemove, AskAdd, AskRole, AskWorkspace, Begin, Readers
    <2>. QED
        BY <1>2, <2>1, <2>2
<1>4. ASSUME NEW r \in Requests,
             AddMember(r) \/ RemoveMember(r) \/ ChangeRole(r) \/ CreateWorkspace(r)
      PROVE  MembersOnly
    <2>1. request[r].kind \notin Readers /\ request' = [request EXCEPT ![r] = Idle]
        BY <1>4 DEF AddMember, RemoveMember, ChangeRole, CreateWorkspace, End, Readers
    <2>. QED
        BY <1>2, <2>1 DEF Idle, Readers
<1>5. ASSUME NEW w \in Workspaces, RestoreWorkspace(w) \/ ExpireWorkspace(w) PROVE MembersOnly
    BY <1>1, <1>5 DEF RestoreWorkspace, ExpireWorkspace
<1>6. Roles # {}
    BY DEF Roles
<1>. QED
    BY <1>3, <1>4, <1>5, <1>6 DEF MembersStep

LEMMA ProjectsKeep == ASSUME IInv, ProjectsStep PROVE MembersOnly
<1>1. ASSUME NEW r \in Requests, request[r].kind \notin Readers, NEW q, q.kind \notin Readers,
             request' = [request EXCEPT ![r] = q]
      PROVE  MembersOnly
    BY <1>1, OtherKind DEF IInv
<1>2. ASSUME NEW r \in Free, NEW w \in Workspaces, NEW actor \in Users,
             AskProject(r, w, actor) \/ AskDelete(r, w, actor) \/ AskOnboarding(r, w, actor)
      PROVE  MembersOnly
    <2>1. r \in Requests /\ request[r].kind \notin Readers
        BY DEF Free, Idle, Readers
    <2>2. \E q : q.kind \notin Readers /\ request' = [request EXCEPT ![r] = q]
        BY <1>2 DEF AskProject, AskDelete, AskOnboarding, Begin, Readers
    <2>. QED
        BY <1>1, <2>1, <2>2
<1>3. ASSUME NEW r \in Free, NEW p \in Projects, NEW actor \in Users,
             AskRename(r, p, actor) \/ AskArchive(r, p, actor)
      PROVE  MembersOnly
    <2>1. r \in Requests /\ request[r].kind \notin Readers
        BY DEF Free, Idle, Readers
    <2>2. \E q : q.kind \notin Readers /\ request' = [request EXCEPT ![r] = q]
        BY <1>3 DEF AskRename, AskArchive, Begin, Readers
    <2>. QED
        BY <1>1, <2>1, <2>2
<1>4. ASSUME NEW r \in Requests, NEW p \in Projects, CreateProject(r, p) \/ Onboard(r, p)
      PROVE  MembersOnly
    <2>1. request[r].kind \notin Readers /\ \E q : q.kind \notin Readers /\ request' = [request EXCEPT ![r] = q]
        BY <1>4 DEF CreateProject, Onboard, End, Idle, Readers
    <2>. QED
        BY <1>1, <2>1
<1>5. ASSUME NEW r \in Requests,
             SaveKey(r) \/ SaveName(r) \/ ArchiveProject(r) \/ ArchiveWorkspace(r)
      PROVE  MembersOnly
    <2>1. request[r].kind \notin Readers /\ request' = [request EXCEPT ![r] = Idle]
        BY <1>5 DEF SaveKey, SaveName, ArchiveProject, ArchiveWorkspace, End, Readers
    <2>. QED
        BY <1>1, <2>1 DEF Idle, Readers
<1>6. ASSUME UNCHANGED request PROVE MembersOnly
    BY <1>6 DEF MembersOnly
<1>7. ASSUME NEW p \in Projects, RestoreProject(p) \/ ExpireProject(p) PROVE MembersOnly
    BY <1>6, <1>7 DEF RestoreProject, ExpireProject
<1>8. ASSUME \/ PurgeSelect \/ PurgeSelectWorkspaces \/ PurgeCollect \/ PurgeDelete \/ PurgeFails
             \/ \E w \in Workspaces : PurgeLook(w)
      PROVE  MembersOnly
    BY <1>6, <1>8 DEF PurgeSelect, PurgeSelectWorkspaces, PurgeLook, PurgeCollect, PurgeDelete,
                      PurgeFails, Reading
<1>. QED
    BY <1>2, <1>3, <1>4, <1>5, <1>7, <1>8 DEF ProjectsStep

-----------------------------------------------------------------------------
(* Steps of one edit.                                                      *)

LEMMA OnlyPagesDisturbed ==
    ASSUME IInv, NEW x \in Requests
    PROVE  /\ Edit(x) => Disturbed({"page"})[x] = request[x]
           /\ Disturbed({"page"})[x].kind = "segment" => Edit(x)
BY DisturbedHarmless DEF Disturbed, Edit

OthersKept(r) ==
    \A x \in Requests \ {r} : Edit(x) \/ Edit(x)' => request'[x] = request[x]

LEMMA OneEdit ==
    ASSUME FlagInv, NEW r \in Requests, NEW s \in Segments, NEW row \in SegmentStates,
           OthersKept(r), UNCHANGED <<defined, spent, reverted>>,
           segment' = [segment EXCEPT ![s] = row],
           segment[s] # NoSegment => row # NoSegment,
           segment[s] = Deleted => row = Deleted,
           request[r].kind = "segment" /\ request[r].saved => request[r].segment = s,
           row \in SegmentRows =>
               /\ row.definition \subseteq spent /\ row.pending \subseteq spent \ defined
               /\ ~row.unsettled => FlagSound(s)'
               /\ \A x \in Requests \ {r} :
                    Edit(x) /\ request[x].segment = s /\ request[x].quiet /\ request[x].row # NoSegment =>
                        /\ segment[s] \in SegmentRows
                        /\ row.review => segment[s].review
                        /\ request[x].saved => row.unsettled \/ Gone(row.definition) = {},
           Edit(r)' =>
               /\ request'[r] \in Edits
               /\ request'[r].definition \subseteq spent
               /\ request'[r].row \in SegmentRows =>
                    /\ request'[r].row.pending \subseteq spent \ defined
                    /\ request'[r].definition \cap request'[r].row.pending = {}
               /\ EditSound(r)'
    PROVE  FlagInv'
<1>1. /\ segment'[s] = row /\ segment' \in [Segments -> SegmentStates]
      /\ \A t \in Segments \ {s} : segment'[t] = segment[t]
    BY DEF FlagInv, SegmentsTyped
<1>2. SegmentsTyped'
    BY <1>1 DEF FlagInv, SegmentsTyped, OthersKept, Edit
<1>3. \A t \in Segments : (InUse(t) <=> segment[t] \in SegmentRows)
                          /\ (InUse(t)' <=> segment'[t] \in SegmentRows)
    BY <1>2, RowsInUse DEF FlagInv, InUse, SegmentsTyped, SegmentStates
<1>4. IdsSpent'
    BY <1>1, <1>3 DEF FlagInv, IdsSpent, OthersKept, Edit
<1>5. ASSUME NEW t \in Segments, Settled(t)' PROVE FlagSound(t)'
    <2>1. CASE t = s
        BY <1>1, <1>3, <1>5, <2>1 DEF Settled
    <2>2. CASE t # s
        <3>1. Settled(t) /\ FlagSound(t)
            BY <1>1, <1>3, <1>5, <2>2 DEF Settled, FlagInv
        <3>2. \A x \in Editing(t) : x \in Editing(t)' /\ request'[x] = request[x]
            BY <2>2 DEF Editing, OthersKept, Edit
        <3>. QED
            BY <1>1, <2>2, <3>1, <3>2 DEF FlagSound, Complete, Gone
    <2>. QED
        BY <2>1, <2>2
<1>6. ASSUME NEW x \in Requests, Edit(x)' PROVE EditSound(x)'
    <2>1. CASE x # r
        <3>1. /\ EditSound(x) /\ Edit(x) /\ request'[x] = request[x]
              /\ request[x].segment \in Segments /\ request[x] \in Edits
            BY <1>6, <2>1 DEF FlagInv, SegmentsTyped, OthersKept, Edit, Edits
        <3>2. CASE request[x].segment # s
            BY <1>1, <1>3, <3>1, <3>2 DEF EditSound, Complete, Gone
        <3>3. CASE request[x].segment = s
            BY <1>1, <1>3, <2>1, <3>1, <3>3 DEF EditSound, Complete, Gone
        <3>. QED
            BY <3>2, <3>3
    <2>. QED
        BY <1>6, <2>1
<1>. QED
    BY <1>2, <1>4, <1>5, <1>6 DEF FlagInv

LEMMA AskSegmentFlag ==
    ASSUME IInv, FlagInv, NEW r \in Free, NEW u \in Users, NEW s \in Segments,
           NEW definition, AskSegment(r, u, s, definition)
    PROVE  FlagInv'
<1>. DEFINE q == [kind |-> "segment", user |-> u, segment |-> s, definition |-> definition,
                  row |-> segment[s], saved |-> FALSE, quiet |-> TRUE]
<1>1. /\ r \in Requests /\ request[r] = Idle /\ request' = [request EXCEPT ![r] = q]
      /\ definition \subseteq defined /\ definition \subseteq Terms
      /\ UNCHANGED <<defined, spent, segment, reverted>>
    BY DEF AskSegment, Begin, Free, Valid, segmentVars, FlagInv, SegmentsTyped
<1>2a. segment[s] \in SegmentRows \cup {NoSegment}
    BY SegmentsAssumption DEF AskSegment, Deleted, FlagInv, SegmentsTyped, SegmentStates
<1>2. request'[r] = q /\ q \in Edits /\ segment[s] \in SegmentStates /\ OthersKept(r)
    BY <1>1, <1>2a DEF FlagInv, SegmentsTyped, Edits, OthersKept, IInv, RequestsSound
<1>3. segment' = [segment EXCEPT ![s] = segment[s]]
    BY <1>1 DEF FlagInv, SegmentsTyped
<1>4. InUse(s) <=> segment[s] \in SegmentRows
    BY RowsInUse DEF FlagInv
<1>5. ASSUME segment[s] \in SegmentRows
      PROVE  /\ segment[s].definition \subseteq spent /\ segment[s].pending \subseteq spent \ defined
             /\ ~segment[s].unsettled => FlagSound(s)'
    <2>1. segment[s].definition \subseteq spent /\ segment[s].pending \subseteq spent \ defined
        BY <1>4, <1>5 DEF FlagInv, IdsSpent
    <2>2. ASSUME ~segment[s].unsettled PROVE FlagSound(s)'
        <3>1. FlagSound(s)
            BY <1>4, <1>5, <2>2 DEF FlagInv, Settled
        <3>2. \A x \in Editing(s) : x \in Editing(s)' /\ request'[x] = request[x]
            BY <1>1, <1>2 DEF Editing, OthersKept, Edit, Idle
        <3>. QED
            BY <1>1, <3>1, <3>2 DEF FlagSound, Complete, Gone
    <2>. QED
        BY <2>1, <2>2
<1>5a. ASSUME segment[s] \in SegmentRows, NEW x \in Requests \ {r},
             Edit(x), request[x].segment = s, request[x].quiet, request[x].row # NoSegment
      PROVE  request[x].saved => segment[s].unsettled \/ Gone(segment[s].definition) = {}
    BY <1>4, <1>5a DEF FlagInv, EditSound, Complete, Gone
<1>6. /\ request'[r].definition \subseteq spent
      /\ request'[r].row \in SegmentRows =>
            /\ request'[r].row.pending \subseteq spent \ defined
            /\ request'[r].definition \cap request'[r].row.pending = {}
    BY <1>1, <1>2, <1>4 DEF FlagInv, SegmentsTyped, IdsSpent
<1>7. EditSound(r)'
    <2>1. request'[r].row = segment'[s] /\ request'[r].segment = s /\ ~request'[r].saved
          /\ request'[r].definition \subseteq defined'
        BY <1>1, <1>2
    <2>2. InUse(s)' <=> segment'[s] \in SegmentRows
        BY <1>1, <1>4 DEF InUse
    <2>. QED
        BY <2>1, <2>2 DEF EditSound
<1>8. ~(request[r].kind = "segment")
    BY <1>1 DEF Idle
<1>. HIDE DEF q
<1>. QED
    BY <1>1, <1>2, <1>3, <1>5, <1>5a, <1>6, <1>7, <1>8, OneEdit

LEMMA StoreSegmentFlag ==
    ASSUME IInv, FlagInv, NEW r \in Requests, StoreSegment(r)
    PROVE  FlagInv'
<1>0. PICK s \in Segments : s = request[r].segment
    BY DEF StoreSegment, FlagInv, SegmentsTyped, Edits, Edit
<1>. DEFINE q   == request[r]
            row == [user |-> q.user, definition |-> q.definition, review |-> FALSE,
                    pending |-> {}, unsettled |-> ~q.quiet \/ reverted]
<1>1. /\ Edit(r) /\ q \in Edits /\ q.segment = s /\ q.row = NoSegment /\ EditSound(r) /\ q.definition \subseteq spent
      /\ segment[s] = NoSegment
      /\ segment' = [segment EXCEPT ![s] = row]
      /\ UNCHANGED <<defined, spent, reverted>>
    BY <1>0 DEF StoreSegment, Edit, FlagInv, SegmentsTyped, IdsSpent
<1>2. row \in SegmentRows
    BY <1>1 DEF Edits, SegmentRows, FlagInv, SegmentsTyped
<1>3. row # NoSegment /\ row \in SegmentStates /\ segment[s] # Deleted /\ segment[s] \notin SegmentRows
    BY <1>1, <1>2, RowsInUse DEF FlagInv, SegmentStates, Deleted, NoSegment
<1>4. request'[r] = Idle /\ OthersKept(r)
    BY OnlyPagesDisturbed, DisturbedHarmless DEF StoreSegment, OthersKept, Edit
<1>5. ~row.unsettled => FlagSound(s)'
    <2>1. segment'[s] = row
        BY <1>1, <1>2 DEF FlagInv, SegmentsTyped
    <2>2. ~row.unsettled => q.definition \subseteq defined
        BY <1>1 DEF EditSound
    <2>. QED
        BY <1>1, <2>1, <2>2 DEF FlagSound, Complete, Gone, Named
<1>6. ASSUME NEW x \in Requests \ {r}, Edit(x), request[x].segment = s, request[x].row # NoSegment
      PROVE  FALSE
    BY <1>1, <1>6 DEF FlagInv, EditSound
<1>7. ~Edit(r)'
    BY <1>4 DEF Edit, Idle
<1>8. row.definition \subseteq spent /\ row.pending \subseteq spent \ defined
    BY <1>1
<1>. HIDE DEF row
<1>. QED
    BY <1>1, <1>2, <1>3, <1>4, <1>5, <1>6, <1>7, <1>8, OneEdit

LEMMA StoreDefinitionFlag ==
    ASSUME IInv, FlagInv, NEW r \in Requests, StoreDefinition(r)
    PROVE  FlagInv'
<1>0. PICK s \in Segments : s = request[r].segment
    BY DEF StoreDefinition, FlagInv, SegmentsTyped, Edits, Edit
<1>. DEFINE q   == request[r]
            row == [segment[s] EXCEPT !.definition = q.definition, !.unsettled = ~q.quiet]
<1>1. /\ Edit(r) /\ q \in Edits /\ q.segment = s /\ q.row # NoSegment /\ EditSound(r) /\ q.definition \subseteq spent
      /\ InUse(s)
      /\ UNCHANGED <<defined, spent, reverted>>
    BY <1>0 DEF StoreDefinition, Edit, FlagInv, SegmentsTyped, IdsSpent
<1>2. segment[s] \in SegmentRows /\ segment[s].pending \subseteq spent \ defined
    BY <1>1, RowsInUse DEF Edits, FlagInv, IdsSpent
<1>3. /\ row \in SegmentRows /\ row.definition = q.definition /\ row.unsettled = ~q.quiet
      /\ row.review = segment[s].review /\ row.pending = segment[s].pending
    BY <1>1, <1>2 DEF Edits, SegmentRows
<1>4. segment' = [segment EXCEPT ![s] = row]
    BY <1>0, <1>2 DEF StoreDefinition, FlagInv, SegmentsTyped
<1>. HIDE DEF row
<1>5. row # NoSegment /\ row \in SegmentStates /\ segment[s] # Deleted
    BY <1>2, <1>3, RowsInUse DEF FlagInv, SegmentStates
<1>6. /\ OthersKept(r)
      /\ request'[r] = [q EXCEPT !.saved = TRUE]
    BY <1>1, OnlyPagesDisturbed, DisturbedHarmless DEF StoreDefinition, OthersKept, Edit
<1>7. /\ request'[r] \in Edits /\ request'[r].saved
      /\ request'[r].definition = q.definition /\ request'[r].row = q.row
      /\ request'[r].quiet = q.quiet /\ request'[r].segment = s /\ request'[r].kind = "segment"
    BY <1>1, <1>6 DEF Edits
<1>8. segment'[s] = row /\ (InUse(s)' <=> row \in SegmentRows)
    <2>1. segment'[s] = row
        BY <1>2, <1>4 DEF FlagInv, SegmentsTyped
    <2>. QED
        BY <1>3, <2>1, RowsInUse DEF FlagInv, InUse
<1>9. ASSUME q.quiet PROVE q.definition \subseteq defined /\ (segment[s].review => q.row.review)
    BY <1>1, <1>9 DEF EditSound
<1>9a. q.definition \subseteq defined => Gone(q.definition) = {}
    BY NothingGone
<1>9b. Complete(s)' <=> Gone(q.definition) = {}
    BY <1>1, <1>3, <1>8 DEF Complete, Gone, Named
<1>10. ~row.unsettled => FlagSound(s)'
    <2>1. SUFFICES ASSUME q.quiet PROVE FlagSound(s)'
        BY <1>3
    <2>2. r \in Editing(s)'
        BY <1>7 DEF Editing
    <2>. QED
        BY <1>1, <1>3, <1>7, <1>8, <1>9, <1>9a, <1>9b, <2>1, <2>2 DEF FlagSound
<1>11. EditSound(r)'
    BY <1>1, <1>3, <1>5, <1>7, <1>8, <1>9, <1>9a, <1>9b DEF EditSound
<1>12. \A x \in Requests \ {r} :
           Edit(x) /\ request[x].segment = s /\ request[x].quiet /\ request[x].row # NoSegment =>
               (request[x].saved => row.unsettled \/ Gone(row.definition) = {})
    BY <1>3, <1>9, <1>9a DEF Edits
<1>13. /\ request'[r].row \in SegmentRows =>
            /\ request'[r].row.pending \subseteq spent \ defined
            /\ request'[r].definition \cap request'[r].row.pending = {}
    BY <1>1, <1>7 DEF FlagInv, IdsSpent
<1>. QED
    BY <1>1, <1>2, <1>3, <1>4, <1>5, <1>6, <1>7, <1>10, <1>11, <1>12, <1>13, OneEdit

\* The end of an edit whose definition is saved, or of one that breaks off.
LEMMA EditEnds ==
    ASSUME IInv, FlagInv, NEW r \in Requests, NEW s \in Segments, Edit(r), s = request[r].segment,
           NEW row \in SegmentStates, segment' = [segment EXCEPT ![s] = row],
           OthersKept(r), request'[r] = Idle, UNCHANGED <<defined, spent, reverted>>,
           InUse(s) =>
               /\ row \in SegmentRows
               /\ row.definition = segment[s].definition /\ row.pending \subseteq segment[s].pending
               /\ row.review => segment[s].review
               /\ segment[s].unsettled => row.unsettled
               /\ ~row.unsettled => FlagSound(s)',
           ~InUse(s) => row = segment[s]
    PROVE  FlagInv'
<1>1. InUse(s) <=> segment[s] \in SegmentRows
    BY RowsInUse DEF FlagInv
<1>2. /\ segment[s] # NoSegment => row # NoSegment
      /\ segment[s] = Deleted => row = Deleted
      /\ row \in SegmentRows => InUse(s)
    BY <1>1, RowsInUse DEF FlagInv
<1>3. InUse(s) => row.definition \subseteq spent /\ row.pending \subseteq spent \ defined
    BY DEF FlagInv, IdsSpent
<1>4. ASSUME InUse(s), NEW x \in Requests \ {r}, Edit(x), request[x].segment = s,
             request[x].quiet, request[x].row # NoSegment
      PROVE  request[x].saved => row.unsettled \/ Gone(row.definition) = {}
    BY <1>4 DEF FlagInv, EditSound, Complete, Gone
<1>5. ~Edit(r)'
    BY DEF Edit, Idle
<1>. QED
    BY <1>1, <1>2, <1>3, <1>4, <1>5, OneEdit

LEMMA ClearReviewFlag ==
    ASSUME IInv, FlagInv, NEW r \in Requests, ClearReview(r)
    PROVE  FlagInv'
<1>1. PICK s \in Segments : s = request[r].segment
    BY DEF ClearReview, FlagInv, SegmentsTyped, Edits, Edit
<1>. DEFINE q     == request[r]
            clear == [segment[s] EXCEPT !.review = FALSE, !.pending = {},
                                        !.unsettled = @ \/ ~q.quiet]
            row   == IF InUse(s) /\ Resolved(q.row, q.definition) THEN clear ELSE segment[s]
<1>2. /\ Edit(r) /\ q \in Edits /\ q.segment = s /\ q.saved /\ EditSound(r)
      /\ q.row \in SegmentRows => q.definition \cap q.row.pending = {}
      /\ UNCHANGED <<defined, spent, reverted>>
    BY <1>1 DEF ClearReview, Edit, FlagInv, SegmentsTyped, IdsSpent
<1>3. InUse(s) <=> segment[s] \in SegmentRows
    BY RowsInUse DEF FlagInv
<1>4. segment[s] \in SegmentRows =>
          /\ clear \in SegmentRows /\ clear.definition = segment[s].definition
          /\ clear.pending = {} /\ clear.review = FALSE
          /\ clear.unsettled = (segment[s].unsettled \/ ~q.quiet)
    BY <1>2 DEF SegmentRows, Edits
<1>5. segment' = [segment EXCEPT ![s] = row] /\ segment'[s] = row
    BY <1>1 DEF ClearReview, FlagInv, SegmentsTyped
<1>6. OthersKept(r) /\ request'[r] = Idle
    BY OnlyPagesDisturbed, DisturbedHarmless DEF ClearReview, OthersKept, Edit
<1>7. ASSUME InUse(s), Resolved(q.row, q.definition), ~row.unsettled PROVE FlagSound(s)'
    <2>. HIDE DEF clear
    <2>1. row = clear /\ ~segment[s].unsettled /\ q.quiet
        BY <1>3, <1>4, <1>7
    <2>. HIDE DEF row
    <2>2. Complete(s)
        BY <1>2, <1>7, <2>1 DEF EditSound
    <2>. QED
        BY <1>2, <1>3, <1>4, <1>5, <1>7, <2>1, <2>2 DEF FlagSound, Complete, Gone
<1>8. ASSUME InUse(s), ~Resolved(q.row, q.definition), ~segment[s].unsettled
      PROVE  FlagSound(s)'
    <2>1. segment'[s] = segment[s] /\ FlagSound(s)
        BY <1>5, <1>8 DEF FlagInv, Settled
    <2>2. ASSUME segment[s].review, Complete(s)
          PROVE  \E x \in Editing(s) \ {r} : request[x].row.review
        <3>1. PICK x \in Editing(s) : request[x].row.review
            BY <2>1, <2>2 DEF FlagSound
        <3>2. ~q.row.review
            BY <1>2, <1>8 DEF Resolved, EditSound, Edits
        <3>. QED
            BY <3>1, <3>2
    <2>3. \A x \in Editing(s) \ {r} : x \in Editing(s)' /\ request'[x] = request[x]
        BY <1>6 DEF Editing, OthersKept, Edit
    <2>. QED
        BY <1>2, <2>1, <2>2, <2>3 DEF FlagSound, Complete, Gone
<1>9. \/ row = clear /\ InUse(s) /\ Resolved(q.row, q.definition)
      \/ row = segment[s] /\ ~(InUse(s) /\ Resolved(q.row, q.definition))
    OBVIOUS
<1>10. segment[s] \in SegmentStates
    BY DEF FlagInv, SegmentsTyped
<1>. HIDE DEF clear, row
<1>11. row \in SegmentStates
    BY <1>3, <1>4, <1>9, <1>10 DEF SegmentStates
<1>12. InUse(s) =>
          /\ row \in SegmentRows
          /\ row.definition = segment[s].definition /\ row.pending \subseteq segment[s].pending
          /\ row.review => segment[s].review
          /\ segment[s].unsettled => row.unsettled
          /\ ~row.unsettled => FlagSound(s)'
    BY <1>3, <1>4, <1>7, <1>8, <1>9
<1>. QED
    BY <1>1, <1>2, <1>5, <1>6, <1>9, <1>11, <1>12, EditEnds

LEMMA FailFlag ==
    ASSUME IInv, FlagInv, NEW r \in Requests, Fail(r)
    PROVE  FlagInv'
<1>1. /\ request' = [request EXCEPT ![r] = Idle] /\ request'[r] = Idle /\ OthersKept(r)
      /\ UNCHANGED <<defined, spent, reverted>>
    BY DEF Fail, End, OthersKept, IInv, RequestsSound
<1>2. CASE ~Edit(r)
    <2>1. UNCHANGED segment
        BY <1>2 DEF Fail, Edit
    <2>2. EditsKept
        BY <1>1, <1>2 DEF EditsKept, OthersKept, Edit, Idle
    <2>. QED
        BY <1>1, <2>1, <2>2, NothingStored DEF FlagInv, SegmentsTyped
<1>3. CASE Edit(r)
    <2>1. PICK s \in Segments : s = request[r].segment
        BY <1>3 DEF FlagInv, SegmentsTyped, Edits
    <2>. DEFINE broken == [segment[s] EXCEPT !.unsettled = TRUE]
                row    == IF request[r].saved /\ InUse(s) THEN broken ELSE segment[s]
    <2>2. InUse(s) <=> segment[s] \in SegmentRows
        BY RowsInUse DEF FlagInv
    <2>3. segment[s] \in SegmentRows =>
              /\ broken \in SegmentRows /\ broken.definition = segment[s].definition
              /\ broken.pending = segment[s].pending /\ broken.review = segment[s].review
              /\ broken.unsettled
        BY DEF SegmentRows
    <2>4. segment' = [segment EXCEPT ![s] = row] /\ segment'[s] = row /\ segment[s] \in SegmentStates
        BY <1>3, <2>1 DEF Fail, Edit, FlagInv, SegmentsTyped
    <2>5. ASSUME InUse(s), ~request[r].saved, ~segment[s].unsettled PROVE FlagSound(s)'
        <3>1. segment'[s] = segment[s] /\ FlagSound(s)
            BY <2>4, <2>5 DEF FlagInv, Settled
        <3>2. \A x \in Editing(s) : x \in Editing(s)' /\ request'[x] = request[x]
            BY <1>1, <2>5 DEF Editing, OthersKept, Edit
        <3>. QED
            BY <1>1, <3>1, <3>2 DEF FlagSound, Complete, Gone
    <2>6. \/ row = broken /\ InUse(s) /\ request[r].saved
          \/ row = segment[s] /\ ~(InUse(s) /\ request[r].saved)
        OBVIOUS
    <2>. HIDE DEF broken, row
    <2>7. row \in SegmentStates
        BY <2>2, <2>3, <2>4, <2>6 DEF SegmentStates
    <2>8. InUse(s) =>
              /\ row \in SegmentRows
              /\ row.definition = segment[s].definition /\ row.pending \subseteq segment[s].pending
              /\ row.review => segment[s].review
              /\ segment[s].unsettled => row.unsettled
              /\ ~row.unsettled => FlagSound(s)'
        BY <2>2, <2>3, <2>5, <2>6
    <2>. QED
        BY <1>1, <1>3, <2>1, <2>4, <2>6, <2>7, <2>8, EditEnds
<1>. QED
    BY <1>2, <1>3

-----------------------------------------------------------------------------
(* Deletions.                                                              *)

LEMMA MarkedFields ==
    ASSUME NEW row \in SegmentRows, NEW deleted \in SUBSET Attributes
    PROVE  LET after == Marked(row, deleted)
               hit   == Named(row.definition, deleted) # {}
           IN  /\ after \in SegmentRows
               /\ after.definition = row.definition /\ after.unsettled = row.unsettled
               /\ after.review <=> row.review \/ hit
               /\ after.pending \subseteq row.pending \cup UNION deleted
<1>1. row \notin {NoSegment, Deleted}
    BY SegmentsAssumption DEF SegmentRows, NoSegment, Deleted
<1>. DEFINE hit   == Named(row.definition, deleted)
            added == UNION hit
<1>2. added \subseteq Terms /\ added \subseteq UNION deleted
    BY DEF Named, Terms
<1>3. Marked(row, deleted) = IF hit # {} THEN [row EXCEPT !.review = TRUE, !.pending = @ \cup added]
                             ELSE row
    BY <1>1 DEF Marked
<1>. HIDE DEF hit, added
<1>4. CASE hit = {}
    BY <1>3, <1>4 DEF hit
<1>5. CASE hit # {}
    <2>1. row.pending \cup added \subseteq Terms
        BY <1>2 DEF SegmentRows
    <2>. QED
        BY <1>2, <1>3, <1>5, <2>1 DEF SegmentRows, hit
<1>. QED
    BY <1>4, <1>5

LEMMA SaveDefinitionsFlag ==
    ASSUME IInv, FlagInv, NEW actor \in Users, NEW new, NEW deleted, NEW removed,
           SaveDefinitions(actor, new, deleted, removed)
    PROVE  FlagInv'
<1>. DEFINE gone == UNION deleted
<1>0. deleted \subseteq Attributes /\ new \subseteq Terms /\ defined \subseteq spent /\ spent \subseteq Terms
    BY DEF SaveDefinitions, Named, FlagInv, SegmentsTyped
<1>1. /\ new \cap spent = {} /\ new \cap gone = {} /\ removed \subseteq defined \ gone
      /\ defined' = (defined \ (gone \cup removed)) \cup new
      /\ spent' = spent \cup new \cup gone
      /\ defined \subseteq spent /\ spent \subseteq Terms /\ gone \subseteq Terms
      /\ reverted' = reverted
    BY <1>0 DEF SaveDefinitions, Terms
<1>1a. gone \cap defined' = {} /\ gone \subseteq spent'
    BY <1>1
<1>1b. ASSUME NEW a \in Attributes \ deleted, a \cap defined # {} PROVE a \cap defined' # {}
    <2>1. a \cap gone = {}
        BY <1>0, <1>1b, SegmentsAssumption
    <2>2. CASE a \cap removed = {}
        BY <1>1, <1>1b, <2>1, <2>2
    <2>3. CASE a \cap removed # {}
        <3>1. ((defined \ removed) \cup new) \cap a # {}
            BY <1>1, <2>3 DEF SaveDefinitions, Named
        <3>. QED
            BY <1>1, <2>1, <3>1
    <2>. QED
        BY <2>2, <2>3
<1>1c. ASSUME NEW a \in Attributes, a \cap spent # {}, a \cap defined = {} PROVE a \cap defined' = {}
    <2>1. a \subseteq spent
        BY <1>1c DEF FlagInv, IdsSpent
    <2>. QED
        BY <1>1, <1>1c, <2>1
<1>1d. \A a \in deleted : a \cap defined' = {}
    BY <1>1a
<1>. HIDE DEF gone
<1>2. ASSUME NEW definition \in SUBSET spent
      PROVE  (\E a \in Attributes : definition \cap a # {} /\ defined' \cap a = {})
             <=> Gone(definition) # {} \/ Named(definition, deleted) # {}
    BY <1>0, <1>1b, <1>1c, <1>1d DEF Gone, Named
<1>3. \A ids : ids \subseteq spent \ defined => ids \subseteq spent' \ defined'
    BY <1>1
<1>4. \A s \in Segments : InUse(s) <=> segment[s] \in SegmentRows
    BY RowsInUse DEF FlagInv
<1>5. ASSUME NEW s \in Segments
      PROVE  /\ segment'[s] = Marked(segment[s], deleted)
             /\ segment[s] \notin SegmentRows => segment'[s] = segment[s] /\ ~InUse(s) /\ ~InUse(s)'
             /\ segment[s] \in SegmentRows =>
                  /\ InUse(s) /\ segment'[s] \in SegmentRows
                  /\ segment'[s].definition = segment[s].definition
                  /\ segment'[s].unsettled = segment[s].unsettled
                  /\ segment'[s].review <=> segment[s].review \/ Named(segment[s].definition, deleted) # {}
                  /\ segment'[s].pending \subseteq segment[s].pending \cup gone
    <2>1. segment'[s] = Marked(segment[s], deleted)
        BY DEF SaveDefinitions
    <2>2. segment[s] \notin SegmentRows => segment'[s] = segment[s] /\ ~InUse(s) /\ ~InUse(s)'
        BY <1>4, <2>1 DEF InUse, Marked
    <2>. QED
        <3>1. deleted \in SUBSET Attributes
            BY <1>0
        <3>2. ASSUME segment[s] \in SegmentRows
              PROVE  /\ Marked(segment[s], deleted) \in SegmentRows
                     /\ Marked(segment[s], deleted).definition = segment[s].definition
                     /\ Marked(segment[s], deleted).unsettled = segment[s].unsettled
                     /\ Marked(segment[s], deleted).review <=>
                           segment[s].review \/ Named(segment[s].definition, deleted) # {}
                     /\ Marked(segment[s], deleted).pending \subseteq segment[s].pending \cup gone
            BY <3>1, <3>2, MarkedFields DEF gone
        <3>. QED
            BY <1>4, <2>1, <2>2, <3>2
<1>6. ASSUME NEW x \in Requests, Edit(x)'
      PROVE  /\ Edit(x) /\ request[x] \in Edits /\ request'[x] \in Edits
             /\ request'[x] = [request[x] EXCEPT !.quiet = FALSE]
             /\ ~request'[x].quiet
             /\ \A field \in {"kind", "user", "segment", "definition", "row", "saved"} :
                    request'[x][field] = request[x][field]
    <2>1. request' = Disturbed({"segment", "page"}) /\ request'[x].kind = request[x].kind
        BY DisturbedHarmless DEF SaveDefinitions
    <2>2. request[x] \in Edits
        BY <1>6, <2>1 DEF FlagInv, SegmentsTyped, Edit
    <2>3. request'[x] = [request[x] EXCEPT !.quiet = FALSE]
        BY <1>6, <2>1 DEF Disturbed, Edit
    <2>. QED
        BY <1>6, <2>1, <2>2, <2>3 DEF Edit, Edits
<1>7. ASSUME NEW x \in Requests, Edit(x)
      PROVE  /\ request'[x].kind = "segment" /\ request'[x].segment = request[x].segment
             /\ request'[x].saved = request[x].saved /\ request'[x].row = request[x].row
    <2>1. request' = Disturbed({"segment", "page"})
        BY DEF SaveDefinitions
    <2>. QED
        BY <1>7, <2>1 DEF Disturbed, Edit, FlagInv, SegmentsTyped, Edits
<1>8. SegmentsTyped'
    <2>1. segment' \in [Segments -> SegmentStates]
        <3>1. segment' = [s \in Segments |-> segment'[s]]
            BY DEF SaveDefinitions
        <3>2. \A s \in Segments : segment'[s] \in SegmentStates
            BY <1>5 DEF FlagInv, SegmentsTyped, SegmentStates
        <3>. QED
            BY <3>1, <3>2
    <2>. QED
        BY <1>0, <1>1, <1>6, <2>1 DEF FlagInv, SegmentsTyped
<1>9. IdsSpent'
    <2>1. ASSUME NEW s \in Segments, InUse(s)'
          PROVE  segment'[s].definition \subseteq spent' /\ segment'[s].pending \subseteq spent' \ defined'
        <3>1. /\ segment[s].definition \subseteq spent /\ segment[s].pending \subseteq spent \ defined
              /\ segment'[s].definition = segment[s].definition
              /\ segment'[s].pending \subseteq segment[s].pending \cup gone
            BY <1>5, <2>1 DEF FlagInv, IdsSpent
        <3>2. gone \subseteq spent' \ defined'
            BY <1>1a
        <3>. QED
            BY <1>1, <1>3, <3>1, <3>2
    <2>2. ASSUME NEW x \in Requests, Edit(x)'
          PROVE  /\ request'[x].definition \subseteq spent'
                 /\ request'[x].row \in SegmentRows =>
                        /\ request'[x].row.pending \subseteq spent' \ defined'
                        /\ request'[x].definition \cap request'[x].row.pending = {}
        BY <1>1, <1>3, <1>6, <2>2 DEF FlagInv, IdsSpent
    <2>3. ASSUME NEW a \in Attributes, a \cap spent' # {}
          PROVE  a \cap defined' # {} \/ a \subseteq spent'
        <3>1. CASE a \in deleted
            BY <1>1, <3>1 DEF gone
        <3>2. CASE a \notin deleted
            <4>1. a \cap gone = {}
                BY <1>0, <3>2, SegmentsAssumption DEF gone
            <4>2. a \cap new # {} \/ a \cap spent # {}
                BY <1>1, <2>3, <4>1
            <4>3. a \cap spent # {} => a \cap defined # {} \/ a \subseteq spent
                BY DEF FlagInv, IdsSpent
            <4>. QED
                BY <1>1, <1>1b, <3>2, <4>2, <4>3
        <3>. QED
            BY <3>1, <3>2
    <2>. QED
        BY <2>1, <2>2, <2>3 DEF IdsSpent
<1>10. ASSUME NEW s \in Segments, Settled(s)' PROVE FlagSound(s)'
    <2>1. /\ InUse(s) /\ Settled(s) /\ FlagSound(s) /\ segment[s].definition \subseteq spent
          /\ segment'[s].definition = segment[s].definition
          /\ segment'[s].review <=> segment[s].review \/ Named(segment[s].definition, deleted) # {}
        BY <1>5, <1>10 DEF Settled, FlagInv, IdsSpent
    <2>2. Complete(s)' <=> Complete(s) /\ Named(segment[s].definition, deleted) = {}
        <3>1. Complete(s)' <=> ~\E a \in Attributes :
                                  segment'[s].definition \cap a # {} /\ defined' \cap a = {}
            BY DEF Complete, Gone, Named
        <3>. QED
            BY <1>2, <2>1, <3>1 DEF Complete
    <2>3. \A x \in Editing(s) : x \in Editing(s)' /\ request'[x].row = request[x].row
        BY <1>7 DEF Editing, Edit
    <2>. QED
        BY <2>1, <2>2, <2>3 DEF FlagSound
<1>11. ASSUME NEW x \in Requests, Edit(x)' PROVE EditSound(x)'
    <2>1. EditSound(x) /\ request[x].segment \in Segments
        BY <1>6, <1>11 DEF FlagInv, Edits
    <2>2. segment[request[x].segment] # NoSegment => segment'[request[x].segment] # NoSegment
        BY <1>5, <2>1, RowsInUse DEF FlagInv
    <2>. QED
        BY <1>6, <1>11, <2>1, <2>2 DEF EditSound
<1>. QED
    BY <1>8, <1>9, <1>10, <1>11 DEF FlagInv

\* No attribute that was deleted comes back.
NoRevival ==
    /\ spent \subseteq spent'
    /\ \A a \in Attributes : a \cap spent # {} /\ defined' \cap a # {} => defined \cap a # {}

LEMMA SaveDefinitionsRevive ==
    ASSUME FlagInv, NEW actor, NEW new, NEW deleted, NEW removed,
           SaveDefinitions(actor, new, deleted, removed)
    PROVE  NoRevival
<1>1. /\ defined' \subseteq defined \cup new /\ new \cap spent = {} /\ spent \subseteq spent'
    BY DEF SaveDefinitions
<1>2. \A a \in Attributes : a \cap spent # {} => a \cap defined # {} \/ a \subseteq spent
    BY DEF FlagInv, IdsSpent
<1>. QED
    BY <1>1, <1>2 DEF NoRevival

LEMMA DeleteSegmentFlag ==
    ASSUME IInv, FlagInv, NEW u \in Users, NEW d \in Segments, DeleteSegment(u, d)
    PROVE  FlagInv'
<1>1. /\ segment' = [segment EXCEPT ![d] = Deleted] /\ UNCHANGED <<defined, spent, reverted>>
      /\ \A x \in Requests : Edit(x) \/ Edit(x)' => request'[x] = request[x]
    BY OnlyPagesDisturbed, DisturbedHarmless DEF DeleteSegment, Edit
<1>2. ~InUse(d)' /\ Deleted # NoSegment /\ segment'[d] = Deleted
      /\ \A s \in Segments \ {d} : segment'[s] = segment[s] /\ (InUse(s)' <=> InUse(s))
    BY <1>1 DEF InUse, Deleted, NoSegment, FlagInv, SegmentsTyped
<1>3. SegmentsTyped'
    BY <1>1 DEF FlagInv, SegmentsTyped, SegmentStates, Edit
<1>4. IdsSpent'
    BY <1>1, <1>2 DEF FlagInv, IdsSpent, Edit
<1>5. ASSUME NEW s \in Segments, Settled(s)' PROVE FlagSound(s)'
    <2>1. Settled(s) /\ FlagSound(s) /\ segment'[s] = segment[s]
        BY <1>2, <1>5 DEF Settled, FlagInv
    <2>2. \A x \in Editing(s) : x \in Editing(s)' /\ request'[x] = request[x]
        BY <1>1 DEF Editing, Edit
    <2>. QED
        BY <1>1, <2>1, <2>2 DEF FlagSound, Complete, Gone
<1>6. ASSUME NEW x \in Requests, Edit(x)' PROVE EditSound(x)'
    <2>1. EditSound(x) /\ request'[x] = request[x] /\ request[x].segment \in Segments
        BY <1>1, <1>6 DEF FlagInv, SegmentsTyped, Edits, Edit
    <2>. QED
        BY <1>1, <1>2, <2>1 DEF EditSound, Complete, Gone
<1>. QED
    BY <1>3, <1>4, <1>5, <1>6 DEF FlagInv

LEMMA PagesKeep ==
    ASSUME IInv, NEW r \in Requests,
           \/ ReadCachedAttributes(r) \/ ReadAttributes(r) \/ ReadSegment(r)
           \/ RedirectCanonical(r) \/ RedirectRestored(r) \/ Render(r)
    PROVE  EditsKept /\ UNCHANGED <<defined, spent, segment, reverted>>
<1>1. ~Edit(r) /\ UNCHANGED <<defined, spent, segment, reverted>>
    BY DEF ReadCachedAttributes, ReadAttributes, ReadSegment, RedirectCanonical, RedirectRestored,
           Redirect, Render, Answers, HasRead, Edit, segmentVars
<1>2. \E q : q.kind # "segment" /\ request' = [request EXCEPT ![r] = q]
    <2>1. CASE ReadCachedAttributes(r) \/ ReadAttributes(r) \/ ReadSegment(r)
        <3>1. PICK field, value :
                  /\ field \in {"attributes", "found"}
                  /\ request' = [request EXCEPT ![r] = [request[r] EXCEPT ![field] = value]]
            BY <2>1 DEF ReadCachedAttributes, ReadAttributes, ReadSegment, Known
        <3>2. request[r].kind = "page" /\ "kind" \in DOMAIN request[r]
            BY <2>1 DEF ReadCachedAttributes, ReadAttributes, ReadSegment, IInv, RequestsSound, Sound
        <3>3. LET q == [request[r] EXCEPT ![field] = value] IN q.kind = "page"
            BY <3>1, <3>2
        <3>. QED
            BY <3>1, <3>3
    <2>2. CASE RedirectCanonical(r) \/ RedirectRestored(r)
        BY <2>2 DEF RedirectCanonical, RedirectRestored, Redirect, PageRequest
    <2>3. CASE Render(r)
        BY <2>3 DEF Render, End, Idle
    <2>. QED
        BY <2>1, <2>2, <2>3
<1>. QED
    BY <1>1, <1>2, NotAnEdit DEF IInv

LEMMA FlagStep == IInv /\ FlagInv /\ [Next]_vars => FlagInv'
<1>. SUFFICES ASSUME IInv, FlagInv, [Next]_vars PROVE FlagInv'
    OBVIOUS
<1>1. ASSUME EditsKept, UNCHANGED <<defined, spent, segment, reverted>> PROVE FlagInv'
    BY <1>1, NothingStored DEF FlagInv, SegmentsTyped
<1>2. CASE UNCHANGED vars
    BY <1>1, <1>2 DEF vars, EditsKept
<1>3. CASE MembersStep /\ UNCHANGED segmentVars
    BY <1>1, <1>3, MembersKeep, OnlyMembers DEF segmentVars
<1>4. CASE ProjectsStep /\ Cascade
    BY <1>4, ProjectsKeep, OnlyMembers, CascadeFlag
<1>5. CASE SegmentsStep
    <2>1. ASSUME NEW u \in Users, SaveValues(u) PROVE FlagInv'
        BY <1>1, <2>1 DEF SaveValues, segmentVars, EditsKept
    <2>2. ASSUME NEW r \in Free, NEW u \in Users, NEW cachedRead \in BOOLEAN, NEW url \in Urls,
                 OpenPage(r, u, cachedRead, url)
          PROVE  FlagInv'
        <3>1. r \in Requests /\ ~Edit(r)
            BY DEF Free, Idle, Edit
        <3>2. \E q : q.kind # "segment" /\ request' = [request EXCEPT ![r] = q]
            BY <2>2 DEF OpenPage, Begin, PageRequest
        <3>3. EditsKept
            BY <3>1, <3>2, NotAnEdit DEF IInv
        <3>. QED
            BY <1>1, <2>2, <3>3 DEF OpenPage, segmentVars
    <2>. QED
        BY <1>1, <1>5, <2>1, <2>2, PagesKeep, SaveDefinitionsFlag, AskSegmentFlag, DeleteSegmentFlag,
           StoreSegmentFlag, StoreDefinitionFlag, ClearReviewFlag, FailFlag
        DEF SegmentsStep
<1>. QED
    BY <1>2, <1>3, <1>4, <1>5 DEF Next

\* The flag of a settled segment says whether an attribute it names is gone: through deletions,
\* saves and clearings of the flag by any number of requests (company_segment_reviews.py:19,
\* company_segments.py:260-323).
THEOREM FlagsTruthful == Spec => []FlagTruthful
<1>1. Spec => [](IInv /\ FlagInv)
    <2>1. Init => IInv /\ FlagInv
        BY InitSound, FlagInit
    <2>2. (IInv /\ FlagInv) /\ [Next]_vars => (IInv /\ FlagInv)'
        BY NextSound, FlagStep
    <2>. QED
        BY <2>1, <2>2, PTL DEF Spec
<1>. QED
    BY <1>1, FlagTruth, PTL

-----------------------------------------------------------------------------
(* The cache of attributes by revision.  A revision is never given twice,  *)
(* unless a full save has taken it back.                                   *)

RowSavers == {"key", "rename"}

Revisions ==
    /\ begun \in 0 .. MaxRequests
    /\ \A p \in Projects : project[p].revision <= begun
    /\ \A r \in Requests : request[r].kind \in RowSavers => request[r].row.revision <= begun

LEMMA RevisionsInit == Init => Revisions
<1>. SUFFICES ASSUME Init PROVE Revisions
    OBVIOUS
<1>0. MaxRequests \in Nat
    BY MembersAssumption
<1>1. begun = 0
    BY DEF Init, MembersInit
<1>2. \A p \in Projects : project[p].revision = 0
    <2>. DEFINE First == {NoProject} \cup {[FirstSave(w) EXCEPT !.keyed = TRUE] : w \in Workspaces}
    <2>1. ASSUME NEW row \in First PROVE row.revision = 0
        <3>1. CASE row = NoProject
            BY <3>1 DEF NoProject
        <3>2. ASSUME NEW w \in Workspaces, row = [FirstSave(w) EXCEPT !.keyed = TRUE]
              PROVE  row.revision = 0
            BY <3>2 DEF FirstSave
        <3>. QED
            BY <3>1, <3>2
    <2>2. project \in [Projects -> First]
        BY DEF Init, ProjectsInit
    <2>. HIDE DEF First
    <2>. QED
        BY <2>1, <2>2
<1>3. \A r \in Requests : request[r].kind \notin RowSavers
    BY DEF Init, MembersInit, Idle, RowSavers
<1>. QED
    BY <1>0, <1>1, <1>2, <1>3 DEF Revisions

LEMMA RevisionTyped ==
    ASSUME IInv
    PROVE  /\ \A p \in Projects : project[p] \in Rows /\ project[p].revision \in Nat
           /\ \A r \in Requests : request[r].kind \in RowSavers =>
                request[r].row \in Rows /\ request[r].row.revision \in Nat
BY DEF IInv, ProjectsTyped, RequestsSound, Sound, Saves, Rows, RowSavers

\* One request begins.
LEMMA OneBegins == ASSUME Revisions, NEW r \in Free PROVE r \in Requests /\ begun + 1 \in 0 .. MaxRequests
BY MembersAssumption DEF Revisions, Free

\* A step that begins or ends one request at the most.
OneRequest ==
    \/ UNCHANGED <<request, begun>>
    \/ UNCHANGED request /\ AtOnce
    \/ \E r \in Requests : \E q :
        /\ request' = [request EXCEPT ![r] = q]
        /\ begun' = begun \/ (r \in Free /\ begun' = begun + 1)
        /\ q.kind \in RowSavers => q.row.revision <= begun'

LEMMA RevisionsMove ==
    ASSUME IInv, Revisions, OneRequest, \A p \in Projects : project'[p].revision <= begun'
    PROVE  Revisions' /\ begun <= begun'
<1>0. MaxRequests \in Nat /\ begun \in Nat /\ begun <= MaxRequests
    BY MembersAssumption DEF Revisions
<1>1. begun' = begun \/ (begun' = begun + 1 /\ begun < MaxRequests)
    BY DEF OneRequest, Free, AtOnce
<1>2. begun' \in 0 .. MaxRequests /\ begun <= begun' /\ begun' \in Nat
    BY <1>0, <1>1
<1>3. ASSUME NEW x \in Requests, request'[x].kind \in RowSavers
      PROVE  request'[x].row.revision <= begun'
    <2>1. request'[x] = request[x] => request'[x].row.revision <= begun'
        BY <1>0, <1>2, <1>3, RevisionTyped DEF Revisions
    <2>. QED
        BY <1>3, <2>1 DEF OneRequest, IInv, RequestsSound
<1>. QED
    BY <1>2, <1>3 DEF Revisions

LEMMA SameRevisions ==
    ASSUME IInv, Revisions, begun <= begun', begun' \in Nat
    PROVE  \A p \in Projects : project[p].revision <= begun'
BY RevisionTyped DEF Revisions

LEMMA BegunGrows ==
    ASSUME Revisions, OneRequest PROVE begun <= begun' /\ begun' \in Nat
<1>0. MaxRequests \in Nat /\ begun \in Nat /\ begun <= MaxRequests
    BY MembersAssumption DEF Revisions
<1>. QED
    BY <1>0 DEF OneRequest, Free, AtOnce

LEMMA MembersRequests == ASSUME IInv, MembersStep PROVE OneRequest
<1>1. ASSUME NEW r \in Free, NEW w \in Workspaces, NEW actor \in Users, NEW target \in Users,
             NEW role \in Roles,
             \/ AskRemove(r, w, actor, target)
             \/ AskAdd(r, w, actor, target, role)
             \/ AskRole(r, w, actor, target, role)
             \/ AskWorkspace(r, w, actor)
      PROVE  OneRequest
    <2>1. \E q : /\ q.kind \notin RowSavers /\ request' = [request EXCEPT ![r] = q]
                 /\ begun' = begun + 1
        BY <1>1 DEF AskRemove, AskAdd, AskRole, AskWorkspace, Begin, RowSavers
    <2>2. r \in Requests
        BY DEF Free
    <2>. QED
        BY <2>1, <2>2 DEF OneRequest
<1>2. ASSUME NEW r \in Requests,
             AddMember(r) \/ RemoveMember(r) \/ ChangeRole(r) \/ CreateWorkspace(r)
      PROVE  OneRequest
    <2>1. Idle.kind \notin RowSavers /\ request' = [request EXCEPT ![r] = Idle] /\ begun' = begun
        BY <1>2 DEF AddMember, RemoveMember, ChangeRole, CreateWorkspace, End, Idle, RowSavers
    <2>. QED
        BY <2>1 DEF OneRequest
<1>3. ASSUME NEW w \in Workspaces, RestoreWorkspace(w) \/ ExpireWorkspace(w) PROVE OneRequest
    BY <1>3 DEF RestoreWorkspace, ExpireWorkspace, OneRequest
<1>4. Roles # {}
    BY DEF Roles
<1>. QED
    BY <1>1, <1>2, <1>3, <1>4 DEF MembersStep

LEMMA ProjectsRequests ==
    ASSUME IInv, Revisions, ProjectsStep
    PROVE  OneRequest /\ \A p \in Projects : project'[p].revision <= begun'
<1>0. MaxRequests \in Nat /\ begun \in Nat /\ begun <= MaxRequests
    BY MembersAssumption DEF Revisions
<1>. DEFINE Bounded == \A p \in Projects : project'[p].revision <= begun'
<1>1. ASSUME OneRequest, UNCHANGED project PROVE OneRequest /\ Bounded
    BY <1>1, BegunGrows, SameRevisions
<1>2. ASSUME NEW r \in Free, NEW w \in Workspaces, NEW actor \in Users,
             AskProject(r, w, actor) \/ AskDelete(r, w, actor) \/ AskOnboarding(r, w, actor)
      PROVE  OneRequest /\ Bounded
    <2>1. \E q : /\ q.kind \notin RowSavers /\ request' = [request EXCEPT ![r] = q]
                 /\ begun' = begun + 1
        BY <1>2 DEF AskProject, AskDelete, AskOnboarding, Begin, RowSavers
    <2>2. r \in Requests /\ UNCHANGED project
        BY <1>2 DEF Free, AskProject, AskDelete, AskOnboarding
    <2>. QED
        BY <1>1, <2>1, <2>2 DEF OneRequest
<1>3. ASSUME NEW r \in Free, NEW p \in Projects, NEW actor \in Users,
             AskRename(r, p, actor) \/ AskArchive(r, p, actor)
      PROVE  OneRequest /\ Bounded
    <2>1. \E q : /\ q.kind \in RowSavers => q.row = project[p]
                 /\ request' = [request EXCEPT ![r] = q]
                 /\ begun' = begun + 1
        BY <1>3 DEF AskRename, AskArchive, Begin, RowSavers
    <2>2. r \in Requests /\ UNCHANGED project /\ project[p].revision <= begun + 1
        BY <1>0, <1>3, RevisionTyped DEF Free, AskRename, AskArchive, Revisions
    <2>. QED
        BY <1>1, <2>1, <2>2 DEF OneRequest
<1>4. ASSUME NEW p, NEW row, row.revision <= begun', project' = [project EXCEPT ![p] = row], OneRequest
      PROVE  OneRequest /\ Bounded
    BY <1>4, BegunGrows, SameRevisions DEF IInv, ProjectsTyped
<1>5. ASSUME NEW r \in Requests, NEW p \in Projects, CreateProject(r, p) \/ Onboard(r, p)
      PROVE  OneRequest /\ Bounded
    <2>1. PICK row : row.revision = 0 /\ project' = [project EXCEPT ![p] = row]
        BY <1>5 DEF CreateProject, Onboard, FirstSave
    <2>2. \E q : /\ q.kind \in RowSavers => q.row.revision = 0
                 /\ request' = [request EXCEPT ![r] = q]
        BY <1>5 DEF CreateProject, Onboard, FirstSave, End, Idle, RowSavers
    <2>3. begun' = begun /\ row.revision <= begun'
        BY <1>0, <1>5, <2>1 DEF CreateProject, Onboard, End
    <2>. QED
        BY <1>0, <1>4, <2>1, <2>2, <2>3 DEF OneRequest
<1>6. ASSUME NEW r \in Requests, End(r) PROVE OneRequest
    <2>1. Idle.kind \notin RowSavers /\ request' = [request EXCEPT ![r] = Idle] /\ begun' = begun
        BY <1>6 DEF End, Idle, RowSavers
    <2>. QED
        BY <2>1 DEF OneRequest
<1>7. ASSUME NEW r \in Requests, SaveKey(r) \/ SaveName(r) PROVE OneRequest /\ Bounded
    <2>1. End(r) /\ request[r].kind \in RowSavers
        BY <1>7 DEF SaveKey, SaveName, RowSavers
    <2>2. request[r].row \in Rows /\ request[r].row.revision <= begun'
        BY <2>1, RevisionTyped DEF Revisions, End
    <2>3. PICK row : row.revision <= begun' /\ project' = [project EXCEPT ![request[r].project] = row]
        <3>1. [request[r].row EXCEPT !.keyed = TRUE].revision = request[r].row.revision
            BY <2>2 DEF Rows
        <3>. QED
            BY <1>7, <2>2, <3>1 DEF SaveKey, SaveName, FullSave
    <2>. QED
        BY <1>4, <1>6, <2>1, <2>3
<1>8. ASSUME OneRequest, \A p \in Projects : project'[p].revision = project[p].revision
      PROVE  OneRequest /\ Bounded
    BY <1>8, BegunGrows, SameRevisions
<1>9. ASSUME NEW r \in Requests, ArchiveProject(r) \/ ArchiveWorkspace(r) PROVE OneRequest /\ Bounded
    <2>1. \A p \in Projects : project'[p].revision = project[p].revision
        BY <1>9 DEF ArchiveProject, ArchiveWorkspace, IInv, ProjectsTyped, Rows
    <2>. QED
        BY <1>6, <1>8, <1>9, <2>1 DEF ArchiveProject, ArchiveWorkspace
<1>10. ASSUME NEW p \in Projects, RestoreProject(p) \/ ExpireProject(p) PROVE OneRequest /\ Bounded
    <2>1. \A x \in Projects : project'[x].revision = project[x].revision
        BY <1>10 DEF RestoreProject, ExpireProject, IInv, ProjectsTyped, Rows
    <2>. QED
        BY <1>8, <1>10, <2>1 DEF RestoreProject, ExpireProject, OneRequest
<1>11. ASSUME \/ PurgeSelect \/ PurgeSelectWorkspaces \/ PurgeCollect \/ PurgeDelete \/ PurgeFails
              \/ \E w \in Workspaces : PurgeLook(w)
       PROVE  OneRequest /\ Bounded
    <2>1. CASE PurgeDelete
        <3>1. \A x \in Projects : project'[x].revision = project[x].revision
            BY <2>1 DEF PurgeDelete, IInv, ProjectsTyped, Rows
        <3>. QED
            BY <1>8, <2>1, <3>1 DEF PurgeDelete, OneRequest
    <2>2. CASE \/ PurgeSelect \/ PurgeSelectWorkspaces \/ PurgeCollect \/ PurgeFails
               \/ \E w \in Workspaces : PurgeLook(w)
        <3>1. UNCHANGED <<project, request, begun>>
            BY <2>2 DEF PurgeSelect, PurgeSelectWorkspaces, PurgeLook, PurgeCollect, PurgeFails, Reading
        <3>. QED
            BY <1>1, <3>1 DEF OneRequest
    <2>. QED
        BY <1>11, <2>1, <2>2
<1>. QED
    BY <1>2, <1>3, <1>5, <1>7, <1>9, <1>10, <1>11 DEF ProjectsStep

-----------------------------------------------------------------------------
(* Pages.                                                                  *)

Caches == [kept : {TRUE}, ids : SUBSET Terms]
Pages == [kind : {"page"}, user : Users, cachedRead : BOOLEAN, url : Urls, revision : 0 .. MaxRequests,
          known : SUBSET Terms, attributes : {Unread} \cup [read : {TRUE}, ids : SUBSET Terms],
          found : {Unread} \cup [read : {TRUE}, row : SegmentRows \cup {NoSegment}],
          hops : Nat, quiet : BOOLEAN]

Page(r) == request[r].kind = "page"

PagesTyped ==
    /\ cached \in [0 .. MaxRequests -> Caches \cup {NotCached}]
    /\ remembered \in [Users -> [definition : SUBSET Terms, segment : Segments \cup {None}]]
    /\ \A r \in Requests : Page(r) => request[r] \in Pages

Kept(n) == cached[n] # NotCached

\* Nothing is kept for a revision to come, nor for the present one but the present attributes.
CacheSound ==
    /\ \A n \in 0 .. MaxRequests : Kept(n) => n <= project[Product].revision
    /\ Kept(project[Product].revision) => cached[project[Product].revision].ids = defined

Mine(s, u) == s # None /\ InUse(s) /\ segment[s].user = u

\* The URL that the canonical redirect would not correct.
Straight(url, u) ==
    LET s == url.segment
    IN  IF Mine(s, u) /\ segment[s].review THEN url.pairs = {}
        ELSE IF Mine(s, u) /\ segment[s].definition \cap defined # {}
        THEN url.pairs = segment[s].definition \cap defined
        ELSE s = None /\ url.pairs \subseteq defined

\* What a page has read is what is there.
ReadSound(r) ==
    LET q   == request[r]
        s   == q.url.segment
        row == q.found.row
    IN  /\ Kept(q.revision) => cached[q.revision].ids = defined
        /\ q.attributes # Unread => q.attributes.ids = defined
        /\ q.found # Unread =>
            /\ row # NoSegment <=> Mine(s, q.user)
            /\ row # NoSegment =>
                /\ row.definition = segment[s].definition
                /\ row.review = segment[s].review
                /\ ~row.unsettled /\ ~row.review => Gone(row.definition) = {}

HopsSound(r) ==
    /\ request[r].hops <= 2
    /\ request[r].hops > 0 => Straight(request[r].url, request[r].user)
    /\ request[r].hops = 2 => request[r].url.named

PageInv ==
    /\ PagesTyped
    /\ ~reverted => CacheSound
    /\ \A r \in Requests : Page(r) /\ ~reverted =>
        /\ request[r].revision <= project[Product].revision
        /\ request[r].quiet => ReadSound(r) /\ HopsSound(r)

PagesInvariant == IInv /\ FlagInv /\ Revisions /\ PageInv

LEMMA PageInit == Init => PageInv
<1>. SUFFICES ASSUME Init PROVE PageInv
    OBVIOUS
<1>1. \A r \in Requests : ~Page(r)
    BY DEF Init, MembersInit, Idle, Page
<1>2. cached = [n \in 0 .. MaxRequests |-> NotCached] /\ \A n \in 0 .. MaxRequests : ~Kept(n)
    BY DEF Init, Kept
<1>3. remembered \in [Users -> [definition : SUBSET Terms, segment : Segments \cup {None}]]
    BY DEF Init, NothingRemembered
<1>4. PagesTyped
    BY <1>1, <1>2, <1>3 DEF PagesTyped
<1>5. project[Product].revision \in 0 .. MaxRequests
    BY RevisionsInit, InitSound, RevisionTyped, SegmentsAssumption, MembersAssumption DEF Revisions
<1>. QED
    BY <1>1, <1>2, <1>4, <1>5 DEF PageInv, CacheSound

\* The revision of the project is one of those the cache can hold.
LEMMA Revision ==
    ASSUME IInv, Revisions
    PROVE  project[Product].revision \in 0 .. MaxRequests /\ MaxRequests \in Nat
<1>1. MaxRequests \in Nat /\ Product \in Projects
    BY MembersAssumption, SegmentsAssumption
<1>2. project[Product].revision \in Nat
    BY <1>1, RevisionTyped
<1>. QED
    BY <1>1, <1>2 DEF Revisions

-----------------------------------------------------------------------------
(* Steps of others, as a page sees them.                                   *)

SameScopes ==
    /\ defined' = defined
    /\ \A s \in Segments :
        /\ InUse(s)' <=> InUse(s)
        /\ InUse(s) => /\ segment'[s].user = segment[s].user
                       /\ segment'[s].definition = segment[s].definition
                       /\ segment'[s].review = segment[s].review

LEMMA StraightStays ==
    ASSUME SameScopes, NEW url \in Urls, NEW u, Straight(url, u)
    PROVE  Straight(url, u)'
BY DEF SameScopes, Straight, Mine, Urls

LEMMA ReadStays ==
    ASSUME SameScopes, UNCHANGED cached, NEW r, request[r] \in Pages, request'[r] = request[r],
           ReadSound(r), HopsSound(r)
    PROVE  ReadSound(r)' /\ HopsSound(r)'
<1>1. request[r].url \in Urls /\ request[r].url.segment \in Segments \cup {None}
    BY DEF Pages, Urls
<1>2. ReadSound(r)'
    BY <1>1 DEF SameScopes, ReadSound, Gone, Kept, Mine
<1>3. HopsSound(r)'
    BY <1>1, StraightStays DEF HopsSound
<1>. QED
    BY <1>2, <1>3

\* Pages learn at most that there was a write, and do when it concerns them.
LEMMA PagesStay ==
    ASSUME IInv, Revisions, PageInv, UNCHANGED cached, reverted => reverted', reverted' \in BOOLEAN,
           IInv', Revisions',
           remembered' \in [Users -> [definition : SUBSET Terms, segment : Segments \cup {None}]],
           ~reverted' => /\ project[Product].revision <= project'[Product].revision
                         /\ project[Product].revision < project'[Product].revision \/ defined' = defined,
           \A r \in Requests : Page(r)' =>
               /\ Page(r)
               /\ \/ request'[r] = request[r] /\ (~reverted' => SameScopes)
                  \/ request'[r] = [request[r] EXCEPT !.quiet = FALSE]
    PROVE  PageInv'
<1>1. PagesTyped'
    <2>1. ASSUME NEW q \in Pages PROVE [q EXCEPT !.quiet = FALSE] \in Pages
        BY DEF Pages
    <2>2. ASSUME NEW r \in Requests, Page(r)' PROVE request'[r] \in Pages
        BY <2>1, <2>2 DEF PageInv, PagesTyped
    <2>. QED
        BY <2>2 DEF PageInv, PagesTyped
<1>2. /\ MaxRequests \in Nat /\ project[Product].revision \in 0 .. MaxRequests
      /\ project'[Product].revision \in Nat
    <2>1. Product \in Projects
        BY SegmentsAssumption
    <2>2. project'[Product] \in Rows
        BY <2>1 DEF IInv, ProjectsTyped
    <2>. QED
        BY <2>2, Revision DEF Rows
<1>3. ASSUME ~reverted' PROVE CacheSound'
    <2>. DEFINE old == project[Product].revision
                new == project'[Product].revision
    <2>1. CacheSound /\ old <= new /\ (old < new \/ defined' = defined)
        BY <1>3 DEF PageInv
    <2>2. \A n \in 0 .. MaxRequests : Kept(n) => n <= new
        BY <1>2, <2>1 DEF CacheSound
    <2>3. new \in 0 .. MaxRequests
        BY <1>2, SegmentsAssumption DEF Revisions
    <2>4. Kept(new) => cached[new].ids = defined'
        <3>1. CASE new = old
            BY <1>2, <2>1, <3>1 DEF CacheSound
        <3>2. CASE new # old
            BY <1>2, <2>1, <2>3, <3>2 DEF CacheSound
        <3>. QED
            BY <3>1, <3>2
    <2>. QED
        BY <2>2, <2>4 DEF CacheSound, Kept
<1>4. ASSUME NEW r \in Requests, Page(r)', ~reverted'
      PROVE  /\ request'[r].revision <= project'[Product].revision
             /\ request'[r].quiet => ReadSound(r)' /\ HopsSound(r)'
    <2>1. Page(r) /\ request[r] \in Pages /\ request[r].revision <= project[Product].revision
          /\ (request[r].quiet => ReadSound(r) /\ HopsSound(r))
        BY <1>4 DEF PageInv, PagesTyped
    <2>2. request'[r].revision = request[r].revision /\ request[r].revision \in Nat
        <3>1. request[r].revision \in 0 .. MaxRequests
            BY <2>1 DEF Pages
        <3>2. request'[r].revision = request[r].revision
            BY <1>4, <2>1 DEF Pages
        <3>. QED
            BY <1>2, <3>1, <3>2
    <2>3. request'[r].revision <= project'[Product].revision
        BY <1>2, <1>4, <2>1, <2>2
    <2>4. request'[r].quiet => request'[r] = request[r] /\ SameScopes
        BY <1>4, <2>1 DEF Pages
    <2>. QED
        BY <2>1, <2>3, <2>4, ReadStays
<1>. QED
    BY <1>1, <1>3, <1>4 DEF PageInv

\* Steps among members and projects, with what they do to the product.
LEMMA MembersPages ==
    ASSUME IInv, Revisions, PageInv, IInv', Revisions', MembersOnly, Cascade, UNCHANGED cached,
           FlagInv
    PROVE  PageInv'
<1>1. reverted' \in BOOLEAN /\ (reverted => reverted')
    BY DEF Cascade
<1>2. remembered' \in [Users -> [definition : SUBSET Terms, segment : Segments \cup {None}]]
    BY DEF Cascade, NothingRemembered, PageInv, PagesTyped
<1>3. ASSUME ~reverted'
      PROVE  project[Product].revision <= project'[Product].revision /\ SameScopes
    <2>1. /\ ~(project'[Product].revision < project[Product].revision)
          /\ UNCHANGED <<defined, segment>>
        BY <1>3 DEF Cascade
    <2>2. project[Product].revision \in Nat /\ project'[Product].revision \in Nat
        BY SegmentsAssumption DEF IInv, ProjectsTyped, Rows
    <2>. QED
        BY <2>1, <2>2 DEF SameScopes, InUse
<1>4. \A r \in Requests : Page(r)' => Page(r) /\ request'[r] = request[r]
    BY DEF MembersOnly, Page, Readers
<1>. QED
    BY <1>1, <1>2, <1>3, <1>4, PagesStay DEF SameScopes

\* Steps on attributes and segments.
LEMMA WritesPages ==
    ASSUME IInv, Revisions, PageInv, FlagInv, IInv', Revisions', FlagInv', UNCHANGED <<cached, reverted>>,
           remembered' \in [Users -> [definition : SUBSET Terms, segment : Segments \cup {None}]],
           \/ project'[Product].revision = project[Product].revision /\ defined' = defined
           \/ project'[Product].revision = project[Product].revision + 1,
           \A r \in Requests : Page(r)' =>
               /\ Page(r)
               /\ \/ request'[r] = request[r] /\ SameScopes
                  \/ request'[r] = [request[r] EXCEPT !.quiet = FALSE]
    PROVE  PageInv'
<1>1. project[Product].revision \in Nat
    BY SegmentsAssumption DEF IInv, ProjectsTyped, Rows
<1>2. /\ project[Product].revision <= project'[Product].revision
      /\ project[Product].revision < project'[Product].revision \/ defined' = defined
    BY <1>1
<1>. QED
    BY <1>2, PagesStay DEF FlagInv, SegmentsTyped

LEMMA DisturbedPage ==
    ASSUME IInv, NEW kinds \in SUBSET Readers, "page" \in kinds, NEW x \in Requests,
           Disturbed(kinds)[x].kind = "page"
    PROVE  Page(x) /\ Disturbed(kinds)[x] = [request[x] EXCEPT !.quiet = FALSE]
BY DisturbedHarmless DEF Disturbed, Page, Readers

NoSaver == \A x \in Requests : request'[x].kind \in RowSavers => request'[x] = request[x]

LEMMA NoSaverDisturbed ==
    ASSUME IInv, NEW kinds \in SUBSET Readers,
           \/ request' = Disturbed(kinds)
           \/ \E r \in Requests : \E q : q.kind \notin RowSavers /\ request' = [Disturbed(kinds) EXCEPT ![r] = q]
    PROVE  NoSaver
<1>1. \A x \in Requests :
          Disturbed(kinds)[x].kind \in RowSavers => Disturbed(kinds)[x] = request[x]
    BY DisturbedHarmless DEF Disturbed, Readers, RowSavers
<1>2. Disturbed(kinds) = [x \in Requests |-> Disturbed(kinds)[x]]
    BY DisturbedHarmless DEF Readers
<1>. QED
    BY <1>1, <1>2 DEF NoSaver

LEMMA NoSaverEnds ==
    ASSUME IInv, NEW r \in Requests, NEW q, q.kind \notin RowSavers, request' = [request EXCEPT ![r] = q]
    PROVE  NoSaver
BY DEF NoSaver, IInv, RequestsSound

LEMMA RevisionsKept ==
    ASSUME IInv, Revisions, begun' = begun \/ (begun < MaxRequests /\ begun' = begun + 1), NoSaver,
           UNCHANGED project \/ (/\ project' = [project EXCEPT ![Product] = NextRevision(@)]
                                 /\ begun' = begun + 1)
    PROVE  Revisions'
<1>0. MaxRequests \in Nat /\ begun \in Nat /\ begun <= MaxRequests
    BY MembersAssumption DEF Revisions
<1>1. begun' \in 0 .. MaxRequests /\ begun <= begun' /\ begun' \in Nat
    BY <1>0
<1>2. \A p \in Projects : project[p].revision <= begun'
    BY <1>0, <1>1, SameRevisions
<1>3. ASSUME project' = [project EXCEPT ![Product] = NextRevision(@)], begun' = begun + 1,
             NEW p \in Projects
      PROVE  project'[p].revision <= begun'
    <2>1. project[p] \in Rows /\ project[p].revision <= begun
        BY RevisionTyped DEF Revisions
    <2>2. project[p].revision \in Nat /\ NextRevision(project[p]).revision = project[p].revision + 1
        BY <2>1 DEF Rows, NextRevision
    <2>3. project'[p] = project[p] \/ project'[p] = NextRevision(project[p])
        BY <1>3 DEF IInv, ProjectsTyped
    <2>. QED
        BY <1>0, <1>2, <1>3, <2>1, <2>2, <2>3
<1>4. \A p \in Projects : project'[p].revision <= begun'
    BY <1>2, <1>3
<1>5. ASSUME NEW x \in Requests, request'[x].kind \in RowSavers
      PROVE  request'[x].row.revision <= begun'
    BY <1>0, <1>1, <1>5, RevisionTyped DEF Revisions, NoSaver
<1>. QED
    BY <1>1, <1>4, <1>5 DEF Revisions

\* The steps that write attributes or segments.
SegmentsWrite ==
    \/ \E u \in Users : \E new, deleted, removed : SaveDefinitions(u, new, deleted, removed)
    \/ \E u \in Users : SaveValues(u)
    \/ \E r \in Free, u \in Users, s \in Segments : \E definition : AskSegment(r, u, s, definition)
    \/ \E u \in Users, s \in Segments : DeleteSegment(u, s)
    \/ \E r \in Requests : StoreSegment(r) \/ StoreDefinition(r) \/ ClearReview(r) \/ Fail(r)

LEMMA WritesRevisions == ASSUME IInv, Revisions, SegmentsWrite PROVE Revisions'
<1>1. ASSUME NEW u \in Users, NEW new, NEW deleted, NEW removed,
             SaveDefinitions(u, new, deleted, removed)
      PROVE  Revisions'
    <2>1. NoSaver
        BY <1>1, NoSaverDisturbed DEF SaveDefinitions, Readers
    <2>. QED
        BY <1>1, <2>1, RevisionsKept DEF SaveDefinitions, AtOnce
<1>2. ASSUME NEW u \in Users, SaveValues(u) PROVE Revisions'
    BY <1>2, RevisionsKept DEF SaveValues, AtOnce, NoSaver
<1>3. ASSUME NEW r \in Free, NEW u \in Users, NEW s \in Segments, NEW definition,
             AskSegment(r, u, s, definition)
      PROVE  Revisions'
    <2>1. \E q : q.kind \notin RowSavers /\ request' = [request EXCEPT ![r] = q]
        BY <1>3 DEF AskSegment, Begin, RowSavers
    <2>2. r \in Requests /\ begun < MaxRequests /\ begun' = begun + 1 /\ UNCHANGED project
        BY <1>3 DEF AskSegment, Begin, Free, workspaceVars
    <2>3. NoSaver
        BY <2>1, <2>2, NoSaverEnds
    <2>. QED
        BY <2>2, <2>3, RevisionsKept
<1>4. ASSUME NEW u \in Users, NEW s \in Segments, DeleteSegment(u, s) PROVE Revisions'
    <2>1. NoSaver
        BY <1>4, NoSaverDisturbed DEF DeleteSegment, Readers
    <2>. QED
        BY <1>4, <2>1, RevisionsKept DEF DeleteSegment, AtOnce, workspaceVars
<1>5. ASSUME NEW r \in Requests, StoreSegment(r) \/ ClearReview(r) PROVE Revisions'
    <2>1. request' = [Disturbed({"page"}) EXCEPT ![r] = Idle] /\ Idle.kind \notin RowSavers
        BY <1>5 DEF StoreSegment, ClearReview, Idle, RowSavers
    <2>2. NoSaver
        BY <2>1, NoSaverDisturbed DEF Readers
    <2>. QED
        BY <1>5, <2>2, RevisionsKept DEF StoreSegment, ClearReview, workspaceVars
<1>6. ASSUME NEW r \in Requests, StoreDefinition(r) PROVE Revisions'
    <2>. DEFINE q == [Disturbed({"page"})[r] EXCEPT !.saved = TRUE]
    <2>1. request' = [Disturbed({"page"}) EXCEPT ![r] = q] /\ request[r].kind = "segment"
        BY <1>6 DEF StoreDefinition
    <2>2. q.kind \notin RowSavers
        BY <2>1, DisturbedHarmless DEF RowSavers
    <2>. HIDE DEF q
    <2>3. NoSaver
        BY <2>1, <2>2, NoSaverDisturbed DEF Readers
    <2>. QED
        BY <1>6, <2>3, RevisionsKept DEF StoreDefinition, workspaceVars
<1>7. ASSUME NEW r \in Requests, Fail(r) PROVE Revisions'
    <2>1. NoSaver
        BY <1>7, NoSaverEnds DEF Fail, End, Idle, RowSavers
    <2>. QED
        BY <1>7, <2>1, RevisionsKept DEF Fail, End, workspaceVars
<1>. QED
    BY <1>1, <1>2, <1>3, <1>4, <1>5, <1>6, <1>7 DEF SegmentsWrite

LEMMA WritesPagesSound ==
    ASSUME IInv, Revisions, PageInv, FlagInv, IInv', Revisions', FlagInv', SegmentsWrite
    PROVE  PageInv'
<1>. DEFINE Remembers == [Users -> [definition : SUBSET Terms, segment : Segments \cup {None}]]
<1>0. remembered \in Remembers
    BY DEF PageInv, PagesTyped
<1>1. ASSUME NEW u \in Users, NEW new, NEW deleted, NEW removed,
             SaveDefinitions(u, new, deleted, removed)
      PROVE  PageInv'
    <2>1. project'[Product].revision = project[Product].revision + 1
        <3>1. project[Product] \in Rows /\ Product \in Projects
            BY SegmentsAssumption DEF IInv, ProjectsTyped
        <3>. QED
            BY <1>1, <3>1 DEF SaveDefinitions, NextRevision, IInv, ProjectsTyped, Rows
    <2>2. \A r \in Requests : Page(r)' =>
              Page(r) /\ request'[r] = [request[r] EXCEPT !.quiet = FALSE]
        BY <1>1, DisturbedPage DEF SaveDefinitions, Readers, Page
    <2>. QED
        BY <1>0, <1>1, <2>1, <2>2, WritesPages DEF SaveDefinitions
<1>2. ASSUME NEW u \in Users, SaveValues(u) PROVE PageInv'
    <2>1. project'[Product].revision = project[Product].revision + 1
        <3>1. project[Product] \in Rows /\ Product \in Projects
            BY SegmentsAssumption DEF IInv, ProjectsTyped
        <3>. QED
            BY <1>2, <3>1 DEF SaveValues, NextRevision, IInv, ProjectsTyped, Rows
    <2>2. SameScopes /\ UNCHANGED <<request, cached, reverted, remembered>>
        BY <1>2 DEF SaveValues, segmentVars, SameScopes, InUse
    <2>. QED
        BY <1>0, <2>1, <2>2, WritesPages DEF Page
<1>3. ASSUME NEW r \in Free, NEW u \in Users, NEW s \in Segments, NEW definition,
             AskSegment(r, u, s, definition)
      PROVE  PageInv'
    <2>1. PICK q : q.kind = "segment" /\ request' = [request EXCEPT ![r] = q]
        BY <1>3 DEF AskSegment, Begin
    <2>2. /\ UNCHANGED <<cached, reverted, remembered, defined>> /\ project' = project /\ SameScopes
        BY <1>3 DEF AskSegment, segmentVars, workspaceVars, SameScopes, InUse
    <2>3. \A x \in Requests : Page(x)' => Page(x) /\ request'[x] = request[x]
        BY <2>1 DEF Page, IInv, RequestsSound
    <2>. QED
        BY <1>0, <2>2, <2>3, WritesPages
<1>4. ASSUME NEW u \in Users, NEW s \in Segments, DeleteSegment(u, s) PROVE PageInv'
    <2>1. \A r \in Requests : Page(r)' =>
              Page(r) /\ request'[r] = [request[r] EXCEPT !.quiet = FALSE]
        BY <1>4, DisturbedPage DEF DeleteSegment, Readers, Page
    <2>2. remembered' \in Remembers
        BY <1>0, <1>4 DEF DeleteSegment
    <2>3. UNCHANGED <<project, defined, cached, reverted>>
        BY <1>4 DEF DeleteSegment, workspaceVars
    <2>. QED
        BY <2>1, <2>2, <2>3, WritesPages
<1>5. ASSUME NEW r \in Requests, StoreSegment(r) \/ StoreDefinition(r) \/ ClearReview(r) PROVE PageInv'
    <2>1. PICK q : q.kind # "page" /\ request' = [Disturbed({"page"}) EXCEPT ![r] = q]
        <3>1. CASE StoreSegment(r) \/ ClearReview(r)
            BY <3>1 DEF StoreSegment, ClearReview, Idle
        <3>2. CASE StoreDefinition(r)
            <4>. DEFINE q == [Disturbed({"page"})[r] EXCEPT !.saved = TRUE]
            <4>1. request' = [Disturbed({"page"}) EXCEPT ![r] = q] /\ request[r].kind = "segment"
                BY <3>2 DEF StoreDefinition
            <4>2. q.kind # "page"
                BY <4>1, DisturbedHarmless
            <4>. HIDE DEF q
            <4>. QED
                BY <4>1, <4>2
        <3>. QED
            BY <1>5, <3>1, <3>2
    <2>2. \A x \in Requests : Page(x)' =>
              Page(x) /\ request'[x] = [request[x] EXCEPT !.quiet = FALSE]
        <3>1. Disturbed({"page"}) = [x \in Requests |-> Disturbed({"page"})[x]]
            BY DisturbedHarmless
        <3>2. ASSUME NEW x \in Requests, Page(x)'
              PROVE  request'[x] = Disturbed({"page"})[x] /\ Disturbed({"page"})[x].kind = "page"
            BY <2>1, <3>1, <3>2 DEF Page
        <3>. QED
            BY <3>2, DisturbedPage DEF Readers
    <2>3. UNCHANGED <<project, defined, cached, reverted, remembered>>
        BY <1>5 DEF StoreSegment, StoreDefinition, ClearReview, workspaceVars
    <2>. QED
        BY <1>0, <2>2, <2>3, WritesPages
<1>6. ASSUME NEW r \in Requests, Fail(r) PROVE PageInv'
    <2>1. request' = [request EXCEPT ![r] = Idle] /\ Idle.kind # "page"
          /\ UNCHANGED <<project, defined, cached, reverted, remembered>>
        BY <1>6 DEF Fail, End, Idle, workspaceVars
    <2>2. SameScopes
        <3>1. ASSUME NEW s \in Segments
              PROVE  /\ InUse(s)' <=> InUse(s)
                     /\ InUse(s) => /\ segment'[s].user = segment[s].user
                                    /\ segment'[s].definition = segment[s].definition
                                    /\ segment'[s].review = segment[s].review
            <4>1. segment'[s] = segment[s]
                  \/ (InUse(s) /\ segment'[s] = [segment[s] EXCEPT !.unsettled = TRUE])
                BY <1>6 DEF Fail, FlagInv, SegmentsTyped
            <4>2. InUse(s) <=> segment[s] \in SegmentRows
                BY RowsInUse DEF FlagInv
            <4>3. ASSUME segment[s] \in SegmentRows, segment'[s] = [segment[s] EXCEPT !.unsettled = TRUE]
                  PROVE  /\ segment'[s] \in SegmentRows
                         /\ segment'[s].user = segment[s].user
                         /\ segment'[s].definition = segment[s].definition
                         /\ segment'[s].review = segment[s].review
                BY <4>3 DEF SegmentRows
            <4>4. segment'[s] \in SegmentRows => InUse(s)'
                BY RowsInUse DEF InUse, FlagInv
            <4>. QED
                BY <4>1, <4>2, <4>3, <4>4 DEF InUse
        <3>. QED
            BY <2>1, <3>1 DEF SameScopes
    <2>3. \A x \in Requests : Page(x)' => Page(x) /\ request'[x] = request[x]
        BY <2>1 DEF Page, IInv, RequestsSound
    <2>. QED
        BY <1>0, <2>1, <2>2, <2>3, WritesPages
<1>. QED
    BY <1>1, <1>2, <1>3, <1>4, <1>5, <1>6 DEF SegmentsWrite

-----------------------------------------------------------------------------
(* The steps of a page.                                                    *)

LEMMA OnePage ==
    ASSUME IInv, Revisions, PageInv, NEW r \in Requests, NEW q, request' = [request EXCEPT ![r] = q],
           UNCHANGED <<project, defined, segment, cached, reverted>>,
           remembered' \in [Users -> [definition : SUBSET Terms, segment : Segments \cup {None}]],
           q.kind = "page" =>
               /\ q \in Pages
               /\ ~reverted => q.revision <= project[Product].revision
               /\ ~reverted /\ q.quiet => ReadSound(r)' /\ HopsSound(r)'
    PROVE  PageInv'
<1>1. request'[r] = q /\ \A x \in Requests \ {r} : request'[x] = request[x]
    BY DEF IInv, RequestsSound
<1>2. PagesTyped'
    BY <1>1 DEF PageInv, PagesTyped, Page
<1>3. SameScopes
    BY DEF SameScopes, InUse
<1>4. ~reverted' => CacheSound'
    BY DEF PageInv, CacheSound, Kept
<1>5. ASSUME NEW x \in Requests, Page(x)', ~reverted', x # r
      PROVE  /\ request'[x].revision <= project'[Product].revision
             /\ request'[x].quiet => ReadSound(x)' /\ HopsSound(x)'
    <2>1. Page(x) /\ request'[x] = request[x] /\ request[x] \in Pages
        BY <1>1, <1>5 DEF Page, PageInv, PagesTyped
    <2>2. request[x].revision <= project[Product].revision
          /\ (request[x].quiet => ReadSound(x) /\ HopsSound(x))
        BY <1>5, <2>1 DEF PageInv
    <2>. QED
        BY <1>3, <2>1, <2>2, ReadStays
<1>6. ASSUME Page(r)', ~reverted'
      PROVE  /\ request'[r].revision <= project'[Product].revision
             /\ request'[r].quiet => ReadSound(r)' /\ HopsSound(r)'
    BY <1>1, <1>6 DEF Page
<1>. QED
    BY <1>2, <1>4, <1>5, <1>6 DEF PageInv

LEMMA PageRequestFields ==
    ASSUME IInv, FlagInv, Revisions, NEW u \in Users, NEW cachedRead \in BOOLEAN, NEW url \in Urls,
           NEW hops \in Nat, NEW quiet \in BOOLEAN
    PROVE  LET q == PageRequest(u, cachedRead, url, hops, quiet)
           IN  /\ q \in Pages /\ q.user = u /\ q.url = url /\ q.hops = hops /\ q.quiet = quiet
               /\ q.revision = project[Product].revision
               /\ q.known = spent /\ q.attributes = Unread /\ q.found = Unread
<1>1. project[Product].revision \in 0 .. MaxRequests /\ spent \in SUBSET Terms
    BY Revision DEF FlagInv, SegmentsTyped
<1>. QED
    BY <1>1 DEF PageRequest, Pages

\* A page that is asked for anew has read nothing yet.
LEMMA NewPage ==
    ASSUME IInv, FlagInv, Revisions, PageInv, NEW r \in Requests, NEW u \in Users, NEW cachedRead \in BOOLEAN,
           NEW url \in Urls, NEW hops \in Nat, NEW quiet \in BOOLEAN,
           request' = [request EXCEPT ![r] = PageRequest(u, cachedRead, url, hops, quiet)],
           UNCHANGED <<project, defined, segment, cached, reverted, remembered>>,
           quiet /\ ~reverted =>
               hops <= 2 /\ (hops > 0 => Straight(url, u)) /\ (hops = 2 => url.named)
    PROVE  PageInv'
<1>. DEFINE q == PageRequest(u, cachedRead, url, hops, quiet)
<1>1. /\ q \in Pages /\ q.user = u /\ q.url = url /\ q.hops = hops /\ q.quiet = quiet
      /\ q.revision = project[Product].revision
      /\ q.attributes = Unread /\ q.found = Unread
    BY PageRequestFields
<1>2. request' = [request EXCEPT ![r] = q] /\ request'[r] = q
    BY DEF IInv, RequestsSound
<1>. HIDE DEF q
<1>3. project[Product].revision <= project[Product].revision
    BY Revision
<1>4. ASSUME ~reverted, quiet PROVE ReadSound(r)'
    <2>1. CacheSound
        BY <1>4 DEF PageInv
    <2>. QED
        BY <1>1, <1>2, <2>1 DEF ReadSound, CacheSound, Kept
<1>5. ASSUME ~reverted, quiet PROVE HopsSound(r)'
    <2>1. hops > 0 => Straight(url, u)'
        <3>1. SameScopes
            BY DEF SameScopes, InUse
        <3>. QED
            BY <1>5, <3>1, StraightStays
    <2>. QED
        BY <1>1, <1>2, <1>5, <2>1 DEF HopsSound
<1>6. remembered' \in [Users -> [definition : SUBSET Terms, segment : Segments \cup {None}]]
    BY DEF PageInv, PagesTyped
<1>. QED
    BY <1>1, <1>2, <1>3, <1>4, <1>5, <1>6, OnePage

LEMMA OpenPageSound ==
    ASSUME IInv, FlagInv, Revisions, PageInv, NEW r \in Free, NEW u \in Users, NEW cachedRead \in BOOLEAN,
           NEW url \in Urls, OpenPage(r, u, cachedRead, url)
    PROVE  PageInv'
<1>1. r \in Requests /\ 0 \in Nat /\ TRUE \in BOOLEAN /\ 0 <= 2 /\ ~(0 > 0) /\ 0 # 2
    BY DEF Free
<1>2. /\ request' = [request EXCEPT ![r] = PageRequest(u, cachedRead, url, 0, TRUE)]
      /\ UNCHANGED <<project, defined, segment, cached, reverted, remembered>>
    BY DEF OpenPage, Begin, workspaceVars, segmentVars
<1>. QED
    BY <1>1, <1>2, NewPage

-----------------------------------------------------------------------------
(* What a page makes of what it has read.                                  *)

LEMMA PageTyped == ASSUME PageInv, NEW r \in Requests, Page(r)
                   PROVE  /\ request[r] \in Pages /\ request[r].url \in Urls
                          /\ request[r].url.segment \in Segments \cup {None}
                          /\ request[r].url.pairs \subseteq Terms
                          /\ request[r].user \in Users
BY DEF PageInv, PagesTyped, Pages, Urls

LEMMA HasReadTyped ==
    ASSUME PageInv, NEW r \in Requests, HasRead(r)
    PROVE  /\ Page(r) /\ request[r].attributes.ids \subseteq Terms
           /\ request[r].found.row \in SegmentRows \cup {NoSegment}
BY DEF HasRead, Page, PageInv, PagesTyped, Pages

LEMMA ScopeTyped ==
    ASSUME PageInv, NEW r \in Requests, HasRead(r)
    PROVE  /\ Scope(r).state \subseteq Terms
           /\ UrlSegment(Scope(r)) \in Segments \cup {None}
BY PageTyped, HasReadTyped DEF Scope, UrlSegment

\* Of a page that no write has overlapped, in terms of what is there.
LEMMA ScopeNow ==
    ASSUME FlagInv, PageInv, NEW r \in Requests, HasRead(r), request[r].quiet, ~reverted
    PROVE  LET s == request[r].url.segment
               u == request[r].user
           IN  Scope(r) =
                   IF Mine(s, u) /\ segment[s].review
                   THEN [state |-> {}, segment |-> None, blocked |-> s]
                   ELSE IF Mine(s, u) /\ segment[s].definition \cap defined # {}
                   THEN [state |-> segment[s].definition \cap defined, segment |-> s, blocked |-> None]
                   ELSE [state |-> request[r].url.pairs \cap defined, segment |-> None, blocked |-> None]
<1>1. ReadSound(r) /\ Page(r) /\ request[r].attributes # Unread /\ request[r].found # Unread
    BY DEF PageInv, HasRead, Page
<1>. QED
    BY <1>1 DEF ReadSound, Scope

LEMMA CanonicalStraight ==
    ASSUME FlagInv, PageInv, NEW r \in Requests, HasRead(r), request[r].quiet, ~reverted
    PROVE  Canonical(r) <=> Straight(request[r].url, request[r].user)
<1>. DEFINE s == request[r].url.segment
            u == request[r].user
            part == segment[s].definition \cap defined
<1>1. Mine(s, u) => s # None
    BY DEF Mine
<1>2. CASE Mine(s, u) /\ segment[s].review
    <2>1. Scope(r) = [state |-> {}, segment |-> None, blocked |-> s]
        BY <1>2, ScopeNow
    <2>. QED
        BY <1>2, <2>1 DEF Canonical, UrlSegment, Straight
<1>3. CASE Mine(s, u) /\ ~segment[s].review /\ part # {}
    <2>1. Scope(r) = [state |-> part, segment |-> s, blocked |-> None]
        BY <1>3, ScopeNow
    <2>. QED
        BY <1>1, <1>3, <2>1 DEF Canonical, UrlSegment, Straight
<1>4. CASE ~Mine(s, u) \/ (~segment[s].review /\ part = {})
    <2>1. Scope(r) = [state |-> request[r].url.pairs \cap defined, segment |-> None, blocked |-> None]
        BY <1>4, ScopeNow
    <2>. QED
        BY <1>4, <2>1 DEF Canonical, UrlSegment, Straight
<1>. QED
    BY <1>2, <1>3, <1>4

\* The canonical URL needs no correction.
LEMMA CanonicalUrl ==
    ASSUME FlagInv, PageInv, NEW r \in Requests, HasRead(r), request[r].quiet, ~reverted,
           NEW url, url.segment = UrlSegment(Scope(r)), url.pairs = Scope(r).state
    PROVE  Straight(url, request[r].user)
<1>1. Mine(request[r].url.segment, request[r].user) => request[r].url.segment # None
    BY DEF Mine
<1>2. \A u : ~Mine(None, u)
    BY DEF Mine
<1>. QED
    BY <1>1, <1>2, ScopeNow DEF UrlSegment, Straight

\* Nor does that of the remembered filters.
LEMMA RestoredStraight ==
    ASSUME FlagInv, PageInv, NEW u \in Users, NEW url,
           url.segment = Restored(u).segment, url.pairs = Restored(u).pairs
    PROVE  Straight(url, u) /\ Restored(u).segment \in Segments \cup {None}
           /\ Restored(u).pairs \subseteq Terms
<1>. DEFINE saved == remembered[u]
            s     == saved.segment
            bare  == [segment |-> None, pairs |-> saved.definition \cap defined]
<1>1. saved.definition \subseteq Terms /\ s \in Segments \cup {None} /\ defined \subseteq Terms
    BY DEF PageInv, PagesTyped, FlagInv, SegmentsTyped
<1>2. \A v : ~Mine(None, v)
    BY DEF Mine
<1>3. CASE s = None \/ segment[s].user # u
    <2>1. Restored(u) = bare
        BY <1>3 DEF Restored
    <2>. QED
        BY <1>1, <1>2, <2>1 DEF Straight
<1>4. CASE s # None /\ segment[s].user = u
    <2>1. Mine(s, u) /\ segment[s] \in SegmentRows
        <3>1. segment[s] \in SegmentStates
            BY <1>1, <1>4 DEF FlagInv, SegmentsTyped
        <3>2. NoSegment.user # u /\ Deleted.user # u
            BY SegmentsAssumption DEF NoSegment, Deleted
        <3>3. segment[s] \in SegmentRows
            BY <1>4, <3>1, <3>2 DEF SegmentStates
        <3>. QED
            BY <1>1, <1>4, <3>3, RowsInUse DEF Mine, FlagInv
    <2>. QED
        BY <1>1, <1>2, <1>4, <2>1 DEF Restored, Straight
<1>. QED
    BY <1>3, <1>4

LEMMA RedirectSound ==
    ASSUME IInv, Revisions, FlagInv, PageInv, NEW r \in Requests,
           RedirectCanonical(r) \/ RedirectRestored(r)
    PROVE  PageInv'
<1>1. /\ HasRead(r) /\ Page(r) /\ request[r] \in Pages /\ request[r].url \in Urls
      /\ request[r].user \in Users /\ request[r].cachedRead \in BOOLEAN
      /\ request[r].hops \in Nat /\ request[r].quiet \in BOOLEAN
    <2>1. HasRead(r)
        BY DEF RedirectCanonical, RedirectRestored
    <2>. QED
        BY <2>1, HasReadTyped, PageTyped DEF Pages
<1>2. request[r].quiet /\ ~reverted => HopsSound(r)
    BY <1>1 DEF PageInv
<1>3. ASSUME NEW url \in Urls, Redirect(r, url),
             request[r].quiet /\ ~reverted =>
                 /\ request[r].hops <= 1 /\ Straight(url, request[r].user)
                 /\ request[r].hops = 1 => url.named
      PROVE  PageInv'
    <2>. DEFINE hops == request[r].hops + 1
    <2>1. /\ request' = [request EXCEPT ![r] =
                  PageRequest(request[r].user, request[r].cachedRead, url, hops, request[r].quiet)]
          /\ UNCHANGED <<project, defined, segment, cached, reverted, remembered>>
        BY <1>3 DEF Redirect, workspaceVars, segmentVars
    <2>2. /\ hops \in Nat
          /\ request[r].quiet /\ ~reverted =>
                hops <= 2 /\ (hops > 0 => Straight(url, request[r].user)) /\ (hops = 2 => url.named)
        BY <1>1, <1>3
    <2>. HIDE DEF hops
    <2>. QED
        BY <1>1, <2>1, <2>2, NewPage
<1>4. CASE RedirectCanonical(r)
    <2>. DEFINE url == [segment |-> UrlSegment(Scope(r)), pairs |-> Scope(r).state,
                        named |-> request[r].url.named]
    <2>1. Redirect(r, url) /\ ~Canonical(r)
        BY <1>4 DEF RedirectCanonical
    <2>2. url \in Urls
        BY <1>1, ScopeTyped DEF Urls
    <2>3. ASSUME request[r].quiet, ~reverted
          PROVE  request[r].hops = 0 /\ Straight(url, request[r].user)
        <3>1. ~Straight(request[r].url, request[r].user)
            BY <1>1, <2>1, <2>3, CanonicalStraight
        <3>2. request[r].hops = 0
            BY <1>1, <1>2, <2>3, <3>1 DEF HopsSound
        <3>. QED
            BY <1>1, <2>3, <3>2, CanonicalUrl
    <2>. HIDE DEF url
    <2>. QED
        BY <1>3, <2>1, <2>2, <2>3
<1>5. CASE RedirectRestored(r)
    <2>. DEFINE url == WithRestored(r)
    <2>1. Redirect(r, url) /\ Canonical(r) /\ ~request[r].url.named
        BY <1>5 DEF RedirectRestored
    <2>2. CASE request[r].url.segment # None \/ request[r].url.pairs # {}
        <3>1. url = [segment |-> request[r].url.segment, pairs |-> request[r].url.pairs, named |-> TRUE]
            BY <2>2 DEF WithRestored
        <3>2. url \in Urls
            BY <1>1, <3>1 DEF Urls
        <3>3. ASSUME request[r].quiet, ~reverted
              PROVE  request[r].hops <= 1 /\ Straight(url, request[r].user)
            <4>1. Straight(request[r].url, request[r].user)
                BY <1>1, <2>1, <3>3, CanonicalStraight
            <4>2. request[r].hops <= 1
                BY <1>1, <1>2, <2>1, <3>3 DEF HopsSound
            <4>. QED
                BY <3>1, <4>1, <4>2 DEF Straight
        <3>4. url.named
            BY <3>1
        <3>. HIDE DEF url
        <3>. QED
            BY <1>3, <2>1, <3>2, <3>3, <3>4
    <2>3. CASE ~(request[r].url.segment # None \/ request[r].url.pairs # {})
        <3>1. url = [segment |-> Restored(request[r].user).segment,
                     pairs |-> Restored(request[r].user).pairs, named |-> TRUE]
            BY <2>3 DEF WithRestored
        <3>2. url \in Urls /\ Straight(url, request[r].user)
            BY <1>1, <3>1, RestoredStraight DEF Urls
        <3>3. ASSUME request[r].quiet, ~reverted PROVE request[r].hops <= 1
            BY <1>1, <1>2, <2>1, <3>3 DEF HopsSound
        <3>4. url.named
            BY <3>1
        <3>. HIDE DEF url
        <3>. QED
            BY <1>3, <2>1, <3>2, <3>3, <3>4
    <2>. QED
        BY <2>2, <2>3
<1>. QED
    BY <1>4, <1>5

LEMMA ReadsSound ==
    ASSUME IInv, Revisions, FlagInv, PageInv, NEW r \in Requests, ReadAttributes(r) \/ ReadSegment(r)
    PROVE  PageInv'
<1>1. /\ Page(r) /\ request[r] \in Pages /\ request[r].url.segment \in Segments \cup {None}
      /\ UNCHANGED <<project, defined, segment, cached, reverted, remembered>>
      /\ ~reverted => request[r].revision <= project[Product].revision
      /\ ~reverted /\ request[r].quiet => ReadSound(r) /\ HopsSound(r)
    <2>1. Page(r) /\ UNCHANGED <<project, defined, segment, cached, reverted, remembered>>
        BY DEF ReadAttributes, ReadSegment, Page, workspaceVars, segmentVars
    <2>. QED
        BY <2>1, PageTyped DEF PageInv
<1>2. remembered' \in [Users -> [definition : SUBSET Terms, segment : Segments \cup {None}]]
    BY <1>1 DEF PageInv, PagesTyped
<1>3. SameScopes
    BY <1>1 DEF SameScopes, InUse
<1>4. ASSUME NEW q, q.url = request[r].url, q.user = request[r].user, q.hops = request[r].hops,
             request' = [request EXCEPT ![r] = q], ~reverted, request[r].quiet
      PROVE  HopsSound(r)'
    <2>1. request'[r] = q
        BY <1>4 DEF IInv, RequestsSound
    <2>. QED
        BY <1>1, <1>3, <1>4, <2>1, PageTyped, StraightStays DEF HopsSound
<1>5. CASE ReadAttributes(r)
    <2>. DEFINE q == [request[r] EXCEPT !.attributes = [read |-> TRUE, ids |-> defined]]
    <2>1. request' = [request EXCEPT ![r] = q] /\ request'[r] = q
        BY <1>5 DEF ReadAttributes, Known, IInv, RequestsSound
    <2>2. defined \subseteq Terms
        BY DEF FlagInv, SegmentsTyped
    <2>3. /\ q \in Pages /\ q.url = request[r].url /\ q.user = request[r].user /\ q.hops = request[r].hops
          /\ q.revision = request[r].revision /\ q.quiet = request[r].quiet
          /\ q.found = request[r].found /\ q.attributes.ids = defined
        BY <1>1, <2>2 DEF Pages
    <2>. HIDE DEF q
    <2>4. ASSUME ~reverted, q.quiet PROVE ReadSound(r)'
        BY <1>1, <2>1, <2>3, <2>4 DEF ReadSound, Gone, Kept, Mine, InUse
    <2>. QED
        BY <1>1, <1>2, <1>4, <2>1, <2>3, <2>4, OnePage
<1>6. CASE ReadSegment(r)
    <2>. DEFINE s    == request[r].url.segment
                mine == Mine(s, request[r].user)
                row  == IF mine THEN segment[s] ELSE NoSegment
                q    == [request[r] EXCEPT !.found = [read |-> TRUE, row |-> row]]
    <2>1. request' = [request EXCEPT ![r] = q] /\ request'[r] = q
        BY <1>6 DEF ReadSegment, Mine, IInv, RequestsSound
    <2>2. /\ row \in SegmentRows \cup {NoSegment}
          /\ row # NoSegment <=> mine
          /\ mine => row = segment[s]
        BY <1>1, RowsInUse DEF FlagInv, Mine
    <2>3. mine /\ ~row.unsettled /\ ~row.review => Gone(row.definition) = {}
        BY <1>1, <2>2 DEF FlagInv, FlagSound, Settled, Complete, Mine
    <2>. HIDE DEF row
    <2>4. /\ q \in Pages /\ q.url = request[r].url /\ q.user = request[r].user /\ q.hops = request[r].hops
          /\ q.revision = request[r].revision /\ q.quiet = request[r].quiet
          /\ q.attributes = request[r].attributes /\ q.found.row = row
        BY <1>1, <2>2 DEF Pages
    <2>. HIDE DEF q
    <2>5. ASSUME ~reverted, q.quiet PROVE ReadSound(r)'
        BY <1>1, <2>1, <2>2, <2>3, <2>4, <2>5 DEF ReadSound, Gone, Kept, Mine, InUse
    <2>. QED
        BY <1>1, <1>2, <1>4, <2>1, <2>4, <2>5, OnePage
<1>. QED
    BY <1>5, <1>6

LEMMA RenderSound ==
    ASSUME IInv, Revisions, PageInv, NEW r \in Requests, Render(r)
    PROVE  PageInv'
<1>1. /\ HasRead(r) /\ Page(r) /\ request[r].user \in Users
      /\ request' = [request EXCEPT ![r] = Idle] /\ Idle.kind # "page"
      /\ UNCHANGED <<project, defined, segment, cached, reverted>>
    <2>1. HasRead(r) /\ Page(r)
        BY DEF Render, Answers, HasRead, Page
    <2>. QED
        BY <2>1, PageTyped DEF Render, End, Idle, workspaceVars
<1>2. [definition |-> Scope(r).state, segment |-> UrlSegment(Scope(r))]
          \in [definition : SUBSET Terms, segment : Segments \cup {None}]
    BY <1>1, ScopeTyped
<1>3. remembered' \in [Users -> [definition : SUBSET Terms, segment : Segments \cup {None}]]
    <2>1. \/ remembered' = remembered
          \/ remembered' = [remembered EXCEPT ![request[r].user] =
                 [definition |-> Scope(r).state, segment |-> UrlSegment(Scope(r))]]
        BY DEF Render
    <2>. QED
        BY <1>2, <2>1 DEF PageInv, PagesTyped
<1>. QED
    BY <1>1, <1>3, OnePage

LEMMA ReadCachedSound ==
    ASSUME IInv, Revisions, FlagInv, PageInv, NEW r \in Requests, ReadCachedAttributes(r)
    PROVE  PageInv'
<1>. DEFINE n == request[r].revision
<1>1. /\ Page(r) /\ request[r] \in Pages /\ n \in 0 .. MaxRequests
      /\ UNCHANGED <<project, defined, segment, reverted, remembered>>
      /\ ~reverted => n <= project[Product].revision
      /\ ~reverted /\ request[r].quiet => ReadSound(r) /\ HopsSound(r)
    <2>1. Page(r) /\ UNCHANGED <<project, defined, segment, reverted, remembered>>
        BY DEF ReadCachedAttributes, Page, workspaceVars
    <2>2. request[r] \in Pages
        BY <2>1 DEF PageInv, PagesTyped
    <2>. QED
        BY <2>1, <2>2 DEF PageInv, Pages
<1>2. remembered' \in [Users -> [definition : SUBSET Terms, segment : Segments \cup {None}]]
    BY <1>1 DEF PageInv, PagesTyped
<1>3. SameScopes
    BY <1>1 DEF SameScopes, InUse
<1>4. defined \subseteq Terms
    BY DEF FlagInv, SegmentsTyped
<1>5. PICK ids \in SUBSET Terms :
          /\ Known(r, ids)
          /\ \/ cached[n] # NotCached /\ ids = cached[n].ids /\ UNCHANGED cached
             \/ ids = defined /\ cached' = [cached EXCEPT ![n] = [kept |-> TRUE, ids |-> defined]]
    <2>1. cached[n] # NotCached => cached[n].ids \in SUBSET Terms
        BY <1>1 DEF PageInv, PagesTyped, Caches
    <2>. QED
        BY <1>4, <2>1 DEF ReadCachedAttributes
<1>. DEFINE q == [request[r] EXCEPT !.attributes = [read |-> TRUE, ids |-> ids]]
<1>6. request' = [request EXCEPT ![r] = q] /\ request'[r] = q
    BY <1>5 DEF Known, IInv, RequestsSound
<1>7. /\ q \in Pages /\ q.url = request[r].url /\ q.user = request[r].user /\ q.hops = request[r].hops
      /\ q.revision = request[r].revision /\ q.quiet = request[r].quiet
      /\ q.found = request[r].found /\ q.attributes.ids = ids
    BY <1>1 DEF Pages
<1>. HIDE DEF q
<1>8. ASSUME ~reverted, request[r].quiet PROVE ids = defined
    BY <1>1, <1>5, <1>8 DEF ReadSound, Kept
<1>9. ASSUME ~reverted, q.quiet PROVE HopsSound(r)'
    BY <1>1, <1>3, <1>6, <1>7, <1>9, PageTyped, StraightStays DEF HopsSound
<1>10. CASE UNCHANGED cached
    <2>1. ASSUME ~reverted, q.quiet PROVE ReadSound(r)'
        BY <1>1, <1>6, <1>7, <1>8, <1>10, <2>1 DEF ReadSound, Gone, Kept, Mine, InUse
    <2>. QED
        BY <1>1, <1>2, <1>6, <1>7, <1>9, <1>10, <2>1, OnePage
<1>11. CASE ids = defined /\ cached' = [cached EXCEPT ![n] = [kept |-> TRUE, ids |-> defined]]
    <2>1. /\ cached'[n] = [kept |-> TRUE, ids |-> defined]
          /\ cached' \in [0 .. MaxRequests -> Caches \cup {NotCached}]
          /\ \A m \in (0 .. MaxRequests) \ {n} : cached'[m] = cached[m]
        BY <1>1, <1>4, <1>11 DEF PageInv, PagesTyped, Caches
    <2>2. cached'[n].ids = defined
        BY <2>1
    <2>3. PagesTyped'
        BY <1>2, <1>6, <1>7, <2>1 DEF PageInv, PagesTyped, Page, IInv, RequestsSound
    <2>4. project[Product].revision \in 0 .. MaxRequests
        BY Revision
    <2>5. ASSUME ~reverted PROVE CacheSound'
        <3>1. CacheSound /\ n <= project[Product].revision
            BY <1>1, <2>5 DEF PageInv
        <3>. QED
            BY <1>1, <2>1, <2>2, <2>4, <3>1 DEF CacheSound, Kept
    <2>6. ASSUME NEW x \in Requests, Page(x)', ~reverted
          PROVE  /\ request'[x].revision <= project'[Product].revision
                 /\ request'[x].quiet => ReadSound(x)' /\ HopsSound(x)'
        <3>1. CASE x = r
            <4>1. q.quiet => ReadSound(r)'
                BY <1>1, <1>6, <1>7, <1>11, <2>1, <2>2, <2>6 DEF ReadSound, Gone, Kept, Mine, InUse
            <4>. QED
                BY <1>1, <1>6, <1>7, <1>9, <2>6, <3>1, <4>1
        <3>2. CASE x # r
            <4>1. request'[x] = request[x] /\ Page(x) /\ request[x] \in Pages
                BY <1>6, <2>6, <3>2 DEF IInv, RequestsSound, Page, PageInv, PagesTyped
            <4>2. /\ request[x].revision <= project[Product].revision
                  /\ request[x].quiet => ReadSound(x) /\ HopsSound(x)
                BY <2>6, <4>1 DEF PageInv
            <4>3. request[x].revision \in 0 .. MaxRequests
                BY <4>1 DEF Pages
            <4>4. ReadSound(x) => ReadSound(x)'
                BY <1>1, <2>1, <2>2, <4>1, <4>3 DEF ReadSound, Gone, Kept, Mine, InUse
            <4>5. HopsSound(x) => HopsSound(x)'
                BY <1>3, <4>1, PageTyped, StraightStays DEF HopsSound
            <4>. QED
                BY <1>1, <4>1, <4>2, <4>4, <4>5
        <3>. QED
            BY <3>1, <3>2
    <2>. QED
        BY <1>1, <2>3, <2>5, <2>6 DEF PageInv
<1>. QED
    BY <1>5, <1>10, <1>11

PageSteps ==
    \/ \E r \in Free, u \in Users, cachedRead \in BOOLEAN, url \in Urls :
        OpenPage(r, u, cachedRead, url)
    \/ \E r \in Requests :
        \/ ReadCachedAttributes(r) \/ ReadAttributes(r) \/ ReadSegment(r)
        \/ RedirectCanonical(r) \/ RedirectRestored(r) \/ Render(r)

LEMMA PagesRevisions == ASSUME IInv, Revisions, PageInv, PageSteps PROVE Revisions'
<1>1. /\ begun' = begun \/ (begun < MaxRequests /\ begun' = begun + 1)
      /\ UNCHANGED project
    BY DEF PageSteps, OpenPage, Begin, Free, ReadCachedAttributes, ReadAttributes, ReadSegment,
           RedirectCanonical, RedirectRestored, Redirect, Render, End, workspaceVars
<1>2. \E r \in Requests : \E q : q.kind \notin RowSavers /\ request' = [request EXCEPT ![r] = q]
    <2>1. ASSUME NEW r \in Free, NEW u \in Users, NEW cachedRead \in BOOLEAN, NEW url \in Urls,
                 OpenPage(r, u, cachedRead, url)
          PROVE  r \in Requests /\ \E q : q.kind \notin RowSavers /\ request' = [request EXCEPT ![r] = q]
        BY <2>1 DEF OpenPage, Begin, PageRequest, RowSavers, Free
    <2>2. ASSUME NEW r \in Requests, RedirectCanonical(r) \/ RedirectRestored(r) \/ Render(r)
          PROVE  \E q : q.kind \notin RowSavers /\ request' = [request EXCEPT ![r] = q]
        BY <2>2 DEF RedirectCanonical, RedirectRestored, Redirect, PageRequest, Render, End, Idle, RowSavers
    <2>3. ASSUME NEW r \in Requests, ReadCachedAttributes(r) \/ ReadAttributes(r) \/ ReadSegment(r)
          PROVE  \E q : q.kind \notin RowSavers /\ request' = [request EXCEPT ![r] = q]
        <3>1. PICK field, value :
                  /\ field \in {"attributes", "found"}
                  /\ request' = [request EXCEPT ![r] = [request[r] EXCEPT ![field] = value]]
            BY <2>3 DEF ReadCachedAttributes, ReadAttributes, ReadSegment, Known
        <3>2. request[r] \in Pages
            BY <2>3 DEF ReadCachedAttributes, ReadAttributes, ReadSegment, PageInv, PagesTyped, Page
        <3>3. [request[r] EXCEPT ![field] = value].kind = "page"
            BY <3>1, <3>2 DEF Pages
        <3>. QED
            BY <3>1, <3>3 DEF RowSavers
    <2>. QED
        BY <2>1, <2>2, <2>3 DEF PageSteps
<1>3. NoSaver
    BY <1>2, NoSaverEnds
<1>. QED
    BY <1>1, <1>3, RevisionsKept

LEMMA PagesInvariantStep == PagesInvariant /\ [Next]_vars => PagesInvariant'
<1>. SUFFICES ASSUME IInv, FlagInv, Revisions, PageInv, [Next]_vars PROVE Revisions' /\ PageInv'
    BY NextSound, FlagStep DEF PagesInvariant
<1>1. IInv' /\ FlagInv'
    BY NextSound, FlagStep
<1>2. CASE UNCHANGED vars
    <2>1. Revisions'
        BY <1>2 DEF vars, Revisions
    <2>2. SameScopes
        BY <1>2 DEF vars, SameScopes, InUse
    <2>3. /\ UNCHANGED <<project, cached, remembered, defined, request, reverted>>
        BY <1>2 DEF vars
    <2>4. \A r \in Requests : Page(r)' => Page(r) /\ request'[r] = request[r]
        BY <2>3 DEF Page
    <2>. QED
        BY <1>1, <2>1, <2>2, <2>3, <2>4, WritesPages DEF PageInv, PagesTyped
<1>3. CASE MembersStep /\ UNCHANGED <<project, purge>> /\ UNCHANGED segmentVars
    <2>1. Revisions'
        BY <1>3, MembersRequests, BegunGrows, SameRevisions, RevisionsMove
    <2>2. /\ SameScopes /\ UNCHANGED <<project, cached, remembered, defined, reverted>>
        BY <1>3 DEF segmentVars, SameScopes, InUse
    <2>3. \A r \in Requests : Page(r)' => Page(r) /\ request'[r] = request[r]
        BY <1>3, MembersKeep DEF MembersOnly, Page, Readers
    <2>. QED
        BY <1>1, <2>1, <2>2, <2>3, WritesPages DEF PageInv, PagesTyped
<1>4. CASE ProjectsStep /\ Cascade
    <2>1. Revisions'
        BY <1>4, ProjectsRequests, RevisionsMove
    <2>. QED
        BY <1>1, <1>4, <2>1, ProjectsKeep, MembersPages DEF Cascade
<1>5. CASE SegmentsStep
    <2>1. SegmentsWrite \/ PageSteps
        BY <1>5 DEF SegmentsStep, SegmentsWrite, PageSteps
    <2>2. CASE SegmentsWrite
        BY <1>1, <2>2, WritesRevisions, WritesPagesSound
    <2>3. CASE PageSteps
        BY <2>3, PagesRevisions, OpenPageSound, ReadCachedSound, ReadsSound, RedirectSound, RenderSound
        DEF PageSteps
    <2>. QED
        BY <2>1, <2>2, <2>3
<1>. QED
    BY <1>2, <1>3, <1>4, <1>5 DEF Next

LEMMA PagesInvariantHolds == Spec => []PagesInvariant
<1>1. Init => PagesInvariant
    BY InitSound, FlagInit, RevisionsInit, PageInit DEF PagesInvariant
<1>. QED
    BY <1>1, PagesInvariantStep, PTL DEF Spec

-----------------------------------------------------------------------------
(* The Pages overview while others write.  It knows every attribute that   *)
(* was given before it was opened and is not deleted since: whatever else  *)
(* it has in the cache, and however old that is.                           *)

Covers(terms, ids, known) ==
    \A a \in Attributes : known \cap a # {} /\ terms \cap a # {} => ids \cap a # {}

\* The attributes of a definition among those that were given.
Met(definition, ids, known) ==
    \A a \in Named(definition, Attributes) : known \cap a # {} => ids \cap a # {}

KnownSound(r) ==
    LET q == request[r]
    IN  /\ q.known \subseteq spent
        /\ Kept(q.revision) => Covers(defined, cached[q.revision].ids, q.known)
        /\ q.attributes # Unread => Covers(defined, q.attributes.ids, q.known)
        /\ q.found # Unread =>
            /\ q.attributes # Unread
            /\ q.found.row # NoSegment /\ ~q.found.row.unsettled /\ ~q.found.row.review =>
                Met(q.found.row.definition, q.attributes.ids, q.known)

Overview(r) == Page(r) /\ request[r].cachedRead

KnownInv == ~reverted => \A r \in Requests : Overview(r) => KnownSound(r)

\* What is cached stays, or is what is defined.
CacheStep == \A n \in 0 .. MaxRequests :
    Kept(n)' => (Kept(n) /\ cached'[n] = cached[n]) \/ cached'[n].ids = defined'

\* What a step may do to a page: nothing or quiet only, open it, or one of its reads.
Steady(q, x) ==
    /\ x.known = q.known /\ x.revision = q.revision
    /\ x.attributes = q.attributes /\ x.found = q.found

Opened(x) ==
    /\ x.known = spent /\ x.revision = project[Product].revision
    /\ x.attributes = Unread /\ x.found = Unread

Learnt(q, x) ==
    /\ x.known = q.known /\ x.revision = q.revision
    /\ q.attributes = Unread /\ x.found = q.found
    /\ \/ x.attributes.ids = defined
       \/ Kept(q.revision) /\ x.attributes.ids = cached[q.revision].ids

Found(q, x) ==
    /\ x.known = q.known /\ x.revision = q.revision
    /\ q.attributes # Unread /\ x.attributes = q.attributes
    /\ \/ x.found.row = NoSegment
       \/ \E s \in Segments : InUse(s) /\ x.found.row = segment[s]

PageStep(r) ==
    \/ Overview(r) /\ request[r] \in Pages /\ Steady(request[r], request'[r])
    \/ Opened(request'[r]) /\ UNCHANGED <<defined, spent, cached>>
    \/ Overview(r) /\ request[r] \in Pages /\ Learnt(request[r], request'[r])
    \/ Overview(r) /\ request[r] \in Pages /\ Found(request[r], request'[r])

LEMMA CoversStays ==
    ASSUME NoRevival, NEW known, known \subseteq spent, NEW ids, Covers(defined, ids, known)
    PROVE  Covers(defined', ids, known)
BY DEF NoRevival, Covers

\* What is cached for the page goes on to cover what it knows.
LEMMA CacheCovers ==
    ASSUME NoRevival, CacheStep, NEW n \in 0 .. MaxRequests, NEW known, known \subseteq spent,
           Kept(n) => Covers(defined, cached[n].ids, known), Kept(n)'
    PROVE  Covers(defined', cached'[n].ids, known)
<1>1. CASE cached'[n].ids = defined'
    BY <1>1 DEF Covers
<1>2. CASE Kept(n) /\ cached'[n] = cached[n]
    BY <1>2, CoversStays
<1>. QED
    BY <1>1, <1>2 DEF CacheStep

\* A segment that is not up for review has all of its attributes (FlagSound).
LEMMA MetNow ==
    ASSUME FlagInv, NEW s \in Segments, InUse(s), ~segment[s].unsettled, ~segment[s].review,
           NEW known, NEW ids, Covers(defined, ids, known)
    PROVE  Met(segment[s].definition, ids, known)
<1>1. Gone(segment[s].definition) = {}
    BY DEF FlagInv, FlagSound, Settled, Complete
<1>. QED
    BY <1>1 DEF Gone, Named, Covers, Met

LEMMA KnownStep ==
    ASSUME FlagInv, PageInv, KnownInv, NoRevival, CacheStep, ~reverted, NEW r \in Requests,
           project[Product].revision \in 0 .. MaxRequests, PageStep(r)
    PROVE  KnownSound(r)'
<1>. DEFINE q == request[r]
            x == request'[r]
            n == q.revision
<1>1. Overview(r) => KnownSound(r)
    BY DEF KnownInv
<1>2. ASSUME Overview(r), q \in Pages, x.known = q.known, x.revision = n
      PROVE  /\ n \in 0 .. MaxRequests /\ q.known \subseteq spent /\ x.known \subseteq spent'
             /\ Kept(n) => Covers(defined, cached[n].ids, q.known)
             /\ cached'[x.revision] # NotCached => Covers(defined', cached'[x.revision].ids, x.known)
    <2>1. n \in 0 .. MaxRequests
        BY <1>2 DEF Pages
    <2>2. q.known \subseteq spent /\ (Kept(n) => Covers(defined, cached[n].ids, q.known))
        BY <1>1, <1>2 DEF KnownSound
    <2>3. spent \subseteq spent'
        BY DEF NoRevival
    <2>4. Kept(n)' => Covers(defined', cached'[n].ids, q.known)
        <3>1. ASSUME cached'[n] # NotCached PROVE Covers(defined', cached'[n].ids, q.known)
            <4>1. ASSUME NEW m \in 0 .. MaxRequests, NEW k, k \subseteq spent,
                         Kept(m) => Covers(defined, cached[m].ids, k), cached'[m] # NotCached
                  PROVE  Covers(defined', cached'[m].ids, k)
                <5>1. Kept(m)'
                    BY <4>1 DEF Kept
                <5>. QED
                    BY <4>1, <5>1, CacheCovers
            <4>. QED
                BY <2>1, <2>2, <3>1, <4>1
        <3>. QED
            BY <1>2, <3>1 DEF Kept
    <2>. QED
        BY <1>2, <2>1, <2>2, <2>3, <2>4 DEF Kept
<1>3. CASE Overview(r) /\ q \in Pages /\ Steady(q, x)
    <2>1. q.attributes # Unread => Covers(defined', q.attributes.ids, q.known)
        BY <1>1, <1>3, CoversStays DEF KnownSound
    <2>. QED
        BY <1>1, <1>2, <1>3, <2>1 DEF KnownSound, Steady, Kept
<1>4. CASE Opened(x) /\ UNCHANGED <<defined, spent, cached>>
    <2>1. CacheSound
        BY DEF PageInv
    <2>2. cached'[x.revision] # NotCached => cached'[x.revision].ids = defined'
        BY <1>4, <2>1 DEF CacheSound, Opened, Kept
    <2>. QED
        BY <1>4, <2>2 DEF KnownSound, Opened, Covers, Kept
<1>5. CASE Overview(r) /\ q \in Pages /\ Learnt(q, x)
    <2>1. x.known = q.known /\ x.revision = n /\ q.attributes = Unread /\ x.found = q.found
        BY <1>5 DEF Learnt
    <2>2. q.found = Unread
        BY <1>1, <1>5, <2>1 DEF KnownSound
    <2>3. Covers(defined, x.attributes.ids, q.known)
        BY <1>2, <1>5, <2>1 DEF Learnt, Covers
    <2>4. Covers(defined', x.attributes.ids, q.known)
        BY <1>2, <1>5, <2>1, <2>3, CoversStays
    <2>. QED
        BY <1>2, <1>5, <2>1, <2>2, <2>4 DEF KnownSound, Kept
<1>6. CASE Overview(r) /\ q \in Pages /\ Found(q, x)
    <2>1. /\ x.known = q.known /\ x.revision = n /\ q.attributes # Unread
          /\ x.attributes = q.attributes
        BY <1>6 DEF Found
    <2>2. Covers(defined, q.attributes.ids, q.known)
        BY <1>1, <1>6, <2>1 DEF KnownSound
    <2>3. Covers(defined', q.attributes.ids, q.known)
        BY <1>2, <1>6, <2>1, <2>2, CoversStays
    <2>4. x.found.row # NoSegment /\ ~x.found.row.unsettled /\ ~x.found.row.review =>
              Met(x.found.row.definition, q.attributes.ids, q.known)
        BY <1>6, <2>2, MetNow DEF Found
    <2>. QED
        BY <1>2, <1>6, <2>1, <2>3, <2>4 DEF KnownSound, Kept
<1>. QED
    BY <1>3, <1>4, <1>5, <1>6 DEF PageStep

\* Of the steps among others a page learns at most that there was a write.
LEMMA WritesRequests ==
    ASSUME IInv, SegmentsWrite, NEW x \in Requests, Page(x)'
    PROVE  Page(x) /\ (request'[x] = request[x] \/ request'[x] = [request[x] EXCEPT !.quiet = FALSE])
<1>1. ASSUME NEW kinds \in SUBSET Readers, "page" \in kinds, request' = Disturbed(kinds)
      PROVE  Page(x) /\ request'[x] = [request[x] EXCEPT !.quiet = FALSE]
    BY <1>1, DisturbedPage DEF Page
<1>2. ASSUME NEW r \in Requests, NEW q, q.kind # "page", request' = [Disturbed({"page"}) EXCEPT ![r] = q]
      PROVE  Page(x) /\ request'[x] = [request[x] EXCEPT !.quiet = FALSE]
    <2>1. Disturbed({"page"}) = [y \in Requests |-> Disturbed({"page"})[y]]
        BY DisturbedHarmless
    <2>2. request'[x] = Disturbed({"page"})[x] /\ Disturbed({"page"})[x].kind = "page"
        BY <1>2, <2>1 DEF Page
    <2>. QED
        BY <2>2, DisturbedPage DEF Readers
<1>3. ASSUME NEW r \in Requests, NEW q, q.kind # "page", request' = [request EXCEPT ![r] = q]
      PROVE  Page(x) /\ request'[x] = request[x]
    BY <1>3 DEF Page, IInv, RequestsSound
<1>4. ASSUME NEW r \in Requests, StoreDefinition(r)
      PROVE  Page(x) /\ request'[x] = [request[x] EXCEPT !.quiet = FALSE]
    <2>. DEFINE q == [Disturbed({"page"})[r] EXCEPT !.saved = TRUE]
    <2>1. request' = [Disturbed({"page"}) EXCEPT ![r] = q] /\ request[r].kind = "segment"
        BY <1>4 DEF StoreDefinition
    <2>2. q.kind # "page"
        BY <2>1, DisturbedHarmless
    <2>. HIDE DEF q
    <2>. QED
        BY <1>2, <2>1, <2>2
<1>5. ASSUME NEW r \in Requests, StoreSegment(r) \/ ClearReview(r)
      PROVE  Page(x) /\ request'[x] = [request[x] EXCEPT !.quiet = FALSE]
    BY <1>2, <1>5 DEF StoreSegment, ClearReview, Idle
<1>6. ASSUME NEW r \in Requests, Fail(r) PROVE Page(x) /\ request'[x] = request[x]
    BY <1>3, <1>6 DEF Fail, End, Idle
<1>7. ASSUME NEW r \in Free, NEW u \in Users, NEW s \in Segments, NEW definition,
             AskSegment(r, u, s, definition)
      PROVE  Page(x) /\ request'[x] = request[x]
    <2>1. r \in Requests /\ \E q : q.kind = "segment" /\ request' = [request EXCEPT ![r] = q]
        BY <1>7 DEF AskSegment, Begin, Free
    <2>. QED
        BY <1>3, <2>1
<1>8. ASSUME NEW u \in Users, SaveValues(u) PROVE Page(x) /\ request'[x] = request[x]
    BY <1>8 DEF SaveValues, Page
<1>9. ASSUME NEW u \in Users, NEW s \in Segments, DeleteSegment(u, s)
      PROVE  Page(x) /\ request'[x] = [request[x] EXCEPT !.quiet = FALSE]
    BY <1>1, <1>9 DEF DeleteSegment, Readers
<1>10. ASSUME NEW u \in Users, NEW new, NEW deleted, NEW removed, SaveDefinitions(u, new, deleted, removed)
       PROVE  Page(x) /\ request'[x] = [request[x] EXCEPT !.quiet = FALSE]
    BY <1>1, <1>10 DEF SaveDefinitions, Readers
<1>. QED
    BY <1>4, <1>5, <1>6, <1>7, <1>8, <1>9, <1>10 DEF SegmentsWrite

LEMMA SteadyPages ==
    ASSUME PageInv, NEW x \in Requests, Page(x), Overview(x)',
           request'[x] = request[x] \/ request'[x] = [request[x] EXCEPT !.quiet = FALSE]
    PROVE  PageStep(x)
<1>1. request[x] \in Pages
    BY DEF PageInv, PagesTyped
<1>2. ASSUME NEW q \in Pages
      PROVE  Steady(q, [q EXCEPT !.quiet = FALSE])
    BY DEF Steady, Pages
<1>3. ASSUME NEW q \in Pages
      PROVE  [q EXCEPT !.quiet = FALSE].cachedRead = q.cachedRead
    BY DEF Pages
<1>4. Steady(request[x], request[x])
    BY DEF Steady
<1>5. Overview(x)
    BY <1>1, <1>3 DEF Overview, Page
<1>6. Steady(request[x], request'[x])
    BY <1>1, <1>2, <1>4
<1>. QED
    BY <1>1, <1>5, <1>6 DEF PageStep

\* The steps of a page, as the other pages and it see them.
LEMMA PageStepsKnown ==
    ASSUME IInv, FlagInv, Revisions, PageInv, PageSteps, NEW x \in Requests, Overview(x)'
    PROVE  PageStep(x)
<1>1. ASSUME NEW r \in Requests, NEW q, request' = [request EXCEPT ![r] = q], x # r
      PROVE  PageStep(x)
    <2>1. request'[x] = request[x]
        BY <1>1 DEF IInv, RequestsSound
    <2>. QED
        BY <2>1, SteadyPages DEF Overview, Page
<1>2. ASSUME NEW u, NEW cachedRead, NEW url, NEW hops, NEW quiet, NEW r \in Requests,
             request' = [request EXCEPT ![r] = PageRequest(u, cachedRead, url, hops, quiet)],
             UNCHANGED <<defined, spent, cached>>
      PROVE  PageStep(x)
    <2>1. CASE x = r
        <3>1. request'[x] = PageRequest(u, cachedRead, url, hops, quiet)
            BY <1>2, <2>1 DEF IInv, RequestsSound
        <3>. QED
            BY <1>2, <3>1 DEF PageStep, Opened, PageRequest
    <2>. QED
        BY <1>1, <1>2, <2>1
<1>3. ASSUME NEW r \in Free, NEW u \in Users, NEW cachedRead \in BOOLEAN, NEW url \in Urls,
             OpenPage(r, u, cachedRead, url)
      PROVE  PageStep(x)
    BY <1>2, <1>3 DEF OpenPage, Begin, Free, segmentVars
<1>4. ASSUME NEW r \in Requests, RedirectCanonical(r) \/ RedirectRestored(r) PROVE PageStep(x)
    <2>1. PICK url : Redirect(r, url)
        BY <1>4 DEF RedirectCanonical, RedirectRestored
    <2>. QED
        BY <1>2, <2>1 DEF Redirect, segmentVars
<1>5. ASSUME NEW r \in Requests, Render(r) PROVE PageStep(x)
    <2>1. request' = [request EXCEPT ![r] = Idle] /\ x # r
        BY <1>5 DEF Render, End, Idle, Overview, Page, IInv, RequestsSound
    <2>. QED
        BY <1>1, <2>1
<1>6. ASSUME NEW r \in Requests, ReadAttributes(r) PROVE PageStep(x)
    <2>1. PICK ids : request' = [request EXCEPT ![r] = [request[r] EXCEPT !.attributes = [read |-> TRUE, ids |-> ids]]]
          /\ Page(r) /\ ~request[r].cachedRead
        BY <1>6 DEF ReadAttributes, Known, Page
    <2>2. x # r
        BY <2>1 DEF Overview, Page, IInv, RequestsSound, PageInv, PagesTyped, Pages
    <2>. QED
        BY <1>1, <2>1, <2>2
<1>7. ASSUME NEW r \in Requests, ReadCachedAttributes(r) PROVE PageStep(x)
    <2>1. PICK ids :
              /\ request' = [request EXCEPT ![r] =
                     [request[r] EXCEPT !.attributes = [read |-> TRUE, ids |-> ids]]]
              /\ ids = defined \/ (Kept(request[r].revision) /\ ids = cached[request[r].revision].ids)
        BY <1>7 DEF ReadCachedAttributes, Known, Kept
    <2>2. Overview(r) /\ request[r] \in Pages /\ request[r].attributes = Unread
        BY <1>7 DEF ReadCachedAttributes, Overview, Page, PageInv, PagesTyped
    <2>3. CASE x = r
        <3>1. request'[x] = [request[r] EXCEPT !.attributes = [read |-> TRUE, ids |-> ids]]
            BY <2>1, <2>3 DEF IInv, RequestsSound
        <3>2. /\ request'[x].known = request[r].known /\ request'[x].revision = request[r].revision
              /\ request'[x].found = request[r].found
              /\ request'[x].attributes = [read |-> TRUE, ids |-> ids]
            BY <2>2, <3>1 DEF Pages
        <3>3. Learnt(request[r], request'[x])
            BY <2>1, <2>2, <3>2 DEF Learnt
        <3>. QED
            BY <2>2, <2>3, <3>3 DEF PageStep
    <2>. QED
        BY <1>1, <2>1, <2>3
<1>8. ASSUME NEW r \in Requests, ReadSegment(r) PROVE PageStep(x)
    <2>1. PICK row :
              /\ request' = [request EXCEPT ![r] = [request[r] EXCEPT !.found = [read |-> TRUE, row |-> row]]]
              /\ row = NoSegment \/ \E s : Mine(s, request[r].user) /\ s = request[r].url.segment
                                           /\ row = segment[s]
        BY <1>8 DEF ReadSegment, Mine
    <2>2. Page(r) /\ request[r] \in Pages /\ request[r].url.segment \in Segments \cup {None}
        BY <1>8, PageTyped DEF ReadSegment, Page
    <2>3. row = NoSegment \/ \E s \in Segments : InUse(s) /\ row = segment[s]
        BY <2>1, <2>2 DEF Mine
    <2>4. request[r].cachedRead => request[r].attributes # Unread
        BY <1>8 DEF ReadSegment
    <2>5. CASE x = r
        <3>1. request'[x] = [request[r] EXCEPT !.found = [read |-> TRUE, row |-> row]]
            BY <2>1, <2>5 DEF IInv, RequestsSound
        <3>2. /\ request'[x].cachedRead = request[r].cachedRead
              /\ request'[x].known = request[r].known /\ request'[x].revision = request[r].revision
              /\ request'[x].attributes = request[r].attributes /\ request'[x].found.row = row
            BY <2>2, <3>1 DEF Pages
        <3>3. Overview(r)
            BY <2>2, <2>5, <3>2 DEF Overview
        <3>. QED
            BY <2>2, <2>3, <2>4, <2>5, <3>2, <3>3 DEF PageStep, Found, Overview
    <2>. QED
        BY <1>1, <2>1, <2>5
<1>. QED
    BY <1>3, <1>4, <1>5, <1>6, <1>7, <1>8 DEF PageSteps

\* Neither are deleted attributes given again nor cached ones replaced by others.
LEMMA NothingComesBack ==
    ASSUME IInv, FlagInv, PageInv, [Next]_vars, ~reverted' PROVE NoRevival /\ CacheStep
<1>1. ASSUME UNCHANGED cached PROVE CacheStep
    BY <1>1 DEF CacheStep, Kept
<1>2. ASSUME UNCHANGED <<defined, spent>> PROVE NoRevival
    BY <1>2 DEF NoRevival
<1>3. CASE UNCHANGED vars
    BY <1>1, <1>2, <1>3 DEF vars
<1>4. CASE MembersStep /\ UNCHANGED segmentVars
    BY <1>1, <1>2, <1>4 DEF segmentVars
<1>5. CASE ProjectsStep /\ Cascade
    BY <1>1, <1>2, <1>5 DEF Cascade
<1>6. CASE SegmentsStep
    <2>1. CASE \E u \in Users : \E new, deleted, removed : SaveDefinitions(u, new, deleted, removed)
        <3>1. PICK u \in Users : \E new, deleted, removed : SaveDefinitions(u, new, deleted, removed)
            BY <2>1
        <3>2. PICK new, deleted, removed : SaveDefinitions(u, new, deleted, removed)
            BY <3>1
        <3>3. NoRevival
            BY <3>2, SaveDefinitionsRevive
        <3>4. UNCHANGED cached
            BY <3>2 DEF SaveDefinitions
        <3>. QED
            BY <1>1, <3>3, <3>4
    <2>2. CASE \E r \in Requests : ReadCachedAttributes(r)
        <3>1. PICK r \in Requests : ReadCachedAttributes(r)
            BY <2>2
        <3>2. UNCHANGED <<defined, spent>>
            BY <3>1 DEF ReadCachedAttributes
        <3>3. CASE UNCHANGED cached
            BY <1>1, <1>2, <3>2, <3>3
        <3>4. CASE cached' = [cached EXCEPT ![request[r].revision] = [kept |-> TRUE, ids |-> defined]]
            BY <1>2, <3>2, <3>4 DEF CacheStep, Kept, PageInv, PagesTyped
        <3>. QED
            BY <3>1, <3>3, <3>4 DEF ReadCachedAttributes
    <2>3. CASE UNCHANGED <<defined, spent, cached>>
        BY <1>1, <1>2, <2>3
    <2>. QED
        BY <1>6, <2>1, <2>2, <2>3
        DEF SegmentsStep, SaveValues, AskSegment, DeleteSegment, OpenPage, StoreSegment,
            StoreDefinition, ClearReview, Fail, ReadAttributes, ReadSegment, RedirectCanonical,
            RedirectRestored, Redirect, Render, segmentVars
<1>. QED
    BY <1>3, <1>4, <1>5, <1>6 DEF Next

LEMMA KnownInvStep == PagesInvariant /\ KnownInv /\ [Next]_vars => KnownInv'
<1>. SUFFICES ASSUME PagesInvariant, KnownInv, [Next]_vars, ~reverted', NEW x \in Requests, Overview(x)'
              PROVE  KnownSound(x)'
    BY DEF KnownInv
<1>1. IInv /\ FlagInv /\ Revisions /\ PageInv
    BY DEF PagesInvariant
<1>2. NoRevival /\ CacheStep
    BY <1>1, NothingComesBack
<1>3. ~reverted
    <2>1. CASE ProjectsStep /\ Cascade
        BY <2>1 DEF Cascade
    <2>2. CASE UNCHANGED reverted
        BY <2>2
    <2>. QED
        BY <2>1, <2>2
        DEF Next, vars, SegmentsStep, SaveDefinitions, SaveValues, AskSegment, DeleteSegment, OpenPage,
            StoreSegment, StoreDefinition, ClearReview, Fail, ReadCachedAttributes, ReadAttributes,
            ReadSegment, RedirectCanonical, RedirectRestored, Redirect, Render, segmentVars
<1>4. project[Product].revision \in 0 .. MaxRequests
    BY <1>1, Revision
<1>5. PageStep(x)
    <2>1. ASSUME Page(x), request'[x] = request[x] PROVE PageStep(x)
        BY <1>1, <2>1, SteadyPages
    <2>2. CASE UNCHANGED vars
        BY <2>1, <2>2 DEF vars, Overview, Page
    <2>3. CASE MembersStep \/ ProjectsStep
        BY <1>1, <2>1, <2>3, MembersKeep, ProjectsKeep DEF MembersOnly, Overview, Page, Readers
    <2>4. CASE SegmentsStep
        <3>1. SegmentsWrite \/ PageSteps
            BY <2>4 DEF SegmentsStep, SegmentsWrite, PageSteps
        <3>2. CASE SegmentsWrite
            BY <1>1, <3>2, WritesRequests, SteadyPages DEF Overview, Page
        <3>. QED
            BY <1>1, <3>1, <3>2, PageStepsKnown
    <2>. QED
        BY <2>2, <2>3, <2>4 DEF Next
<1>. QED
    BY <1>1, <1>2, <1>3, <1>4, <1>5, KnownStep

LEMMA KnownInvHolds == Spec => []KnownInv
<1>1. Init => PagesInvariant
    BY InitSound, FlagInit, RevisionsInit, PageInit DEF PagesInvariant
<1>2. Init => KnownInv
    BY DEF Init, MembersInit, Idle, KnownInv, Overview, Page
<1>. QED
    BY <1>1, <1>2, PagesInvariantStep, KnownInvStep, PTL DEF Spec

\* A page that no write has overlapped applies conditions that are there, and
\* under a segment's name all of the segment whose attributes are there; on the
\* Pages overview, which reads the segment after the attributes, no attribute
\* of the segment that was there when it was opened is missing whatever others
\* write (company_attribute_filters.py:716-760, analytics_filter_state.py:144-230).
THEOREM AnswersWhole == Spec => []WholeAnswers
<1>1. PagesInvariant /\ KnownInv => WholeAnswers
    <2>. SUFFICES ASSUME IInv, FlagInv, Revisions, PageInv, KnownInv, NEW r \in Requests, Answers(r),
                         ~reverted, request[r].found.row = NoSegment \/ ~request[r].found.row.unsettled
                  PROVE  LET scope == Scope(r)
                             row   == request[r].found.row
                         IN  /\ request[r].quiet =>
                                 /\ scope.state \subseteq defined
                                 /\ scope.segment # None =>
                                     /\ scope.state = segment[scope.segment].definition \cap defined
                                     /\ ~segment[scope.segment].review /\ Gone(row.definition) = {}
                             /\ request[r].cachedRead /\ scope.segment # None =>
                                 \A a \in Named(row.definition, Attributes) :
                                     request[r].known \cap a # {} => request[r].attributes.ids \cap a # {}
        BY DEF PagesInvariant, WholeAnswers
    <2>. DEFINE s     == request[r].url.segment
                u     == request[r].user
                row   == request[r].found.row
                scope == Scope(r)
    <2>1. HasRead(r) /\ Page(r) /\ request[r].found # Unread
        BY DEF Answers, HasRead, Page
    <2>2. scope.segment # None => row # NoSegment /\ ~row.review /\ scope.segment = s
        BY DEF Scope
    <2>3. ASSUME request[r].cachedRead, scope.segment # None
          PROVE  \A a \in Named(row.definition, Attributes) :
                     request[r].known \cap a # {} => request[r].attributes.ids \cap a # {}
        <3>1. KnownSound(r)
            BY <2>1, <2>3 DEF KnownInv, Overview
        <3>. QED
            BY <2>1, <2>2, <2>3, <3>1 DEF KnownSound, Met
    <2>4. ASSUME request[r].quiet
          PROVE  /\ scope.state \subseteq defined
                 /\ scope.segment # None =>
                     /\ scope.state = segment[scope.segment].definition \cap defined
                     /\ ~segment[scope.segment].review /\ Gone(row.definition) = {}
        <3>1. ReadSound(r)
            BY <2>1, <2>4 DEF PageInv
        <3>2. row # NoSegment => Mine(s, u)
            BY <2>1, <3>1 DEF ReadSound
        <3>3. row # NoSegment /\ ~row.review => Gone(row.definition) = {}
            BY <2>1, <3>1 DEF ReadSound
        <3>4. Mine(s, u) => s # None
            BY DEF Mine
        <3>. HIDE DEF row
        <3>5. CASE Mine(s, u) /\ segment[s].review
            BY <2>1, <2>4, <3>5, ScopeNow
        <3>6. CASE Mine(s, u) /\ ~segment[s].review /\ segment[s].definition \cap defined # {}
            <4>1. scope.state = segment[s].definition \cap defined /\ scope.segment = s
                BY <2>1, <2>4, <3>6, ScopeNow
            <4>. QED
                BY <2>2, <3>3, <3>4, <3>6, <4>1
        <3>7. CASE ~Mine(s, u) \/ (~segment[s].review /\ segment[s].definition \cap defined = {})
            <4>1. scope.state = request[r].url.pairs \cap defined /\ scope.segment = None
                BY <2>1, <2>4, <3>7, ScopeNow
            <4>. QED
                BY <4>1
        <3>. QED
            BY <3>5, <3>6, <3>7
    <2>. QED
        BY <2>3, <2>4
<1>. QED
    BY <1>1, PagesInvariantHolds, KnownInvHolds, PTL

\* The canonical URL is not redirected to the remembered filters nor the other way round:
\* of the two redirects each comes once (analytics_filter_state.py:230-284).
THEOREM RedirectsEnd == Spec => []RedirectsSettle
<1>1. PagesInvariant => RedirectsSettle
    BY DEF PagesInvariant, PageInv, RedirectsSettle, HopsSound, Page
<1>. QED
    BY <1>1, PagesInvariantHolds, PTL
=============================================================================
