------------------------------- MODULE Grants -------------------------------
(***************************************************************************)
(* Groups, roles, permissions, API ownership and API access, and the       *)
(* delegation rule: a manager who is no administrator hands out only       *)
(* scopes they hold (api/admin_groups.go, admin_roles.go, admin_people.go, *)
(* admin_apis.go, handleSetUserGroups, handleImportLDAP), with the group   *)
(* mirroring of a directory sign-in.  A statement or transaction is a step:*)
(* a request carries what it read and may use it when it is stale.         *)
(***************************************************************************)
EXTENDS Naturals, Rbac

CONSTANTS
    User, Group, Role,
    Admin,       \* users with is_admin (module Accounts changes it)
    Source,      \* Source[u]: where u signs in (auth_source)
    Directory,   \* groups of the LDAP and Azure AD directories
    Worker,      \* requests that can be in flight together
    Sent,        \* what clients send in this instance
    InitialMembers, InitialGroupRoles, InitialPerms,  \* what was set up before
    MaxWrites    \* bound: no request begins after so many writes

Provider == {"azuread", "ldap"}
Level == {"none", "view", "invoke"}

\* groups.azure_group_id and ldap_group_dn
Mapping == [Provider -> Directory \cup {None}]

UserOps == {"setUserGroups", "addMembers", "removeMember", "import"}
GroupOps == {"createGroup", "updateGroup", "deleteGroup", "setGroupRoles"}
RoleOps == {"createRole", "deleteRole", "addPermission", "replacePermissions",
            "deletePermission"}
APIOps == {"createAPI", "updateAPI", "deleteAPI", "setAccess"}

\* The actions of the scopes clients send: those of the catalogue, a retired name, and
\* "api.none" for any other text.
SentAction == GlobalNames \cup APIActions \cup {"ldap.manage", "api.none"}

\* What a client sends: the row the operation is about, and per operation ids, scopes,
\* a directory mapping, an owner group or access levels.
Input == [op : UserOps \cup GroupOps \cup RoleOps \cup APIOps \cup {"signIn"},
          target : User \cup Group \cup Role \cup Api,
          ids : SUBSET (User \cup Group \cup Role),
          scopes : SUBSET [api : Api \cup {None}, action : SentAction],
          maps : Mapping,
          owner : Group \cup {None},
          levels : [Group -> Level]]

\* Whose ids a request carries: the paths of the routes and the tables that the ids of
\* a body are looked up in (a user's groups, a group's members and roles, an API).
WellFormed(in) ==
    /\ in.op \in {"setUserGroups", "signIn"} => in.target \in User /\ in.ids \subseteq Group
    /\ in.op \in {"addMembers", "removeMember"} =>
          in.target \in Group /\ in.ids \subseteq User
    /\ in.op = "import" => in.ids \subseteq User \cup Group
    /\ in.op \in GroupOps => in.target \in Group
    /\ in.op = "setGroupRoles" => in.ids \subseteq Role
    /\ in.op \in RoleOps => in.target \in Role
    /\ in.op \in APIOps => in.target \in Api

ASSUME GrantConstants ==
    /\ Admin \subseteq User
    /\ User # {}
    /\ None \notin User \cup Group \cup Role \cup Directory
    /\ Group \cap Role = {} /\ Group \cap Api = {} /\ Role \cap Api = {}
    /\ Source \in [User -> Provider \cup {"local"}]
    /\ Sent \subseteq Input /\ \A in \in Sent : WellFormed(in)
    /\ InitialMembers \in [User -> SUBSET Group]
    /\ InitialGroupRoles \in [Group -> SUBSET Role]
    /\ InitialPerms \in [Role -> SUBSET Scope]
    /\ MaxWrites \in Nat

\* A request: its input, the actor's permissions as requireSession loaded them, and
\* what the handler read.
Request == [in : Input, actor : User, perms : SUBSET Scope,
            pc : {"read", "check", "write"},
            listed : SUBSET Group,   \* signIn: the groups with a mapping of the provider
            seen : SUBSET (Group \cup Role),
            seenMaps : Mapping,
            fresh : BOOLEAN]   \* history: no other request has written since it began

ASSUME NoneIsNoRequest == None \notin Request

VARIABLES
    row,         \* row[x]: "unused", "live" or "gone" for a group, role or API (ids are
                 \* AUTOINCREMENT: never reused)
    memberOf,    \* user_groups
    groupRoles,  \* group_roles
    rolePerms,   \* permissions: the scopes of each role
    owner,       \* api_definitions.owner_group_id
    access,      \* api_access
    mapping,     \* mapping[g]: the directory groups g mirrors
    req,         \* req[w]: the request in flight, or None
    writes       \* writes so far

tables == <<row, memberOf, groupRoles, rolePerms, owner, access, mapping>>
vars == <<row, memberOf, groupRoles, rolePerms, owner, access, mapping, req, writes>>

Unmapped == [p \in Provider |-> None]
NoAccess == [g \in Group |-> "none"]

Live(x) == row[x] = "live"

Init ==
    /\ row = [x \in Group \cup Role \cup Api |->
                IF \/ x \in UNION {InitialMembers[u] : u \in User}
                   \/ x \in UNION {InitialGroupRoles[g] : g \in Group}
                   \/ x \in Group /\ InitialGroupRoles[x] # {}
                   \/ x \in Role /\ InitialPerms[x] # {}
                THEN "live" ELSE "unused"]
    /\ memberOf = InitialMembers
    /\ groupRoles = InitialGroupRoles
    /\ rolePerms = InitialPerms
    /\ owner = [a \in Api |-> None]
    /\ access = [a \in Api |-> NoAccess]
    /\ mapping = [g \in Group |-> Unmapped]
    /\ req = [w \in Worker |-> None]
    /\ writes = 0

-----------------------------------------------------------------------------
(* Permissions *)

\* ScopesForRoles
RoleScopes(R) == UNION {rolePerms[r] : r \in R}

\* ScopesForGroups: what the groups' roles hold, what they own and may access.
GroupScopes(G) ==
    RoleScopes(UNION {groupRoles[g] : g \in G})
        \cup {APIScope(a, "manage") : a \in {b \in Api : owner[b] \in G}}
        \cup {APIScope(q[1], q[2]) : q \in
                 {p \in Api \X {"view", "invoke"} : \E g \in G : access[p[1]][g] = p[2]}}

ResolvePermissions(u) == GroupScopes(memberOf[u])

\* requireAPIManagement: some API is the user's to manage, or to create.
ManagesSomeAPI(P) ==
    ManagesAllAPIs(P) \/ Has(P, Global("api.create")) \/ ManagedAPIs(P) # {}

\* The permission each route asks for, and the handlers' checks on one API.
MayCall(u, P, in) ==
    \/ u \in Admin
    \/ in.op \in UserOps /\ Has(P, Global("user.manage"))
    \/ in.op = "import" /\ Has(P, Global("idp.manage"))
    \/ in.op \in GroupOps /\ Has(P, Global("group.manage"))
    \/ in.op \in RoleOps /\ Has(P, Global("role.manage"))
    \/ /\ in.op = "createAPI" /\ Has(P, Global("api.create"))
       /\ in.owner # None => ManagesAllAPIs(P)
    \/ /\ ManagesSomeAPI(P)
       /\ \/ in.op \in {"updateAPI", "setAccess"} /\ CanManageAPI(P, in.target)
          \/ in.op = "deleteAPI" /\ CanDeleteAPI(P, in.target)

\* Mutant of AllowGrant: holding one of the scopes is enough.
AllowGrantSome(r, granted) ==
    r.actor \in Admin \/ granted = {} \/ \E s \in granted : Has(r.perms, s)

\* allowGrant: an administrator grants anything, others what they hold.
AllowGrant(r, granted) == r.actor \in Admin \/ \A s \in granted : Has(r.perms, s)

\* The scopes a change would newly grant: addedIDs, newScopes and the handlers' calls.
Granted(r) ==
    LET in == r.in
    IN  CASE in.op = "setUserGroups" -> GroupScopes(in.ids \ r.seen)
          [] in.op = "setGroupRoles" -> RoleScopes(in.ids \ r.seen)
          [] in.op = "addMembers" -> GroupScopes({in.target})
          [] in.op = "import" -> GroupScopes(in.ids \cap Group)
          [] in.op = "addPermission" -> in.scopes
          [] in.op = "replacePermissions" -> in.scopes \ rolePerms[in.target]
          [] in.op = "updateGroup" /\ in.maps # r.seenMaps -> GroupScopes({in.target})
          [] OTHER -> {}

-----------------------------------------------------------------------------
(* Requests *)

\* Where a handler goes first: it reads the row it changes, or checks the grant, or
\* goes to its write.
FirstStep(op) ==
    IF op \in {"setUserGroups", "setGroupRoles", "updateGroup", "updateAPI", "signIn"}
    THEN "read"
    ELSE IF op \in {"addMembers", "import", "addPermission", "replacePermissions"}
    THEN "check" ELSE "write"

\* A request that passed requireSession, the permission checks and the validation of
\* its scopes; refused ones change nothing.
Arrive(w, u, in) ==
    LET P == ResolvePermissions(u)
    IN  /\ req[w] = None
        /\ writes < MaxWrites
        /\ in.op # "signIn"
        /\ MayCall(u, P, in)
        /\ \A s \in in.scopes : Valid(s)
        /\ req' = [req EXCEPT ![w] =
              [in |-> [in EXCEPT !.scopes = {Normalize(s) : s \in in.scopes}],
               actor |-> u, perms |-> P, pc |-> FirstStep(in.op),
               listed |-> {}, seen |-> {}, seenMaps |-> Unmapped, fresh |-> TRUE]]
        /\ UNCHANGED <<tables, writes>>

\* A directory sign-in reaches SyncDirectoryGroups, which lists the groups: the ones
\* mapped to the user's directory, and of these the ones they are a member of there.
SignIn(w, u, memberships, in) ==
    LET listed == {g \in Group : Live(g) /\ mapping[g][Source[u]] # None}
    IN  /\ req[w] = None
        /\ writes < MaxWrites
        /\ Source[u] # "local"
        /\ in.op = "signIn" /\ in.target = u
        /\ req' = [req EXCEPT ![w] =
              [in |-> [in EXCEPT !.ids = {g \in listed : mapping[g][Source[u]] \in memberships}],
               actor |-> u, perms |-> {}, pc |-> FirstStep("signIn"),
               listed |-> listed, seen |-> {}, seenMaps |-> Unmapped, fresh |-> TRUE]]
        /\ UNCHANGED <<tables, writes>>

\* Refused on what was read: a missing row, an administrator's groups, a new owner.
RefusedOnRead(r) ==
    \/ r.in.op \in {"updateGroup", "updateAPI"} /\ ~Live(r.in.target)
    \/ r.in.op = "setUserGroups" /\ r.in.target \in Admin /\ r.actor \notin Admin
    \/ /\ r.in.op = "updateAPI" /\ owner[r.in.target] # r.in.owner
       /\ r.actor \notin Admin /\ ~ManagesAllAPIs(r.perms)

\* The handler reads what it is about to replace.
ReadCurrent(w) ==
    LET r == req[w]
    IN  /\ r # None /\ r.pc = "read"
        /\ req' = [req EXCEPT ![w] =
              IF RefusedOnRead(r) THEN None
              ELSE [r EXCEPT
                      !.seen = CASE r.in.op \in {"setUserGroups", "signIn"} -> memberOf[r.in.target]
                                 [] r.in.op = "setGroupRoles" -> groupRoles[r.in.target]
                                 [] OTHER -> {},
                      !.seenMaps = IF r.in.op = "updateGroup" THEN mapping[r.in.target] ELSE @,
                      !.pc = IF r.in.op \in {"signIn", "updateAPI"} THEN "write" ELSE "check"]]
        /\ UNCHANGED <<tables, writes>>

\* Adding members names an existing group, and an administrator only by another one;
\* an import names existing groups.
RefusedOnCheck(r) ==
    \/ /\ r.in.op = "addMembers"
       /\ ~Live(r.in.target) \/ (r.in.ids \cap Admin # {} /\ r.actor \notin Admin)
    \/ r.in.op = "import" /\ \E g \in r.in.ids \cap Group : ~Live(g)

\* allowGrant, on the scopes as they are now.
CheckGrant(w) ==
    LET r == req[w]
    IN  /\ r # None /\ r.pc = "check"
        /\ req' = [req EXCEPT ![w] =
              IF RefusedOnCheck(r) \/ ~AllowGrant(r, Granted(r)) THEN None
              ELSE [r EXCEPT !.pc = "write"]]
        /\ UNCHANGED <<tables, writes>>

-----------------------------------------------------------------------------
(* Writes *)

\* Whether the statement finds its row, the foreign keys hold and the name is free:
\* otherwise the transaction is rolled back or changes nothing.
Possible(r) ==
    LET in == r.in
    IN  CASE in.op = "setUserGroups" -> \A g \in in.ids : Live(g)
          [] in.op = "setGroupRoles" -> Live(in.target) /\ \A x \in in.ids : Live(x)
          [] in.op = "removeMember" ->
                Live(in.target) /\ (in.ids \cap Admin = {} \/ r.actor \in Admin)
          [] in.op = "import" -> \A g \in in.ids \cap Group : Live(g)
          [] in.op \in {"createGroup", "createRole"} -> row[in.target] = "unused"
          [] in.op = "createAPI" ->
                row[in.target] = "unused" /\ (in.owner # None => Live(in.owner))
          [] in.op = "updateAPI" -> Live(in.target) /\ (in.owner # None => Live(in.owner))
          [] in.op = "setAccess" ->
                Live(in.target) /\ \A g \in Group : in.levels[g] = "none" \/ Live(g)
          [] in.op = "signIn" -> \A g \in in.ids \ r.seen : Live(g)
          [] OTHER -> Live(in.target)

Writing(w, op) == req[w] # None /\ req[w].pc = "write" /\ req[w].in.op = op

\* A write that fails.  (An import may have filled some of its groups by then.)
WriteFails(w) ==
    /\ req[w] # None /\ req[w].pc = "write"
    /\ ~Possible(req[w])
    /\ req' = [req EXCEPT ![w] = None]
    /\ UNCHANGED <<tables, writes>>

\* The request goes on as next, and what the others have read is no longer fresh.
Wrote(w, next) ==
    /\ writes' = writes + 1
    /\ req' = [x \in Worker |->
                 IF x = w THEN next
                 ELSE IF req[x] = None THEN None
                 ELSE [req[x] EXCEPT !.fresh = FALSE]]

\* A write that is the last step of its handler.
Commit(w, op) == Writing(w, op) /\ Possible(req[w]) /\ Wrote(w, None)

SetUserGroups(w) ==
    /\ Commit(w, "setUserGroups")
    /\ memberOf' = [memberOf EXCEPT ![req[w].in.target] = req[w].in.ids]
    /\ UNCHANGED <<row, groupRoles, rolePerms, owner, access, mapping>>

AddGroupMembers(w) ==
    /\ Commit(w, "addMembers")
    /\ memberOf' = [u \in User |-> memberOf[u] \cup
                       (IF u \in req[w].in.ids THEN {req[w].in.target} ELSE {})]
    /\ UNCHANGED <<row, groupRoles, rolePerms, owner, access, mapping>>

RemoveGroupMember(w) ==
    /\ Commit(w, "removeMember")
    /\ memberOf' = [u \in User |-> memberOf[u] \
                       (IF u \in req[w].in.ids THEN {req[w].in.target} ELSE {})]
    /\ UNCHANGED <<row, groupRoles, rolePerms, owner, access, mapping>>

\* handleImportLDAP adds the directory users group by group, one transaction each; an
\* administrator only when another one imports.
ImportIntoGroup(w) ==
    /\ Writing(w, "import")
    /\ \E g \in req[w].in.ids \cap Group :
          /\ Live(g)
          /\ memberOf' = [u \in User |-> memberOf[u] \cup
                IF /\ u \in req[w].in.ids /\ Source[u] = "ldap"
                   /\ u \notin Admin \/ req[w].actor \in Admin
                THEN {g} ELSE {}]
          /\ Wrote(w, IF req[w].in.ids \cap Group = {g} THEN None
                      ELSE [req[w] EXCEPT !.in.ids = @ \ {g}])
    /\ UNCHANGED <<row, groupRoles, rolePerms, owner, access, mapping>>

\* Mutant of SyncDirectoryGroups: a user joins groups and never leaves one.
SyncOnlyJoins(w) ==
    LET r == req[w]
    IN  /\ Commit(w, "signIn")
        /\ memberOf' = [memberOf EXCEPT ![r.in.target] = @ \cup (r.in.ids \ r.seen)]
        /\ UNCHANGED <<row, groupRoles, rolePerms, owner, access, mapping>>

\* SyncDirectoryGroups: of the listed groups the user joins those of ids they were not
\* seen in, and leaves the others they were seen in.
SyncDirectoryGroups(w) ==
    LET r == req[w]
    IN  /\ Commit(w, "signIn")
        /\ memberOf' = [memberOf EXCEPT ![r.in.target] =
              (@ \cup (r.in.ids \ r.seen)) \ ((r.listed \ r.in.ids) \cap r.seen)]
        /\ UNCHANGED <<row, groupRoles, rolePerms, owner, access, mapping>>

SetGroupRoles(w) ==
    /\ Commit(w, "setGroupRoles")
    /\ groupRoles' = [groupRoles EXCEPT ![req[w].in.target] = req[w].in.ids]
    /\ UNCHANGED <<row, memberOf, rolePerms, owner, access, mapping>>

CreateGroup(w) ==
    /\ Commit(w, "createGroup")
    /\ row' = [row EXCEPT ![req[w].in.target] = "live"]
    /\ mapping' = [mapping EXCEPT ![req[w].in.target] = req[w].in.maps]
    /\ UNCHANGED <<memberOf, groupRoles, rolePerms, owner, access>>

UpdateGroup(w) ==
    /\ Commit(w, "updateGroup")
    /\ mapping' = [mapping EXCEPT ![req[w].in.target] = req[w].in.maps]
    /\ UNCHANGED <<row, memberOf, groupRoles, rolePerms, owner, access>>

\* Mutant of DeleteGroup: the owner column keeps the id of the group.
DeleteGroupKeepsOwner(w) ==
    LET g == req[w].in.target
    IN  /\ Commit(w, "deleteGroup")
        /\ row' = [row EXCEPT ![g] = "gone"]
        /\ memberOf' = [u \in User |-> memberOf[u] \ {g}]
        /\ groupRoles' = [groupRoles EXCEPT ![g] = {}]
        /\ access' = [a \in Api |-> [access[a] EXCEPT ![g] = "none"]]
        /\ mapping' = [mapping EXCEPT ![g] = Unmapped]
        /\ UNCHANGED <<rolePerms, owner>>

\* DeleteGroup, with the foreign keys' ON DELETE SET NULL and CASCADE.
DeleteGroup(w) ==
    LET g == req[w].in.target
    IN  /\ Commit(w, "deleteGroup")
        /\ row' = [row EXCEPT ![g] = "gone"]
        /\ memberOf' = [u \in User |-> memberOf[u] \ {g}]
        /\ groupRoles' = [groupRoles EXCEPT ![g] = {}]
        /\ owner' = [a \in Api |-> IF owner[a] = g THEN None ELSE owner[a]]
        /\ access' = [a \in Api |-> [access[a] EXCEPT ![g] = "none"]]
        /\ mapping' = [mapping EXCEPT ![g] = Unmapped]
        /\ UNCHANGED rolePerms

CreateRole(w) ==
    /\ Commit(w, "createRole")
    /\ row' = [row EXCEPT ![req[w].in.target] = "live"]
    /\ UNCHANGED <<memberOf, groupRoles, rolePerms, owner, access, mapping>>

DeleteRole(w) ==
    LET r == req[w].in.target
    IN  /\ Commit(w, "deleteRole")
        /\ row' = [row EXCEPT ![r] = "gone"]
        /\ rolePerms' = [rolePerms EXCEPT ![r] = {}]
        /\ groupRoles' = [g \in Group |-> groupRoles[g] \ {r}]
        /\ UNCHANGED <<memberOf, owner, access, mapping>>

AddRolePermission(w) ==
    /\ Commit(w, "addPermission")
    /\ rolePerms' = [rolePerms EXCEPT ![req[w].in.target] = @ \cup req[w].in.scopes]
    /\ UNCHANGED <<row, memberOf, groupRoles, owner, access, mapping>>

ReplaceRolePermissions(w) ==
    /\ Commit(w, "replacePermissions")
    /\ rolePerms' = [rolePerms EXCEPT ![req[w].in.target] = req[w].in.scopes]
    /\ UNCHANGED <<row, memberOf, groupRoles, owner, access, mapping>>

\* DeletePermission deletes one row: a scope entered twice stays in the other one, and
\* an id that is gone deletes nothing.
DeletePermission(w) ==
    /\ Commit(w, "deletePermission")
    /\ \E S \in {{}, req[w].in.scopes} :
          rolePerms' = [rolePerms EXCEPT ![req[w].in.target] = @ \ S]
    /\ UNCHANGED <<row, memberOf, groupRoles, owner, access, mapping>>

CreateAPI(w) ==
    /\ Commit(w, "createAPI")
    /\ row' = [row EXCEPT ![req[w].in.target] = "live"]
    /\ owner' = [owner EXCEPT ![req[w].in.target] = req[w].in.owner]
    /\ UNCHANGED <<memberOf, groupRoles, rolePerms, access, mapping>>

UpdateAPI(w) ==
    /\ Commit(w, "updateAPI")
    /\ owner' = [owner EXCEPT ![req[w].in.target] = req[w].in.owner]
    /\ UNCHANGED <<row, memberOf, groupRoles, rolePerms, access, mapping>>

\* DeleteAPIDefinition: with the scopes api:<id>:... of every role.
DeleteAPI(w) ==
    LET a == req[w].in.target
    IN  /\ Commit(w, "deleteAPI")
        /\ row' = [row EXCEPT ![a] = "gone"]
        /\ rolePerms' = [r \in Role |-> {s \in rolePerms[r] : s.api # a}]
        /\ owner' = [owner EXCEPT ![a] = None]
        /\ access' = [access EXCEPT ![a] = NoAccess]
        /\ UNCHANGED <<memberOf, groupRoles, mapping>>

SetAPIAccess(w) ==
    /\ Commit(w, "setAccess")
    /\ access' = [access EXCEPT ![req[w].in.target] = req[w].in.levels]
    /\ UNCHANGED <<row, memberOf, groupRoles, rolePerms, owner, mapping>>

-----------------------------------------------------------------------------
Write(w) ==
    \/ SetUserGroups(w) \/ AddGroupMembers(w) \/ RemoveGroupMember(w) \/ ImportIntoGroup(w)
    \/ SyncDirectoryGroups(w) \/ SetGroupRoles(w)
    \/ CreateGroup(w) \/ UpdateGroup(w) \/ DeleteGroup(w)
    \/ CreateRole(w) \/ DeleteRole(w)
    \/ AddRolePermission(w) \/ ReplaceRolePermissions(w) \/ DeletePermission(w)
    \/ CreateAPI(w) \/ UpdateAPI(w) \/ DeleteAPI(w) \/ SetAPIAccess(w)

Next ==
    \E w \in Worker :
        \/ \E u \in User, in \in Sent : Arrive(w, u, in)
        \/ \E u \in User, M \in SUBSET Directory, in \in Sent : SignIn(w, u, M, in)
        \/ ReadCurrent(w) \/ CheckGrant(w) \/ WriteFails(w)
        \/ Write(w)

Spec == Init /\ [][Next]_vars

-----------------------------------------------------------------------------
(* Properties *)

\* Every variable has its type: in particular roles hold only scopes of the catalogue,
\* retired names replaced.
TypeOK ==
    /\ row \in [Group \cup Role \cup Api -> {"unused", "live", "gone"}]
    /\ memberOf \in [User -> SUBSET Group]
    /\ groupRoles \in [Group -> SUBSET Role]
    /\ rolePerms \in [Role -> SUBSET Scope]
    /\ owner \in [Api -> Group \cup {None}]
    /\ access \in [Api -> [Group -> Level]]
    /\ mapping \in [Group -> Mapping]
    /\ req \in [Worker -> Request \cup {None}]
    /\ writes \in Nat

\* Whatever requests interleave, nothing refers to a group, role or API that does not
\* exist: rights never hang on a deleted row, and none wait for a row to come.  (Scopes
\* of API ids are free text: a role may hold one before the API exists.)
RefsLive ==
    /\ \A u \in User : \A g \in memberOf[u] : Live(g)
    /\ \A g \in Group : groupRoles[g] # {} => Live(g)
    /\ \A g \in Group : \A r \in groupRoles[g] : Live(r)
    /\ \A r \in Role : rolePerms[r] # {} => Live(r)
    /\ \A a \in Api : owner[a] # None => Live(a) /\ Live(owner[a])
    /\ \A a \in Api, g \in Group : access[a][g] # "none" => Live(a) /\ Live(g)
    /\ \A g \in Group : mapping[g] # Unmapped => Live(g)

\* The step is a write of w: the others' requests lose their freshness.
Writes(w) == writes' # writes /\ (req'[w] = None \/ req'[w].fresh)

\* Delegation: the write of a manager who is no administrator gives nobody a scope that
\* neither they nor the manager held, and maps no group to a directory group whose
\* scopes go beyond the manager's (its members get them at sign-in).  Of requests that
\* nobody else wrote during: the checks use what the handler read before.
NoEscalation ==
    [][\A w \in Worker :
          (/\ req[w] # None /\ req[w].fresh /\ Writes(w)
           /\ req[w].in.op # "signIn" /\ req[w].actor \notin Admin) =>
             /\ \A u \in User, s \in Scope :
                   Has(ResolvePermissions(u)', s) =>
                      Has(ResolvePermissions(u), s) \/ Has(req[w].perms, s)
             /\ \A g \in Group :
                   mapping'[g] # mapping[g] /\ Live(g)' =>
                      \A s \in GroupScopes({g})' : Has(req[w].perms, s)]_vars

\* A directory sign-in nobody wrote during leaves the user in exactly the groups mapped
\* to directory groups they are a member of, and in the unmapped groups they were in.
SyncMirrors ==
    [][\A w \in Worker :
          (req[w] # None /\ req[w].in.op = "signIn" /\ req[w].fresh /\ Writes(w)) =>
             LET u == req[w].in.target
                 mapped == {g \in Group : mapping[g][Source[u]] # None}
             IN  /\ memberOf'[u] \cap mapped = req[w].in.ids
                 /\ memberOf'[u] \ mapped = memberOf[u] \ mapped]_vars

\* A user who holds api.delete may delete any API that exists.
DeleteAnyAPI ==
    \A u \in User, a \in Api, in \in Sent :
        /\ Live(a) /\ in.op = "deleteAPI" /\ in.target = a
        /\ Has(ResolvePermissions(u), Global("api.delete"))
        => MayCall(u, ResolvePermissions(u), in)

=============================================================================
