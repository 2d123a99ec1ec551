------------------------------ MODULE MCGrants ------------------------------
(***************************************************************************)
(* An instance of Grants.  boss is administrator; ann manages users, groups*)
(* and roles through group staff, and may view API orders; bob is in group *)
(* ops, whose role may read the audit log, which ann may not.              *)
(***************************************************************************)
EXTENDS Grants, TLC

CONSTANTS boss, ann, bob, staff, ops, spare, managing, auditing, extra, orders, dir, w1, w2

MCSource == boss :> "local" @@ ann :> "local" @@ bob :> "ldap"
MCMembers == boss :> {} @@ ann :> {staff} @@ bob :> {ops}
MCGroupRoles == staff :> {managing} @@ ops :> {auditing} @@ spare :> {}
MCPerms == managing :> {Global("user.manage"), Global("group.manage"), Global("role.manage"),
                        APIScope(orders, "view")}
           @@ auditing :> {Global("audit.view")} @@ extra :> {}

Blank == [op |-> "signIn", target |-> bob, ids |-> {}, scopes |-> {}, maps |-> Unmapped,
          owner |-> None, levels |-> NoAccess]

ToDir == [Unmapped EXCEPT !["ldap"] = dir]

\* What clients send: for each operation, calls within ann's rights and beyond them.
MCSent ==
    {Blank}
    \cup {[Blank EXCEPT !.op = "setUserGroups", !.ids = I] :
            I \in {{}, {staff}, {ops, staff}, {spare}}}
    \cup {[Blank EXCEPT !.op = "addMembers", !.target = g, !.ids = {bob, ann}] :
            g \in {ops, staff}}
    \cup {[Blank EXCEPT !.op = "removeMember", !.target = ops, !.ids = {bob}],
          [Blank EXCEPT !.op = "import", !.ids = {bob, staff, spare}]}
    \cup {[Blank EXCEPT !.op = "setGroupRoles", !.target = spare, !.ids = I] :
            I \in {{managing}, {auditing, extra}}}
    \cup {[Blank EXCEPT !.op = "createGroup", !.target = spare, !.maps = ToDir],
          [Blank EXCEPT !.op = "deleteGroup", !.target = ops],
          [Blank EXCEPT !.op = "deleteGroup", !.target = spare]}
    \cup {[Blank EXCEPT !.op = "updateGroup", !.target = ops, !.maps = m] :
            m \in {ToDir, Unmapped}}
    \cup {[Blank EXCEPT !.op = "createRole", !.target = extra],
          [Blank EXCEPT !.op = "deleteRole", !.target = auditing],
          [Blank EXCEPT !.op = "deletePermission", !.target = auditing,
                        !.scopes = {Global("audit.view")}]}
    \cup {[Blank EXCEPT !.op = "addPermission", !.target = auditing, !.scopes = {s}] :
            s \in {APIScope(orders, "view"), Global("api.delete"), Global("ldap.manage"),
                  Global("api.none")}}
    \cup {[Blank EXCEPT !.op = "replacePermissions", !.target = auditing, !.scopes = S] :
            S \in {{Global("audit.view"), Global("user.view")}, {APIScope(orders, "invoke")}}}
    \cup {[Blank EXCEPT !.op = "createAPI", !.target = orders, !.owner = o] : o \in {None, ops, staff}}
    \cup {[Blank EXCEPT !.op = "updateAPI", !.target = orders, !.owner = ops],
          [Blank EXCEPT !.op = "deleteAPI", !.target = orders],
          [Blank EXCEPT !.op = "setAccess", !.target = orders,
                        !.levels = [NoAccess EXCEPT ![ops] = "invoke"]]}

\* The workers are interchangeable.
Symmetry == Permutations(Worker)

=============================================================================
