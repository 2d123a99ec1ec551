-------------------------------- MODULE Rbac --------------------------------
(***************************************************************************)
(* The permission engine (rbac/catalog.go, rbac/engine.go): the scopes, and*)
(* which scopes holding a set of them implies.  A scope is a record: the   *)
(* API it is about (None for a global one) and the action.                 *)
(***************************************************************************)

CONSTANTS
    Api,    \* ids of API definitions
    None    \* no API, no group, no directory group

ASSUME RbacConstants == None \notin Api

Global(name) == [api |-> None, action |-> name]
APIScope(a, action) == [api |-> a, action |-> action]

APIActions == {"view", "invoke", "manage", "delete"}

GlobalNames ==
    {"api.view", "api.invoke", "api.create", "api.manage", "api.delete",
     "user.view", "user.manage", "group.manage", "role.manage", "session.manage",
     "idp.manage", "settings.manage", "audit.view", "audit.export"}

\* Catalog: what a role may hold.
Scope == [api : {None}, action : GlobalNames] \cup [api : Api, action : APIActions]

\* The retired name of a scope is still accepted.
Normalize(s) == IF s = Global("ldap.manage") THEN Global("idp.manage") ELSE s

\* Mutant of Valid: any text is a scope.
ValidAny(s) == TRUE

Valid(s) == Normalize(s) \in Scope

-----------------------------------------------------------------------------
(* Engine: P is the set of scopes the user's roles and groups give *)

CanManageAPI(P, a) == Global("api.manage") \in P \/ APIScope(a, "manage") \in P

CanInvokeAPI(P, a) ==
    Global("api.invoke") \in P \/ CanManageAPI(P, a) \/ APIScope(a, "invoke") \in P

CanViewAPI(P, a) ==
    Global("api.view") \in P \/ CanInvokeAPI(P, a) \/ APIScope(a, "view") \in P

\* Managing an API alone does not allow deleting it.
CanDeleteAPI(P, a) ==
    \/ Global("api.manage") \in P
    \/ Global("api.delete") \in P
    \/ APIScope(a, "delete") \in P

ManagesAllAPIs(P) == Global("api.manage") \in P

ManagedAPIs(P) ==
    {a \in Api : APIScope(a, "manage") \in P \/ APIScope(a, "delete") \in P}

\* A user who holds P holds s, directly or because a broader scope covers it.
Has(P, s) ==
    \/ s \in P
    \/ s.api # None /\ CASE s.action = "view" -> CanViewAPI(P, s.api)
                         [] s.action = "invoke" -> CanInvokeAPI(P, s.api)
                         [] s.action = "manage" -> CanManageAPI(P, s.api)
                         [] s.action = "delete" -> CanDeleteAPI(P, s.api)
                         [] OTHER -> FALSE
    \/ s = Global("user.view") /\ Global("user.manage") \in P
    \/ /\ s \in {Global(n) : n \in {"api.view", "api.invoke", "api.create", "api.delete"}}
       /\ Global("api.manage") \in P
    \/ s = Global("api.view") /\ Global("api.invoke") \in P

=============================================================================
