------------------------------- MODULE Editors -------------------------------
(***************************************************************************)
(* The editor drawers of the admin console: frontend/src/pages/admin/users/*)
(* UserDrawer.tsx, groups/GroupDrawer.tsx, roles/RoleDrawer.tsx and        *)
(* apis/ApiDrawer.tsx on common.tsx.  A drawer keeps a form that starts    *)
(* from the row clicked and from what the query cache holds; a save is a   *)
(* series of requests, any of which may fail; another administrator may    *)
(* write in between.                                                       *)
(***************************************************************************)
EXTENDS Rbac, Naturals

CONSTANTS Drawers,           \* the drawers in use: "user", "group", "role", "api"
          Group, Role,
          This,              \* the role (or group, or user) the drawer edits
          Offered,           \* the scopes of the matrix
          Templates,         \* ROLE_TEMPLATES: sets of scopes
          Elsewhere,         \* the scopes of the role a copy is taken from
          FirstOwn,          \* what This has at first: groups, roles or scopes
          FirstLists,        \* the roles of each group at first
          EdSteps, EdFaults, EdOthers   \* bounds: clicks, failures, writes of others

\* An empty field; no row.
Blank == ""
Name == {Blank, "first", "second"}
Link == Group \cup Role \cup Scope

\* What the form links its row to: the groups of a user, the roles of a group, the scopes
\* of a role, the groups with access to an API.
UserLinks == Group
GroupLinks == Role
RoleLinks == Offered
ApiLinks == Group
Links(k) == CASE k = "user" -> UserLinks [] k = "group" -> GroupLinks
              [] k = "role" -> RoleLinks [] k = "api" -> ApiLinks
Lists == [Group -> SUBSET Role]
Form == [name: Name, own: SUBSET Link, groups: SUBSET Group]

\* EMPTY of each drawer.
EmptyForm == [name |-> Blank, own |-> {}, groups |-> {}]

EditorsAssumption ==
    /\ None \notin Api /\ Drawers \subseteq {"user", "group", "role", "api"}
    /\ This \in Role
    /\ Offered \subseteq Scope /\ Templates \subseteq SUBSET Scope /\ Elsewhere \subseteq Scope
    /\ FirstOwn \in [Drawers -> SUBSET Link] /\ FirstLists \in Lists

VARIABLES
    kind,      \* the drawer
    row,       \* server: the name of This, "" when there is no such row
    own,       \* server: its groups (user), roles (group) or scopes (role)
    lists,     \* server: the roles of each group
    cachedOwn, \* query cache: own, once it is loaded
    cachedRow, cachedLists,  \* query cache: the list the row is in, the groups' list
    due,       \* queries that will be fetched again: "list", "own"
    drawer,    \* "closed", "new" or "edit"
    snapshot,  \* the row clicked: its name, and the groups that have the role
    form,
    asking,    \* the dialog over the drawer: "none", "discard", "save", "delete"
    copying,   \* a copy of another role's scopes is under way
    write,     \* the save or deletion under way: its form, the requests left, and (history)
               \* whether the drawer was quiet and nothing else was tried
    tried,     \* history: the forms whose save failed since the drawer opened
    quiet,     \* history: what the drawer started from is what the server had, and nobody
               \* else wrote since
    before,    \* history: lists when the drawer opened
    edSteps, edFaults, edOthers

server == <<row, own, lists>>
cacheVars == <<cachedOwn, cachedRow, cachedLists, due>>
drawerVars == <<drawer, snapshot, form, copying>>
ghosts == <<tried, quiet, before>>
bounds == <<edSteps, edFaults, edOthers>>
edVars == <<kind, row, own, lists, cachedOwn, cachedRow, cachedLists, due, drawer, snapshot,
            form, asking, copying, write, tried, quiet, before, edSteps, edFaults, edOthers>>

Unloaded == [loaded |-> FALSE, own |-> {}]
Loaded(S) == [loaded |-> TRUE, own |-> S]
NoWrite == [of |-> "none", form |-> EmptyForm, calls |-> {}, sure |-> FALSE]

\* The groups that have the role, by a list of groups.
Having(L) == IF kind = "role" THEN {g \in Group : This \in L[g]} ELSE {}

\* What a form starts from: the row clicked, and the links loaded for it.
UserStart(snap, S) == [name |-> snap.name, own |-> S, groups |-> {}]
GroupStart(snap, S) == [name |-> snap.name, own |-> S, groups |-> {}]
RoleStart(snap, S) == [name |-> snap.name, own |-> S, groups |-> snap.groups]
ApiStart(snap, S) == [name |-> snap.name, own |-> S, groups |-> {}]
Start(snap, S) == CASE kind = "user" -> UserStart(snap, S) [] kind = "group" -> GroupStart(snap, S)
                    [] kind = "role" -> RoleStart(snap, S) [] kind = "api" -> ApiStart(snap, S)

\* What the form is compared with: it follows the cache while the form does not.
initial == IF drawer = "new" THEN EmptyForm ELSE Start(snapshot, cachedOwn.own)

\* The form is on show: the drawer is open and what it starts from is loaded.
ready == drawer = "new" \/ (drawer = "edit" /\ cachedOwn.loaded)
dirty == ready /\ form # initial

Click == edSteps < EdSteps /\ edSteps' = edSteps + 1
\* A click in the drawer itself: no dialog is over it.
InForm == Click /\ ready /\ asking = "none"

----------------------------------------------------------------------------
(* PermissionMatrix.tsx                                                    *)

GLOBAL_COVERS(action) ==
    CASE action = "view" -> {"api.view", "api.invoke", "api.manage"}
      [] action = "invoke" -> {"api.invoke", "api.manage"}
      [] action = "manage" -> {"api.manage"}
      [] action = "delete" -> {"api.manage", "api.delete"}
LOCAL_COVERS(action) ==
    CASE action = "view" -> {"invoke", "manage"}
      [] action = "invoke" -> {"manage"}
      [] OTHER -> {}

\* Mutant of coveredBy: managing an API is taken to include deleting it.
coveredByManage(S, a, action) ==
    \/ \E n \in GLOBAL_COVERS(action) : Global(n) \in S
    \/ \E b \in LOCAL_COVERS(action) \cup ({"manage"} \ {action}) : APIScope(a, b) \in S

\* A scope of S already grants the action on the API.
coveredBy(S, a, action) ==
    \/ \E n \in GLOBAL_COVERS(action) : Global(n) \in S
    \/ \E b \in LOCAL_COVERS(action) : APIScope(a, b) \in S

\* A cell of the matrix is ticked; one ticked by another scope only is locked.
Ticked(S, a, action) == APIScope(a, action) \in S \/ coveredBy(S, a, action)
Locked(S, s) == s.api # None /\ s \notin S /\ coveredBy(S, s.api, s.action)

----------------------------------------------------------------------------
EdInit ==
    /\ kind \in Drawers /\ row \in {Blank, "first"}
    /\ own = (IF row = Blank THEN {} ELSE FirstOwn[kind])
    /\ lists = [g \in Group |-> IF row = Blank THEN FirstLists[g] \ {This} ELSE FirstLists[g]]
    /\ cachedOwn = Unloaded /\ cachedRow = row /\ cachedLists = lists /\ due = {}
    /\ drawer = "closed" /\ snapshot = [name |-> Blank, groups |-> {}]
    /\ form = EmptyForm /\ asking = "none" /\ copying = FALSE
    /\ write = NoWrite
    /\ tried = {} /\ quiet = TRUE /\ before = lists
    /\ edSteps = 0 /\ edFaults = 0 /\ edOthers = 0

\* The history of a drawer starts when it opens: is what it starts from what the server has?
Opens(isNew) ==
    /\ quiet' = /\ write = NoWrite /\ cachedRow = row /\ cachedLists = lists
                /\ isNew \/ ~cachedOwn.loaded \/ cachedOwn.own = own
    /\ tried' = {} /\ before' = lists

\* "New": an empty form.  A new API has its wizard.
OpenNew ==
    /\ Click /\ drawer = "closed" /\ cachedRow = Blank /\ kind # "api"
    /\ drawer' = "new" /\ form' = EmptyForm /\ snapshot' = [name |-> Blank, groups |-> {}]
    /\ Opens(TRUE)
    /\ UNCHANGED <<kind, server, cacheVars, asking, copying, write, edFaults, edOthers>>

\* A row clicked: the form starts at once from a cached query, which is fetched
\* again if it is old.
OpenRow ==
    /\ Click /\ drawer = "closed" /\ cachedRow # Blank
    /\ drawer' = "edit"
    /\ snapshot' = [name |-> cachedRow, groups |-> Having(cachedLists)]
    /\ form' = IF cachedOwn.loaded THEN Start(snapshot', cachedOwn.own) ELSE EmptyForm
    /\ due' \in {due \cup {"own"}} \cup (IF cachedOwn.loaded THEN {due} ELSE {})
    /\ Opens(FALSE)
    /\ UNCHANGED <<kind, server, cachedOwn, cachedRow, cachedLists, asking, copying, write,
                   edFaults, edOthers>>

\* The answer to the query of an open drawer.  Only the first one starts the form.
FetchOwn ==
    /\ "own" \in due /\ drawer = "edit"
    /\ cachedOwn' = Loaded(own) /\ due' = due \ {"own"}
    /\ form' = IF cachedOwn.loaded THEN form ELSE Start(snapshot, own)
    /\ UNCHANGED <<kind, server, cachedRow, cachedLists, drawer, snapshot, asking, copying,
                   write, ghosts, bounds>>

\* The section's lists are fetched again.
FetchList ==
    /\ "list" \in due
    /\ cachedRow' = row /\ cachedLists' = lists /\ due' = due \ {"list"}
    /\ UNCHANGED <<kind, server, cachedOwn, drawerVars, asking, write, ghosts, bounds>>

----------------------------------------------------------------------------
(* The fields                                                              *)

\* The field of a text: a name of a user, group or role.
EditName(n) ==
    /\ InForm /\ n # form.name
    /\ form' = [form EXCEPT !.name = n]
    /\ UNCHANGED <<kind, server, cacheVars, drawer, snapshot, asking, copying, write, ghosts,
                   edFaults, edOthers>>

\* The groups of a user, the roles of a group, a scope of a role.
toggle(l) ==
    /\ InForm /\ l \in Links(kind)
    /\ kind = "role" => ~Locked(form.own, l)
    /\ form' = [form EXCEPT !.own = IF l \in @ THEN @ \ {l} ELSE @ \cup {l}]
    /\ UNCHANGED <<kind, server, cacheVars, drawer, snapshot, asking, copying, write, ghosts,
                   edFaults, edOthers>>

\* A template replaces the scopes.
Template(t) ==
    /\ InForm /\ kind = "role"
    /\ form' = [form EXCEPT !.own = t]
    /\ UNCHANGED <<kind, server, cacheVars, drawer, snapshot, asking, copying, write, ghosts,
                   edFaults, edOthers>>

\* The groups that have the role.
EditGroups(g) ==
    /\ InForm /\ kind = "role"
    /\ form' = [form EXCEPT !.groups = IF g \in @ THEN @ \ {g} ELSE @ \cup {g}]
    /\ UNCHANGED <<kind, server, cacheVars, drawer, snapshot, asking, copying, write, ghosts,
                   edFaults, edOthers>>

\* Copy from another role: its scopes are asked for, and added to the form as it
\* is when they arrive.
copyFrom ==
    /\ InForm /\ kind = "role" /\ ~copying
    /\ copying' = TRUE
    /\ UNCHANGED <<kind, server, cacheVars, drawer, snapshot, form, asking, write, ghosts,
                   edFaults, edOthers>>

CopyAnswer(ok) ==
    /\ copying /\ copying' = FALSE
    /\ ~ok => edFaults < EdFaults
    /\ edFaults' = edFaults + (IF ok THEN 0 ELSE 1)
    /\ form' = IF ok THEN [form EXCEPT !.own = @ \cup Elsewhere] ELSE form
    /\ UNCHANGED <<kind, server, cacheVars, drawer, snapshot, asking, write, ghosts,
                   edSteps, edOthers>>

----------------------------------------------------------------------------
(* Saving: one request after the other, those that are needed              *)

Request(do, g, S) == [do |-> do, group |-> g, set |-> S]
Linking(S) == Request("own", None, S)

UserCalls(f, init, isNew) ==
    IF (isNew /\ f.own # {}) \/ (~isNew /\ f.own # init.own) THEN {Linking(f.own)} ELSE {}

GroupCalls(f, init) == IF f.own # init.own THEN {Linking(f.own)} ELSE {}

ApiCalls(f, init) == IF f.own # init.own THEN {Linking(f.own)} ELSE {}

\* Mutant of RoleCalls: a group that gets the role loses the ones it had.
RoleCallsAlone(f, init, isNew) ==
    (IF isNew \/ f.own # init.own THEN {Linking(f.own)} ELSE {})
    \cup {Request("give", g, {This}) : g \in f.groups \ init.groups}
    \cup {Request("take", g, cachedLists[g] \ {This}) : g \in init.groups \ f.groups}

\* The whole list of each group that gets or loses the role is written, from the
\* cached list.
RoleCalls(f, init, isNew) ==
    (IF isNew \/ f.own # init.own THEN {Linking(f.own)} ELSE {})
    \cup {Request("give", g, cachedLists[g] \cup {This}) : g \in f.groups \ init.groups}
    \cup {Request("take", g, cachedLists[g] \ {This}) : g \in init.groups \ f.groups}

Calls(f) ==
    LET isNew == drawer = "new"
        first == Request(IF isNew THEN "create" ELSE "update", None, {})
    IN  {first} \cup CASE kind = "user" -> UserCalls(f, initial, isNew)
                       [] kind = "group" -> GroupCalls(f, initial)
                       [] kind = "role" -> RoleCalls(f, initial, isNew)
                       [] kind = "api" -> ApiCalls(f, initial)

\* The row itself first, then its links, then the groups that get the role, one by one, and
\* those that lose it.
Stage(c) == IF c.do = "own" THEN 1 ELSE IF c.do = "give" THEN 2 ELSE IF c.do = "take" THEN 3 ELSE 0
Upcoming == {c \in write.calls : \A d \in write.calls : Stage(c) <= Stage(d)}

StartSave == write' = [of |-> "save", form |-> form, calls |-> Calls(form),
                       sure |-> quiet /\ tried \subseteq {form}]

\* A form is accepted when the fields it needs are there (the name stands for them all).
UserAccepts(f) == f.name # Blank
GroupAccepts(f) == f.name # Blank
ApiAccepts(f) == f.name # Blank
RoleAccepts(f) == f.name # Blank
Complete(f) == CASE kind = "user" -> UserAccepts(f) [] kind = "group" -> GroupAccepts(f)
                 [] kind = "role" -> RoleAccepts(f) [] kind = "api" -> ApiAccepts(f)
\* The change of a role reaches every member of its groups.
AsksFirst ==
    kind = "role" /\ drawer = "edit" /\ (form.own # initial.own \/ form.groups # initial.groups)

\* Save.  A form that is not complete is refused here; a changed role asks first.
submit ==
    /\ InForm /\ Complete(form) /\ write = NoWrite
    /\ IF AsksFirst
       THEN asking' = "save" /\ UNCHANGED write
       ELSE StartSave /\ UNCHANGED asking
    /\ UNCHANGED <<kind, server, cacheVars, drawerVars, ghosts, edFaults, edOthers>>

ConfirmSave ==
    /\ Click /\ asking = "save" /\ write = NoWrite
    /\ StartSave
    /\ UNCHANGED <<kind, server, cacheVars, drawerVars, asking, ghosts, edFaults, edOthers>>

\* Delete, after the name is typed.
ConfirmDelete ==
    /\ InForm /\ drawer = "edit" /\ write = NoWrite
    /\ asking' = "delete"
    /\ write' = [of |-> "save", form |-> form, calls |-> {Request("delete", None, {})},
                 sure |-> FALSE]
    /\ UNCHANGED <<kind, server, cacheVars, drawerVars, ghosts, edFaults, edOthers>>

\* External: what the server does with a request.  A name in use is refused, and so
\* is a request about a row that is gone.
Accepts(c, f) == IF c.do = "create" THEN row # f.name ELSE row # Blank

\* A new row has an id nothing was fetched for.
Applied(c, f) ==
    /\ row' = CASE c.do \in {"create", "update"} -> f.name [] c.do = "delete" -> Blank [] OTHER -> row
    /\ own' = CASE c.do \in {"create", "delete"} -> {} [] c.do = "own" -> c.set [] OTHER -> own
    /\ cachedOwn' = IF c.do = "create" THEN Unloaded ELSE cachedOwn
    /\ lists' = CASE c.do \in {"give", "take"} -> [lists EXCEPT ![c.group] = c.set]
                  [] c.do \in {"create", "delete"} -> [g \in Group |-> lists[g] \ {This}]
                  [] OTHER -> lists

\* The next request of the save is answered.
CallDone(c) ==
    /\ write.of = "save" /\ Accepts(c, write.form) /\ Applied(c, write.form)
    /\ IF write.calls # {c}
       THEN write' = [write EXCEPT !.calls = @ \ {c}] /\ UNCHANGED due
       ELSE /\ write' = [write EXCEPT !.calls = {},
                                      !.of = IF c.do = "delete" THEN "deleted" ELSE "saved"]
            /\ due' = due \cup {"list", "own"}
    /\ UNCHANGED <<kind, cachedRow, cachedLists, drawerVars, asking, ghosts, bounds>>

\* It fails: refused, or lost on the way, before the server applied it or after.  The
\* drawer, and the dialog, stay for a retry; nothing is fetched again.
CallFailed(c) ==
    /\ write.of = "save"
    /\ \/ ~Accepts(c, write.form) /\ UNCHANGED <<server, cachedOwn, edFaults>>
       \/ /\ edFaults < EdFaults /\ edFaults' = edFaults + 1
          /\ \/ UNCHANGED <<server, cachedOwn>>
             \/ Accepts(c, write.form) /\ Applied(c, write.form)
    /\ write' = NoWrite /\ tried' = tried \cup {write.form}
    /\ UNCHANGED <<kind, cachedRow, cachedLists, due, drawerVars, asking, quiet, before, edSteps,
                   edOthers>>

----------------------------------------------------------------------------
(* Closing                                                                 *)

Close == drawer' = "closed" /\ form' = EmptyForm /\ asking' = "none" /\ copying' = FALSE

\* The queries a save invalidated have been fetched: onClose, whatever is shown now.
Settled ==
    /\ write.of \in {"saved", "deleted"}
    /\ "list" \notin due /\ (drawer = "edit" => "own" \notin due)
    /\ write' = NoWrite /\ Close
    /\ UNCHANGED <<kind, server, cacheVars, snapshot, ghosts, bounds>>

\* Mutant of requestClose: the form is dropped without asking.
requestCloseAtOnce ==
    /\ Click /\ drawer # "closed" /\ asking = "none"
    /\ Close
    /\ UNCHANGED <<kind, server, cacheVars, snapshot, write, ghosts, edFaults, edOthers>>

\* Escape, the close button, the overlay, Cancel.
requestClose ==
    /\ Click /\ drawer # "closed" /\ asking = "none"
    /\ IF dirty THEN asking' = "discard" /\ UNCHANGED <<drawer, form, copying>> ELSE Close
    /\ UNCHANGED <<kind, server, cacheVars, snapshot, write, ghosts, edFaults, edOthers>>

Discard ==
    /\ Click /\ asking = "discard"
    /\ Close
    /\ UNCHANGED <<kind, server, cacheVars, snapshot, write, ghosts, edFaults, edOthers>>

\* Cancel in the dialog, or Escape, which works while its request runs, too.
Dismiss ==
    /\ Click /\ asking # "none"
    /\ asking' = "none"
    /\ UNCHANGED <<kind, server, cacheVars, drawerVars, write, ghosts, edFaults, edOthers>>

\* What else a drawer writes at once: the keys it invalidates are prefixes of the query
\* the form started from.
AtOnce(k) ==
    /\ InForm /\ drawer = "edit" /\ kind = k
    /\ due' = due \cup {"list", "own"}
    /\ UNCHANGED <<kind, server, cachedOwn, cachedRow, cachedLists, drawerVars, asking, write,
                   ghosts, edFaults, edOthers>>

\* A password reset; a member added or removed; the specification fetched again.
reset == AtOnce("user")
GroupMembers == AtOnce("group")
refresh == AtOnce("api")

\* External: another administrator.
Other ==
    /\ edOthers < EdOthers /\ edOthers' = edOthers + 1 /\ row # Blank
    /\ \/ \E l \in Links(kind) : own' = (own \ {l}) \cup ({l} \ own) /\ UNCHANGED lists
       \/ /\ kind = "role" /\ UNCHANGED own
          /\ \E g \in Group, r \in Role :
                lists' = [lists EXCEPT ![g] = (@ \ {r}) \cup ({r} \ @)]
    /\ quiet' = FALSE /\ write' = [write EXCEPT !.sure = FALSE]
    /\ UNCHANGED <<kind, row, cacheVars, drawerVars, asking, tried, before, edSteps, edFaults>>

EdNext ==
    \/ OpenNew \/ OpenRow \/ FetchOwn \/ FetchList
    \/ \E n \in Name : EditName(n)
    \/ \E l \in Link : toggle(l)
    \/ \E t \in Templates : Template(t)
    \/ \E g \in Group : EditGroups(g)
    \/ copyFrom \/ \E ok \in BOOLEAN : CopyAnswer(ok)
    \/ submit \/ ConfirmSave \/ ConfirmDelete \/ Settled
    \/ \E c \in Upcoming : CallDone(c) \/ CallFailed(c)
    \/ requestClose \/ Discard \/ Dismiss \/ reset \/ GroupMembers \/ refresh \/ Other

----------------------------------------------------------------------------
TypeOK ==
    /\ kind \in Drawers /\ row \in Name /\ own \subseteq Link /\ lists \in Lists
    /\ cachedOwn \in [loaded: BOOLEAN, own: SUBSET Link]
    /\ cachedRow \in Name /\ cachedLists \in Lists /\ due \subseteq {"list", "own"}
    /\ drawer \in {"closed", "new", "edit"}
    /\ snapshot \in [name: Name, groups: SUBSET Group]
    /\ form \in Form /\ asking \in {"none", "discard", "save", "delete"}
    /\ copying \in BOOLEAN
    /\ write.of \in {"none", "save", "saved", "deleted"} /\ write.form \in Form
    /\ write.of = "save" => write.calls # {}

\* Unsaved changes leave the screen only after the user agreed to discard them, or
\* when a write of the drawer completed (common.tsx: the drawers "don't lose unsaved
\* changes").
UnsavedAsked ==
    [][dirty /\ drawer' = "closed" => asking = "discard" \/ write.of \in {"saved", "deleted"}]_edVars

\* A save reported as done has done all of it, and nothing more: even when an earlier
\* attempt of the same form failed half-way, the row, its links and the groups with the
\* role are what the form said, and no group gained or lost another role.  It holds if the
\* drawer started from what the server had, nobody else wrote since and no different form
\* was tried before.
SaveAsIntended ==
    write.of = "saved" /\ write.sure =>
        /\ row = write.form.name /\ own = write.form.own
        /\ Having(lists) = write.form.groups
        /\ \A g \in Group : lists[g] \ {This} = before[g] \ {This}

\* What the matrix of a role shows ticked for an API is what the engine allows someone
\* who holds the scopes of the form (PermissionMatrix.tsx: "Mirrors rbac/engine.go").
MatrixMirrorsEngine ==
    kind = "role" =>
        \A a \in Api, action \in APIActions :
            Ticked(form.own, a, action) <=> Has(form.own, APIScope(a, action))

=============================================================================
