------------------------------ MODULE UserTable ------------------------------
(***************************************************************************)
(* The user list of the admin console: frontend/src/pages/admin/           *)
(* UsersSection.tsx, users/rules.ts and users/UserBulkActions.tsx on       *)
(* components/ui/table.tsx.  Status switches flip at once and roll back,   *)
(* several of them under way together with a refetch; rows are filtered,   *)
(* sorted, paged and picked for a bulk change.                             *)
(***************************************************************************)
EXTENDS Naturals, Sequences, FiniteSets

CONSTANTS Account, Order,     \* the accounts, in the order the server lists them
          Self,               \* the administrator at the console
          Admins, Inactive,   \* who is what at first
          PageSizes,          \* pageSizes, smallest first
          UtSteps, UtFaults, UtOthers  \* bounds: clicks, failures, writes of others

\* What the accounts of the list are like; the modules of the runs assume it.
UserTableAssumption ==
    /\ Self \in Admins /\ Admins \cup Inactive \subseteq Account /\ Self \notin Inactive
    /\ Order \in Seq(Account) /\ {Order[i] : i \in DOMAIN Order} = Account
    /\ IsFiniteSet(Account) /\ PageSizes \in Seq(Nat \ {0}) /\ PageSizes # <<>>
    /\ {UtSteps, UtFaults, UtOthers} \subseteq Nat

Row == [there: BOOLEAN, active: BOOLEAN, admin: BOOLEAN]
Rows == [Account -> Row]
Status == {"", "active", "inactive", "admins"}

VARIABLES
    accounts,   \* server
    users,      \* query cache: the list
    fetching,   \* the refetch under way: "idle", "asked", "served", and what it brings
    switches,   \* status switches under way
    latest,     \* the switch the page calls busy: the last one used
    status,     \* the filter of the URL
    sort, pageSize, page,   \* DataTable
    picked,     \* rows picked
    dialog,     \* the question asked: "none", "activate", "deactivate" or "delete"
    deleting,   \* the row the deletion is about
    request,    \* the bulk change or deletion under way
    refused,    \* history: the server refused one of ours by an account rule
    disturbed,  \* history: another administrator changed an account
    lostAnswer, \* history: the answer to a bulk change or deletion that was made got lost
    utSteps, utFaults, utOthers

tableVars == <<status, sort, pageSize, page>>
askVars == <<dialog, deleting>>
utGhosts == <<refused, disturbed, lostAnswer>>
utVars == <<accounts, users, fetching, switches, latest, status, sort, pageSize, page, picked,
            dialog, deleting, request, refused, disturbed, lostAnswer, utSteps, utFaults, utOthers>>

Listed(R) == {u \in Account : R[u].there}
Idle == [at |-> "idle", rows |-> users]
NoRequest == [do |-> "none", ids |-> {}, at |-> "idle"]
UtClick == utSteps < UtSteps /\ utSteps' = utSteps + 1

----------------------------------------------------------------------------
(* users/rules.ts, and the same rules in the server (external)             *)

ActiveAdmins(R) == {u \in Listed(R) : R[u].admin /\ R[u].active}
isLastAdmin(R, u) == u \in ActiveAdmins(R) /\ Cardinality(ActiveAdmins(R)) <= 1

\* Mutant of statusLock: only the last administrator is kept.
statusLockLast(u) == users[u].active /\ isLastAdmin(users, u)

\* The user can't be switched off.
statusLock(u) == users[u].active /\ (u = Self \/ isLastAdmin(users, u))

canDelete(u) == u # Self /\ ~isLastAdmin(users, u)

\* External: the server's own rules for a change of status or a deletion.
Allowed(do, ids) ==
    /\ do \in {"deactivate", "delete"} =>
          Self \notin ids /\ ActiveAdmins(accounts) \ ids # {}
    /\ ids \subseteq Listed(accounts)

Changed(R, do, ids) ==
    [u \in Account |->
        IF u \notin ids THEN R[u]
        ELSE [R[u] EXCEPT !.active = do = "activate" \/ (@ /\ do # "deactivate"),
                          !.there = @ /\ do # "delete"]]

----------------------------------------------------------------------------
(* The rows shown                                                          *)

\* The filter of the URL.
rows == {u \in Account :
    /\ users[u].there
    /\ status = "active" => users[u].active
    /\ status = "inactive" => ~users[u].active
    /\ status = "admins" => users[u].admin}

\* A column clicked once, twice, three times: where a row stands among the rows.
Position(u) == CHOOSE i \in DOMAIN Order : Order[i] = u
sorted(u) ==
    Cardinality({v \in rows : IF sort = "desc" THEN Position(v) >= Position(u)
                              ELSE Position(v) <= Position(u)})

pageCount == IF rows = {} THEN 1 ELSE (Cardinality(rows) + pageSize - 1) \div pageSize

\* The page shown: the last one when the list became shorter.
currentPage == IF page < pageCount THEN page ELSE pageCount - 1

visible ==
    {u \in rows : currentPage * pageSize < sorted(u) /\ sorted(u) <= (currentPage + 1) * pageSize}

----------------------------------------------------------------------------
UtInit ==
    /\ accounts = [u \in Account |-> [there |-> TRUE, active |-> u \notin Inactive,
                                     admin |-> u \in Admins]]
    /\ users = accounts
    /\ fetching = [at |-> "idle", rows |-> users]
    /\ switches = {} /\ latest = 0
    /\ status = "" /\ sort = "none" /\ pageSize = PageSizes[1] /\ page = 0
    /\ picked = {} /\ dialog = "none" /\ deleting = Self /\ request = NoRequest
    /\ refused = FALSE /\ disturbed = FALSE /\ lostAnswer = FALSE
    /\ utSteps = 0 /\ utFaults = 0 /\ utOthers = 0

\* A filter chosen or cleared.
setFilter(s) ==
    /\ UtClick /\ dialog = "none" /\ s # status
    /\ status' = s
    /\ UNCHANGED <<accounts, users, fetching, switches, latest, sort, pageSize, page, picked,
                   askVars, request, utGhosts, utFaults, utOthers>>

toggleSort ==
    /\ UtClick /\ dialog = "none"
    /\ sort' = [none |-> "asc", asc |-> "desc", desc |-> "none"][sort]
    /\ UNCHANGED <<accounts, users, fetching, switches, latest, status, pageSize, page, picked,
                   askVars, request, utGhosts, utFaults, utOthers>>

\* Previous, next, and the number of rows of a page.
Turn ==
    /\ UtClick /\ dialog = "none" /\ Cardinality(rows) > PageSizes[1]
    /\ \/ currentPage > 0 /\ page' = currentPage - 1 /\ UNCHANGED pageSize
       \/ currentPage < pageCount - 1 /\ page' = currentPage + 1 /\ UNCHANGED pageSize
       \/ \E i \in DOMAIN PageSizes : pageSize' = PageSizes[i] /\ page' = 0
    /\ UNCHANGED <<accounts, users, fetching, switches, latest, status, sort, picked,
                   askVars, request, utGhosts, utFaults, utOthers>>

\* The checkbox of a row on show.
toggleRow(u) ==
    /\ UtClick /\ dialog = "none" /\ u \in visible
    /\ picked' = IF u \in picked THEN picked \ {u} ELSE picked \cup {u}
    /\ UNCHANGED <<accounts, users, fetching, switches, latest, tableVars, askVars, request,
                   utGhosts, utFaults, utOthers>>

\* The checkbox of the header: the rows on show, and only those.
toggleAll ==
    /\ UtClick /\ dialog = "none" /\ visible # {}
    /\ picked' = IF visible \subseteq picked THEN picked \ visible ELSE picked \cup visible
    /\ UNCHANGED <<accounts, users, fetching, switches, latest, tableVars, askVars, request,
                   utGhosts, utFaults, utOthers>>

\* "Clear selection", of the bulk actions.
clearSelection ==
    /\ UtClick /\ dialog = "none" /\ picked \cap Listed(users) # {}
    /\ picked' = {}
    /\ UNCHANGED <<accounts, users, fetching, switches, latest, tableVars, askVars, request,
                   utGhosts, utFaults, utOthers>>

----------------------------------------------------------------------------
(* The list's query (TanStack Query, external)                             *)

\* invalidateQueries: the fetch under way is dropped and a new one asked for.
Refetch == fetching' = [at |-> "asked", rows |-> users]

FetchServed ==
    /\ fetching.at = "asked"
    /\ fetching' = [at |-> "served", rows |-> accounts]
    /\ UNCHANGED <<accounts, users, switches, latest, tableVars, picked, askVars, request,
                   utGhosts, utSteps, utFaults, utOthers>>

FetchAnswer ==
    /\ fetching.at = "served"
    /\ users' = fetching.rows /\ fetching' = [at |-> "idle", rows |-> users']
    /\ UNCHANGED <<accounts, switches, latest, tableVars, picked, askVars, request,
                   utGhosts, utSteps, utFaults, utOthers>>

----------------------------------------------------------------------------
(* ActiveSwitch                                                            *)

\* The switch flips at once: the fetch under way is cancelled, the list as it was is
\* kept for a failure.  Only the last switch used is busy.
Switch(u) ==
    /\ UtClick /\ dialog = "none" /\ u \in visible
    /\ ~statusLock(u)
    /\ ~\E s \in switches : s.n = latest /\ s.user = u
    /\ LET do == IF users[u].active THEN "deactivate" ELSE "activate"
       IN  /\ switches' = switches \cup
                 {[n |-> latest + 1, user |-> u, do |-> do, previous |-> users, at |-> "sent"]}
           /\ users' = Changed(users, do, {u})
    /\ latest' = latest + 1
    /\ fetching' = [at |-> "idle", rows |-> users']
    /\ UNCHANGED <<accounts, tableVars, picked, askVars, request, utGhosts, utFaults, utOthers>>

\* External: the server applies the change or refuses it; or the request, or its
\* answer, is lost.
SwitchServed(s) ==
    /\ s.at = "sent"
    /\ \/ /\ accounts' = IF Allowed(s.do, {s.user}) THEN Changed(accounts, s.do, {s.user})
                         ELSE accounts
          /\ switches' = (switches \ {s}) \cup
                {[s EXCEPT !.at = IF Allowed(s.do, {s.user}) THEN "ok" ELSE "failed"]}
          /\ refused' = (refused \/ (~Allowed(s.do, {s.user}) /\ s.user \in Listed(accounts)))
          /\ UNCHANGED utFaults
       \/ /\ utFaults < UtFaults /\ utFaults' = utFaults + 1
          /\ accounts' \in {accounts} \cup
                (IF Allowed(s.do, {s.user}) THEN {Changed(accounts, s.do, {s.user})} ELSE {})
          /\ switches' = (switches \ {s}) \cup {[s EXCEPT !.at = "failed"]}
          /\ UNCHANGED refused
    /\ UNCHANGED <<users, fetching, latest, tableVars, picked, askVars, request, disturbed,
                   lostAnswer, utSteps, utOthers>>

\* Mutant of SwitchAnswer: the list is fetched again only after a success.
SwitchAnswerTrusts(s) ==
    /\ s.at \in {"ok", "failed"}
    /\ switches' = switches \ {s}
    /\ users' = IF s.at = "failed" THEN s.previous ELSE users
    /\ IF s.at = "ok" THEN Refetch ELSE UNCHANGED fetching
    /\ UNCHANGED <<accounts, latest, tableVars, picked, askVars, request, utGhosts, utSteps,
                   utFaults, utOthers>>

\* The answer: after a failure the whole list goes back to what it was when the
\* switch was used; in both cases it is fetched again.
SwitchAnswer(s) ==
    /\ s.at \in {"ok", "failed"}
    /\ switches' = switches \ {s}
    /\ users' = IF s.at = "failed" THEN s.previous ELSE users
    /\ Refetch
    /\ UNCHANGED <<accounts, latest, tableVars, picked, askVars, request, utGhosts, utSteps,
                   utFaults, utOthers>>

----------------------------------------------------------------------------
(* UserBulkActions, and the deletion of a row                              *)

\* Picked rows that are still listed, hidden by a filter or not.
chosen == picked \cap Listed(users)
toDeactivate == {u \in chosen : users[u].active /\ ~statusLock(u)}
toActivate == {u \in chosen : ~users[u].active}

\* The buttons, and "d" on a row: each asks first.
Ask ==
    /\ UtClick /\ dialog = "none"
    /\ \/ toActivate # {} /\ dialog' = "activate" /\ UNCHANGED deleting
       \/ toDeactivate # {} /\ dialog' = "deactivate" /\ UNCHANGED deleting
       \/ chosen # {} /\ dialog' = "group" /\ UNCHANGED deleting
       \/ \E u \in visible : canDelete(u) /\ dialog' = "delete" /\ deleting' = u
    /\ UNCHANGED <<accounts, users, fetching, switches, latest, tableVars, picked, request,
                   utGhosts, utFaults, utOthers>>

\* Confirmed: who is changed is computed from the list of this moment.
Confirm ==
    /\ UtClick /\ dialog # "none" /\ request = NoRequest
    /\ request' = [do |-> dialog, at |-> "sent",
                   ids |-> CASE dialog = "activate" -> toActivate
                             [] dialog = "deactivate" -> toDeactivate
                             [] dialog = "group" -> chosen
                             [] dialog = "delete" -> {deleting}]
    /\ request'.ids # {}
    /\ UNCHANGED <<accounts, users, fetching, switches, latest, tableVars, picked, askVars,
                   utGhosts, utFaults, utOthers>>

Cancel ==
    /\ UtClick /\ dialog # "none" /\ dialog' = "none"
    /\ UNCHANGED <<accounts, users, fetching, switches, latest, tableVars, picked, deleting,
                   request, utGhosts, utFaults, utOthers>>

\* External: all of it or none.
RequestServed ==
    /\ request.at = "sent"
    /\ LET ok == Allowed(request.do, request.ids) IN
       \/ /\ accounts' = IF ok THEN Changed(accounts, request.do, request.ids) ELSE accounts
          /\ request' = [request EXCEPT !.at = IF ok THEN "ok" ELSE "failed"]
          /\ refused' = (refused \/ (~ok /\ request.ids \subseteq Listed(accounts)))
          /\ UNCHANGED <<utFaults, lostAnswer>>
       \/ /\ utFaults < UtFaults /\ utFaults' = utFaults + 1
          /\ request' = [request EXCEPT !.at = "failed"]
          /\ \/ UNCHANGED <<accounts, lostAnswer>>
             \/ ok /\ accounts' = Changed(accounts, request.do, request.ids) /\ lostAnswer' = TRUE
          /\ UNCHANGED refused
    /\ UNCHANGED <<users, fetching, switches, latest, tableVars, picked, askVars, disturbed,
                   utSteps, utOthers>>

\* A success has the list fetched again; a failure leaves the dialog for a retry.
RequestAnswer ==
    \/ /\ request.at = "ok" /\ request' = [request EXCEPT !.at = "settling"] /\ Refetch
       /\ UNCHANGED <<accounts, users, switches, latest, tableVars, picked, askVars, utGhosts,
                      utSteps, utFaults, utOthers>>
    \/ /\ request.at = "failed" /\ request' = NoRequest
       /\ UNCHANGED <<accounts, users, fetching, switches, latest, tableVars, picked, askVars,
                      utGhosts, utSteps, utFaults, utOthers>>

\* The list is there: the dialog closes, and a bulk change drops what was picked.
RequestDone ==
    /\ request.at = "settling" /\ fetching.at = "idle"
    /\ request' = NoRequest /\ dialog' = "none"
    /\ picked' = IF request.do = "delete" THEN picked ELSE {}
    /\ UNCHANGED <<accounts, users, fetching, switches, latest, tableVars, deleting, utGhosts,
                   utSteps, utFaults, utOthers>>

\* External: another administrator changes an account, by the same rules.
OtherAdmin(u) ==
    /\ utOthers < UtOthers /\ utOthers' = utOthers + 1 /\ accounts[u].there
    /\ \/ accounts' = [accounts EXCEPT ![u].active = ~@]
       \/ accounts' = [accounts EXCEPT ![u].admin = ~@]
       \/ accounts' = [accounts EXCEPT ![u].there = FALSE]
    /\ Cardinality(ActiveAdmins(accounts)') >= 1
    /\ disturbed' = TRUE
    /\ UNCHANGED <<users, fetching, switches, latest, tableVars, picked, askVars, request,
                   refused, lostAnswer, utSteps, utFaults>>

UtNext ==
    \/ \E s \in Status : setFilter(s)
    \/ toggleSort \/ Turn \/ toggleAll \/ clearSelection
    \/ \E u \in Account : toggleRow(u) \/ Switch(u) \/ OtherAdmin(u)
    \/ \E s \in switches : SwitchServed(s) \/ SwitchAnswer(s)
    \/ FetchServed \/ FetchAnswer
    \/ Ask \/ Confirm \/ Cancel \/ RequestServed \/ RequestAnswer \/ RequestDone

\* Requests are answered, and answers handled.
UtFairness ==
    /\ WF_utVars(\E s \in switches : SwitchServed(s) \/ SwitchAnswer(s))
    /\ WF_utVars(FetchServed \/ FetchAnswer)
    /\ WF_utVars(RequestServed \/ RequestAnswer \/ RequestDone)

----------------------------------------------------------------------------
TypeOK ==
    /\ accounts \in Rows /\ users \in Rows
    /\ fetching \in [at: {"idle", "asked", "served"}, rows: Rows]
    /\ switches \subseteq [n: 1 .. UtSteps, user: Account, do: {"activate", "deactivate"},
                           previous: Rows, at: {"sent", "ok", "failed"}]
    /\ status \in Status /\ sort \in {"none", "asc", "desc"} /\ page \in Nat
    /\ picked \subseteq Account /\ deleting \in Account
    /\ dialog \in {"none", "activate", "deactivate", "group", "delete"}
    /\ request \in [do: {"none", "activate", "deactivate", "group", "delete"},
                    ids: SUBSET Account, at: {"idle", "sent", "ok", "failed", "settling"}]

\* The console never asks for what the account rules refuse, unless another
\* administrator changed an account meanwhile: with switches, bulk changes and
\* roll-backs under way, the rules still see the list they need (users/rules.ts: "so
\* the controls explain themselves instead of failing on save").
RefusedOnlyByOthers == refused => disturbed

\* Switches settle: however answers, failures, roll-backs and refetches interleave, the
\* list ends up being what the server has, if nobody else changes accounts and no answer
\* to a bulk change or a deletion gets lost (after which nothing is fetched again).
SwitchesSettle == <>[](~disturbed /\ ~lostAnswer => users = accounts)

=============================================================================
