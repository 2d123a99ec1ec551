------------------------------ MODULE Directory ------------------------------
(***************************************************************************)
(* Accounts from a directory: frontend/src/pages/admin/users/              *)
(* NewUserMenu.tsx opens LdapImportDrawer.tsx (search, tick, import) or     *)
(* AzurePreregisterDialog.tsx, on the server's handleImportLDAP and         *)
(* handlePreregisterAzureUser.  Answers come after further searches, ticks  *)
(* and drawers; the directory changes meanwhile.                            *)
(***************************************************************************)
EXTENDS Naturals, FiniteSets

CONSTANTS Person, Team,       \* people of the directory, groups of the portal
          Local,              \* the people whose name a local account has
          Mail,               \* addresses to register
          Text, Hits,       \* search texts, and whom each of them finds
          DiSteps, DiFaults, DiOthers  \* bounds: clicks, failures, changes of the directory

DirectoryAssumption == Local \subseteq Person /\ Hits \in [Text -> SUBSET Person]

VARIABLES
    which,      \* the drawer on show: "none", "ldap" or "azure"
    drawerNo,   \* its number: a request belongs to the drawer it was sent from
    found,      \* results of the search on show, {} before the first
    ticked, teams, email,   \* rows picked, groups picked, the address
    outcome,    \* names the last import did not take, as shown
    searching, importing, registering,  \* requests under way
    known,      \* the people the directory still has
    sources,    \* server: the account of a name: "none", "local", "ldap" or "azuread"
    belongs,    \* server: members of groups
    picks,      \* ghost: what was sent, beside what was on show
    diSteps, diFaults, diOthers

formVars == <<which, drawerNo, found, ticked, teams, email, outcome>>
serverVars == <<sources, belongs>>
diVars == <<formVars, searching, importing, registering, known, serverVars, picks, diSteps,
            diFaults, diOthers>>

\* An empty field.
Blank == ""

DiInit ==
    /\ which = "none" /\ drawerNo = 0 /\ found = {} /\ ticked = {} /\ teams = {} /\ email = Blank
    /\ outcome = {} /\ searching = {} /\ importing = {} /\ registering = {} /\ known = Person
    /\ sources = [n \in Person \cup Mail |-> IF n \in Local THEN "local" ELSE "none"]
    /\ belongs = {} /\ picks = {} /\ diSteps = 0 /\ diFaults = 0 /\ diOthers = 0

DiClick == diSteps < DiSteps /\ diSteps' = diSteps + 1 /\ UNCHANGED <<diFaults, diOthers>>
DiQuiet == UNCHANGED <<diSteps, diFaults, diOthers>>
DiFault == diFaults < DiFaults /\ diFaults' = diFaults + 1 /\ UNCHANGED <<diSteps, diOthers>>
Mine(q) == which # "none" /\ q.drawer = drawerNo

----------------------------------------------------------------------------
(* The drawers                                                             *)

\* "From LDAP" or "Azure AD user": an empty drawer.
onChoose(kind) ==
    /\ DiClick /\ which = "none" /\ which' = kind /\ drawerNo' = drawerNo + 1
    /\ found' = {} /\ ticked' = {} /\ teams' = {} /\ email' = Blank /\ outcome' = {}
    /\ UNCHANGED <<searching, importing, registering, known, serverVars, picks>>

\* setDirectory(null); what is under way goes on.
onClose ==
    /\ which' = "none" /\ found' = {} /\ ticked' = {} /\ teams' = {} /\ email' = Blank /\ outcome' = {}
    /\ UNCHANGED drawerNo
Close ==
    /\ DiClick /\ which # "none" /\ onClose
    /\ UNCHANGED <<searching, importing, registering, known, serverVars, picks>>

\* The search button is busy while a search of this drawer is under way.
search(text) ==
    /\ DiClick /\ which = "ldap" /\ ~\E q \in searching : Mine(q)
    /\ searching' = searching \cup {[drawer |-> drawerNo, hits |-> Hits[text]]}
    /\ UNCHANGED <<formVars, importing, registering, known, serverVars, picks>>

\* Mutant of searched: the ticks of earlier results stay.
searchedKeepsTicks(hits) == found' = hits /\ UNCHANGED ticked

\* New results; nothing of the old ones stays picked.
searched(hits) == found' = hits /\ ticked' = {}

SearchAnswer(q) ==
    /\ searching' = searching \ {q} /\ DiQuiet
    /\ IF Mine(q)
       THEN searched(q.hits \cap known) /\ UNCHANGED <<which, drawerNo, teams, email, outcome>>
       ELSE UNCHANGED formVars
    /\ UNCHANGED <<importing, registering, known, serverVars, picks>>
SearchFails(q) ==
    /\ DiFault /\ searching' = searching \ {q}
    /\ UNCHANGED <<formVars, importing, registering, known, serverVars, picks>>

Toggle(S, e) == IF e \in S THEN S \ {e} ELSE S \cup {e}

\* A row is ticked; a group picked, in the LDAP drawer once there are results; an address
\* typed.
Tick(p) ==
    /\ DiClick /\ which = "ldap" /\ p \in found /\ ticked' = Toggle(ticked, p)
    /\ UNCHANGED <<which, drawerNo, found, teams, email, outcome, searching, importing, registering,
                   known, serverVars, picks>>
PickTeam(g) ==
    /\ DiClick /\ (which = "azure" \/ (which = "ldap" /\ found # {})) /\ teams' = Toggle(teams, g)
    /\ UNCHANGED <<which, drawerNo, found, ticked, email, outcome, searching, importing, registering,
                   known, serverVars, picks>>
TypeMail(m) ==
    /\ DiClick /\ which = "azure" /\ email # m /\ email' = m
    /\ UNCHANGED <<which, drawerNo, found, ticked, teams, outcome, searching, importing, registering,
                   known, serverVars, picks>>

\* The button is busy while this drawer's import is under way.
importUsers ==
    /\ DiClick /\ which = "ldap" /\ ticked # {} /\ ~\E q \in importing : Mine(q)
    /\ importing' = importing \cup {[drawer |-> drawerNo, names |-> ticked, teams |-> teams,
                                     at |-> "sent", left |-> {}]}
    /\ picks' = picks \cup {[names |-> ticked, teams |-> teams, shown |-> found]}
    /\ UNCHANGED <<formVars, searching, registering, known, serverVars>>

\* Success: the ticks go, those made meanwhile too, and the names not taken are shown.
ImportAnswer(q) ==
    /\ q.at = "done" /\ importing' = importing \ {q} /\ DiQuiet
    /\ IF Mine(q)
       THEN ticked' = {} /\ outcome' = q.left /\ UNCHANGED <<which, drawerNo, found, teams, email>>
       ELSE UNCHANGED formVars
    /\ UNCHANGED <<searching, registering, known, serverVars, picks>>
ImportFails(q) ==
    /\ DiFault /\ importing' = importing \ {q}
    /\ UNCHANGED <<formVars, searching, registering, known, serverVars, picks>>

\* An address is required; the button is busy while the request is under way.
create ==
    /\ DiClick /\ which = "azure" /\ email # Blank /\ ~\E q \in registering : Mine(q)
    /\ registering' = registering \cup {[drawer |-> drawerNo, mail |-> email, teams |-> teams,
                                         at |-> "sent"]}
    /\ picks' = picks \cup {[names |-> {email}, teams |-> teams, shown |-> {email}]}
    /\ UNCHANGED <<formVars, searching, importing, known, serverVars>>

\* Success closes whichever drawer is open by now.
CreateAnswer(q) ==
    /\ q.at = "done" /\ registering' = registering \ {q} /\ DiQuiet /\ onClose
    /\ UNCHANGED <<searching, importing, known, serverVars, picks>>
CreateFails(q) ==
    /\ DiFault /\ registering' = registering \ {q}
    /\ UNCHANGED <<formVars, searching, importing, known, serverVars, picks>>

----------------------------------------------------------------------------
(* The server                                                              *)

\* Mutant of Takes: an account of another kind is taken over.
TakesAll(names) == names \cap known

\* The names the directory still knows and no other account has.
Takes(names) == {n \in names \cap known : sources[n] \in {"none", "ldap"}}

\* Accounts first, in one transaction; then the groups, one after the other: a failure there
\* leaves some done ("done" are the groups reached).
handleImportLDAP(q, done) ==
    /\ q.at = "sent" /\ done \subseteq q.teams
    /\ sources' = [n \in DOMAIN sources |-> IF n \in Takes(q.names) THEN "ldap" ELSE sources[n]]
    /\ belongs' = belongs \cup (Takes(q.names) \X done)
    /\ IF done = q.teams
       THEN /\ importing' = (importing \ {q})
                            \cup {[q EXCEPT !.at = "done", !.left = q.names \ Takes(q.names)]}
            /\ DiQuiet
       ELSE importing' = importing \ {q} /\ DiFault
    /\ UNCHANGED <<formVars, searching, registering, known, picks>>

\* An address that has an Azure AD account is refused.
handlePreregisterAzureUser(q, done) ==
    /\ q.at = "sent" /\ sources[q.mail] = "none" /\ done \subseteq q.teams
    /\ sources' = [sources EXCEPT ![q.mail] = "azuread"]
    /\ belongs' = belongs \cup ({q.mail} \X done)
    /\ IF done = q.teams
       THEN registering' = (registering \ {q}) \cup {[q EXCEPT !.at = "done"]} /\ DiQuiet
       ELSE registering' = registering \ {q} /\ DiFault
    /\ UNCHANGED <<formVars, searching, importing, known, picks>>
PreregisterRefused(q) ==
    /\ q.at = "sent" /\ sources[q.mail] # "none" /\ registering' = registering \ {q} /\ DiQuiet
    /\ UNCHANGED <<formVars, searching, importing, known, serverVars, picks>>

\* Somebody leaves the directory.
Leaves(p) ==
    /\ diOthers < DiOthers /\ diOthers' = diOthers + 1 /\ p \in known /\ known' = known \ {p}
    /\ UNCHANGED <<formVars, searching, importing, registering, serverVars, picks, diSteps, diFaults>>

DiNext ==
    \/ \E kind \in {"ldap", "azure"} : onChoose(kind)
    \/ Close \/ importUsers \/ create
    \/ \E text \in Text : search(text)
    \/ \E q \in searching : SearchAnswer(q) \/ SearchFails(q)
    \/ \E p \in Person : Tick(p) \/ Leaves(p)
    \/ \E g \in Team : PickTeam(g)
    \/ \E m \in Mail \cup {Blank} : TypeMail(m)
    \/ \E q \in importing : \/ ImportAnswer(q) \/ ImportFails(q)
                            \/ \E done \in SUBSET Team : handleImportLDAP(q, done)
    \/ \E q \in registering : \/ CreateAnswer(q) \/ CreateFails(q) \/ PreregisterRefused(q)
                              \/ \E done \in SUBSET Team : handlePreregisterAzureUser(q, done)

----------------------------------------------------------------------------
DiTypeOK ==
    /\ which \in {"none", "ldap", "azure"} /\ found \subseteq Person /\ teams \subseteq Team
    /\ email \in Mail \cup {Blank} /\ belongs \subseteq (Person \cup Mail) \X Team
    /\ sources \in [Person \cup Mail -> {"none", "local", "ldap", "azuread"}]

\* An import takes only people who were on show and picked for it, whichever search was
\* answered when; nobody gets into a group but by a request that named both; an account of
\* another kind is never converted, nor put into a group by an import; and the names shown as
\* not imported are names the last import was asked for.
ImportAsPicked ==
    /\ ticked \subseteq found /\ \A i \in picks : i.names \subseteq i.shown
    /\ \A m \in belongs : \E i \in picks : m[1] \in i.names /\ m[2] \in i.teams
    /\ \A n \in Local : sources[n] = "local" /\ ~\E m \in belongs : m[1] = n
    /\ \E i \in picks \cup {[names |-> {}]} : outcome \subseteq i.names

=============================================================================
