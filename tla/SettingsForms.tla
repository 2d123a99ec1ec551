---------------------------- MODULE SettingsForms ----------------------------
(***************************************************************************)
(* The settings pages of the admin console: frontend/src/pages/admin/      *)
(* LdapSection.tsx, AzureSection.tsx, SessionSettingsSection.tsx and       *)
(* SystemSection.tsx, with the handlers of backend/internal/api/           *)
(* admin_settings.go and admin_identity.go they call, which read a row and *)
(* write all of it.  A settings row is two values: what is plainly shown   *)
(* ("main": the connection, the idle timeout, the title) and the other one *)
(* ("extra": the secret, the maximum age, the logo).  Every answer to the  *)
(* page's query replaces the form (its key is dataUpdatedAt).              *)
(***************************************************************************)
EXTENDS Integers

CONSTANTS Settings,   \* the pages in use: "ldap", "azure", "session", "system"
          Main, Extra,      \* what may be typed or chosen, for each page
          FirstSettings,    \* the row of each page at first
          StSteps, StFaults, StOthers  \* bounds: clicks, lost answers, writes of others

\* An empty field; no secret, no logo.
Blank == ""

\* What the rows are like at first; the module of the sections assumes it.
SettingsAssumption ==
    /\ Settings \subseteq {"ldap", "azure", "session", "system"}
    /\ \A k \in Settings :
          /\ FirstSettings[k] \in [main: Main[k], extra: Extra[k] \cup {FirstSettings[k].extra}]
          /\ k # "session" => Blank \in Extra[k]

VARIABLES
    setting,    \* the page
    stored,     \* server: the row
    shown,      \* query cache: the row as last fetched
    typedIn,    \* the form
    requests,   \* writes under way
    stale,      \* the row will be fetched again
    touched,    \* history: the values the last write was about; {} when it overlapped another
    stSteps, stFaults, stOthers

stVars == <<setting, stored, shown, typedIn, requests, stale, touched, stSteps, stFaults, stOthers>>

Value == [main: Main[setting], extra: Extra[setting] \cup {FirstSettings[setting].extra}]
StClick == stSteps < StSteps /\ stSteps' = stSteps + 1

----------------------------------------------------------------------------
(* The forms: what they start from, what they send                         *)

\* The secret is never shown: its field starts blank.
LdapForm(row) == [row EXCEPT !.extra = Blank]
AzureForm(row) == [row EXCEPT !.extra = Blank]
SessionForm(row) == row
\* The field of the logo is a file to upload: none.
SystemForm(row) == [row EXCEPT !.extra = Blank]

StForm(row) == CASE setting = "ldap" -> LdapForm(row) [] setting = "azure" -> AzureForm(row)
                 [] setting = "session" -> SessionForm(row) [] setting = "system" -> SystemForm(row)

\* SessionSettingsSection submit: 5 minutes to a day, one hour to 30 days.
InRange(f) == f.main \in 5..1440 /\ f.extra \in 1..720

\* Which values of the row a request is about.
About(r) ==
    CASE setting \in {"ldap", "azure"} ->
            {"main"} \cup (IF r.form.extra = Blank THEN {} ELSE {"extra"})
      [] setting = "session" -> {"main", "extra"}
      [] setting = "system" -> IF r.do = "save" THEN {"main"} ELSE {"extra"}

----------------------------------------------------------------------------
(* The handlers: the row that is written, from the row read                *)

\* UpdateLDAPConfig, UpdateAzureADConfig: a blank secret keeps the stored one.
KeepSecret(r) ==
    [main |-> r.form.main, extra |-> IF r.form.extra = Blank THEN r.read.extra ELSE r.form.extra]

\* handleUpdateSession: out of range, or an idle timeout beyond the maximum age.
SessionRefused(r) == ~InRange(r.form) \/ r.form.main > 60 * r.form.extra

\* Mutant of UpdateSystem: the logo of the payload is stored, too.
UpdateSystemLogo(r) == [main |-> r.form.main, extra |-> r.logo]

\* handleUpdateSystem: the title; "a logoDataUrl in this payload is ignored".
UpdateSystem(r) == [r.read EXCEPT !.main = r.form.main]
\* handleUploadSystemLogo
UploadLogo(r) == [r.read EXCEPT !.extra = r.form.extra]
\* handleDeleteSystemLogo
DeleteLogo(r) == [r.read EXCEPT !.extra = Blank]

SystemRow(r) == CASE r.do = "save" -> UpdateSystem(r) [] r.do = "upload" -> UploadLogo(r)
                  [] r.do = "remove" -> DeleteLogo(r)

Row(r) == CASE setting \in {"ldap", "azure"} -> KeepSecret(r)
            [] setting = "session" -> r.form
            [] setting = "system" -> SystemRow(r)

----------------------------------------------------------------------------
StInit ==
    /\ setting \in Settings
    /\ stored = FirstSettings[setting] /\ shown = stored /\ typedIn = StForm(stored)
    /\ requests = {} /\ stale = FALSE /\ touched = {"main", "extra"}
    /\ stSteps = 0 /\ stFaults = 0 /\ stOthers = 0

\* A field is edited, a file chosen.
StEdit(f) ==
    /\ StClick /\ f # typedIn /\ typedIn' = f
    /\ (f.main = typedIn.main) # (f.extra = typedIn.extra)
    /\ UNCHANGED <<setting, stored, shown, requests, stale, touched, stFaults, stOthers>>

\* Mutant of StSend: the button is not busy while the request is under way.
StSendAgain(do) ==
    /\ StClick
    /\ requests' = requests \cup
          {[do |-> do, form |-> typedIn, logo |-> shown.extra, live |-> TRUE,
            at |-> "sent", read |-> stored]}
    /\ UNCHANGED <<setting, stored, shown, typedIn, stale, touched, stFaults, stOthers>>

\* A request; its button is busy while it is under way and the form is the same one.
StSend(do) ==
    /\ StClick /\ \A r \in requests : r.live => r.do # do
    /\ requests' = requests \cup
          {[do |-> do, form |-> typedIn, logo |-> shown.extra, live |-> TRUE,
            at |-> "sent", read |-> stored]}
    /\ UNCHANGED <<setting, stored, shown, typedIn, stale, touched, stFaults, stOthers>>

StSave == (setting = "session" => InRange(typedIn)) /\ StSend("save")
Upload == setting = "system" /\ typedIn.extra # Blank /\ StSend("upload")
RemoveLogo == setting = "system" /\ shown.extra # Blank /\ StSend("remove")

\* The handler reads the row.
StRead(r) ==
    /\ r.at = "sent"
    /\ requests' = (requests \ {r}) \cup {[r EXCEPT !.at = "read", !.read = stored]}
    /\ UNCHANGED <<setting, stored, shown, typedIn, stale, touched, stSteps, stFaults, stOthers>>

\* It writes the row back, and the page hears of it, unless the answer is lost.
StWrite(r, answered) ==
    /\ r.at = "read" /\ ~(setting = "session" /\ SessionRefused(r))
    /\ stored' = Row(r) /\ touched' = IF r.read = stored THEN About(r) ELSE {}
    /\ requests' = requests \ {r}
    /\ IF answered THEN stale' = TRUE /\ UNCHANGED stFaults
       ELSE stFaults < StFaults /\ stFaults' = stFaults + 1 /\ UNCHANGED stale
    /\ UNCHANGED <<setting, shown, typedIn, stSteps, stOthers>>

\* It refuses, or the request never arrives: a message, and the form stays.
StRefuse(r) ==
    /\ \/ r.at = "read" /\ setting = "session" /\ SessionRefused(r) /\ UNCHANGED stFaults
       \/ r.at = "sent" /\ stFaults < StFaults /\ stFaults' = stFaults + 1
    /\ requests' = requests \ {r}
    /\ UNCHANGED <<setting, stored, shown, typedIn, stale, touched, stSteps, stOthers>>

\* The query is answered: a new form, from the new row.  Requests of the old form go on.
StRefetch ==
    /\ stale /\ stale' = FALSE
    /\ shown' = stored /\ typedIn' = StForm(stored)
    /\ requests' = {[r EXCEPT !.live = FALSE] : r \in requests}
    /\ UNCHANGED <<setting, stored, touched, stSteps, stFaults, stOthers>>

\* External: another administrator.
StOther(v) ==
    /\ stOthers < StOthers /\ stOthers' = stOthers + 1
    /\ (v.main = stored.main) # (v.extra = stored.extra)
    /\ stored' = v /\ touched' = {"main", "extra"}
    /\ UNCHANGED <<setting, shown, typedIn, requests, stale, stSteps, stFaults>>

StNext ==
    \/ \E m \in Main[setting], e \in Extra[setting] : StEdit([main |-> m, extra |-> e])
    \/ StSave \/ Upload \/ RemoveLogo
    \/ \E r \in requests : StRead(r) \/ StRefuse(r) \/ \E a \in BOOLEAN : StWrite(r, a)
    \/ StRefetch
    \/ \E v \in Value : StOther(v)

----------------------------------------------------------------------------
StTypeOK ==
    /\ setting \in Settings /\ stale \in BOOLEAN
    /\ \A r \in requests : r.at \in {"sent", "read"} /\ r.do \in {"save", "upload", "remove"}
    /\ \A r, q \in requests : r.live /\ q.live /\ r.do = q.do => r = q

\* A save changes what it is about and nothing else: a blank secret never replaces the
\* stored one, and a title saved from a page opened long ago brings no old logo back,
\* whatever other administrators, uploads and removals did in the meantime, unless another
\* write came between the handler's own read and write.
UntouchedStays ==
    [][\A part \in {"main", "extra"} :
          stored'[part] # stored[part] => part \in touched' \/ touched' = {}]_stVars

=============================================================================
