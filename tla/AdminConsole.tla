---------------------------- MODULE AdminConsole ----------------------------
(***************************************************************************)
(* The admin console as a whole: frontend/src/pages/AdminPage.tsx shows one *)
(* section at a time, and a section keeps no state when it is left but the  *)
(* query cache.  Each behaviour is one visit of one section: an editor     *)
(* drawer, the user list, its directory drawers, a list of sessions, the   *)
(* API wizard, a settings page or the audit page, with other               *)
(* administrators writing at the same time.                                *)
(***************************************************************************)
CONSTANTS Sections

\* Editors
CONSTANTS None, Api, Drawers, Group, Role, This, Offered, Templates, Elsewhere, FirstOwn,
          FirstLists, EdSteps, EdFaults, EdOthers
\* UserTable
CONSTANTS Account, Order, Self, Admins, Inactive, PageSizes, UtSteps, UtFaults, UtOthers
\* ApiWizard
CONSTANTS Title, Url, TitleOf, SlugOf, WzSteps, WzFaults
\* SettingsForms
CONSTANTS Settings, Main, Extra, FirstSettings, StSteps, StFaults, StOthers
\* AuditView
CONSTANTS Filter, NoFilter, PAGE_SIZES, FirstLog, AuSteps, AuLog, AuFaults
\* SessionList
CONSTANTS Session, Current, SlSteps, SlFaults, SlOthers
\* Directory
CONSTANTS Person, Team, Local, Mail, Text, Hits, DiSteps, DiFaults, DiOthers

VARIABLE section
VARIABLES kind, row, own, lists, cachedOwn, cachedRow, cachedLists, due, drawer, snapshot, form,
          asking, copying, write, tried, quiet, before, edSteps, edFaults, edOthers
VARIABLES accounts, users, fetching, switches, latest, status, sort, pageSize, page, picked,
          dialog, deleting, request, refused, disturbed, lostAnswer, utSteps, utFaults, utOthers
VARIABLES wzOpen, wzForm, wzStep, preview, previewedUrl, previews, wzAsking, calls, sent, apis,
          granted, raced, typed, wzSteps, wzFaults
VARIABLES setting, stored, shown, typedIn, requests, stale, touched, stSteps, stFaults, stOthers
VARIABLES auFilter, auDraft, limit, offset, log, pages, asked, broken, rowsOf, entry, exporting,
          early, purged, auSteps, auLog, auFaults
VARIABLES view, alive, rows, unread, read, endAsked, ending, locked, reported, signedOut, slSteps,
          slFaults, slOthers
VARIABLES which, drawerNo, found, ticked, teams, email, outcome, searching, importing, registering,
          known, sources, belongs, picks, diSteps, diFaults, diOthers

E == INSTANCE Editors
U == INSTANCE UserTable
W == INSTANCE ApiWizard
S == INSTANCE SettingsForms
A == INSTANCE AuditView
L == INSTANCE SessionList
D == INSTANCE Directory

drawerVars == <<kind, row, own, lists, cachedOwn, cachedRow, cachedLists, due, drawer, snapshot,
                form, asking, copying, write, tried, quiet, before, edSteps, edFaults, edOthers>>
userVars == <<accounts, users, fetching, switches, latest, status, sort, pageSize, page, picked,
              dialog, deleting, request, refused, disturbed, lostAnswer, utSteps, utFaults,
              utOthers>>
wizardVars == <<wzOpen, wzForm, wzStep, preview, previewedUrl, previews, wzAsking, calls, sent,
                apis, granted, raced, typed, wzSteps, wzFaults>>
settingVars == <<setting, stored, shown, typedIn, requests, stale, touched, stSteps, stFaults,
                 stOthers>>
auditVars == <<auFilter, auDraft, limit, offset, log, pages, asked, broken, rowsOf, entry,
               exporting, early, purged, auSteps, auLog, auFaults>>
sessionVars == <<view, alive, rows, unread, read, endAsked, ending, locked, reported, signedOut,
                 slSteps, slFaults, slOthers>>
directoryVars == <<which, drawerNo, found, ticked, teams, email, outcome, searching, importing,
                   registering, known, sources, belongs, picks, diSteps, diFaults, diOthers>>

ASSUME EditorsAssumption == E!EditorsAssumption
ASSUME UserTableAssumption == U!UserTableAssumption
ASSUME WizardAssumption == W!WizardAssumption
ASSUME AuditAssumption == A!AuditAssumption
ASSUME SettingsAssumption == S!SettingsAssumption
ASSUME DirectoryAssumption == D!DirectoryAssumption

adVars == <<section, drawerVars, userVars, wizardVars, settingVars, auditVars, sessionVars,
            directoryVars>>

\* AdminPage: one of the sections is shown.
AdInit ==
    /\ section \in Sections
    /\ E!EdInit /\ (section # "drawers" => kind = "role" /\ row = "first")
    /\ S!StInit /\ (section # "settings" => setting = "system")
    /\ L!SlInit /\ (section # "sessions" => view = "admin")
    /\ U!UtInit /\ W!WzInit /\ A!AuInit /\ D!DiInit

AdNext ==
    \/ /\ section = "drawers" /\ E!EdNext
       /\ UNCHANGED <<section, userVars, wizardVars, settingVars, auditVars, sessionVars,
                      directoryVars>>
    \/ /\ section = "users" /\ U!UtNext
       /\ UNCHANGED <<section, drawerVars, wizardVars, settingVars, auditVars, sessionVars,
                      directoryVars>>
    \/ /\ section = "apis" /\ W!WzNext
       /\ UNCHANGED <<section, drawerVars, userVars, settingVars, auditVars, sessionVars,
                      directoryVars>>
    \/ /\ section = "settings" /\ S!StNext
       /\ UNCHANGED <<section, drawerVars, userVars, wizardVars, auditVars, sessionVars,
                      directoryVars>>
    \/ /\ section = "audit" /\ A!AuNext
       /\ UNCHANGED <<section, drawerVars, userVars, wizardVars, settingVars, sessionVars,
                      directoryVars>>
    \/ /\ section = "sessions" /\ L!SlNext
       /\ UNCHANGED <<section, drawerVars, userVars, wizardVars, settingVars, auditVars,
                      directoryVars>>
    \/ /\ section = "directory" /\ D!DiNext
       /\ UNCHANGED <<section, drawerVars, userVars, wizardVars, settingVars, auditVars,
                      sessionVars>>

\* Requests of the user list and of the session lists are answered.
AdSpec == AdInit /\ [][AdNext]_adVars /\ U!UtFairness /\ L!SlFairness

----------------------------------------------------------------------------
TypeOK ==
    /\ section \in Sections
    /\ E!TypeOK /\ U!TypeOK /\ W!WzTypeOK /\ S!StTypeOK /\ A!AuTypeOK
    /\ L!SlTypeOK /\ D!DiTypeOK

\* A save of a drawer that is reported as done did what its form said, and no more, even
\* after an attempt that failed half-way (Editors); an import takes the people picked for it
\* and converts no account of another kind (Directory).
SaveAsIntended == E!SaveAsIntended /\ D!ImportAsPicked

\* The permission matrix of a role ticks what the engine allows (Editors).
MatrixMirrorsEngine == E!MatrixMirrorsEngine

\* Unsaved changes of a drawer are not dropped unasked (Editors).
UnsavedAsked == E!UnsavedAsked

\* The user list offers no change the account rules refuse, unless another administrator
\* changed an account since (UserTable).
RefusedOnlyByOthers == U!RefusedOnlyByOthers

\* The user list ends up showing what the server has, however many status switches were
\* under way together and whichever failed (UserTable); a session reported as ended leaves
\* the lists for good (SessionList).
ListsSettle == U!SwitchesSettle /\ L!SessionsSettle

\* The wizard: a review shows the specification of the form's own address, an API is created
\* only from a form both steps accept, and the slug follows the name until typed (ApiWizard).
CreatedAsReviewed == W!ReviewMatches /\ W!CreatedWasValid /\ W!SlugFollows

\* A settings save changes what it is about and nothing else (SettingsForms).
UntouchedStays == S!UntouchedStays

\* The audit page shows the rows of the query it states (AuditView).
PageIsTheOneAsked == A!PageIsTheOneAsked

=============================================================================
