------------------------- MODULE AdminConsoleProofs -------------------------
(***************************************************************************)
(* The safety properties of the administration pages, for every number of  *)
(* rows, roles, groups, pages, steps and faults.  Each section of          *)
(* AdminConsole changes variables of its own, so each has an inductive     *)
(* invariant of its own (UtInv, WzInv, AuInv, StInv, EdInv, DiInv), and    *)
(* the last part of the module puts their steps together (SectionSteps).   *)
(***************************************************************************)
EXTENDS AdminConsole, Integers, Sequences, FiniteSetTheorems, TLAPS

\* The user list. RefusedOnlyByOthers is not inductive: no request in flight, bulk or single,
\* deactivates or deletes the administrator who looks at the list, so while nobody else
\* interferes (disturbed) they stay an active administrator and the server has no reason to
\* refuse.
UtInv ==
    /\ U!TypeOK
    /\ latest \in Nat /\ utSteps \in 0..UtSteps /\ latest <= utSteps
    /\ pageSize \in Nat \ {0}
    /\ refused \in BOOLEAN /\ disturbed \in BOOLEAN
    /\ dialog = "delete" => deleting # Self
    /\ request.do \in {"deactivate", "delete"} => Self \notin request.ids
    /\ \A s \in switches : s.do = "deactivate" => s.user # Self
    /\ disturbed \/ Self \in U!ActiveAdmins(accounts)
    /\ refused => disturbed

\* UserTable instantiates FiniteSets itself: both copies count alike.
LEMMA SameCounting ==
    ASSUME NEW X
    PROVE  U!Cardinality(X) = Cardinality(X) /\ (U!IsFiniteSet(X) <=> IsFiniteSet(X))
BY DEF U!Cardinality, Cardinality, U!IsFiniteSet, IsFiniteSet

\* What the user list needs of its constants.
LEMMA UtConstants ==
    /\ Self \in Account /\ Self \in Admins /\ Self \notin Inactive
    /\ IsFiniteSet(Account)
    /\ 1 \in DOMAIN PageSizes /\ \A i \in DOMAIN PageSizes : PageSizes[i] \in Nat \ {0}
    /\ UtSteps \in Nat
<1> USE UserTableAssumption DEF U!UserTableAssumption
<1>1. IsFiniteSet(Account) BY SameCounting
<1>2. PageSizes \in Seq(Nat \ {0}) /\ PageSizes # <<>> OBVIOUS
<1>3. 1 \in DOMAIN PageSizes /\ \A i \in DOMAIN PageSizes : PageSizes[i] \in Nat \ {0}
  BY <1>2
<1>4. UtSteps \in Nat OBVIOUS
<1> QED BY <1>1, <1>3, <1>4

\* The rows that pass the filter are finitely many, and those on the page are users.
LEMMA RowsFinite ==
    /\ IsFiniteSet(U!rows) /\ Cardinality(U!rows) \in Nat
    /\ U!rows = {} <=> Cardinality(U!rows) = 0
    /\ U!visible \subseteq Account
<1>1. U!rows \subseteq Account BY DEF U!rows
<1>2. IsFiniteSet(U!rows) BY UtConstants, <1>1, FS_Subset
<1>3. U!visible \subseteq Account BY DEF U!visible, U!rows
<1> QED BY <1>2, <1>3, FS_CardinalityType, FS_EmptySet

\* There is always a page, and the page shown is a number (UserTable: pageCount, currentPage).
LEMMA PagesCounted ==
    ASSUME pageSize \in Nat \ {0}, page \in Nat
    PROVE  /\ U!pageCount \in Nat \ {0}
           /\ U!currentPage \in Nat
<1> DEFINE n == Cardinality(U!rows)
<1>1. n \in Nat /\ (U!rows # {} => n >= 1) BY RowsFinite
<1>2. U!rows # {} => n + pageSize - 1 >= pageSize BY <1>1
<1>3. U!rows # {} => (n + pageSize - 1) \div pageSize \in Nat \ {0}
  <2> HIDE DEF n
  <2> QED BY <1>1, <1>2, SMTT(30)
<1>4. U!pageCount \in Nat \ {0} BY <1>3, SameCounting DEF U!pageCount
<1> QED BY <1>4 DEF U!currentPage

\* A change of rows gives rows, and spares the administrator it is not about.
LEMMA ChangedTyped ==
    ASSUME NEW R \in U!Rows, NEW do, NEW ids
    PROVE  /\ U!Changed(R, do, ids) \in U!Rows
           /\ Self \notin ids \/ do \notin {"deactivate", "delete"} =>
                 (Self \in U!ActiveAdmins(R) => Self \in U!ActiveAdmins(U!Changed(R, do, ids)))
<1>1. U!Changed(R, do, ids) \in U!Rows BY DEF U!Changed, U!Rows, U!Row
<1> QED BY <1>1 DEF U!Changed, U!Rows, U!Row, U!ActiveAdmins, U!Listed

\* The provers keep Boolean values and propositions apart.
LEMMA MembershipIsBoolean ==
    ASSUME NEW e, NEW X
    PROVE  (e \in X) \in BOOLEAN /\ (e \notin X) \in BOOLEAN
BY SMT

\* The user list starts in the invariant.
LEMMA UtInitial == AdInit => UtInv
<1> SUFFICES ASSUME U!UtInit PROVE UtInv BY DEF AdInit
<1> USE DEF U!UtInit
<1> USE UtConstants
<1> DEFINE first(u) == [there |-> TRUE, active |-> u \notin Inactive, admin |-> u \in Admins]
<1>1. ASSUME NEW u \in Account PROVE first(u) \in U!Row
  <2>1. (u \notin Inactive) \in BOOLEAN /\ (u \in Admins) \in BOOLEAN
    BY MembershipIsBoolean, Zenon
  <2> QED BY <2>1, Zenon DEF U!Row
<1>2. accounts = [u \in Account |-> first(u)] OBVIOUS
<1>3. accounts \in U!Rows
  <2> HIDE DEF first
  <2> QED BY <1>1, <1>2 DEF U!Rows
<1>4. PageSizes[1] \in Nat \ {0} OBVIOUS
<1>5. U!TypeOK BY <1>3 DEF U!TypeOK, U!Status, U!NoRequest
<1>6. Self \in U!ActiveAdmins(accounts) BY DEF U!ActiveAdmins, U!Listed
<1>7. refused \in BOOLEAN /\ disturbed \in BOOLEAN /\ ~refused BY Zenon
<1>8. request.do = "none" BY DEF U!NoRequest
<1>9. latest = 0 /\ utSteps = 0 /\ pageSize = PageSizes[1] /\ dialog = "none" /\ switches = {}
  BY Zenon
<1>10. latest \in Nat /\ utSteps \in 0..UtSteps /\ latest <= utSteps /\ dialog = "none"
       /\ pageSize \in Nat \ {0} /\ switches = {}
  <2> HIDE DEF U!UtInit
  <2> QED BY <1>4, <1>9
<1> QED BY <1>5, <1>6, <1>7, <1>8, <1>10 DEF UtInv

\* Every step of the user list keeps its invariant.
LEMMA UtStep ==
    ASSUME UtInv, [U!UtNext]_userVars PROVE UtInv'
<1> USE UtConstants DEF UtInv, U!TypeOK
<1>1. CASE UNCHANGED userVars
  BY <1>1 DEF userVars, U!Listed, U!ActiveAdmins
<1>2. ASSUME NEW s \in U!Status, U!setFilter(s) PROVE UtInv'
  BY <1>2 DEF U!setFilter, U!UtClick, U!askVars, U!utGhosts, U!ActiveAdmins, U!Listed
<1>3. CASE U!toggleSort
  BY <1>3 DEF U!toggleSort, U!UtClick, U!askVars, U!utGhosts, U!ActiveAdmins, U!Listed
<1>4. CASE U!Turn
  <2>1. pageSize' \in Nat \ {0} /\ page' \in Nat
    BY <1>4, PagesCounted DEF U!Turn
  <2> QED BY <1>4, <2>1 DEF U!Turn, U!UtClick, U!askVars, U!utGhosts, U!ActiveAdmins, U!Listed
<1>5. CASE U!toggleAll
  BY <1>5, RowsFinite DEF U!toggleAll, U!UtClick, U!tableVars, U!askVars, U!utGhosts,
                          U!ActiveAdmins, U!Listed
<1>6. CASE U!clearSelection
  BY <1>6 DEF U!clearSelection, U!UtClick, U!tableVars, U!askVars, U!utGhosts, U!ActiveAdmins,
              U!Listed
<1>7. ASSUME NEW u \in Account, U!toggleRow(u) PROVE UtInv'
  BY <1>7, RowsFinite DEF U!toggleRow, U!UtClick, U!tableVars, U!askVars, U!utGhosts,
                          U!ActiveAdmins, U!Listed
<1>8. ASSUME NEW u \in Account, U!Switch(u) PROVE UtInv'
  <2> DEFINE do == IF users[u].active THEN "deactivate" ELSE "activate"
             s == [n |-> latest + 1, user |-> u, do |-> do, previous |-> users, at |-> "sent"]
  <2>1. /\ switches' = switches \cup {s} /\ users' = U!Changed(users, do, {u})
        /\ latest' = latest + 1 /\ utSteps' = utSteps + 1 /\ utSteps < UtSteps
        /\ fetching' = [at |-> "idle", rows |-> users']
        /\ do = "deactivate" => u # Self
    BY <1>8 DEF U!Switch, U!UtClick, U!statusLock
  <2>2. users' \in U!Rows BY <2>1, ChangedTyped
  <2>3. s \in [n: 1 .. UtSteps, user: Account, do: {"activate", "deactivate"},
                previous: U!Rows, at: {"sent", "ok", "failed"}]
    BY <2>1
  <2>4. s.do = do /\ s.user = u OBVIOUS
  <2> HIDE DEF s, do
  <2> QED
    BY <1>8, <2>1, <2>2, <2>3, <2>4
    DEF U!Switch, U!tableVars, U!askVars, U!utGhosts, U!ActiveAdmins, U!Listed
<1>9. ASSUME NEW u \in Account, U!OtherAdmin(u) PROVE UtInv'
  <2>1. \E b \in BOOLEAN : \/ accounts' = [accounts EXCEPT ![u].active = b]
                            \/ accounts' = [accounts EXCEPT ![u].admin = b]
                            \/ accounts' = [accounts EXCEPT ![u].there = b]
    BY <1>9, Zenon DEF U!OtherAdmin
  <2>2. accounts' \in U!Rows
    BY <2>1, SMTT(30) DEF U!Rows, U!Row
  <2>3. /\ disturbed' = TRUE
        /\ UNCHANGED <<users, fetching, switches, latest, status, sort, pageSize, page, picked,
                       dialog, deleting, request, refused, utSteps>>
    BY <1>9, Zenon DEF U!OtherAdmin, U!tableVars, U!askVars
  <2>4. disturbed' \in BOOLEAN /\ refused' \in BOOLEAN BY <2>3, Zenon
  <2> QED BY <2>2, <2>3, <2>4
<1>10. ASSUME NEW s \in switches, U!SwitchServed(s) PROVE UtInv'
  <2> DEFINE ok == U!Allowed(s.do, {s.user})
  <2>1. s.do \in {"activate", "deactivate"} /\ s.user \in Account OBVIOUS
  <2>2. ~ok /\ s.user \in U!Listed(accounts) => disturbed
    BY <2>1 DEF U!Allowed
  <2>3. /\ accounts' \in {accounts, U!Changed(accounts, s.do, {s.user})}
        /\ \E at \in {"ok", "failed"} : switches' = (switches \ {s}) \cup {[s EXCEPT !.at = at]}
        /\ refused' \in {refused, refused \/ (~ok /\ s.user \in U!Listed(accounts))}
    BY <1>10, Zenon DEF U!SwitchServed
  <2>4. accounts' \in U!Rows /\ (disturbed \/ Self \in U!ActiveAdmins(accounts'))
    BY <2>1, <2>3, ChangedTyped
  <2>5. refused' \in BOOLEAN /\ (refused' => disturbed)
    BY <2>2, <2>3, Zenon
  <2> HIDE DEF ok
  <2>6. PICK at \in {"ok", "failed"} : switches' = (switches \ {s}) \cup {[s EXCEPT !.at = at]}
    BY <2>3
  <2>7. /\ [s EXCEPT !.at = at] \in [n: 1 .. UtSteps, user: Account, do: {"activate", "deactivate"},
                                     previous: U!Rows, at: {"sent", "ok", "failed"}]
        /\ [s EXCEPT !.at = at].do = s.do /\ [s EXCEPT !.at = at].user = s.user
    OBVIOUS
  <2>8. UNCHANGED <<users, fetching, latest, status, sort, pageSize, page, picked, dialog, deleting,
                    request, disturbed, utSteps>>
    BY <1>10, Zenon DEF U!SwitchServed, U!tableVars, U!askVars
  <2> QED
    BY <2>4, <2>5, <2>6, <2>7, <2>8 DEF U!ActiveAdmins, U!Listed
<1>11. ASSUME NEW s \in switches, U!SwitchAnswer(s) PROVE UtInv'
  BY <1>11 DEF U!SwitchAnswer, U!Refetch, U!tableVars, U!askVars, U!utGhosts, U!ActiveAdmins,
               U!Listed
<1>12. CASE U!FetchServed
  BY <1>12 DEF U!FetchServed, U!tableVars, U!askVars, U!utGhosts, U!ActiveAdmins, U!Listed
<1>13. CASE U!FetchAnswer
  BY <1>13 DEF U!FetchAnswer, U!tableVars, U!askVars, U!utGhosts, U!ActiveAdmins, U!Listed
<1>14. CASE U!Ask
  BY <1>14, RowsFinite DEF U!Ask, U!UtClick, U!canDelete, U!tableVars, U!utGhosts, U!ActiveAdmins,
                           U!Listed
<1>15. CASE U!Confirm
  <2> DEFINE ids == CASE dialog = "activate" -> U!toActivate
                      [] dialog = "deactivate" -> U!toDeactivate
                      [] dialog = "group" -> U!chosen
                      [] dialog = "delete" -> {deleting}
  <2>1. request' = [do |-> dialog, at |-> "sent", ids |-> ids] /\ dialog # "none"
    BY <1>15, Zenon DEF U!Confirm
  <2>2. U!toActivate \subseteq Account /\ U!toDeactivate \subseteq Account \ {Self}
        /\ U!chosen \subseteq Account
    BY DEF U!toActivate, U!toDeactivate, U!chosen, U!statusLock
  <2>3. ids \subseteq Account /\ (dialog \in {"deactivate", "delete"} => Self \notin ids)
    <3>1. CASE dialog = "activate"
      <4>1. ids = U!toActivate BY <3>1, Zenon
      <4> HIDE DEF ids
      <4> QED BY <3>1, <4>1, <2>2
    <3>2. CASE dialog = "deactivate"
      <4>1. ids = U!toDeactivate BY <3>2, Zenon
      <4> HIDE DEF ids
      <4> QED BY <3>2, <4>1, <2>2
    <3>3. CASE dialog = "group"
      <4>1. ids = U!chosen BY <3>3, Zenon
      <4> HIDE DEF ids
      <4> QED BY <3>3, <4>1, <2>2
    <3>4. CASE dialog = "delete"
      <4>1. ids = {deleting} BY <3>4, Zenon
      <4> HIDE DEF ids
      <4> QED BY <3>4, <4>1
    <3> HIDE DEF ids
    <3> QED BY <2>1, <3>1, <3>2, <3>3, <3>4
  <2> HIDE DEF ids
  <2>4. UNCHANGED <<accounts, users, fetching, switches, latest, status, sort, pageSize, page,
                    picked, dialog, deleting, refused, disturbed>>
        /\ utSteps' = utSteps + 1 /\ utSteps < UtSteps
    BY <1>15, Zenon DEF U!Confirm, U!UtClick, U!tableVars, U!askVars, U!utGhosts
  <2> QED BY <2>1, <2>3, <2>4 DEF U!ActiveAdmins, U!Listed
<1>16. CASE U!Cancel
  BY <1>16 DEF U!Cancel, U!UtClick, U!tableVars, U!utGhosts, U!ActiveAdmins, U!Listed
<1>17. CASE U!RequestServed
  <2> DEFINE ok == U!Allowed(request.do, request.ids)
  <2>1. ~ok /\ request.ids \subseteq U!Listed(accounts) => disturbed
    BY DEF U!Allowed
  <2>2. /\ accounts' \in {accounts, U!Changed(accounts, request.do, request.ids)}
        /\ \E at \in {"ok", "failed"} : request' = [request EXCEPT !.at = at]
        /\ refused' \in {refused, refused \/ (~ok /\ request.ids \subseteq U!Listed(accounts))}
    BY <1>17, Zenon DEF U!RequestServed
  <2>3. accounts' \in U!Rows /\ (disturbed \/ Self \in U!ActiveAdmins(accounts'))
    BY <2>2, ChangedTyped
  <2>4. refused' \in BOOLEAN /\ (refused' => disturbed)
    BY <2>1, <2>2, Zenon
  <2> HIDE DEF ok
  <2>5. UNCHANGED <<users, fetching, switches, latest, status, sort, pageSize, page, picked, dialog,
                    deleting, disturbed, utSteps>>
    BY <1>17, Zenon DEF U!RequestServed, U!tableVars, U!askVars
  <2> QED
    BY <2>2, <2>3, <2>4, <2>5 DEF U!ActiveAdmins, U!Listed
<1>18. CASE U!RequestAnswer
  BY <1>18 DEF U!RequestAnswer, U!NoRequest, U!Refetch, U!tableVars, U!askVars, U!utGhosts,
               U!ActiveAdmins, U!Listed
<1>19. CASE U!RequestDone
  BY <1>19 DEF U!RequestDone, U!NoRequest, U!tableVars, U!utGhosts, U!ActiveAdmins, U!Listed
<1>20. QED
  BY <1>1, <1>2, <1>3, <1>4, <1>5, <1>6, <1>7, <1>8, <1>9, <1>10, <1>11, <1>12, <1>13, <1>14,
     <1>15, <1>16, <1>17, <1>18, <1>19 DEF U!UtNext

-----------------------------------------------------------------------------
(* The wizard *)

\* A preview request: the address asked for, the one the form held when it was sent.
WzPreview == [url: Url \cup {"malformed"}, seen: Url \cup {W!Blank, "malformed"}, attached: BOOLEAN]

\* The requests a wizard has left to send, in their order.
WzCalls == Seq({"create", "access"})

\* The types of the wizard's variables.
WzTyped ==
    /\ wzForm \in W!WzForm /\ wzStep \in 1..3 /\ calls \in WzCalls
    /\ preview \in Url \cup {W!Blank} /\ previewedUrl \in Url \cup {W!Blank, "malformed"}
    /\ sent \in W!WzForm /\ apis \subseteq W!WzForm /\ granted \subseteq apis

\* A preview under way belongs to an open wizard; one that still answers the form is about the
\* address in it, and without a race the preview shown is the one asked for.
WzPreviews ==
    /\ previews \subseteq WzPreview
    /\ \A p \in previews : p.url # W!Blank /\ (p.attached => wzStep = 1 /\ p.seen = wzForm.url)
    /\ ~wzOpen => previews = {}
    /\ ~raced => \A p \in previews : p.seen = p.url
    /\ ~raced /\ preview # W!Blank => preview = previewedUrl

\* Every step after the first has passed the checks before it, and so has what is sent: what
\* was created was valid when it was reviewed.
WzValid ==
    /\ wzStep > 1 => W!validateSource(wzForm)
    /\ wzStep > 2 => W!validatePolicy(wzForm)
    /\ calls # <<>> => W!validateSource(sent) /\ W!validatePolicy(sent)
    /\ W!CreatedWasValid

\* CreatedAsReviewed needs the checks of each step (WzValid) and the previews under way
\* (WzPreviews), because an answer may come back to a later step or a closed wizard.
WzInv == WzTyped /\ WzPreviews /\ WzValid /\ W!SlugFollows

\* The form a wizard opens with.
LEMMA EmptyApi ==
    /\ W!EMPTY_API \in W!WzForm
    /\ W!EMPTY_API.slug = W!Blank /\ W!EMPTY_API.name = W!Blank
<1>1. FALSE \in BOOLEAN OBVIOUS
<1> QED BY <1>1 DEF W!EMPTY_API, W!WzForm, W!Slug

\* What typing into one field of the form leaves of the others.
LEMMA FormEdits ==
    ASSUME NEW f \in W!WzForm
    PROVE  /\ \A s \in W!Slug : [f EXCEPT !.slug = s] \in W!WzForm
                               /\ [f EXCEPT !.slug = s].url = f.url
           /\ \A u \in Url \cup {W!Blank, "malformed"} :
                 LET g == [f EXCEPT !.url = u]
                 IN  g \in W!WzForm /\ g.name = f.name /\ g.slug = f.slug /\ g.url = u
           /\ \A w \in SUBSET {"source", "policy"} :
                 LET g == [f EXCEPT !.wrong = w]
                 IN  /\ g \in W!WzForm
                     /\ g.name = f.name /\ g.slug = f.slug /\ g.url = f.url /\ g.wrong = w
           /\ \A a \in BOOLEAN :
                 LET g == [f EXCEPT !.access = a]
                 IN  /\ g \in W!WzForm /\ g.name = f.name /\ g.slug = f.slug
                     /\ g.url = f.url /\ g.wrong = f.wrong
BY DEF W!WzForm

\* slugify gives a slug.
LEMMA SlugTyped == ASSUME NEW n \in Title \cup {W!Blank} PROVE W!slugify(n) \in W!Slug
BY DEF W!slugify, W!Slug

\* The lists of requests a wizard can hold.
LEMMA CallsTyped ==
    /\ <<>> \in WzCalls /\ <<"create">> \in WzCalls /\ <<"create", "access">> \in WzCalls
    /\ \A c \in WzCalls : c # <<>> => Tail(c) \in WzCalls
BY DEF WzCalls

\* The wizard starts in the invariant.
LEMMA WzInitial == AdInit => WzInv
<1> SUFFICES ASSUME W!WzInit PROVE WzInv BY DEF AdInit
<1> USE DEF W!WzInit
<1>1. WzTyped BY EmptyApi, CallsTyped DEF WzTyped
<1>2. WzPreviews BY DEF WzPreviews
<1>3. WzValid BY DEF WzValid, W!CreatedWasValid
<1>4. W!SlugFollows BY EmptyApi DEF W!SlugFollows, W!slugify
<1> QED BY <1>1, <1>2, <1>3, <1>4 DEF WzInv

\* Every step of the wizard keeps its invariant.
LEMMA WzPreserved ==
    ASSUME WzInv, [W!WzNext]_wizardVars PROVE WzInv'
<1> USE CallsTyped DEF WzInv, WzTyped, WzPreviews, WzValid, W!CreatedWasValid, W!SlugFollows,
                       W!validateSource, W!validatePolicy
<1>1. CASE UNCHANGED wizardVars
  BY <1>1 DEF wizardVars
<1>2. CASE W!WzStart
  BY <1>2, EmptyApi DEF W!WzStart, W!WzClick, W!serverVars, W!slugify
<1>3. ASSUME NEW n \in Title \cup {W!Blank}, W!TypeTitle(n) PROVE WzInv'
  <2> DEFINE s == IF wzForm.slug = W!slugify(wzForm.name) THEN W!slugify(n) ELSE wzForm.slug
  <2>1. s \in W!Slug BY SlugTyped DEF W!WzForm
  <2>2. /\ wzForm' = [wzForm EXCEPT !.name = n, !.slug = s] /\ wzStep = 1
        /\ UNCHANGED <<wzOpen, wzStep, preview, previewedUrl, previews, calls, sent, apis, granted,
                       raced, typed>>
    BY <1>3 DEF W!TypeTitle, W!InWizard, W!WzClick, W!previewVars, W!serverVars, W!marks
  <2> HIDE DEF s
  <2>3. wzForm' \in W!WzForm /\ wzForm'.url = wzForm.url /\ wzForm'.name = n /\ wzForm'.slug = s
    <3>1. wzForm \in W!WzForm OBVIOUS
    <3>2. wzForm' = [wzForm EXCEPT !.name = n, !.slug = s] BY <2>2
    <3> HIDE DEF WzInv, WzTyped, WzPreviews, WzValid, W!CreatedWasValid, W!SlugFollows
    <3> QED BY <2>1, <3>1, <3>2 DEF W!WzForm
  <2>4. W!SlugFollows' BY <2>2, <2>3 DEF s
  <2> QED BY <2>2, <2>3, <2>4
<1>4. ASSUME NEW s \in {W!Blank, W!ByHand}, W!TypeSlug(s) PROVE WzInv'
  <2>1. s \in W!Slug BY DEF W!Slug
  <2>2. /\ wzForm' = [wzForm EXCEPT !.slug = s] /\ wzStep = 1 /\ typed'
        /\ UNCHANGED <<wzOpen, wzStep, preview, previewedUrl, previews, calls, sent, apis, granted,
                       raced>>
    BY <1>4 DEF W!TypeSlug, W!InWizard, W!WzClick, W!previewVars, W!serverVars
  <2>3. wzForm' \in W!WzForm /\ wzForm'.url = wzForm.url BY <2>1, <2>2, FormEdits
  <2> QED BY <2>2, <2>3
<1>5. ASSUME NEW u \in Url \cup {W!Blank, "malformed"}, W!TypeUrl(u) PROVE WzInv'
  <2>1. /\ wzForm' = [wzForm EXCEPT !.url = u] /\ wzStep = 1
        /\ previews' = {IF p.attached THEN [p EXCEPT !.seen = u] ELSE p : p \in previews}
        /\ ~raced' => ~raced /\ \A p \in previews : ~p.attached
        /\ UNCHANGED <<wzOpen, wzStep, preview, previewedUrl, calls, sent, apis, granted, typed>>
    BY <1>5 DEF W!TypeUrl, W!InWizard, W!WzClick, W!serverVars
  <2>2. wzForm' \in W!WzForm /\ wzForm'.url = u /\ wzForm'.name = wzForm.name
        /\ wzForm'.slug = wzForm.slug
    BY <2>1, FormEdits
  <2>3. \A p \in previews' : /\ p \in WzPreview /\ p.url # W!Blank /\ (p.attached => p.seen = u)
                             /\ ~raced' => p \in previews
    BY <2>1 DEF WzPreview
  <2>4. ~wzOpen => previews' = {} BY <2>1
  <2> QED BY <2>1, <2>2, <2>3, <2>4
<1>6. CASE W!TypeSource
  <2>1. /\ wzForm' = [wzForm EXCEPT !.wrong = (@ \ {"source"}) \cup ({"source"} \ @)]
        /\ wzStep = 1
        /\ UNCHANGED <<wzOpen, wzStep, preview, previewedUrl, previews, calls, sent, apis, granted,
                       raced, typed>>
    BY <1>6 DEF W!TypeSource, W!InWizard, W!WzClick, W!previewVars, W!serverVars, W!marks
  <2>2. wzForm' \in W!WzForm /\ wzForm'.url = wzForm.url /\ wzForm'.name = wzForm.name
        /\ wzForm'.slug = wzForm.slug
    BY <2>1, FormEdits DEF W!WzForm
  <2> QED BY <2>1, <2>2
<1>7. CASE W!TypePolicy
  <2>1. /\ wzForm' = [wzForm EXCEPT !.wrong = (@ \ {"policy"}) \cup ({"policy"} \ @)]
        /\ wzStep = 2
        /\ UNCHANGED <<wzOpen, wzStep, preview, previewedUrl, previews, calls, sent, apis, granted,
                       raced, typed>>
    BY <1>7 DEF W!TypePolicy, W!InWizard, W!WzClick, W!previewVars, W!serverVars, W!marks
  <2>2. wzForm' \in W!WzForm /\ wzForm'.url = wzForm.url /\ wzForm'.name = wzForm.name
        /\ wzForm'.slug = wzForm.slug /\ ("source" \in wzForm'.wrong => "source" \in wzForm.wrong)
    BY <2>1, FormEdits DEF W!WzForm
  <2> QED BY <2>1, <2>2
<1>8. CASE W!TypeAccess
  <2>1. /\ \E a \in BOOLEAN : wzForm' = [wzForm EXCEPT !.access = a]
        /\ wzStep = 2
        /\ UNCHANGED <<wzOpen, wzStep, preview, previewedUrl, previews, calls, sent, apis, granted,
                       raced, typed>>
    BY <1>8, Zenon DEF W!TypeAccess, W!InWizard, W!WzClick, W!previewVars, W!serverVars, W!marks
  <2>2. wzForm' \in W!WzForm /\ wzForm'.url = wzForm.url /\ wzForm'.name = wzForm.name
        /\ wzForm'.slug = wzForm.slug /\ wzForm'.wrong = wzForm.wrong
    <3>1. PICK a \in BOOLEAN : wzForm' = [wzForm EXCEPT !.access = a] BY <2>1, Zenon
    <3> QED BY <3>1, FormEdits
  <2> QED BY <2>1, <2>2
<1>9. CASE W!Preview
  <2> DEFINE p == [url |-> wzForm.url, seen |-> wzForm.url, attached |-> TRUE]
  <2>1. /\ previews' = previews \cup {p} /\ wzForm.url # W!Blank /\ wzStep = 1 /\ wzOpen
        /\ UNCHANGED <<wzOpen, wzForm, wzStep, preview, previewedUrl, calls, sent, apis, granted,
                       raced, typed>>
    BY <1>9 DEF W!Preview, W!InWizard, W!WzClick, W!serverVars, W!marks
  <2>2. p \in WzPreview /\ p.url = wzForm.url /\ p.seen = wzForm.url
    <3>1. wzForm.url \in Url \cup {"malformed"} BY <2>1 DEF W!WzForm
    <3>2. TRUE \in BOOLEAN OBVIOUS
    <3> QED BY <3>1, <3>2 DEF WzPreview
  <2> HIDE DEF p
  <2> QED BY <2>1, <2>2
<1>10. ASSUME NEW p \in previews, W!PreviewAnswer(p) PROVE WzInv'
  <2>1. p \in WzPreview /\ p.url # W!Blank OBVIOUS
  <2>2. /\ \/ p.url \in Url /\ preview' = p.url /\ wzForm' = W!Adopted(wzForm, p)
           \/ preview' = W!Blank /\ wzForm' = wzForm
        /\ previewedUrl' = p.seen /\ previews' = previews \ {p}
        /\ UNCHANGED <<wzOpen, wzStep, calls, sent, apis, granted, raced, typed>>
    BY <1>10 DEF W!PreviewAnswer, W!serverVars, W!marks
  <2>3. preview' \in Url \cup {W!Blank} /\ previewedUrl' \in Url \cup {W!Blank, "malformed"}
    BY <2>1, <2>2 DEF WzPreview
  <2>4. CASE wzForm' = wzForm
    BY <2>1, <2>2, <2>3, <2>4
  <2>5. CASE p.url \in Url /\ p.attached /\ wzForm.name = W!Blank /\ wzForm' = W!Adopted(wzForm, p)
    <3> DEFINE n == TitleOf[p.url]
               s == IF wzForm.slug = W!Blank THEN W!slugify(n) ELSE wzForm.slug
    <3>1. n \in Title \cup {W!Blank} BY <2>5, WizardAssumption DEF W!WizardAssumption
    <3>2. s \in W!Slug BY <3>1, SlugTyped DEF W!WzForm
    <3>3. wzForm' = [wzForm EXCEPT !.name = n, !.slug = s] BY <2>5 DEF W!Adopted
    <3>4. wzForm.slug = W!Blank => s = W!slugify(n) OBVIOUS
    <3> HIDE DEF s, n
    <3>5. wzForm' \in W!WzForm /\ wzForm'.url = wzForm.url /\ wzForm'.name = n /\ wzForm'.slug = s
      <4>1. wzForm \in W!WzForm OBVIOUS
      <4> HIDE DEF WzInv, WzTyped, WzPreviews, WzValid, W!CreatedWasValid, W!SlugFollows
      <4> QED BY <3>1, <3>2, <3>3, <4>1 DEF W!WzForm
    <3>6. W!SlugFollows' BY <2>2, <2>5, <3>4, <3>5 DEF W!slugify
    <3> QED BY <2>1, <2>2, <2>3, <2>5, <3>5, <3>6
  <2> QED BY <2>2, <2>4, <2>5 DEF W!Adopted
<1>11. CASE W!next
  <2>1. CASE wzStep < 3
    <3>1. /\ wzStep' = wzStep + 1
          /\ previews' = {[p EXCEPT !.attached = FALSE] : p \in previews}
          /\ wzStep = 1 => W!validateSource(wzForm)
          /\ wzStep = 2 => W!validatePolicy(wzForm)
          /\ UNCHANGED <<wzOpen, wzForm, preview, previewedUrl, calls, sent, apis, granted, raced,
                         typed>>
      BY <1>11, <2>1
      DEF W!next, W!Passes, W!Detached, W!STEPS, W!InWizard, W!WzClick, W!serverVars, W!marks
    <3>2. \A p \in previews' : /\ p \in WzPreview /\ p.url # W!Blank /\ ~p.attached
                               /\ \E o \in previews : p.seen = o.seen /\ p.url = o.url
      BY <3>1, ZenonT(30) DEF WzPreview
    <3>3. previews = {} => previews' = {} BY <3>1
    <3> QED BY <2>1, <3>1, <3>2, <3>3
  <2>2. CASE wzStep = 3
    <3>1. /\ calls' \in WzCalls /\ sent' = wzForm
          /\ UNCHANGED <<wzOpen, wzForm, wzStep, preview, previewedUrl, previews, apis, granted,
                         raced, typed>>
      BY <1>11, <2>2 DEF W!next, W!STEPS, W!InWizard, W!WzClick, W!serverVars, W!marks
    <3> QED BY <2>2, <3>1
  <2> QED BY <2>1, <2>2
<1>12. CASE W!WzBack
  BY <1>12 DEF W!WzBack, W!InWizard, W!WzClick, W!previewVars, W!serverVars, W!marks
<1>13. CASE W!Created
  <2>1. /\ calls # <<>> /\ calls' = Tail(calls) /\ sent' = sent
        /\ apis' = apis \cup {sent} /\ granted' \subseteq granted \cup {sent}
    BY <1>13 DEF W!Created
  <2>2. calls' \in WzCalls BY <2>1
  <2>3. CASE calls' = <<>>
    BY <1>13, <2>1, <2>2, <2>3, EmptyApi DEF W!Created, W!WzLeave, W!slugify
  <2>4. CASE calls' # <<>>
    BY <1>13, <2>1, <2>2, <2>4 DEF W!Created, W!previewVars, W!marks
  <2> QED BY <2>3, <2>4
<1>14. CASE W!CreateFailed
  BY <1>14 DEF W!CreateFailed, W!previewVars, W!serverVars, W!marks
<1>15. CASE W!WzClose
  <2>1. CASE wzForm # W!EMPTY_API
    BY <1>15, <2>1 DEF W!WzClose, W!InWizard, W!WzClick, W!previewVars, W!serverVars, W!marks
  <2>2. CASE wzForm = W!EMPTY_API
    BY <1>15, <2>2, EmptyApi
    DEF W!WzClose, W!WzLeave, W!InWizard, W!WzClick, W!serverVars, W!slugify
  <2> QED BY <2>1, <2>2
<1>16. ASSUME NEW d \in BOOLEAN, W!WzAnswer(d) PROVE WzInv'
  BY <1>16, EmptyApi DEF W!WzAnswer, W!WzLeave, W!InWizard, W!WzClick, W!previewVars, W!serverVars,
                         W!marks, W!slugify
<1> QED
  BY <1>1, <1>2, <1>3, <1>4, <1>5, <1>6, <1>7, <1>8, <1>9, <1>10, <1>11, <1>12, <1>13, <1>14,
     <1>15, <1>16 DEF W!WzNext

-----------------------------------------------------------------------------
(* The audit page *)

\* The answers of the audit log.
AuPages == [key: A!Key, total: Nat, count: Nat]

\* A page's data is what a query of the log can bring.
AuData(d) ==
    /\ d \in AuPages /\ d.count <= d.key.limit /\ d.count <= d.total
    /\ d.total > d.key.offset => d.count > 0

\* The offset of a query is inside the log, the total of an answer is not beyond it.
AuInside ==
    ~early /\ ~purged =>
        /\ \A k \in asked \cup {A!query} : k.offset = 0 \/ log[k.filter] > k.offset
        /\ \A d \in pages \cup {rowsOf} : /\ d.total <= log[d.key.filter]
                                          /\ d.key.offset = 0 \/ d.total > d.key.offset

\* The types of the audit page's variables; a query has one answer in the cache.
AuTyped ==
    /\ A!query \in A!Key /\ auDraft \in Filter /\ asked \subseteq A!Key /\ broken \subseteq A!Key
    /\ log \in [Filter -> Nat] /\ exporting \subseteq Filter
    /\ \A d \in pages \cup {rowsOf} : AuData(d)
    /\ \A d, e \in pages : d.key = e.key => d = e

\* PageIsTheOneAsked needs to know that an unanswered query is under way or failed, and that
\* offsets stay inside a log that only grows unless it is purged (AuInside).
AuInv ==
    /\ AuTyped /\ AuInside /\ entry \in BOOLEAN
    /\ A!query \in asked \cup broken \/ rowsOf.key = A!query

\* What the audit page needs of its constants.
LEMMA AuConstants ==
    /\ NoFilter \in Filter /\ FirstLog \in [Filter -> Nat]
    /\ 1 \in DOMAIN PAGE_SIZES /\ \A i \in DOMAIN PAGE_SIZES : PAGE_SIZES[i] \in Nat \ {0}
BY AuditAssumption DEF A!AuditAssumption

\* The fields of a query of the log.
LEMMA KeyFields ==
    /\ \A k \in A!Key : k.filter \in Filter /\ k.limit \in Nat \ {0} /\ k.offset \in Nat
    /\ \A f \in Filter, i \in DOMAIN PAGE_SIZES, o \in Nat :
          A!KeyOf(f, PAGE_SIZES[i], o) \in A!Key
    /\ \A f, l, o : /\ A!KeyOf(f, l, o).filter = f /\ A!KeyOf(f, l, o).limit = l
                    /\ A!KeyOf(f, l, o).offset = o
BY AuConstants DEF A!Key, A!KeyOf

\* The query the page stands for.
LEMMA QueryFields ==
    /\ A!query.filter = auFilter /\ A!query.limit = limit /\ A!query.offset = offset
    /\ A!query \in A!Key =>
          /\ auFilter \in Filter /\ limit \in Nat \ {0} /\ offset \in Nat
          /\ \A f \in Filter, o \in Nat : A!KeyOf(f, limit, o) \in A!Key
BY AuConstants DEF A!query, A!Key, A!KeyOf

\* What the server answers to a query is a page of the log.
LEMMA AnswerData ==
    ASSUME NEW k \in A!Key, log \in [Filter -> Nat]
    PROVE  /\ AuData(A!Answer(k)) /\ A!Answer(k).key = k
           /\ A!Answer(k).total = log[k.filter]
<1>1. k.filter \in Filter /\ k.limit \in Nat \ {0} /\ k.offset \in Nat BY KeyFields
<1>2. log[k.filter] \in Nat BY <1>1
<1> DEFINE left == IF log[k.filter] > k.offset THEN log[k.filter] - k.offset ELSE 0
           n == IF left < k.limit THEN left ELSE k.limit
<1>3. /\ n \in Nat /\ n <= k.limit /\ n <= log[k.filter]
      /\ log[k.filter] > k.offset => n > 0
  BY <1>1, <1>2
<1>4. A!Answer(k) = [key |-> k, total |-> log[k.filter], count |-> n] BY DEF A!Answer
<1> HIDE DEF n
<1> QED BY <1>2, <1>3, <1>4 DEF AuData, AuPages

\* The audit page starts in the invariant.
LEMMA AuInitial == AdInit => AuInv
<1> SUFFICES ASSUME A!AuInit PROVE AuInv BY DEF AdInit
<1> USE AuConstants DEF A!AuInit
<1>1. A!query \in A!Key /\ A!query.offset = 0
  BY KeyFields DEF A!query
<1>2. A!NoData \in AuPages /\ A!NoData.total = 0 /\ A!NoData.count = 0
      /\ A!NoData.key = A!KeyOf(NoFilter, PAGE_SIZES[1], 0)
  BY DEF A!NoData, AuPages, A!Key, A!KeyOf
<1>3. AuData(rowsOf) BY <1>2, KeyFields DEF AuData
<1>4. AuTyped BY <1>1, <1>3 DEF AuTyped
<1>5. AuInside BY <1>1, <1>2, KeyFields DEF AuInside
<1>6. entry \in BOOLEAN BY Zenon
<1> QED BY <1>4, <1>5, <1>6 DEF AuInv

\* A change of filter, page size or page keeps the invariant: the new query is asked for, or
\* its page is in the cache.
LEMMA AskStep ==
    ASSUME AuInv, NEW f, NEW l, NEW o, A!KeyOf(f, l, o) \in A!Key, A!Ask(f, l, o),
           UNCHANGED <<log, pages, entry, exporting>>, auDraft' \in Filter,
           ~early' /\ ~purged' => ~early /\ ~purged /\ (o = 0 \/ log[f] > o)
    PROVE  AuInv'
<1> DEFINE k == A!KeyOf(f, l, o)
<1>1. /\ A!query' = k
      /\ asked' \in {asked, asked \cup {k}} /\ broken' \in {broken, broken \ {k}}
      /\ \/ rowsOf' = rowsOf /\ k \in asked'
         \/ rowsOf' \in pages /\ rowsOf'.key = k
  BY DEF A!Ask, A!query
<1>2. k.filter = f /\ k.offset = o BY KeyFields
<1> HIDE DEF k
<1>3. AuTyped' BY <1>1 DEF AuInv, AuTyped, AuData, k
<1>4. AuInside' BY <1>1, <1>2 DEF AuInv, AuInside
<1>5. A!query' \in asked' \cup broken' \/ rowsOf'.key = A!query' BY <1>1
<1> QED BY <1>3, <1>4, <1>5 DEF AuInv

\* Every step of the audit page keeps its invariant.
LEMMA AuPreserved ==
    ASSUME AuInv, [A!AuNext]_auditVars PROVE AuInv'
<1> USE DEF AuInv
<1>1. A!query \in A!Key BY DEF AuTyped
<1>2. CASE UNCHANGED auditVars
  BY <1>2 DEF auditVars, AuTyped, AuInside, AuData, A!query
<1>3. ASSUME NEW f \in Filter, A!DraftFilter(f) PROVE AuInv'
  BY <1>3 DEF A!DraftFilter, A!AuClick, A!auGhosts, AuTyped, AuInside, AuData, A!query
<1>4. CASE A!apply
  <2>1. auDraft \in Filter /\ A!KeyOf(auDraft, limit, 0) \in A!Key BY <1>1, QueryFields DEF AuTyped
  <2> QED BY <1>4, <2>1, AskStep DEF A!apply, A!AuClick, A!auGhosts
<1>5. CASE A!reset
  <2>1. A!KeyOf(NoFilter, limit, 0) \in A!Key BY <1>1, QueryFields, AuConstants
  <2> QED BY <1>5, <2>1, AskStep, AuConstants DEF A!reset, A!AuClick, A!auGhosts
<1>6. ASSUME NEW i \in DOMAIN PAGE_SIZES, A!SetLimit(i) PROVE AuInv'
  <2>1. auDraft \in Filter /\ A!KeyOf(auFilter, PAGE_SIZES[i], 0) \in A!Key
    BY <1>1, QueryFields, KeyFields DEF AuTyped
  <2> QED BY <1>6, <2>1, AskStep DEF A!SetLimit, A!AuClick, A!auGhosts
<1>7. CASE A!PrevPage
  <2> DEFINE o == IF offset > limit THEN offset - limit ELSE 0
  <2>1. /\ limit \in Nat \ {0} /\ offset \in Nat /\ auFilter \in Filter
        /\ o \in Nat /\ o <= offset
    BY <1>1, QueryFields
  <2>2. auDraft \in Filter /\ A!KeyOf(auFilter, limit, o) \in A!Key
    BY <1>1, <2>1, QueryFields DEF AuTyped
  <2>3. ~early /\ ~purged => o = 0 \/ log[auFilter] > o
    BY <2>1, QueryFields DEF AuInside, AuTyped
  <2>4. A!Ask(auFilter, limit, o) /\ UNCHANGED <<auDraft, log, pages, entry, exporting, early,
                                                 purged>>
    BY <1>7 DEF A!PrevPage, A!auGhosts
  <2> HIDE DEF o
  <2> QED BY <2>2, <2>3, <2>4, AskStep
<1>8. CASE A!NextPage
  <2> DEFINE o == offset + limit
  <2>1. limit \in Nat \ {0} /\ offset \in Nat /\ auFilter \in Filter /\ o \in Nat
    BY <1>1, QueryFields
  <2>2. auDraft \in Filter /\ A!KeyOf(auFilter, limit, o) \in A!Key
    BY <1>1, <2>1, QueryFields DEF AuTyped
  <2>3. /\ A!Ask(auFilter, limit, o) /\ UNCHANGED <<auDraft, log, pages, entry, exporting, purged>>
        /\ o < rowsOf.total /\ (~early' => ~early /\ rowsOf.key = A!query)
    BY <1>8 DEF A!NextPage, A!Placeholder
  <2>4. ~early' /\ ~purged' => ~early /\ ~purged /\ log[auFilter] > o
    <3>1. rowsOf.total \in Nat /\ log[auFilter] \in Nat BY <2>1 DEF AuTyped, AuData, AuPages
    <3> QED BY <2>1, <2>3, <3>1, QueryFields DEF AuInside
  <2> HIDE DEF o
  <2> QED BY <2>2, <2>3, <2>4, AskStep
<1>9. CASE A!Refresh
  BY <1>9 DEF A!Refresh, A!AuClick, A!auGhosts, AuTyped, AuInside, AuData, A!query
<1>10. ASSUME NEW k \in asked, A!Fetched(k) PROVE AuInv'
  <2>1. /\ asked' = asked \ {k} /\ broken' = broken \ {k}
        /\ pages' = {d \in pages : d.key # k} \cup {A!Answer(k)}
        /\ rowsOf' = IF k = A!query THEN A!Answer(k) ELSE rowsOf
        /\ UNCHANGED <<auFilter, auDraft, limit, offset, log, entry, exporting, early, purged>>
    BY <1>10 DEF A!Fetched, A!auGhosts
  <2>2. A!query' = A!query BY <2>1 DEF A!query
  <2>3. AuData(A!Answer(k)) /\ A!Answer(k).key = k /\ A!Answer(k).total = log[k.filter]
    BY AnswerData DEF AuTyped
  <2>4. AuTyped' BY <2>1, <2>2, <2>3 DEF AuTyped, AuData
  <2>5. AuInside'
    <3>1. log[k.filter] \in Nat BY KeyFields DEF AuTyped
    <3> QED BY <2>1, <2>2, <2>3, <3>1 DEF AuInside
  <2> QED BY <2>1, <2>2, <2>3, <2>4, <2>5
<1>11. ASSUME NEW k \in asked, A!FetchFailed(k) PROVE AuInv'
  BY <1>11 DEF A!FetchFailed, A!auGhosts, AuTyped, AuInside, AuData, A!query
<1>12. CASE A!OpenEntry
  <2>1. entry' \in BOOLEAN BY <1>12, Zenon DEF A!OpenEntry
  <2>2. UNCHANGED <<auFilter, auDraft, limit, offset, log, pages, asked, broken, rowsOf, exporting,
                    early, purged>>
    BY <1>12, Zenon DEF A!OpenEntry, A!auGhosts
  <2> QED BY <2>1, <2>2 DEF AuTyped, AuInside, AuData, A!query
<1>13. CASE A!exportCsv
  BY <1>13, <1>1, QueryFields DEF A!exportCsv, A!AuClick, A!auGhosts, AuTyped, AuInside, AuData,
                                  A!query
<1>14. CASE A!Exported
  BY <1>14 DEF A!Exported, A!auGhosts, AuTyped, AuInside, AuData, A!query
<1>15. ASSUME NEW F \in SUBSET Filter, NEW more \in BOOLEAN, A!Logged(F, more) PROVE AuInv'
  <2>1. /\ log' = [f \in Filter |-> IF f \notin F THEN log[f]
                                   ELSE IF more THEN log[f] + 1 ELSE log[f] - 1]
        /\ \A f \in F : log[f] > 0
        /\ ~purged' => ~purged /\ more
        /\ UNCHANGED <<auFilter, auDraft, limit, offset, pages, asked, broken, rowsOf, entry,
                       exporting, early>>
    BY <1>15 DEF A!Logged
  <2>2. log' \in [Filter -> Nat] /\ (~purged' => \A f \in Filter : log'[f] >= log[f])
    BY <2>1 DEF AuTyped
  <2>3. A!query' = A!query BY <2>1 DEF A!query
  <2>4. AuTyped' BY <2>1, <2>2, <2>3 DEF AuTyped, AuData
  <2>5. AuInside'
    <3>1. \A f \in Filter : log[f] \in Nat /\ log'[f] \in Nat BY <2>2 DEF AuTyped
    <3>2. \A k \in asked \cup {A!query} : k.offset \in Nat /\ k.filter \in Filter
      BY KeyFields DEF AuTyped
    <3>3. \A d \in pages \cup {rowsOf} : d.total \in Nat /\ d.key.filter \in Filter
      BY KeyFields DEF AuTyped, AuData, AuPages
    <3> QED BY <2>1, <2>2, <2>3, <3>1, <3>2, <3>3 DEF AuInside
  <2> QED BY <2>1, <2>3, <2>4, <2>5
<1> QED
  BY <1>2, <1>3, <1>4, <1>5, <1>6, <1>7, <1>8, <1>9, <1>10, <1>11, <1>12, <1>13, <1>14, <1>15
  DEF A!AuNext

\* The invariant gives the properties.
LEMMA AuPage == AuInv => PageIsTheOneAsked /\ A!AuTypeOK
<1> SUFFICES ASSUME AuInv PROVE PageIsTheOneAsked /\ A!AuTypeOK OBVIOUS
<1>1. A!query \in A!Key /\ rowsOf.total \in Nat BY DEF AuInv, AuTyped, AuData, AuPages
<1>2. PageIsTheOneAsked
  BY <1>1, QueryFields DEF PageIsTheOneAsked, A!PageIsTheOneAsked, A!Settled, AuInv, AuTyped,
                           AuInside, AuData
<1>3. A!AuTypeOK BY DEF AuInv, AuTyped, AuData, AuPages, A!AuTypeOK
<1> QED BY <1>2, <1>3

-----------------------------------------------------------------------------
(* The settings pages *)

\* A request of a settings page.
StRequest == [do: {"save", "upload", "remove"}, form: S!Value,
              logo: Extra[setting] \cup {FirstSettings[setting].extra},
              live: BOOLEAN, at: {"sent", "read"}, read: S!Value]

\* The settings pages: one live request of a kind at a time, uploads only on the system page.
StInv ==
    /\ setting \in Settings /\ stale \in BOOLEAN
    /\ stored \in S!Value /\ shown \in S!Value /\ typedIn \in S!Value
    /\ requests \subseteq StRequest
    /\ \A r \in requests : r.do \in {"upload", "remove"} => setting = "system"
    /\ \A r, q \in requests : r.live /\ q.live /\ r.do = q.do => r = q

\* What the settings pages need of their constants.
LEMMA StConstants ==
    ASSUME setting \in Settings
    PROVE  /\ setting \in {"ldap", "azure", "session", "system"}
           /\ FirstSettings[setting] \in S!Value
           /\ setting # "session" => S!Blank \in Extra[setting]
BY SettingsAssumption DEF S!SettingsAssumption, S!Value

\* The form drawn from a stored value is a value.
LEMMA FormTyped ==
    ASSUME setting \in Settings, NEW v \in S!Value
    PROVE  S!StForm(v) \in S!Value
<1>1. CASE setting = "ldap"
  <2>1. S!StForm(v) = [v EXCEPT !.extra = S!Blank] BY <1>1, Zenon DEF S!StForm, S!LdapForm
  <2> QED BY <1>1, <2>1, StConstants DEF S!Value
<1>2. CASE setting = "azure"
  <2>1. S!StForm(v) = [v EXCEPT !.extra = S!Blank] BY <1>2, Zenon DEF S!StForm, S!AzureForm
  <2> QED BY <1>2, <2>1, StConstants DEF S!Value
<1>3. CASE setting = "session"
  <2>1. S!StForm(v) = v BY <1>3, Zenon DEF S!StForm, S!SessionForm
  <2> QED BY <2>1
<1>4. CASE setting = "system"
  <2>1. S!StForm(v) = [v EXCEPT !.extra = S!Blank] BY <1>4, Zenon DEF S!StForm, S!SystemForm
  <2> QED BY <1>4, <2>1, StConstants DEF S!Value
<1> QED BY <1>1, <1>2, <1>3, <1>4, StConstants

\* A row that is written is a row, and differs from the one read only where the request is
\* about.
LEMMA RowWritten ==
    ASSUME StInv, NEW r \in requests
    PROVE  /\ S!Row(r) \in S!Value
           /\ S!Row(r).main # r.read.main => "main" \in S!About(r)
           /\ S!Row(r).extra # r.read.extra => "extra" \in S!About(r)
<1> DEFINE saved == S!Row(r)
           about == S!About(r)
<1>1. /\ r.form \in S!Value /\ r.read \in S!Value /\ r.do \in {"save", "upload", "remove"}
      /\ setting # "system" => r.do = "save"
  BY DEF StInv, StRequest
<1>2. CASE setting \in {"ldap", "azure"}
  <2>1. /\ saved = S!KeepSecret(r)
        /\ about = {"main"} \cup (IF r.form.extra = S!Blank THEN {} ELSE {"extra"})
    BY <1>2, Zenon DEF S!Row, S!About
  <2> HIDE DEF saved, about
  <2> QED BY <1>1, <2>1 DEF S!KeepSecret, S!Value, saved, about
<1>3. CASE setting = "session"
  <2>1. saved = r.form /\ about = {"main", "extra"} BY <1>3, Zenon DEF S!Row, S!About
  <2> QED BY <1>1, <2>1
<1>4. CASE setting = "system"
  <2>1. saved = S!SystemRow(r) /\ about = (IF r.do = "save" THEN {"main"} ELSE {"extra"})
    BY <1>4, Zenon DEF S!Row, S!About
  <2>2. S!Blank \in Extra[setting] BY <1>4, StConstants DEF StInv
  <2>3. CASE r.do = "save"
    <3>1. saved = [r.read EXCEPT !.main = r.form.main]
      BY <2>1, <2>3, Zenon DEF S!SystemRow, S!UpdateSystem
    <3> HIDE DEF saved, about
    <3> QED BY <1>1, <2>1, <2>3, <3>1 DEF S!Value, saved, about
  <2>4. CASE r.do = "upload"
    <3>1. saved = [r.read EXCEPT !.extra = r.form.extra]
      BY <2>1, <2>4, Zenon DEF S!SystemRow, S!UploadLogo
    <3> HIDE DEF saved, about
    <3> QED BY <1>1, <2>1, <2>4, <3>1 DEF S!Value, saved, about
  <2>5. CASE r.do = "remove"
    <3>1. saved = [r.read EXCEPT !.extra = S!Blank]
      BY <2>1, <2>5, Zenon DEF S!SystemRow, S!DeleteLogo
    <3> HIDE DEF saved, about
    <3> QED BY <1>1, <2>1, <2>2, <2>5, <3>1 DEF S!Value, saved, about
  <2> QED BY <1>1, <2>3, <2>4, <2>5
<1> QED BY <1>2, <1>3, <1>4, StConstants DEF StInv

\* The settings pages start in the invariant.
LEMMA StInitial == AdInit => StInv
<1> SUFFICES ASSUME S!StInit PROVE StInv BY DEF AdInit
<1>1. stale \in BOOLEAN BY Zenon DEF S!StInit
<1>2. setting \in Settings /\ stored = FirstSettings[setting] /\ shown = stored
      /\ typedIn = S!StForm(stored) /\ requests = {}
  BY Zenon DEF S!StInit
<1> QED BY <1>1, <1>2, StConstants, FormTyped DEF StInv

\* A request sent keeps the invariant.
LEMMA SendStep ==
    ASSUME StInv, NEW do \in {"save", "upload", "remove"}, S!StSend(do),
           do # "save" => setting = "system"
    PROVE  StInv'
<1> DEFINE r == [do |-> do, form |-> typedIn, logo |-> shown.extra, live |-> TRUE,
                 at |-> "sent", read |-> stored]
<1>1. /\ \A q \in requests : q.live => q.do # do
      /\ requests' = requests \cup {r}
      /\ UNCHANGED <<setting, stored, shown, typedIn, stale>>
  BY Zenon DEF S!StSend
<1>2. S!Value' = S!Value /\ StRequest' = StRequest
  BY <1>1 DEF S!Value, StRequest
<1>3. r \in StRequest /\ r.do = do
  <2>1. shown.extra \in Extra[setting] \cup {FirstSettings[setting].extra} BY DEF StInv, S!Value
  <2>2. TRUE \in BOOLEAN OBVIOUS
  <2> QED BY <2>1, <2>2 DEF StRequest, StInv
<1> HIDE DEF r
<1> QED BY <1>1, <1>2, <1>3 DEF StInv

\* Every step of a settings page keeps its invariant.
LEMMA StPreserved ==
    ASSUME StInv, [S!StNext]_settingVars PROVE StInv'
<1>1. CASE UNCHANGED settingVars
  BY <1>1 DEF settingVars, StInv, S!Value, StRequest
<1>2. ASSUME NEW m \in Main[setting], NEW e \in Extra[setting],
             S!StEdit([main |-> m, extra |-> e])
      PROVE  StInv'
  <2>1. [main |-> m, extra |-> e] \in S!Value BY DEF S!Value
  <2>2. typedIn' = [main |-> m, extra |-> e] /\ UNCHANGED <<setting, stored, shown, requests,
                                                            stale>>
    BY <1>2, Zenon DEF S!StEdit
  <2> QED BY <2>1, <2>2 DEF StInv, S!Value, StRequest
<1>3. CASE S!StSave BY <1>3, SendStep DEF S!StSave
<1>4. CASE S!Upload BY <1>4, SendStep DEF S!Upload
<1>5. CASE S!RemoveLogo BY <1>5, SendStep DEF S!RemoveLogo
<1>6. ASSUME NEW r \in requests, S!StRead(r) PROVE StInv'
  <2> DEFINE q == [r EXCEPT !.at = "read", !.read = stored]
  <2>1. requests' = (requests \ {r}) \cup {q} /\ UNCHANGED <<setting, stored, shown, typedIn,
                                                             stale>>
    BY <1>6, Zenon DEF S!StRead
  <2>2. S!Value' = S!Value /\ StRequest' = StRequest BY <2>1 DEF S!Value, StRequest
  <2>3. q \in StRequest /\ q.do = r.do /\ (q.live <=> r.live) BY DEF StInv, StRequest
  <2> HIDE DEF q
  <2> QED BY <2>1, <2>2, <2>3 DEF StInv
<1>7. ASSUME NEW r \in requests, S!StRefuse(r) PROVE StInv'
  <2>1. requests' = requests \ {r} /\ UNCHANGED <<setting, stored, shown, typedIn, stale>>
    BY <1>7, Zenon DEF S!StRefuse
  <2>2. S!Value' = S!Value /\ StRequest' = StRequest BY <2>1 DEF S!Value, StRequest
  <2> QED BY <2>1, <2>2 DEF StInv
<1>8. ASSUME NEW r \in requests, NEW a \in BOOLEAN, S!StWrite(r, a) PROVE StInv'
  <2>1. /\ stored' = S!Row(r) /\ requests' = requests \ {r} /\ stale' \in {TRUE, stale}
        /\ UNCHANGED <<setting, shown, typedIn>>
    BY <1>8, Zenon DEF S!StWrite
  <2>2. S!Value' = S!Value /\ StRequest' = StRequest BY <2>1 DEF S!Value, StRequest
  <2>3. stale' \in BOOLEAN BY <2>1, Zenon DEF StInv
  <2> QED BY <2>1, <2>2, <2>3, RowWritten DEF StInv
<1>9. CASE S!StRefetch
  <2>1. /\ shown' = stored /\ typedIn' = S!StForm(stored)
        /\ requests' = {[r EXCEPT !.live = FALSE] : r \in requests}
        /\ UNCHANGED <<setting, stored>> /\ stale' \in BOOLEAN
    BY <1>9, Zenon DEF S!StRefetch
  <2>2. S!Value' = S!Value /\ StRequest' = StRequest BY <2>1 DEF S!Value, StRequest
  <2>3. \A r \in requests' : r \in StRequest /\ ~r.live /\ \E q \in requests : r.do = q.do
    BY <2>1 DEF StRequest, StInv
  <2> QED BY <2>1, <2>2, <2>3, FormTyped DEF StInv
<1>10. ASSUME NEW v \in S!Value, S!StOther(v) PROVE StInv'
  <2>1. stored' = v /\ UNCHANGED <<setting, shown, typedIn, requests, stale>>
    BY <1>10, Zenon DEF S!StOther
  <2>2. S!Value' = S!Value /\ StRequest' = StRequest BY <2>1 DEF S!Value, StRequest
  <2> QED BY <2>1, <2>2 DEF StInv
<1> QED
  BY <1>1, <1>2, <1>3, <1>4, <1>5, <1>6, <1>7, <1>8, <1>9, <1>10 DEF S!StNext

\* What a step of the settings pages may change of the row: the body of UntouchedStays.
Untouched ==
    \A part \in {"main", "extra"} :
        stored'[part] # stored[part] => part \in touched' \/ touched' = {}

\* Every step changes only the fields its request was about, or had read otherwise.
LEMMA StChanges ==
    ASSUME StInv, [S!StNext]_settingVars PROVE Untouched
<1>1. CASE UNCHANGED stored BY <1>1 DEF Untouched
<1>2. ASSUME NEW r \in requests, NEW a \in BOOLEAN, S!StWrite(r, a) PROVE Untouched
  <2>1. /\ stored' = S!Row(r)
        /\ touched' = IF r.read = stored THEN S!About(r) ELSE {}
    BY <1>2, Zenon DEF S!StWrite
  <2>2. CASE r.read = stored
    <3>1. /\ stored'.main # stored.main => "main" \in touched'
          /\ stored'.extra # stored.extra => "extra" \in touched'
      BY <2>1, <2>2, RowWritten
    <3> QED BY <3>1 DEF Untouched
  <2> QED BY <2>1, <2>2 DEF Untouched
<1>3. ASSUME NEW v \in S!Value, S!StOther(v) PROVE Untouched
  <2>1. touched' = {"main", "extra"} BY <1>3, Zenon DEF S!StOther
  <2> QED BY <2>1 DEF Untouched
<1>4. [S!StNext]_settingVars => \/ UNCHANGED stored
                                \/ \E r \in requests, a \in BOOLEAN : S!StWrite(r, a)
                                \/ \E v \in S!Value : S!StOther(v)
  BY Zenon DEF S!StNext, settingVars, S!StEdit, S!StSave, S!Upload, S!RemoveLogo, S!StSend,
               S!StRead,
     S!StRefuse, S!StRefetch
<1> QED BY <1>1, <1>2, <1>3, <1>4

-----------------------------------------------------------------------------
(* The editor drawers *)

\* The requests a drawer sends, and the record of a save.
EdDos == {"create", "update", "delete", "own", "give", "take"}
EdRequest == [do: EdDos, group: Group \cup {None}, set: SUBSET E!Link]
EdWrite == [of: {"none", "save", "saved", "deleted"}, form: E!Form, calls: SUBSET EdRequest,
            sure: BOOLEAN]

\* What the requests left of a save still write: the new row, its name, its own links, the list
\* of group g.
Creating == \E c \in write.calls : c.do = "create"
Naming == \E c \in write.calls : c.do \in {"create", "update"}
Linking == \E c \in write.calls : c.do = "own"
Listing(g) == \E c \in write.calls : c.do \in {"give", "take"} /\ c.group = g

\* The types of the drawers' variables.
EdTyped ==
    /\ E!TypeOK /\ tried \subseteq E!Form /\ before \in E!Lists /\ write \in EdWrite
    /\ kind # "role" => form.groups = {} /\ write.form.groups = {}

\* The requests left are those of the form being saved.
EdCalls ==
    /\ write.of # "save" => write.calls = {}
    /\ \A c \in write.calls :
          /\ c.do = "own" => c.set = write.form.own
          /\ c.do \in {"give", "take"} =>
                /\ c.group \in Group /\ c.set \subseteq Role
                /\ c.do = "give" <=> This \in c.set
                /\ c.do = "give" <=> c.group \in write.form.groups
          /\ c.do = "delete" => write.calls = {c} /\ ~write.sure
          /\ \A d \in write.calls : {c.do, d.do} \subseteq {"create", "update"} => c = d
    /\ Naming => write.form.name # E!Blank
    /\ write.of = "saved" => row # E!Blank
    /\ asking = "save" => /\ drawer = "edit" /\ cachedOwn.loaded /\ ~Creating
                          /\ form.name # E!Blank

\* The forms whose requests the server may have received.
EdTries == tried \cup (IF write.of = "none" THEN {} ELSE {write.form})

\* A quiet drawer: the server has what the drawer started from, but for what the forms it
\* tried have changed.
EdOpen ==
    quiet /\ drawer # "closed" =>
        /\ \A g \in Group : /\ lists[g] \ {This} = before[g] \ {This}
                            /\ cachedLists[g] \ {This} = before[g] \ {This}
        /\ \A c \in write.calls :
              c.do \in {"give", "take"} => c.set \ {This} = before[c.group] \ {This}
        /\ drawer = "edit" => ~Creating
        /\ drawer = "edit" /\ row # E!Blank =>
             /\ cachedOwn.loaded => own = cachedOwn.own \/ \E f \in EdTries : own = f.own
             /\ kind = "role" =>
                  \A g \in Group : \/ This \in lists[g] <=> g \in snapshot.groups
                                   \/ \E f \in EdTries : This \in lists[g] <=> g \in f.groups

\* A sure save: what the requests left will not write is as its form says.
EdSure ==
    write.sure =>
        /\ \A g \in Group : lists[g] \ {This} = before[g] \ {This}
        /\ \A c \in write.calls :
              c.do \in {"give", "take"} => c.set \ {This} = before[c.group] \ {This}
        /\ row # E!Blank \/ Creating =>
             /\ Naming \/ row = write.form.name
             /\ Linking \/ write.form.own = IF Creating THEN {} ELSE own
             /\ kind = "role" =>
                  \A g \in Group : \/ Listing(g)
                                   \/ g \in write.form.groups <=> ~Creating /\ This \in lists[g]

\* SaveAsIntended says something of the end of a save, so its invariant says what is true at
\* every request on the way (EdSure), and of the drawer before the save was sent (EdOpen).
EdInv == EdTyped /\ EdCalls /\ EdOpen /\ EdSure

\* What the drawers need of their constants.
LEMMA EdConstants ==
    /\ This \in Role /\ Group \subseteq E!Link /\ Role \subseteq E!Link /\ Offered \subseteq E!Link
    /\ Elsewhere \subseteq E!Link /\ \A t \in Templates : t \subseteq E!Link
    /\ FirstOwn \in [Drawers -> SUBSET E!Link] /\ FirstLists \in [Group -> SUBSET Role]
    /\ \A k \in Drawers : k \in {"user", "group", "role", "api"}
BY EditorsAssumption DEF E!EditorsAssumption, E!Link, E!Lists

\* The empty form, and the state between two saves.
LEMMA EmptyFields ==
    /\ E!EmptyForm \in E!Form /\ E!EmptyForm.own = {} /\ E!EmptyForm.groups = {}
    /\ E!EmptyForm.name = E!Blank
    /\ E!NoWrite \in EdWrite /\ E!NoWrite.of = "none" /\ E!NoWrite.calls = {}
    /\ E!NoWrite.form = E!EmptyForm /\ ~E!NoWrite.sure
<1>1. E!EmptyForm \in E!Form BY DEF E!EmptyForm, E!Form, E!Name
<1>2. FALSE \in BOOLEAN OBVIOUS
<1>3. E!NoWrite \in EdWrite BY <1>1, <1>2 DEF E!NoWrite, EdWrite
<1> QED BY <1>1, <1>3 DEF E!NoWrite, E!EmptyForm

\* What a form starts from.
LEMMA StartFields ==
    ASSUME kind \in Drawers, NEW snap \in [name: E!Name, groups: SUBSET Group],
           NEW O \in SUBSET E!Link
    PROVE  /\ E!Start(snap, O) \in E!Form
           /\ E!Start(snap, O).name = snap.name /\ E!Start(snap, O).own = O
           /\ E!Start(snap, O).groups = IF kind = "role" THEN snap.groups ELSE {}
<1> DEFINE f == [name |-> snap.name, own |-> O,
                 groups |-> IF kind = "role" THEN snap.groups ELSE {}]
<1>1. E!Start(snap, O) = f
  <2>1. CASE kind = "user" BY <2>1, Zenon DEF E!Start, E!UserStart
  <2>2. CASE kind = "group" BY <2>2, Zenon DEF E!Start, E!GroupStart
  <2>3. CASE kind = "role" BY <2>3, Zenon DEF E!Start, E!RoleStart
  <2>4. CASE kind = "api" BY <2>4, Zenon DEF E!Start, E!ApiStart
  <2> QED BY <2>1, <2>2, <2>3, <2>4, EdConstants
<1>2. f \in E!Form BY DEF E!Form
<1> QED BY <1>1, <1>2

\* The groups that hold the role.
LEMMA HavingFields ==
    ASSUME NEW ls \in E!Lists
    PROVE  /\ E!Having(ls) \subseteq Group
           /\ kind = "role" => \A g \in Group : g \in E!Having(ls) <=> This \in ls[g]
           /\ kind # "role" => E!Having(ls) = {}
BY DEF E!Having, E!Lists

\* The requests of a save are those its form needs.
LEMMA CallsFields ==
    ASSUME EdTyped, drawer \in {"new", "edit"}
    PROVE  LET C == E!Calls(form) IN
           /\ C \subseteq EdRequest
           /\ \E c \in C : c.do = IF drawer = "new" THEN "create" ELSE "update"
           /\ \A c \in C :
                /\ c.do # "delete" /\ (c.do = "create" => drawer = "new")
                /\ \A d \in C : {c.do, d.do} \subseteq {"create", "update"} => c = d
                /\ c.do = "own" => c.set = form.own
                /\ c.do \in {"give", "take"} =>
                      /\ c.group \in Group /\ c.set \subseteq Role
                      /\ c.do = "give" <=> This \in c.set
                      /\ c.do = "give" <=> c.group \in form.groups
                      /\ c.set \ {This} = cachedLists[c.group] \ {This}
           /\ \/ \E c \in C : c.do = "own"
              \/ form.own = IF drawer = "new" THEN {} ELSE cachedOwn.own
           /\ kind = "role" =>
                \A g \in Group :
                   \/ \E c \in C : c.do \in {"give", "take"} /\ c.group = g
                   \/ g \in form.groups <=> drawer = "edit" /\ g \in snapshot.groups
<1> DEFINE C == E!Calls(form)
           init == E!initial
           isNew == drawer = "new"
           first == E!Request(IF isNew THEN "create" ELSE "update", None, {})
           link == E!Linking(form.own)
           linked == IF drawer = "new" THEN {} ELSE cachedOwn.own
           had == IF drawer = "edit" /\ kind = "role" THEN snapshot.groups ELSE {}
           gives == {E!Request("give", g, cachedLists[g] \cup {This}) : g \in form.groups \ init.groups}
           takes == {E!Request("take", g, cachedLists[g] \ {This}) : g \in init.groups \ form.groups}
<1>1. /\ kind \in Drawers /\ form \in E!Form /\ cachedOwn.own \in SUBSET E!Link
      /\ snapshot \in [name: E!Name, groups: SUBSET Group] /\ cachedLists \in E!Lists
  BY DEF EdTyped, E!TypeOK
<1>2. form.own \subseteq E!Link /\ form.groups \subseteq Group BY <1>1 DEF E!Form
<1>3. init.own = linked /\ init.groups = had /\ had \subseteq Group
  <2>1. CASE drawer = "new"
    <3>1. init = E!EmptyForm BY <2>1, Zenon DEF E!initial
    <3> QED BY <2>1, <3>1, EmptyFields
  <2>2. CASE drawer = "edit"
    <3>1. init = E!Start(snapshot, cachedOwn.own) BY <2>2 DEF E!initial
    <3> HIDE DEF init
    <3> QED BY <1>1, <2>2, <3>1, StartFields
  <2> QED BY <2>1, <2>2
<1>4. /\ first.do = (IF isNew THEN "create" ELSE "update") /\ first \in EdRequest
      /\ link.do = "own" /\ link.set = form.own /\ link \in EdRequest
  BY <1>2 DEF E!Request, E!Linking, EdRequest, EdDos
<1>5. \E some \in SUBSET {link} :
         /\ C = {first} \cup some \cup (IF kind = "role" THEN gives \cup takes ELSE {})
         /\ some = {} => form.own = linked
  <2>1. CASE kind = "user"
    <3>1. C = {first} \cup E!UserCalls(form, init, isNew) BY <2>1, Zenon DEF E!Calls
    <3> HIDE DEF C, link, init, first, linked
    <3>2. E!UserCalls(form, init, isNew) \in SUBSET {link}
          /\ (E!UserCalls(form, init, isNew) = {} => form.own = linked)
      BY <1>3 DEF E!UserCalls, linked, link
    <3> QED BY <2>1, <3>1, <3>2
  <2>2. CASE kind = "group"
    <3>1. C = {first} \cup E!GroupCalls(form, init) BY <2>2, Zenon DEF E!Calls
    <3> HIDE DEF C, link, init, first, linked
    <3>2. E!GroupCalls(form, init) \in SUBSET {link}
          /\ (E!GroupCalls(form, init) = {} => form.own = linked)
      BY <1>3 DEF E!GroupCalls, link
    <3> QED BY <2>2, <3>1, <3>2
  <2>3. CASE kind = "api"
    <3>1. C = {first} \cup E!ApiCalls(form, init) BY <2>3, Zenon DEF E!Calls
    <3> HIDE DEF C, link, init, first, linked
    <3>2. E!ApiCalls(form, init) \in SUBSET {link}
          /\ (E!ApiCalls(form, init) = {} => form.own = linked)
      BY <1>3 DEF E!ApiCalls, link
    <3> QED BY <2>3, <3>1, <3>2
  <2>4. CASE kind = "role"
    <3> DEFINE some == IF isNew \/ form.own # init.own THEN {link} ELSE {}
    <3>1. C = {first} \cup E!RoleCalls(form, init, isNew) BY <2>4, Zenon DEF E!Calls
    <3>2. E!RoleCalls(form, init, isNew) = some \cup gives \cup takes BY Zenon DEF E!RoleCalls
    <3>3. some \in SUBSET {link} /\ (some = {} => form.own = linked) BY <1>3
    <3> HIDE DEF C, link, init, first, linked, some, gives, takes
    <3> QED BY <2>4, <3>1, <3>2, <3>3
  <2> QED BY <1>1, <2>1, <2>2, <2>3, <2>4, EdConstants
<1>6. \A c \in gives \cup takes :
         /\ c \in EdRequest /\ c.do \in {"give", "take"} /\ c.group \in Group /\ c.set \subseteq Role
         /\ c.do = "give" <=> This \in c.set
         /\ c.do = "give" <=> c.group \in form.groups
         /\ c.set \ {This} = cachedLists[c.group] \ {This}
  BY <1>1, <1>2, <1>3, EdConstants DEF E!Request, EdRequest, EdDos, E!Lists
<1>7. \A g \in Group : \/ \E c \in gives \cup takes : c.group = g
                       \/ g \in form.groups <=> g \in init.groups
  <2> SUFFICES ASSUME NEW g \in Group, ~(g \in form.groups <=> g \in init.groups)
               PROVE  \E c \in gives \cup takes : c.group = g
    OBVIOUS
  <2>1. CASE g \in form.groups \ init.groups
    <3> DEFINE c == E!Request("give", g, cachedLists[g] \cup {This})
    <3>1. c \in gives BY <2>1
    <3>2. c.group = g BY DEF E!Request
    <3> QED BY <3>1, <3>2
  <2>2. CASE g \in init.groups \ form.groups
    <3> DEFINE c == E!Request("take", g, cachedLists[g] \ {This})
    <3>1. c \in takes BY <2>2
    <3>2. c.group = g BY DEF E!Request
    <3> QED BY <3>1, <3>2
  <2> QED BY <2>1, <2>2
<1> HIDE DEF C, link, init, first, linked, gives, takes
<1>8. PICK some \in SUBSET {link} :
         /\ C = {first} \cup some \cup (IF kind = "role" THEN gives \cup takes ELSE {})
         /\ some = {} => form.own = linked
  BY <1>5
<1>9. \A c \in C : c = first \/ c = link \/ c \in gives \cup takes BY <1>8
<1>10. \A c \in C :
                /\ c.do # "delete" /\ (c.do = "create" => drawer = "new")
                /\ \A d \in C : {c.do, d.do} \subseteq {"create", "update"} => c = d
                /\ c.do = "own" => c.set = form.own
                /\ c.do \in {"give", "take"} =>
                      /\ c.group \in Group /\ c.set \subseteq Role
                      /\ c.do = "give" <=> This \in c.set
                      /\ c.do = "give" <=> c.group \in form.groups
                      /\ c.set \ {This} = cachedLists[c.group] \ {This}
  BY <1>4, <1>6, <1>9
<1>11. C \subseteq EdRequest /\ \E c \in C : c.do = IF drawer = "new" THEN "create" ELSE "update"
  BY <1>4, <1>6, <1>8, <1>9
<1>12. (\E c \in C : c.do = "own") \/ form.own = IF drawer = "new" THEN {} ELSE cachedOwn.own
  BY <1>4, <1>8 DEF linked
<1>13. ASSUME kind = "role", NEW g \in Group
       PROVE  \/ \E c \in C : c.do \in {"give", "take"} /\ c.group = g
              \/ g \in form.groups <=> drawer = "edit" /\ g \in snapshot.groups
  BY <1>3, <1>6, <1>7, <1>8, <1>13
<1> QED BY <1>10, <1>11, <1>12, <1>13 DEF C

\* The drawers start in the invariant.
LEMMA EdInitial == AdInit => EdInv
<1> SUFFICES ASSUME E!EdInit PROVE EdInv BY DEF AdInit
<1>1. /\ kind \in Drawers /\ row \in {E!Blank, "first"}
      /\ own = (IF row = E!Blank THEN {} ELSE FirstOwn[kind])
      /\ lists = [g \in Group |-> IF row = E!Blank THEN FirstLists[g] \ {This} ELSE FirstLists[g]]
      /\ cachedOwn = E!Unloaded /\ cachedRow = row /\ cachedLists = lists /\ due = {}
      /\ drawer = "closed" /\ snapshot = [name |-> E!Blank, groups |-> {}]
      /\ form = E!EmptyForm /\ asking = "none" /\ copying \in BOOLEAN
      /\ write = E!NoWrite /\ tried = {} /\ before = lists
  BY Zenon DEF E!EdInit
<1>2. lists \in E!Lists /\ own \subseteq E!Link BY <1>1, EdConstants DEF E!Lists
<1>3. cachedOwn \in [loaded: BOOLEAN, own: SUBSET E!Link]
  <2>1. FALSE \in BOOLEAN OBVIOUS
  <2> QED BY <1>1, <2>1 DEF E!Unloaded
<1>4. EdTyped BY <1>1, <1>2, <1>3, EmptyFields DEF EdTyped, E!TypeOK, E!Name, EdWrite
<1>5. EdCalls BY <1>1, EmptyFields DEF EdCalls, Naming
<1> QED BY <1>1, <1>4, <1>5, EmptyFields DEF EdInv, EdOpen, EdSure

\* Typing into the form keeps the invariant.
LEMMA FormChanges ==
    ASSUME EdInv, form' \in E!Form, kind # "role" => form'.groups = {},
           asking = "save" => form'.name = form.name, copying' \in BOOLEAN,
           UNCHANGED <<kind, row, own, lists, cachedOwn, cachedRow, cachedLists, due, drawer,
                       snapshot, asking, write, tried, quiet, before>>
    PROVE  EdInv'
<1>1. EdTyped' BY DEF EdInv, EdTyped, E!TypeOK
<1>2. EdCalls' BY DEF EdInv, EdCalls, Naming, Creating
<1>3. EdOpen' BY DEF EdInv, EdOpen, EdTries, Creating
<1>4. EdSure' BY DEF EdInv, EdSure, Creating, Naming, Linking, Listing
<1> QED BY <1>1, <1>2, <1>3, <1>4 DEF EdInv

\* What typing into one field of the form leaves of the others.
LEMMA FormEdited ==
    ASSUME NEW f \in E!Form
    PROVE  /\ \A n \in E!Name : LET g == [f EXCEPT !.name = n]
                                IN  g \in E!Form /\ g.groups = f.groups
           /\ \A o \in SUBSET E!Link : LET g == [f EXCEPT !.own = o]
                                       IN  g \in E!Form /\ g.groups = f.groups /\ g.name = f.name
           /\ \A o \in SUBSET Group : LET g == [f EXCEPT !.groups = o]
                                      IN  g \in E!Form /\ g.name = f.name
           /\ f.own \subseteq E!Link /\ f.groups \subseteq Group
BY DEF E!Form

\* A save that starts on a quiet drawer is sure of what its requests will leave.
LEMMA SaveStarts ==
    ASSUME EdInv, drawer \in {"new", "edit"}, drawer = "edit" => cachedOwn.loaded,
           form.name # E!Blank, write = E!NoWrite, E!StartSave, asking' = asking,
           asking = "save" => drawer = "edit",
           UNCHANGED <<kind, row, own, lists, cachedOwn, cachedRow, cachedLists, due, drawer,
                       snapshot, form, copying, tried, quiet, before>>
    PROVE  EdInv'
<1> DEFINE C == E!Calls(form)
           sure == quiet /\ tried \subseteq {form}
<1>1. EdTyped /\ EdCalls /\ EdOpen /\ form \in E!Form BY DEF EdInv, EdTyped, E!TypeOK
<1>2. write' = [of |-> "save", form |-> form, calls |-> C, sure |-> sure]
  BY Zenon DEF E!StartSave
<1>3. PICK b \in BOOLEAN : b = sure BY Zenon
<1>4. write' = [of |-> "save", form |-> form, calls |-> C, sure |-> b] BY <1>2, <1>3, Zenon
<1>5. C \subseteq EdRequest BY <1>1, CallsFields
<1>6. /\ write'.of = "save" /\ write'.form = form /\ write'.calls = C
      /\ write'.sure = b /\ (b => quiet /\ tried \subseteq {form})
  BY <1>3, <1>4
<1>7. write' \in EdWrite BY <1>1, <1>4, <1>5 DEF EdWrite
<1>8. EdTyped' BY <1>6, <1>7, <1>1, CallsFields DEF EdTyped, E!TypeOK
<1>9. EdTries' = tried \cup {form} /\ EdTries = tried
  BY <1>6, EmptyFields DEF EdTries
<1> HIDE DEF C, sure
<1>10. /\ \E c \in C : c.do = IF drawer = "new" THEN "create" ELSE "update"
       /\ \A c \in C :
             /\ c.do # "delete" /\ (c.do = "create" => drawer = "new")
             /\ \A d \in C : {c.do, d.do} \subseteq {"create", "update"} => c = d
             /\ c.do = "own" => c.set = form.own
             /\ c.do \in {"give", "take"} =>
                   /\ c.group \in Group /\ c.set \subseteq Role
                   /\ c.do = "give" <=> This \in c.set
                   /\ c.do = "give" <=> c.group \in form.groups
                   /\ c.set \ {This} = cachedLists[c.group] \ {This}
  BY <1>1, CallsFields DEF C
<1>11. /\ \/ \E c \in C : c.do = "own"
          \/ form.own = IF drawer = "new" THEN {} ELSE cachedOwn.own
       /\ kind = "role" =>
                 \A g \in Group :
                    \/ \E c \in C : c.do \in {"give", "take"} /\ c.group = g
                    \/ g \in form.groups <=> drawer = "edit" /\ g \in snapshot.groups
  BY <1>1, CallsFields DEF C
<1>12. EdCalls' BY <1>1, <1>6, <1>10 DEF EdCalls, Naming, Creating
<1>13. Creating' <=> drawer = "new" BY <1>6, <1>10 DEF Creating
<1>14. EdOpen'
  <2>1. \A c \in C : quiet /\ c.do \in {"give", "take"} => c.set \ {This} = before[c.group] \ {This}
    BY <1>1, <1>10 DEF EdOpen
  <2> QED BY <1>1, <1>6, <1>9, <1>13, <2>1 DEF EdOpen
<1>15. EdSure'
  <2> SUFFICES ASSUME b PROVE EdSure' BY <1>6 DEF EdSure
  <2>1. /\ quiet /\ tried \subseteq {form} BY <1>6
  <2>2. Naming' BY <1>6, <1>10 DEF Naming
  <2>3. drawer = "edit" /\ row # E!Blank => Linking' \/ form.own = own
    BY <1>1, <1>6, <1>9, <1>11, <2>1 DEF EdOpen, Linking
  <2>4. drawer = "new" => Linking' \/ form.own = {}
    BY <1>6, <1>11 DEF Linking
  <2>5. ASSUME kind = "role", NEW g \in Group, ~Listing(g)'
        PROVE  /\ drawer = "edit" /\ row # E!Blank => (g \in form.groups <=> This \in lists[g])
               /\ drawer = "new" => g \notin form.groups
    <3>1. g \in form.groups <=> drawer = "edit" /\ g \in snapshot.groups
      BY <1>6, <1>11, <2>5 DEF Listing
    <3> QED BY <1>1, <1>9, <2>1, <2>5, <3>1 DEF EdOpen
  <2> QED BY <1>1, <1>6, <1>10, <1>13, <2>1, <2>2, <2>3, <2>4, <2>5 DEF EdSure, EdOpen
<1> QED BY <1>8, <1>12, <1>14, <1>15 DEF EdInv

\* What the server does with a request, by its kind.
LEMMA AppliedFields ==
    ASSUME EdInv, NEW c \in write.calls, NEW f, E!Applied(c, f)
    PROVE  /\ c.do \in {"create", "update"} => row' = f.name
           /\ c.do = "delete" => row' = E!Blank
           /\ c.do \in {"own", "give", "take"} => row' = row
           /\ c.do \in {"create", "delete"} => own' = {}
           /\ c.do = "own" => own' = c.set
           /\ c.do \in {"update", "give", "take"} => own' = own
           /\ c.do \in {"give", "take"} => lists' = [lists EXCEPT ![c.group] = c.set]
           /\ c.do \in {"create", "delete"} => lists' = [g \in Group |-> lists[g] \ {This}]
           /\ c.do \in {"update", "own"} => lists' = lists
           /\ cachedOwn' = IF c.do = "create" THEN E!Unloaded ELSE cachedOwn
           /\ c.do \in EdDos
<1>1. c.do \in EdDos BY DEF EdInv, EdTyped, EdWrite, EdRequest
<1>2. cachedOwn' = IF c.do = "create" THEN E!Unloaded ELSE cachedOwn BY Zenon DEF E!Applied
<1>3. CASE c.do = "create"
  <2>1. row' = f.name /\ own' = {} /\ lists' = [g \in Group |-> lists[g] \ {This}]
    BY <1>3, Zenon DEF E!Applied
  <2> QED BY <1>1, <1>2, <1>3, <2>1
<1>4. CASE c.do = "update"
  <2>1. row' = f.name /\ own' = own /\ lists' = lists BY <1>4, Zenon DEF E!Applied
  <2> QED BY <1>1, <1>2, <1>4, <2>1
<1>5. CASE c.do = "delete"
  <2>1. row' = E!Blank /\ own' = {} /\ lists' = [g \in Group |-> lists[g] \ {This}]
    BY <1>5, Zenon DEF E!Applied
  <2> QED BY <1>1, <1>2, <1>5, <2>1
<1>6. CASE c.do = "own"
  <2>1. row' = row /\ own' = c.set /\ lists' = lists BY <1>6, Zenon DEF E!Applied
  <2> QED BY <1>1, <1>2, <1>6, <2>1
<1>7. CASE c.do \in {"give", "take"}
  <2>1. row' = row /\ own' = own /\ lists' = [lists EXCEPT ![c.group] = c.set]
    BY <1>7, Zenon DEF E!Applied
  <2> QED BY <1>1, <1>2, <1>7, <2>1
<1> QED BY <1>1, <1>3, <1>4, <1>5, <1>6, <1>7 DEF EdDos

\* The links are sent after the row (Stage).
LEMMA UpcomingFields ==
    ASSUME NEW c \in E!Upcoming
    PROVE  c \in write.calls /\ (c.do \in {"own", "give", "take"} => ~Naming)
BY DEF E!Upcoming, E!Stage, Naming

\* The cached links, before and after they are read.
LEMMA UnloadedTyped ==
    /\ E!Unloaded \in [loaded: BOOLEAN, own: SUBSET E!Link] /\ ~E!Unloaded.loaded
    /\ \A o \in SUBSET E!Link : /\ E!Loaded(o) \in [loaded: BOOLEAN, own: SUBSET E!Link]
                                /\ E!Loaded(o).loaded /\ E!Loaded(o).own = o
<1>1. FALSE \in BOOLEAN /\ TRUE \in BOOLEAN OBVIOUS
<1> QED BY <1>1 DEF E!Unloaded, E!Loaded

\* A request is applied, whether its answer comes or not: types, and what a quiet drawer
\* knows.
LEMMA AppliedOpen ==
    ASSUME EdInv, NEW c \in E!Upcoming, write.of = "save", E!Accepts(c, write.form),
           E!Applied(c, write.form), write' \in EdWrite, write'.calls \subseteq write.calls,
           EdTries' = tried \cup {write.form},
           UNCHANGED <<kind, cachedRow, cachedLists, drawer, snapshot, form, copying, asking,
                       quiet, before>>
    PROVE  /\ row' \in E!Name /\ own' \subseteq E!Link /\ lists' \in E!Lists
           /\ cachedOwn' \in [loaded: BOOLEAN, own: SUBSET E!Link]
           /\ asking = "save" => cachedOwn' = cachedOwn
           /\ EdOpen'
<1>1. /\ c \in write.calls /\ c \in EdRequest /\ write.form \in E!Form
      /\ lists \in E!Lists /\ own \subseteq E!Link /\ row \in E!Name
      /\ cachedOwn \in [loaded: BOOLEAN, own: SUBSET E!Link]
  BY UpcomingFields DEF EdInv, EdTyped, EdWrite, E!TypeOK
<1>2. c.do \in EdDos /\ c.set \subseteq E!Link /\ write.form.name \in E!Name
  BY <1>1 DEF EdRequest, E!Form
<1>3. c.do \in {"give", "take"} => c.group \in Group /\ c.set \subseteq Role
  BY <1>1 DEF EdInv, EdCalls
<1>4. row' \in E!Name BY <1>1, <1>2, AppliedFields DEF EdDos, E!Name
<1>5. own' \subseteq E!Link BY <1>1, <1>2, AppliedFields DEF EdDos
<1>6. lists' \in E!Lists BY <1>1, <1>2, <1>3, AppliedFields DEF EdDos, E!Lists
<1>7. cachedOwn' \in [loaded: BOOLEAN, own: SUBSET E!Link]
  BY <1>1, AppliedFields, UnloadedTyped
<1>8. asking = "save" => cachedOwn' = cachedOwn
  BY <1>1, AppliedFields DEF EdInv, EdCalls, Creating
<1>9. EdTries \subseteq EdTries' /\ write.form \in EdTries' BY DEF EdTries
<1>10. ASSUME quiet, drawer # "closed" PROVE EdOpen'
  <2>1. \A g \in Group : lists'[g] \ {This} = before[g] \ {This}
    BY <1>1, <1>2, <1>3, <1>10, AppliedFields DEF EdDos, E!Lists, EdInv, EdOpen
  <2>2. drawer = "edit" => ~Creating' /\ c.do # "create"
    BY <1>1, <1>10 DEF EdInv, EdOpen, Creating
  <2>3. ASSUME drawer = "edit", row' # E!Blank, cachedOwn'.loaded
        PROVE  own' = cachedOwn'.own \/ \E f \in EdTries' : own' = f.own
    <3>1. c.do \in {"update", "own", "give", "take"} /\ cachedOwn' = cachedOwn
      BY <1>1, <1>2, <2>2, <2>3, AppliedFields DEF EdDos
    <3>2. row # E!Blank BY <3>1 DEF E!Accepts
    <3>3. CASE c.do = "own"
      <4>1. own' = write.form.own BY <1>1, <3>3, AppliedFields DEF EdInv, EdCalls
      <4> QED BY <1>9, <4>1
    <3>4. CASE c.do # "own"
      <4>1. own' = own BY <1>1, <3>1, <3>4, AppliedFields
      <4> QED BY <1>9, <1>10, <2>3, <3>1, <3>2, <4>1 DEF EdInv, EdOpen
    <3> QED BY <3>3, <3>4
  <2>4. ASSUME drawer = "edit", row' # E!Blank, kind = "role", NEW g \in Group
        PROVE  \/ This \in lists'[g] <=> g \in snapshot.groups
               \/ \E f \in EdTries' : This \in lists'[g] <=> g \in f.groups
    <3>1. c.do \in {"update", "own", "give", "take"}
      BY <1>1, <1>2, <2>2, <2>4, AppliedFields DEF EdDos
    <3>2. row # E!Blank BY <3>1 DEF E!Accepts
    <3>3. CASE c.do \in {"give", "take"} /\ c.group = g
      <4>1. This \in lists'[g] <=> g \in write.form.groups
        BY <1>1, <3>3, AppliedFields DEF EdInv, EdCalls, E!Lists
      <4> QED BY <1>9, <4>1
    <3>4. CASE ~(c.do \in {"give", "take"} /\ c.group = g)
      <4>1. lists'[g] = lists[g] BY <1>1, <3>1, <3>4, AppliedFields DEF E!Lists
      <4> QED BY <1>9, <1>10, <2>4, <3>2, <4>1 DEF EdInv, EdOpen
    <3> QED BY <3>3, <3>4
  <2> QED BY <1>10, <2>1, <2>2, <2>3, <2>4 DEF EdInv, EdOpen
<1> QED BY <1>4, <1>5, <1>6, <1>7, <1>8, <1>10 DEF EdOpen

\* A request answered well keeps the invariant.
LEMMA CallSucceeds ==
    ASSUME EdInv, NEW c \in E!Upcoming, E!CallDone(c) PROVE EdInv'
<1>1. /\ write.of = "save" /\ E!Accepts(c, write.form) /\ E!Applied(c, write.form)
      /\ write.calls # {c} => write' = [write EXCEPT !.calls = @ \ {c}] /\ due' = due
      /\ write.calls = {c} =>
           /\ write' = [write EXCEPT !.calls = {}, !.of = IF c.do = "delete" THEN "deleted" ELSE "saved"]
           /\ due' = due \cup {"list", "own"}
      /\ UNCHANGED <<kind, cachedRow, cachedLists, drawer, snapshot, form, copying, asking, tried,
                     quiet, before>>
  BY Zenon DEF E!CallDone, E!drawerVars, E!ghosts
<1>2. /\ c \in write.calls /\ c \in EdRequest /\ write \in EdWrite /\ c.do \in EdDos
      /\ c.do \in {"own", "give", "take"} => ~Naming
  BY UpcomingFields DEF EdInv, EdTyped, EdWrite, EdRequest
<1>3. /\ write' \in EdWrite /\ write'.calls = write.calls \ {c} /\ write'.form = write.form
      /\ write'.sure = write.sure
      /\ write'.of = IF write.calls # {c} THEN "save"
                     ELSE IF c.do = "delete" THEN "deleted" ELSE "saved"
  BY <1>1, <1>2 DEF EdWrite
<1>4. EdTries' = tried \cup {write.form} BY <1>1, <1>3 DEF EdTries
<1>5. /\ row' \in E!Name /\ own' \subseteq E!Link /\ lists' \in E!Lists
      /\ cachedOwn' \in [loaded: BOOLEAN, own: SUBSET E!Link]
      /\ asking = "save" => cachedOwn' = cachedOwn
      /\ EdOpen'
  BY <1>1, <1>3, <1>4, AppliedOpen
<1>6. due' \subseteq {"list", "own"} BY <1>1 DEF EdInv, EdTyped, E!TypeOK
<1>7. EdTyped' BY <1>1, <1>2, <1>3, <1>5, <1>6 DEF EdInv, EdTyped, E!TypeOK, EdWrite
<1>8. c.do # "delete" => row' # E!Blank
  BY <1>1, <1>2, AppliedFields DEF EdInv, EdCalls, Naming, EdDos, E!Accepts
<1>9. EdCalls'
  <2>1. /\ Naming' => Naming
        /\ Creating' => Creating
    BY <1>3 DEF Naming, Creating
  <2> QED BY <1>1, <1>3, <1>5, <1>8, <2>1 DEF EdInv, EdCalls
<1>10. EdSure'
  <2> SUFFICES ASSUME write.sure PROVE EdSure' BY <1>3 DEF EdSure
  <2> DEFINE f == write.form
  <2>1. c.do # "delete" /\ row' # E!Blank BY <1>2, <1>8 DEF EdInv, EdCalls
  <2>2. row # E!Blank \/ Creating BY <1>1, <1>2 DEF E!Accepts, Creating
  <2>3. Naming' \/ row' = f.name
    BY <1>2, <1>3, <2>1, <2>2, AppliedFields, <1>1 DEF EdDos, Naming, EdInv, EdSure
  <2>4. ~Creating'
    <3>1. CASE c.do \in {"create", "update"} BY <1>2, <1>3, <3>1 DEF EdInv, EdCalls, Creating
    <3>2. CASE c.do \in {"own", "give", "take"} BY <1>2, <1>3, <3>2 DEF Naming, Creating
    <3> QED BY <1>2, <2>1, <3>1, <3>2 DEF EdDos
  <2>5. Creating => c.do = "create"
    BY <1>2, <1>3, <2>1, <2>4 DEF Creating
  <2>6. Linking' \/ f.own = own'
   
     
       
         
           
             
               
                 
                   
                     
                       
                         
                           
                             
                               
                                 
                                   
                                      BY <1>1, <1>2, <1>3, <2>1, <2>2, <2>5,
                                         AppliedFields DEF EdDos, Linking, EdInv, EdSure, EdCalls,
                                                           Creating
  <2>7. ASSUME kind = "role", NEW g \in Group, ~Listing(g)'
        PROVE  g \in f.groups <=> This \in lists'[g]
    <3>1. lists \in E!Lists BY DEF EdInv, EdTyped, E!TypeOK
    <3>2. CASE c.do \in {"give", "take"} /\ c.group = g
      BY <1>1, <1>2, <3>1, <3>2, AppliedFields DEF EdInv, EdCalls, E!Lists
    <3>3. CASE ~(c.do \in {"give", "take"} /\ c.group = g)
      <4>1. ~Listing(g) BY <1>3, <2>7, <3>3 DEF Listing
      <4>2. g \in f.groups <=> ~Creating /\ This \in lists[g]
        BY <2>2, <2>7, <4>1 DEF EdInv, EdSure
      <4>3. CASE c.do = "create"
        <5>1. Creating BY <1>2, <4>3 DEF Creating
        <5>2. This \notin lists'[g] BY <1>1, <1>2, <4>3, AppliedFields
        <5> QED BY <4>2, <5>1, <5>2
      <4>4. CASE c.do # "create"
        <5>1. lists'[g] = lists[g]
          BY <1>1, <1>2, <2>1, <3>1, <3>3, <4>4, AppliedFields DEF EdDos, E!Lists
        <5> QED BY <2>5, <4>2, <4>4, <5>1
      <4> QED BY <4>3, <4>4
    <3> QED BY <3>2, <3>3
  <2>8. \A g \in Group : lists'[g] \ {This} = before[g] \ {This}
    <3>1. lists \in E!Lists BY DEF EdInv, EdTyped, E!TypeOK
    <3> QED BY <1>1, <1>2, <2>1, <3>1, AppliedFields DEF EdDos, EdInv, EdSure, EdCalls, E!Lists
  <2> HIDE DEF f
  <2>9. \A d \in write'.calls : d.do \in {"give", "take"} => d.set \ {This} = before'[d.group] \ {This}
    BY <1>1, <1>3 DEF EdInv, EdSure
  <2> QED BY <1>1, <1>3, <2>3, <2>4, <2>6, <2>7, <2>8, <2>9 DEF EdSure, f
<1> QED BY <1>5, <1>7, <1>9, <1>10 DEF EdInv

\* A request refused or lost, applied or not, keeps the invariant.
LEMMA CallFails ==
    ASSUME EdInv, NEW c \in E!Upcoming, E!CallFailed(c) PROVE EdInv'
<1>1. /\ write.of = "save" /\ write' = E!NoWrite /\ tried' = tried \cup {write.form}
      /\ \/ UNCHANGED <<row, own, lists, cachedOwn>>
         \/ E!Accepts(c, write.form) /\ E!Applied(c, write.form)
      /\ UNCHANGED <<kind, cachedRow, cachedLists, due, drawer, snapshot, form, copying, asking,
                     quiet, before>>
  BY Zenon DEF E!CallFailed, E!drawerVars, E!server
<1>2. /\ write' \in EdWrite /\ write'.of = "none" /\ write'.calls = {} /\ ~write'.sure
      /\ write'.form.groups = {} /\ write'.form \in E!Form
  BY <1>1, EmptyFields
<1>3. EdTries' = tried \cup {write.form} /\ EdTries = EdTries' BY <1>1, <1>2 DEF EdTries
<1>4. ~Creating' /\ ~Naming' BY <1>2 DEF Creating, Naming
<1>5. /\ row' \in E!Name /\ own' \subseteq E!Link /\ lists' \in E!Lists
      /\ cachedOwn' \in [loaded: BOOLEAN, own: SUBSET E!Link]
      /\ asking = "save" => cachedOwn' = cachedOwn
      /\ EdOpen'
  <2>1. CASE UNCHANGED <<row, own, lists, cachedOwn>>
    BY <1>1, <1>2, <1>3, <1>4, <2>1 DEF EdInv, EdTyped, E!TypeOK, EdOpen
  <2>2. CASE E!Accepts(c, write.form) /\ E!Applied(c, write.form)
    BY <1>1, <1>2, <1>3, <2>2, AppliedOpen
  <2> QED BY <1>1, <2>1, <2>2
<1>6. EdTyped' BY <1>1, <1>2, <1>5 DEF EdInv, EdTyped, E!TypeOK, EdWrite
<1>7. EdCalls' BY <1>1, <1>2, <1>4, <1>5 DEF EdInv, EdCalls
<1> QED BY <1>2, <1>5, <1>6, <1>7 DEF EdInv, EdSure

\* Every step of the drawers keeps their invariant.
LEMMA EdPreserved ==
    ASSUME EdInv, [E!EdNext]_drawerVars PROVE EdInv'
<1> USE DEF E!InForm, E!Click, E!server, E!cacheVars, E!drawerVars, E!ghosts, E!bounds
<1>1. /\ kind \in Drawers /\ form \in E!Form /\ copying \in BOOLEAN /\ lists \in E!Lists
      /\ cachedLists \in E!Lists /\ own \subseteq E!Link
      /\ kind # "role" => form.groups = {}
  BY DEF EdInv, EdTyped, E!TypeOK
<1>2. CASE UNCHANGED drawerVars
  <2>1. UNCHANGED <<kind, row, own, lists, cachedOwn, cachedRow, cachedLists, due, drawer,
                    snapshot, form, asking, copying, write, tried, quiet, before>>
    BY <1>2 DEF drawerVars
  <2> QED BY <1>1, <2>1, FormChanges
<1>3. CASE E!OpenNew
  <2>1. /\ drawer' = "new" /\ form' = E!EmptyForm /\ drawer = "closed"
        /\ snapshot' = [name |-> E!Blank, groups |-> {}] /\ before' = lists /\ tried' = {}
        /\ quiet' => write = E!NoWrite /\ cachedLists = lists
        /\ UNCHANGED <<kind, row, own, lists, cachedOwn, cachedRow, cachedLists, due, asking,
                       copying,
                       write>>
    BY <1>3, Zenon DEF E!OpenNew, E!Opens
  <2>2. EdTyped' BY <1>1, <2>1, EmptyFields DEF EdInv, EdTyped, E!TypeOK, E!Name
  <2>3. EdCalls' BY <2>1 DEF EdInv, EdCalls, Naming, Creating
  <2>4. EdOpen' BY <1>1, <2>1, EmptyFields DEF EdOpen
  <2>5. EdSure' BY <2>1 DEF EdInv, EdSure, EdCalls, Creating, Naming, Linking, Listing
  <2> QED BY <2>2, <2>3, <2>4, <2>5 DEF EdInv
<1>4. CASE E!OpenRow
  <2>1. /\ drawer' = "edit" /\ drawer = "closed" /\ before' = lists /\ tried' = {}
        /\ snapshot' = [name |-> cachedRow, groups |-> E!Having(cachedLists)]
        /\ form' = IF cachedOwn.loaded THEN E!Start(snapshot', cachedOwn.own) ELSE E!EmptyForm
        /\ quiet' => /\ write = E!NoWrite /\ cachedLists = lists
                     /\ ~cachedOwn.loaded \/ cachedOwn.own = own
        /\ UNCHANGED <<kind, row, own, lists, cachedOwn, cachedRow, cachedLists, asking, copying,
                       write>>
    BY <1>4, Zenon DEF E!OpenRow, E!Opens
  <2>2. due' \subseteq {"list", "own"} BY <1>4 DEF E!OpenRow, EdInv, EdTyped, E!TypeOK
  <2>3. snapshot' \in [name: E!Name, groups: SUBSET Group]
    BY <1>1, <2>1, HavingFields DEF EdInv, EdTyped, E!TypeOK
  <2>4. form' \in E!Form /\ (kind # "role" => form'.groups = {})
    <3>1. cachedOwn.own \in SUBSET E!Link BY DEF EdInv, EdTyped, E!TypeOK
    <3>2. CASE cachedOwn.loaded BY <1>1, <2>1, <2>3, <3>1, <3>2, StartFields
    <3>3. CASE ~cachedOwn.loaded BY <2>1, <3>3, EmptyFields
    <3> QED BY <3>2, <3>3
  <2>5. EdTyped' BY <1>1, <2>1, <2>2, <2>3, <2>4 DEF EdInv, EdTyped, E!TypeOK
  <2>6. EdCalls' BY <2>1 DEF EdInv, EdCalls, Naming, Creating
  <2>7. ASSUME quiet' PROVE EdOpen'
    <3>1. write'.calls = {} BY <2>1, <2>7, EmptyFields
    <3>2. kind = "role" => \A g \in Group : This \in lists[g] <=> g \in snapshot'.groups
      BY <1>1, <2>1, <2>7, HavingFields
    <3> QED BY <2>1, <2>7, <3>1, <3>2 DEF EdOpen, Creating
  <2>8. EdSure' BY <2>1 DEF EdInv, EdSure, EdCalls, Creating, Naming, Linking, Listing
  <2> QED BY <2>5, <2>6, <2>7, <2>8 DEF EdInv, EdOpen
<1>5. CASE E!FetchOwn
  <2>1. /\ cachedOwn' = E!Loaded(own) /\ due' = due \ {"own"}
        /\ form' = IF cachedOwn.loaded THEN form ELSE E!Start(snapshot, own)
        /\ UNCHANGED <<kind, row, own, lists, cachedRow, cachedLists, drawer, snapshot, asking,
                       copying, write, tried, quiet, before>>
    BY <1>5, Zenon DEF E!FetchOwn
  <2>2. /\ cachedOwn' \in [loaded: BOOLEAN, own: SUBSET E!Link]
        /\ cachedOwn'.loaded /\ cachedOwn'.own = own
    BY <1>1, <2>1, UnloadedTyped
  <2>3. form' \in E!Form /\ (kind # "role" => form'.groups = {})
        /\ (asking = "save" => form' = form)
    <3>1. snapshot \in [name: E!Name, groups: SUBSET Group] BY DEF EdInv, EdTyped, E!TypeOK
    <3>2. CASE cachedOwn.loaded BY <1>1, <2>1, <3>2
    <3>3. CASE ~cachedOwn.loaded
      <4>1. form' = E!Start(snapshot, own) /\ asking # "save"
        BY <2>1, <3>3 DEF EdInv, EdCalls
      <4> QED BY <1>1, <3>1, <4>1, StartFields
    <3> QED BY <3>2, <3>3
  <2>4. EdTyped' BY <1>1, <2>1, <2>2, <2>3 DEF EdInv, EdTyped, E!TypeOK
  <2>5. EdCalls' BY <2>1, <2>2, <2>3 DEF EdInv, EdCalls, Naming, Creating
  <2>6. EdOpen' BY <2>1, <2>2 DEF EdInv, EdOpen, EdTries, Creating
  <2>7. EdSure' BY <2>1 DEF EdInv, EdSure, Creating, Naming, Linking, Listing
  <2> QED BY <2>4, <2>5, <2>6, <2>7 DEF EdInv
<1>6. CASE E!FetchList
  <2>1. /\ cachedRow' = row /\ cachedLists' = lists /\ due' = due \ {"list"}
        /\ UNCHANGED <<kind, row, own, lists, cachedOwn, drawer, snapshot, form, asking, copying,
                       write, tried, quiet, before>>
    BY <1>6, Zenon DEF E!FetchList
  <2>2. EdTyped' BY <1>1, <2>1 DEF EdInv, EdTyped, E!TypeOK
  <2>3. EdCalls' BY <2>1 DEF EdInv, EdCalls, Naming, Creating
  <2>4. EdOpen' BY <2>1 DEF EdInv, EdOpen, EdTries, Creating
  <2>5. EdSure' BY <2>1 DEF EdInv, EdSure, Creating, Naming, Linking, Listing
  <2> QED BY <2>2, <2>3, <2>4, <2>5 DEF EdInv
<1>7. ASSUME NEW n \in E!Name, E!EditName(n) PROVE EdInv'
  <2>1. /\ form' = [form EXCEPT !.name = n] /\ asking = "none"
        /\ UNCHANGED <<kind, row, own, lists, cachedOwn, cachedRow, cachedLists, due, drawer,
                       snapshot, asking, copying, write, tried, quiet, before>>
    BY <1>7, Zenon DEF E!EditName
  <2> QED BY <1>1, <2>1, FormEdited, FormChanges
<1>8. ASSUME NEW l \in E!Link, E!toggle(l) PROVE EdInv'
  <2>1. /\ form' = [form EXCEPT !.own = IF l \in form.own THEN form.own \ {l} ELSE form.own \cup {l}]
        /\ UNCHANGED <<kind, row, own, lists, cachedOwn, cachedRow, cachedLists, due, drawer,
                       snapshot, asking, copying, write, tried, quiet, before>>
    BY <1>8 DEF E!toggle
  <2>2. (IF l \in form.own THEN form.own \ {l} ELSE form.own \cup {l}) \in SUBSET E!Link
    BY <1>1, FormEdited
  <2> QED BY <1>1, <2>1, <2>2, FormEdited, FormChanges
<1>9. ASSUME NEW t \in Templates, E!Template(t) PROVE EdInv'
  <2>1. /\ form' = [form EXCEPT !.own = t]
        /\ UNCHANGED <<kind, row, own, lists, cachedOwn, cachedRow, cachedLists, due, drawer,
                       snapshot, asking, copying, write, tried, quiet, before>>
    BY <1>9, Zenon DEF E!Template
  <2> QED BY <1>1, <2>1, EdConstants, FormEdited, FormChanges
<1>10. ASSUME NEW g \in Group, E!EditGroups(g) PROVE EdInv'
  <2>1. /\ form' = [form EXCEPT !.groups = IF g \in form.groups THEN form.groups \ {g}
                                           ELSE form.groups \cup {g}]
        /\ kind = "role"
        /\ UNCHANGED <<kind, row, own, lists, cachedOwn, cachedRow, cachedLists, due, drawer,
                       snapshot, asking, copying, write, tried, quiet, before>>
    BY <1>10 DEF E!EditGroups
  <2>2. (IF g \in form.groups THEN form.groups \ {g} ELSE form.groups \cup {g}) \in SUBSET Group
    BY <1>1, FormEdited
  <2> QED BY <1>1, <2>1, <2>2, FormEdited, FormChanges
<1>11. CASE E!copyFrom
  <2>1. /\ copying' = TRUE
        /\ UNCHANGED <<kind, row, own, lists, cachedOwn, cachedRow, cachedLists, due, drawer,
                       snapshot, form, asking, write, tried, quiet, before>>
    BY <1>11, Zenon DEF E!copyFrom
  <2>2. copying' \in BOOLEAN BY <2>1, Zenon
  <2> QED BY <1>1, <2>1, <2>2, FormChanges
<1>12. ASSUME NEW ok \in BOOLEAN, E!CopyAnswer(ok) PROVE EdInv'
  <2>1. /\ form' = IF ok THEN [form EXCEPT !.own = form.own \cup Elsewhere] ELSE form
        /\ UNCHANGED <<kind, row, own, lists, cachedOwn, cachedRow, cachedLists, due, drawer,
                       snapshot, asking, write, tried, quiet, before>>
    BY <1>12 DEF E!CopyAnswer
  <2>2. copying' \in BOOLEAN BY <1>12, Zenon DEF E!CopyAnswer
  <2>3. form.own \cup Elsewhere \in SUBSET E!Link BY <1>1, EdConstants, FormEdited
  <2>4. form' \in E!Form /\ form'.groups = form.groups /\ form'.name = form.name
    BY <1>1, <2>1, <2>3, FormEdited
  <2> QED BY <1>1, <2>1, <2>2, <2>4, FormChanges
<1>13. CASE E!submit
  <2>1. /\ E!ready /\ asking = "none" /\ E!Complete(form) /\ write = E!NoWrite
        /\ UNCHANGED <<kind, row, own, lists, cachedOwn, cachedRow, cachedLists, due, drawer,
                       snapshot, form, copying, tried, quiet, before>>
        /\ \/ E!AsksFirst /\ asking' = "save" /\ write' = write
           \/ E!StartSave /\ asking' = asking
    BY <1>13, Zenon DEF E!submit
  <2>2. form.name # E!Blank
    <3>1. CASE kind = "user" BY <2>1, <3>1, Zenon DEF E!Complete, E!UserAccepts
    <3>2. CASE kind = "group" BY <2>1, <3>2, Zenon DEF E!Complete, E!GroupAccepts
    <3>3. CASE kind = "role" BY <2>1, <3>3, Zenon DEF E!Complete, E!RoleAccepts
    <3>4. CASE kind = "api" BY <2>1, <3>4, Zenon DEF E!Complete, E!ApiAccepts
    <3> QED BY <1>1, <3>1, <3>2, <3>3, <3>4, EdConstants
  <2>3. drawer \in {"new", "edit"} /\ (drawer = "edit" => cachedOwn.loaded)
    BY <2>1 DEF E!ready
  <2>4. CASE E!StartSave /\ asking' = asking BY <2>1, <2>2, <2>3, <2>4, SaveStarts
  <2>5. CASE E!AsksFirst /\ asking' = "save" /\ write' = write
    <3>1. drawer = "edit" BY <2>5 DEF E!AsksFirst
    <3>2. ~Creating BY <2>1, EmptyFields DEF Creating
    <3>3. EdTyped' BY <1>1, <2>1, <2>5 DEF EdInv, EdTyped, E!TypeOK
    <3>4. EdCalls' BY <2>1, <2>2, <2>3, <2>5, <3>1, <3>2 DEF EdInv, EdCalls, Naming, Creating
    <3>5. EdOpen' BY <2>1, <2>5 DEF EdInv, EdOpen, EdTries, Creating
    <3>6. EdSure' BY <2>1, <2>5 DEF EdInv, EdSure, Creating, Naming, Linking, Listing
    <3> QED BY <3>3, <3>4, <3>5, <3>6 DEF EdInv
  <2> QED BY <2>1, <2>4, <2>5
<1>14. CASE E!ConfirmSave
  <2>1. /\ asking = "save" /\ write = E!NoWrite /\ E!StartSave
        /\ UNCHANGED <<kind, row, own, lists, cachedOwn, cachedRow, cachedLists, due, drawer,
                       snapshot, form, copying, asking, tried, quiet, before>>
    BY <1>14, Zenon DEF E!ConfirmSave
  <2>2. drawer = "edit" /\ cachedOwn.loaded /\ form.name # E!Blank
    BY <2>1 DEF EdInv, EdCalls
  <2> QED BY <2>1, <2>2, SaveStarts
<1>15. CASE E!ConfirmDelete
  <2> DEFINE c == E!Request("delete", None, {})
  <2>1. /\ asking' = "delete" /\ write = E!NoWrite
        /\ write' = [of |-> "save", form |-> form, calls |-> {c}, sure |-> FALSE]
        /\ UNCHANGED <<kind, row, own, lists, cachedOwn, cachedRow, cachedLists, due, drawer,
                       snapshot, form, copying, tried, quiet, before>>
    BY <1>15, Zenon DEF E!ConfirmDelete
  <2>2. c \in EdRequest /\ c.do = "delete" BY DEF E!Request, EdRequest, EdDos
  <2>3. FALSE \in BOOLEAN OBVIOUS
  <2> HIDE DEF c
  <2>4. /\ write' \in EdWrite /\ write'.of = "save" /\ write'.form = form /\ write'.calls = {c}
        /\ ~write'.sure
    BY <1>1, <2>1, <2>2, <2>3 DEF EdWrite
  <2>5. ~Naming' /\ ~Creating' BY <2>2, <2>4 DEF Naming, Creating
  <2>6. EdTyped' BY <1>1, <2>1, <2>4 DEF EdInv, EdTyped, E!TypeOK
  <2>7. EdCalls' BY <2>1, <2>2, <2>4, <2>5 DEF EdInv, EdCalls
  <2>8. EdTries \subseteq EdTries' BY <2>1, <2>4, EmptyFields DEF EdTries
  <2>9. EdOpen' BY <2>1, <2>2, <2>4, <2>5, <2>8 DEF EdInv, EdOpen
  <2> QED BY <2>4, <2>6, <2>7, <2>9 DEF EdInv, EdSure
<1>16. CASE E!Settled
  <2>1. /\ write' = E!NoWrite /\ drawer' = "closed" /\ form' = E!EmptyForm /\ asking' = "none"
        /\ UNCHANGED <<kind, row, own, lists, cachedOwn, cachedRow, cachedLists, due, snapshot,
                       tried, quiet, before>>
    BY <1>16, Zenon DEF E!Settled, E!Close
  <2>2. copying' \in BOOLEAN BY <1>16, Zenon DEF E!Settled, E!Close
  <2>3. EdTyped' BY <1>1, <2>1, <2>2, EmptyFields DEF EdInv, EdTyped, E!TypeOK
  <2>4. EdCalls' BY <2>1, EmptyFields DEF EdInv, EdCalls, Naming
  <2> QED BY <2>1, <2>3, <2>4, EmptyFields DEF EdInv, EdOpen, EdSure
<1>17. CASE E!requestClose \/ E!Discard
  <2>1. /\ \/ drawer' = "closed" /\ form' = E!EmptyForm /\ asking' = "none" /\ copying' = FALSE
           \/ asking' = "discard" /\ UNCHANGED <<drawer, form, copying>>
        /\ UNCHANGED <<kind, row, own, lists, cachedOwn, cachedRow, cachedLists, due, snapshot,
                       write,
                       tried, quiet, before>>
    BY <1>17, Zenon DEF E!requestClose, E!Discard, E!Close
  <2>2. copying' \in BOOLEAN BY <1>1, <2>1, Zenon
  <2>3. EdTyped' BY <1>1, <2>1, <2>2, EmptyFields DEF EdInv, EdTyped, E!TypeOK
  <2>4. EdCalls' BY <2>1 DEF EdInv, EdCalls, Naming, Creating
  <2>5. EdOpen' BY <2>1 DEF EdInv, EdOpen, EdTries, Creating
  <2>6. EdSure' BY <2>1 DEF EdInv, EdSure, Creating, Naming, Linking, Listing
  <2> QED BY <2>3, <2>4, <2>5, <2>6 DEF EdInv
<1>18. CASE E!Dismiss \/ E!reset \/ E!GroupMembers \/ E!refresh
  <2>1. /\ asking' \in {asking, "none"} /\ due' \in {due, due \cup {"list", "own"}}
        /\ UNCHANGED <<kind, row, own, lists, cachedOwn, cachedRow, cachedLists, drawer, snapshot,
                       form, copying, write, tried, quiet, before>>
    BY <1>18, Zenon DEF E!Dismiss, E!reset, E!GroupMembers, E!refresh, E!AtOnce
  <2>2. EdTyped' BY <1>1, <2>1 DEF EdInv, EdTyped, E!TypeOK
  <2>3. EdCalls' BY <2>1 DEF EdInv, EdCalls, Naming, Creating
  <2>4. EdOpen' BY <2>1 DEF EdInv, EdOpen, EdTries, Creating
  <2>5. EdSure' BY <2>1 DEF EdInv, EdSure, Creating, Naming, Linking, Listing
  <2> QED BY <2>2, <2>3, <2>4, <2>5 DEF EdInv
<1>19. CASE E!Other
  <2>1. /\ ~quiet' /\ write' = [write EXCEPT !.sure = FALSE]
        /\ UNCHANGED <<kind, row, cachedOwn, cachedRow, cachedLists, due, drawer, snapshot, form,
                       copying, asking, tried, before>>
    BY <1>19, Zenon DEF E!Other
  <2>2. own' \subseteq E!Link /\ lists' \in E!Lists
    <3>1. CASE \E l \in E!Links(kind) : own' = (own \ {l}) \cup ({l} \ own) /\ UNCHANGED lists
      <4>1. E!Links(kind) \subseteq E!Link
        <5>1. CASE kind = "user" BY <5>1, EdConstants, Zenon DEF E!Links, E!UserLinks
        <5>2. CASE kind = "group" BY <5>2, EdConstants, Zenon DEF E!Links, E!GroupLinks
        <5>3. CASE kind = "role" BY <5>3, EdConstants, Zenon DEF E!Links, E!RoleLinks
        <5>4. CASE kind = "api" BY <5>4, EdConstants, Zenon DEF E!Links, E!ApiLinks
        <5> QED BY <1>1, <5>1, <5>2, <5>3, <5>4, EdConstants
      <4> QED BY <1>1, <3>1, <4>1
    <3>2. CASE /\ UNCHANGED own
               /\ \E g \in Group, r \in Role :
                     lists' = [lists EXCEPT ![g] = (@ \ {r}) \cup ({r} \ @)]
      BY <1>1, <3>2 DEF E!Lists
    <3> QED BY <1>19, <3>1, <3>2 DEF E!Other
  <2>3. FALSE \in BOOLEAN OBVIOUS
  <2>4. /\ write' \in EdWrite /\ write'.of = write.of /\ write'.form = write.form
        /\ write'.calls = write.calls /\ ~write'.sure
    BY <2>1, <2>3 DEF EdInv, EdTyped, EdWrite
  <2>5. EdTyped' BY <1>1, <2>1, <2>2, <2>4 DEF EdInv, EdTyped, E!TypeOK
  <2>6. EdCalls' BY <2>1, <2>4 DEF EdInv, EdCalls, Naming, Creating
  <2> QED BY <2>1, <2>4, <2>5, <2>6 DEF EdInv, EdOpen, EdSure
<1> QED
  BY <1>2, <1>3, <1>4, <1>5, <1>6, <1>7, <1>8, <1>9, <1>10, <1>11, <1>12, <1>13, <1>14, <1>15,
     <1>16, <1>17, <1>18, <1>19, CallSucceeds, CallFails, Zenon DEF E!EdNext

\* The invariant gives the properties.
LEMMA EdSaves == EdInv => E!SaveAsIntended /\ E!TypeOK
<1> SUFFICES ASSUME EdInv PROVE E!SaveAsIntended BY DEF EdInv, EdTyped
<1> SUFFICES ASSUME write.of = "saved", write.sure PROVE E!SaveAsIntended
  BY DEF E!SaveAsIntended
<1>1. write.calls = {} /\ row # E!Blank BY DEF EdInv, EdCalls
<1>2. ~Creating /\ ~Naming /\ ~Linking /\ \A g \in Group : ~Listing(g)
  BY <1>1 DEF Creating, Naming, Linking, Listing
<1>3. row = write.form.name /\ own = write.form.own
  BY <1>1, <1>2 DEF EdInv, EdSure
<1>4. lists \in E!Lists /\ write.form.groups \subseteq Group
  BY DEF EdInv, EdTyped, E!TypeOK, E!Form
<1>5. E!Having(lists) = write.form.groups
  <2>1. CASE kind = "role" BY <1>1, <1>2, <1>4, <2>1, HavingFields DEF EdInv, EdSure
  <2>2. CASE kind # "role" BY <1>4, <2>2, HavingFields DEF EdInv, EdTyped
  <2> QED BY <2>1, <2>2
<1> QED BY <1>3, <1>5 DEF E!SaveAsIntended, EdInv, EdSure

\* What the matrix ticks and the engine allows agree on each box (PermissionMatrix coveredBy,
\* rbac Has).
LEMMA MatrixTicks ==
    ASSUME NEW P, NEW a \in Api, NEW action \in E!APIActions
    PROVE  E!Ticked(P, a, action) <=> E!Has(P, E!APIScope(a, action))
<1> DEFINE s == E!APIScope(a, action)
           covers == E!coveredBy(P, a, action)
<1>1. s.api = a /\ s.action = action /\ a # None
  BY EditorsAssumption DEF E!APIScope, E!EditorsAssumption
<1>2. \A n : s # E!Global(n) BY <1>1 DEF E!Global
<1>3. E!Ticked(P, a, action) <=> s \in P \/ covers BY DEF E!Ticked
<1>4. CASE action = "view"
  <2>1. E!Has(P, s) <=> s \in P \/ E!CanViewAPI(P, a)
    BY <1>1, <1>2, <1>4, Zenon DEF E!Has
  <2>2. E!GLOBAL_COVERS(action) = {"api.view", "api.invoke", "api.manage"}
        /\ E!LOCAL_COVERS(action) = {"invoke", "manage"}
    BY <1>4, Zenon DEF E!GLOBAL_COVERS, E!LOCAL_COVERS
  <2>3. E!CanViewAPI(P, a) <=> s \in P \/ covers
    BY <1>4, <2>2 DEF E!coveredBy, E!CanViewAPI, E!CanInvokeAPI, E!CanManageAPI
  <2> QED BY <1>3, <2>1, <2>3
<1>5. CASE action = "invoke"
  <2>1. E!Has(P, s) <=> s \in P \/ E!CanInvokeAPI(P, a)
    BY <1>1, <1>2, <1>5, Zenon DEF E!Has
  <2>2. E!GLOBAL_COVERS(action) = {"api.invoke", "api.manage"}
        /\ E!LOCAL_COVERS(action) = {"manage"}
    BY <1>5, Zenon DEF E!GLOBAL_COVERS, E!LOCAL_COVERS
  <2>3. E!CanInvokeAPI(P, a) <=> s \in P \/ covers
    BY <1>5, <2>2 DEF E!coveredBy, E!CanInvokeAPI, E!CanManageAPI
  <2> QED BY <1>3, <2>1, <2>3
<1>6. CASE action = "manage"
  <2>1. E!Has(P, s) <=> s \in P \/ E!CanManageAPI(P, a)
    BY <1>1, <1>2, <1>6, Zenon DEF E!Has
  <2>2. E!GLOBAL_COVERS(action) = {"api.manage"} /\ E!LOCAL_COVERS(action) = {}
    BY <1>6, Zenon DEF E!GLOBAL_COVERS, E!LOCAL_COVERS
  <2>3. E!CanManageAPI(P, a) <=> s \in P \/ covers
    BY <1>6, <2>2 DEF E!coveredBy, E!CanManageAPI
  <2> QED BY <1>3, <2>1, <2>3
<1>7. CASE action = "delete"
  <2>1. E!Has(P, s) <=> s \in P \/ E!CanDeleteAPI(P, a)
    BY <1>1, <1>2, <1>7, Zenon DEF E!Has
  <2>2. E!GLOBAL_COVERS(action) = {"api.manage", "api.delete"} /\ E!LOCAL_COVERS(action) = {}
    BY <1>7, Zenon DEF E!GLOBAL_COVERS, E!LOCAL_COVERS
  <2>3. E!CanDeleteAPI(P, a) <=> s \in P \/ covers
    BY <1>7, <2>2 DEF E!coveredBy, E!CanDeleteAPI
  <2> QED BY <1>3, <2>1, <2>3
<1> QED BY <1>4, <1>5, <1>6, <1>7 DEF E!APIActions

-----------------------------------------------------------------------------
(* The directory drawers *)

\* The requests of the directory drawers, and what was picked for them.
DiName == Person \cup Mail
DiPick == [names: SUBSET DiName, teams: SUBSET Team, shown: SUBSET DiName]
DiSearch == [drawer: Nat, hits: SUBSET Person]
DiImport == [drawer: Nat, names: SUBSET Person, teams: SUBSET Team, at: {"sent", "done"},
             left: SUBSET Person]
DiRegister == [drawer: Nat, mail: Mail, teams: SUBSET Team, at: {"sent", "done"}]

\* The types of the directory drawers' variables.
DiTyped ==
    /\ D!DiTypeOK /\ drawerNo \in Nat /\ known \subseteq Person /\ picks \subseteq DiPick
    /\ searching \subseteq DiSearch /\ importing \subseteq DiImport
    /\ registering \subseteq DiRegister

\* A request under way asks for names and teams somebody picked.
DiAsked ==
    /\ \A q \in importing : /\ q.left \subseteq q.names
                            /\ \E i \in picks : q.names \subseteq i.names /\ q.teams \subseteq i.teams
    /\ \A q \in registering : \E i \in picks : q.mail \in i.names /\ q.teams \subseteq i.teams

\* The directory drawers: what is imported or registered was picked.
DiInv == DiTyped /\ DiAsked /\ D!ImportAsPicked

\* What the directory drawers need of their constants.
LEMMA DiConstants == Local \subseteq Person /\ \A t \in Text : Hits[t] \subseteq Person
BY DirectoryAssumption DEF D!DirectoryAssumption

\* The directory drawers start in the invariant.
LEMMA DiInitial == AdInit => DiInv
<1> SUFFICES ASSUME D!DiInit PROVE DiInv BY DEF AdInit
<1> USE DiConstants DEF D!DiInit
<1>1. DiTyped BY DEF DiTyped, D!DiTypeOK
<1>2. DiAsked BY DEF DiAsked
<1>3. D!ImportAsPicked
  <2>1. \A n \in Local : sources[n] = "local" OBVIOUS
  <2>2. \E i \in picks \cup {[names |-> {}]} : outcome \subseteq i.names OBVIOUS
  <2> QED BY <2>1, <2>2 DEF D!ImportAsPicked
<1> QED BY <1>1, <1>2, <1>3 DEF DiInv

\* A step that changes the forms and the searches only.
LEMMA FormsChange ==
    ASSUME DiInv, UNCHANGED <<importing, registering, sources, belongs, picks>>,
           which' \in {"none", "ldap", "azure"}, drawerNo' \in Nat, found' \subseteq Person,
           teams' \subseteq Team, email' \in Mail \cup {D!Blank}, searching' \subseteq DiSearch,
           known' \subseteq Person, ticked' \subseteq found', outcome' \in {{}, outcome}
    PROVE  DiInv'
<1>1. DiTyped' BY DEF DiInv, DiTyped, D!DiTypeOK
<1>2. DiAsked' BY DEF DiInv, DiAsked
<1>3. \E i \in picks \cup {[names |-> {}]} : outcome' \subseteq i.names
  BY DEF DiInv, D!ImportAsPicked
<1>4. D!ImportAsPicked' BY <1>3 DEF DiInv, D!ImportAsPicked
<1> QED BY <1>1, <1>2, <1>4 DEF DiInv

\* Every step of the directory drawers keeps their invariant.
LEMMA DiPreserved ==
    ASSUME DiInv, [D!DiNext]_directoryVars PROVE DiInv'
<1> USE DEF D!formVars, D!serverVars
<1>1. /\ which \in {"none", "ldap", "azure"} /\ drawerNo \in Nat /\ found \subseteq Person
      /\ teams \subseteq Team /\ email \in Mail \cup {D!Blank} /\ known \subseteq Person
      /\ searching \subseteq DiSearch /\ ticked \subseteq found
      /\ importing \subseteq DiImport /\ registering \subseteq DiRegister /\ picks \subseteq DiPick
  BY DEF DiInv, DiTyped, D!DiTypeOK, D!ImportAsPicked
<1>2. CASE UNCHANGED directoryVars
  BY <1>1, <1>2, FormsChange DEF directoryVars
<1>3. ASSUME NEW k \in {"ldap", "azure"}, D!onChoose(k) PROVE DiInv'
  BY <1>1, <1>3, FormsChange DEF D!onChoose
<1>4. CASE D!Close
  BY <1>1, <1>4, FormsChange DEF D!Close, D!onClose
<1>5. ASSUME NEW t \in Text, D!search(t) PROVE DiInv'
  <2>1. [drawer |-> drawerNo, hits |-> Hits[t]] \in DiSearch BY <1>1, DiConstants DEF DiSearch
  <2> QED BY <1>1, <1>5, <2>1, FormsChange DEF D!search
<1>6. ASSUME NEW q \in searching, D!SearchAnswer(q) \/ D!SearchFails(q) PROVE DiInv'
  <2>1. /\ searching' = searching \ {q}
        /\ \/ found' = q.hits \cap known /\ ticked' = {}
           \/ UNCHANGED <<found, ticked>>
        /\ UNCHANGED <<which, drawerNo, teams, email, outcome, importing, registering, known,
                       sources,
                       belongs, picks>>
    BY <1>6 DEF D!SearchAnswer, D!SearchFails, D!searched
  <2> QED BY <1>1, <2>1, FormsChange
<1>7. ASSUME NEW p \in Person, D!Tick(p) \/ D!Leaves(p) PROVE DiInv'
  BY <1>1, <1>7, FormsChange DEF D!Tick, D!Leaves, D!Toggle
<1>8. ASSUME NEW g \in Team, D!PickTeam(g) PROVE DiInv'
  BY <1>1, <1>8, FormsChange DEF D!PickTeam, D!Toggle
<1>9. ASSUME NEW m \in Mail \cup {D!Blank}, D!TypeMail(m) PROVE DiInv'
  BY <1>1, <1>9, FormsChange DEF D!TypeMail
<1>10. CASE D!importUsers
  <2> DEFINE q == [drawer |-> drawerNo, names |-> ticked, teams |-> teams, at |-> "sent", left |-> {}]
             i == [names |-> ticked, teams |-> teams, shown |-> found]
  <2>1. /\ importing' = importing \cup {q} /\ picks' = picks \cup {i}
        /\ UNCHANGED <<which, drawerNo, found, ticked, teams, email, outcome, searching,
                       registering,
                       known, sources, belongs>>
    BY <1>10, Zenon DEF D!importUsers
  <2>2. q \in DiImport /\ i \in DiPick BY <1>1 DEF DiImport, DiPick, DiName
  <2>3. /\ q.left = {} /\ q.names = i.names /\ q.teams = i.teams /\ i.names \subseteq i.shown
    BY <1>1
  <2> HIDE DEF q, i
  <2>4. DiTyped' BY <1>1, <2>1, <2>2 DEF DiInv, DiTyped, D!DiTypeOK
  <2>5. DiAsked' BY <2>1, <2>3 DEF DiInv, DiAsked
  <2>6. D!ImportAsPicked' BY <2>1, <2>3 DEF DiInv, D!ImportAsPicked
  <2> QED BY <2>4, <2>5, <2>6 DEF DiInv
<1>11. CASE D!create
  <2> DEFINE q == [drawer |-> drawerNo, mail |-> email, teams |-> teams, at |-> "sent"]
             i == [names |-> {email}, teams |-> teams, shown |-> {email}]
  <2>1. /\ registering' = registering \cup {q} /\ picks' = picks \cup {i} /\ email # D!Blank
        /\ UNCHANGED <<which, drawerNo, found, ticked, teams, email, outcome, searching, importing,
                       known, sources, belongs>>
    BY <1>11, Zenon DEF D!create
  <2>2. q \in DiRegister /\ i \in DiPick BY <1>1, <2>1 DEF DiRegister, DiPick, DiName
  <2>3. q.mail \in i.names /\ q.teams = i.teams /\ i.names \subseteq i.shown OBVIOUS
  <2> HIDE DEF q, i
  <2>4. DiTyped' BY <1>1, <2>1, <2>2 DEF DiInv, DiTyped, D!DiTypeOK
  <2>5. DiAsked' BY <2>1, <2>3 DEF DiInv, DiAsked
  <2>6. D!ImportAsPicked' BY <2>1, <2>3 DEF DiInv, D!ImportAsPicked
  <2> QED BY <2>4, <2>5, <2>6 DEF DiInv
<1>12. ASSUME NEW q \in importing, D!ImportAnswer(q) \/ D!ImportFails(q) PROVE DiInv'
  <2>1. /\ importing' = importing \ {q}
        /\ \/ ticked' = {} /\ outcome' = q.left
           \/ UNCHANGED <<ticked, outcome>>
        /\ UNCHANGED <<which, drawerNo, found, teams, email, searching, registering, known, sources,
                       belongs, picks>>
    BY <1>12, Zenon DEF D!ImportAnswer, D!ImportFails
  <2>2. \E i \in picks \cup {[names |-> {}]} : outcome' \subseteq i.names
    BY <2>1 DEF DiInv, DiAsked, D!ImportAsPicked
  <2>3. DiTyped' BY <2>1 DEF DiInv, DiTyped, D!DiTypeOK
  <2>4. DiAsked' BY <2>1 DEF DiInv, DiAsked
  <2>5. D!ImportAsPicked' BY <2>1, <2>2 DEF DiInv, D!ImportAsPicked
  <2> QED BY <2>3, <2>4, <2>5 DEF DiInv
<1>13. ASSUME NEW q \in importing, NEW done \in SUBSET Team, D!handleImportLDAP(q, done)
       PROVE  DiInv'
  <2> DEFINE takes == D!Takes(q.names)
             r == [q EXCEPT !.at = "done", !.left = q.names \ takes]
  <2>1. /\ done \subseteq q.teams
        /\ sources' = [n \in DOMAIN sources |-> IF n \in takes THEN "ldap" ELSE sources[n]]
        /\ belongs' = belongs \cup (takes \X done)
        /\ \/ importing' = (importing \ {q}) \cup {r}
           \/ importing' = importing \ {q}
        /\ UNCHANGED <<which, drawerNo, found, ticked, teams, email, outcome, searching,
                       registering,
                       known, picks>>
    BY <1>13, Zenon DEF D!handleImportLDAP
  <2>2. q \in DiImport BY <1>1
  <2>3. r \in DiImport /\ r.names = q.names /\ r.teams = q.teams /\ r.left \subseteq q.names
    BY <2>2 DEF DiImport
  <2>4. /\ takes \subseteq Person /\ takes \subseteq q.names
        /\ \A n \in takes : sources[n] \in {"none", "ldap"}
    BY <1>1 DEF D!Takes
  <2> HIDE DEF takes, r
  <2>5. sources \in [Person \cup Mail -> {"none", "local", "ldap", "azuread"}]
    BY DEF DiInv, DiTyped, D!DiTypeOK
  <2>6. DiTyped' BY <2>1, <2>3, <2>4, <2>5 DEF DiInv, DiTyped, D!DiTypeOK
  <2>7. DiAsked' BY <2>1, <2>3 DEF DiInv, DiAsked
  <2>8. \A n \in Local : sources[n] = "local" /\ n \notin takes
    BY <2>4 DEF DiInv, D!ImportAsPicked
  <2>9. \A n \in Local : sources'[n] = "local" /\ ~\E m \in belongs' : m[1] = n
    BY <2>1, <2>5, <2>8, DiConstants DEF DiInv, D!ImportAsPicked
  <2>10. PICK i \in picks : q.names \subseteq i.names /\ q.teams \subseteq i.teams
    BY DEF DiInv, DiAsked
  <2>11. \A m \in takes \X done : m[1] \in i.names /\ m[2] \in i.teams
    BY <2>1, <2>4, <2>10
  <2>12. D!ImportAsPicked' BY <2>1, <2>9, <2>11 DEF DiInv, D!ImportAsPicked
  <2> QED BY <2>6, <2>7, <2>12 DEF DiInv
<1>14. ASSUME NEW q \in registering, D!CreateAnswer(q) \/ D!CreateFails(q) \/ D!PreregisterRefused(q)
       PROVE  DiInv'
  <2>1. /\ registering' = registering \ {q}
        /\ \/ /\ which' = "none" /\ found' = {} /\ ticked' = {} /\ teams' = {}
              /\ email' = D!Blank /\ outcome' = {}
           \/ UNCHANGED <<which, found, ticked, teams, email, outcome>>
        /\ UNCHANGED <<drawerNo, searching, importing, known, sources, belongs, picks>>
    BY <1>14, Zenon DEF D!CreateAnswer, D!CreateFails, D!PreregisterRefused, D!onClose
  <2>2. DiTyped' BY <2>1 DEF DiInv, DiTyped, D!DiTypeOK
  <2>3. DiAsked' BY <2>1 DEF DiInv, DiAsked
  <2>4. \E i \in picks \cup {[names |-> {}]} : outcome' \subseteq i.names
    BY <2>1 DEF DiInv, D!ImportAsPicked
  <2>5. D!ImportAsPicked' BY <2>1, <2>4 DEF DiInv, D!ImportAsPicked
  <2> QED BY <2>2, <2>3, <2>5 DEF DiInv
<1>15. ASSUME NEW q \in registering, NEW done \in SUBSET Team, D!handlePreregisterAzureUser(q, done)
       PROVE  DiInv'
  <2> DEFINE r == [q EXCEPT !.at = "done"]
  <2>1. /\ done \subseteq q.teams /\ sources[q.mail] = "none"
        /\ sources' = [sources EXCEPT ![q.mail] = "azuread"]
        /\ belongs' = belongs \cup ({q.mail} \X done)
        /\ \/ registering' = (registering \ {q}) \cup {r}
           \/ registering' = registering \ {q}
        /\ UNCHANGED <<which, drawerNo, found, ticked, teams, email, outcome, searching, importing,
                       known, picks>>
    BY <1>15, Zenon DEF D!handlePreregisterAzureUser
  <2>2. q \in DiRegister /\ q.mail \in Mail BY <1>1 DEF DiRegister
  <2>3. r \in DiRegister /\ r.mail = q.mail /\ r.teams = q.teams BY <2>2 DEF DiRegister
  <2> HIDE DEF r
  <2>4. sources \in [Person \cup Mail -> {"none", "local", "ldap", "azuread"}]
    BY DEF DiInv, DiTyped, D!DiTypeOK
  <2>5. DiTyped' BY <2>1, <2>2, <2>3, <2>4 DEF DiInv, DiTyped, D!DiTypeOK
  <2>6. DiAsked' BY <2>1, <2>3 DEF DiInv, DiAsked
  <2>7. \A n \in Local : sources[n] = "local" /\ n # q.mail
    BY <2>1 DEF DiInv, D!ImportAsPicked
  <2>8. \A n \in Local : sources'[n] = "local" /\ ~\E m \in belongs' : m[1] = n
    BY <2>1, <2>4, <2>7, DiConstants DEF DiInv, D!ImportAsPicked
  <2>9. PICK i \in picks : q.mail \in i.names /\ q.teams \subseteq i.teams
    BY DEF DiInv, DiAsked
  <2>10. \A m \in {q.mail} \X done : m[1] \in i.names /\ m[2] \in i.teams BY <2>1, <2>9
  <2>11. D!ImportAsPicked' BY <2>1, <2>8, <2>10 DEF DiInv, D!ImportAsPicked
  <2> QED BY <2>5, <2>6, <2>11 DEF DiInv
<1> QED
  BY <1>2, <1>3, <1>4, <1>5, <1>6, <1>7, <1>8, <1>9, <1>10, <1>11, <1>12, <1>13, <1>14, <1>15,
     Zenon DEF D!DiNext

-----------------------------------------------------------------------------
(* The lists of sessions *)

\* A request that ends sessions.
SlEnding == [end: SUBSET Session, by: {"row", "dialog"}, at: {"sent", "done", "listing"}]

\* The session lists start well typed.
LEMMA SlInitial == AdInit => L!SlTypeOK
<1> SUFFICES ASSUME L!SlInit PROVE L!SlTypeOK BY DEF AdInit
<1>1. {unread, locked, signedOut} \subseteq BOOLEAN BY Zenon DEF L!SlInit
<1>2. read \in [at: {"idle", "asked", "served"}, got: SUBSET Session]
  BY DEF L!SlInit, L!NoFetch
<1> QED BY <1>1, <1>2 DEF L!SlInit, L!SlTypeOK

\* Every step of the session lists keeps their types.
LEMMA SlPreserved ==
    ASSUME L!SlTypeOK, [L!SlNext]_sessionVars PROVE L!SlTypeOK'
<1> DEFINE Fetches == [at: {"idle", "asked", "served"}, got: SUBSET Session]
<1>1. /\ view \in {"admin", "user", "mine"} /\ alive \subseteq Session /\ rows \subseteq Session
      /\ read \in Fetches /\ endAsked \subseteq Session /\ ending \subseteq SlEnding
  BY DEF L!SlTypeOK, SlEnding
<1>2. unread \in BOOLEAN /\ locked \in BOOLEAN /\ signedOut \in BOOLEAN
  BY Zenon DEF L!SlTypeOK
<1>3. unread' \in BOOLEAN /\ locked' \in BOOLEAN /\ signedOut' \in BOOLEAN
  <2>1. unread' \in {TRUE, FALSE, unread} /\ locked' \in {TRUE, FALSE, locked}
        /\ signedOut' \in {TRUE, signedOut}
    BY Zenon DEF L!SlNext, L!Ask, L!EndRow, L!OtherEnds, L!AskOthers, L!Confirm, L!Dismiss,
       L!Refresh, L!ServerEnds, L!EndRefused, L!EndAnswer, L!DialogDone, L!EndFails, L!FetchServed,
       L!FetchAnswer, L!FetchFails, sessionVars
  <2> QED BY <1>2, <2>1, Zenon
<1>4. L!NoFetch \in Fetches /\ [L!NoFetch EXCEPT !.at = "asked"] \in Fetches
  BY DEF L!NoFetch
<1>5. \A e \in SlEnding : [e EXCEPT !.at = "done"] \in SlEnding /\ [e EXCEPT !.at = "listing"] \in SlEnding
  BY DEF SlEnding
<1>6. [at |-> "served", got |-> alive] \in Fetches BY <1>1
<1>7. view' \in {"admin", "user", "mine"}
  BY <1>1, Zenon DEF L!SlNext, L!Ask, L!EndRow, L!OtherEnds, L!AskOthers, L!Confirm, L!Dismiss,
       L!Refresh, L!ServerEnds, L!EndRefused, L!EndAnswer, L!DialogDone, L!EndFails, L!FetchServed,
       L!FetchAnswer, L!FetchFails, sessionVars, L!NoClick
<1> HIDE DEF Fetches
<1>8. alive' \subseteq Session /\ read' \in Fetches
  BY <1>1, <1>4, <1>6 DEF L!SlNext, L!Ask, L!EndRow, L!OtherEnds, L!AskOthers, L!Confirm, L!Dismiss,
       L!Refresh, L!ServerEnds, L!EndRefused, L!EndAnswer, L!DialogDone, L!EndFails, L!FetchServed,
       L!FetchAnswer, L!FetchFails, sessionVars, L!Invalidate
<1>9. rows' \subseteq Session /\ endAsked' \subseteq Session
  BY <1>1 DEF L!SlNext, L!Ask, L!EndRow, L!OtherEnds, L!AskOthers, L!Confirm, L!Dismiss,
       L!Refresh, L!ServerEnds, L!EndRefused, L!EndAnswer, L!DialogDone, L!EndFails, L!FetchServed,
       L!FetchAnswer, L!FetchFails, sessionVars, Fetches
<1>10. ending' \subseteq SlEnding
  <2>1. /\ \A s \in Session : [end |-> {s}, by |-> "row", at |-> "sent"] \in SlEnding
        /\ [end |-> endAsked, by |-> "dialog", at |-> "sent"] \in SlEnding
    BY <1>1 DEF SlEnding
  <2>2. \/ ending' = ending
        \/ \E s \in Session : ending' = ending \cup {[end |-> {s}, by |-> "row", at |-> "sent"]}
        \/ ending' = ending \cup {[end |-> endAsked, by |-> "dialog", at |-> "sent"]}
        \/ \E e \in ending :
              \/ ending' = ending \ {e}
              \/ ending' = (ending \ {e}) \cup {[e EXCEPT !.at = "done"]}
              \/ ending' = (ending \ {e}) \cup (IF e.by = "dialog" THEN {[e EXCEPT !.at = "listing"]}
                                                ELSE {})
    BY Zenon DEF L!SlNext, L!Ask, L!EndRow, L!OtherEnds, L!AskOthers, L!Confirm, L!Dismiss,
       L!Refresh, L!ServerEnds, L!EndRefused, L!EndAnswer, L!DialogDone, L!EndFails, L!FetchServed,
       L!FetchAnswer, L!FetchFails, sessionVars
  <2>3. ASSUME NEW e \in ending,
               \/ ending' = ending \ {e}
               \/ ending' = (ending \ {e}) \cup {[e EXCEPT !.at = "done"]}
               \/ ending' = (ending \ {e}) \cup (IF e.by = "dialog" THEN {[e EXCEPT !.at = "listing"]}
                                                 ELSE {})
        PROVE  ending' \subseteq SlEnding
    <3>1. e \in SlEnding BY <1>1
    <3>2. [e EXCEPT !.at = "done"] \in SlEnding /\ [e EXCEPT !.at = "listing"] \in SlEnding
      BY <1>5, <3>1
    <3> DEFINE d == [e EXCEPT !.at = "done"]
               l == [e EXCEPT !.at = "listing"]
    <3>3. \/ ending' = ending \ {e} \/ ending' = (ending \ {e}) \cup {d}
          \/ ending' = (ending \ {e}) \cup (IF e.by = "dialog" THEN {l} ELSE {})
      BY <2>3, Zenon
    <3>4. d \in SlEnding /\ l \in SlEnding BY <3>2
    <3> HIDE DEF d, l
    <3> QED BY <1>1, <3>3, <3>4
  <2>4. ASSUME NEW s \in Session, ending' = ending \cup {[end |-> {s}, by |-> "row", at |-> "sent"]}
        PROVE  ending' \subseteq SlEnding
    BY <1>1, <2>1, <2>4, Zenon
  <2>5. ASSUME ending' = ending \cup {[end |-> endAsked, by |-> "dialog", at |-> "sent"]}
        PROVE  ending' \subseteq SlEnding
    BY <1>1, <2>1, <2>5, Zenon
  <2> QED BY <1>1, <2>2, <2>3, <2>4, <2>5, Zenon
<1> QED BY <1>3, <1>7, <1>8, <1>9, <1>10, Zenon DEF L!SlTypeOK, SlEnding, Fetches

-----------------------------------------------------------------------------
(* The console *)

\* A step of the console is, for each section, one of its steps or none.
LEMMA SectionSteps ==
    ASSUME [AdNext]_adVars
    PROVE  /\ [E!EdNext]_drawerVars /\ [U!UtNext]_userVars /\ [W!WzNext]_wizardVars
           /\ [S!StNext]_settingVars /\ [A!AuNext]_auditVars /\ [L!SlNext]_sessionVars
           /\ [D!DiNext]_directoryVars
BY Zenon DEF AdNext, adVars

\* The invariant gives the properties.
LEMMA WzReviews == WzInv => CreatedAsReviewed /\ W!WzTypeOK
<1> SUFFICES ASSUME WzInv PROVE CreatedAsReviewed /\ W!WzTypeOK OBVIOUS
<1>1. W!ReviewMatches
  BY DEF WzInv, WzTyped, WzPreviews, WzValid, W!ReviewMatches, W!previewCurrent, W!validateSource
<1>2. W!WzTypeOK
  BY DEF WzInv, WzTyped, WzPreviews, W!WzTypeOK, W!STEPS, WzCalls
<1> QED BY <1>1, <1>2 DEF WzInv, WzValid, CreatedAsReviewed

\* The only steps that close a drawer with changes: confirmed, or saved.
LEMMA DrawersClose ==
    ASSUME [E!EdNext]_drawerVars, E!dirty, drawer' = "closed"
    PROVE  asking = "discard" \/ write.of \in {"saved", "deleted"}
<1>1. drawer # "closed" BY DEF E!dirty, E!ready
<1>2. drawer' # drawer BY <1>1
<1>3. E!Settled \/ E!requestClose \/ E!Discard
  <2>1. ~E!OpenNew /\ ~E!OpenRow BY <1>1 DEF E!OpenNew, E!OpenRow
  <2>2. \/ drawer' = drawer \/ E!OpenNew \/ E!OpenRow \/ E!Settled \/ E!requestClose \/ E!Discard
    BY Zenon DEF E!EdNext, drawerVars, E!drawerVars, E!FetchOwn, E!FetchList, E!EditName, E!toggle,
       E!Template, E!EditGroups, E!copyFrom, E!CopyAnswer, E!submit, E!ConfirmSave,
       E!ConfirmDelete, E!CallDone, E!CallFailed, E!Dismiss, E!reset, E!GroupMembers, E!refresh,
       E!AtOnce, E!Other
  <2> QED BY <1>2, <2>1, <2>2
<1>4. CASE E!Settled BY <1>4 DEF E!Settled
<1>5. CASE E!Discard BY <1>5 DEF E!Discard
<1>6. CASE E!requestClose
  <2>1. UNCHANGED drawer BY <1>6, Zenon DEF E!requestClose
  <2> QED BY <1>2, <2>1
<1> QED BY <1>3, <1>4, <1>5, <1>6

\* Type correctness of every section of the console.
THEOREM ConsoleTyped == AdSpec => []TypeOK
<1> DEFINE Inv == /\ section \in Sections /\ EdInv /\ UtInv /\ WzInv /\ StInv /\ AuInv
                  /\ L!SlTypeOK /\ DiInv
<1>1. AdInit => Inv
  <2>1. AdInit => section \in Sections BY Zenon DEF AdInit
  <2> QED BY <2>1, EdInitial, UtInitial, WzInitial, StInitial, AuInitial, SlInitial, DiInitial
<1>2. Inv /\ [AdNext]_adVars => Inv'
  <2>1. [AdNext]_adVars => section' = section BY Zenon DEF AdNext, adVars
  <2> QED BY <2>1, EdPreserved, UtStep, WzPreserved, StPreserved, AuPreserved, SlPreserved,
             DiPreserved, SectionSteps
<1>3. Inv => TypeOK
  <2>1. StInv => S!StTypeOK BY DEF StInv, StRequest, S!StTypeOK
  <2>2. UtInv => U!TypeOK BY DEF UtInv
  <2>3. DiInv => D!DiTypeOK BY DEF DiInv, DiTyped
  <2> QED BY <2>1, <2>2, <2>3, EdSaves, WzReviews, AuPage DEF TypeOK
<1> QED BY <1>1, <1>2, <1>3, PTL DEF AdSpec

\* A save reported as done has left the row, its links and the groups with the role as its form
\* says, and no group gained or lost another role, if the drawer started from what the server
\* had, nobody else wrote since and no different form was tried before; whichever of its
\* requests were refused, lost or tried again (UserDrawer, GroupDrawer, RoleDrawer, ApiDrawer).
THEOREM DrawersHold == AdSpec => []SaveAsIntended
<1>1. EdInv /\ DiInv => SaveAsIntended BY EdSaves DEF DiInv, SaveAsIntended
<1> QED BY <1>1, EdInitial, EdPreserved, DiInitial, DiPreserved, SectionSteps, PTL DEF AdSpec

\* The permission matrix shows a box as ticked exactly when the server's engine would allow the
\* action (PermissionMatrix, rbac.Has), for every set of permissions.
THEOREM MatrixHolds == AdSpec => []MatrixMirrorsEngine
<1>1. MatrixMirrorsEngine BY MatrixTicks DEF MatrixMirrorsEngine, E!MatrixMirrorsEngine
<1> QED BY <1>1, PTL

\* No drawer with changes closes unless the user agreed to discard them or a write of the
\* drawer completed (requestClose in the drawers, pages/admin/common.tsx).
THEOREM UnsavedHolds == AdSpec => UnsavedAsked
<1> DEFINE Step == E!dirty /\ drawer' = "closed"
                   => asking = "discard" \/ write.of \in {"saved", "deleted"}
<1>1. [AdNext]_adVars => [Step]_E!edVars BY DrawersClose, SectionSteps
<1>2. AdSpec => [][Step]_E!edVars BY <1>1, PTL DEF AdSpec
<1> QED BY <1>2, PTL DEF UnsavedAsked, E!UnsavedAsked

\* The server refuses a change of the user list only if somebody else changed the accounts
\* meanwhile: the list never offers what would remove its own last administrator (UsersSection,
\* UserBulkActions).
THEOREM UserListHolds == AdSpec => []RefusedOnlyByOthers
<1>1. UtInv => RefusedOnlyByOthers BY DEF UtInv, RefusedOnlyByOthers, U!RefusedOnlyByOthers
<1> QED BY <1>1, UtInitial, UtStep, SectionSteps, PTL DEF AdSpec

\* What the review step shows as the preview of the address is one, unless an answer overtook
\* the form; an API is created only from a form both steps accept; the slug follows the name
\* until it is edited (ApiWizard).
THEOREM WizardHolds == AdSpec => []CreatedAsReviewed
BY WzInitial, WzPreserved, WzReviews, SectionSteps, PTL DEF AdSpec

\* A settled audit page shows the rows of the query it states, and some rows if any match,
\* unless a page was turned before its query was answered or the log was purged (AuditSection).
THEOREM AuditHolds == AdSpec => []PageIsTheOneAsked
BY AuInitial, AuPreserved, AuPage, SectionSteps, PTL DEF AdSpec

\* A save of a settings page changes what it is about and nothing else, unless another write
\* came between its handler's own read and write (admin_settings.go, SystemSection,
\* SessionSettingsSection).
THEOREM SettingsHold == AdSpec => UntouchedStays
<1>1. StInv /\ [S!StNext]_settingVars => [Untouched]_S!stVars BY StChanges
<1>2. AdSpec => [][Untouched]_S!stVars
  BY <1>1, StInitial, StPreserved, SectionSteps, PTL DEF AdSpec
<1>3. [][Untouched]_S!stVars => UntouchedStays
  BY PTL DEF UntouchedStays, S!UntouchedStays, Untouched
<1> QED BY <1>2, <1>3, PTL
=============================================================================
