# Verification of the internal API portal

TLA+ models of the portal's Go backend (`src/backend/internal`) and of its React front end
(`src/frontend/src`), TLC runs on small instances of them, and TLAPS proofs, for every
instance, of nearly all their safety properties. `PROJECT.json` maps each
definition to the lines it models and lists runs, mutants, findings, hazards and
theorems.

## The system

One Go process serves a React front end and keeps everything in one SQLite file. The
database is opened with a single connection (`db/db.go:35`): a statement or a
transaction is atomic and they run one after the other, but a handler is a *sequence*
of statements, and requests interleave between them. That is the concurrency all models
have in common: a request is a record that carries what it has read, each statement or
transaction is an action, and what a request read may be stale when it is used.

| Component | State | Operations | Interacts with |
|---|---|---|---|
| Login gate (`api/security.go`) | in-memory map of failures and locks per `ip\|user`, under a mutex | locked, fail (prunes), succeed | handleLogin calls it before and after the password check |
| Sessions (`api/session.go`, `store/sessions.go`) | sessions table: owner, last use, expiry, revoked | sign in, look up, touch, log out, revoke one / others / a user's, purge hourly | every request; account handlers revoke |
| Accounts (`api/admin_users.go`, `admin_people.go`) | users table: active, admin, must change, password | create, update, delete, reset, bulk activate, change password | revokes sessions; foreign key from sessions |
| RBAC and delegation (`rbac/`, `api/admin_groups.go`, `admin_roles.go`, `admin_people.go`) | groups, roles, permissions, memberships, directory mappings | set a user's groups, members, group roles, role permissions, create / delete, import | read by every permission check; directory sign-in mirrors groups |
| API definitions (`api/admin_apis.go`, `store/apis.go`) | definitions, owner group, access grants, encrypted headers | create, update, delete, set access, refresh | owner and access give scopes; header values are secrets |
| Secrets (`store/crypto.go`) | key in `app_secrets`, key ids in ciphertexts, keyring in memory | start, rekey, encrypt, decrypt | LDAP, Azure AD and header saves; the operator's environment |
| Specification refresh (`openapi/`, `store/catalog.go`) | cached specification, operation index, history | fetch, index, mark failure, background loop | API definitions; viewers trigger it |
| Azure AD and LDAP (`auth/`, `api/auth_handlers.go`) | external ids on users | callback, bind or create, pre-register, import | sessions, groups |
| Try-it proxy (`proxy/`, `netguard/`) | per-user invoke window | invoke: method, path, header policy, rate limit | definitions, scopes |
| Audit, settings, branding, catalogue, migrations, backups, metrics | log rows, settings rows, favourites, schema version, files | append / purge, save, read, migrate, back up | all handlers |
| Page session (`app.tsx`, `routes/AuthGate.tsx`, `lib/query.ts`, `hooks/queries.ts`, `LoginPage`) | route, query cache (`/me`, catalogue), "session established", requests in flight | sign in, out, change password, gate, 401 handling, favourites | the server's sessions; every other page is behind the gate |
| Catalogue page (`CatalogPage.tsx`, `lib/catalog.ts`, `GlobalSearch.tsx`) | filters in the address, browser history, layout preference, search results | filter, sort, lay out, type, search | catalogue query, search query |
| Try-it console (`TryIt.tsx`, `lib/history.ts`, `lib/openapi/request.ts`) | form, request under way, response, stored history | edit, send, cancel, wait, restore, clear | the proxy; the specification read by `lib/openapi` |
| Shell (`AppShell.tsx`, `shortcuts.ts`, `CommandPalette.tsx`) | pending key, dialogs, palette, recents in local storage | keys, palette search and run | all pages, other tabs |
| Admin editors, user list, session lists, directory drawers, API wizard, settings and audit pages (`pages/admin`) | forms over snapshots of the query cache, selections, questions, mutations under way | edit, save (one or several requests), switch, bulk change, end, import, preview, create, page | each backend component, other administrators |

What is hard here: checks and writes in different statements (the last administrator,
grants, sessions against resets); revocation racing requests already admitted; restarts
and crashes between making, using and dropping encryption keys; limits that depend on
several clocks (lock, window, prune; idle, age, touch, purge); scopes that reach a user
along several paths and imply one another. In the browser there is one thread but many
requests: answers come in any order, after the user signed out, left the page, edited the
form or was overtaken by another administrator; lists are changed before the server
answers and rolled back; a save of one form is several requests, each of which may fail.

What makes each part correct: the gate keeps every lock until its deadline; an ended
session stays ended, belongs to an existing account and does not outlive the rights it
was signed in with; an active administrator always remains and only administrators touch
administrators; a grant never exceeds what the grantor holds and nothing refers to a
deleted row; secrets stay readable through a key rotation and a copy of the database
alone says nothing once an external key is used. A page follows its session and shows
nobody else's data as fresh; optimistic changes end up as the server has them; the console
shows the answer to the request that was made, and the history what was sent; a save does
what its form says, also after one that failed half-way; what the page forbids and shows
as granted is what the server refuses and grants; nothing typed is dropped unasked.

## Modules

**LoginGate** - `attempts` is the gate's map, `login[s]` a sign-in between `locked()` and
`fail()`/`succeed()`. `Admit` is the check at the top of handleLogin, `Fail` and `Succeed`
what follows the password check, which holds no lock: sign-ins admitted before a lock
report after it. `Pruned`, `Counting` and `CountFailure` are the three parts of `fail()`.
A time is a number; the zero time of a new entry is -1. `recent` is history.

**Sessions** - `users`, `sessions` are the tables, `req[w]` a request. `Authenticate` and
`StartSession` are the two ends of a sign-in, `LookUp`, `Identify`, `Reject`, `Touch` the
statements of requireSession, then one action per self-service handler,
`RevokeUserSessions` for the sign-out loop of a handler, `PurgeSessions`, `Tick`, and
`Abandon` for a request whose context is cancelled. A password is a number that grows
with each change, `epoch` counts losses of access or admin rights, and a session records
both as they were at authentication (history the code does not keep).

**Accounts** extends Sessions with the administrators' handlers: `ReadTarget` reads one
target at a time and makes the checks the code makes on the row it read, `CountAdmins` is
CountActiveAdmins, then the write (`UpdateUser`, `UpdatePassword`, `ResetPassword`,
`DeleteUser`, `SetUsersActive`, `CreateUser`), then the sign-outs. Who may manage is a
constant set here (`Manager`); Grants is about where that right comes from.

**Keyring** - `column[s]` is a stored ciphertext: the key id in its prefix, the key that
sealed it and the plaintext. `Start` makes the keyring from the environment and
`app_secrets`, `Rekey` is the transaction at startup, `Stop` a stop or crash at any
point, `Arrive`/`ReadStored`/`WriteSecret` a save of LDAP, Azure AD or header secrets,
`CreateAPI` an insert. With `FollowsReadme` the operator changes keys only as the
repository's README describes. AES-GCM is abstracted to: only the sealing key opens.

**Rbac** - scopes as records, `Normalize`, `Valid` and the engine's `Has` with its
implications, as operators over a set of held scopes.

**Grants** extends Rbac with the tables scopes are resolved from. A request arrives with
the permissions requireSession loaded (`Arrive`: route and handler checks), reads what it
is about to replace (`ReadCurrent`), is checked by allowGrant (`CheckGrant`) and writes
(one action per operation, with the foreign keys' cascades); a write that breaks a
foreign key fails (`WriteFails`). `ImportIntoGroup` is one transaction of the import's
loop. `SignIn`, `ReadCurrent` and `SyncDirectoryGroups` are the mirroring of a directory
sign-in. `fresh` is history: no other request has written since this one began.

**PortalSession** - the browser's side of a session. A request is sent (with the cookie of
that moment), processed (`Serve`, `Handle`) and answered in three steps, so answers come in
any order; `Lose` is a failure of the network, `SessionEnds` a session ended under the page.
`Denied` is `wireSessionEnd`, with `AfterDenied` for `handleError`; `MeAnswerLate` is the
answer of a `/me` query that was removed, which still marks the session as established.
`ToggleFavorite` and `FavoriteAnswer` are onMutate, onError and onSettled of the favourites.
`overtaken` and `kept` are history: they mark the two ways, named below, in which the cache
keeps what it should not.

**CatalogPage** - the address (`hist`, `at`: the browser's history), the layout preference,
the search box and the debounced search. `parseFilters`, `filterApis`, `sortApis`, ... keep
the names of `lib/catalog.ts`. **TryConsole** - the form of an operation, one request under
way, the stored history; **Exchange** is the abstract specification it implements: the
answer on show is that of the last request made of the operation on show. **OpenApi** -
`resolveRef`, `mergeAllOf`, `exampleFromSchema`, `mergeParameters`, `assignKeys` over every
small document of the instance. `resolveRef`, `mergeAllOf` and the examples are recursive
functions, so that they can be proved about; parts of allOf that contain themselves are a set of
schemas each with a part in the set (`Loops`), where the code never returns; JavaScript's
`filter` and the values of a `Map` are the items at some places, in order (`AtPlaces`). A key made of method and
path is kept apart from an operationId: that nobody writes an operationId such as `GET /users` is
taken for granted, as `normalize.ts:80` does. **ShellKeys** - `onKey` with the two-key sequences, the
dialogs over the page, and the palette: `items`, `run`, recents that another tab also
writes. The scores of the fuzzy match are taken as the order of the list. **PortalPages**
composes the four: pages are on the screen one at a time, and each behaviour is a visit of one.

**Editors** - the drawers of a user, a group, a role and an API on the state they share:
the row, its links, the roles of all groups, each on the server and as the query cache has
it; `snapshot` and `form`; `write`, the requests of a save still to be answered (`UserCalls`,
`GroupCalls`, `RoleCalls`, `ApiCalls`), in the stages of `Stage`: the row, its links, the groups
that get a role, those that lose it (within a stage in any order). `quiet`, `tried` and
`write.sure` are history: whether the drawer opened on what the server had, and which forms
were tried since. `reset`, `GroupMembers` and `refresh` are the buttons that write
at once. A drawer has one save under way, since its button is busy. `coveredBy` is the
permission matrix, compared with Rbac's `Has`. **UserTable** - the user list with filters,
sorting, pages and selection, status switches under way together (optimistic change,
rollback, refetch), bulk changes and deletion by `users/rules.ts`, over the server's account
rules. **SessionList** - the three lists that end sessions, with the confirmation dialog.
**Directory** - LDAP search, ticks and import, Azure AD pre-registration.  **ApiWizard** -
steps, preview, creation in two requests. **SettingsForms** - the four settings pages over
`handleUpdateSystem`, `handleUploadSystemLogo` and the others as read and write.
**AuditView** - filter, paging, placeholder and late answers over a log that grows and is
purged. **AdminConsole** composes the seven: `AdminPage` shows one section at a time, and
each behaviour is a visit of one, with another administrator writing meanwhile.

The proof modules `LoginGateProofs`, `AccountsProofs`, `SerialProofs` (on top of
`AccountsProofs`), `KeyringProofs`, `GrantsProofs`, `PortalSessionProofs`,
`AdminConsoleProofs` and `PortalPagesProofs` extend the modules they are about; the `MC` modules
give TLC its inputs.

## Runs

| Run | Result | Instance |
|---|---|---|
| `login_gate` | holds | 2 keys, 3 sign-ins, 2 failures lock, lock = window = 2, prune always, clock to 6: a key locks, the lock expires, the window expires and it locks again, with two late reporters |
| `account_serial` | holds | one request at a time, 3 accounts (administrator, manager, one to be created), 2 sessions, every operation, batches of two |
| `account_sessions` | holds | 2 interleaved requests: sign-in, use, logout, deletion, cancellation; the clock passes idle timeout, maximum age and purge |
| `session_purge` | holds | the same tables with fairness |
| `last_admin_race` | **violated** | 2 administrators, 2 interleaved updates |
| `keyring` | holds | 4 keys (an old database key and two rotations), an API, 2 concurrent saves, crashes anywhere, keys changed as documented |
| `keyring_headers` | **violated** | the same for every ciphertext, headers included |
| `grants` | holds | administrator, delegated manager, directory user; 3 groups, 3 roles, an API; 2 interleaved requests, none beginning after 2 writes |
| `delete_any_api` | **violated** | the same with one request at a time |
| `portal_session` | holds | 2 users (one with a temporary password), an API, 2 sign-ins, 2 clicks, a lost request, a session ended, 2 requests in flight |
| `portal_pages` | holds | catalogue: 3 texts, 5 moves; console: 2 operations of 2 APIs, 3 parameters, 6 steps, history of 2; shell: 2 APIs, 2 operations, 4 keys or clicks; documents of 3 schemas, depth 3 |
| `admin_console` | holds | 7 sections; 2 groups, 2 roles, 3 accounts, 3 sessions, 2 people of a directory; 4 to 10 clicks, one failure and one change by somebody else in each |

What the passing runs show:

- `login_gate`: counter and deadline stay in range (`TypeOK`, `DeadlineInWindow`); no late
  failure, expired window or pruning cuts a lock short (`LockIsKept`). `GuessingBounded`:
  after a lock falls, fewer guesses get through than there are requests in flight; and the
  window being fixed, not sliding, more than 2 (MaxFailures - 1) failures without a lock
  span more than one window.
- `account_serial`: taken one at a time, no handler removes the last active administrator
  (batches with repeated or several administrators included), nobody demotes, deactivates
  or deletes themselves, a manager changes no administrator and makes none, and losing
  password, access or admin rights ends the sessions that relied on them. The rules on who
  may do what to whom are one property, `ManagementRules`.
- `account_sessions`: the foreign key keeps a late sign-in from giving a deleted account
  a session, and no request that had looked a session up brings it back.
- `session_purge`: revoked and expired sessions are eventually deleted.
- `keyring`: with documented rotations the two configuration secrets are readable after
  every crash, the database key is deleted only when no configuration secret needs it,
  and once serving with an external key the database has neither it nor a configuration
  secret under another key.
- `grants`: no interleaving leaves a membership, role, permission, owner, access grant or
  mapping on a row that does not exist; a request by a non-administrator that nobody
  wrote during gives nobody a scope they and the grantor did not hold, implications,
  ownership, access and directory mappings included; a sign-in nobody wrote during
  mirrors the directory and leaves unmapped groups alone.
- `portal_session`: a catalogue of another user is never taken for fresh, except one the gate
  left in the cache (`ForeignIsStale`);
  once clicks are answered the stars are the server's (`StarsSettle`); a sign-in returns to
  the place it interrupted, through failed attempts and a forced change of password
  (`ReturnsToPlace`); a 401 leads to the sign-in page, and whoever is signed in does not stay
  there (`SessionFollowed`).
- `portal_pages`: Back does not step through the letters of a search (`BackSkipsLetters`);
  the console implements Exchange (`ConsoleKeepsPromise`) and its history holds what was
  sent (`HistoryIsWhatWasSent`); a text left in the box gets its own results, and a request
  under way ends (`PagesSettle`); a sequence takes both its keys, and the palette's recents
  are what was used last in any tab (`ShellKeepsWord`); examples fit their schema, recursive
  ones included, keys are unique and parameters asked for once (`SpecReadRight`).
- `admin_console`: a save reported as done did what its form said and no more, also after a
  half-failed one, and an import takes whom the user picked (`SaveAsIntended`); the matrix ticks what
  the engine allows (`MatrixMirrorsEngine`); unsaved changes are not dropped unasked
  (`UnsavedAsked`); the server refuses only what another administrator made impossible
  (`RefusedOnlyByOthers`); lists end up as the server has them (`ListsSettle`); an API is
  created from a form its steps accept, as reviewed (`CreatedAsReviewed`); a settings save
  leaves the rest alone (`UntouchedStays`); the audit page shows the page it states
  (`PageIsTheOneAsked`).

Each of the last two runs asks its modules' questions together: a property of a composition is
the conjunction of the ones its comment names.

Every property has a mutant: a plausible error in one definition that makes TLC violate
it. They are defined beside the definition they change.

**Bounds.** Clocks stop (`MaxClock`), passwords and losses of rights are counted to
`MaxChanges`, Grants starts no request after `MaxWrites` writes; all are in guards or
enablings. Two interleaved requests suffice for every race of a read and a later write;
the instances of `grants` are chosen so that two writes lead to each interesting case
(a mapped group and a sign-in; a role that gained a scope and its assignment; an owned
API and the deletion of its owner). The front end's
modules count clicks, failures and changes by others; each bound is a constant in a guard,
large enough for the longest sequence a property is about (fill in, save, fail, save again;
three steps of the wizard with a preview; two overlapping switches with a refetch). TLC's
deadlock check is off where the clock or the bound ends the behaviour, and on in the keyring runs, which can always restart.

**Symmetry** over requests or keys is used only in runs without liveness, where the
specification does not tell them apart.

**Fairness.** `session_purge`: weak fairness of `PurgeSessions`, which a ticker goroutine
runs every hour for the life of the process, and of `Tick`. The front end's runs assume that
a request ends (the server processes and answers it, or the network fails: `Serve`, `Answer`,
kind by kind, in PortalSession; `Invoke`, `Answered`, `Cancelled` in TryConsole, where the proxy has a
timeout; `UtFairness`, `SlFairness`), that the debounce timer fires and that React draws
the redirects. Nothing is assumed of users or of other administrators.

## Where the code departs from its documents

- `last_admin_race`: `adminChangeProblem` counts in one statement and the handler writes
  in another. Two administrators who demote each other at once both pass (README: "the
  last active administrator can't be deactivated, demoted or deleted").
- `keyring_headers`: `encryptedColumns` misses `api_definitions.inject_headers_enc`; after
  a documented rotation an API's headers cannot be read, nor entered again, since
  UpdateAPIDefinition decrypts the old ones first.
- `delete_any_api`: requireAPIManagement does not admit the global `api.delete`, so its
  holder is refused before the handler that honours it.

Seen while modelling and not stated as findings: the delegation check is on groups and
permissions read before the write, so a request that overlaps another one can put back a
group that was just taken away (`fresh` excludes this from `NoEscalation`); an update of
a user is checked on a row read before; change-password overwrites a reset made
meanwhile; a save of an API writes back the owner it was loaded with; an abandoned reset
leaves the user's sessions; a sign-in whose password was checked before a reset inserts its
session after the reset ended the user's (why `LossEndsSessions` is stated for one request
at a time); a secret whose key is not configured is read as empty and a blank save stores
the empty one. In the front end: a click on a star that settles after the catalogue was left
may leave an older answer taken for fresh (`overtaken`); a 401 of an earlier session answered on
the sign-in page, after `/me` succeeded there, uses up `sessionEstablished` (`query.ts:20`,
`app.tsx:20`), so that the end of the next session reaches AuthGate's redirect, which clears no
cache, and whoever signs in then sees that catalogue as fresh (`kept`); a drawer opened again
before its links were fetched anew starts from the old ones, and its save writes what it does
not show (`quiet`); the console's history keeps header
parameters although `lib/history.ts:3` says header values never; two APIs with the same
operation key share one console form (`TryIt.tsx:71`); the retry of a half-done creation is refused by the
name it took; `mergeAllOf` has no guard against a schema that is part of itself; edits made
while a save settles are closed away with the drawer (`common.tsx:31`), and those of a settings
page with any refetch of it (`SystemSection.tsx:35`).

## Proofs

36 theorems, all for every value of the constants. They assume only the named facts about
constants, which TLC evaluates in the runs: `GateConstants`, `LockoutFitsWindow`,
`NoAttemptIsNoEntry`, `SignInsFinite`, `SessionConstants`, `AccountConstants`,
`KeyringConstants`, `RbacConstants`, `GrantConstants`, `NoneIsNoRequest`, `ConstantsAssumption`
(PortalSession), of the admin sections `EditorsAssumption`, `UserTableAssumption`,
`WizardAssumption`, `AuditAssumption`, `SettingsAssumption`, `DirectoryAssumption`, and of the
pages `CatalogAssumption`, `ConsoleAssumption`, `ShellAssumption`, `DocumentAssumption`. They
say that the id spaces are apart, that bounds are numbers, that a document has finitely many
schemas and that the instance starts in a state the program can be in
(`GrantConstants`: the inputs carry ids of the tables their route is about, `WellFormed`).
Each invariant below was checked with TLC before it was proved.

- **LoginGateProofs.** `TypeCorrect`; `DeadlineSafe`: a deadline lies within `Lockout` of
  its window's start, which is inductive with the types because a lock restarts the
  window; `LockKept` follows: since `Lockout <= Window`, an expired window or a pruned
  entry has an expired lock, so neither the restart nor pruning drops a standing lock.
  `GuessesBounded` counts. A sign-in that was let in before a lock fell is one of those still
  checking; each failure it reports is one of them fewer, and the lock lets no other in: the
  failures of a key since its lock and the sign-ins still checking it are together fewer than
  those in flight (`LockStops`). And an entry's count is at most the failures of its own window,
  which is why more than two windows' worth of failures cannot lie within one (`WindowInv`).
- **AccountsProofs.** `TypeCorrect` by the invariant `TypeInv`, which adds what each
  request's program counter says of its fields (targets in range, users to sign out).
  `OwnerExists` and `EndedForGood` rest on one lemma about all actions (`RowsStep`): rows
  change only forward (unused, live, gone), owner and expiry are fixed at insertion, a
  revocation is never undone, and only a live account gets a session. They hold for any
  number of concurrent requests.
- **SerialProofs**, with one request at a time (`Alone`), for any users, sessions and lists of
  ids. `SerialLastAdmin`: an active administrator remains. The invariant `AdminInv` says what
  the handler under way has established: the administrators its change would remove are at most
  as many as it counted, and at the write fewer than there are. `last_admin_race` shows that
  `Alone` is needed. `SerialRules`: the handlers do what the rules on accounts say, since what a
  request read is still so when it writes (`Informed`). `SerialLoss`: no session outlives the
  password, access or rights it was signed in with, also assuming that nobody hangs up
  (`"abandon" \notin Op`: the sign-outs follow the write, and a cancelled request never gets to
  them). `SessionsInv` is the strengthening: every usable session is current, or its owner is
  among those the handler under way has still to sign out (`Due`).
- **KeyringProofs.** `DatabaseKeyLast` for any operator. `RotationKeepsSecrets` and
  `DatabaseAlone` for an operator who follows the README, by `KeysInv`: every
  configuration secret is under a key of the last configuration or the one in the
  database, and once settled under the current one; a new key was never used before.
- **GrantsProofs**, for any number of requests in flight, by `GrantsInv`. `TypeCorrect` and
  `ReferencesLive` need of the requests only that their ids are of the right tables (`ReqInv`):
  the foreign keys and cascades do the rest, however stale a request is. `NoEscalationHolds`
  needs `FreshInv`: as long as nobody else wrote, what a request read is what the tables hold
  (`Knows`), and once checked, every scope its write would newly give (`Gives`) is one the actor
  holds. The last step is about the engine alone: `Has` depends on each held scope by itself and
  is transitive, so replacing scopes by ones the grantor has adds nothing the grantor had not.
  `SyncMirrorsHolds` uses the same freshness for the mappings and memberships a sign-in read.
- **PortalSessionProofs.** `SessionTyped` by `Typed`, which says what each request in flight and
  its answer carry, since late answers set the caches. `PlaceReturned` is an action property: on
  the sign-in page the place to return to is the one last left. `ForeignKnown` and `StarsTold`
  are about the cache, and neither is inductive: `Consistent` adds whose each read in flight is
  and how fresh (`MeOwn`, `ReadOwn`, `ReadFresh`, one catalogue read at a time), that the
  sign-in page has cleared the cache (`Cleared`), and that while a click is under way
  (`Clicking`) the cache is left to `onSettled`, which invalidates it.
- **AdminConsoleProofs.** The sections share no variable, so each has an invariant of its own,
  and `SectionSteps` puts them together: a step of the console is a step of one section.
  `ConsoleTyped`. `DrawersHold` by `EdInv`: a request of a save still to come is one its form
  and snapshot call for (`EdCalls`), the snapshot is what the server had when the drawer opened
  (`EdOpen`), and everything not to be written any more is as the form says (`EdSure`), which
  carries over a failure and a second save of the same form; with `DiInv` for imports.
  `MatrixHolds` is the agreement of `coveredBy` with `Has`, for every set of scopes.
  `UnsavedHolds` is an action property of the drawers. `UserListHolds` by `UtInv`: nothing under
  way turns against the administrator looking at the list, so while nobody else interferes they
  remain one and the server has nothing to refuse. `WizardHolds` by `WzInv`, `AuditHolds` by
  `AuInv` (a query not yet answered is under way or failed, and offsets stay inside a log that
  only grows unless it is purged), `SettingsHold` by `StInv` (at most one request of a kind is
  live, and only the system page uploads).
- **PortalPagesProofs.** The pages share no variable either: one invariant each, put together by
  `PageSteps`. `TypesHold`. `BackSkips` by `NoLetters`: typing on replaces an entry that may
  have others after it, so two neighbouring searches differ in more than their text, equal texts
  included, unless an entry got its layout on arrival or was pushed twice (`relaid`).
  `HistoryHolds` and `PromiseKept` by `ConsoleInv`, in which the button is busy exactly while
  there is a request and that request passed the checks when it was made (`Calling`).
  `PromiseKept` is the refinement of Exchange, step by step, for operations whose keys differ
  (`KeysApart`; what `assignKeys` makes of a document, `DocumentReadRight` below): React would
  keep the form of one operation, and the response on show with it, for another of the same key.
  `ShellHolds` by `PaletteInv`: the stored recents are the last items used (`Recents`) and those
  a tab has read repeat none, so neither does a list of them and of what is not among them; and
  for sequences `Waits`: one waits only after its first key, which reached the page.
  `DocumentReadRight` is about one step, but of a document of any size: sorting numbers the
  operations (`Placings`, `SortedLists`: an order without ties is a bijection), two of them
  never get one key (`KeysDiffer`), the first is least by group and place (`FirstFound`), and of
  the parameters of one name and place the last counts where the first stood (`Merged`). Its
  part about examples, however schemas refer to each other, needs an argument about recursion.
  `Reached` is an induction over data with a set in place of a predicate: what holds of an
  element of a finite set whenever it holds of those it needs holds of all, if no set of
  elements each needs another of the set. From it follows that each recursive function satisfies
  its equation: `resolveRef` along the references not yet seen (`FollowDefined`), `mergeAllOf`
  along parts of allOf that do not contain themselves (`MergeDefined`), the example and what fits
  along the schemas not yet on the path (`ExampleDefined`, `FittingDefined`). `ExamplesSuit` goes
  down the same paths: what is built at a place is among what fits there, and it overflows
  only where an allOf loops.

Three attempts at a proof failed for a good reason and changed the models: `SaveAsIntended` did not
exclude a drawer opened on links not fetched anew, and `ForeignIsStale` not a catalogue kept by
the gate. Both counterexamples lay beyond the bounds of the runs (TLC finds them with a few more
clicks, and with a third sign-in and a second ended session); both are
listed above as what the code does, and are now named in the history variables `quiet` and
`kept`, in the properties' comments, and, the second, among the hazards. The third was
`ExamplesFit`, which took an allOf with an example of its own, at the deepest level the code
still looks at, for too deep, while `exampleFromSchema` answers with the example before it
merges the parts and goes a level deeper (`schema.ts:106`). The property was corrected, and the documents of
`portal_pages` now have such a schema.

Only model-checked: `EndedArePurged`, `SessionFollowed`, `PagesSettle`, `ListsSettle` (liveness,
out of the prover's reach). Every other property of a passing run is a theorem.

## Plan

1. LoginGate, Sessions, Accounts, Keyring, Rbac, Grants: done.
2. The front end: PortalSession; CatalogPage, TryConsole with Exchange, OpenApi and ShellKeys
   under PortalPages; Editors, UserTable, SessionList, Directory, ApiWizard, SettingsForms
   and AuditView under AdminConsole: done.
3. Proofs of Accounts, Keyring, LoginGate, Grants, PortalSession, AdminConsole and PortalPages,
   every safety and action property of the runs: done.
4. Open: refreshes of specifications (cache and index in separate statements), the invoke
   window, the binding of an Azure AD account at its first sign-in, migrations.

## Not modelled

Cookies, CSRF, request limits, JSON, logging, metrics: they guard or report and keep no
state a property is about. Argon2id, AES-GCM, TLS, LDAP and OIDC are taken to work; the
models use only their verdicts. Names, descriptions and e-mail addresses are not told
apart (`handleUpdateRole` therefore does nothing). Specification refresh, the proxy's path
and header policy and its rate window, migrations and backups are open (see the plan). Of
the front end: texts, styles and presentational components; the overview, access and
activity tabs, the response viewer and the snippets, which show one query each; connection
tests, which change nothing. Component by component: `PROJECT.json`.
