----------------------------- MODULE PortalPages -----------------------------
(***************************************************************************)
(* What a signed-in developer works with: the catalogue (CatalogPage), the *)
(* reference of an API (OpenApi) with its try-it console (TryConsole), and *)
(* the keyboard of the shell around them (ShellKeys).  The pages are on    *)
(* the screen one at a time and share no state: each behaviour is a visit  *)
(* of one of them.                                                         *)
(***************************************************************************)
CONSTANTS Pages

\* CatalogPage
CONSTANTS Apis, Tag, Owner, Long, Short, None, MaxHistory, MaxMoves
\* TryConsole
CONSTANTS Operation, Api, ApiOf, KeyOf, Param, In, Required, Enum, Locked, Given, Extra,
          HistoryLimit, MaxSteps
\* ShellKeys
CONSTANTS CatalogApis, LastViewed, Matching, OpsOf, RECENT_MAX, Tabs, Items, ListPages, SkSteps
\* OpenApi
CONSTANTS Name, Root, Defs, MAX_DEPTH, Declared, Ops, TagOrder, OtherTags

VARIABLE page
VARIABLES hist, at, prefs, draft, listed, debounced, cache, previous, running, expandedFor,
          relaid, moves
VARIABLES op, mounted, visited, form, errors, request, answer, aborted, sending, result, failure,
          wait, store, history, saveDetails, steps
VARIABLES focus, drawer, help, palette, pending, recentKey, rendered, place, tab, item, listPage,
          starred, query, active, recent, found, stored, viewable, admin, uses, lastKey, skSteps
VARIABLES schemas, shared, own, operations, swagger2, reading

C == INSTANCE CatalogPage
T == INSTANCE TryConsole
K == INSTANCE ShellKeys
O == INSTANCE OpenApi

ASSUME CatalogAssumption == C!CatalogAssumption
ASSUME ConsoleAssumption == T!ConsoleAssumption
ASSUME ShellAssumption == K!ShellAssumption
ASSUME DocumentAssumption == O!DocumentAssumption

catalogVars == <<hist, at, prefs, draft, listed, debounced, cache, previous, running, expandedFor,
                 relaid, moves>>
consoleVars == <<op, mounted, visited, form, errors, request, answer, aborted, sending, result,
                 failure, wait, store, history, saveDetails, steps>>
shellVars == <<focus, drawer, help, palette, pending, recentKey, rendered, place, tab, item,
               listPage, starred, query, active, recent, found, stored, viewable, admin, uses,
               lastKey, skSteps>>
specVars == <<schemas, shared, own, operations, swagger2, reading>>
pagesVars == <<page, catalogVars, consoleVars, shellVars, specVars>>

PagesInit ==
    /\ page \in Pages
    /\ C!Init /\ (page # "catalog" => prefs.view = "grid")
    /\ T!Init /\ (page # "console" => op = (CHOOSE o \in Operation : TRUE) /\ ~saveDetails)
    /\ K!SkInit
    /\ IF page = "spec" THEN O!OaInit ELSE O!NoDocument

PagesNext ==
    \/ page = "catalog" /\ C!Next /\ UNCHANGED <<page, consoleVars, shellVars, specVars>>
    \/ page = "console" /\ T!Next /\ UNCHANGED <<page, catalogVars, shellVars, specVars>>
    \/ page = "shell" /\ K!SkNext /\ UNCHANGED <<page, catalogVars, consoleVars, specVars>>
    \/ page = "spec" /\ O!OaNext /\ UNCHANGED <<page, catalogVars, consoleVars, shellVars>>

\* Timers run out, searches and try-it requests are answered.
PagesSpec == PagesInit /\ [][PagesNext]_pagesVars /\ C!Fairness /\ T!Fairness

----------------------------------------------------------------------------
TypeOK == page \in Pages /\ C!TypeOK /\ T!TypeOK /\ K!SkTypeOK /\ O!OaTypeOK

\* Back does not step through the letters of a search (CatalogPage).
BackSkipsLetters == C!BackSkipsLetters

\* The console implements Exchange: a response on show answers the last request made of the
\* operation on show (TryConsole).
ConsoleKeepsPromise == T!ConsoleKeepsPromise

\* The history tells what was sent, under its own operation (TryConsole).
HistoryIsWhatWasSent == T!HistoryIsWhatWasSent

\* A text left in the search box gets its own results or an error (CatalogPage), and a try-it
\* request under way ends (TryConsole).
PagesSettle == C!SearchSettles /\ T!SendingEnds

\* Whenever something is done in the shell, the palette offers what is there and the recents
\* are what was used, in whichever tab (CommandPalette.tsx: items, run, readRecent); a sequence
\* takes both of its keys, one after the other, on the page (ShellKeys).
ShellKeepsWord == [][K!PaletteSound]_shellVars /\ K!SequenceNeedsBothKeys

\* Examples made from a specification fit it, its operations can be told apart, and its
\* parameters are asked for once (OpenApi).
SpecReadRight == O!ExamplesFit /\ O!KeysFind /\ O!ParametersOnce

=============================================================================
