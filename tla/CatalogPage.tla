----------------------------- MODULE CatalogPage -----------------------------
(***************************************************************************)
(* The catalogue (frontend/src/pages/CatalogPage.tsx, lib/catalog.ts) and  *)
(* the search box above it (components/shell/GlobalSearch.tsx).  The       *)
(* filters live in the URL, so the state is the browser's history; the     *)
(* layout chosen last lives in the browser's storage; the operation search *)
(* (hooks/queries.ts) follows the typed text after a pause.                *)
(***************************************************************************)
EXTENDS Naturals, Sequences, FiniteSets, SequencesExt

CONSTANTS Apis,        \* the APIs the server may list, as records (see ApiRecord)
          Tag, Owner,
          Long, Short, \* search texts of two characters and more, and a shorter one
          None,
          MaxHistory,  \* bound: entries of the browser's history
          MaxMoves     \* bound: clicks, keystrokes and navigations

VARIABLES
    hist, at,     \* the browser's history and the entry shown
    prefs,        \* localStorage: the view and the sort order chosen last
    draft,        \* GlobalSearch: what was typed in the box
    listed,       \* the catalogue last fetched
    debounced,    \* useDebounced: the text the search follows
    cache,        \* search results by query key: the text they answer
    previous,     \* the text of the results shown last (placeholderData)
    running,      \* the search under way, by the text it asks for
    expandedFor,  \* the text whose results are shown in full
    relaid,       \* history: an entry got the remembered layout on arrival, or
                  \* a click on the layout in use repeated an entry
    moves

vars == <<hist, at, prefs, draft, listed, debounced, cache, previous, running,
          expandedFor, relaid, moves>>
searchVars == <<debounced, cache, previous, running, expandedFor>>

Text == Long \cup {Short, ""}
Statuses == {"favorites", "invoke", "manage", "specError", "specStale", "inactive"}
Sorts == {"name", "viewed", "refreshed"}
Views == {"grid", "list"}
Layout == [sort: Sorts, view: Views]
Filters == [q: Text, tags: SUBSET Tag, owners: SUBSET Owner, status: SUBSET Statuses,
            sort: Sorts, view: Views]
\* The search parameters of a URL; sort and view may be missing.
Params == [q: Text, tags: SUBSET Tag, owners: SUBSET Owner, status: SUBSET Statuses,
           sort: Sorts \cup {""}, view: Views \cup {""}]
Plain == [q |-> "", tags |-> {}, owners |-> {}, status |-> {}, sort |-> "", view |-> ""]

\* What the APIs listed are like, and the texts; the modules of the runs assume it.
ApiRecord ==
    [id: Nat, name: Nat, tags: SUBSET Tag, owner: Owner \cup {None}, words: SUBSET (Long \cup {Short}),
     spec: {"ok", "missing", "error"}, refreshed: Nat, staleBefore: Nat, viewed: Nat,
     favorite: BOOLEAN, invoke: BOOLEAN, manage: BOOLEAN, view: BOOLEAN, tryIt: BOOLEAN,
     active: BOOLEAN]
CatalogAssumption ==
    /\ Apis \subseteq ApiRecord
    /\ None \notin Owner
    /\ {"", "error", None} \cap (Long \cup {Short}) = {}
    /\ MaxHistory \in Nat \ {0} /\ MaxMoves \in Nat

----------------------------------------------------------------------------
(* lib/catalog.ts                                                          *)

parseFilters(p) ==
    [p EXCEPT !.sort = IF @ = "" THEN "name" ELSE @, !.view = IF @ = "" THEN "grid" ELSE @]

\* Defaults are left out.
filtersToParams(f) ==
    [f EXCEPT !.sort = IF @ = "name" THEN "" ELSE @, !.view = IF @ = "grid" THEN "" ELSE @]

hasFilters(f) == f.q # "" \/ f.tags # {} \/ f.owners # {} \/ f.status # {}

specHealth(api) ==
    IF api.spec = "error" THEN "error"
    ELSE IF api.spec = "missing" \/ api.refreshed = 0 THEN "missing"
    ELSE IF api.refreshed < api.staleBefore THEN "stale" ELSE "ok"

accessLevel(api) ==
    IF api.manage THEN "manage" ELSE IF api.invoke THEN "invoke"
    ELSE IF api.view THEN "view" ELSE "none"

matchesStatus(api, s) ==
    CASE s = "favorites" -> api.favorite
      [] s = "invoke"    -> api.invoke /\ api.tryIt
      [] s = "manage"    -> accessLevel(api) = "manage"
      [] s = "specError" -> specHealth(api) \in {"error", "missing"}
      [] s = "specStale" -> specHealth(api) = "stale"
      [] s = "inactive"  -> ~api.active

\* Tags and owners: any of the chosen; status filters: all of the chosen.
filterApis(apis, f) ==
    {api \in apis :
        /\ f.q # "" => f.q \in api.words
        /\ f.tags # {} => f.tags \cap api.tags # {}
        /\ f.owners # {} => api.owner \in f.owners
        /\ \A s \in f.status : matchesStatus(api, s)}

Before(sort, a, b) ==
    LET key(x) == CASE sort = "viewed" -> x.viewed [] sort = "refreshed" -> x.refreshed
                    [] OTHER -> 0
    IN  key(a) > key(b) \/ (key(a) = key(b) /\ a.name <= b.name)

sortApis(apis, sort) == SetToSortSeq(apis, LAMBDA a, b : Before(sort, a, b))

countByStatus(apis, s) ==
    Cardinality(filterApis(apis, [parseFilters(Plain) EXCEPT !.status = {s}]))

----------------------------------------------------------------------------
(* What the page shows.                                                    *)

OnCatalog == hist[at].page = "catalog"
filters == parseFilters(hist[at].params)
visible == sortApis(filterApis(listed, filters), filters.sort)

\* The "problems" count of the page header, and its link to the status filter.
specProblems == Cardinality({a \in listed : specHealth(a) \in {"error", "missing"}})

\* The facets FilterPanel offers: those of the catalogue, and a status still chosen.
Facets ==
    [status |-> {s \in Statuses : countByStatus(listed, s) > 0 \/ s \in filters.status},
     owners |-> {a.owner : a \in listed} \ {None},
     tags |-> UNION {a.tags : a \in listed}]

\* Favourites and the five APIs opened last, when nothing is filtered.
Shortcuts ==
    LET recent == sortApis({a \in listed : a.viewed > 0}, "viewed")
    IN  [favorites |-> {a \in listed : a.favorite},
         recent |-> SubSeq(recent, 1, IF Len(recent) < 5 THEN Len(recent) ELSE 5)]

\* What can be opened from here: a card or row, a shortcut, the "Try it" of a card.
Links ==
    {<<a.id, "overview">> : a \in Range(visible)}
        \cup {<<a.id, "reference">> : a \in
                {b \in Range(visible) : filters.view = "grid" /\ b.invoke /\ b.tryIt /\ b.active}}
        \cup IF hasFilters(filters) THEN {}
             ELSE {<<a.id, "overview">> : a \in Shortcuts.favorites \cup Range(Shortcuts.recent)}

\* lib/query.ts: one cache entry for each text.
SearchKey(q) == q

\* The text whose results OperationResults shows; None while they are pending.
ShownFor ==
    IF cache[SearchKey(debounced)] # None THEN cache[SearchKey(debounced)] ELSE previous

Searching == OnCatalog /\ filters.q \in Long

----------------------------------------------------------------------------

TypeOK ==
    /\ at \in 1..Len(hist) /\ Len(hist) <= MaxHistory
    /\ \A i \in 1..Len(hist) : hist[i].page \in {"catalog", "other"} /\ hist[i].params \in Params
    /\ prefs \in Layout
    /\ listed \subseteq Apis
    /\ {draft, debounced, expandedFor} \subseteq Text
    /\ cache \in [Text -> Text \cup {None, "error"}]
    /\ previous \in Text \cup {None}
    /\ running \subseteq Text
    /\ relaid \in BOOLEAN

Init ==
    /\ hist = <<[page |-> "other", params |-> Plain]>> /\ at = 1
    /\ prefs \in {[sort |-> "name", view |-> "grid"], [sort |-> "viewed", view |-> "list"]}
    /\ draft = ""
    /\ listed = Apis
    /\ debounced = "" /\ cache = [q \in Text |-> None] /\ previous = None
    /\ running = {} /\ expandedFor = ""
    /\ relaid = FALSE /\ moves = 0

Move == moves < MaxMoves /\ moves' = moves + 1

----------------------------------------------------------------------------
(* History.                                                                *)

Push(e) == /\ at < MaxHistory
           /\ hist' = Append(SubSeq(hist, 1, at), e)
           /\ at' = at + 1
Replace(e) == hist' = [hist EXCEPT ![at] = e] /\ at' = at
Catalog(p) == [page |-> "catalog", params |-> p]

\* The effect of CatalogPage's first render: the remembered layout joins the URL.
Entered(p) ==
    LET f == parseFilters(p)
        next == [f EXCEPT !.view = IF p.view = "" THEN prefs.view ELSE @,
                          !.sort = IF p.sort = "" THEN prefs.sort ELSE @]
    IN  IF next = f THEN p ELSE filtersToParams(next)

\* Mounting the page starts its search at the text of the URL.
Mounted(p) ==
    /\ debounced' = p.q /\ expandedFor' = "" /\ previous' = None
    /\ running' = IF p.q \in Long /\ cache[SearchKey(p.q)] = None THEN {p.q} ELSE {}
    /\ UNCHANGED cache
Unmounted == running' = {} /\ UNCHANGED <<debounced, cache, previous, expandedFor>>

\* The "Catalogue" link of the shell; on the plain catalogue it changes nothing.
OpenCatalog(p) ==
    /\ Move
    /\ IF OnCatalog
       THEN /\ hist[at].params # p /\ Push(Catalog(p)) /\ UNCHANGED searchVars
       ELSE /\ Push(Catalog(Entered(p))) /\ Mounted(p)
    /\ UNCHANGED <<prefs, draft, listed, relaid>>

\* Following one of the links of the page.
Leave ==
    /\ OnCatalog /\ Links # {} /\ Move
    /\ Push([page |-> "other", params |-> Plain])
    /\ Unmounted
    /\ UNCHANGED <<prefs, draft, listed, relaid>>

\* Back (-1) and Forward (1) of the browser.
Go(step) ==
    LET to == at + step IN
    /\ to \in 1..Len(hist) /\ Move
    /\ at' = to
    /\ IF hist[to].page = "catalog" /\ ~OnCatalog
       THEN /\ hist' = [hist EXCEPT ![to].params = Entered(@)]
            /\ relaid' = (relaid \/ hist' # hist)
            /\ Mounted(hist[to].params)
       ELSE /\ UNCHANGED <<hist, relaid>>
            /\ IF hist[to].page = "catalog" THEN UNCHANGED searchVars ELSE Unmounted
    /\ UNCHANGED <<prefs, draft, listed>>

----------------------------------------------------------------------------
(* Filters.                                                                *)

Patched(old, patch) == [k \in DOMAIN old |-> IF k \in DOMAIN patch THEN patch[k] ELSE old[k]]

rememberLayout(patch) == Patched(prefs, patch)

\* update(patch): a patch of the layout is remembered, every change is a history entry.
Update(patch) ==
    /\ OnCatalog /\ Move
    /\ prefs' = rememberLayout(patch)
    /\ Push(Catalog(filtersToParams(Patched(filters, patch))))
    /\ relaid' = (relaid \/ hist'[at'] = hist[at])
    /\ UNCHANGED <<draft, listed, searchVars>>

SetLayout ==
    \/ \E v \in Views : Update([view |-> v])
    \/ \E s \in Sorts \ {filters.sort} : Update([sort |-> s])

\* A box of FilterPanel, or the chip of a filter that is on.
Flip(set, v) == IF v \in set THEN set \ {v} ELSE set \cup {v}
Toggle ==
    \/ \E s \in Facets.status : Update([status |-> Flip(filters.status, s)])
    \/ \E o \in Facets.owners \cup filters.owners : Update([owners |-> Flip(filters.owners, o)])
    \/ \E t \in Facets.tags \cup filters.tags : Update([tags |-> Flip(filters.tags, t)])

ShowProblems == specProblems > 0 /\ Update([status |-> {"specError"}])

RemoveText == filters.q # "" /\ Update([q |-> ""])

ClearFilters ==
    hasFilters(filters) /\ Update([q |-> "", tags |-> {}, owners |-> {}, status |-> {}])

\* The catalogue is fetched again; other APIs may be listed.
Refetch == \E s \in {Apis, {a \in Apis : a.spec # "error"}} \ {listed} :
    /\ Move
    /\ listed' = s
    /\ UNCHANGED <<hist, at, prefs, draft, relaid, searchVars>>

----------------------------------------------------------------------------
(* The search box.                                                         *)

\* Mutant of Type: every letter is a history entry.
TypePushes(t) ==
    /\ t # (IF OnCatalog THEN hist[at].params.q ELSE draft) /\ Move
    /\ draft' = t
    /\ IF OnCatalog THEN Push(Catalog([hist[at].params EXCEPT !.q = t])) ELSE UNCHANGED <<hist, at>>
    /\ UNCHANGED <<prefs, listed, relaid, searchVars>>

\* On the catalogue the first letter is a history entry, the next ones replace it.
Type(t) ==
    /\ t # (IF OnCatalog THEN hist[at].params.q ELSE draft) /\ Move
    /\ draft' = t
    /\ IF ~OnCatalog THEN UNCHANGED <<hist, at>>
       ELSE LET e == Catalog([hist[at].params EXCEPT !.q = t])
            IN  IF hist[at].params.q = "" THEN Push(e) ELSE Replace(e)
    /\ UNCHANGED <<prefs, listed, relaid, searchVars>>

\* Enter on another page opens the catalogue with the text.
Submit ==
    /\ ~OnCatalog /\ Move
    /\ LET p == [Plain EXCEPT !.q = draft] IN Push(Catalog(Entered(p))) /\ Mounted(p)
    /\ draft' = ""
    /\ UNCHANGED <<prefs, listed, relaid>>

----------------------------------------------------------------------------
(* The operation search.                                                   *)

\* Mutant of Debounce: a failure counts as the results to go on showing.
DebounceKeepsError ==
    /\ OnCatalog /\ debounced # filters.q
    /\ debounced' = filters.q
    /\ previous' = ShownFor
    /\ running' = IF filters.q \in Long /\ cache[SearchKey(filters.q)] \notin Long
                  THEN {filters.q} ELSE {}
    /\ UNCHANGED <<hist, at, prefs, draft, listed, cache, expandedFor, relaid, moves>>

\* Mutant of Debounce: results on show, of any text, stop a new search.
DebounceOnce ==
    /\ OnCatalog /\ debounced # filters.q
    /\ debounced' = filters.q
    /\ previous' = IF cache[SearchKey(debounced)] \in Long THEN cache[SearchKey(debounced)]
                   ELSE previous
    /\ running' = IF filters.q \in Long /\ ShownFor = None THEN {filters.q} ELSE {}
    /\ UNCHANGED <<hist, at, prefs, draft, listed, cache, expandedFor, relaid, moves>>

\* 200 ms after the last change; the search for the former text is cancelled.
Debounce ==
    /\ OnCatalog /\ debounced # filters.q
    /\ debounced' = filters.q
    /\ previous' = IF cache[SearchKey(debounced)] \in Long THEN cache[SearchKey(debounced)]
                   ELSE previous
    /\ running' = IF filters.q \in Long /\ cache[SearchKey(filters.q)] \notin Long
                  THEN {filters.q} ELSE {}
    /\ UNCHANGED <<hist, at, prefs, draft, listed, cache, expandedFor, relaid, moves>>

SearchAnswer(q) ==
    /\ running' = running \ {q}
    /\ \E a \in {q, "error"} : cache' = [cache EXCEPT ![SearchKey(q)] = a]
    /\ UNCHANGED <<hist, at, prefs, draft, listed, debounced, previous, expandedFor, relaid, moves>>

\* "Try again" of a failed search.
RetrySearch ==
    /\ Searching /\ ShownFor = "error" /\ running = {} /\ debounced \in Long /\ Move
    /\ running' = {debounced}
    /\ UNCHANGED <<hist, at, prefs, draft, listed, debounced, cache, previous, expandedFor, relaid>>

\* "Show all" of a long list of results.
Expand ==
    /\ Searching /\ ShownFor \in Long /\ expandedFor # filters.q /\ Move
    /\ expandedFor' = filters.q
    /\ UNCHANGED <<hist, at, prefs, draft, listed, debounced, cache, previous, running, relaid>>

----------------------------------------------------------------------------

Next ==
    \/ OpenCatalog(Plain) \/ Leave \/ Go(1) \/ Go(-1)
    \/ SetLayout \/ Toggle \/ ShowProblems \/ RemoveText \/ ClearFilters \/ Refetch
    \/ \E t \in Text : Type(t)
    \/ Submit
    \/ Debounce \/ RetrySearch \/ Expand
    \/ \E q \in running : SearchAnswer(q)

\* Timers run out and every search is answered.
Fairness == WF_vars(Debounce) /\ WF_vars(\E q \in running : SearchAnswer(q))

----------------------------------------------------------------------------
(* Properties.                                                             *)

\* Back does not step through letters: two neighbouring entries that differ in nothing but
\* the search text are not both searches (GlobalSearch.update: push once, then replace),
\* as long as no entry was repeated or given another layout on the way back to it.
BackSkipsLetters ==
    \A i \in 1..(Len(hist) - 1) :
        LET p == hist[i].params  n == hist[i + 1].params
        IN  ~relaid /\ hist[i].page = "catalog" /\ hist[i + 1].page = "catalog" /\ p # n
                /\ [p EXCEPT !.q = n.q] = n
              => p.q = "" \/ n.q = ""

\* A text left in the box gets its results, or an error with "Try again".
SearchSettles ==
    Searching ~> (~Searching \/ (debounced = filters.q /\ ShownFor \in {filters.q, "error"}))

=============================================================================
