------------------------------ MODULE AuditView ------------------------------
(***************************************************************************)
(* The audit page of the admin console: frontend/src/pages/admin/          *)
(* AuditSection.tsx and audit/AuditDrawer.tsx.  The server pages the log;  *)
(* the filter is in the URL, page size and offset are in the page; each    *)
(* query is cached under its key, and the rows of the query before stay    *)
(* until the first answer to a new one.  Entries come in all the time, and *)
(* a purge takes old ones away.                                            *)
(***************************************************************************)
EXTENDS Naturals, Sequences

CONSTANTS Filter,        \* the filters in use; one of them is none at all
          NoFilter,
          PAGE_SIZES,    \* smallest first
          FirstLog,      \* how many entries match each filter at first
          AuSteps, AuLog, AuFaults   \* bounds: clicks, changes of the log, failures

\* What the page and the log are like; the module of the sections assumes it.
AuditAssumption ==
    /\ NoFilter \in Filter /\ FirstLog \in [Filter -> Nat]
    /\ PAGE_SIZES \in Seq(Nat \ {0}) /\ PAGE_SIZES # <<>>

VARIABLES
    auFilter, auDraft,     \* the filter of the URL, the filter in the fields
    limit, offset,
    log,        \* server: how many entries match each filter
    pages,      \* query cache: the data of each key
    asked,      \* queries under way
    broken,     \* the keys whose last query failed: an error is shown, cached data or not
    rowsOf,     \* the data on show: of the current key, or of an earlier one
    entry,      \* the drawer is open on an entry
    exporting,  \* the filter whose export is under way
    early,      \* history: a page was turned while the rows of another query were shown
    purged,     \* history: the log lost entries
    auSteps, auLog, auFaults

auVars == <<auFilter, auDraft, limit, offset, log, pages, asked, broken, rowsOf, entry,
            exporting, early, purged, auSteps, auLog, auFaults>>
auGhosts == <<early, purged>>

Key == [filter: Filter, limit: {PAGE_SIZES[i] : i \in DOMAIN PAGE_SIZES}, offset: Nat]
NoData == [key |-> [filter |-> NoFilter, limit |-> PAGE_SIZES[1], offset |-> 0], total |-> 0, count |-> 0]
AuClick == auSteps < AuSteps /\ auSteps' = auSteps + 1

\* External: the answer to a query.
Answer(k) ==
    LET left == IF log[k.filter] > k.offset THEN log[k.filter] - k.offset ELSE 0
    IN  [key |-> k, total |-> log[k.filter], count |-> IF left < k.limit THEN left ELSE k.limit]

KeyOf(f, l, o) == [filter |-> f, limit |-> l, offset |-> o]
query == KeyOf(auFilter, limit, offset)
Placeholder == rowsOf.key # query
Settled == query \notin asked /\ query \notin broken

\* The page asks for (f, l, o): cached data is shown at once, otherwise the rows stay.
Ask(f, l, o) ==
    LET k == KeyOf(f, l, o)
        known == {d \in pages : d.key = k}
    IN  /\ auFilter' = f /\ limit' = l /\ offset' = o
        /\ IF known = {} THEN rowsOf' = rowsOf ELSE rowsOf' \in known
        /\ asked' \in {asked \cup {k}} \cup (IF known = {} THEN {} ELSE {asked})
        /\ broken' = IF known = {} THEN broken \ {k} ELSE broken

----------------------------------------------------------------------------
AuInit ==
    /\ auFilter = NoFilter /\ auDraft = NoFilter
    /\ limit = PAGE_SIZES[1] /\ offset = 0
    /\ log = FirstLog /\ pages = {} /\ asked = {query} /\ broken = {} /\ rowsOf = NoData
    /\ entry = FALSE /\ exporting = {} /\ early = FALSE /\ purged = FALSE
    /\ auSteps = 0 /\ auLog = 0 /\ auFaults = 0

\* The fields change nothing until they are applied.
DraftFilter(f) ==
    /\ AuClick /\ f # auDraft /\ auDraft' = f
    /\ UNCHANGED <<auFilter, limit, offset, log, pages, asked, broken, rowsOf, entry, exporting,
                   auGhosts, auLog, auFaults>>

\* Mutant of apply: the offset stays.
applyKeepsOffset ==
    /\ AuClick /\ Ask(auDraft, limit, offset)
    /\ UNCHANGED <<auDraft, log, pages, entry, exporting, auGhosts, auLog, auFaults>>

apply ==
    /\ AuClick /\ Ask(auDraft, limit, 0)
    /\ UNCHANGED <<auDraft, log, pages, entry, exporting, auGhosts, auLog, auFaults>>

reset ==
    /\ AuClick /\ auDraft' = NoFilter /\ Ask(NoFilter, limit, 0)
    /\ UNCHANGED <<log, pages, entry, exporting, auGhosts, auLog, auFaults>>

\* Rows per page: back to the first page.
SetLimit(i) ==
    /\ AuClick /\ PAGE_SIZES[i] # limit /\ Ask(auFilter, PAGE_SIZES[i], 0)
    /\ UNCHANGED <<auDraft, log, pages, entry, exporting, auGhosts, auLog, auFaults>>

PrevPage ==
    /\ AuClick /\ query \notin broken /\ offset > 0
    /\ Ask(auFilter, limit, IF offset > limit THEN offset - limit ELSE 0)
    /\ UNCHANGED <<auDraft, log, pages, entry, exporting, auGhosts, auLog, auFaults>>

\* The button goes by the total on show, of whichever query that is.
NextPage ==
    /\ AuClick /\ query \notin broken /\ offset + limit < rowsOf.total
    /\ Ask(auFilter, limit, offset + limit)
    /\ early' = (early \/ Placeholder)
    /\ UNCHANGED <<auDraft, log, pages, entry, exporting, purged, auLog, auFaults>>

\* Refresh, and Retry after a failure.
Refresh ==
    /\ AuClick /\ query \notin asked
    /\ asked' = asked \cup {query}
    /\ broken' = IF \E d \in pages : d.key = query THEN broken ELSE broken \ {query}
    /\ UNCHANGED <<auFilter, auDraft, limit, offset, log, pages, rowsOf, entry, exporting,
                   auGhosts, auLog, auFaults>>

\* An answer is cached under its key, and shown if that is still the one asked for.
Fetched(k) ==
    /\ asked' = asked \ {k}
    /\ pages' = {d \in pages : d.key # k} \cup {Answer(k)}
    /\ rowsOf' = IF k = query THEN Answer(k) ELSE rowsOf
    /\ broken' = broken \ {k}
    /\ UNCHANGED <<auFilter, auDraft, limit, offset, log, entry, exporting, auGhosts,
                   auSteps, auLog, auFaults>>

FetchFailed(k) ==
    /\ auFaults < AuFaults /\ auFaults' = auFaults + 1
    /\ asked' = asked \ {k} /\ broken' = broken \cup {k}
    /\ UNCHANGED <<auFilter, auDraft, limit, offset, log, pages, rowsOf, entry, exporting,
                   auGhosts, auSteps, auLog>>

\* A row opens the drawer; its close button, Escape or the overlay closes it.
OpenEntry ==
    /\ AuClick
    /\ entry' = ~entry /\ (~entry => rowsOf.count > 0 /\ query \notin broken)
    /\ UNCHANGED <<auFilter, auDraft, limit, offset, log, pages, asked, broken, rowsOf, exporting,
                   auGhosts, auLog, auFaults>>

\* The export is of the filter applied, not of the one in the fields; one at a time.
exportCsv ==
    /\ AuClick /\ exporting = {} /\ query \notin broken /\ exporting' = {auFilter}
    /\ UNCHANGED <<auFilter, auDraft, limit, offset, log, pages, asked, broken, rowsOf, entry,
                   auGhosts, auLog, auFaults>>

Exported ==
    /\ exporting # {} /\ exporting' = {}
    /\ UNCHANGED <<auFilter, auDraft, limit, offset, log, pages, asked, broken, rowsOf, entry,
                   auGhosts, auSteps, auLog, auFaults>>

\* External: an entry is written, or the oldest are purged.
Logged(F, more) ==
    /\ auLog < AuLog /\ auLog' = auLog + 1 /\ NoFilter \in F
    /\ \A f \in F : log[f] > 0
    /\ log' = [f \in Filter |-> IF f \notin F THEN log[f] ELSE IF more THEN log[f] + 1 ELSE log[f] - 1]
    /\ purged' = (purged \/ ~more)
    /\ UNCHANGED <<auFilter, auDraft, limit, offset, pages, asked, broken, rowsOf, entry, exporting,
                   early, auSteps, auFaults>>

AuNext ==
    \/ \E f \in Filter : DraftFilter(f)
    \/ apply \/ reset \/ \E i \in DOMAIN PAGE_SIZES : SetLimit(i)
    \/ PrevPage \/ NextPage \/ Refresh
    \/ \E k \in asked : Fetched(k) \/ FetchFailed(k)
    \/ OpenEntry \/ exportCsv \/ Exported
    \/ \E F \in SUBSET Filter, more \in BOOLEAN : Logged(F, more)

----------------------------------------------------------------------------
AuTypeOK ==
    /\ query \in Key /\ auDraft \in Filter /\ asked \subseteq Key /\ broken \subseteq Key
    /\ \A d \in pages : d.key \in Key /\ d.count <= d.key.limit /\ d.count <= d.total
    /\ \A d, e \in pages : d.key = e.key => d = e
    /\ entry \in BOOLEAN /\ exporting \subseteq Filter

\* Whatever was filtered, turned and resized, and whichever answers are late, a settled page
\* shows the rows of the query it states, and some rows if any match: a page past the end
\* comes only from turning a page before its query was answered, or from a purge.
PageIsTheOneAsked ==
    Settled => /\ rowsOf.key = query
               /\ rowsOf.total > 0 /\ ~early /\ ~purged => rowsOf.count > 0

=============================================================================
