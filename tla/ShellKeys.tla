------------------------------ MODULE ShellKeys ------------------------------
(***************************************************************************)
(* The keyboard of the shell: frontend/src/lib/shortcuts.ts (single keys,  *)
(* two-key sequences, what they do to the page), the shortcuts AppShell    *)
(* registers, and the command palette (CommandPalette.tsx) with its list   *)
(* of recent items, which all tabs of the browser share.                   *)
(***************************************************************************)
EXTENDS Naturals, Sequences, FiniteSets, SequencesExt

CONSTANTS CatalogApis,       \* the APIs, in the catalogue's order
          LastViewed,    \* the one viewed last
          Long, Short,   \* texts to search for: of two letters or more; of one
          Matching, OpsOf,  \* per text: the items it matches, the operations the server finds
          RECENT_MAX, Tabs, Items, ListPages, SkSteps

\* The palette's items are told apart: no API is called as one of the shell's own, and no
\* operation as another item.  The modules of the runs assume it.
OwnItems == {"catalog", "admin", "account", "last", "theme", "help", "signout"}
ShellAssumption ==
    /\ CatalogApis \in Seq(Range(CatalogApis)) /\ IsInjective(CatalogApis)
    /\ Range(CatalogApis) \cap OwnItems = {}
    /\ DOMAIN OpsOf = Long
    /\ \A q \in Long :
          /\ OpsOf[q] \in Seq(Range(OpsOf[q])) /\ IsInjective(OpsOf[q])
          /\ Range(OpsOf[q]) \cap (OwnItems \cup Range(CatalogApis)) = {}
    /\ "" \notin Long \cup {Short}
    /\ {RECENT_MAX, Tabs, Items, ListPages} \subseteq Nat \ {0} /\ SkSteps \in Nat

VARIABLES
    focus,         \* "page" or "field": where the keyboard is while no dialog has it
    drawer,        \* the page has a dialog open
    help, palette, \* ShortcutHelp, CommandPalette
    pending,       \* sequences whose first key was pressed
    recentKey,     \* that key was pressed within SEQUENCE_MS
    rendered,      \* AppShell was rendered since: its shortcuts are new objects
    place,         \* the route
    tab, item, listPage, starred,  \* what moveTab, moveInList and clickShortcutTarget act on
    query, active, recent,         \* the palette's text, highlight, and recents when it opened
    found,         \* the text whose operations are on show
    stored,        \* portal.palette.recent, latest first
    viewable, admin,               \* APIs with canView, and whether there are admin sections
    uses,          \* ghost: the items used, in all tabs, latest first
    lastKey,       \* ghost: the key pressed before, and where it went
    skSteps

keyVars == <<pending, recentKey, rendered, lastKey>>
pageVars == <<focus, drawer, place, tab, item, listPage, starred>>
paletteVars == <<query, active, recent, found>>
dataVars == <<stored, viewable, admin, uses>>
skVars == <<keyVars, pageVars, paletteVars, dataVars, help, palette, skSteps>>

Sequence == {"c", "a"}    \* "g c", "g a"
Plain == {"?", "/", "[", "]", "j", "k", "n", "p", "f"}
InDialog == {"[", "]"}
Keys == Plain \cup Sequence \cup {"g", "mod+k", "x"}

SkInit ==
    /\ focus = "page" /\ drawer = FALSE /\ help = FALSE /\ palette = FALSE
    /\ pending = {} /\ recentKey = FALSE /\ rendered = FALSE
    /\ place = "api" /\ tab = [page |-> 1, drawer |-> 1] /\ item = 0 /\ listPage = 1
    /\ starred = FALSE
    /\ query = "" /\ active = 0 /\ recent = <<>> /\ found = ""
    /\ stored = <<>> /\ viewable = Range(CatalogApis) /\ admin = TRUE
    /\ uses = <<>> /\ lastKey = [key |-> "", heard |-> FALSE] /\ skSteps = 0

Step == skSteps < SkSteps /\ skSteps' = skSteps + 1 /\ place # "login"

----------------------------------------------------------------------------
(* shortcuts.ts                                                            *)

dialogOpen == drawer \/ help \/ palette
\* The palette keeps the keyboard in its input.
isTyping == palette \/ (~dialogOpen /\ focus = "field")

usable(key) ==
    \/ key = "mod+k"
    \/ ~isTyping /\ (~dialogOpen \/ key \in InDialog)

\* The tabs of the page's dialog if it is open, else of the page: the next or previous one,
\* from the last to the first and back.
moveTab(step) == [tab EXCEPT ![IF drawer THEN "drawer" ELSE "page"] = ((@ - 1 + step) % Tabs) + 1]

\* The next or previous item of the list; without one the first, or the last.
moveInList(down) ==
    IF item = 0 THEN IF down THEN 1 ELSE Items
    ELSE IF down THEN (IF item = Items THEN item ELSE item + 1)
    ELSE (IF item = 1 THEN item ELSE item - 1)

\* The button is clicked unless there is none or it is disabled.
clickShortcutTarget(key) ==
    /\ listPage' = CASE key = "n" /\ listPage < ListPages -> listPage + 1
                     [] key = "p" /\ listPage > 1 -> listPage - 1
                     [] OTHER -> listPage
    /\ starred' = (starred # (key = "f"))

navigate(to) ==
    /\ place' = to
    /\ IF to = place THEN UNCHANGED <<focus, drawer, tab, item, listPage, starred>>
       ELSE /\ focus' = "page" /\ drawer' = FALSE /\ tab' = [page |-> 1, drawer |-> 1]
            /\ item' = 0 /\ listPage' = 1 /\ starred' = FALSE

\* The palette is mounted when it opens: no text, and the recents of that moment.
ShowPalette(open) ==
    /\ palette' = open /\ query' = "" /\ active' = 0 /\ found' = ""
    /\ recent' = IF open THEN stored ELSE <<>>

\* AppShell's shortcuts of one key.  Help has no tabs.
runShortcut(key) ==
    /\ IF key = "mod+k" THEN ShowPalette(~palette) ELSE UNCHANGED <<palette, paletteVars>>
    /\ help' = (help \/ key = "?")
    /\ focus' = IF key = "/" THEN "field" ELSE focus
    /\ tab' = IF key \in InDialog /\ ~help THEN moveTab(IF key = "]" THEN 1 ELSE Tabs - 1) ELSE tab
    /\ item' = IF key \in {"j", "k"} THEN moveInList(key = "j") ELSE item
    /\ clickShortcutTarget(key)
    /\ UNCHANGED <<place, drawer>>

\* Mutant of waiting: another key does not end a sequence.
waitingOn(key) ==
    IF usable(key) /\ key = "g" THEN Sequence ELSE IF key \in pending THEN {} ELSE pending

\* The sequences that wait for their second key, after this one.
waiting(key) == IF usable(key) /\ key = "g" THEN Sequence ELSE {}

\* The second key counts if the first was pressed a moment ago and its shortcut is still
\* one of AppShell's, which makes new ones whenever it is rendered.
second(key) == key \in pending /\ recentKey /\ ~rendered /\ usable(key)

\* A key pressed outside the palette's input, or held down.
onKey(key, repeat) ==
    /\ Step /\ (palette => key = "mod+k")
    /\ pending' = IF second(key) THEN {} ELSE waiting(key)
    /\ recentKey' = (pending' # {}) /\ rendered' = FALSE
    /\ lastKey' = [key |-> key, heard |-> usable(key)]
    /\ CASE second(key) ->
              /\ IF key = "c" THEN navigate("catalog") ELSE IF admin THEN navigate("admin")
                 ELSE UNCHANGED pageVars
              /\ UNCHANGED <<help, palette, paletteVars>>
         [] ~second(key) /\ usable(key) /\ (key = "mod+k" \/ (key \in Plain /\ ~repeat)) ->
              runShortcut(key)
         [] OTHER -> UNCHANGED <<pageVars, help, palette, paletteVars>>
    /\ UNCHANGED dataVars

\* SEQUENCE_MS pass; something renders AppShell.
SequenceLate ==
    /\ recentKey /\ recentKey' = FALSE
    /\ UNCHANGED <<pending, rendered, lastKey, pageVars, paletteVars, dataVars, help, palette, skSteps>>
Render ==
    /\ pending # {} /\ ~rendered /\ rendered' = TRUE
    /\ UNCHANGED <<pending, recentKey, lastKey, pageVars, paletteVars, dataVars, help, palette, skSteps>>

----------------------------------------------------------------------------
(* CommandPalette.tsx                                                      *)

Take(s, n) == SubSeq(s, 1, IF Len(s) < n THEN Len(s) ELSE n)
\* The items of s that are in S, in their order (Array.filter).
Keep(s, S) ==
    LET kept == {i \in DOMAIN s : s[i] \in S}
        rank(i) == Cardinality({j \in kept : j <= i})
    IN  [k \in 1..Cardinality(kept) |-> s[CHOOSE i \in kept : rank(i) = k]]
Without(s, S) == Keep(s, Range(s) \ S)
Texts == Long \cup {Short}
Operations == UNION {Range(OpsOf[q]) : q \in Long}

navigateItems == <<"catalog">> \o (IF admin THEN <<"admin">> ELSE <<>>) \o <<"account">>
actions == (IF LastViewed \in viewable THEN <<"last">> ELSE <<>>) \o <<"theme", "help", "signout">>
apiItems == Keep(CatalogApis, viewable)

\* Without a text: recents that still exist, then the rest.  Operations are not looked up.
withoutText ==
    LET byId == Range(navigateItems \o actions \o apiItems)
        recents == Keep(recent, byId \cup Operations)
        Unused(s) == Without(s, Range(recents))
    IN  recents \o Unused(navigateItems) \o Take(Unused(apiItems), 5) \o Unused(actions)

\* With one: what matches, and the operations of the last answer, whichever text it was for.
forText ==
    LET Filter(s) == Take(Keep(s, Matching[query]), 6)
    IN  Filter(apiItems)
        \o (IF query \in Long /\ found # "" THEN Take(OpsOf[found], 8) ELSE <<>>)
        \o Filter(navigateItems) \o Filter(actions)

items == IF query = "" THEN withoutText ELSE forText

\* The highlighted one; the list may have become shorter.
index == IF active < Len(items) THEN active + 1 ELSE Len(items)

\* Mutant of withEntry: the recents of the moment the palette opened.
withEntryAtOpening(i) == Take(<<i>> \o Without(recent, {i}), RECENT_MAX)

\* The recents with i in front, read again from the browser's storage.
withEntry(i) == Take(<<i>> \o Without(stored, {i}), RECENT_MAX)

\* An item is chosen: remembered if it leads somewhere, the palette closes.
run(i) ==
    /\ IF i \in {"theme", "help", "signout"} THEN UNCHANGED <<stored, uses>>
       ELSE stored' = withEntry(i) /\ uses' = <<i>> \o uses
    /\ ShowPalette(FALSE)
    /\ help' = (help \/ i = "help")
    /\ CASE i \in {"theme", "help"} -> UNCHANGED pageVars
         [] i = "signout" -> navigate("login")
         [] i = "last" -> navigate(LastViewed)
         [] OTHER -> navigate(i)
    /\ UNCHANGED <<viewable, admin, keyVars>>

Enter == Step /\ palette /\ items # <<>> /\ run(items[index])
ClickItem(k) == Step /\ palette /\ k \in DOMAIN items /\ run(items[k])

\* Letters typed are keys too: they end a sequence.
TypeText(q) ==
    /\ Step /\ palette /\ q # query /\ query' = q /\ active' = 0
    /\ pending' = {} /\ recentKey' = FALSE /\ rendered' = FALSE
    /\ lastKey' = [key |-> "", heard |-> FALSE]
    /\ UNCHANGED <<recent, found, pageVars, dataVars, help, palette>>

\* Arrow keys, from one end to the other; Home and End; the mouse.
move(k) ==
    /\ Step /\ palette
    /\ active' = IF items = <<>> THEN 0 ELSE (k + Len(items)) % Len(items)
    /\ UNCHANGED <<query, recent, found, keyVars, pageVars, dataVars, help, palette>>
Arrows == LET at == IF items = <<>> THEN 0 ELSE index - 1
          IN  move(at + 1) \/ move(IF at = 0 THEN Len(items) - 1 ELSE at - 1) \/ move(0)

\* The server's answer for the text, 200 ms after it was typed.
SearchAnswer ==
    /\ palette /\ query \in Long /\ found # query /\ found' = query
    /\ UNCHANGED <<query, active, recent, keyVars, pageVars, dataVars, help, palette, skSteps>>

\* Escape closes what is on top.
Escape ==
    /\ Step /\ dialogOpen
    /\ IF palette THEN ShowPalette(FALSE) ELSE UNCHANGED <<palette, paletteVars>>
    /\ help' = (help /\ palette) /\ drawer' = (drawer /\ (palette \/ help))
    /\ UNCHANGED <<keyVars, focus, place, tab, item, listPage, starred, dataVars>>

----------------------------------------------------------------------------
\* The page: a field is entered or left, a drawer opened.
ClickPage(f, open) ==
    /\ Step /\ ~dialogOpen /\ focus' = f /\ drawer' = open
    /\ <<focus, drawer>>' # <<focus, drawer>>
    /\ tab' = [tab EXCEPT !.drawer = 1]
    /\ UNCHANGED <<keyVars, place, item, listPage, starred, paletteVars, dataVars, help, palette>>

\* The buttons of the top bar.
OpenFromBar(what) ==
    /\ Step /\ ~dialogOpen /\ rendered' = (pending # {})
    /\ IF what = "palette" THEN ShowPalette(TRUE) ELSE UNCHANGED <<palette, paletteVars>>
    /\ help' = (what = "help")
    /\ UNCHANGED <<pending, recentKey, lastKey, pageVars, dataVars>>

\* Another tab's palette is used; the catalogue and /me are fetched again.
OtherTab(i) ==
    /\ Step /\ uses' = <<i>> \o uses
    /\ stored' = Take(<<i>> \o Without(stored, {i}), RECENT_MAX)
    /\ UNCHANGED <<keyVars, pageVars, paletteVars, viewable, admin, help, palette>>
Refetched(v, a) ==
    /\ Step /\ viewable' = v /\ admin' = a /\ <<viewable, admin>>' # <<viewable, admin>>
    /\ UNCHANGED <<keyVars, pageVars, paletteVars, stored, uses, help, palette>>

SkNext ==
    \/ \E key \in Keys, repeat \in BOOLEAN : onKey(key, repeat)
    \/ SequenceLate \/ Render
    \/ Enter \/ \E k \in 1..Len(items) : ClickItem(k)
    \/ \E q \in Texts \cup {""} : TypeText(q)
    \/ Arrows \/ SearchAnswer \/ Escape
    \/ \E f \in {"page", "field"}, open \in BOOLEAN : ClickPage(f, open)
    \/ \E what \in {"palette", "help"} : OpenFromBar(what)
    \/ \E i \in Range(CatalogApis) \cup {"catalog"} : OtherTab(i)
    \/ \E v \in SUBSET Range(CatalogApis), a \in BOOLEAN : Refetched(v, a)

----------------------------------------------------------------------------
SkTypeOK ==
    /\ focus \in {"page", "field"} /\ {drawer, help, palette, recentKey, rendered} \subseteq BOOLEAN
    /\ pending \in SUBSET Sequence /\ tab \in [{"page", "drawer"} -> 1..Tabs]
    /\ item \in 0..Items /\ listPage \in 1..ListPages /\ viewable \subseteq Range(CatalogApis)

\* x was used after y was for the last time.
UsedAfter(x, y) == \E n \in DOMAIN uses : uses[n] = x /\ \A m \in 1..n : uses[m] # y

\* The recents are items used in some tab, the one used last first, as many as there is room
\* for: one that is left out was used before all of them.
RecentsAreUses ==
    /\ Len(stored) <= RECENT_MAX /\ Range(stored) \subseteq Range(uses)
    /\ \A k, l \in DOMAIN stored : k < l => UsedAfter(stored[k], stored[l])
    /\ \A y \in Range(uses) \ Range(stored) :
          Len(stored) = RECENT_MAX /\ \A k \in DOMAIN stored : UsedAfter(stored[k], y)

\* The palette: the recents are the last few different items used in any tab; something is
\* highlighted whenever anything is on show; nothing is listed twice; no API and no section
\* the user may not see is offered, however long ago it was recent.
PaletteSound ==
    /\ RecentsAreUses
    /\ palette =>
          /\ items # <<>> => index \in DOMAIN items
          /\ IsInjective(items)
          /\ Range(items) \cap Range(CatalogApis) \subseteq viewable
          /\ "admin" \in Range(items) => admin

\* "g c" and "g a" leave the page only by both keys in a row, a moment apart, neither of them
\* typed into a field nor meant for a dialog.
SequenceNeedsBothKeys ==
    [][place' # place /\ ~palette =>
          /\ lastKey.key = "g" /\ lastKey.heard /\ recentKey
          /\ lastKey'.key \in Sequence /\ ~dialogOpen /\ focus = "page"]_skVars

=============================================================================
