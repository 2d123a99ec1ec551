---------------------------- MODULE PortalSession ----------------------------
(***************************************************************************)
(* The browser side of a session (frontend/src): the sign-in page, the     *)
(* gate in front of every other page, the query cache with the catalogue   *)
(* and its optimistic favourites, sign-out, the forced password change,    *)
(* and what happens when the server ends the session under the page.       *)
(*                                                                         *)
(* A request is sent (with the cookie of that moment), processed by the    *)
(* server, and answered; each is a step of its own, so answers arrive in   *)
(* any order.  A cancelled read is forgotten, except a cancelled /me: its  *)
(* query function runs on after the answer (hooks/queries.ts:16-19).       *)
(***************************************************************************)
EXTENDS Naturals, FiniteSets

CONSTANTS User, Api, None,
          Temporary,    \* the users who must change their password first
          MaxLogins,    \* bound: sessions started
          MaxClicks,    \* bound: clicks on a favourite star, passwords sent
          MaxLosses,    \* bound: requests or answers lost
          MaxEnds,      \* bound: sessions the server ends by itself
          MaxCalls      \* bound: requests in flight

ASSUME ConstantsAssumption ==
    /\ Temporary \subseteq User
    /\ None \notin User \cup Api
    /\ {MaxLogins, MaxClicks, MaxLosses, MaxEnds, MaxCalls} \subseteq Nat

VARIABLES
    owner,        \* server: the user of each session started
    live,         \* server: the sessions still valid
    favorites,    \* server: each user's favourite APIs
    must,         \* server: users who must change their password
    cookie,       \* browser: the session the cookie names (0: none)
    loc,          \* router: the page, and the place it shows or returns to
    established,  \* lib/query.ts: a 401 now means "the session ended"
    me,           \* query cache: the signed-in user
    catalog,      \* query cache: the catalogue
    calls,        \* requests in flight
    signing,      \* sign-in page: idle, waiting for login or for /me, locked
    leaving,      \* the forced password form waits for /me, then goes home
    left,         \* history: the place a sign-in should return to
    overtaken,    \* history: a click settled after the page was left, with an
                  \* older read of the catalogue still under way
    kept,         \* history: a sign-in may meet the catalogue of the one before it
    clicks, losses, ends

serverVars == <<owner, live, favorites, must>>
ghosts == <<overtaken, kept>>
bounds == <<clicks, losses, ends>>
vars == <<owner, live, favorites, must, cookie, loc, established, me, catalog,
          calls, signing, leaving, left, overtaken, kept, clicks, losses, ends>>

Token == 1..MaxLogins
Place == {"home", "deep", "password"}
Identity == [user: User, must: BOOLEAN]
Listing == [owner: User, favs: SUBSET Api]
Kinds == {"me", "catalog", "favorite", "login", "logout", "password"}

NoMe == [status |-> "none", data |-> None]
NoCatalog == [data |-> None, invalid |-> FALSE]

\* fetch() as the hooks use it: the cookie goes along, ans is what came back.
Send(kind, data) ==
    [kind |-> kind, tok |-> cookie, live |-> TRUE, ans |-> "none", data |-> data]

TypeOK ==
    /\ owner \in [Token -> User \cup {None}]
    /\ live \subseteq {t \in Token : owner[t] # None}
    /\ favorites \in [User -> SUBSET Api]
    /\ must \subseteq User
    /\ cookie \in 0..MaxLogins
    /\ loc \in [page: {"login", "app"}, at: Place]
    /\ established \in BOOLEAN
    /\ me \in [status: {"none", "pending", "ok", "denied", "failed"},
               data: Identity \cup {None}]
    /\ catalog \in [data: Listing \cup {None}, invalid: BOOLEAN]
    /\ \A c \in calls : /\ c.kind \in Kinds /\ c.tok \in 0..MaxLogins
                        /\ c.ans \in {"none", "ok", "denied", "lost", "locked"}
    /\ signing \in {"idle", "login", "me", "locked"}
    /\ leaving \in BOOLEAN
    /\ left \in Place
    /\ {overtaken, kept} \subseteq BOOLEAN

Init ==
    /\ owner = [t \in Token |-> None] /\ live = {}
    /\ favorites = [u \in User |-> {}]
    /\ must = Temporary
    /\ cookie = 0
    /\ loc \in [page: {"app"}, at: {"home", "deep"}]
    /\ established = FALSE
    /\ me = NoMe /\ catalog = NoCatalog
    /\ calls = {} /\ signing = "idle" /\ leaving = FALSE
    /\ left = loc.at /\ overtaken = FALSE /\ kept = FALSE
    /\ clicks = 0 /\ losses = 0 /\ ends = 0

----------------------------------------------------------------------------
(* What the page shows.                                                    *)

Fetching(kind) == \E c \in calls : c.kind = kind /\ c.live
Room == Cardinality(calls) < MaxCalls

\* AuthGate: nothing behind the gate is rendered before /me has answered.
Gate ==
    IF me.status \in {"none", "pending"} THEN "skeleton"
    ELSE IF me.status = "denied" THEN "toLogin"
    ELSE IF me.status = "failed" THEN "startFailed"
    ELSE IF me.data.must /\ loc.at # "password" THEN "toPassword"
    ELSE IF ~me.data.must /\ loc.at = "password" THEN "toAccount" ELSE "shell"

\* AppShell is drawn; restricted (a forced change) leaves only the form and sign-out.
Shell == loc.page # "login" /\ Gate = "shell"
Restricted == Shell /\ me.data.must
\* CatalogPage is mounted and observes the catalogue query.
CatalogShown == Shell /\ ~Restricted /\ loc.at = "home"
\* LoginPage draws the form unless /me already answered.
LoginForm == loc.page = "login" /\ me.status # "ok"

----------------------------------------------------------------------------
(* The server.                                                             *)

\* What the server does with a request that carries session t.
Handle(c) ==
    LET valid == c.tok \in live
        user == owner[c.tok]
        Answer(a, d) == calls' = (calls \ {c}) \cup {[c EXCEPT !.ans = a, !.data = d]}
    IN  \/ /\ c.kind = "me"
           /\ IF valid THEN Answer("ok", [user |-> user, must |-> user \in must])
                       ELSE Answer("denied", None)
           /\ UNCHANGED serverVars
        \/ /\ c.kind = "catalog"
           /\ IF valid THEN Answer("ok", [owner |-> user, favs |-> favorites[user]])
                       ELSE Answer("denied", None)
           /\ UNCHANGED serverVars
        \/ /\ c.kind = "favorite"
           /\ Answer(IF valid THEN "ok" ELSE "denied", c.data)
           /\ favorites' =
                IF valid THEN [favorites EXCEPT ![user] =
                                 IF c.data.on THEN @ \cup {c.data.api} ELSE @ \ {c.data.api}]
                ELSE favorites
           /\ UNCHANGED <<owner, live, must>>
        \/ /\ c.kind = "logout"
           /\ Answer(IF valid THEN "ok" ELSE "denied", None)
           /\ live' = live \ {c.tok}
           /\ UNCHANGED <<owner, favorites, must>>
        \/ /\ c.kind = "password"
           /\ IF valid /\ c.data.right
              THEN Answer("ok", c.data) /\ must' = must \ {user}
              ELSE Answer("denied", c.data) /\ UNCHANGED must
           /\ UNCHANGED <<owner, live, favorites>>
        \/ /\ c.kind = "login"
           /\ \/ /\ \E t \in Token :
                      /\ owner[t] = None /\ \A s \in 1..(t - 1) : owner[s] # None
                      /\ owner' = [owner EXCEPT ![t] = c.data]
                      /\ live' = live \cup {t}
                      /\ calls' = (calls \ {c}) \cup {[c EXCEPT !.ans = "ok", !.tok = t]}
                 /\ UNCHANGED <<favorites, must>>
              \/ /\ \E a \in {"denied", "locked"} : Answer(a, c.data)
                 /\ UNCHANGED serverVars

clientVars == <<cookie, loc, established, me, catalog, signing, leaving, left, ghosts>>

Serve(c) == c.ans = "none" /\ Handle(c) /\ UNCHANGED <<clientVars, bounds>>

\* The request, or the answer to it, is lost (ApiError status 0).
Lose(c) ==
    /\ losses < MaxLosses /\ losses' = losses + 1
    /\ c.ans # "lost" /\ (c.kind \in {"me", "catalog"} => c.ans = "none")
    /\ calls' = (calls \ {c}) \cup {[c EXCEPT !.ans = "lost"]}
    /\ UNCHANGED <<serverVars, clientVars, clicks, ends>>

\* Idle timeout, maximum age, revoked from elsewhere.
SessionEnds ==
    /\ ends < MaxEnds /\ ends' = ends + 1
    /\ \E t \in live : live' = live \ {t}
    /\ UNCHANGED <<owner, favorites, must, clientVars, calls, clicks, losses>>

----------------------------------------------------------------------------
(* The session-ended handler.                                              *)

\* What becomes of the reads in flight when their queries are removed.
Orphan(cs) == {IF c.kind = "me" THEN [c EXCEPT !.live = FALSE] ELSE c :
                 c \in {d \in cs : d.kind # "catalog"}}

\* The handler acts: once per established session, and not on the sign-in page.
SessionOver == established /\ loc.page # "login"

\* Mutant of Denied: the place is not kept.
DeniedAndLost(cs, m) ==
    /\ established' = FALSE
    /\ IF SessionOver
       THEN /\ me' = NoMe
            /\ calls' = Orphan(cs)
            /\ loc' = [page |-> "login", at |-> "home"]
            /\ left' = loc.at
       ELSE me' = m /\ calls' = cs /\ UNCHANGED <<loc, left>>

\* Mutant of Denied: a 401 is an error like any other.
DeniedUnnoticed(cs, m) ==
    established' = FALSE /\ me' = m /\ calls' = cs /\ UNCHANGED <<loc, left>>

\* handleError for a 401, with the state the caches would have without it.
Denied(cs, m) ==
    /\ established' = FALSE
    /\ IF SessionOver
       THEN /\ me' = NoMe
            /\ calls' = Orphan(cs)
            /\ loc' = [page |-> "login", at |-> loc.at]
            /\ left' = loc'.at
       ELSE me' = m /\ calls' = cs /\ UNCHANGED <<loc, left>>

\* The catalogue the handler leaves behind: removed, unless it did nothing.
AfterDenied == IF SessionOver THEN NoCatalog ELSE catalog

\* The catalogue is cached, or on its way: it outlives a change of user unless it is removed.
Carried == catalog.data # None \/ Fetching("catalog")

----------------------------------------------------------------------------
(* The signed-in user, and the gate's redirects.                           *)

\* A fetch shows as pending only while there is no earlier answer to show.
MeFetching == [me EXCEPT !.status = IF me.data = None THEN "pending" ELSE @]

\* Mutant of StartMe: a status the gate does not know.
StartMeFetching ==
    /\ me.status = "none" /\ Room
    /\ me' = [me EXCEPT !.status = "fetching"]
    /\ calls' = calls \cup {Send("me", None)}
    /\ UNCHANGED <<serverVars, cookie, loc, established, catalog, signing, leaving, left, ghosts,
                   bounds>>

\* A page that uses /me is mounted and the query has nothing and no fetch.
StartMe ==
    /\ me.status = "none" /\ Room
    /\ me' = MeFetching
    /\ calls' = calls \cup {Send("me", None)}
    /\ UNCHANGED <<serverVars, cookie, loc, established, catalog, signing, leaving, left, ghosts,
                   bounds>>

\* "Try again" on the start-failed screen.
RetryMe ==
    /\ loc.page # "login" /\ Gate = "startFailed" /\ ~Fetching("me") /\ Room
    /\ me' = MeFetching
    /\ calls' = calls \cup {Send("me", None)}
    /\ UNCHANGED <<serverVars, cookie, loc, established, catalog, signing, leaving, left, ghosts,
                   bounds>>

MeAnswer(c) ==
    /\ c.kind = "me" /\ c.live
    /\ \/ /\ c.ans = "ok"
          /\ established' = TRUE
          /\ me' = [status |-> "ok", data |-> c.data]
          /\ calls' = calls \ {c}
          /\ UNCHANGED <<loc, catalog, left, kept>>
       \/ /\ c.ans = "denied"
          /\ Denied(calls \ {c}, [me EXCEPT !.status = "denied"])
          /\ catalog' = AfterDenied
          /\ kept' = (kept /\ ~SessionOver)
       \/ /\ c.ans = "lost"
          /\ me' = [me EXCEPT !.status = "failed"]
          /\ calls' = calls \ {c}
          /\ UNCHANGED <<loc, established, catalog, left, kept>>
    /\ UNCHANGED <<serverVars, cookie, signing, leaving, overtaken, bounds>>

\* The query is gone, its query function still marks the session established.
MeAnswerLate(c) ==
    /\ c.kind = "me" /\ ~c.live /\ c.ans # "none"
    /\ established' = (established \/ c.ans = "ok")
    /\ calls' = calls \ {c}
    /\ UNCHANGED <<serverVars, cookie, loc, me, catalog, signing, leaving, left, ghosts, bounds>>

GateRedirect ==
    /\ loc.page # "login"
    /\ \/ /\ Gate = "toLogin"
          /\ loc' = [page |-> "login", at |-> loc.at]
          /\ me' = NoMe
          /\ left' = loc'.at
          /\ kept' = (kept \/ Carried)
       \/ /\ Gate = "toPassword"
          /\ loc' = [page |-> "app", at |-> "password"]
          /\ UNCHANGED <<me, left, kept>>
       \/ /\ Gate = "toAccount"
          /\ loc' = [page |-> "app", at |-> "deep"]
          /\ UNCHANGED <<me, left, kept>>
    /\ UNCHANGED <<serverVars, cookie, established, catalog, calls, signing, leaving, overtaken,
                   bounds>>

Navigate(p) ==
    /\ Shell /\ ~Restricted /\ p \notin {loc.at, "password"}
    /\ loc' = [loc EXCEPT !.at = p]
    /\ UNCHANGED <<serverVars, cookie, established, me, catalog, calls, signing, leaving, left,
                   ghosts, bounds>>

----------------------------------------------------------------------------
(* Signing in and out, the forced password change.                         *)

\* The visitor is slower than the page: they submit once the first /me is answered.
Login(u) ==
    /\ LoginForm /\ me.status \in {"denied", "failed"} /\ signing = "idle" /\ Room
    /\ \E t \in Token : owner[t] = None
    /\ signing' = "login"
    /\ calls' = calls \cup {Send("login", u)}
    /\ UNCHANGED <<serverVars, cookie, loc, established, me, catalog, leaving, left, ghosts,
                   bounds>>

\* Signed in: the cookie is set, /me is refetched (a running one is dropped).
LoginAnswer(c) ==
    /\ c.kind = "login"
    /\ \/ /\ c.ans = "ok"
          /\ cookie' = c.tok
          /\ signing' = "me"
          /\ me' = MeFetching
          /\ calls' = Orphan(calls \ {c})
                        \cup {d \in calls : d.kind = "catalog"}
                        \cup {[Send("me", None) EXCEPT !.tok = c.tok]}
          /\ kept' = (kept \/ (loc.page # "login" /\ Carried))
       \/ /\ c.ans \in {"denied", "lost", "locked"}
          /\ signing' = IF c.ans = "locked" THEN "locked" ELSE "idle"
          /\ calls' = calls \ {c}
          /\ UNCHANGED <<cookie, me, kept>>
    /\ UNCHANGED <<serverVars, loc, established, catalog, leaving, left, overtaken, bounds>>

\* The countdown of a lockout reaches zero.
Unlock ==
    /\ signing = "locked"
    /\ signing' = "idle"
    /\ UNCHANGED <<serverVars, cookie, loc, established, me, catalog, calls, leaving, left, ghosts,
                   bounds>>

\* onSubmit has awaited the refetch of /me: on to next, whatever it brought.
FinishLogin ==
    /\ signing = "me" /\ ~Fetching("me")
    /\ signing' = "idle"
    /\ loc' = [loc EXCEPT !.page = "app"]
    /\ UNCHANGED <<serverVars, cookie, established, me, catalog, calls, leaving, left, ghosts,
                   bounds>>

\* Mutant of LoginRedirect: only a sign-in of this page leaves it.
LoginRedirectOwn ==
    /\ loc.page = "login" /\ me.status = "ok" /\ signing = "me"
    /\ loc' = [page |-> "app", at |-> loc.at]
    /\ signing' = "idle"
    /\ UNCHANGED <<serverVars, cookie, established, me, catalog, calls, leaving, left, ghosts,
                   bounds>>

\* <Navigate to={next}>: somebody is signed in already.
LoginRedirect ==
    /\ loc.page = "login" /\ me.status = "ok"
    /\ loc' = [page |-> "app", at |-> loc.at]
    /\ signing' = "idle"
    /\ UNCHANGED <<serverVars, cookie, established, me, catalog, calls, leaving, left, ghosts,
                   bounds>>

SignOut ==
    /\ Shell /\ Room
    /\ calls' = calls \cup {Send("logout", None)}
    /\ UNCHANGED <<serverVars, cookie, loc, established, me, catalog, signing, leaving, left,
                   ghosts, bounds>>

\* Mutant of LogoutAnswer: the catalogue stays in the cache.
LogoutKeepsCache(c) ==
    /\ c.kind = "logout" /\ c.ans # "none"
    /\ cookie' = IF c.ans = "ok" THEN 0 ELSE cookie
    /\ established' = FALSE
    /\ me' = NoMe
    /\ calls' = Orphan(calls \ {c})
    /\ loc' = [page |-> "login", at |-> "home"]
    /\ left' = "home"
    /\ kept' = FALSE
    /\ UNCHANGED <<serverVars, catalog, signing, leaving, overtaken, bounds>>

\* Whatever the answer: forget the session, clear the caches, go to /login.
LogoutAnswer(c) ==
    /\ c.kind = "logout" /\ c.ans # "none"
    /\ cookie' = IF c.ans = "ok" THEN 0 ELSE cookie
    /\ established' = FALSE
    /\ me' = NoMe /\ catalog' = NoCatalog
    /\ calls' = Orphan(calls \ {c})
    /\ loc' = [page |-> "login", at |-> "home"]
    /\ left' = "home"
    /\ kept' = FALSE
    /\ UNCHANGED <<serverVars, signing, leaving, overtaken, bounds>>

\* PasswordChangeForm, forced or on the account page (a place "deep" in the portal); right
\* says whether the current password and the policy hold.
ChangePassword(right) ==
    /\ Shell /\ loc.at \in {"password", "deep"} /\ ~Fetching("password") /\ ~leaving /\ Room
    /\ clicks < MaxClicks /\ clicks' = clicks + 1
    /\ calls' = calls \cup {Send("password", [right |-> right, forced |-> Restricted])}
    /\ UNCHANGED <<serverVars, cookie, loc, established, me, catalog, signing, leaving, left,
                   ghosts, losses, ends>>

\* A direct call: a 401 stays in the form. Success refetches /me if it is cached.
PasswordAnswer(c) ==
    /\ c.kind = "password" /\ c.ans # "none"
    /\ leaving' = (leaving \/ (c.ans = "ok" /\ c.data.forced))
    /\ calls' = IF c.ans = "ok" /\ me.status # "none"
                THEN Orphan(calls \ {c}) \cup {d \in calls : d.kind = "catalog"}
                       \cup {Send("me", None)}
                ELSE calls \ {c}
    /\ UNCHANGED <<serverVars, cookie, loc, established, me, catalog, signing, left, ghosts,
                   bounds>>

\* if (forced) navigate('/'), after the refetch it awaited.
LeavePassword ==
    /\ leaving /\ ~Fetching("me")
    /\ leaving' = FALSE
    /\ loc' = [page |-> "app", at |-> "home"]
    /\ left' = "home"
    /\ UNCHANGED <<serverVars, cookie, established, me, catalog, calls, signing, ghosts, bounds>>

----------------------------------------------------------------------------
(* The catalogue and its favourites.                                       *)

\* Mounted without data, or with data marked stale, or "Refresh".
FetchCatalog ==
    /\ CatalogShown /\ ~Fetching("catalog") /\ Room
    /\ calls' = calls \cup {Send("catalog", None)}
    /\ UNCHANGED <<serverVars, cookie, loc, established, me, catalog, signing, leaving, left,
                   ghosts, bounds>>

CatalogAnswer(c) ==
    /\ c.kind = "catalog"
    /\ \/ /\ c.ans = "ok"
          /\ catalog' = [data |-> c.data, invalid |-> FALSE]
          /\ overtaken' = (overtaken /\ catalog.invalid)
          /\ calls' = calls \ {c}
          /\ UNCHANGED <<established, me, loc, left, kept>>
       \/ /\ c.ans = "denied"
          /\ Denied(calls \ {c}, me)
          /\ catalog' = AfterDenied /\ UNCHANGED overtaken
          /\ kept' = (kept /\ ~SessionOver)
       \/ /\ c.ans = "lost"
          /\ calls' = calls \ {c}
          /\ UNCHANGED <<catalog, ghosts, established, me, loc, left>>
    /\ UNCHANGED <<serverVars, cookie, signing, leaving, bounds>>

\* invalidateQueries(catalog): refetch at once when mounted, else mark it stale.
Invalidate(cs, data) ==
    /\ catalog' = [data |-> data,
                   invalid |-> data # None \/ \E d \in cs : d.kind = "catalog"]
    /\ IF CatalogShown /\ loc' = loc
       THEN /\ calls' = {d \in cs : d.kind # "catalog"} \cup {Send("catalog", None)}
            /\ UNCHANGED overtaken
       ELSE /\ calls' = cs
            /\ overtaken' = (overtaken \/ \E d \in cs : d.kind = "catalog")

\* onMutate: stop the running fetch, keep the list as it was, show the new star.
ToggleFavorite(a) ==
    /\ CatalogShown /\ catalog.data # None /\ clicks < MaxClicks /\ Room
    /\ clicks' = clicks + 1
    /\ LET on == a \notin catalog.data.favs
       IN  /\ catalog' = [data |-> [catalog.data EXCEPT !.favs = IF on THEN @ \cup {a} ELSE @ \ {a}],
                          invalid |-> FALSE]
           /\ calls' = {d \in calls : d.kind # "catalog"}
                         \cup {Send("favorite", [api |-> a, on |-> on, n |-> clicks,
                                                 previous |-> catalog.data])}
    /\ UNCHANGED <<serverVars, cookie, loc, established, me, signing, leaving, left, ghosts,
                   losses, ends>>

\* Mutant of FavoriteAnswer: nothing is fetched again.
FavoriteNotRefetched(c) ==
    /\ c.kind = "favorite" /\ c.ans # "none"
    /\ catalog' = IF c.ans = "ok" THEN catalog ELSE [catalog EXCEPT !.data = c.data.previous]
    /\ IF c.ans = "denied" THEN Denied(calls \ {c}, me)
       ELSE calls' = calls \ {c} /\ UNCHANGED <<established, me, loc, left>>
    /\ UNCHANGED <<serverVars, cookie, signing, leaving, ghosts, bounds>>

\* onError puts the kept list back (after the 401 handler ran); onSettled invalidates.
FavoriteAnswer(c) ==
    /\ c.kind = "favorite"
    /\ \/ /\ c.ans = "ok"
          /\ UNCHANGED <<established, me, loc, left, kept>>
          /\ Invalidate(calls \ {c}, catalog.data)
       \/ /\ c.ans = "lost"
          /\ UNCHANGED <<established, me, loc, left, kept>>
          /\ Invalidate(calls \ {c}, c.data.previous)
       \/ /\ c.ans = "denied"
          /\ established' = FALSE
          /\ kept' = (kept /\ ~SessionOver)
          /\ IF SessionOver
             THEN /\ me' = NoMe
                  /\ loc' = [page |-> "login", at |-> loc.at]
                  /\ left' = loc'.at
                  /\ Invalidate(Orphan(calls \ {c}), c.data.previous)
             ELSE /\ UNCHANGED <<me, loc, left>>
                  /\ Invalidate(calls \ {c}, c.data.previous)
    /\ UNCHANGED <<serverVars, cookie, signing, leaving, bounds>>

----------------------------------------------------------------------------

Answer(c) ==
    \/ MeAnswer(c) \/ MeAnswerLate(c) \/ LoginAnswer(c) \/ LogoutAnswer(c)
    \/ PasswordAnswer(c) \/ CatalogAnswer(c) \/ FavoriteAnswer(c)

Visitor ==
    \/ \E u \in User : Login(u)
    \/ \E p \in Place : Navigate(p)
    \/ \E a \in Api : ToggleFavorite(a)
    \/ \E right \in BOOLEAN : ChangePassword(right)
    \/ SignOut \/ RetryMe

\* Steps the browser or the server takes without the visitor.
System ==
    \/ StartMe \/ GateRedirect \/ LoginRedirect \/ FinishLogin \/ LeavePassword \/ Unlock
    \/ \E c \in calls : Serve(c) \/ Answer(c)

Next ==
    \/ Visitor \/ System \/ FetchCatalog \/ SessionEnds
    \/ \E c \in calls : Lose(c)

Spec == Init /\ [][Next]_vars

\* The browser draws what it must draw and every request ends in an answer or a loss.
FairSpec ==
    /\ Spec
    /\ WF_vars(StartMe) /\ WF_vars(GateRedirect) /\ WF_vars(LoginRedirect)
    /\ WF_vars(FinishLogin) /\ WF_vars(LeavePassword)
    /\ \A k \in Kinds : /\ WF_vars(\E c \in calls : c.kind = k /\ Serve(c))
                       /\ WF_vars(\E c \in calls : c.kind = k /\ Answer(c))

----------------------------------------------------------------------------
(* Properties.                                                             *)

\* What a page behind the gate shows as the catalogue is the signed-in user's own, or it
\* is known to be stale: marked invalid (a mount refetches it), or a request whose answer
\* refreshes it is under way.  (A favourite refused after its session ended writes the old
\* list back.)  The exception: nothing removes the catalogue when the gate, and not a 401 of
\* an established session, sends the visitor to the sign-in page (routes/AuthGate.tsx:16-20),
\* or when a sign-in is answered behind the gate.
ForeignIsStale ==
    Shell /\ ~kept /\ catalog.data # None /\ catalog.data.owner # me.data.user
        => catalog.invalid \/ \E kind \in {"catalog", "favorite", "me"} : Fetching(kind)

\* No star lies for good: once the clicks are answered and the list is neither stale nor
\* being fetched, the stars shown are the server's (useToggleFavorite: snapshot, optimistic
\* update, rollback and refetch, for clicks that overlap and fail in any order).  The one
\* exception is a click settled after the catalogue page was left while a read was under
\* way: nothing cancels that read, and its older answer is taken for fresh.
StarsSettle ==
    \/ catalog.data = None \/ catalog.invalid
    \/ Fetching("catalog") \/ Fetching("favorite") \/ overtaken
    \/ catalog.data.favs = favorites[catalog.data.owner]

\* Whoever is thrown out returns to the place they were thrown out of: the page reached
\* from the sign-in page is the one the last gate or session-end redirect left.
ReturnsToPlace ==
    [][loc.page = "login" /\ loc'.page = "app" => loc'.at = left']_vars

\* A page that knows its session is established notices its end: a read sent with an
\* ended session leads to the sign-in page (one 401 is enough, lib/query.ts:20-25).
EndIsNoticed ==
    (/\ Shell /\ established
     /\ \E c \in calls : c.kind \in {"me", "catalog"} /\ c.live /\ c.ans = "denied")
        ~> (loc.page = "login" \/ losses = MaxLosses)

\* A refused request of an earlier session may send a signed-in visitor to the sign-in
\* page, but does not keep them there: /me answers and the page is left again.
SignedInGetsIn ==
    (loc.page = "login" /\ me.status = "pending" /\ cookie \in live)
        ~> (loc.page = "app" \/ cookie \notin live \/ me.status = "failed")

\* The pages follow the session: its end is noticed, and whoever has one gets in.
SessionFollowed == EndIsNoticed /\ SignedInGetsIn

=============================================================================
