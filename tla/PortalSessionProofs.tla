------------------------- MODULE PortalSessionProofs -------------------------
(***************************************************************************)
(* The safety properties of the page session, for any users, APIs and      *)
(* bounds, and any number of requests in flight.  Two invariants are       *)
(* inductive: Typed, with the payload each request and its answer carry,   *)
(* and Consistent, which says of every cache and every request in flight   *)
(* whose it is and how fresh.                                              *)
(***************************************************************************)
EXTENDS PortalSession, TLAPS

\* What comes back, and what each kind of request carries.
Answers == {"none", "ok", "denied", "lost", "locked"}
Star == [api: Api, on: BOOLEAN, n: Nat, previous: Listing]
Secret == [right: BOOLEAN, forced: BOOLEAN]
Payload == {None} \cup User \cup Identity \cup Listing \cup Star \cup Secret
Call == [kind: Kinds, tok: 0..MaxLogins, live: BOOLEAN, ans: Answers, data: Payload]

\* A request in flight, with the payload of its kind.
CallTyped(c) ==
    /\ c \in Call
    /\ c.kind = "me" /\ c.ans = "ok" => c.data \in Identity
    /\ c.kind = "catalog" /\ c.ans = "ok" => c.data \in Listing
    /\ c.kind = "favorite" => c.data \in Star
    /\ c.kind = "login" => c.data \in User
    /\ c.kind = "password" => c.data \in Secret

\* The requests cs are well formed, and a sign-in answered well names a session that is
\* somebody's (owners own).
Sound(cs, own) ==
    \A c \in cs : /\ CallTyped(c)
                  /\ c.kind = "login" /\ c.ans = "ok" => c.tok \in Token /\ own[c.tok] # None

\* The type invariant, strengthened by what the requests in flight carry: the answers that
\* arrive later set the caches.
Typed ==
    /\ TypeOK
    /\ clicks \in Nat
    /\ Sound(calls, owner)
    /\ cookie # 0 => owner[cookie] # None
    /\ me.status = "ok" => me.data \in Identity

\* The fields of a request being sent.
LEMMA SendIs ==
    ASSUME NEW kind \in Kinds, NEW data \in Payload, cookie \in 0..MaxLogins
    PROVE  /\ Send(kind, data) \in Call
           /\ Send(kind, data).kind = kind /\ Send(kind, data).tok = cookie
           /\ Send(kind, data).live = TRUE /\ Send(kind, data).ans = "none"
           /\ Send(kind, data).data = data
<1> HIDE DEF Kinds, Payload
<1>1. Send(kind, data) = [kind |-> kind, tok |-> cookie, live |-> TRUE, ans |-> "none", data |-> data]
  BY DEF Send
<1>2. "none" \in Answers BY DEF Answers
<1> HIDE DEF Answers
<1>3. TRUE \in BOOLEAN OBVIOUS
<1>4. Send(kind, data).live = TRUE BY DEF Send
<1>5. Send(kind, data) \in Call BY <1>1, <1>2, <1>3 DEF Call
<1> QED BY <1>1, <1>4, <1>5

\* A request that the server answered, and a sign-in that opened session t.
Reply(c, a, d) == [c EXCEPT !.ans = a, !.data = d]
Opened(c, t) == [c EXCEPT !.ans = "ok", !.tok = t]

\* The fields of an answered request.
LEMMA Answered ==
    ASSUME NEW c \in Call, NEW a \in Answers, NEW d \in Payload
    PROVE  /\ Reply(c, a, d) \in Call
           /\ Reply(c, a, d).kind = c.kind /\ Reply(c, a, d).tok = c.tok
           /\ Reply(c, a, d).live = c.live
           /\ Reply(c, a, d).ans = a /\ Reply(c, a, d).data = d
<1> HIDE DEF Kinds, Payload, Answers
<1> QED BY DEF Call, Reply

\* The fields of a sign-in answered well.
LEMMA GrantedLogin ==
    ASSUME NEW c \in Call, NEW t \in Token
    PROVE  /\ Opened(c, t) \in Call
           /\ Opened(c, t).kind = c.kind /\ Opened(c, t).tok = t
           /\ Opened(c, t).live = c.live
           /\ Opened(c, t).ans = "ok" /\ Opened(c, t).data = c.data
<1> HIDE DEF Kinds, Payload
<1>1. "ok" \in Answers BY DEF Answers
<1> HIDE DEF Answers
<1>2. t \in 0..MaxLogins BY ConstantsAssumption DEF Token
<1> QED BY <1>1, <1>2 DEF Call, Opened

\* The fields of a lost request.
LEMMA Lost ==
    ASSUME NEW c \in Call, NEW e, e = [c EXCEPT !.ans = "lost"]
    PROVE  /\ e \in Call
           /\ e.kind = c.kind /\ e.tok = c.tok /\ e.live = c.live /\ e.ans = "lost"
           /\ e.data = c.data
<1> HIDE DEF Kinds, Payload
<1>1. "lost" \in Answers BY DEF Answers
<1> HIDE DEF Answers
<1> QED BY <1>1 DEF Call

\* What Orphan leaves of a set of requests.
LEMMA Orphaned ==
    ASSUME NEW cs, \A c \in cs : c \in Call, NEW e \in Orphan(cs)
    PROVE  \E c \in cs : /\ c.kind # "catalog"
                         /\ e \in Call
                         /\ e.kind = c.kind /\ e.tok = c.tok /\ e.ans = c.ans /\ e.data = c.data
                         /\ IF c.kind = "me" THEN e.live = FALSE ELSE e = c
<1> HIDE DEF Kinds, Payload, Answers
<1>1. PICK c \in cs : c.kind # "catalog" /\ e = IF c.kind = "me" THEN [c EXCEPT !.live = FALSE] ELSE c
  BY DEF Orphan
<1>2. c \in Call BY <1>1
<1>3. FALSE \in BOOLEAN OBVIOUS
<1>4. CASE c.kind = "me"
  <2>1. e = [c EXCEPT !.live = FALSE] BY <1>1, <1>4
  <2>2. e.live = FALSE BY <1>2, <2>1, Zenon DEF Call
  <2>3. e \in Call /\ e.kind = c.kind /\ e.tok = c.tok /\ e.ans = c.ans /\ e.data = c.data
    BY <1>2, <1>3, <2>1 DEF Call
  <2> QED BY <1>1, <1>4, <2>2, <2>3
<1>5. CASE c.kind # "me" BY <1>1, <1>2, <1>5
<1> QED BY <1>4, <1>5

\* Orphan drops the reads of the catalogue and cuts off those of /me.
LEMMA OrphanKinds ==
    ASSUME NEW cs, \A c \in cs : c \in Call
    PROVE  \A e \in Orphan(cs) : /\ e.kind # "catalog"
                                 /\ e.kind = "me" => e.live = FALSE
                                 /\ e.kind # "me" => e \in cs
<1> SUFFICES ASSUME NEW e \in Orphan(cs)
             PROVE  /\ e.kind # "catalog" /\ (e.kind = "me" => e.live = FALSE)
                    /\ (e.kind # "me" => e \in cs)
  OBVIOUS
<1>1. PICK c \in cs : /\ c.kind # "catalog" /\ e.kind = c.kind
                      /\ IF c.kind = "me" THEN e.live = FALSE ELSE e = c
  BY Orphaned
<1> QED BY <1>1

\* Orphaned requests stay well formed.
LEMMA SoundOrphan ==
    ASSUME NEW cs, NEW own, Sound(cs, own)
    PROVE  Sound(Orphan(cs), own)
<1> SUFFICES ASSUME NEW e \in Orphan(cs)
             PROVE  /\ CallTyped(e)
                    /\ e.kind = "login" /\ e.ans = "ok" => e.tok \in Token /\ own[e.tok] # None
  BY DEF Sound
<1>1. \A c \in cs : c \in Call BY DEF Sound, CallTyped
<1>2. PICK c \in cs : /\ c.kind # "catalog"
                      /\ e \in Call
                      /\ e.kind = c.kind /\ e.tok = c.tok /\ e.ans = c.ans /\ e.data = c.data
  BY <1>1, Orphaned
<1> HIDE DEF Call, Token, Identity, Listing, Star, Secret
<1> QED BY <1>2 DEF Sound, CallTyped

\* A request being sent is well formed.
LEMMA SoundSend ==
    ASSUME NEW kind \in Kinds, NEW data \in Payload, NEW own, cookie \in 0..MaxLogins,
           kind = "favorite" => data \in Star,
           kind = "login" => data \in User,
           kind = "password" => data \in Secret
    PROVE  Sound({Send(kind, data)}, own)
<1> HIDE DEF Call, Token, Identity, Listing, Star, Secret, Payload
<1> DEFINE s == Send(kind, data)
<1>1. s \in Call /\ s.kind = kind /\ s.ans = "none" /\ s.data = data BY SendIs
<1> HIDE DEF s
<1>2. CallTyped(s) BY <1>1 DEF CallTyped
<1>3. s.ans # "ok" BY <1>1
<1>4. Sound({s}, own) BY <1>2, <1>3 DEF Sound
<1> QED BY <1>4 DEF s

\* The page starts well typed.
LEMMA InitTyped == Init => Typed
<1> SUFFICES ASSUME Init PROVE Typed OBVIOUS
<1> USE ConstantsAssumption DEF Init
<1>1. TypeOK
  <2>1. loc \in [page: {"login", "app"}, at: Place] /\ left \in Place BY DEF Place
  <2>2. me \in [status: {"none", "pending", "ok", "denied", "failed"},
  data: Identity \cup {None}]
    BY DEF NoMe
  <2>3. catalog \in [data: Listing \cup {None}, invalid: BOOLEAN] BY DEF NoCatalog
  <2>4. established \in BOOLEAN /\ leaving \in BOOLEAN /\ {overtaken, kept} \subseteq BOOLEAN
    BY Zenon
  <2>5. /\ owner \in [Token -> User \cup {None}] /\ live \subseteq {t \in Token : owner[t] # None}
        /\ favorites \in [User -> SUBSET Api] /\ must \subseteq User
        /\ cookie \in 0..MaxLogins
        /\ \A c \in calls : /\ c.kind \in Kinds /\ c.tok \in 0..MaxLogins
                            /\ c.ans \in {"none", "ok", "denied", "lost", "locked"}
        /\ signing \in {"idle", "login", "me", "locked"}
    OBVIOUS
  <2> QED BY <2>1, <2>2, <2>3, <2>4, <2>5 DEF TypeOK
<1>2. me.status # "ok" BY DEF NoMe
<1> QED BY <1>1, <1>2 DEF Typed, Sound

\* Well-formed requests have the types TypeOK asks for.
LEMMA TypedCalls ==
    ASSUME NEW cs, NEW own, Sound(cs, own)
    PROVE  \A c \in cs : /\ c.kind \in Kinds /\ c.tok \in 0..MaxLogins
                         /\ c.ans \in {"none", "ok", "denied", "lost", "locked"}
<1> HIDE DEF Kinds, Payload
<1> QED BY DEF Sound, CallTyped, Call, Answers

\* The types of the caches and of the router.
MeType == [status: {"none", "pending", "ok", "denied", "failed"}, data: Identity \cup {None}]
CatalogType == [data: Listing \cup {None}, invalid: BOOLEAN]
PlaceType == [page: {"login", "app"}, at: Place]

\* Typed, conjunct by conjunct.
Parts ==
    /\ Sound(calls, owner)
    /\ owner \in [Token -> User \cup {None}]
    /\ live \subseteq {t \in Token : owner[t] # None}
    /\ favorites \in [User -> SUBSET Api]
    /\ must \subseteq User
    /\ cookie \in 0..MaxLogins /\ (cookie # 0 => owner[cookie] # None)
    /\ loc \in PlaceType
    /\ established \in BOOLEAN
    /\ me \in MeType /\ (me.status = "ok" => me.data \in Identity)
    /\ catalog \in CatalogType
    /\ signing \in {"idle", "login", "me", "locked"}
    /\ leaving \in BOOLEAN
    /\ left \in Place
    /\ overtaken \in BOOLEAN /\ kept \in BOOLEAN
    /\ clicks \in Nat

\* Both forms say the same.
LEMMA TypedParts == Typed <=> Parts
<1> HIDE DEF Kinds, Place, Identity, Listing
<1>1. Sound(calls, owner) =>
         \A c \in calls : /\ c.kind \in Kinds /\ c.tok \in 0..MaxLogins
                          /\ c.ans \in {"none", "ok", "denied", "lost", "locked"}
  BY TypedCalls
<1> HIDE DEF Sound
<1>2. {overtaken, kept} \subseteq BOOLEAN <=> overtaken \in BOOLEAN /\ kept \in BOOLEAN OBVIOUS
<1> QED BY <1>1, <1>2, Zenon DEF Typed, TypeOK, Parts, MeType, CatalogType, PlaceType

\* The cache of /me while it is fetched.
LEMMA MeFetchingTyped ==
    ASSUME Parts PROVE MeFetching \in MeType /\ (MeFetching.status = "ok" => MeFetching.data \in Identity)
<1> HIDE DEF Identity
<1>1. me \in MeType /\ (me.status = "ok" => me.data \in Identity) BY DEF Parts
<1> QED BY <1>1 DEF MeFetching, MeType

\* The steps that send a request keep the types.
LEMMA TypedSending ==
    ASSUME Parts,
           StartMe \/ RetryMe \/ SignOut \/ FetchCatalog \/ (\E u \in User : Login(u))
             \/ (\E right \in BOOLEAN : ChangePassword(right))
             \/ (\E a \in Api : ToggleFavorite(a))
    PROVE  Parts'
<1> USE DEF serverVars, ghosts, bounds
<1>1. cookie \in 0..MaxLogins /\ Sound(calls, owner) BY DEF Parts
<1>2. None \in Payload BY DEF Payload
<1>3. CASE StartMe \/ RetryMe
  <2>1. Sound({Send("me", None)}, owner) BY <1>1, <1>2, SoundSend DEF Kinds
  <2> HIDE DEF Send
  <2>2. calls' = calls \cup {Send("me", None)} /\ owner' = owner BY <1>3 DEF StartMe, RetryMe
  <2>3. Sound(calls', owner') BY <1>1, <2>1, <2>2 DEF Sound
  <2>4. me' = MeFetching /\ UNCHANGED <<owner, live, favorites, must, cookie, loc, established,
                                        catalog, signing, leaving, left, overtaken, kept,
                                        clicks>>
    BY <1>3, Zenon DEF StartMe, RetryMe
  <2> HIDE DEF MeFetching, Sound, MeType, CatalogType, PlaceType
  <2> QED BY <2>3, <2>4, MeFetchingTyped, Zenon DEF Parts
<1>4. CASE SignOut \/ FetchCatalog
  <2>1. Sound({Send("logout", None)}, owner) /\ Sound({Send("catalog", None)}, owner)
    BY <1>1, <1>2, SoundSend DEF Kinds
  <2> HIDE DEF Send
  <2>2. (calls' = calls \cup {Send("logout", None)} \/ calls' = calls \cup {Send("catalog",
  None)}) /\ owner' = owner BY <1>4 DEF SignOut, FetchCatalog
  <2>3. Sound(calls', owner') BY <1>1, <2>1, <2>2 DEF Sound
  <2>4. UNCHANGED <<owner, live, favorites, must, cookie, loc, established, me, catalog,
                    signing, leaving, left, overtaken, kept, clicks>>
    BY <1>4, Zenon DEF SignOut, FetchCatalog
  <2> HIDE DEF Sound, MeType, CatalogType, PlaceType
  <2> QED BY <2>3, <2>4, Zenon DEF Parts
<1>5. ASSUME NEW u \in User, Login(u) PROVE Parts'
  <2>1. u \in Payload BY DEF Payload
  <2>2. Sound({Send("login", u)}, owner) BY <1>1, <2>1, SoundSend DEF Kinds
  <2> HIDE DEF Send
  <2>3. calls' = calls \cup {Send("login", u)} /\ owner' = owner BY <1>5 DEF Login
  <2>4. Sound(calls', owner') BY <1>1, <2>2, <2>3 DEF Sound
  <2>5. signing' = "login" /\ UNCHANGED <<owner, live, favorites, must, cookie, loc,
                                          established, me, catalog, leaving, left, overtaken,
                                          kept, clicks>>
    BY <1>5, Zenon DEF Login
  <2> HIDE DEF Sound, MeType, CatalogType, PlaceType
  <2> QED BY <2>4, <2>5, Zenon DEF Parts
<1>6. ASSUME NEW right \in BOOLEAN, ChangePassword(right) PROVE Parts'
  <2> DEFINE d == [right |-> right, forced |-> Restricted]
  <2>1. d \in Secret
    <3>1. Restricted \in BOOLEAN BY DEF Restricted
    <3> HIDE DEF Restricted
    <3> QED BY <3>1, Zenon DEF Secret
  <2>2. ChangePassword(right) <=> ChangePassword(right) /\ calls' = calls \cup {Send("password", d)}
    BY DEF ChangePassword
  <2> HIDE DEF d
  <2>3. d \in Payload BY <2>1 DEF Payload
  <2>4. Sound({Send("password", d)}, owner) BY <1>1, <2>1, <2>3, SoundSend DEF Kinds
  <2> HIDE DEF Send
  <2>5. Sound(calls', owner') BY <1>1, <1>6, <2>2, <2>4 DEF Sound, ChangePassword
  <2>6. clicks' = clicks + 1 /\ UNCHANGED <<owner, live, favorites, must, cookie, loc,
                                            established, me, catalog, signing, leaving, left,
                                            overtaken, kept>>
    BY <1>6, Zenon DEF ChangePassword
  <2>7. clicks' \in Nat BY <2>6 DEF Parts
  <2> HIDE DEF Sound, MeType, CatalogType, PlaceType
  <2> QED BY <2>5, <2>6, <2>7, Zenon DEF Parts
<1>7. ASSUME NEW a \in Api, ToggleFavorite(a) PROVE Parts'
  <2> DEFINE on == a \notin catalog.data.favs
  <2> DEFINE p == catalog.data
  <2> DEFINE q == [p EXCEPT !.favs = IF on THEN @ \cup {a} ELSE @ \ {a}]
  <2> DEFINE d == [api |-> a, on |-> on, n |-> clicks, previous |-> p]
  <2>1. /\ catalog' = [data |-> q, invalid |-> FALSE]
        /\ calls' = {x \in calls : x.kind # "catalog"} \cup {Send("favorite", d)}
        /\ p # None
        /\ clicks' = clicks + 1
        /\ UNCHANGED <<owner, live, favorites, must, cookie, loc, established, me, signing,
                       leaving, left, overtaken, kept>>
    BY <1>7, Zenon DEF ToggleFavorite
  <2>2. p \in Listing BY <2>1 DEF Parts, CatalogType
  <2>3. q \in Listing BY <2>2 DEF Listing
  <2>4. d \in Star
    <3>1. on \in BOOLEAN OBVIOUS
    <3>2. clicks \in Nat BY DEF Parts
    <3> HIDE DEF on, p, Listing
    <3> QED BY <2>2, <3>1, <3>2, Zenon DEF Star
  <2> HIDE DEF d, q, p
  <2>5. d \in Payload BY <2>4 DEF Payload
  <2>6. Sound({Send("favorite", d)}, owner) BY <1>1, <2>4, <2>5, SoundSend DEF Kinds
  <2> HIDE DEF Send
  <2>7. Sound(calls', owner') BY <1>1, <2>1, <2>6 DEF Sound
  <2>8. catalog' \in CatalogType BY <2>1, <2>3, Zenon DEF CatalogType
  <2>9. clicks' \in Nat BY <2>1 DEF Parts
  <2> HIDE DEF Sound, MeType, CatalogType, PlaceType
  <2> QED BY <2>1, <2>7, <2>8, <2>9, Zenon DEF Parts
<1> QED BY <1>3, <1>4, <1>5, <1>6, <1>7

\* The steps that only move the page keep the types.
LEMMA TypedMoving ==
    ASSUME Parts,
           GateRedirect \/ LoginRedirect \/ FinishLogin \/ LeavePassword \/ Unlock \/ SessionEnds
             \/ (\E p \in Place : Navigate(p))
    PROVE  Parts'
<1> USE DEF serverVars, ghosts, bounds, clientVars
<1>1. loc \in PlaceType /\ NoMe \in MeType /\ NoMe.status # "ok" BY DEF Parts, NoMe, MeType
<1>2. {"home", "deep", "password"} = Place BY DEF Place
<1>3. CASE GateRedirect
  <2>1. loc' \in PlaceType /\ left' \in Place
    <3>1. loc' \in {[page |-> "login", at |-> loc.at], [page |-> "app", at |-> "password"],
                    [page |-> "app", at |-> "deep"]}
      BY <1>3 DEF GateRedirect
    <3>2. loc' \in PlaceType BY <1>1, <3>1, <1>2 DEF PlaceType
    <3>3. left' = left \/ left' = loc'.at BY <1>3, Zenon DEF GateRedirect
    <3> QED BY <3>2, <3>3 DEF Parts, PlaceType
  <2>2. me' \in {me, NoMe} /\ UNCHANGED <<owner, live, favorites, must, cookie, established,
                                          catalog, calls, signing, leaving, overtaken, clicks>>
    BY <1>3, Zenon DEF GateRedirect
  <2>3. kept' \in BOOLEAN BY <1>3, Zenon DEF GateRedirect, Parts
  <2> HIDE DEF Sound, MeType, CatalogType, PlaceType, NoMe
  <2> QED BY <1>1, <2>1, <2>2, <2>3, Zenon DEF Parts
<1>4. CASE LoginRedirect \/ FinishLogin \/ LeavePassword
  <2>1. loc' \in PlaceType
    BY <1>4, <1>1, <1>2 DEF LoginRedirect, FinishLogin, LeavePassword, PlaceType
  <2>2. /\ UNCHANGED <<owner, live, favorites, must, cookie, established, me, catalog, calls,
                       overtaken, kept, clicks>>
        /\ left' \in {left, "home"} /\ signing' \in {signing, "idle"}
        /\ (leaving' = leaving \/ leaving' = FALSE)
    BY <1>4, Zenon DEF LoginRedirect, FinishLogin, LeavePassword
  <2>3. leaving' \in BOOLEAN BY <2>2, Zenon DEF Parts
  <2>4. left' \in Place /\ signing' \in {"idle", "login", "me", "locked"}
    BY <2>2, <1>2 DEF Parts
  <2> HIDE DEF Sound, MeType, CatalogType, PlaceType
  <2> QED BY <2>1, <2>2, <2>3, <2>4, Zenon DEF Parts
<1>5. CASE Unlock
  <2>1. signing' = "idle" /\ UNCHANGED <<owner, live, favorites, must, cookie, loc,
                                         established, me, catalog, calls, leaving, left,
                                         overtaken, kept, clicks>>
    BY <1>5, Zenon DEF Unlock
  <2> HIDE DEF Sound, MeType, CatalogType, PlaceType
  <2> QED BY <2>1, Zenon DEF Parts
<1>6. CASE SessionEnds
  <2>1. UNCHANGED <<owner, favorites, must, cookie, loc, established, me, catalog, calls,
                    signing, leaving, left, overtaken, kept, clicks>>
    BY <1>6, Zenon DEF SessionEnds
  <2>2. live' \subseteq live BY <1>6 DEF SessionEnds
  <2>3. live' \subseteq {t \in Token : owner'[t] # None} BY <2>1, <2>2 DEF Parts
  <2> HIDE DEF Sound, MeType, CatalogType, PlaceType
  <2> QED BY <2>1, <2>3, Zenon DEF Parts
<1>7. ASSUME NEW p \in Place, Navigate(p) PROVE Parts'
  <2>1. loc' = [loc EXCEPT !.at = p] /\ UNCHANGED <<owner, live, favorites, must, cookie,
                                                    established, me, catalog, calls, signing,
                                                    leaving, left, overtaken, kept, clicks>>
    BY <1>7, Zenon DEF Navigate
  <2>2. loc' \in PlaceType BY <2>1, <1>1 DEF PlaceType
  <2> HIDE DEF Sound, MeType, CatalogType, PlaceType
  <2> QED BY <2>1, <2>2, Zenon DEF Parts
<1> QED BY <1>3, <1>4, <1>5, <1>6, <1>7

\* An answered request is well formed if its answer is.
LEMMA SoundReply ==
    ASSUME NEW c, NEW own, NEW a \in Answers, NEW d \in Payload, CallTyped(c), c.kind # "login",
           a = "ok" /\ c.kind = "me" => d \in Identity,
           a = "ok" /\ c.kind = "catalog" => d \in Listing,
           c.kind = "favorite" => d \in Star,
           c.kind = "password" => d \in Secret
    PROVE  Sound({[c EXCEPT !.ans = a, !.data = d]}, own)
<1> DEFINE e == [c EXCEPT !.ans = a, !.data = d]
<1>1. c \in Call BY DEF CallTyped
<1>2. e \in Call /\ e.kind = c.kind /\ e.ans = a /\ e.data = d
  <2>1. e = Reply(c, a, d) BY DEF Reply
  <2> HIDE DEF e, Call, Payload, Answers
  <2> QED BY <1>1, <2>1, Answered
<1> HIDE DEF e, Call, Identity, Listing, Star, Secret, Payload, Answers
<1>3. CallTyped(e) BY <1>2 DEF CallTyped
<1>4. Sound({e}, own) BY <1>2, <1>3 DEF Sound
<1> QED BY <1>4 DEF e

\* The server's steps keep the types.
LEMMA TypedServing ==
    ASSUME Parts, NEW c \in calls, Serve(c)
    PROVE  Parts'
<1> USE DEF serverVars, ghosts, bounds, clientVars
<1> DEFINE rest == calls \ {c}
<1>1. CallTyped(c) /\ c \in Call /\ Sound(rest, owner) /\ Sound(calls, owner)
  BY DEF Parts, Sound, CallTyped
<1>2. Handle(c) /\ UNCHANGED <<cookie, loc, established, me, catalog, signing, leaving, left,
                               overtaken, kept, clicks>>
  BY Zenon DEF Serve
<1>3. c.data \in Payload /\ c.kind \in Kinds BY <1>1 DEF Call
<1>4. None \in Payload /\ Identity \subseteq Payload /\ Listing \subseteq Payload BY DEF Payload
<1>5. {"ok", "denied", "locked"} \subseteq Answers BY DEF Answers
<1>6. c.tok \in live => owner[c.tok] \in User BY DEF Parts
<1>7. /\ owner \in [Token -> User \cup {None}] /\ live \subseteq {t \in Token : owner[t] # None}
      /\ favorites \in [User -> SUBSET Api] /\ must \subseteq User
  BY DEF Parts
<1>8. ASSUME Sound(calls', owner'), owner' \in [Token -> User \cup {None}],
             live' \subseteq {t \in Token : owner'[t] # None},
             favorites' \in [User -> SUBSET Api], must' \subseteq User,
             cookie # 0 => owner'[cookie] # None
      PROVE  Parts'
  <2> HIDE DEF Sound, MeType, CatalogType, PlaceType
  <2> QED BY <1>2, <1>8, Zenon DEF Parts
<1>9. cookie # 0 => owner[cookie] # None BY DEF Parts
<1>10. CASE c.kind = "me"
  <2> DEFINE d == [user |-> owner[c.tok], must |-> owner[c.tok] \in must]
  <2>1. UNCHANGED <<owner, live, favorites, must>> BY <1>2, <1>10 DEF Handle
  <2>2. \/ c.tok \in live /\ calls' = rest \cup {[c EXCEPT !.ans = "ok", !.data = d]}
        \/ calls' = rest \cup {[c EXCEPT !.ans = "denied", !.data = None]}
    BY <1>2, <1>10 DEF Handle
  <2>3. c.tok \in live => d \in Identity
    <3>1. (owner[c.tok] \in must) \in BOOLEAN OBVIOUS
    <3> QED BY <1>6, <3>1, Zenon DEF Identity
  <2> HIDE DEF d, Sound, Answers, Payload, Identity, Listing, rest
  <2>4. c.tok \in live => Sound({[c EXCEPT !.ans = "ok", !.data = d]}, owner)
    BY <1>10, <1>1, <1>4, <1>5, <2>3, SoundReply
  <2>5. Sound({[c EXCEPT !.ans = "denied", !.data = None]}, owner)
    BY <1>10, <1>1, <1>4, <1>5, SoundReply
  <2>6. Sound(calls', owner') BY <1>1, <2>1, <2>2, <2>4, <2>5 DEF Sound
  <2> QED BY <1>7, <1>8, <1>9, <2>1, <2>6
<1>11. CASE c.kind = "catalog"
  <2> DEFINE d == [owner |-> owner[c.tok], favs |-> favorites[owner[c.tok]]]
  <2>1. UNCHANGED <<owner, live, favorites, must>> BY <1>2, <1>11 DEF Handle
  <2>2. \/ c.tok \in live /\ calls' = rest \cup {[c EXCEPT !.ans = "ok", !.data = d]}
        \/ calls' = rest \cup {[c EXCEPT !.ans = "denied", !.data = None]}
    BY <1>2, <1>11 DEF Handle
  <2>3. c.tok \in live => d \in Listing BY <1>6, <1>7 DEF Listing
  <2> HIDE DEF d, Sound, Answers, Payload, Identity, Listing, rest
  <2>4. c.tok \in live => Sound({[c EXCEPT !.ans = "ok", !.data = d]}, owner)
    BY <1>11, <1>1, <1>4, <1>5, <2>3, SoundReply
  <2>5. Sound({[c EXCEPT !.ans = "denied", !.data = None]}, owner)
    BY <1>11, <1>1, <1>4, <1>5, SoundReply
  <2>6. Sound(calls', owner') BY <1>1, <2>1, <2>2, <2>4, <2>5 DEF Sound
  <2> QED BY <1>7, <1>8, <1>9, <2>1, <2>6
<1>12. CASE c.kind \in {"favorite", "logout", "password"}
  <2>1. owner' = owner /\ live' \subseteq live /\ must' \subseteq must
    BY <1>2, <1>12 DEF Handle
  <2>2. \E a \in {"ok", "denied"}, d \in {c.data, None} :
           /\ c.kind \in {"favorite", "password"} => d = c.data
           /\ calls' = rest \cup {[c EXCEPT !.ans = a, !.data = d]}
    BY <1>2, <1>12 DEF Handle
  <2>3. favorites' \in [User -> SUBSET Api]
    <3>1. CASE c.kind = "favorite" /\ c.tok \in live
      <4>1. favorites' = [favorites EXCEPT ![owner[c.tok]] =
                             IF c.data.on THEN @ \cup {c.data.api} ELSE @ \ {c.data.api}]
        BY <1>2, <3>1 DEF Handle
      <4>2. c.data.api \in Api BY <1>1, <3>1 DEF CallTyped, Star
      <4> QED BY <1>6, <1>7, <3>1, <4>1, <4>2
    <3>2. CASE ~(c.kind = "favorite" /\ c.tok \in live)
      <4>1. favorites' = favorites BY <1>2, <1>12, <3>2 DEF Handle
      <4> QED BY <1>7, <4>1
    <3> QED BY <3>1, <3>2
  <2>4. PICK a \in {"ok", "denied"}, d \in {c.data, None} :
           /\ c.kind \in {"favorite", "password"} => d = c.data
           /\ calls' = rest \cup {[c EXCEPT !.ans = a, !.data = d]}
    BY <2>2
  <2>5. a \in Answers /\ d \in Payload BY <1>3, <1>4, <1>5, <2>4
  <2>6. (c.kind = "favorite" => d \in Star) /\ (c.kind = "password" => d \in Secret)
    BY <1>1, <2>4 DEF CallTyped
  <2> HIDE DEF Sound, Answers, Payload, Identity, Listing, Star, Secret, rest
  <2>7. Sound({[c EXCEPT !.ans = a, !.data = d]}, owner) BY <1>12, <1>1, <2>5, <2>6, SoundReply
  <2>8. Sound(calls', owner') BY <1>1, <2>1, <2>4, <2>7 DEF Sound
  <2>9. live' \subseteq {t \in Token : owner'[t] # None} /\ must' \subseteq User BY <1>7, <2>1
  <2> QED BY <1>7, <1>8, <1>9, <2>1, <2>3, <2>8, <2>9
<1>13. CASE c.kind = "login"
  <2>1. favorites' = favorites /\ must' = must BY <1>2, <1>13 DEF Handle
  <2>2. c.data \in User BY <1>1, <1>13 DEF CallTyped
  <2>3. CASE \E t \in Token : /\ owner[t] = None
                              /\ owner' = [owner EXCEPT ![t] = c.data]
                              /\ live' = live \cup {t}
                              /\ calls' = rest \cup {[c EXCEPT !.ans = "ok", !.tok = t]}
    <3>1. PICK t \in Token : /\ owner[t] = None
                             /\ owner' = [owner EXCEPT ![t] = c.data]
                             /\ live' = live \cup {t}
                             /\ calls' = rest \cup {[c EXCEPT !.ans = "ok", !.tok = t]}
      BY <2>3
    <3>2. owner' \in [Token -> User \cup {None}] /\ owner'[t] # None
          /\ \A s \in Token : owner[s] # None => owner'[s] = owner[s]
      BY <1>7, <2>2, <3>1, ConstantsAssumption
    <3>3. live' \subseteq {s \in Token : owner'[s] # None} BY <1>7, <3>1, <3>2
    <3>4. cookie # 0 => owner'[cookie] # None
      <4>1. cookie # 0 => cookie \in Token BY DEF Parts, Token
      <4> QED BY <1>9, <3>2, <4>1
    <3> DEFINE e == [c EXCEPT !.ans = "ok", !.tok = t]
    <3>5. e \in Call /\ e.kind = c.kind /\ e.tok = t /\ e.ans = "ok" /\ e.data = c.data
      <4>1. e = Opened(c, t) BY DEF Opened
      <4> HIDE DEF e, Call
      <4> QED BY <1>1, <4>1, GrantedLogin
    <3>6. calls' = rest \cup {e} BY <3>1
    <3> HIDE DEF e, rest, Call, Token, Identity, Listing, Star, Secret
    <3>7. CallTyped(e) BY <1>13, <2>2, <3>5 DEF CallTyped
    <3>8. Sound(calls', owner') BY <1>1, <3>2, <3>5, <3>6, <3>7 DEF Sound
    <3> QED BY <1>7, <1>8, <2>1, <3>2, <3>3, <3>4, <3>8
  <2>4. CASE \E a \in {"denied", "locked"} :
               /\ calls' = rest \cup {[c EXCEPT !.ans = a, !.data = c.data]}
               /\ owner' = owner /\ live' = live
    <3>1. PICK a \in {"denied", "locked"} :
               /\ calls' = rest \cup {[c EXCEPT !.ans = a, !.data = c.data]}
               /\ owner' = owner /\ live' = live
      BY <2>4
    <3> DEFINE e == [c EXCEPT !.ans = a, !.data = c.data]
    <3>2. a \in Answers /\ a # "ok" BY <1>5, <3>1
    <3>3. e \in Call /\ e.kind = c.kind /\ e.tok = c.tok /\ e.ans = a /\ e.data = c.data
      <4>1. e = Reply(c, a, c.data) BY DEF Reply
      <4> HIDE DEF e, Call, Payload, Answers
      <4> QED BY <1>1, <1>3, <3>2, <4>1, Answered
    <3>4. calls' = rest \cup {e} BY <3>1
    <3> HIDE DEF e, rest, Call, Token, Identity, Listing, Star, Secret, Answers
    <3>5. CallTyped(e) BY <1>13, <2>2, <3>3 DEF CallTyped
    <3>6. Sound(calls', owner') BY <1>1, <3>1, <3>2, <3>3, <3>4, <3>5 DEF Sound
    <3> QED BY <1>7, <1>8, <1>9, <2>1, <3>1, <3>6
  <2> QED BY <1>2, <1>13, <2>3, <2>4 DEF Handle
<1> QED BY <1>3, <1>10, <1>11, <1>12, <1>13 DEF Kinds

\* A loss keeps the types.
LEMMA TypedLosing ==
    ASSUME Parts, NEW c \in calls, Lose(c)
    PROVE  Parts'
<1> USE DEF serverVars, ghosts, bounds, clientVars
<1> DEFINE e == [c EXCEPT !.ans = "lost"]
<1>1. /\ UNCHANGED <<owner, live, favorites, must, cookie, loc, established, me, catalog,
                     signing, leaving, left, overtaken, kept, clicks>>
      /\ calls' = (calls \ {c}) \cup {e}
  BY Zenon DEF Lose
<1>2. CallTyped(c) /\ c \in Call BY DEF Parts, Sound, CallTyped
<1>3. e \in Call /\ e.kind = c.kind /\ e.tok = c.tok /\ e.ans = "lost" /\ e.data = c.data
  <2> HIDE DEF Call
  <2> QED BY <1>2, Lost
<1> HIDE DEF e, Call, Token, Identity, Listing, Star, Secret
<1>4. CallTyped(e) BY <1>2, <1>3 DEF CallTyped
<1>5. Sound(calls', owner') BY <1>1, <1>3, <1>4 DEF Sound, Parts
<1> HIDE DEF Sound, MeType, CatalogType, PlaceType
<1> QED BY <1>1, <1>5, Zenon DEF Parts

\* What the session-ended handler leaves is well typed.
LEMMA DeniedTyped ==
    ASSUME Parts, NEW cs, NEW m, Sound(cs, owner), Denied(cs, m),
           m \in MeType, m.status = "ok" => m.data \in Identity
    PROVE  /\ Sound(calls', owner)
           /\ loc' \in PlaceType /\ left' \in Place /\ established' \in BOOLEAN
           /\ me' \in MeType /\ (me'.status = "ok" => me'.data \in Identity)
<1>1. established' = FALSE BY DEF Denied
<1>2. CASE SessionOver
  <2>1. /\ me' = NoMe /\ calls' = Orphan(cs) /\ left' = loc.at
        /\ loc' = [page |-> "login", at |-> loc.at]
    BY <1>2 DEF Denied
  <2>2. loc' \in PlaceType /\ left' \in Place BY <2>1 DEF Parts, PlaceType
  <2>3. me' \in MeType /\ me'.status # "ok" BY <2>1 DEF NoMe, MeType
  <2> HIDE DEF Sound
  <2> QED BY <1>1, <2>1, <2>2, <2>3, SoundOrphan
<1>3. CASE ~SessionOver
  <2>1. me' = m /\ calls' = cs /\ loc' = loc /\ left' = left BY <1>3 DEF Denied
  <2> HIDE DEF Sound, PlaceType, MeType
  <2> QED BY <1>1, <2>1 DEF Parts
<1> QED BY <1>2, <1>3

\* So is the catalogue it leaves.
LEMMA AfterDeniedTyped == Parts => AfterDenied \in CatalogType
<1>1. NoCatalog \in CatalogType BY Zenon DEF NoCatalog, CatalogType
<1> QED BY <1>1, Zenon DEF AfterDenied, Parts

\* The answers, but for those to a click on a star, keep the types.
LEMMA TypedAnswer ==
    ASSUME Parts, NEW c \in calls,
           MeAnswer(c) \/ MeAnswerLate(c) \/ LoginAnswer(c) \/ LogoutAnswer(c) \/ PasswordAnswer(c)
             \/ CatalogAnswer(c)
    PROVE  Parts'
<1> USE DEF serverVars, ghosts, bounds
<1> DEFINE rest == calls \ {c}
<1>1. CallTyped(c) /\ Sound(rest, owner) /\ Sound(calls, owner) BY DEF Parts, Sound
<1>2. me \in MeType /\ (me.status = "ok" => me.data \in Identity) BY DEF Parts
<1>3. Sound(Orphan(rest), owner)
  <2> HIDE DEF rest, Sound
  <2> QED BY <1>1, SoundOrphan
<1>4. None \in Payload BY DEF Payload
<1>5. Sound({d \in calls : d.kind = "catalog"}, owner) BY <1>1 DEF Sound
<1>6. cookie \in 0..MaxLogins BY DEF Parts
<1>7. Sound({Send("me", None)}, owner) BY <1>4, <1>6, SoundSend DEF Kinds
<1>8. NoMe \in MeType /\ NoMe.status # "ok" BY DEF NoMe, MeType
<1>9. CASE MeAnswer(c)
  <2>1. UNCHANGED <<owner, live, favorites, must, cookie, signing, leaving, overtaken, clicks>>
        /\ c.kind = "me"
    BY <1>9, Zenon DEF MeAnswer
  <2>2. CASE c.ans = "ok"
    <3>1. /\ established' = TRUE /\ me' = [status |-> "ok", data |-> c.data] /\ calls' = rest
          /\ UNCHANGED <<loc, catalog, left, kept>>
      BY <1>9, <2>2, Zenon DEF MeAnswer
    <3>2. c.data \in Identity BY <1>1, <2>1, <2>2 DEF CallTyped
    <3>3. me' \in MeType /\ me'.data \in Identity BY <3>1, <3>2 DEF MeType
    <3>4. established' \in BOOLEAN BY <3>1, Zenon
    <3> HIDE DEF Sound, PlaceType, MeType, CatalogType, Identity, rest
    <3> QED BY <1>1, <2>1, <3>1, <3>3, <3>4, Zenon DEF Parts
  <2>3. CASE c.ans = "denied"
    <3> DEFINE m == [me EXCEPT !.status = "denied"]
    <3>1. Denied(rest, m) /\ catalog' = AfterDenied /\ kept' = (kept /\ ~SessionOver)
      BY <1>9, <2>3, Zenon DEF MeAnswer
    <3>2. m \in MeType /\ m.status # "ok" BY <1>2 DEF MeType
    <3>3. kept' \in BOOLEAN BY <3>1, Zenon
    <3> HIDE DEF Sound, PlaceType, MeType, CatalogType, Identity, rest, m, Denied, AfterDenied
    <3>4. /\ Sound(calls', owner)
          /\ loc' \in PlaceType /\ left' \in Place /\ established' \in BOOLEAN
          /\ me' \in MeType /\ (me'.status = "ok" => me'.data \in Identity)
      BY <1>1, <3>1, <3>2, DeniedTyped
    <3> QED BY <2>1, <3>1, <3>3, <3>4, AfterDeniedTyped, Zenon DEF Parts
  <2>4. CASE c.ans = "lost"
    <3>1. /\ me' = [me EXCEPT !.status = "failed"] /\ calls' = rest
          /\ UNCHANGED <<loc, established, catalog, left, kept>>
      BY <1>9, <2>4, Zenon DEF MeAnswer
    <3>2. me' \in MeType /\ me'.status # "ok" BY <1>2, <3>1 DEF MeType
    <3> HIDE DEF Sound, PlaceType, MeType, CatalogType, Identity, rest
    <3> QED BY <1>1, <2>1, <3>1, <3>2, Zenon DEF Parts
  <2> QED BY <1>9, <2>2, <2>3, <2>4, Zenon DEF MeAnswer
<1>10. CASE MeAnswerLate(c)
  <2>1. /\ established' = (established \/ c.ans = "ok") /\ calls' = rest
        /\ UNCHANGED <<owner, live, favorites, must, cookie, loc, me, catalog, signing,
                       leaving, left, overtaken, kept, clicks>>
    BY <1>10, Zenon DEF MeAnswerLate
  <2>2. established' \in BOOLEAN BY <2>1, Zenon
  <2> HIDE DEF Sound, PlaceType, MeType, CatalogType, Identity, rest
  <2> QED BY <1>1, <2>1, <2>2, Zenon DEF Parts
<1>11. CASE LoginAnswer(c)
  <2>1. UNCHANGED <<owner, live, favorites, must, loc, established, catalog, leaving, left,
                    overtaken, clicks>>
        /\ c.kind = "login"
    BY <1>11, Zenon DEF LoginAnswer
  <2>2. CASE c.ans = "ok"
    <3> DEFINE s == [Send("me", None) EXCEPT !.tok = c.tok]
    <3>1. /\ cookie' = c.tok /\ signing' = "me" /\ me' = MeFetching
          /\ calls' = Orphan(rest) \cup {d \in calls : d.kind = "catalog"} \cup {s}
          /\ kept' = (kept \/ (loc.page # "login" /\ Carried))
      BY <1>11, <2>2, Zenon DEF LoginAnswer
    <3>2. c.tok \in Token /\ owner[c.tok] # None BY <2>1, <2>2, <1>1 DEF Sound
    <3>3. c.tok \in 0..MaxLogins BY <3>2, ConstantsAssumption DEF Token
    <3>4. s \in Call /\ s.kind = "me" /\ s.ans = "none"
      <4>1. Send("me", None) \in Call /\ Send("me", None).kind = "me" /\ Send("me",
      None).ans = "none"
        BY <1>4, <1>6, SendIs DEF Kinds
      <4> HIDE DEF Send, Kinds, Answers, Payload
      <4> QED BY <3>3, <4>1 DEF Call
    <3>5. Sound({s}, owner)
      <4> HIDE DEF s, Call
      <4> QED BY <3>4 DEF Sound, CallTyped
    <3> HIDE DEF s, rest, Send
    <3>6. Sound(calls', owner) BY <1>3, <1>5, <3>1, <3>5 DEF Sound
    <3>7. kept' \in BOOLEAN BY <3>1, Zenon
    <3>8. cookie' \in 0..MaxLogins /\ owner[cookie'] # None BY <3>1, <3>2, <3>3
    <3> HIDE DEF Sound, PlaceType, MeType, CatalogType, Identity, MeFetching
    <3> QED BY <2>1, <3>1, <3>6, <3>7, <3>8, MeFetchingTyped, Zenon DEF Parts
  <2>3. CASE c.ans # "ok"
    <3>1. /\ (signing' = "locked" \/ signing' = "idle") /\ calls' = rest /\ UNCHANGED <<cookie,
                                                                                        me,
                                                                                        kept>>
      BY <1>11, <2>3, Zenon DEF LoginAnswer
    <3> HIDE DEF Sound, PlaceType, MeType, CatalogType, Identity, rest
    <3> QED BY <1>1, <2>1, <3>1, Zenon DEF Parts
  <2> QED BY <2>2, <2>3
<1>12. CASE LogoutAnswer(c)
  <2>1. /\ UNCHANGED <<owner, live, favorites, must, signing, leaving, overtaken, clicks>>
        /\ established' = FALSE /\ me' = NoMe /\ catalog' = NoCatalog /\ kept' = FALSE
        /\ calls' = Orphan(rest) /\ loc' = [page |-> "login", at |-> "home"] /\ left' = "home"
        /\ (cookie' = 0 \/ cookie' = cookie)
    BY <1>12, Zenon DEF LogoutAnswer
  <2>2. loc' \in PlaceType /\ left' \in Place BY <2>1 DEF PlaceType, Place
  <2>3. catalog' \in CatalogType BY <2>1, Zenon DEF NoCatalog, CatalogType
  <2>4. established' \in BOOLEAN /\ kept' \in BOOLEAN BY <2>1, Zenon
  <2>5. cookie' \in 0..MaxLogins /\ (cookie' # 0 => owner[cookie'] # None)
    BY <2>1, ConstantsAssumption DEF Parts
  <2> HIDE DEF Sound, PlaceType, MeType, CatalogType, Identity, rest, NoMe, NoCatalog
  <2> QED BY <1>3, <1>8, <2>1, <2>2, <2>3, <2>4, <2>5, Zenon DEF Parts
<1>13. CASE PasswordAnswer(c)
  <2>1. /\ UNCHANGED <<owner, live, favorites, must, cookie, loc, established, me, catalog,
                       signing, left, overtaken, kept, clicks>>
        /\ leaving' = (leaving \/ (c.ans = "ok" /\ c.data.forced))
        /\ \/ calls' = Orphan(rest) \cup {d \in calls : d.kind = "catalog"} \cup {Send("me", None)}
           \/ calls' = rest
    BY <1>13, Zenon DEF PasswordAnswer
  <2>2. leaving' \in BOOLEAN BY <2>1, Zenon
  <2> HIDE DEF rest, Send
  <2>3. Sound(calls', owner) BY <1>1, <1>3, <1>5, <1>7, <2>1 DEF Sound
  <2> HIDE DEF Sound, PlaceType, MeType, CatalogType, Identity
  <2> QED BY <2>1, <2>2, <2>3, Zenon DEF Parts
<1>14. CASE CatalogAnswer(c)
  <2>1. UNCHANGED <<owner, live, favorites, must, cookie, signing, leaving,
                    clicks>> /\ c.kind = "catalog"
    BY <1>14, Zenon DEF CatalogAnswer
  <2>2. CASE c.ans = "ok"
    <3>1. /\ catalog' = [data |-> c.data, invalid |-> FALSE] /\ calls' = rest
          /\ overtaken' = (overtaken /\ catalog.invalid)
          /\ UNCHANGED <<established, me, loc, left, kept>>
      BY <1>14, <2>2, Zenon DEF CatalogAnswer
    <3>2. c.data \in Listing BY <1>1, <2>1, <2>2 DEF CallTyped
    <3>3. catalog' \in CatalogType BY <3>1, <3>2, Zenon DEF CatalogType
    <3>4. overtaken' \in BOOLEAN BY <3>1, Zenon
    <3> HIDE DEF Sound, PlaceType, MeType, CatalogType, Identity, rest
    <3> QED BY <1>1, <2>1, <3>1, <3>3, <3>4, Zenon DEF Parts
  <2>3. CASE c.ans = "denied"
    <3>1. /\ Denied(rest, me) /\ catalog' = AfterDenied /\ overtaken' = overtaken
          /\ kept' = (kept /\ ~SessionOver)
      BY <1>14, <2>3, Zenon DEF CatalogAnswer
    <3>2. kept' \in BOOLEAN BY <3>1, Zenon
    <3> HIDE DEF Sound, PlaceType, MeType, CatalogType, Identity, rest, Denied, AfterDenied
    <3>3. /\ Sound(calls', owner)
          /\ loc' \in PlaceType /\ left' \in Place /\ established' \in BOOLEAN
          /\ me' \in MeType /\ (me'.status = "ok" => me'.data \in Identity)
      BY <1>1, <1>2, <3>1, DeniedTyped
    <3> QED BY <2>1, <3>1, <3>2, <3>3, AfterDeniedTyped, Zenon DEF Parts
  <2>4. CASE c.ans = "lost"
    <3>1. calls' = rest /\ UNCHANGED <<catalog, overtaken, kept, established, me, loc, left>>
      BY <1>14, <2>4, Zenon DEF CatalogAnswer
    <3> HIDE DEF Sound, PlaceType, MeType, CatalogType, Identity, rest
    <3> QED BY <1>1, <2>1, <3>1, Zenon DEF Parts
  <2> QED BY <1>14, <2>2, <2>3, <2>4, Zenon DEF CatalogAnswer
<1> QED BY <1>9, <1>10, <1>11, <1>12, <1>13, <1>14

\* invalidateQueries, by its effects: the list is marked stale unless there is none, and the
\* reads under way are replaced or overtaken.
LEMMA InvalidateIs ==
    ASSUME Parts, NEW cs, NEW data \in Listing \cup {None}, Invalidate(cs, data), Sound(cs,
    owner)
    PROVE  /\ Sound(calls', owner) /\ catalog' \in CatalogType /\ overtaken' \in BOOLEAN
           /\ catalog'.data = data /\ (data # None => catalog'.invalid)
           /\ (\E d \in cs : d.kind = "catalog") => catalog'.invalid
           /\ \/ /\ calls' = {d \in cs : d.kind # "catalog"} \cup {Send("catalog", None)}
                 /\ overtaken' = overtaken
                 /\ loc.page # "login" /\ loc' = loc
              \/ /\ calls' = cs
                 /\ overtaken' = (overtaken \/ \E d \in cs : d.kind = "catalog")
<1> DEFINE b == data # None \/ \E d \in cs : d.kind = "catalog"
<1>1. b \in BOOLEAN /\ (data # None => b) /\ ((\E d \in cs : d.kind = "catalog") => b) OBVIOUS
<1>2. catalog' = [data |-> data, invalid |-> b] BY Zenon DEF Invalidate
<1>3. catalog' \in CatalogType /\ catalog'.data = data /\ catalog'.invalid = b
  <2> HIDE DEF b
  <2>1. catalog'.data = data BY <1>2
  <2>2. catalog' \in CatalogType BY <1>1, <1>2, Zenon DEF CatalogType
  <2>3. catalog'.invalid = b BY <1>2
  <2> QED BY <2>1, <2>2, <2>3
<1>4. \/ /\ calls' = {d \in cs : d.kind # "catalog"} \cup {Send("catalog", None)}
         /\ overtaken' = overtaken
         /\ loc.page # "login" /\ loc' = loc
      \/ /\ calls' = cs
         /\ overtaken' = (overtaken \/ \E d \in cs : d.kind = "catalog")
  BY Zenon DEF Invalidate, CatalogShown, Shell
<1>5. Sound({Send("catalog", None)}, owner)
  <2>1. None \in Payload /\ cookie \in 0..MaxLogins BY DEF Payload, Parts
  <2> QED BY <2>1, SoundSend DEF Kinds
<1>6. Sound(calls', owner)
  <2> HIDE DEF Send
  <2> QED BY <1>4, <1>5 DEF Sound
<1>7. overtaken' \in BOOLEAN BY <1>4, Zenon DEF Parts
<1>8. (data # None => catalog'.invalid) /\ ((\E d \in cs : d.kind = "catalog") => catalog'.invalid)
  BY <1>1, <1>3, Zenon
<1> HIDE DEF b, CatalogType, Sound
<1> QED BY <1>3, <1>4, <1>6, <1>7, <1>8

\* The answer to a click on a star: invalidate, with or without the handler before it.
LEMMA FavoriteAnswerIs ==
    ASSUME Parts, NEW c \in calls, FavoriteAnswer(c)
    PROVE  /\ c.kind = "favorite"
           /\ \E data \in Listing \cup {None} :
                \/ /\ Invalidate(calls \ {c}, data) /\ UNCHANGED <<me, loc, left>>
                   /\ (established' = established \/ established' = FALSE)
                   /\ kept' = kept
                \/ /\ Invalidate(Orphan(calls \ {c}), data)
                   /\ me' = NoMe /\ left' = loc.at /\ loc' = [page |-> "login", at |-> loc.at]
                   /\ kept' = FALSE /\ established' = FALSE
           /\ UNCHANGED <<owner, live, favorites, must, cookie, signing, leaving, clicks>>
<1> USE DEF serverVars, ghosts, bounds
<1>1. c.kind = "favorite" /\ UNCHANGED <<owner, live, favorites, must, cookie, signing,
                                         leaving, clicks>>
  BY Zenon DEF FavoriteAnswer
<1>2. c.data.previous \in Listing BY <1>1 DEF Parts, Sound, CallTyped, Star
<1>3. catalog.data \in Listing \cup {None} BY DEF Parts, CatalogType
<1> HIDE DEF Invalidate, Listing, NoMe
<1>4. CASE c.ans = "ok"
  <2>1. UNCHANGED <<established, me, loc, left, kept>> /\ Invalidate(calls \ {c}, catalog.data)
    BY <1>4, Zenon DEF FavoriteAnswer
  <2> QED BY <1>1, <1>3, <2>1, Zenon
<1>5. CASE c.ans = "lost"
  <2>1. UNCHANGED <<established, me, loc, left, kept>> /\ Invalidate(calls \ {c},
  c.data.previous)
    BY <1>5, Zenon DEF FavoriteAnswer
  <2> QED BY <1>1, <1>2, <2>1, Zenon
<1>6. CASE c.ans = "denied"
  <2>1. established' = FALSE /\ kept' = (kept /\ ~SessionOver) BY <1>6, Zenon DEF FavoriteAnswer
  <2>2. CASE SessionOver
    <3>1. /\ me' = NoMe /\ left' = loc'.at /\ loc' = [page |-> "login", at |-> loc.at]
          /\ Invalidate(Orphan(calls \ {c}), c.data.previous)
      BY <1>6, <2>2, Zenon DEF FavoriteAnswer
    <3>2. left' = loc.at BY <3>1
    <3>3. kept' = FALSE BY <2>1, <2>2, Zenon
    <3> QED BY <1>1, <1>2, <2>1, <3>1, <3>2, <3>3, Zenon
  <2>3. CASE ~SessionOver
    <3>1. UNCHANGED <<me, loc, left>> /\ Invalidate(calls \ {c}, c.data.previous)
      BY <1>6, <2>3, Zenon DEF FavoriteAnswer
    <3>2. kept \in BOOLEAN BY DEF Parts
    <3>3. kept' = kept BY <2>1, <2>3, <3>2, Zenon
    <3> QED BY <1>1, <1>2, <2>1, <3>1, <3>3, Zenon
  <2> QED BY <2>2, <2>3
<1> QED BY <1>4, <1>5, <1>6, Zenon DEF FavoriteAnswer

\* The answers to a click keep the types.
LEMMA TypedFavorite ==
    ASSUME Parts, NEW c \in calls, FavoriteAnswer(c)
    PROVE  Parts'
<1> DEFINE rest == calls \ {c}
<1>1. Sound(rest, owner) BY DEF Parts, Sound
<1>2. UNCHANGED <<owner, live, favorites, must, cookie, signing, leaving, clicks>>
  BY FavoriteAnswerIs, Zenon
<1>3. PICK data \in Listing \cup {None} :
        \/ /\ Invalidate(rest, data) /\ UNCHANGED <<me, loc, left>>
           /\ (established' = established \/ established' = FALSE)
           /\ kept' = kept
        \/ /\ Invalidate(Orphan(rest), data)
           /\ me' = NoMe /\ left' = loc.at /\ loc' = [page |-> "login", at |-> loc.at]
           /\ kept' = FALSE /\ established' = FALSE
  BY FavoriteAnswerIs, Zenon
<1>4. established' \in BOOLEAN /\ kept' \in BOOLEAN BY <1>3, Zenon DEF Parts
<1>5. /\ loc' \in PlaceType /\ left' \in Place
      /\ me' \in MeType /\ (me'.status = "ok" => me'.data \in Identity)
  <2>1. NoMe \in MeType /\ NoMe.status # "ok" BY DEF NoMe, MeType
  <2>2. loc.at \in Place /\ [page |-> "login", at |-> loc.at] \in PlaceType
    BY DEF Parts, PlaceType
  <2> HIDE DEF MeType, PlaceType, Place, NoMe, Identity
  <2> QED BY <1>3, <2>1, <2>2, Zenon DEF Parts
<1>6. Sound(Orphan(rest), owner)
  <2> HIDE DEF rest, Sound
  <2> QED BY <1>1, SoundOrphan
<1> HIDE DEF Sound, PlaceType, MeType, CatalogType, Identity, Listing, rest, Invalidate
<1>7. Sound(calls', owner) /\ catalog' \in CatalogType /\ overtaken' \in BOOLEAN
  <2>1. CASE Invalidate(rest, data) BY <1>1, <2>1, InvalidateIs
  <2>2. CASE Invalidate(Orphan(rest), data) BY <1>6, <2>2, InvalidateIs
  <2> QED BY <1>3, <2>1, <2>2
<1> QED BY <1>2, <1>4, <1>5, <1>7, Zenon DEF Parts

\* Every step keeps the types.
LEMMA TypedStep == Typed /\ [Next]_vars => Typed'
<1> SUFFICES ASSUME Parts, [Next]_vars PROVE Parts'
  BY TypedParts, PTL
<1>1. CASE Next
  BY <1>1, TypedSending, TypedMoving, TypedServing, TypedLosing, TypedAnswer, TypedFavorite
     DEF Next, Visitor, System, Answer
<1>2. CASE UNCHANGED vars
  <2>1. UNCHANGED <<owner, live, favorites, must, cookie, loc, established, me, catalog, calls,
                    signing, leaving, left, overtaken, kept, clicks>>
    BY <1>2, Zenon DEF vars
  <2> HIDE DEF Sound, PlaceType, MeType, CatalogType, Identity
  <2> QED BY <2>1, Zenon DEF Parts
<1> QED BY <1>1, <1>2

\* Type correctness of the page session, whatever answers arrive in whatever order.
THEOREM SessionTyped == Spec => []TypeOK
<1>1. Typed => TypeOK BY DEF Typed
<1> QED BY <1>1, InitTyped, TypedStep, PTL DEF Spec

\* On the sign-in page, the place kept is the one the visitor left.
Returning == loc.page = "login" => loc.at = left

\* How a step may change the place.
Moved ==
    \/ UNCHANGED <<loc, left>>
    \/ left' = loc'.at
    \/ loc' = [loc EXCEPT !.page = "app"] /\ left' = left
    \/ loc.page # "login" /\ loc'.page # "login"

\* Every step changes the place in one of these ways.
LEMMA PlaceStep == Parts /\ [Next]_vars => Moved
<1> SUFFICES ASSUME Parts, [Next]_vars PROVE Moved OBVIOUS
<1> USE DEF serverVars, ghosts, bounds, clientVars
<1>1. loc \in PlaceType BY DEF Parts
<1>2. CASE \/ StartMe \/ RetryMe \/ SignOut \/ FetchCatalog \/ Unlock \/ SessionEnds
           \/ \E u \in User : Login(u)
           \/ \E right \in BOOLEAN : ChangePassword(right)
           \/ \E a \in Api : ToggleFavorite(a)
           \/ \E c \in calls : \/ Serve(c) \/ Lose(c) \/ MeAnswerLate(c) \/ LoginAnswer(c)
                               \/ PasswordAnswer(c)
           \/ UNCHANGED vars
  <2>1. UNCHANGED <<loc, left>>
    BY <1>2, Zenon DEF StartMe, RetryMe, SignOut, FetchCatalog, Unlock, SessionEnds, Login,
         ChangePassword, ToggleFavorite, Serve, Lose, MeAnswerLate, LoginAnswer,
         PasswordAnswer, vars
  <2> QED BY <2>1 DEF Moved
<1>3. ASSUME NEW cs, NEW m, Denied(cs, m) PROVE Moved
  <2>1. UNCHANGED <<loc, left>> \/ left' = loc'.at BY <1>3, Zenon DEF Denied
  <2> QED BY <2>1 DEF Moved
<1>4. ASSUME NEW c \in calls, MeAnswer(c) PROVE Moved
  <2>1. UNCHANGED <<loc, left>> \/ Denied(calls \ {c}, [me EXCEPT !.status = "denied"])
    BY <1>4, Zenon DEF MeAnswer
  <2> HIDE DEF Denied, Moved
  <2>2. UNCHANGED <<loc, left>> => Moved BY DEF Moved
  <2> QED BY <1>3, <2>1, <2>2
<1>5. ASSUME NEW c \in calls, CatalogAnswer(c) PROVE Moved
  <2>1. UNCHANGED <<loc, left>> \/ Denied(calls \ {c}, me)
    BY <1>5, Zenon DEF CatalogAnswer
  <2> HIDE DEF Denied, Moved
  <2>2. UNCHANGED <<loc, left>> => Moved BY DEF Moved
  <2> QED BY <1>3, <2>1, <2>2
<1>6. ASSUME NEW c \in calls, FavoriteAnswer(c) PROVE Moved
  <2>1. UNCHANGED <<loc, left>> \/ (left' = loc.at /\ loc' = [page |-> "login", at |-> loc.at])
    BY <1>6, FavoriteAnswerIs, Zenon
  <2> QED BY <2>1 DEF Moved
<1>7. ASSUME NEW c \in calls, LogoutAnswer(c) PROVE Moved
  BY <1>7 DEF LogoutAnswer, Moved
<1>8. CASE GateRedirect
  <2>1. loc.page # "login" /\ (left' = loc'.at \/ loc' = [page |-> "app", at |-> "password"]
                                 \/ loc' = [page |-> "app", at |-> "deep"])
    BY <1>8, Zenon DEF GateRedirect
  <2> QED BY <2>1 DEF Moved
<1>9. CASE LoginRedirect \/ FinishLogin
  <2>1. /\ left' = left
        /\ loc' = [loc EXCEPT !.page = "app"] \/ loc' = [page |-> "app", at |-> loc.at]
    BY <1>9, Zenon DEF LoginRedirect, FinishLogin
  <2>2. loc' = [loc EXCEPT !.page = "app"] BY <1>1, <2>1 DEF PlaceType
  <2> QED BY <2>1, <2>2 DEF Moved
<1>10. CASE LeavePassword
  BY <1>10 DEF LeavePassword, Moved
<1>11. ASSUME NEW p \in Place, Navigate(p) PROVE Moved
  <2>1. loc.page # "login" /\ loc' = [loc EXCEPT !.at = p] BY <1>11, Zenon DEF Navigate, Shell
  <2>2. loc'.page # "login" BY <1>1, <2>1 DEF PlaceType
  <2> QED BY <2>1, <2>2 DEF Moved
<1> QED BY <1>2, <1>4, <1>5, <1>6, <1>7, <1>8, <1>9, <1>10, <1>11, Zenon
        DEF Next, Visitor, System, Answer

\* Whoever is thrown out, by the handler, the gate or a sign-out, returns to the place they
\* were thrown out of (app.tsx wireSessionEnd, AuthGate, LoginPage).
THEOREM PlaceReturned == Spec => ReturnsToPlace
<1>1. Init => Returning BY DEF Init, Returning
<1>2. Typed /\ Returning /\ [Next]_vars
        => Returning' /\ (loc.page = "login" /\ loc'.page = "app" => loc'.at = left')
  <2> SUFFICES ASSUME Parts, Returning, Moved
               PROVE  Returning' /\ (loc.page = "login" /\ loc'.page = "app" => loc'.at = left')
    BY TypedParts, PlaceStep
  <2>1. loc \in PlaceType BY DEF Parts
  <2> QED BY <2>1 DEF Returning, Moved, PlaceType
<1>3. Typed /\ Returning /\ [Next]_vars => [loc.page = "login" /\ loc'.page = "app" => loc'.at = left']_vars
  BY <1>2
<1> QED BY <1>1, <1>2, <1>3, InitTyped, TypedStep, PTL DEF Spec, ReturnsToPlace

\* Only /me is ever cut off and still answered.
ReadsLive == \A c \in calls : c.kind # "me" => c.live = TRUE

\* The read of /me that counts was sent with the present cookie.
MeOwn ==
    \A c \in calls : c.kind = "me" /\ c.live = TRUE =>
        /\ c.tok = cookie
        /\ c.ans = "ok" => cookie \in Token /\ c.data.user = owner[cookie]

\* The user shown is the present session's, or /me is being read again.
MeShown ==
    me.status = "ok" =>
        \/ \E c \in calls : c.kind = "me" /\ c.live = TRUE
        \/ cookie \in Token /\ me.data.user = owner[cookie]

\* A read of the catalogue was sent with the present cookie, and brings its session's list.
ReadOwn ==
    \A c \in calls : c.kind = "catalog" =>
        /\ kept \/ c.tok = cookie
        /\ c.ans = "ok" => c.tok \in Token /\ c.data.owner = owner[c.tok]

\* On the sign-in page no catalogue is kept or on its way, but for one known to be stale (a
\* refused click puts the old list back).
Cleared ==
    ~kept /\ loc.page = "login" =>
        /\ \A c \in calls : c.kind # "catalog"
        /\ catalog.data = None \/ catalog.invalid

\* A click on a star is under way.
Clicking == \E c \in calls : c.kind = "favorite"

\* The cached catalogue is the present session's, or known to be stale.
CacheOwn ==
    \/ kept \/ catalog.data = None \/ catalog.invalid \/ Clicking
    \/ cookie \in Token /\ catalog.data.owner = owner[cookie]

\* The cached stars are the server's, or known to be stale.
StarsRead ==
    \/ catalog.data = None \/ catalog.invalid \/ Clicking \/ overtaken
    \/ catalog.data.favs = favorites[catalog.data.owner]

\* So are the stars a read brings, once it is answered.
ReadFresh ==
    \A c \in calls : c.kind = "catalog" /\ c.ans = "ok" =>
        \/ c.data.favs = favorites[c.data.owner] \/ Clicking
        \/ overtaken /\ catalog.invalid

\* There is one read of the catalogue at a time.
OneRead == \A c, d \in calls : c.kind = "catalog" /\ d.kind = "catalog" => c = d

\* ForeignIsStale and StarsSettle speak of the caches; both are kept only with what the
\* requests in flight will put there.
Consistent ==
    /\ ReadsLive /\ MeOwn /\ MeShown /\ ReadOwn /\ Cleared /\ CacheOwn
    /\ StarsRead /\ ReadFresh /\ OneRead

\* The page starts in the invariant.
LEMMA InitConsistent == Init => Consistent
<1> SUFFICES ASSUME Init PROVE Consistent OBVIOUS
<1>1. calls = {} /\ me.status = "none" /\ catalog.data = None BY DEF Init, NoMe, NoCatalog
<1> QED BY <1>1 DEF Consistent, ReadsLive, MeOwn, MeShown, ReadOwn, Cleared, CacheOwn,
                    StarsRead,
                    ReadFresh, OneRead

\* A step that leaves the caches and the requests alone.
LEMMA KeptStill ==
    ASSUME Consistent,
           UNCHANGED <<owner, favorites, cookie, me, catalog, calls, overtaken, kept>>,
           loc'.page = "login" => loc.page = "login"
    PROVE  Consistent'
<1>1. (ReadsLive /\ MeOwn /\ MeShown /\ ReadOwn)'
  BY Zenon DEF Consistent, ReadsLive, MeOwn, MeShown, ReadOwn
<1>2. (CacheOwn /\ StarsRead /\ ReadFresh /\ OneRead)'
  BY Zenon DEF Consistent, CacheOwn, StarsRead, ReadFresh, OneRead, Clicking
<1>3. Cleared' BY Zenon DEF Consistent, Cleared
<1> QED BY <1>1, <1>2, <1>3 DEF Consistent

\* A request is sent.
LEMMA SentConsistent ==
    ASSUME Consistent, NEW s,
           UNCHANGED <<owner, favorites, cookie, loc, catalog, overtaken, kept>>,
           calls' = calls \cup {s},
           s.tok = cookie, s.live = TRUE, s.ans = "none",
           s.kind = "catalog" => loc.page # "login" /\ \A c \in calls : c.kind # "catalog",
           me' = me \/ s.kind = "me"
    PROVE  Consistent'
<1> USE DEF Consistent
<1>1. ReadsLive' BY DEF ReadsLive
<1>2. MeOwn' BY DEF MeOwn
<1>3. MeShown' BY DEF MeShown
<1>4. ReadOwn' BY DEF ReadOwn
<1>5. Cleared' BY DEF Cleared
<1>6. (CacheOwn /\ StarsRead)' BY DEF CacheOwn, StarsRead, Clicking
<1>7. ReadFresh' BY DEF ReadFresh, Clicking
<1>8. OneRead' BY DEF OneRead
<1> QED BY <1>1, <1>2, <1>3, <1>4, <1>5, <1>6, <1>7, <1>8

\* A star is clicked: the reads of the list are cancelled.
LEMMA ToggledConsistent ==
    ASSUME Consistent, NEW s,
           UNCHANGED <<owner, favorites, cookie, loc, me, overtaken, kept>>,
           calls' = {d \in calls : d.kind # "catalog"} \cup {s},
           loc.page # "login",
           s.kind = "favorite", s.live = TRUE
    PROVE  Consistent'
<1> USE DEF Consistent
<1>1. ReadsLive' BY DEF ReadsLive
<1>2. MeOwn' BY DEF MeOwn
<1>3. MeShown' BY DEF MeShown
<1>4. ReadOwn' BY DEF ReadOwn
<1>5. Cleared' BY DEF Cleared
<1>6. (CacheOwn /\ StarsRead)' BY DEF CacheOwn, StarsRead, Clicking
<1>7. ReadFresh' BY DEF ReadFresh, Clicking
<1>8. OneRead' BY DEF OneRead
<1> QED BY <1>1, <1>2, <1>3, <1>4, <1>5, <1>6, <1>7, <1>8

\* A request is served or lost.
LEMMA ReplacedConsistent ==
    ASSUME Consistent, NEW c \in calls, NEW e,
           UNCHANGED <<cookie, loc, me, catalog, overtaken, kept>>,
           calls' = (calls \ {c}) \cup {e},
           cookie \in Token => owner[cookie] # None,
           \A t \in Token : owner[t] # None => owner'[t] = owner[t],
           \A d \in calls : d.kind = "catalog" /\ d.ans = "ok" => owner[d.tok] # None,
           favorites' = favorites \/ c.kind = "favorite",
           e.kind = c.kind, e.live = c.live,
           c.kind \in {"me", "catalog"} => e.tok = c.tok,
           c.kind = "me" /\ e.ans = "ok" =>
               e.tok \in Token /\ owner[e.tok] # None /\ e.data.user = owner[e.tok],
           c.kind = "catalog" /\ e.ans = "ok" =>
               /\ e.tok \in Token /\ owner[e.tok] # None /\ e.data.owner = owner[e.tok]
               /\ e.data.favs = favorites[e.data.owner]
    PROVE  Consistent'
<1> USE DEF Consistent
<1>1. ReadsLive' BY DEF ReadsLive
<1>2. MeOwn' BY DEF MeOwn
<1>3. MeShown'
  <2>1. (\E d \in calls : d.kind = "me" /\ d.live = TRUE)
          => \E d \in calls' : d.kind = "me" /\ d.live = TRUE
    OBVIOUS
  <2> QED BY <2>1 DEF MeShown
<1>4. ReadOwn' BY DEF ReadOwn
<1>5. Cleared' BY DEF Cleared
<1>6. Clicking => Clicking' BY DEF Clicking
<1>7. favorites' = favorites \/ Clicking' BY DEF Clicking
<1>8. CacheOwn' BY <1>6 DEF CacheOwn
<1>9. StarsRead' BY <1>6, <1>7 DEF StarsRead
<1>10. ReadFresh' BY <1>6, <1>7 DEF ReadFresh
<1>11. OneRead' BY DEF OneRead
<1> QED BY <1>1, <1>2, <1>3, <1>4, <1>5, <1>8, <1>9, <1>10, <1>11

\* An answer that leaves the catalogue alone.
LEMMA RemovedConsistent ==
    ASSUME Consistent, NEW c \in calls,
           UNCHANGED <<owner, favorites, cookie, loc, catalog, overtaken, kept>>,
           calls' = calls \ {c}, c.kind # "favorite",
           \/ c.kind # "me" /\ me' = me
           \/ c.live = FALSE /\ me' = me
           \/ me'.status # "ok"
           \/ cookie \in Token /\ me'.data.user = owner[cookie]
    PROVE  Consistent'
<1> USE DEF Consistent
<1>1. ReadsLive' BY DEF ReadsLive
<1>2. MeOwn' BY DEF MeOwn
<1>3. MeShown' BY DEF MeShown
<1>4. ReadOwn' BY DEF ReadOwn
<1>5. Cleared' BY DEF Cleared
<1>6. (CacheOwn /\ StarsRead)' BY DEF CacheOwn, StarsRead, Clicking
<1>7. ReadFresh' BY DEF ReadFresh, Clicking
<1>8. OneRead' BY DEF OneRead
<1> QED BY <1>1, <1>2, <1>3, <1>4, <1>5, <1>6, <1>7, <1>8

\* The catalogue is answered.
LEMMA ReadConsistent ==
    ASSUME Consistent, NEW c \in calls,
           UNCHANGED <<owner, favorites, cookie, loc, me, kept>>,
           c.kind = "catalog", c.ans = "ok", calls' = calls \ {c},
           catalog'.data = c.data,
           overtaken' = (overtaken /\ catalog.invalid)
    PROVE  Consistent'
<1> USE DEF Consistent
<1>1. ReadsLive' BY DEF ReadsLive
<1>2. MeOwn' BY DEF MeOwn
<1>3. MeShown' BY DEF MeShown
<1>4. ReadOwn' BY DEF ReadOwn
<1>5. Cleared' BY DEF Cleared
<1>6. Clicking' <=> Clicking BY DEF Clicking
<1>7. CacheOwn' BY DEF CacheOwn, ReadOwn
<1>8. StarsRead' BY <1>6, Zenon DEF StarsRead, ReadFresh
<1>9. ReadFresh' BY DEF ReadFresh, OneRead
<1>10. OneRead' BY DEF OneRead
<1> QED BY <1>1, <1>2, <1>3, <1>4, <1>5, <1>7, <1>8, <1>9, <1>10

\* The caches are removed: sign-out, or the session-ended handler.
LEMMA ClearedConsistent ==
    ASSUME Parts, Consistent, NEW c \in calls,
           UNCHANGED <<owner, favorites>>,
           calls' = Orphan(calls \ {c}), me' = NoMe, catalog' = NoCatalog
    PROVE  Consistent'
<1> USE DEF Consistent
<1>1. \A e \in calls' : /\ e.kind # "catalog"
                        /\ e.kind = "me" => e.live = FALSE
                        /\ e.kind # "me" => e \in calls
  <2> DEFINE rest == calls \ {c}
  <2>1. rest \subseteq calls /\ \A d \in rest : d \in Call BY DEF Parts, Sound, CallTyped
  <2> HIDE DEF rest, Orphan, Call
  <2>2. \A e \in Orphan(rest) : /\ e.kind # "catalog"
                                /\ e.kind = "me" => e.live = FALSE
                                /\ e.kind # "me" => e \in rest
    BY <2>1, OrphanKinds
  <2> QED BY <2>1, <2>2 DEF rest
<1>2. me'.status = "none" /\ catalog'.data = None BY DEF NoMe, NoCatalog
<1>3. (ReadsLive /\ ReadOwn /\ Cleared /\ ReadFresh /\ OneRead)'
  BY <1>1, <1>2 DEF ReadsLive, ReadOwn, Cleared, ReadFresh, OneRead
<1>4. MeOwn' BY <1>1, Zenon DEF MeOwn
<1>5. (MeShown /\ CacheOwn /\ StarsRead)' BY <1>2 DEF MeShown, CacheOwn, StarsRead
<1> QED BY <1>3, <1>4, <1>5

\* The gate sends the visitor to the sign-in page and removes nothing.
LEMMA GateConsistent ==
    ASSUME Consistent,
           UNCHANGED <<owner, favorites, cookie, catalog, calls, overtaken>>,
           me' = NoMe, kept' = (kept \/ Carried)
    PROVE  Consistent'
<1> USE DEF Consistent
<1>1. me'.status # "ok" BY DEF NoMe
<1>2. (ReadsLive /\ MeOwn /\ StarsRead /\ ReadFresh /\ OneRead)'
  BY Zenon DEF ReadsLive, MeOwn, StarsRead, ReadFresh, OneRead, Clicking
<1>3. MeShown' BY <1>1 DEF MeShown
<1>4. (ReadOwn /\ CacheOwn)' BY Zenon DEF ReadOwn, CacheOwn, Clicking
<1>5. Cleared'
  <2>1. ~kept' => catalog.data = None /\ ~Fetching("catalog") BY Zenon DEF Carried
  <2>2. ~Fetching("catalog") => \A c \in calls : c.kind # "catalog"
    BY Zenon DEF Fetching, ReadsLive
  <2> QED BY <2>1, <2>2, Zenon DEF Cleared
<1> QED BY <1>2, <1>3, <1>4, <1>5

\* /me is read again: after a sign-in, or a password change.
LEMMA RefetchConsistent ==
    ASSUME Parts, Consistent, NEW c \in calls, NEW s,
           UNCHANGED <<owner, favorites, loc, catalog, overtaken>>,
           c.kind \in {"login", "password"},
           calls' = Orphan(calls \ {c}) \cup {d \in calls : d.kind = "catalog"} \cup {s},
           s.kind = "me", s.tok = cookie', s.live = TRUE, s.ans = "none",
           \/ cookie' = cookie /\ kept' = kept
           \/ kept' = (kept \/ (loc.page # "login" /\ Carried))
    PROVE  Consistent'
<1> USE DEF Consistent
<1>1. \A e \in Orphan(calls \ {c}) : /\ e.kind # "catalog"
                                     /\ e.kind = "me" => e.live = FALSE
                                     /\ e.kind # "me" => e \in calls
  <2> DEFINE rest == calls \ {c}
  <2>1. rest \subseteq calls /\ \A d \in rest : d \in Call BY DEF Parts, Sound, CallTyped
  <2> HIDE DEF rest, Orphan, Call
  <2>2. \A e \in Orphan(rest) : /\ e.kind # "catalog"
                                /\ e.kind = "me" => e.live = FALSE
                                /\ e.kind # "me" => e \in rest
    BY <2>1, OrphanKinds
  <2> QED BY <2>1, <2>2 DEF rest
<1>2. \A e \in calls' : e \in calls \/ e = s \/ (e.kind = "me" /\ e.live = FALSE) BY <1>1
<1>3. \A e \in calls' : e.kind # "me" => e \in calls BY <1>2
<1>4. \A e \in calls' : e.kind = "me" => e = s \/ e.live = FALSE BY <1>1
<1>5. s \in calls' OBVIOUS
<1>6. \A d \in calls : d.kind = "favorite" => d \in calls'
  BY DEF Orphan
<1>7. Clicking' <=> Clicking BY <1>3, <1>6 DEF Clicking
<1>8. ReadsLive' BY <1>3 DEF ReadsLive
<1>9. MeOwn' BY <1>4, Zenon DEF MeOwn
<1>10. MeShown' BY <1>5 DEF MeShown
<1>11. OneRead' BY <1>3 DEF OneRead
<1>12. (StarsRead /\ ReadFresh)' BY <1>3, <1>7 DEF StarsRead, ReadFresh
<1>13. kept => kept' BY Zenon
<1>14. Cleared' BY <1>3, <1>13 DEF Cleared
<1>15. kept' \/ cookie' = cookie \/ (/\ \A d \in calls : d.kind # "catalog"
                                     /\ catalog.data = None \/ catalog.invalid)
  <2>1. Carried \/ (catalog.data = None /\ \A d \in calls : d.kind # "catalog")
    BY Zenon DEF Carried, Fetching, ReadsLive
  <2> QED BY <2>1, Zenon DEF Cleared
<1>16. ReadOwn' BY <1>3, <1>13, <1>15 DEF ReadOwn
<1>17. CacheOwn' BY <1>7, <1>13, <1>15 DEF CacheOwn
<1> QED BY <1>8, <1>9, <1>10, <1>11, <1>12, <1>14, <1>16, <1>17

\* A click on a star is answered.
LEMMA FavoriteConsistent ==
    ASSUME Parts, Consistent, NEW c \in calls, FavoriteAnswer(c)
    PROVE  Consistent'
<1> USE DEF Consistent
<1> DEFINE rest == calls \ {c}
<1>1. Sound(rest, owner) /\ \A d \in rest : d \in Call BY DEF Parts, Sound, CallTyped
<1>2. c.kind = "favorite" /\ UNCHANGED <<owner, favorites, cookie>> BY FavoriteAnswerIs, Zenon
<1>3. PICK data \in Listing \cup {None} :
        \/ /\ Invalidate(rest, data) /\ UNCHANGED <<me, loc>> /\ kept' = kept
        \/ /\ Invalidate(Orphan(rest), data)
           /\ me' = NoMe /\ loc' = [page |-> "login", at |-> loc.at] /\ kept' = FALSE
  BY FavoriteAnswerIs, Zenon
<1>4. Sound(Orphan(rest), owner)
  <2> HIDE DEF rest, Sound
  <2> QED BY <1>1, SoundOrphan
<1>5. catalog'.data = None \/ (catalog'.invalid /\ catalog'.data = data)
  <2> HIDE DEF rest, Sound, Invalidate, Listing
  <2>1. catalog'.data = data /\ (data # None => catalog'.invalid)
    BY <1>1, <1>3, <1>4, InvalidateIs
  <2> QED BY <2>1
<1>6. (CacheOwn /\ StarsRead)' BY <1>5 DEF CacheOwn, StarsRead
<1>7. CASE Invalidate(rest, data) /\ UNCHANGED <<me, loc>> /\ kept' = kept
  <2> DEFINE s == Send("catalog", None)
  <2>1. s.kind = "catalog" /\ s.tok = cookie /\ s.live = TRUE /\ s.ans = "none"
    <3>1. None \in Payload /\ cookie \in 0..MaxLogins BY DEF Payload, Parts
    <3> QED BY <3>1, SendIs DEF Kinds
  <2>2. /\ (\E d \in rest : d.kind = "catalog") => catalog'.invalid
        /\ \/ /\ calls' = {d \in rest : d.kind # "catalog"} \cup {s}
              /\ loc.page # "login"
           \/ /\ calls' = rest
              /\ overtaken' = (overtaken \/ \E d \in rest : d.kind = "catalog")
    <3> HIDE DEF rest, Sound, Invalidate, Listing
    <3> QED BY <1>1, <1>7, InvalidateIs
  <2> HIDE DEF s
  <2>3. ReadsLive' BY <2>1, <2>2 DEF ReadsLive
  <2>4. MeOwn' BY <1>2, <2>1, <2>2 DEF MeOwn
  <2>5. MeShown' BY <1>2, <1>7, <2>1, <2>2 DEF MeShown
  <2>6. ReadOwn' BY <1>2, <1>7, <2>1, <2>2 DEF ReadOwn
  <2>7. Cleared' BY <1>5, <1>7, <2>2 DEF Cleared
  <2>8. ReadFresh'
    <3>1. CASE calls' = {d \in rest : d.kind # "catalog"} \cup {s} BY <2>1, <3>1 DEF ReadFresh
    <3>2. CASE /\ calls' = rest
               /\ overtaken' = (overtaken \/ \E d \in rest : d.kind = "catalog")
      <4> HIDE DEF rest
      <4> QED BY <2>2, <3>2, Zenon DEF ReadFresh
    <3> QED BY <2>2, <3>1, <3>2
  <2>9. OneRead' BY <2>1, <2>2 DEF OneRead
  <2> QED BY <1>6, <2>3, <2>4, <2>5, <2>6, <2>7, <2>8, <2>9
<1>8. CASE /\ Invalidate(Orphan(rest), data)
           /\ me' = NoMe /\ loc' = [page |-> "login", at |-> loc.at] /\ kept' = FALSE
  <2>1. \A e \in Orphan(rest) : /\ e.kind # "catalog"
                                /\ e.kind = "me" => e.live = FALSE
                                /\ e.kind # "me" => e \in calls
    <3>1. rest \subseteq calls OBVIOUS
    <3> HIDE DEF Orphan, rest, Call
    <3>2. \A e \in Orphan(rest) : /\ e.kind # "catalog"
                                  /\ e.kind = "me" => e.live = FALSE
                                  /\ e.kind # "me" => e \in rest
      BY <1>1, OrphanKinds
    <3> QED BY <3>1, <3>2
  <2>2. calls' = Orphan(rest)
    <3> HIDE DEF rest, Sound, Invalidate, Listing
    <3>1. calls' = Orphan(rest) \/ (loc.page # "login" /\ loc' = loc)
      BY <1>4, <1>8, InvalidateIs
    <3> QED BY <1>8, <3>1
  <2>3. me'.status # "ok" BY <1>8 DEF NoMe
  <2>4. (ReadsLive /\ ReadOwn /\ ReadFresh /\ OneRead)'
    BY <2>1, <2>2 DEF ReadsLive, ReadOwn, ReadFresh, OneRead
  <2>5. MeOwn' BY <2>1, <2>2, Zenon DEF MeOwn
  <2>6. MeShown' BY <2>3 DEF MeShown
  <2>7. Cleared' BY <1>5, <2>1, <2>2 DEF Cleared
  <2> QED BY <1>6, <2>4, <2>5, <2>6, <2>7
<1> QED BY <1>3, <1>7, <1>8

\* The sessions a cookie or an answer names are somebody's.
LEMMA KnownOwners ==
    ASSUME Parts, Consistent
    PROVE  /\ cookie \in Token => owner[cookie] # None
           /\ \A d \in calls : d.kind = "catalog" /\ d.ans = "ok" => owner[d.tok] # None
<1>1. cookie \in Token => cookie # 0 BY ConstantsAssumption DEF Token
<1>2. ASSUME NEW d \in calls, d.kind = "catalog", d.ans = "ok" PROVE owner[d.tok] # None
  <2>1. d.data.owner = owner[d.tok] BY <1>2 DEF Consistent, ReadOwn
  <2>2. d.data.owner \in User BY <1>2 DEF Parts, Sound, CallTyped, Listing
  <2> QED BY <2>1, <2>2, ConstantsAssumption
<1> QED BY <1>1, <1>2 DEF Parts

\* The server's steps keep the invariant.
LEMMA ServeConsistent ==
    ASSUME Parts, Consistent, NEW c \in calls, Serve(c)
    PROVE  Consistent'
<1> USE DEF serverVars, ghosts, bounds, clientVars
<1> DEFINE rest == calls \ {c}
<1>1. Handle(c) /\ UNCHANGED <<cookie, loc, me, catalog, overtaken, kept>> BY Zenon DEF Serve
<1>2. c \in Call /\ c.data \in Payload /\ c.kind \in Kinds BY DEF Parts, Sound, CallTyped, Call
<1>3. None \in Payload /\ {"ok", "denied", "locked"} \subseteq Answers BY DEF Payload, Answers
<1>4. c.tok \in live => /\ c.tok \in Token /\ owner[c.tok] # None /\ owner[c.tok] \in User
  BY DEF Parts
<1>5. ASSUME NEW e, calls' = rest \cup {e},
             \A t \in Token : owner[t] # None => owner'[t] = owner[t],
             favorites' = favorites \/ c.kind = "favorite",
             e.kind = c.kind, e.live = c.live,
             c.kind \in {"me", "catalog"} => e.tok = c.tok,
             c.kind = "me" /\ e.ans = "ok" => c.tok \in live /\ e.data.user = owner[c.tok],
             c.kind = "catalog" /\ e.ans = "ok" =>
                 /\ c.tok \in live /\ e.data.owner = owner[c.tok]
                 /\ e.data.favs = favorites[owner[c.tok]]
      PROVE  Consistent'
  <2>1. calls' = (calls \ {c}) \cup {e} BY <1>5
  <2>2. c.kind = "me" /\ e.ans = "ok" =>
               e.tok \in Token /\ owner[e.tok] # None /\ e.data.user = owner[e.tok]
    BY <1>4, <1>5
  <2>3. c.kind = "catalog" /\ e.ans = "ok" =>
               /\ e.tok \in Token /\ owner[e.tok] # None /\ e.data.owner = owner[e.tok]
               /\ e.data.favs = favorites[e.data.owner]
    BY <1>4, <1>5
  <2> HIDE DEF Consistent
  <2> QED BY <1>1, <1>5, <2>1, <2>2, <2>3, KnownOwners, ReplacedConsistent
<1> HIDE DEF Consistent, Call, Payload, Answers
<1>6. CASE c.kind = "me"
  <2> DEFINE d == [user |-> owner[c.tok], must |-> owner[c.tok] \in must]
  <2>1. UNCHANGED <<owner, live, favorites, must>> BY <1>1, <1>6 DEF Handle
  <2>2. \/ c.tok \in live /\ calls' = rest \cup {Reply(c, "ok", d)}
        \/ calls' = rest \cup {Reply(c, "denied", None)}
    BY <1>1, <1>6 DEF Handle, Reply
  <2>3. d.user = owner[c.tok] OBVIOUS
  <2>4. c.tok \in live => d \in Payload
    <3>1. (owner[c.tok] \in must) \in BOOLEAN OBVIOUS
    <3>2. c.tok \in live => d \in Identity BY <1>4, <3>1, Zenon DEF Identity
    <3> QED BY <3>2 DEF Payload
  <2> HIDE DEF d, rest
  <2>5. CASE c.tok \in live /\ calls' = rest \cup {Reply(c, "ok", d)}
    <3> DEFINE e == Reply(c, "ok", d)
    <3>1. e.kind = c.kind /\ e.tok = c.tok /\ e.live = c.live /\ e.ans = "ok" /\ e.data = d
      BY <1>2, <1>3, <2>4, <2>5, Answered
    <3>2. calls' = rest \cup {e} BY <2>5
    <3> HIDE DEF e
    <3> QED BY <1>5, <1>6, <2>1, <2>3, <2>5, <3>1, <3>2
  <2>6. CASE calls' = rest \cup {Reply(c, "denied", None)}
    <3> DEFINE e == Reply(c, "denied", None)
    <3>1. e.kind = c.kind /\ e.tok = c.tok /\ e.live = c.live /\ e.ans = "denied"
      BY <1>2, <1>3, Answered
    <3>2. calls' = rest \cup {e} BY <2>6
    <3> HIDE DEF e
    <3> QED BY <1>5, <1>6, <2>1, <3>1, <3>2
  <2> QED BY <2>2, <2>5, <2>6
<1>7. CASE c.kind = "catalog"
  <2> DEFINE d == [owner |-> owner[c.tok], favs |-> favorites[owner[c.tok]]]
  <2>1. UNCHANGED <<owner, live, favorites, must>> BY <1>1, <1>7 DEF Handle
  <2>2. \/ c.tok \in live /\ calls' = rest \cup {Reply(c, "ok", d)}
        \/ calls' = rest \cup {Reply(c, "denied", None)}
    BY <1>1, <1>7 DEF Handle, Reply
  <2>3. d.owner = owner[c.tok] /\ d.favs = favorites[owner[c.tok]] OBVIOUS
  <2>4. c.tok \in live => d \in Payload
    <3>1. c.tok \in live => d \in Listing BY <1>4 DEF Parts, Listing
    <3> QED BY <3>1 DEF Payload
  <2> HIDE DEF d, rest
  <2>5. CASE c.tok \in live /\ calls' = rest \cup {Reply(c, "ok", d)}
    <3> DEFINE e == Reply(c, "ok", d)
    <3>1. e.kind = c.kind /\ e.tok = c.tok /\ e.live = c.live /\ e.ans = "ok" /\ e.data = d
      BY <1>2, <1>3, <2>4, <2>5, Answered
    <3>2. calls' = rest \cup {e} BY <2>5
    <3> HIDE DEF e
    <3> QED BY <1>5, <1>7, <2>1, <2>3, <2>5, <3>1, <3>2
  <2>6. CASE calls' = rest \cup {Reply(c, "denied", None)}
    <3> DEFINE e == Reply(c, "denied", None)
    <3>1. e.kind = c.kind /\ e.tok = c.tok /\ e.live = c.live /\ e.ans = "denied"
      BY <1>2, <1>3, Answered
    <3>2. calls' = rest \cup {e} BY <2>6
    <3> HIDE DEF e
    <3> QED BY <1>5, <1>7, <2>1, <3>1, <3>2
  <2> QED BY <2>2, <2>5, <2>6
<1>8. CASE c.kind \in {"favorite", "logout", "password"}
  <2>1. owner' = owner /\ (favorites' = favorites \/ c.kind = "favorite")
    BY <1>1, <1>8 DEF Handle
  <2>2. \E a \in {"ok", "denied"}, d \in {c.data, None} : calls' = rest \cup {Reply(c, a, d)}
    BY <1>1, <1>8 DEF Handle, Reply
  <2>3. PICK a \in {"ok", "denied"}, d \in {c.data, None} : calls' = rest \cup {Reply(c, a, d)}
    BY <2>2
  <2> HIDE DEF rest
  <2> DEFINE e == Reply(c, a, d)
  <2>4. a \in Answers /\ d \in Payload BY <1>2, <1>3
  <2>5. e.kind = c.kind /\ e.tok = c.tok /\ e.live = c.live BY <1>2, <2>4, Answered
  <2>6. calls' = rest \cup {e} BY <2>3
  <2> HIDE DEF e
  <2> QED BY <1>5, <1>8, <2>1, <2>5, <2>6
<1>9. CASE c.kind = "login"
  <2>1. favorites' = favorites BY <1>1, <1>9 DEF Handle
  <2>2. CASE \E t \in Token : /\ owner[t] = None
                              /\ owner' = [owner EXCEPT ![t] = c.data]
                              /\ calls' = rest \cup {Opened(c, t)}
    <3>1. PICK t \in Token : /\ owner[t] = None
                             /\ owner' = [owner EXCEPT ![t] = c.data]
                             /\ calls' = rest \cup {Opened(c, t)}
      BY <2>2
    <3>2. \A s \in Token : owner[s] # None => owner'[s] = owner[s]
      BY <3>1 DEF Parts
    <3> HIDE DEF rest
    <3> QED BY <1>2, <1>5, <1>9, <2>1, <3>1, <3>2, GrantedLogin
  <2>3. CASE owner' = owner /\ \E a \in {"denied", "locked"} : calls' = rest \cup {Reply(c, a,
  c.data)}
    <3>1. PICK a \in {"denied", "locked"} : calls' = rest \cup {Reply(c, a, c.data)} BY <2>3
    <3> HIDE DEF rest
    <3> DEFINE e == Reply(c, a, c.data)
    <3>2. a \in Answers BY <1>3
    <3>3. e.kind = c.kind /\ e.tok = c.tok /\ e.live = c.live BY <1>2, <3>2, Answered
    <3>4. calls' = rest \cup {e} BY <3>1
    <3> HIDE DEF e
    <3> QED BY <1>5, <1>9, <2>1, <2>3, <3>3, <3>4
  <2> QED BY <1>1, <1>9, <2>2, <2>3 DEF Handle, Reply, Opened
<1> QED BY <1>2, <1>6, <1>7, <1>8, <1>9 DEF Kinds

\* A loss keeps the invariant.
LEMMA LoseConsistent ==
    ASSUME Parts, Consistent, NEW c \in calls, Lose(c)
    PROVE  Consistent'
<1> USE DEF serverVars, ghosts, bounds, clientVars
<1> DEFINE e == [c EXCEPT !.ans = "lost"]
<1>1. /\ UNCHANGED <<owner, favorites, cookie, loc, me, catalog, overtaken, kept>>
      /\ calls' = (calls \ {c}) \cup {e}
  BY Zenon DEF Lose
<1>2. c \in Call BY DEF Parts, Sound, CallTyped
<1>3. e \in Call /\ e.kind = c.kind /\ e.tok = c.tok /\ e.live = c.live /\ e.ans = "lost"
  <2> HIDE DEF Call
  <2> QED BY <1>2, Lost
<1> HIDE DEF e, Consistent
<1>4. \A t \in Token : owner[t] # None => owner'[t] = owner[t] BY <1>1
<1> QED BY <1>1, <1>3, <1>4, KnownOwners, ReplacedConsistent

\* The steps that send a request keep the invariant.
LEMMA SendingConsistent ==
    ASSUME Parts, Consistent,
           StartMe \/ RetryMe \/ SignOut \/ FetchCatalog \/ (\E u \in User : Login(u))
             \/ (\E right \in BOOLEAN : ChangePassword(right))
             \/ (\E a \in Api : ToggleFavorite(a))
    PROVE  Consistent'
<1> USE DEF serverVars, ghosts, bounds
<1> HIDE DEF Consistent
<1>1. cookie \in 0..MaxLogins /\ None \in Payload BY DEF Parts, Payload
<1>2. CASE StartMe \/ RetryMe
  <2>1. /\ calls' = calls \cup {Send("me", None)}
        /\ UNCHANGED <<owner, favorites, cookie, loc, catalog, overtaken, kept>>
    BY <1>2, Zenon DEF StartMe, RetryMe
  <2> DEFINE s == Send("me", None)
  <2>2. s.kind = "me" /\ s.tok = cookie /\ s.live = TRUE /\ s.ans = "none"
    <3>1. s.kind = "me" /\ s.tok = cookie /\ s.ans = "none" BY DEF Send
    <3>2. s.live = TRUE BY DEF Send
    <3> QED BY <3>1, <3>2
  <2>3. calls' = calls \cup {s} BY <2>1
  <2> HIDE DEF s
  <2> QED BY <2>1, <2>2, <2>3, SentConsistent
<1>3. CASE SignOut
  <2>1. /\ calls' = calls \cup {Send("logout", None)}
        /\ UNCHANGED <<owner, favorites, cookie, loc, me, catalog, overtaken, kept>>
    BY <1>3, Zenon DEF SignOut
  <2> DEFINE s == Send("logout", None)
  <2>2. s.kind = "logout" /\ s.tok = cookie /\ s.live = TRUE /\ s.ans = "none"
    BY <1>1, SendIs DEF Kinds
  <2>3. calls' = calls \cup {s} BY <2>1
  <2> HIDE DEF s
  <2> QED BY <2>1, <2>2, <2>3, SentConsistent
<1>4. CASE FetchCatalog
  <2>1. /\ calls' = calls \cup {Send("catalog", None)}
        /\ UNCHANGED <<owner, favorites, cookie, loc, me, catalog, overtaken, kept>>
    BY <1>4, Zenon DEF FetchCatalog
  <2>2. loc.page # "login" /\ \A c \in calls : c.kind # "catalog"
    BY <1>4, Zenon DEF FetchCatalog, CatalogShown, Shell, Fetching, Consistent, ReadsLive
  <2> DEFINE s == Send("catalog", None)
  <2>3. s.kind = "catalog" /\ s.tok = cookie /\ s.live = TRUE /\ s.ans = "none"
    BY <1>1, SendIs, ZenonT(30) DEF Kinds
  <2>4. calls' = calls \cup {s} BY <2>1
  <2> HIDE DEF s
  <2> QED BY <2>1, <2>3, <2>4, <2>2, SentConsistent
<1>5. ASSUME NEW u \in User, Login(u) PROVE Consistent'
  <2>1. /\ calls' = calls \cup {Send("login", u)}
        /\ UNCHANGED <<owner, favorites, cookie, loc, me, catalog, overtaken, kept>>
    BY <1>5, Zenon DEF Login
  <2> DEFINE s == Send("login", u)
  <2>2. u \in Payload BY DEF Payload
  <2>3. s.kind = "login" /\ s.tok = cookie /\ s.live = TRUE /\ s.ans = "none"
    BY <1>1, <2>2, SendIs, ZenonT(30) DEF Kinds
  <2>4. calls' = calls \cup {s} BY <2>1
  <2> HIDE DEF s
  <2> QED BY <2>1, <2>3, <2>4, SentConsistent
<1>6. ASSUME NEW right \in BOOLEAN, ChangePassword(right) PROVE Consistent'
  <2> DEFINE s == Send("password", [right |-> right, forced |-> Restricted])
  <2>1. /\ calls' = calls \cup {s}
        /\ UNCHANGED <<owner, favorites, cookie, loc, me, catalog, overtaken, kept>>
    BY <1>6, Zenon DEF ChangePassword
  <2>2. s.kind = "password" /\ s.tok = cookie /\ s.live = TRUE /\ s.ans = "none"
    <3>1. s.kind = "password" /\ s.tok = cookie /\ s.ans = "none" BY DEF Send
    <3>2. s.live = TRUE BY DEF Send
    <3> QED BY <3>1, <3>2
  <2> HIDE DEF s
  <2> QED BY <2>1, <2>2, SentConsistent
<1>7. ASSUME NEW a \in Api, ToggleFavorite(a) PROVE Consistent'
  <2> DEFINE d == [api |-> a, on |-> a \notin catalog.data.favs, n |-> clicks,
  previous |-> catalog.data]
  <2> DEFINE s == Send("favorite", d)
  <2>1. /\ calls' = {x \in calls : x.kind # "catalog"} \cup {s}
        /\ UNCHANGED <<owner, favorites, cookie, loc, me, overtaken, kept>>
    BY <1>7, Zenon DEF ToggleFavorite
  <2>2. loc.page # "login" BY <1>7, Zenon DEF ToggleFavorite, CatalogShown, Shell
  <2> HIDE DEF d
  <2>3. s.kind = "favorite" BY DEF Send
  <2>4. s.live = TRUE BY DEF Send
  <2> HIDE DEF s
  <2> QED BY <2>1, <2>2, <2>3, <2>4, ToggledConsistent
<1> QED BY <1>2, <1>3, <1>4, <1>5, <1>6, <1>7

\* The steps that only move the page keep the invariant.
LEMMA MovingConsistent ==
    ASSUME Parts, Consistent,
           GateRedirect \/ LoginRedirect \/ FinishLogin \/ LeavePassword \/ Unlock \/ SessionEnds
             \/ (\E p \in Place : Navigate(p))
    PROVE  Consistent'
<1> USE DEF serverVars, ghosts, bounds, clientVars
<1> HIDE DEF Consistent
<1>1. loc \in PlaceType BY DEF Parts
<1>2. CASE GateRedirect
  <2>1. UNCHANGED <<owner, favorites, cookie, catalog, calls, overtaken>>
    BY <1>2, Zenon DEF GateRedirect
  <2>2. \/ me' = NoMe /\ kept' = (kept \/ Carried)
        \/ UNCHANGED <<me, kept>> /\ loc' = [page |-> "app", at |-> "password"]
        \/ UNCHANGED <<me, kept>> /\ loc' = [page |-> "app", at |-> "deep"]
    BY <1>2, Zenon DEF GateRedirect
  <2>3. CASE me' = NoMe /\ kept' = (kept \/ Carried) BY <2>1, <2>3, GateConsistent
  <2>4. CASE ~(me' = NoMe /\ kept' = (kept \/ Carried))
    <3>1. UNCHANGED <<me, kept>> /\ loc'.page # "login" BY <2>2, <2>4
    <3> QED BY <2>1, <3>1, KeptStill
  <2> QED BY <2>3, <2>4
<1>3. CASE LoginRedirect \/ FinishLogin \/ LeavePassword
  <2>1. UNCHANGED <<owner, favorites, cookie, me, catalog, calls, overtaken, kept>>
    BY <1>3, Zenon DEF LoginRedirect, FinishLogin, LeavePassword
  <2>2. loc'.page # "login"
    BY <1>1, <1>3 DEF LoginRedirect, FinishLogin, LeavePassword, PlaceType
  <2> QED BY <2>1, <2>2, KeptStill
<1>4. CASE Unlock \/ SessionEnds
  <2>1. UNCHANGED <<owner, favorites, cookie, loc, me, catalog, calls, overtaken, kept>>
    BY <1>4, Zenon DEF Unlock, SessionEnds
  <2> QED BY <2>1, KeptStill
<1>5. ASSUME NEW p \in Place, Navigate(p) PROVE Consistent'
  <2>1. UNCHANGED <<owner, favorites, cookie, me, catalog, calls, overtaken, kept>>
    BY <1>5, Zenon DEF Navigate
  <2>2. loc' = [loc EXCEPT !.at = p] BY <1>5, Zenon DEF Navigate
  <2>3. loc'.page = loc.page BY <1>1, <2>2 DEF PlaceType
  <2> QED BY <2>1, <2>3, KeptStill
<1> QED BY <1>2, <1>3, <1>4, <1>5

\* The answers, but for those to a click, keep the invariant.
LEMMA AnswerConsistent ==
    ASSUME Parts, Consistent, NEW c \in calls,
           MeAnswer(c) \/ MeAnswerLate(c) \/ LoginAnswer(c) \/ LogoutAnswer(c) \/ PasswordAnswer(c)
             \/ CatalogAnswer(c)
    PROVE  Consistent'
<1> USE DEF serverVars, ghosts, bounds
<1> HIDE DEF Consistent
<1> DEFINE rest == calls \ {c}
<1>1. me \in MeType BY DEF Parts
<1>2. CASE MeAnswer(c)
  <2>1. UNCHANGED <<owner, favorites, cookie, overtaken>> /\ c.kind = "me" /\ c.live
    BY <1>2, Zenon DEF MeAnswer
  <2>2. CASE c.ans = "ok"
    <3>1. /\ me' = [status |-> "ok", data |-> c.data] /\ calls' = calls \ {c}
          /\ UNCHANGED <<loc, catalog, kept>>
      BY <1>2, <2>2, Zenon DEF MeAnswer
    <3>2. c.live = TRUE
      <4>1. c.live \in BOOLEAN BY DEF Parts, Sound, CallTyped, Call
      <4> QED BY <2>1, <4>1, Zenon
    <3>3. cookie \in Token /\ c.data.user = owner[cookie]
      BY <2>1, <2>2, <3>2, Zenon DEF Consistent, MeOwn
    <3>4. me'.data = c.data BY <3>1
    <3> QED BY <2>1, <3>1, <3>3, <3>4, RemovedConsistent
  <2>3. CASE c.ans = "denied" /\ SessionOver
    <3>1. me' = NoMe /\ calls' = Orphan(calls \ {c}) /\ catalog' = NoCatalog
      BY <1>2, <2>3, Zenon DEF MeAnswer, Denied, AfterDenied
    <3> QED BY <2>1, <3>1, ClearedConsistent
  <2>4. CASE c.ans = "denied" /\ ~SessionOver
    <3>1. /\ me' = [me EXCEPT !.status = "denied"] /\ calls' = calls \ {c}
          /\ UNCHANGED <<loc, catalog>> /\ kept' = (kept /\ ~SessionOver)
      BY <1>2, <2>4, Zenon DEF MeAnswer, Denied, AfterDenied
    <3>2. kept' = kept
      <4>1. kept \in BOOLEAN BY DEF Parts
      <4> QED BY <2>4, <3>1, <4>1, Zenon
    <3>3. me'.status # "ok" BY <1>1, <3>1 DEF MeType
    <3> QED BY <2>1, <3>1, <3>2, <3>3, RemovedConsistent
  <2>5. CASE c.ans = "lost"
    <3>1. /\ me' = [me EXCEPT !.status = "failed"] /\ calls' = calls \ {c}
          /\ UNCHANGED <<loc, catalog, kept>>
      BY <1>2, <2>5, Zenon DEF MeAnswer
    <3>2. me'.status # "ok" BY <1>1, <3>1 DEF MeType
    <3> QED BY <2>1, <3>1, <3>2, RemovedConsistent
  <2> QED BY <1>2, <2>2, <2>3, <2>4, <2>5, Zenon DEF MeAnswer
<1>3. CASE MeAnswerLate(c)
  <2>1. /\ calls' = calls \ {c} /\ c.kind = "me" /\ ~c.live
        /\ UNCHANGED <<owner, favorites, cookie, loc, me, catalog, overtaken, kept>>
    BY <1>3, Zenon DEF MeAnswerLate
  <2>2. c.live = FALSE
    <3>1. c.live \in BOOLEAN BY DEF Parts, Sound, CallTyped, Call
    <3> QED BY <2>1, <3>1, Zenon
  <2> QED BY <2>1, <2>2, RemovedConsistent
<1>4. CASE LoginAnswer(c)
  <2>1. UNCHANGED <<owner, favorites, loc, catalog, overtaken>> /\ c.kind = "login"
    BY <1>4, Zenon DEF LoginAnswer
  <2>2. CASE c.ans = "ok"
    <3> DEFINE s == [Send("me", None) EXCEPT !.tok = c.tok]
    <3>1. /\ cookie' = c.tok
          /\ calls' = Orphan(calls \ {c}) \cup {d \in calls : d.kind = "catalog"} \cup {s}
          /\ kept' = (kept \/ (loc.page # "login" /\ Carried))
      BY <1>4, <2>2, Zenon DEF LoginAnswer
    <3>2. s.kind = "me" /\ s.tok = c.tok /\ s.live = TRUE /\ s.ans = "none"
      <4>1. s.kind = "me" /\ s.tok = c.tok /\ s.ans = "none" BY DEF Send
      <4>2. s.live = TRUE BY DEF Send
      <4> QED BY <4>1, <4>2
    <3> HIDE DEF s
    <3> QED BY <2>1, <3>1, <3>2, RefetchConsistent
  <2>3. CASE c.ans # "ok"
    <3>1. calls' = calls \ {c} /\ UNCHANGED <<cookie, me, kept>>
      BY <1>4, <2>3, Zenon DEF LoginAnswer
    <3> QED BY <2>1, <3>1, RemovedConsistent
  <2> QED BY <2>2, <2>3
<1>5. CASE LogoutAnswer(c)
  <2>1. /\ UNCHANGED <<owner, favorites>>
        /\ me' = NoMe /\ catalog' = NoCatalog /\ calls' = Orphan(calls \ {c})
    BY <1>5, Zenon DEF LogoutAnswer
  <2> QED BY <2>1, ClearedConsistent
<1>6. CASE PasswordAnswer(c)
  <2>1. /\ UNCHANGED <<owner, favorites, cookie, loc, me, catalog, overtaken, kept>>
        /\ c.kind = "password"
    BY <1>6, Zenon DEF PasswordAnswer
  <2> DEFINE s == Send("me", None)
  <2>2. \/ calls' = Orphan(calls \ {c}) \cup {d \in calls : d.kind = "catalog"} \cup {s}
        \/ calls' = calls \ {c}
    BY <1>6, Zenon DEF PasswordAnswer
  <2>3. s.kind = "me" /\ s.tok = cookie /\ s.live = TRUE /\ s.ans = "none"
    <3>1. s.kind = "me" /\ s.tok = cookie /\ s.ans = "none" BY DEF Send
    <3>2. s.live = TRUE BY DEF Send
    <3> QED BY <3>1, <3>2
  <2> HIDE DEF s
  <2>4. CASE calls' = Orphan(calls \ {c}) \cup {d \in calls : d.kind = "catalog"} \cup {s}
    BY <2>1, <2>3, <2>4, RefetchConsistent
  <2>5. CASE calls' = calls \ {c} BY <2>1, <2>5, RemovedConsistent
  <2> QED BY <2>2, <2>4, <2>5
<1>7. CASE CatalogAnswer(c)
  <2>1. UNCHANGED <<owner, favorites, cookie>> /\ c.kind = "catalog"
    BY <1>7, Zenon DEF CatalogAnswer
  <2>2. CASE c.ans = "ok"
    <3>1. /\ catalog' = [data |-> c.data, invalid |-> FALSE] /\ calls' = calls \ {c}
          /\ overtaken' = (overtaken /\ catalog.invalid)
          /\ UNCHANGED <<me, loc, kept>>
      BY <1>7, <2>2, Zenon DEF CatalogAnswer
    <3>2. catalog'.data = c.data BY <3>1
    <3> QED BY <2>1, <2>2, <3>1, <3>2, ReadConsistent
  <2>3. CASE c.ans = "denied" /\ SessionOver
    <3>1. me' = NoMe /\ calls' = Orphan(calls \ {c}) /\ catalog' = NoCatalog
      BY <1>7, <2>3, Zenon DEF CatalogAnswer, Denied, AfterDenied
    <3> QED BY <2>1, <3>1, ClearedConsistent
  <2>4. CASE c.ans = "denied" /\ ~SessionOver
    <3>1. /\ calls' = calls \ {c} /\ kept' = (kept /\ ~SessionOver)
          /\ UNCHANGED <<loc, catalog, me, overtaken>>
      BY <1>7, <2>4, Zenon DEF CatalogAnswer, Denied, AfterDenied
    <3>2. kept' = kept
      <4>1. kept \in BOOLEAN BY DEF Parts
      <4> QED BY <2>4, <3>1, <4>1, Zenon
    <3> QED BY <2>1, <3>1, <3>2, RemovedConsistent
  <2>5. CASE c.ans = "lost"
    <3>1. calls' = calls \ {c} /\ UNCHANGED <<catalog, overtaken, kept, me, loc>>
      BY <1>7, <2>5, Zenon DEF CatalogAnswer
    <3> QED BY <2>1, <3>1, RemovedConsistent
  <2> QED BY <1>7, <2>2, <2>3, <2>4, <2>5, Zenon DEF CatalogAnswer
<1> QED BY <1>2, <1>3, <1>4, <1>5, <1>6, <1>7

\* Every step keeps the invariant.
LEMMA ConsistentStep == Typed /\ Consistent /\ [Next]_vars => Consistent'
<1> SUFFICES ASSUME Parts, Consistent, [Next]_vars PROVE Consistent' BY TypedParts
<1>1. CASE Next
  BY <1>1, SendingConsistent, MovingConsistent, ServeConsistent, LoseConsistent,
     AnswerConsistent, FavoriteConsistent
     DEF Next, Visitor, System, Answer
<1>2. CASE UNCHANGED vars
  <2>1. UNCHANGED <<owner, favorites, cookie, loc, me, catalog, calls, overtaken, kept>>
    BY <1>2, Zenon DEF vars
  <2> QED BY <2>1, KeptStill
<1> QED BY <1>1, <1>2

\* A page behind the gate never shows the catalogue of another user as fresh, whatever requests
\* of earlier sessions are still under way; the exception is a catalogue kept by the gate's own
\* redirect (kept).
THEOREM ForeignKnown == Spec => []ForeignIsStale
<1>1. Typed /\ Consistent => ForeignIsStale
  <2> SUFFICES ASSUME Parts, Consistent, Shell, ~kept, catalog.data # None,
                      catalog.data.owner # me.data.user
               PROVE  catalog.invalid \/ \E kind \in {"catalog", "favorite",
               "me"} : Fetching(kind)
    BY TypedParts DEF ForeignIsStale
  <2>1. me.status = "ok"
    <3>1. me.status \in {"none", "pending", "ok", "denied", "failed"} BY DEF Parts, MeType
    <3>2. Gate = "shell" BY Zenon DEF Shell
    <3> QED BY <3>1, <3>2 DEF Gate
  <2>2. (\E c \in calls : c.kind = "me" /\ c.live = TRUE) => Fetching("me")
    BY Zenon DEF Fetching
  <2>3. Clicking => Fetching("favorite") BY Zenon DEF Clicking, Fetching, Consistent, ReadsLive
  <2>4. Fetching("me") \/ me.data.user = owner[cookie]
    BY <2>1, <2>2, Zenon DEF Consistent, MeShown
  <2>5. catalog.invalid \/ Clicking \/ catalog.data.owner = owner[cookie]
    BY Zenon DEF Consistent, CacheOwn
  <2> QED BY <2>3, <2>4, <2>5
<1> QED BY <1>1, InitTyped, TypedStep, InitConsistent, ConsistentStep, PTL DEF Spec

\* Once the clicks are answered and the list is neither stale nor being fetched, the stars are
\* the server's, for clicks that overlap, fail and outlive their session; the exception is a
\* click that settled off the page with a read under way (overtaken).
THEOREM StarsTold == Spec => []StarsSettle
<1>1. Consistent => StarsSettle
  <2> SUFFICES ASSUME Consistent PROVE StarsSettle OBVIOUS
  <2>1. Clicking => Fetching("favorite") BY Zenon DEF Clicking, Fetching, Consistent, ReadsLive
  <2> QED BY <2>1, Zenon DEF Consistent, StarsRead, StarsSettle
<1> QED BY <1>1, InitTyped, TypedStep, InitConsistent, ConsistentStep, PTL DEF Spec

=============================================================================
