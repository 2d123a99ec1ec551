---------------------------- MODULE GrantsProofs ----------------------------
(***************************************************************************)
(* Proofs about Grants for every set of users, groups, roles and APIs, any *)
(* number of requests in flight and any input.                             *)
(***************************************************************************)
EXTENDS Grants, TLAPS

\* A request carries ids of the right tables and, unless it is a sign-in, valid scopes.
ReqOK(r) ==
    /\ r \in Request
    /\ WellFormed(r.in)
    /\ r.in.op # "signIn" => r.in.scopes \subseteq Scope

ReqInv == \A w \in Worker : req[w] = None \/ ReqOK(req[w])

\* The operations whose grant is checked before the write.
Checked == {"setUserGroups", "setGroupRoles", "addMembers", "import", "addPermission",
            "replacePermissions", "updateGroup"}

\* The tables as one record, so that facts about them can be stated before and after a step.
DB == [row |-> row, memberOf |-> memberOf, groupRoles |-> groupRoles,
       rolePerms |-> rolePerms, owner |-> owner, access |-> access, mapping |-> mapping]

\* With the tables T, group g gives its members scope s.
Confers(g, s, T) ==
    \/ \E x \in T.groupRoles[g] : s \in T.rolePerms[x]
    \/ \E a \in Api : T.owner[a] = g /\ s = APIScope(a, "manage")
    \/ \E a \in Api, l \in {"view", "invoke"} : T.access[a][g] = l /\ s = APIScope(a, l)

\* With the tables T, the change that r is about would newly grant s.
Gives(r, s, T) ==
    LET in == r.in
    IN  \/ in.op = "setUserGroups" /\ \E g \in in.ids \ r.seen : Confers(g, s, T)
        \/ in.op = "setGroupRoles" /\ \E x \in in.ids \ r.seen : s \in T.rolePerms[x]
        \/ in.op = "addMembers" /\ Confers(in.target, s, T)
        \/ in.op = "import" /\ \E g \in in.ids \cap Group : Confers(g, s, T)
        \/ in.op = "addPermission" /\ s \in in.scopes
        \/ in.op = "replacePermissions" /\ s \in in.scopes \ T.rolePerms[in.target]
        \/ in.op = "updateGroup" /\ in.maps # r.seenMaps /\ Confers(in.target, s, T)

\* What a request that nobody wrote during knows: what it read is what the tables T hold,
\* and what it was allowed is allowed still.
Knows(r, T) ==
    LET in == r.in
    IN  /\ in.op \in {"setUserGroups", "signIn"} /\ r.pc # "read" => r.seen = T.memberOf[in.target]
        /\ in.op = "setGroupRoles" /\ r.pc # "read" => r.seen = T.groupRoles[in.target]
        /\ in.op = "updateGroup" /\ r.pc # "read" => r.seenMaps = T.mapping[in.target]
        /\ in.op \in Checked /\ r.pc = "write" /\ r.actor \notin Admin =>
              \A s \in Scope : Gives(r, s, T) => Has(r.perms, s)
        /\ in.op = "createAPI" /\ in.owner # None =>
              r.actor \in Admin \/ ManagesAllAPIs(r.perms)
        /\ in.op = "updateAPI" /\ r.pc = "write" /\ T.owner[in.target] # in.owner =>
              r.actor \in Admin \/ ManagesAllAPIs(r.perms)
        /\ in.op = "updateAPI" => r.pc # "check"
        /\ in.op = "setAccess" => r.actor \in Admin \/ CanManageAPI(r.perms, in.target)
        /\ in.op = "signIn" =>
              /\ r.listed = {g \in Group : T.row[g] = "live"
                                           /\ T.mapping[g][Source[in.target]] # None}
              /\ in.ids \subseteq r.listed
              /\ Source[in.target] # "local"

FreshInv == \A w \in Worker : req[w] # None /\ req[w].fresh => Knows(req[w], DB)

GrantsInv == TypeOK /\ ReqInv /\ RefsLive /\ FreshInv

-----------------------------------------------------------------------------
(* The engine: what holding a set of scopes implies *)

\* More scopes give no fewer rights.
LEMMA HasMonotone ==
    ASSUME NEW P, NEW Q, P \subseteq Q, NEW s, Has(P, s)
    PROVE  Has(Q, s)
BY DEF Has, CanViewAPI, CanInvokeAPI, CanManageAPI, CanDeleteAPI

\* Scopes brought together give no right that neither gave alone: every rule of the
\* engine asks for one scope.
LEMMA HasOfUnion ==
    ASSUME NEW P, NEW Q, NEW s, Has(P \cup Q, s)
    PROVE  Has(P, s) \/ Has(Q, s)
BY DEF Has, CanViewAPI, CanInvokeAPI, CanManageAPI, CanDeleteAPI

\* A right that follows from rights follows from what those follow from.
LEMMA HasTransitive ==
    ASSUME NEW P, NEW Q \in SUBSET Scope, NEW s \in Scope, \A q \in Q : Has(P, q), Has(Q, s)
    PROVE  Has(P, s)
BY RbacConstants
   DEF Has, CanViewAPI, CanInvokeAPI, CanManageAPI, CanDeleteAPI, Scope, Global, APIScope,
       GlobalNames, APIActions

\* Whoever gets only scopes that someone else has gets only rights that one of the two had.
LEMMA NothingGained ==
    ASSUME NEW P, NEW N \in SUBSET Scope, NEW R,
           \A q \in N : q \in P \/ Has(R, q),
           NEW s \in Scope, Has(N, s)
    PROVE  Has(P, s) \/ Has(R, s)
<1> DEFINE Q == {q \in N : Has(R, q)}
<1>1. N \subseteq P \cup Q
  OBVIOUS
<1>2. Has(P \cup Q, s)
  BY <1>1, HasMonotone
<1> HIDE DEF Q
<1>3. Has(P, s) \/ Has(Q, s)
  BY <1>2, HasOfUnion
<1>4. Q \in SUBSET Scope /\ \A q \in Q : Has(R, q)
  BY DEF Q
<1> QED
  BY <1>4, <1>3, HasTransitive

-----------------------------------------------------------------------------
(* What a group confers *)

\* The scopes of the access levels that acc gives the groups G.
AccessOf(G, acc) ==
    {APIScope(q[1], q[2]) : q \in
        {p \in Api \X {"view", "invoke"} : \E g \in G : acc[p[1]][g] = p[2]}}

\* They are one scope for each group and API with a level.
LEMMA AccessScopes ==
    ASSUME NEW G, NEW acc, NEW s
    PROVE  s \in AccessOf(G, acc) <=>
              \E g \in G : \E a \in Api, l \in {"view", "invoke"} :
                               acc[a][g] = l /\ s = APIScope(a, l)
<1> DEFINE Q == {p \in Api \X {"view", "invoke"} : \E g \in G : acc[p[1]][g] = p[2]}
<1>1. ASSUME NEW q \in Q, s = APIScope(q[1], q[2])
      PROVE  \E g \in G : \E a \in Api, l \in {"view", "invoke"} :
                               acc[a][g] = l /\ s = APIScope(a, l)
  BY <1>1
<1>2. ASSUME NEW g \in G, NEW a \in Api, NEW l \in {"view", "invoke"},
             acc[a][g] = l, s = APIScope(a, l)
      PROVE  s \in {APIScope(q[1], q[2]) : q \in Q}
  <2>1. <<a, l>> \in Q
    BY <1>2
  <2> QED
    BY <1>2, <2>1
<1> QED
  BY <1>1, <1>2 DEF AccessOf

\* ScopesForGroups collects what each group confers.
LEMMA GroupScopesAre ==
    ASSUME NEW G, NEW s
    PROVE  s \in GroupScopes(G) <=>
              \E g \in G : Confers(g, s, DB)
<1>1. s \in RoleScopes(UNION {groupRoles[g] : g \in G}) <=>
         \E g \in G : \E x \in groupRoles[g] : s \in rolePerms[x]
  BY DEF RoleScopes
<1>2. s \in {APIScope(a, "manage") : a \in {b \in Api : owner[b] \in G}} <=>
         \E g \in G : \E a \in Api : owner[a] = g /\ s = APIScope(a, "manage")
  OBVIOUS
<1>3. s \in AccessOf(G, access) <=>
         \E g \in G : \E a \in Api, l \in {"view", "invoke"} :
                          access[a][g] = l /\ s = APIScope(a, l)
  BY AccessScopes
<1> QED
  BY <1>1, <1>2, <1>3 DEF GroupScopes, Confers, AccessOf, DB

\* The same after a step.
LEMMA GroupScopesAreNext ==
    ASSUME NEW G, NEW s
    PROVE  s \in GroupScopes(G)' <=>
              \E g \in G : Confers(g, s, DB')
<1>1. s \in RoleScopes(UNION {groupRoles[g] : g \in G})' <=>
         \E g \in G : \E x \in groupRoles'[g] : s \in rolePerms'[x]
  BY DEF RoleScopes
<1>2. s \in {APIScope(a, "manage") : a \in {b \in Api : owner'[b] \in G}} <=>
         \E g \in G : \E a \in Api : owner'[a] = g /\ s = APIScope(a, "manage")
  OBVIOUS
<1>3. s \in AccessOf(G, access') <=>
         \E g \in G : \E a \in Api, l \in {"view", "invoke"} :
                          access'[a][g] = l /\ s = APIScope(a, l)
  BY AccessScopes
<1> QED
  BY <1>1, <1>2, <1>3 DEF GroupScopes, Confers, AccessOf, DB

\* What a user holds after a step.
LEMMA PermissionsNext ==
    ASSUME NEW u, NEW s
    PROVE  s \in ResolvePermissions(u)' <=>
              \E g \in memberOf'[u] : Confers(g, s, DB')
<1>1. s \in RoleScopes(UNION {groupRoles[g] : g \in memberOf[u]})' <=>
         \E g \in memberOf'[u] : \E x \in groupRoles'[g] : s \in rolePerms'[x]
  BY DEF RoleScopes
<1>2. s \in {APIScope(a, "manage") : a \in {b \in Api : owner'[b] \in memberOf'[u]}} <=>
         \E g \in memberOf'[u] : \E a \in Api : owner'[a] = g /\ s = APIScope(a, "manage")
  OBVIOUS
<1>3. s \in AccessOf(memberOf'[u], access') <=>
         \E g \in memberOf'[u] : \E a \in Api, l \in {"view", "invoke"} :
                          access'[a][g] = l /\ s = APIScope(a, l)
  BY AccessScopes
<1> QED
  BY <1>1, <1>2, <1>3 DEF ResolvePermissions, GroupScopes, Confers, AccessOf, DB

\* What a group confers is a scope of the catalogue.
LEMMA ConfersScopes ==
    ASSUME TypeOK, NEW g \in Group, NEW s, Confers(g, s, DB)
    PROVE  s \in Scope
BY DEF TypeOK, Confers, DB, Scope, APIScope, APIActions

-----------------------------------------------------------------------------
(* Steps that write nothing *)

\* Initially nothing refers to a row that is not there.
LEMMA InitInv == Init => GrantsInv
<1> SUFFICES ASSUME Init PROVE GrantsInv
  OBVIOUS
<1>1. TypeOK
  BY GrantConstants, RbacConstants
     DEF Init, TypeOK, NoAccess, Level, Unmapped, Mapping, Provider
<1>2. ReqInv /\ FreshInv
  BY DEF Init, ReqInv, FreshInv
<1>3. RefsLive
  BY GrantConstants, RbacConstants, ZenonT(30) DEF Init, RefsLive, Live, NoAccess, Unmapped
<1> QED
  BY <1>1, <1>2, <1>3 DEF GrantsInv

\* A step of one request that writes nothing keeps the invariant when it leaves the
\* request well-formed and knowing what it read.
LEMMA QuietStep ==
    ASSUME GrantsInv, NEW w \in Worker, NEW r, UNCHANGED <<tables, writes>>,
           req' = [req EXCEPT ![w] = r],
           r = None \/ (ReqOK(r) /\ (r.fresh => Knows(r, DB)))
    PROVE  GrantsInv'
<1>1. TypeOK'
  BY DEF GrantsInv, TypeOK, ReqOK, tables
<1>2. ReqInv'
  BY DEF GrantsInv, TypeOK, ReqInv, ReqOK, WellFormed
<1>3. RefsLive'
  BY DEF GrantsInv, RefsLive, tables, Live
<1>4. DB' = DB
  BY DEF DB, tables
<1>5. FreshInv'
  BY <1>4 DEF GrantsInv, TypeOK, FreshInv
<1> QED
  BY <1>1, <1>2, <1>3, <1>5 DEF GrantsInv

\* The scopes the handlers compare with the actor's are those the change newly gives.
LEMMA GrantedAre ==
    ASSUME NEW r, r.in.op \in Checked, NEW s
    PROVE  s \in Granted(r) <=> Gives(r, s, DB)
BY GroupScopesAre DEF Granted, Gives, Checked, RoleScopes, DB

\* A request that arrives holds valid scopes only, and the API rights the route asks for.
LEMMA ArriveInv ==
    ASSUME GrantsInv, NEW w \in Worker, NEW u \in User, NEW in \in Sent, Arrive(w, u, in)
    PROVE  GrantsInv'
<1> DEFINE P == ResolvePermissions(u)
           i == [in EXCEPT !.scopes = {Normalize(s) : s \in in.scopes}]
           r == [in |-> i, actor |-> u, perms |-> P, pc |-> FirstStep(in.op),
                 listed |-> {}, seen |-> {}, seenMaps |-> Unmapped, fresh |-> TRUE]
<1>1. in \in Input /\ WellFormed(in)
  BY GrantConstants
<1>2. i \in Input /\ WellFormed(i) /\ i.scopes \subseteq Scope /\ i.op = in.op
         /\ i.owner = in.owner /\ i.target = in.target
  <2>1. i.scopes \subseteq Scope
    BY <1>1 DEF Arrive, Valid, Input
  <2>2. Scope \subseteq [api : Api \cup {None}, action : SentAction]
    BY DEF Scope, SentAction
  <2>3. /\ i = [in EXCEPT !.scopes = i.scopes]
        /\ i.scopes \subseteq [api : Api \cup {None}, action : SentAction]
    BY <1>1, <2>1, <2>2 DEF Input
  <2> HIDE DEF i
  <2>4. i \in Input /\ i.op = in.op /\ i.target = in.target /\ i.ids = in.ids /\ i.owner = in.owner
    BY <1>1, <2>3 DEF Input
  <2> QED
    BY <1>1, <2>1, <2>4 DEF WellFormed
<1>3. P \in SUBSET Scope
  BY GroupScopesAre, ConfersScopes DEF GrantsInv, TypeOK, ResolvePermissions
<1>4. FirstStep(in.op) \in {"read", "check", "write"}
  BY DEF FirstStep
<1>5. Unmapped \in Mapping
  BY DEF Unmapped, Mapping
<1> HIDE DEF P, i
<1>6. ReqOK(r)
  BY <1>2, <1>3, <1>4, <1>5 DEF ReqOK, Request
<1>7. Knows(r, DB)
  <2>1. i.op \in Checked \cup {"updateAPI"} => r.pc # "write"
    BY <1>2 DEF FirstStep, Checked
  <2>2. in.op \in {"setUserGroups", "signIn", "setGroupRoles", "updateGroup", "updateAPI"} =>
           r.pc = "read"
    BY DEF FirstStep
  <2>3. in.op # "signIn"
    BY DEF Arrive
  <2>4. in.op = "createAPI" /\ in.owner # None => u \in Admin \/ ManagesAllAPIs(P)
    BY DEF Arrive, MayCall, P, UserOps, GroupOps, RoleOps
  <2>5. in.op = "setAccess" => u \in Admin \/ CanManageAPI(P, in.target)
    BY DEF Arrive, MayCall, P, UserOps, GroupOps, RoleOps
  <2> QED
    BY <1>2, <2>1, <2>2, <2>3, <2>4, <2>5 DEF Knows
<1>8. req' = [req EXCEPT ![w] = r] /\ UNCHANGED <<tables, writes>>
  BY DEF Arrive, P, i
<1> HIDE DEF r
<1> QED
  BY <1>6, <1>7, <1>8, QuietStep

\* A sign-in lists the live groups with a mapping.
LEMMA SignInInv ==
    ASSUME GrantsInv, NEW w \in Worker, NEW u \in User, NEW M \in SUBSET Directory,
           NEW in \in Sent, SignIn(w, u, M, in)
    PROVE  GrantsInv'
<1> DEFINE listed == {g \in Group : Live(g) /\ mapping[g][Source[u]] # None}
           i == [in EXCEPT !.ids = {g \in listed : mapping[g][Source[u]] \in M}]
           r == [in |-> i, actor |-> u, perms |-> {}, pc |-> FirstStep("signIn"),
                 listed |-> listed, seen |-> {}, seenMaps |-> Unmapped, fresh |-> TRUE]
<1>1. in \in Input /\ in.op = "signIn" /\ in.target = u
  BY GrantConstants DEF SignIn
<1>2. /\ i \in Input /\ WellFormed(i) /\ i.op = "signIn" /\ i.target = u
      /\ i.ids \subseteq listed
  BY <1>1 DEF Input, WellFormed, UserOps, GroupOps, RoleOps, APIOps
<1>3. FirstStep("signIn") = "read" /\ Unmapped \in Mapping
  BY DEF FirstStep, Unmapped, Mapping
<1>4. listed \subseteq Group
  OBVIOUS
<1>5. req' = [req EXCEPT ![w] = r] /\ UNCHANGED <<tables, writes>>
  BY DEF SignIn
<1>6. Source[u] # "local"
  BY DEF SignIn
<1>7. listed = {g \in Group : DB.row[g] = "live" /\ DB.mapping[g][Source[u]] # None}
  BY DEF DB, Live
<1> HIDE DEF listed, i
<1>8. ReqOK(r)
  BY <1>2, <1>3, <1>4 DEF ReqOK, Request
<1>9. Knows(r, DB)
  BY <1>2, <1>3, <1>7, <1>6 DEF Knows, Checked
<1> HIDE DEF r
<1> QED
  BY <1>5, <1>8, <1>9, QuietStep

\* What the handler reads is what the tables hold.
LEMMA ReadCurrentInv ==
    ASSUME GrantsInv, NEW w \in Worker, ReadCurrent(w)
    PROVE  GrantsInv'
<1> DEFINE r == req[w]
           S == CASE r.in.op \in {"setUserGroups", "signIn"} -> memberOf[r.in.target]
                  [] r.in.op = "setGroupRoles" -> groupRoles[r.in.target]
                  [] OTHER -> {}
           m == IF r.in.op = "updateGroup" THEN mapping[r.in.target] ELSE r.seenMaps
           p == IF r.in.op \in {"signIn", "updateAPI"} THEN "write" ELSE "check"
           q == [r EXCEPT !.seen = S, !.seenMaps = m, !.pc = p]
<1>1. ReqOK(r) /\ (r.fresh => Knows(r, DB)) /\ r.pc = "read"
  BY DEF GrantsInv, ReqInv, FreshInv, ReadCurrent
<1>2. req' = [req EXCEPT ![w] = IF RefusedOnRead(r) THEN None ELSE q]
         /\ UNCHANGED <<tables, writes>>
  BY DEF ReadCurrent
<1>3. S \in SUBSET (Group \cup Role)
  BY <1>1 DEF GrantsInv, TypeOK, ReqOK, WellFormed, GroupOps
<1>4. m \in Mapping
  BY <1>1 DEF GrantsInv, TypeOK, ReqOK, WellFormed, GroupOps, Request
<1>5. CASE RefusedOnRead(r)
  BY <1>2, <1>5, QuietStep
<1>6. CASE ~RefusedOnRead(r)
  <2>1. /\ r.in.op \in {"setUserGroups", "signIn"} => S = DB.memberOf[r.in.target]
        /\ r.in.op = "setGroupRoles" => S = DB.groupRoles[r.in.target]
        /\ r.in.op = "updateGroup" => m = DB.mapping[r.in.target]
        /\ r.in.op \in Checked => p = "check"
        /\ r.in.op = "updateAPI" => p = "write"
        /\ p \in {"read", "check", "write"}
    BY DEF DB, Checked
  <2>2. r.in.op = "updateAPI" /\ DB.owner[r.in.target] # r.in.owner =>
           r.actor \in Admin \/ ManagesAllAPIs(r.perms)
    BY <1>6 DEF RefusedOnRead, DB
  <2> HIDE DEF S, m, p, r
  <2>3. q = [r EXCEPT !.seen = S, !.seenMaps = m, !.pc = p]
    OBVIOUS
  <2> HIDE DEF q
  <2>4. /\ ReqOK(q)
        /\ q.in = r.in /\ q.actor = r.actor /\ q.perms = r.perms /\ q.listed = r.listed
        /\ q.fresh = r.fresh /\ q.seen = S /\ q.seenMaps = m /\ q.pc = p
    BY <1>1, <1>3, <1>4, <2>1, <2>3 DEF ReqOK, Request, WellFormed
  <2>5. q.fresh => Knows(q, DB)
    BY <1>1, <2>1, <2>2, <2>4 DEF Knows
  <2> QED
    BY <1>2, <1>6, <2>4, <2>5, QuietStep
<1> QED
  BY <1>5, <1>6

\* A request that passes allowGrant is allowed what it would grant.
LEMMA CheckGrantInv ==
    ASSUME GrantsInv, NEW w \in Worker, CheckGrant(w)
    PROVE  GrantsInv'
<1> DEFINE r == req[w]
           q == [r EXCEPT !.seen = r.seen, !.seenMaps = r.seenMaps, !.pc = "write"]
<1>1. ReqOK(r) /\ (r.fresh => Knows(r, DB)) /\ r.pc = "check"
  BY DEF GrantsInv, ReqInv, FreshInv, CheckGrant
<1>2. [r EXCEPT !.pc = "write"] = q
  BY <1>1 DEF ReqOK, Request
<1>3. req' = [req EXCEPT ![w] = IF RefusedOnCheck(r) \/ ~AllowGrant(r, Granted(r)) THEN None
                               ELSE q]
         /\ UNCHANGED <<tables, writes>>
  BY <1>2 DEF CheckGrant
<1>4. r.seen \in SUBSET (Group \cup Role) /\ r.seenMaps \in Mapping
  BY <1>1 DEF ReqOK, Request
<1>5. CASE RefusedOnCheck(r) \/ ~AllowGrant(r, Granted(r))
  BY <1>3, <1>5, QuietStep
<1>6. CASE ~RefusedOnCheck(r) /\ AllowGrant(r, Granted(r))
  <2>1. r.in.op \in Checked /\ r.actor \notin Admin =>
           \A s \in Scope : Gives(r, s, DB) => Has(r.perms, s)
    BY <1>6, GrantedAre DEF AllowGrant
  <2>2. r.in.op # "updateAPI" \/ ~r.fresh
    BY <1>1 DEF Knows
  <2> HIDE DEF r
  <2>3. q = [r EXCEPT !.seen = r.seen, !.seenMaps = r.seenMaps, !.pc = "write"]
    OBVIOUS
  <2> HIDE DEF q
  <2>4. /\ ReqOK(q)
        /\ q.in = r.in /\ q.actor = r.actor /\ q.perms = r.perms /\ q.listed = r.listed
        /\ q.fresh = r.fresh /\ q.seen = r.seen /\ q.seenMaps = r.seenMaps /\ q.pc = "write"
    BY <1>1, <1>4, <2>3 DEF ReqOK, Request, WellFormed
  <2>5. \A s : Gives(q, s, DB) <=> Gives(r, s, DB)
    BY <2>4 DEF Gives
  <2>6. q.fresh => Knows(q, DB)
    BY <1>1, <2>1, <2>2, <2>4, <2>5 DEF Knows
  <2> QED
    BY <1>3, <1>6, <2>4, <2>6, QuietStep
<1> QED
  BY <1>5, <1>6

\* A write that fails changes nothing.
LEMMA WriteFailsInv ==
    ASSUME GrantsInv, NEW w \in Worker, WriteFails(w)
    PROVE  GrantsInv'
BY QuietStep DEF WriteFails

-----------------------------------------------------------------------------
(* Writes *)

\* The part of TypeOK that a write can disturb.
TablesOK ==
    /\ row \in [Group \cup Role \cup Api -> {"unused", "live", "gone"}]
    /\ memberOf \in [User -> SUBSET Group]
    /\ groupRoles \in [Group -> SUBSET Role]
    /\ rolePerms \in [Role -> SUBSET Scope]
    /\ owner \in [Api -> Group \cup {None}]
    /\ access \in [Api -> [Group -> Level]]
    /\ mapping \in [Group -> Mapping]

\* A write keeps the invariant when the tables keep their types and references and the
\* request that wrote is over or still knows what it read: the others are stale now.
LEMMA WriteStep ==
    ASSUME GrantsInv, NEW w \in Worker, NEW r, Wrote(w, r),
           r = None \/ (ReqOK(r) /\ (r.fresh => Knows(r, DB'))),
           TablesOK', RefsLive'
    PROVE  GrantsInv'
<1>1. \A v \in Worker \ {w} :
         req'[v] = None \/ (ReqOK(req'[v]) /\ req'[v].fresh = FALSE)
  <2> SUFFICES ASSUME NEW v \in Worker \ {w}, req[v] # None
               PROVE  ReqOK(req'[v]) /\ req'[v].fresh = FALSE
    BY DEF Wrote
  <2>1. ReqOK(req[v]) /\ req'[v] = [req[v] EXCEPT !.fresh = FALSE]
    BY DEF GrantsInv, ReqInv, Wrote
  <2> QED
    BY <2>1 DEF ReqOK, Request, WellFormed
<1>2. req'[w] = r
  BY DEF Wrote
<1>3. ReqInv' /\ req' \in [Worker -> Request \cup {None}]
  <2>1. \A v \in Worker : req'[v] = None \/ ReqOK(req'[v])
    BY <1>1, <1>2
  <2>2. \A v \in Worker : req'[v] \in Request \cup {None}
    BY <2>1 DEF ReqOK
  <2>3. req' \in [Worker -> Request \cup {None}]
    BY <2>2 DEF Wrote
  <2> QED
    BY <2>1, <2>3 DEF ReqInv, ReqOK, WellFormed
<1>4. FreshInv'
  BY <1>1, <1>2 DEF FreshInv
<1>5. TypeOK'
  BY <1>3 DEF TypeOK, TablesOK, GrantsInv, Wrote
<1> QED
  BY <1>3, <1>4, <1>5 DEF GrantsInv

\* The last write of a request: what holds before it, and that the tables are all that is
\* left to show.
LEMMA CommitStep ==
    ASSUME GrantsInv, NEW w \in Worker, NEW op, Commit(w, op)
    PROVE  /\ ReqOK(req[w]) /\ Possible(req[w]) /\ req[w].in.op = op /\ req[w] # None
           /\ req[w].pc = "write"
           /\ TablesOK' /\ RefsLive' => GrantsInv'
BY WriteStep DEF Commit, Writing, GrantsInv, ReqInv

\* The groups are live: the foreign keys of user_groups.
LEMMA SetUserGroupsInv ==
    ASSUME GrantsInv, NEW w \in Worker, SetUserGroups(w)
    PROVE  GrantsInv'
<1> DEFINE r == req[w]
<1>1. /\ ReqOK(r) /\ Possible(r) /\ r.in.op = "setUserGroups"
      /\ TablesOK' /\ RefsLive' => GrantsInv'
  BY CommitStep DEF SetUserGroups
<1>2. /\ r.in \in Input /\ WellFormed(r.in)
      /\ r.in.op # "signIn" => r.in.scopes \subseteq Scope
  BY <1>1 DEF ReqOK, Request
<1>3. TablesOK'
  BY <1>1, <1>2
     DEF SetUserGroups, GrantsInv, TypeOK, TablesOK, Input, WellFormed, GroupOps, RoleOps,
         APIOps, Level
<1>4. RefsLive'
  BY <1>1, <1>2, GrantConstants
     DEF SetUserGroups, GrantsInv, TypeOK, RefsLive, Live, Possible, Input, WellFormed,
         GroupOps, RoleOps, APIOps
<1> QED
  BY <1>1, <1>3, <1>4

\* The group is live: the foreign keys of user_groups.
LEMMA AddGroupMembersInv ==
    ASSUME GrantsInv, NEW w \in Worker, AddGroupMembers(w)
    PROVE  GrantsInv'
<1> DEFINE r == req[w]
<1>1. /\ ReqOK(r) /\ Possible(r) /\ r.in.op = "addMembers"
      /\ TablesOK' /\ RefsLive' => GrantsInv'
  BY CommitStep DEF AddGroupMembers
<1>2. /\ r.in \in Input /\ WellFormed(r.in)
      /\ r.in.op # "signIn" => r.in.scopes \subseteq Scope
  BY <1>1 DEF ReqOK, Request
<1>3. TablesOK'
  BY <1>1, <1>2
     DEF AddGroupMembers, GrantsInv, TypeOK, TablesOK, Input, WellFormed, GroupOps, RoleOps,
         APIOps, Level
<1>4. RefsLive'
  BY <1>1, <1>2, GrantConstants
     DEF AddGroupMembers, GrantsInv, TypeOK, RefsLive, Live, Possible, Input, WellFormed,
         GroupOps, RoleOps, APIOps
<1> QED
  BY <1>1, <1>3, <1>4

\* A member less refers to nothing.
LEMMA RemoveGroupMemberInv ==
    ASSUME GrantsInv, NEW w \in Worker, RemoveGroupMember(w)
    PROVE  GrantsInv'
<1> DEFINE r == req[w]
<1>1. /\ ReqOK(r) /\ Possible(r) /\ r.in.op = "removeMember"
      /\ TablesOK' /\ RefsLive' => GrantsInv'
  BY CommitStep DEF RemoveGroupMember
<1>2. /\ r.in \in Input /\ WellFormed(r.in)
      /\ r.in.op # "signIn" => r.in.scopes \subseteq Scope
  BY <1>1 DEF ReqOK, Request
<1>3. TablesOK'
  BY <1>1, <1>2
     DEF RemoveGroupMember, GrantsInv, TypeOK, TablesOK, Input, WellFormed, GroupOps, RoleOps,
         APIOps, Level
<1>4. RefsLive'
  BY <1>1, <1>2, GrantConstants
     DEF RemoveGroupMember, GrantsInv, TypeOK, RefsLive, Live, Possible, Input, WellFormed,
         GroupOps, RoleOps, APIOps
<1> QED
  BY <1>1, <1>3, <1>4

\* A group joined at sign-in is live, or the transaction fails.
LEMMA SyncDirectoryGroupsInv ==
    ASSUME GrantsInv, NEW w \in Worker, SyncDirectoryGroups(w)
    PROVE  GrantsInv'
<1> DEFINE r == req[w]
<1>1. /\ ReqOK(r) /\ Possible(r) /\ r.in.op = "signIn"
      /\ TablesOK' /\ RefsLive' => GrantsInv'
  BY CommitStep DEF SyncDirectoryGroups
<1>2. /\ r.in \in Input /\ WellFormed(r.in)
      /\ r.in.op # "signIn" => r.in.scopes \subseteq Scope
  BY <1>1 DEF ReqOK, Request
<1>3. TablesOK'
  BY <1>1, <1>2
     DEF SyncDirectoryGroups, GrantsInv, TypeOK, TablesOK, Input, WellFormed, GroupOps, RoleOps,
         APIOps, Level
<1>4. RefsLive'
  BY <1>1, <1>2, GrantConstants
     DEF SyncDirectoryGroups, GrantsInv, TypeOK, RefsLive, Live, Possible, Input, WellFormed,
         GroupOps, RoleOps, APIOps
<1> QED
  BY <1>1, <1>3, <1>4

\* Group and roles are live: the foreign keys of group_roles.
LEMMA SetGroupRolesInv ==
    ASSUME GrantsInv, NEW w \in Worker, SetGroupRoles(w)
    PROVE  GrantsInv'
<1> DEFINE r == req[w]
<1>1. /\ ReqOK(r) /\ Possible(r) /\ r.in.op = "setGroupRoles"
      /\ TablesOK' /\ RefsLive' => GrantsInv'
  BY CommitStep DEF SetGroupRoles
<1>2. /\ r.in \in Input /\ WellFormed(r.in)
      /\ r.in.op # "signIn" => r.in.scopes \subseteq Scope
  BY <1>1 DEF ReqOK, Request
<1>3. TablesOK'
  BY <1>1, <1>2
     DEF SetGroupRoles, GrantsInv, TypeOK, TablesOK, Input, WellFormed, GroupOps, RoleOps,
         APIOps, Level
<1>4. RefsLive'
  BY <1>1, <1>2, GrantConstants
     DEF SetGroupRoles, GrantsInv, TypeOK, RefsLive, Live, Possible, Input, WellFormed,
         GroupOps, RoleOps, APIOps
<1> QED
  BY <1>1, <1>3, <1>4

\* A new group is live.
LEMMA CreateGroupInv ==
    ASSUME GrantsInv, NEW w \in Worker, CreateGroup(w)
    PROVE  GrantsInv'
<1> DEFINE r == req[w]
<1>1. /\ ReqOK(r) /\ Possible(r) /\ r.in.op = "createGroup"
      /\ TablesOK' /\ RefsLive' => GrantsInv'
  BY CommitStep DEF CreateGroup
<1>2. /\ r.in \in Input /\ WellFormed(r.in)
      /\ r.in.op # "signIn" => r.in.scopes \subseteq Scope
  BY <1>1 DEF ReqOK, Request
<1>3. TablesOK'
  BY <1>1, <1>2
     DEF CreateGroup, GrantsInv, TypeOK, TablesOK, Input, WellFormed, GroupOps, RoleOps,
         APIOps, Level
<1>4. RefsLive'
  BY <1>1, <1>2, GrantConstants
     DEF CreateGroup, GrantsInv, TypeOK, RefsLive, Live, Possible, Input, WellFormed,
         GroupOps, RoleOps, APIOps
<1> QED
  BY <1>1, <1>3, <1>4

\* Only a live group is mapped.
LEMMA UpdateGroupInv ==
    ASSUME GrantsInv, NEW w \in Worker, UpdateGroup(w)
    PROVE  GrantsInv'
<1> DEFINE r == req[w]
<1>1. /\ ReqOK(r) /\ Possible(r) /\ r.in.op = "updateGroup"
      /\ TablesOK' /\ RefsLive' => GrantsInv'
  BY CommitStep DEF UpdateGroup
<1>2. /\ r.in \in Input /\ WellFormed(r.in)
      /\ r.in.op # "signIn" => r.in.scopes \subseteq Scope
  BY <1>1 DEF ReqOK, Request
<1>3. TablesOK'
  BY <1>1, <1>2
     DEF UpdateGroup, GrantsInv, TypeOK, TablesOK, Input, WellFormed, GroupOps, RoleOps,
         APIOps, Level
<1>4. RefsLive'
  BY <1>1, <1>2, GrantConstants
     DEF UpdateGroup, GrantsInv, TypeOK, RefsLive, Live, Possible, Input, WellFormed,
         GroupOps, RoleOps, APIOps
<1> QED
  BY <1>1, <1>3, <1>4

\* The cascades and ON DELETE SET NULL leave no reference to the group.
LEMMA DeleteGroupInv ==
    ASSUME GrantsInv, NEW w \in Worker, DeleteGroup(w)
    PROVE  GrantsInv'
<1> DEFINE r == req[w]
<1>1. /\ ReqOK(r) /\ Possible(r) /\ r.in.op = "deleteGroup"
      /\ TablesOK' /\ RefsLive' => GrantsInv'
  BY CommitStep DEF DeleteGroup
<1>2. /\ r.in \in Input /\ WellFormed(r.in)
      /\ r.in.op # "signIn" => r.in.scopes \subseteq Scope
  BY <1>1 DEF ReqOK, Request
<1>3. TablesOK'
  BY <1>1, <1>2
     DEF DeleteGroup, GrantsInv, TypeOK, TablesOK, Input, WellFormed, GroupOps, RoleOps,
         APIOps, Level, Unmapped, Mapping
<1>4. RefsLive'
  BY <1>1, <1>2, GrantConstants
     DEF DeleteGroup, GrantsInv, TypeOK, RefsLive, Live, Possible, Input, WellFormed,
         GroupOps, RoleOps, APIOps, Unmapped, Mapping
<1> QED
  BY <1>1, <1>3, <1>4

\* A new role is live.
LEMMA CreateRoleInv ==
    ASSUME GrantsInv, NEW w \in Worker, CreateRole(w)
    PROVE  GrantsInv'
<1> DEFINE r == req[w]
<1>1. /\ ReqOK(r) /\ Possible(r) /\ r.in.op = "createRole"
      /\ TablesOK' /\ RefsLive' => GrantsInv'
  BY CommitStep DEF CreateRole
<1>2. /\ r.in \in Input /\ WellFormed(r.in)
      /\ r.in.op # "signIn" => r.in.scopes \subseteq Scope
  BY <1>1 DEF ReqOK, Request
<1>3. TablesOK'
  BY <1>1, <1>2
     DEF CreateRole, GrantsInv, TypeOK, TablesOK, Input, WellFormed, GroupOps, RoleOps,
         APIOps, Level
<1>4. RefsLive'
  BY <1>1, <1>2, GrantConstants
     DEF CreateRole, GrantsInv, TypeOK, RefsLive, Live, Possible, Input, WellFormed,
         GroupOps, RoleOps, APIOps
<1> QED
  BY <1>1, <1>3, <1>4

\* The cascades leave no reference to the role.
LEMMA DeleteRoleInv ==
    ASSUME GrantsInv, NEW w \in Worker, DeleteRole(w)
    PROVE  GrantsInv'
<1> DEFINE r == req[w]
<1>1. /\ ReqOK(r) /\ Possible(r) /\ r.in.op = "deleteRole"
      /\ TablesOK' /\ RefsLive' => GrantsInv'
  BY CommitStep DEF DeleteRole
<1>2. /\ r.in \in Input /\ WellFormed(r.in)
      /\ r.in.op # "signIn" => r.in.scopes \subseteq Scope
  BY <1>1 DEF ReqOK, Request
<1>3. TablesOK'
  BY <1>1, <1>2
     DEF DeleteRole, GrantsInv, TypeOK, TablesOK, Input, WellFormed, GroupOps, RoleOps,
         APIOps, Level
<1>4. RefsLive'
  BY <1>1, <1>2, GrantConstants
     DEF DeleteRole, GrantsInv, TypeOK, RefsLive, Live, Possible, Input, WellFormed,
         GroupOps, RoleOps, APIOps
<1> QED
  BY <1>1, <1>3, <1>4

\* Only a live role gets a permission, and a valid one.
LEMMA AddRolePermissionInv ==
    ASSUME GrantsInv, NEW w \in Worker, AddRolePermission(w)
    PROVE  GrantsInv'
<1> DEFINE r == req[w]
<1>1. /\ ReqOK(r) /\ Possible(r) /\ r.in.op = "addPermission"
      /\ TablesOK' /\ RefsLive' => GrantsInv'
  BY CommitStep DEF AddRolePermission
<1>2. /\ r.in \in Input /\ WellFormed(r.in)
      /\ r.in.op # "signIn" => r.in.scopes \subseteq Scope
  BY <1>1 DEF ReqOK, Request
<1>3. TablesOK'
  BY <1>1, <1>2
     DEF AddRolePermission, GrantsInv, TypeOK, TablesOK, Input, WellFormed, GroupOps, RoleOps,
         APIOps, Level
<1>4. RefsLive'
  BY <1>1, <1>2, GrantConstants
     DEF AddRolePermission, GrantsInv, TypeOK, RefsLive, Live, Possible, Input, WellFormed,
         GroupOps, RoleOps, APIOps
<1> QED
  BY <1>1, <1>3, <1>4

\* Only a live role gets permissions, and valid ones.
LEMMA ReplaceRolePermissionsInv ==
    ASSUME GrantsInv, NEW w \in Worker, ReplaceRolePermissions(w)
    PROVE  GrantsInv'
<1> DEFINE r == req[w]
<1>1. /\ ReqOK(r) /\ Possible(r) /\ r.in.op = "replacePermissions"
      /\ TablesOK' /\ RefsLive' => GrantsInv'
  BY CommitStep DEF ReplaceRolePermissions
<1>2. /\ r.in \in Input /\ WellFormed(r.in)
      /\ r.in.op # "signIn" => r.in.scopes \subseteq Scope
  BY <1>1 DEF ReqOK, Request
<1>3. TablesOK'
  BY <1>1, <1>2
     DEF ReplaceRolePermissions, GrantsInv, TypeOK, TablesOK, Input, WellFormed, GroupOps, RoleOps,
         APIOps, Level
<1>4. RefsLive'
  BY <1>1, <1>2, GrantConstants
     DEF ReplaceRolePermissions, GrantsInv, TypeOK, RefsLive, Live, Possible, Input, WellFormed,
         GroupOps, RoleOps, APIOps
<1> QED
  BY <1>1, <1>3, <1>4

\* A permission less refers to nothing.
LEMMA DeletePermissionInv ==
    ASSUME GrantsInv, NEW w \in Worker, DeletePermission(w)
    PROVE  GrantsInv'
<1> DEFINE r == req[w]
<1>1. /\ ReqOK(r) /\ Possible(r) /\ r.in.op = "deletePermission"
      /\ TablesOK' /\ RefsLive' => GrantsInv'
  BY CommitStep DEF DeletePermission
<1>2. /\ r.in \in Input /\ WellFormed(r.in)
      /\ r.in.op # "signIn" => r.in.scopes \subseteq Scope
  BY <1>1 DEF ReqOK, Request
<1>3. TablesOK'
  BY <1>1, <1>2
     DEF DeletePermission, GrantsInv, TypeOK, TablesOK, Input, WellFormed, GroupOps, RoleOps,
         APIOps, Level
<1>4. RefsLive'
  BY <1>1, <1>2, GrantConstants
     DEF DeletePermission, GrantsInv, TypeOK, RefsLive, Live, Possible, Input, WellFormed,
         GroupOps, RoleOps, APIOps
<1> QED
  BY <1>1, <1>3, <1>4

\* A new API is live, and so is its owner.
LEMMA CreateAPIInv ==
    ASSUME GrantsInv, NEW w \in Worker, CreateAPI(w)
    PROVE  GrantsInv'
<1> DEFINE r == req[w]
<1>1. /\ ReqOK(r) /\ Possible(r) /\ r.in.op = "createAPI"
      /\ TablesOK' /\ RefsLive' => GrantsInv'
  BY CommitStep DEF CreateAPI
<1>2. /\ r.in \in Input /\ WellFormed(r.in)
      /\ r.in.op # "signIn" => r.in.scopes \subseteq Scope
  BY <1>1 DEF ReqOK, Request
<1>3. TablesOK'
  BY <1>1, <1>2
     DEF CreateAPI, GrantsInv, TypeOK, TablesOK, Input, WellFormed, GroupOps, RoleOps,
         APIOps, Level
<1>4. RefsLive'
  BY <1>1, <1>2, GrantConstants
     DEF CreateAPI, GrantsInv, TypeOK, RefsLive, Live, Possible, Input, WellFormed,
         GroupOps, RoleOps, APIOps
<1> QED
  BY <1>1, <1>3, <1>4

\* API and owner are live.
LEMMA UpdateAPIInv ==
    ASSUME GrantsInv, NEW w \in Worker, UpdateAPI(w)
    PROVE  GrantsInv'
<1> DEFINE r == req[w]
<1>1. /\ ReqOK(r) /\ Possible(r) /\ r.in.op = "updateAPI"
      /\ TablesOK' /\ RefsLive' => GrantsInv'
  BY CommitStep DEF UpdateAPI
<1>2. /\ r.in \in Input /\ WellFormed(r.in)
      /\ r.in.op # "signIn" => r.in.scopes \subseteq Scope
  BY <1>1 DEF ReqOK, Request
<1>3. TablesOK'
  BY <1>1, <1>2
     DEF UpdateAPI, GrantsInv, TypeOK, TablesOK, Input, WellFormed, GroupOps, RoleOps,
         APIOps, Level
<1>4. RefsLive'
  BY <1>1, <1>2, GrantConstants
     DEF UpdateAPI, GrantsInv, TypeOK, RefsLive, Live, Possible, Input, WellFormed,
         GroupOps, RoleOps, APIOps
<1> QED
  BY <1>1, <1>3, <1>4

\* The cascades leave no owner or access level of the API.
LEMMA DeleteAPIInv ==
    ASSUME GrantsInv, NEW w \in Worker, DeleteAPI(w)
    PROVE  GrantsInv'
<1> DEFINE r == req[w]
<1>1. /\ ReqOK(r) /\ Possible(r) /\ r.in.op = "deleteAPI"
      /\ TablesOK' /\ RefsLive' => GrantsInv'
  BY CommitStep DEF DeleteAPI
<1>2. /\ r.in \in Input /\ WellFormed(r.in)
      /\ r.in.op # "signIn" => r.in.scopes \subseteq Scope
  BY <1>1 DEF ReqOK, Request
<1>3. TablesOK'
  BY <1>1, <1>2
     DEF DeleteAPI, GrantsInv, TypeOK, TablesOK, Input, WellFormed, GroupOps, RoleOps,
         APIOps, Level, NoAccess
<1>4. RefsLive'
  BY <1>1, <1>2, GrantConstants
     DEF DeleteAPI, GrantsInv, TypeOK, RefsLive, Live, Possible, Input, WellFormed,
         GroupOps, RoleOps, APIOps, NoAccess
<1> QED
  BY <1>1, <1>3, <1>4

\* Access levels are those of live groups to a live API.
LEMMA SetAPIAccessInv ==
    ASSUME GrantsInv, NEW w \in Worker, SetAPIAccess(w)
    PROVE  GrantsInv'
<1> DEFINE r == req[w]
<1>1. /\ ReqOK(r) /\ Possible(r) /\ r.in.op = "setAccess"
      /\ TablesOK' /\ RefsLive' => GrantsInv'
  BY CommitStep DEF SetAPIAccess
<1>2. /\ r.in \in Input /\ WellFormed(r.in)
      /\ r.in.op # "signIn" => r.in.scopes \subseteq Scope
  BY <1>1 DEF ReqOK, Request
<1>3. TablesOK'
  BY <1>1, <1>2
     DEF SetAPIAccess, GrantsInv, TypeOK, TablesOK, Input, WellFormed, GroupOps, RoleOps,
         APIOps, Level
<1>4. RefsLive'
  BY <1>1, <1>2, GrantConstants
     DEF SetAPIAccess, GrantsInv, TypeOK, RefsLive, Live, Possible, Input, WellFormed,
         GroupOps, RoleOps, APIOps
<1> QED
  BY <1>1, <1>3, <1>4

\* An import that goes on knows what it was allowed: the groups that are left confer what
\* they did.
LEMMA ImportIntoGroupInv ==
    ASSUME GrantsInv, NEW w \in Worker, ImportIntoGroup(w)
    PROVE  GrantsInv'
<1> DEFINE r == req[w]
<1>1. /\ ReqOK(r) /\ r.in.op = "import" /\ r.pc = "write"
      /\ r.fresh => Knows(r, DB)
  BY DEF ImportIntoGroup, Writing, GrantsInv, ReqInv, FreshInv
<1>2. PICK g \in r.in.ids \cap Group :
         /\ Live(g)
         /\ memberOf' = [u \in User |-> memberOf[u] \cup
               IF /\ u \in r.in.ids /\ Source[u] = "ldap"
                  /\ u \notin Admin \/ r.actor \in Admin
               THEN {g} ELSE {}]
         /\ Wrote(w, IF r.in.ids \cap Group = {g} THEN None
                     ELSE [r EXCEPT !.in.ids = @ \ {g}])
  BY DEF ImportIntoGroup
<1>3. UNCHANGED <<row, groupRoles, rolePerms, owner, access, mapping>>
  BY DEF ImportIntoGroup
<1> DEFINE q == [r EXCEPT !.in.ids = @ \ {g}]
<1>4. /\ ReqOK(q)
      /\ q.in.op = "import" /\ q.in.ids = r.in.ids \ {g} /\ q.pc = "write"
      /\ q.fresh = r.fresh /\ q.actor = r.actor /\ q.perms = r.perms
  BY <1>1 DEF ReqOK, Request, Input, WellFormed, UserOps, GroupOps, RoleOps, APIOps
<1>5. q.fresh => Knows(q, DB')
  <2> HIDE DEF q
  <2>1. \A h, s : Confers(h, s, DB') <=> Confers(h, s, DB)
    BY <1>3 DEF Confers, DB
  <2>2. \A s : Gives(q, s, DB') => Gives(r, s, DB)
    BY <1>1, <1>4, <2>1 DEF Gives
  <2> QED
    BY <1>1, <1>4, <2>2 DEF Knows, Checked
<1>6. TablesOK'
  BY <1>2, <1>3 DEF GrantsInv, TypeOK, TablesOK
<1>7. RefsLive'
  BY <1>2, <1>3 DEF GrantsInv, TypeOK, RefsLive, Live
<1> HIDE DEF q
<1>8. CASE r.in.ids \cap Group = {g}
  BY <1>2, <1>6, <1>7, <1>8, WriteStep
<1>9. CASE r.in.ids \cap Group # {g}
  <2>1. Wrote(w, q)
    BY <1>2, <1>9 DEF q
  <2> QED
    BY <1>4, <1>5, <1>6, <1>7, <2>1, WriteStep
<1> QED
  BY <1>8, <1>9

\* Every write keeps the invariant.
LEMMA WriteInv ==
    ASSUME GrantsInv, NEW w \in Worker, Write(w)
    PROVE  GrantsInv'
BY SetUserGroupsInv, AddGroupMembersInv, RemoveGroupMemberInv, ImportIntoGroupInv,
   SyncDirectoryGroupsInv, SetGroupRolesInv, CreateGroupInv, UpdateGroupInv, DeleteGroupInv,
   CreateRoleInv, DeleteRoleInv, AddRolePermissionInv, ReplaceRolePermissionsInv,
   DeletePermissionInv, CreateAPIInv, UpdateAPIInv, DeleteAPIInv, SetAPIAccessInv
   DEF Write

\* Every step keeps the invariant.
LEMMA StepInv == GrantsInv /\ [Next]_vars => GrantsInv'
<1> SUFFICES ASSUME GrantsInv, [Next]_vars PROVE GrantsInv'
  OBVIOUS
<1>1. CASE UNCHANGED vars
  <2>1. DB' = DB /\ req' = req
    BY <1>1 DEF DB, vars
  <2> QED
    BY <1>1, <2>1 DEF vars, GrantsInv, TypeOK, ReqInv, ReqOK, RefsLive, Live, FreshInv
<1>2. ASSUME NEW w \in Worker, NEW u \in User, NEW in \in Sent, Arrive(w, u, in)
      PROVE  GrantsInv'
  BY <1>2, ArriveInv
<1>3. ASSUME NEW w \in Worker, NEW u \in User, NEW M \in SUBSET Directory, NEW in \in Sent,
             SignIn(w, u, M, in)
      PROVE  GrantsInv'
  BY <1>3, SignInInv
<1>4. ASSUME NEW w \in Worker, ReadCurrent(w) \/ CheckGrant(w) \/ WriteFails(w) \/ Write(w)
      PROVE  GrantsInv'
  BY <1>4, ReadCurrentInv, CheckGrantInv, WriteFailsInv, WriteInv
<1> QED
  BY <1>1, <1>2, <1>3, <1>4 DEF Next

\* The inductive invariant holds throughout.
LEMMA Invariance == Spec => []GrantsInv
BY InitInv, StepInv, PTL DEF Spec

\* Whatever requests interleave, the tables and the requests keep their types; roles hold
\* only scopes of the catalogue, retired names replaced.
THEOREM TypeCorrect == Spec => []TypeOK
<1>1. GrantsInv => TypeOK
  BY DEF GrantsInv
<1> QED
  BY <1>1, Invariance, PTL

\* Whatever requests interleave, and however stale what they read, no membership, role,
\* permission, ownership, access level or directory mapping refers to a row that is not
\* there.
THEOREM ReferencesLive == Spec => []RefsLive
<1>1. GrantsInv => RefsLive
  BY DEF GrantsInv
<1> QED
  BY <1>1, Invariance, PTL

-----------------------------------------------------------------------------
(* Delegation *)

\* The step gives no member of a group a scope that neither they nor the holder of P have,
\* and maps no group whose scopes go beyond P.
Within(P) ==
    /\ \A u \in User : \A g \in memberOf'[u], s \in Scope :
          Confers(g, s, DB') => Has(P, s) \/ \E h \in memberOf[u] : Confers(h, s, DB)
    /\ \A g \in Group : mapping'[g] # mapping[g] /\ Live(g)' =>
          \A s \in Scope : Confers(g, s, DB') => Has(P, s)

\* A step that changes no table but the memberships gives what the groups joined confer.
LEMMA Joins ==
    ASSUME NEW P, UNCHANGED <<row, groupRoles, rolePerms, owner, access, mapping>>,
           \A u \in User : \A g \in memberOf'[u] \ memberOf[u], s \in Scope :
              Confers(g, s, DB) => Has(P, s)
    PROVE  Within(P)
<1>1. \A g, s : Confers(g, s, DB') <=> Confers(g, s, DB)
  BY DEF Confers, DB
<1> QED
  BY <1>1 DEF Within

\* A step that changes neither memberships nor mappings gives what the groups newly confer.
LEMMA Gains ==
    ASSUME NEW P, UNCHANGED <<memberOf, mapping>>, GrantsInv,
           \A g \in Group, s \in Scope : Confers(g, s, DB') => Confers(g, s, DB) \/ Has(P, s)
    PROVE  Within(P)
BY DEF Within, GrantsInv, TypeOK

\* A step that takes away memberships, and what groups confer, gives nothing.
LEMMA Takes ==
    ASSUME NEW P, GrantsInv,
           \A u \in User : memberOf'[u] \subseteq memberOf[u],
           \A g \in Group, s \in Scope : Confers(g, s, DB') => Confers(g, s, DB),
           \A g \in Group : mapping'[g] = mapping[g] \/ ~Live(g)'
    PROVE  Within(P)
BY DEF Within, GrantsInv, TypeOK

\* What a request that writes knows about its own grant.
LEMMA KnowsGrant ==
    ASSUME GrantsInv, NEW w \in Worker, req[w] # None, req[w].fresh, req[w].pc = "write",
           req[w].actor \notin Admin, req[w].in.op \in Checked
    PROVE  \A s \in Scope : Gives(req[w], s, DB) => Has(req[w].perms, s)
BY DEF GrantsInv, FreshInv, Knows

\* The write of a manager who is no administrator, in a request nobody wrote during, stays
\* within the manager's scopes.
LEMMA WriteDelegates ==
    ASSUME GrantsInv, NEW w \in Worker, Write(w), req[w].fresh, req[w].actor \notin Admin,
           req[w].in.op # "signIn"
    PROVE  Within(req[w].perms)
<1> DEFINE r == req[w]
           P == r.perms
<1>1. ReqOK(r) /\ r # None /\ r.pc = "write" /\ Knows(r, DB) /\ r.in.op # "signIn"
         /\ r.in \in Input /\ WellFormed(r.in) /\ r.in.scopes \subseteq Scope
         /\ r.actor \notin Admin
  <2>1. r # None /\ r.pc = "write"
    BY DEF Write, Commit, Writing, SetUserGroups, AddGroupMembers, RemoveGroupMember,
           ImportIntoGroup, SyncDirectoryGroups, SetGroupRoles, CreateGroup, UpdateGroup,
           DeleteGroup, CreateRole, DeleteRole, AddRolePermission, ReplaceRolePermissions,
           DeletePermission, CreateAPI, UpdateAPI, DeleteAPI, SetAPIAccess
  <2> QED
    BY <2>1 DEF GrantsInv, ReqInv, ReqOK, Request, FreshInv
<1>2. r.in.op \in Checked => \A s \in Scope : Gives(r, s, DB) => Has(P, s)
  BY <1>1, KnowsGrant
<1>3. CASE SetUserGroups(w)
  <2>1. r.in.op = "setUserGroups" /\ r.in.target \in User
           /\ r.seen = memberOf[r.in.target]
           /\ memberOf' = [memberOf EXCEPT ![r.in.target] = r.in.ids]
           /\ UNCHANGED <<row, groupRoles, rolePerms, owner, access, mapping>>
    BY <1>1, <1>3 DEF SetUserGroups, Commit, Writing, WellFormed, Knows, DB
  <2>2. \A u \in User : \A g \in memberOf'[u] \ memberOf[u], s \in Scope :
           Confers(g, s, DB) => Has(P, s)
    BY <1>2, <2>1 DEF Checked, Gives, GrantsInv, TypeOK
  <2> QED
    BY <2>1, <2>2, Joins
<1>4. CASE AddGroupMembers(w)
  <2>1. r.in.op = "addMembers"
           /\ memberOf' = [u \in User |-> memberOf[u] \cup
                              (IF u \in r.in.ids THEN {r.in.target} ELSE {})]
           /\ UNCHANGED <<row, groupRoles, rolePerms, owner, access, mapping>>
    BY <1>4 DEF AddGroupMembers, Commit, Writing
  <2>2. \A u \in User : \A g \in memberOf'[u] \ memberOf[u], s \in Scope :
           Confers(g, s, DB) => Has(P, s)
    BY <1>2, <2>1 DEF Checked, Gives
  <2> QED
    BY <2>1, <2>2, Joins
<1>5. CASE RemoveGroupMember(w)
  BY <1>5, Joins DEF RemoveGroupMember
<1>6. CASE ImportIntoGroup(w)
  <2>1. r.in.op = "import"
           /\ UNCHANGED <<row, groupRoles, rolePerms, owner, access, mapping>>
    BY <1>6 DEF ImportIntoGroup, Writing
  <2>2. \A u \in User : \A g \in memberOf'[u] \ memberOf[u] : g \in r.in.ids \cap Group
    BY <1>6 DEF ImportIntoGroup
  <2>3. \A u \in User : \A g \in memberOf'[u] \ memberOf[u], s \in Scope :
           Confers(g, s, DB) => Has(P, s)
    BY <1>2, <2>1, <2>2 DEF Checked, Gives
  <2> QED
    BY <2>1, <2>3, Joins
<1>7. CASE SyncDirectoryGroups(w)
  BY <1>1, <1>7 DEF SyncDirectoryGroups, Commit, Writing
<1>8. CASE SetGroupRoles(w)
  <2>1. r.in.op = "setGroupRoles" /\ r.in.target \in Group
           /\ r.seen = groupRoles[r.in.target]
           /\ groupRoles' = [groupRoles EXCEPT ![r.in.target] = r.in.ids]
           /\ UNCHANGED <<row, memberOf, rolePerms, owner, access, mapping>>
    BY <1>1, <1>8 DEF SetGroupRoles, Commit, Writing, WellFormed, Knows, DB, GroupOps
  <2>2. \A g \in Group, s \in Scope : Confers(g, s, DB') => Confers(g, s, DB) \/ Has(P, s)
    BY <1>2, <2>1 DEF Checked, Gives, Confers, DB, GrantsInv, TypeOK
  <2> QED
    BY <2>1, <2>2, Gains
<1>9. CASE CreateGroup(w)
  <2>1. r.in.target \in Group /\ row[r.in.target] = "unused"
           /\ mapping' = [mapping EXCEPT ![r.in.target] = r.in.maps]
           /\ UNCHANGED <<memberOf, groupRoles, rolePerms, owner, access>>
    BY <1>1, <1>9 DEF CreateGroup, Commit, Writing, WellFormed, GroupOps, Possible
  <2>2. \A g, s : Confers(g, s, DB') <=> Confers(g, s, DB)
    BY <2>1 DEF Confers, DB
  <2>3. \A s : ~Confers(r.in.target, s, DB)
    BY <2>1, GrantConstants DEF Confers, DB, GrantsInv, RefsLive, Live, TypeOK
  <2> QED
    BY <2>1, <2>2, <2>3 DEF Within, GrantsInv, TypeOK
<1>10. CASE UpdateGroup(w)
  <2>1. r.in.op = "updateGroup" /\ r.in.target \in Group
           /\ r.seenMaps = mapping[r.in.target]
           /\ mapping' = [mapping EXCEPT ![r.in.target] = r.in.maps]
           /\ UNCHANGED <<row, memberOf, groupRoles, rolePerms, owner, access>>
    BY <1>1, <1>10 DEF UpdateGroup, Commit, Writing, WellFormed, Knows, DB, GroupOps
  <2>2. \A g, s : Confers(g, s, DB') <=> Confers(g, s, DB)
    BY <2>1 DEF Confers, DB
  <2>3. r.in.maps # mapping[r.in.target] =>
           \A s \in Scope : Confers(r.in.target, s, DB) => Has(P, s)
    BY <1>2, <2>1 DEF Checked, Gives
  <2> QED
    BY <2>1, <2>2, <2>3 DEF Within, GrantsInv, TypeOK
<1>11. CASE DeleteGroup(w)
  <2>1. r.in.target \in Group
    BY <1>1, <1>11 DEF DeleteGroup, Commit, Writing, WellFormed, GroupOps
  <2>2. \A u \in User : memberOf'[u] \subseteq memberOf[u]
    BY <1>11 DEF DeleteGroup
  <2>3. \A g \in Group, s \in Scope : Confers(g, s, DB') => Confers(g, s, DB)
    BY <1>11, <2>1, GrantConstants DEF DeleteGroup, Confers, DB, GrantsInv, TypeOK
  <2>4. \A g \in Group : mapping'[g] = mapping[g] \/ ~Live(g)'
    BY <1>11, <2>1 DEF DeleteGroup, Live, GrantsInv, TypeOK
  <2> QED
    BY <2>2, <2>3, <2>4, Takes
<1>12. CASE CreateRole(w)
  <2>1. UNCHANGED <<memberOf, groupRoles, rolePerms, owner, access, mapping>>
    BY <1>12 DEF CreateRole
  <2>2. \A g, s : Confers(g, s, DB') <=> Confers(g, s, DB)
    BY <2>1 DEF Confers, DB
  <2> QED
    BY <2>1, <2>2, Gains
<1>13. CASE DeleteRole(w)
  <2>1. \A g \in Group, s \in Scope : Confers(g, s, DB') => Confers(g, s, DB)
    BY <1>13 DEF DeleteRole, Confers, DB, GrantsInv, TypeOK
  <2> QED
    BY <1>13, <2>1, Gains DEF DeleteRole
<1>14. CASE AddRolePermission(w)
  <2>1. r.in.op = "addPermission"
           /\ rolePerms' = [rolePerms EXCEPT ![r.in.target] = @ \cup r.in.scopes]
           /\ UNCHANGED <<row, memberOf, groupRoles, owner, access, mapping>>
    BY <1>14 DEF AddRolePermission, Commit, Writing
  <2>2. \A g \in Group, s \in Scope : Confers(g, s, DB') => Confers(g, s, DB) \/ Has(P, s)
    BY <1>2, <2>1 DEF Checked, Gives, Confers, DB, GrantsInv, TypeOK
  <2> QED
    BY <2>1, <2>2, Gains
<1>15. CASE ReplaceRolePermissions(w)
  <2>1. r.in.op = "replacePermissions"
           /\ rolePerms' = [rolePerms EXCEPT ![r.in.target] = r.in.scopes]
           /\ UNCHANGED <<row, memberOf, groupRoles, owner, access, mapping>>
    BY <1>15 DEF ReplaceRolePermissions, Commit, Writing
  <2>2. \A g \in Group, s \in Scope : Confers(g, s, DB') => Confers(g, s, DB) \/ Has(P, s)
    BY <1>2, <2>1 DEF Checked, Gives, Confers, DB, GrantsInv, TypeOK
  <2> QED
    BY <2>1, <2>2, Gains
<1>16. CASE DeletePermission(w)
  <2>1. \A g \in Group, s \in Scope : Confers(g, s, DB') => Confers(g, s, DB)
    BY <1>16 DEF DeletePermission, Confers, DB, GrantsInv, TypeOK
  <2> QED
    BY <1>16, <2>1, Gains DEF DeletePermission
<1>17. CASE CreateAPI(w)
  <2>1. r.in.op = "createAPI" /\ r.in.target \in Api
           /\ owner' = [owner EXCEPT ![r.in.target] = r.in.owner]
           /\ UNCHANGED <<memberOf, groupRoles, rolePerms, access, mapping>>
    BY <1>1, <1>17 DEF CreateAPI, Commit, Writing, WellFormed, APIOps
  <2>2. r.in.owner # None => Has(P, APIScope(r.in.target, "manage"))
    BY <1>1, <2>1, RbacConstants
       DEF Knows, Has, CanManageAPI, ManagesAllAPIs, APIScope
  <2>3. \A g \in Group, s \in Scope : Confers(g, s, DB') => Confers(g, s, DB) \/ Has(P, s)
    BY <2>1, <2>2, GrantConstants DEF Confers, DB, GrantsInv, TypeOK
  <2> QED
    BY <2>1, <2>3, Gains
<1>18. CASE UpdateAPI(w)
  <2>1. r.in.op = "updateAPI" /\ r.in.target \in Api
           /\ owner' = [owner EXCEPT ![r.in.target] = r.in.owner]
           /\ UNCHANGED <<memberOf, groupRoles, rolePerms, access, mapping>>
    BY <1>1, <1>18 DEF UpdateAPI, Commit, Writing, WellFormed, APIOps
  <2>2. owner[r.in.target] # r.in.owner => Has(P, APIScope(r.in.target, "manage"))
    BY <1>1, <2>1, RbacConstants
       DEF Knows, DB, Has, CanManageAPI, ManagesAllAPIs, APIScope
  <2>3. \A g \in Group, s \in Scope : Confers(g, s, DB') => Confers(g, s, DB) \/ Has(P, s)
    BY <2>1, <2>2 DEF Confers, DB, GrantsInv, TypeOK
  <2> QED
    BY <2>1, <2>3, Gains
<1>19. CASE DeleteAPI(w)
  <2>1. r.in.target \in Api
    BY <1>1, <1>19 DEF DeleteAPI, Commit, Writing, WellFormed, APIOps
  <2>2. \A g \in Group, s \in Scope : Confers(g, s, DB') => Confers(g, s, DB)
    BY <1>19, <2>1, GrantConstants DEF DeleteAPI, Confers, DB, NoAccess, GrantsInv, TypeOK
  <2> QED
    BY <1>19, <2>2, Gains DEF DeleteAPI
<1>20. CASE SetAPIAccess(w)
  <2>1. r.in.op = "setAccess" /\ r.in.target \in Api
           /\ access' = [access EXCEPT ![r.in.target] = r.in.levels]
           /\ UNCHANGED <<row, memberOf, groupRoles, rolePerms, owner, mapping>>
    BY <1>1, <1>20 DEF SetAPIAccess, Commit, Writing, WellFormed, APIOps
  <2>2. \A l \in {"view", "invoke"} : Has(P, APIScope(r.in.target, l))
    BY <1>1, <2>1, RbacConstants DEF Knows, Has, CanViewAPI, CanInvokeAPI, APIScope
  <2>3. \A g \in Group, s \in Scope : Confers(g, s, DB') => Confers(g, s, DB) \/ Has(P, s)
    BY <2>1, <2>2 DEF Confers, DB, GrantsInv, TypeOK
  <2> QED
    BY <2>1, <2>3, Gains
<1> QED
  BY <1>3, <1>4, <1>5, <1>6, <1>7, <1>8, <1>9, <1>10, <1>11, <1>12, <1>13, <1>14, <1>15, <1>16,
     <1>17, <1>18, <1>19, <1>20 DEF Write

\* A step that is a write of w is a write by w: it makes all other requests stale.
LEMMA WriterIs ==
    ASSUME GrantsInv, [Next]_vars, NEW w \in Worker, req[w] # None, Writes(w)
    PROVE  Write(w)
<1>1. PICK v \in Worker : Write(v)
  BY DEF Next, Writes, vars, Arrive, SignIn, ReadCurrent, CheckGrant, WriteFails
<1>2. \E r : Wrote(v, r)
  BY <1>1 DEF Write, Commit, SetUserGroups, AddGroupMembers, RemoveGroupMember,
     ImportIntoGroup, SyncDirectoryGroups, SetGroupRoles, CreateGroup, UpdateGroup,
     DeleteGroup, CreateRole, DeleteRole, AddRolePermission, ReplaceRolePermissions,
     DeletePermission, CreateAPI, UpdateAPI, DeleteAPI, SetAPIAccess
<1>3. ASSUME v # w PROVE FALSE
  <2>1. req[w] \in Request /\ req'[w] = [req[w] EXCEPT !.fresh = FALSE]
    BY <1>2, <1>3 DEF Wrote, GrantsInv, ReqInv, ReqOK
  <2>2. req'[w] \in Request /\ req'[w].fresh = FALSE
    BY <2>1 DEF Request
  <2> QED
    BY <2>2, NoneIsNoRequest DEF Writes
<1> QED
  BY <1>1, <1>3

\* Whatever managers do, in any order and with any number of requests in flight, a request
\* that nobody wrote during hands out no right beyond those of the manager who sent it: not
\* directly, not through the roles of a group, the ownership of an API or its access list,
\* and not by mapping a group to a directory group.
THEOREM NoEscalationHolds == Spec => NoEscalation
<1>1. ASSUME GrantsInv, GrantsInv', [Next]_vars
      PROVE  \A w \in Worker :
               (/\ req[w] # None /\ req[w].fresh /\ Writes(w)
                /\ req[w].in.op # "signIn" /\ req[w].actor \notin Admin) =>
                  /\ \A u \in User, s \in Scope :
                        Has(ResolvePermissions(u)', s) =>
                           Has(ResolvePermissions(u), s) \/ Has(req[w].perms, s)
                  /\ \A g \in Group :
                        mapping'[g] # mapping[g] /\ Live(g)' =>
                           \A s \in GroupScopes({g})' : Has(req[w].perms, s)
  <2> SUFFICES ASSUME NEW w \in Worker, req[w] # None, req[w].fresh, Writes(w),
                      req[w].in.op # "signIn", req[w].actor \notin Admin
               PROVE  /\ \A u \in User, s \in Scope :
                            Has(ResolvePermissions(u)', s) =>
                               Has(ResolvePermissions(u), s) \/ Has(req[w].perms, s)
                      /\ \A g \in Group :
                            mapping'[g] # mapping[g] /\ Live(g)' =>
                               \A s \in GroupScopes({g})' : Has(req[w].perms, s)
    OBVIOUS
  <2>1. Within(req[w].perms)
    BY <1>1, WriterIs, WriteDelegates
  <2>2. \A g \in Group : \A s : Confers(g, s, DB') => s \in Scope
    BY <1>1 DEF GrantsInv, TypeOK, Confers, DB, Scope, APIScope, APIActions
  <2>3. ASSUME NEW u \in User, NEW s \in Scope, Has(ResolvePermissions(u)', s)
        PROVE  Has(ResolvePermissions(u), s) \/ Has(req[w].perms, s)
    <3> DEFINE N == ResolvePermissions(u)'
    <3>1. \A q \in N : q \in ResolvePermissions(u) \/ Has(req[w].perms, q)
      <4> SUFFICES ASSUME NEW q \in N PROVE q \in ResolvePermissions(u) \/ Has(req[w].perms, q)
        OBVIOUS
      <4>1. PICK g \in memberOf'[u] : Confers(g, q, DB')
        BY PermissionsNext
      <4>2. g \in Group
        BY <1>1, <4>1 DEF GrantsInv, TypeOK
      <4>3. q \in Scope
        BY <2>2, <4>1, <4>2
      <4> QED
        BY <2>1, <4>1, <4>3, GroupScopesAre DEF Within, ResolvePermissions
    <3>2. N \in SUBSET Scope
      BY <1>1, <2>2, PermissionsNext DEF GrantsInv, TypeOK
    <3> HIDE DEF N
    <3>3. Has(N, s)
      BY <2>3 DEF N
    <3> QED
      BY <3>1, <3>2, <3>3, NothingGained
  <2>4. ASSUME NEW g \in Group, mapping'[g] # mapping[g], Live(g)',
               NEW s \in GroupScopes({g})'
        PROVE  Has(req[w].perms, s)
    <3>1. Confers(g, s, DB')
      BY <2>4, GroupScopesAreNext
    <3> QED
      BY <2>1, <2>2, <2>4, <3>1 DEF Within
  <2> QED
    BY <2>3, <2>4
<1> QED
  BY <1>1, Invariance, PTL DEF Spec, NoEscalation

\* A directory sign-in that nobody wrote during leaves the user in the mapped groups of
\* which the directory says they are a member and in no other mapped one, whatever groups
\* and mappings there are.
THEOREM SyncMirrorsHolds == Spec => SyncMirrors
<1>1. ASSUME GrantsInv, [Next]_vars
      PROVE  \A w \in Worker :
               (req[w] # None /\ req[w].in.op = "signIn" /\ req[w].fresh /\ Writes(w)) =>
                  LET u == req[w].in.target
                      mapped == {g \in Group : mapping[g][Source[u]] # None}
                  IN  /\ memberOf'[u] \cap mapped = req[w].in.ids
                      /\ memberOf'[u] \ mapped = memberOf[u] \ mapped
  <2> SUFFICES ASSUME NEW w \in Worker, req[w] # None, req[w].in.op = "signIn",
                      req[w].fresh, Writes(w)
               PROVE  LET u == req[w].in.target
                          mapped == {g \in Group : mapping[g][Source[u]] # None}
                      IN  /\ memberOf'[u] \cap mapped = req[w].in.ids
                          /\ memberOf'[u] \ mapped = memberOf[u] \ mapped
    OBVIOUS
  <2> DEFINE r == req[w]
             u == r.in.target
             mapped == {g \in Group : mapping[g][Source[u]] # None}
  <2>1. Write(w)
    BY <1>1, WriterIs
  <2>2. SyncDirectoryGroups(w)
    BY <2>1 DEF Write, Commit, Writing, SetUserGroups, AddGroupMembers, RemoveGroupMember,
       ImportIntoGroup, SetGroupRoles, CreateGroup, UpdateGroup,
       DeleteGroup, CreateRole, DeleteRole, AddRolePermission, ReplaceRolePermissions,
       DeletePermission, CreateAPI, UpdateAPI, DeleteAPI, SetAPIAccess
  <2>3. /\ u \in User /\ r.seen = memberOf[u] /\ r.in.ids \subseteq r.listed
        /\ Source[u] # "local"
        /\ r.listed = {g \in Group : Live(g) /\ mapping[g][Source[u]] # None}
    BY <1>1, <2>2 DEF GrantsInv, ReqInv, ReqOK, WellFormed, FreshInv, Knows, DB, Live,
       SyncDirectoryGroups, Commit, Writing
  <2>4. r.listed = mapped
    <3>1. \A g \in mapped : mapping[g] # Unmapped
      BY <2>3, GrantConstants DEF Unmapped
    <3> QED
      BY <1>1, <2>3, <3>1 DEF GrantsInv, RefsLive
  <2>5. memberOf'[u] = (memberOf[u] \cup (r.in.ids \ r.seen)) \ ((r.listed \ r.in.ids) \cap r.seen)
    BY <1>1, <2>2, <2>3 DEF SyncDirectoryGroups, GrantsInv, TypeOK
  <2> QED
    BY <2>3, <2>4, <2>5
<1> QED
  BY <1>1, Invariance, PTL DEF Spec, SyncMirrors

=============================================================================
