---------------------------- MODULE SerialProofs ----------------------------
(***************************************************************************)
(* What the account handlers promise when requests do not overlap: an      *)
(* active administrator always remains, the rules of account management    *)
(* hold, and losing rights or the password ends the sessions.  (With       *)
(* requests that overlap they do not: see the run that shows the race.)    *)
(* For any number of users and sessions and any list of ids, one that      *)
(* repeats an id included.                                                 *)
(***************************************************************************)
EXTENDS AccountsProofs

\* At most one request is in flight.
Alone == \A v, w \in Worker : v = w

AdminsIn(us) == {u \in User : us[u].status = "live" /\ us[u].admin /\ us[u].active}

\* The active administrators among the ids read so far that the request would remove.
Lost(r, us) ==
    {u \in AdminsIn(us) : Leaves(r, us[u]) /\ \E i \in 1..r.next : r.targets[i] = u}

Relevant(r) ==
    /\ r.op \in {"update", "delete", "bulk"}
    /\ r.pc \in {"lookup", "touch", "handle", "count", "write"}

\* leaving counts at least the administrators that would go, and a request only gets
\* to its write when they are none or fewer than all.
Counted(r, us) ==
    Relevant(r) =>
        /\ Cardinality(Lost(r, us)) <= r.leaving
        /\ r.pc = "write" => r.leaving = 0 \/ Cardinality(AdminsIn(us)) - r.leaving >= 1

\* An active administrator remains, and what requests counted is right.
AdminInv ==
    /\ AdminsIn(users) # {}
    /\ \A w \in Worker : Counted(req[w], users)

-----------------------------------------------------------------------------
(* Counting *)

\* The sets counted are finite.
LEMMA Finite ==
    ASSUME NEW r, NEW us
    PROVE  /\ IsFiniteSet(AdminsIn(us)) /\ Cardinality(AdminsIn(us)) \in Nat
           /\ IsFiniteSet(Lost(r, us)) /\ Cardinality(Lost(r, us)) \in Nat
<1>1. AdminsIn(us) \in SUBSET User /\ Lost(r, us) \in SUBSET User
  BY DEF AdminsIn, Lost
<1> QED
  BY <1>1, AccountConstants, FS_Subset, FS_CardinalityType

\* A request that moves on without a new id read keeps its count.
LEMMA SameCounted ==
    ASSUME NEW r, NEW q, NEW us, Counted(r, us), Relevant(r), q.pc # "write",
           q.op = r.op, q.payload = r.payload, q.targets = r.targets, q.next = r.next,
           q.leaving = r.leaving
    PROVE  Counted(q, us)
<1>1. Lost(q, us) = Lost(r, us)
  BY DEF Lost, Leaves, RemainAdmin, RemainActive
<1> QED
  BY <1>1 DEF Counted

\* Before any id is read nothing is counted.
LEMMA NoneCounted ==
    ASSUME NEW q, NEW us, q.next = 0, q.leaving = 0, q.pc # "write"
    PROVE  Counted(q, us)
<1>1. Lost(q, us) = {}
  BY DEF Lost
<1> QED
  BY <1>1, FS_EmptySet DEF Counted

\* One more id read adds at most one administrator, and is counted if it does.
LEMMA ReadCounted ==
    ASSUME NEW r \in Request, NEW q, NEW us, Counted(r, us), Relevant(r), r.pc # "write",
           r.next < Len(r.targets), q.op = r.op, q.payload = r.payload,
           q.targets = r.targets, q.next = r.next + 1,
           q.leaving = IF Leaves(r, us[r.targets[r.next + 1]]) THEN r.leaving + 1
                       ELSE r.leaving,
           q.pc = "write" => q.leaving = 0
    PROVE  Counted(q, us)
<1> DEFINE t == r.targets[r.next + 1]
<1>1. r.next \in Nat /\ r.leaving \in Nat
  BY DEF Request
<1>2. \A row : Leaves(q, row) <=> Leaves(r, row)
  BY DEF Leaves, RemainAdmin, RemainActive
<1>3. Lost(q, us) \subseteq Lost(r, us) \cup {t}
  BY <1>1, <1>2 DEF Lost
<1>4. ~Leaves(r, us[t]) => Lost(q, us) \subseteq Lost(r, us)
  BY <1>1, <1>2 DEF Lost
<1>5. Cardinality(Lost(r, us)) <= r.leaving
  BY DEF Counted
<1> HIDE DEF t
<1>6. Cardinality(Lost(r, us) \cup {t}) <= Cardinality(Lost(r, us)) + 1
      /\ IsFiniteSet(Lost(r, us) \cup {t})
  <2>1. IsFiniteSet(Lost(r, us)) /\ Cardinality(Lost(r, us)) \in Nat
    BY Finite
  <2>2. /\ IsFiniteSet(Lost(r, us) \cup {t})
        /\ Cardinality(Lost(r, us) \cup {t}) =
             IF t \in Lost(r, us) THEN Cardinality(Lost(r, us)) ELSE Cardinality(Lost(r, us)) + 1
    BY <2>1, FS_AddElement
  <2> QED
    BY <2>1, <2>2
<1>7. Cardinality(Lost(q, us)) <= q.leaving
  <2>1. CASE Leaves(r, us[t])
    <3>1. Cardinality(Lost(q, us)) <= Cardinality(Lost(r, us) \cup {t})
      BY <1>3, <1>6, FS_Subset
    <3>2. Cardinality(Lost(r, us) \cup {t}) \in Nat
      BY <1>6, FS_CardinalityType
    <3> QED
      BY <1>1, <1>5, <1>6, <2>1, <3>1, <3>2, Finite DEF t
  <2>2. CASE ~Leaves(r, us[t])
    <3>1. Cardinality(Lost(q, us)) <= Cardinality(Lost(r, us))
      BY <1>4, <2>2, Finite, FS_Subset
    <3> QED
      BY <1>1, <1>5, <2>2, <3>1, Finite DEF t
  <2> QED
    BY <2>1, <2>2
<1> QED
  BY <1>7 DEF Counted

\* A counted write that removes only the administrators that were counted leaves one.
LEMMA Survives ==
    ASSUME NEW r \in Request, NEW us, NEW after, Counted(r, us), Relevant(r), r.pc = "write",
           AdminsIn(us) # {}, AdminsIn(us) \ Lost(r, us) \subseteq AdminsIn(after)
    PROVE  AdminsIn(after) # {}
<1> SUFFICES ASSUME AdminsIn(after) = {} PROVE FALSE
  OBVIOUS
<1>1. AdminsIn(us) = Lost(r, us)
  BY DEF Lost
<1>2. /\ Cardinality(AdminsIn(us)) <= r.leaving /\ r.leaving \in Nat
      /\ r.leaving = 0 \/ Cardinality(AdminsIn(us)) - r.leaving >= 1
  BY <1>1 DEF Counted, Request
<1>3. Cardinality(AdminsIn(us)) \in Nat /\ Cardinality(AdminsIn(us)) # 0
  BY Finite, FS_EmptySet
<1> QED
  BY <1>2, <1>3

-----------------------------------------------------------------------------
(* Steps *)

\* A step of the only request that leaves the administrators there are, and is counted.
LEMMA OneStep ==
    ASSUME Alone, TypeInv, NEW w \in Worker, AdminInv, AdminsIn(users) \subseteq AdminsIn(users'),
           NEW q, req' = [req EXCEPT ![w] = q], Counted(q, users')
    PROVE  AdminInv'
BY DEF Alone, TypeInv, AdminInv

\* A write of the only request, after which it has nothing more to count.
LEMMA WriteStep ==
    ASSUME Alone, TypeInv, NEW w \in Worker, AdminsIn(users') # {}, NEW q,
           ~Relevant(q), req' = [req EXCEPT ![w] = q]
    PROVE  AdminInv'
<1>1. Counted(q, users')
  BY DEF Counted
<1> QED
  BY <1>1 DEF Alone, TypeInv, AdminInv

\* A request that is over counts nothing.
LEMMA OverCounted == ASSUME NEW us PROVE Counted(NoRequest, us)
BY DEF Counted, Relevant, NoRequest

\* requireSession and the handlers on one's own account keep the invariant.
LEMMA SelfKeepsAdmin ==
    ASSUME Alone, TypeInv, AdminInv, NEW w \in Worker, SelfStep(w)
    PROVE  AdminInv'
<1> DEFINE r == req[w]
<1>1. r \in Request /\ Counted(r, users)
  BY DEF TypeInv, AdminInv
<1>2. ASSUME Finish(w), UNCHANGED users PROVE AdminInv'
  BY <1>2, OverCounted, OneStep DEF Finish
<1>3. ASSUME NEW u \in User, Authenticate(w, u) PROVE AdminInv'
  <2> DEFINE q == [NoRequest EXCEPT !.pc = "session", !.op = "login", !.actor = u,
                                    !.hash = users[u].hash, !.epoch = users[u].epoch]
  <2>1. Counted(q, users')
    BY DEF Counted, Relevant, NoRequest
  <2>2. req' = [req EXCEPT ![w] = q] /\ users' = users
    BY <1>3 DEF Authenticate
  <2> HIDE DEF q
  <2> QED
    BY <2>1, <2>2, OneStep
<1>4. ASSUME NEW s \in Session, NEW op, NEW targets, NEW payload,
             LookUp(w, s, op, targets, payload)
      PROVE AdminInv'
  <2> DEFINE q == [NoRequest EXCEPT !.pc = "lookup", !.op = op, !.sid = s,
                  !.seenUsed = sessions[s].lastUsed, !.seenExpires = sessions[s].expires,
                  !.actor = sessions[s].user, !.targets = targets, !.payload = payload]
  <2>1. q.next = 0 /\ q.leaving = 0 /\ q.pc # "write"
    BY DEF NoRequest
  <2>2. req' = [req EXCEPT ![w] = q] /\ users' = users
    BY <1>4 DEF LookUp
  <2> HIDE DEF q
  <2> QED
    BY <2>1, <2>2, NoneCounted, OneStep
<1>5. ASSUME NEW q, req' = [req EXCEPT ![w] = Admitted(q)], UNCHANGED users,
             q.pc # "write", Counted(q, users), q \in Request, q.pc \in {"lookup", "touch"}
      PROVE AdminInv'
  <2>1. Counted([q EXCEPT !.pc = "handle"], users)
    <3>1. CASE Relevant(q)
      BY <1>5, <3>1, SameCounted DEF Request
    <3>2. CASE ~Relevant(q)
      BY <1>5, <3>2 DEF Relevant, Counted, Request
    <3> QED
      BY <3>1, <3>2
  <2>2. Counted(Admitted(q), users)
    BY <2>1, OverCounted DEF Admitted
  <2> QED
    BY <1>5, <2>2, OneStep
<1>6. ASSUME Identify(w) PROVE AdminInv'
  <2> DEFINE u == users[r.actor]
             known == [r EXCEPT !.now = clock, !.admin = u.admin, !.must = u.must,
                                !.hash = u.hash]
  <2>1. r.pc = "lookup" /\ UNCHANGED users
    BY <1>6 DEF Identify
  <2>2. /\ known.pc = "lookup" /\ known.op = r.op /\ known.payload = r.payload
        /\ known.targets = r.targets /\ known.next = r.next /\ known.leaving = r.leaving
    BY <1>1, <2>1 DEF Request
  <2>3. known \in Request
    <3>1. u \in UserRow /\ clock \in Nat
      BY <1>1 DEF TypeInv, Request
    <3>2. u.admin \in BOOLEAN /\ u.must \in BOOLEAN /\ u.hash \in Nat
      BY <3>1 DEF UserRow
    <3> HIDE DEF u
    <3> QED
      BY <1>1, <3>1, <3>2 DEF Request
  <2> HIDE DEF known
  <2>4. Counted(known, users)
    <3>1. CASE Relevant(r)
      BY <1>1, <2>2, <3>1, SameCounted
    <3>2. CASE ~Relevant(r)
      BY <2>1, <2>2, <3>2 DEF Relevant, Counted
    <3> QED
      BY <3>1, <3>2
  <2>5. CASE req' = [req EXCEPT ![w] = NoRequest]
    BY <2>1, <2>5, OverCounted, OneStep
  <2>6. CASE req' = [req EXCEPT ![w] = [r EXCEPT !.pc = "reject", !.now = clock]]
    <3>1. Counted([r EXCEPT !.pc = "reject", !.now = clock], users)
      BY <1>1 DEF Counted, Relevant, Request
    <3> QED
      BY <2>1, <2>6, <3>1, OneStep
  <2>7. CASE req' = [req EXCEPT ![w] = [known EXCEPT !.pc = "touch"]]
    <3>1. Counted([known EXCEPT !.pc = "touch"], users)
      <4>1. CASE Relevant(known)
        BY <2>3, <2>4, <4>1, SameCounted DEF Request
      <4>2. CASE ~Relevant(known)
        BY <2>2, <2>3, <4>2 DEF Relevant, Counted, Request
      <4> QED
        BY <4>1, <4>2
    <3> QED
      BY <2>1, <2>7, <3>1, OneStep
  <2>8. CASE req' = [req EXCEPT ![w] = Admitted(known)]
    BY <1>5, <2>1, <2>2, <2>3, <2>4, <2>8
  <2> QED
    BY <1>6, <2>5, <2>6, <2>7, <2>8 DEF Identify, known
<1>7. ASSUME Touch(w) PROVE AdminInv'
  BY <1>1, <1>5, <1>7 DEF Touch
<1>8. ASSUME ChangePassword(w) PROVE AdminInv'
  <2> DEFINE q == [r EXCEPT !.pc = "revoke", !.revokees = {r.actor}]
  <2>1. req' = [req EXCEPT ![w] = q]
    BY <1>1, <1>8 DEF ChangePassword, TypeInv, Request
  <2>2. Counted(q, users')
    BY <1>1 DEF Counted, Relevant, Request
  <2>3. AdminsIn(users) \subseteq AdminsIn(users')
    BY <1>8 DEF ChangePassword, WithPassword, AdminsIn, TypeInv, UserRow
  <2> HIDE DEF q
  <2> QED
    BY <2>1, <2>2, <2>3, OneStep
<1>9. ASSUME RevokeUserSessions(w) PROVE AdminInv'
  <2>1. PICK u \in r.revokees :
           req' = [req EXCEPT ![w] = IF r.revokees = {u} THEN NoRequest
                                     ELSE [r EXCEPT !.revokees = r.revokees \ {u}]]
    BY <1>1, <1>9 DEF RevokeUserSessions, Request
  <2>2. Counted([r EXCEPT !.revokees = r.revokees \ {u}], users')
    BY <1>1, <1>9 DEF RevokeUserSessions, Counted, Relevant, Request
  <2> DEFINE q == IF r.revokees = {u} THEN NoRequest
                  ELSE [r EXCEPT !.revokees = r.revokees \ {u}]
  <2>3. Counted(q, users') /\ req' = [req EXCEPT ![w] = q]
    BY <2>1, <2>2, OverCounted
  <2>4. UNCHANGED users
    BY <1>9 DEF RevokeUserSessions
  <2> HIDE DEF q
  <2> QED
    BY <2>3, <2>4, OneStep
<1> QED
  BY <1>2, <1>3, <1>4, <1>6, <1>7, <1>8, <1>9
     DEF SelfStep, StartSession, Reject, Serve, Logout, RevokeMine, RevokeMyOthers,
         ChangePasswordRefused, Abandon

\* The administrator's handlers keep the invariant.
LEMMA AdminKeepsAdmin ==
    ASSUME Alone, TypeInv, AdminInv, NEW w \in Worker, AdminStep(w)
    PROVE  AdminInv'
<1> DEFINE r == req[w]
           t == Target(r)
<1>1. r \in Request /\ Shaped(r) /\ Counted(r, users) /\ AdminsIn(users) # {}
  BY DEF TypeInv, AdminInv
<1>2. /\ r.targets \in Seq(User) /\ r.next \in Nat /\ r.leaving \in Nat
      /\ Len(r.targets) \in Nat /\ r.payload \in Payload
  BY <1>1 DEF Request
<1>3. ASSUME Finish(w), AdminsIn(users) \subseteq AdminsIn(users') PROVE AdminInv'
  BY <1>3, OverCounted, OneStep DEF Finish
<1>4. ASSUME NEW s \in Session, NEW op, NEW targets, NEW payload,
             LookUp(w, s, op, targets, payload)
      PROVE AdminInv'
  <2> DEFINE q == [NoRequest EXCEPT !.pc = "lookup", !.op = op, !.sid = s,
                  !.seenUsed = sessions[s].lastUsed, !.seenExpires = sessions[s].expires,
                  !.actor = sessions[s].user, !.targets = targets, !.payload = payload]
  <2>1. q.next = 0 /\ q.leaving = 0 /\ q.pc # "write"
    BY DEF NoRequest
  <2>2. req' = [req EXCEPT ![w] = q] /\ users' = users
    BY <1>4 DEF LookUp
  <2> HIDE DEF q
  <2> QED
    BY <2>1, <2>2, NoneCounted, OneStep
<1>5. ASSUME Forbidden(w) \/ RevokeAny(w) PROVE AdminInv'
  BY <1>3, <1>5 DEF Forbidden, RevokeAny
<1>6. ASSUME CreateUser(w) PROVE AdminInv'
  <2>1. AdminsIn(users) \subseteq AdminsIn(users')
    BY <1>6, SessionConstants DEF CreateUser, AdminsIn, TypeInv
  <2> QED
    BY <1>3, <1>6, <2>1 DEF CreateUser
<1>7. ASSUME ReadTarget(w) PROVE AdminInv'
  <2> DEFINE n == r.targets[r.next + 1]
             row == users[n]
             q == [r EXCEPT !.next = r.next + 1, !.tAdmin = row.admin, !.tActive = row.active,
                     !.leaving = IF Leaves(r, row) THEN r.leaving + 1 ELSE r.leaving]
             a == AfterReads(q)
  <2>1. r.pc = "handle" /\ r.op \in TargetOps /\ UNCHANGED users
    BY <1>7 DEF ReadTarget, TargetOps
  <2>2. r.next < Len(r.targets)
    BY <1>1, <2>1 DEF Shaped
  <2>3. req' = [req EXCEPT ![w] = IF Refused(r, n) THEN NoRequest ELSE a]
    BY <1>1, <1>7 DEF ReadTarget, Request
  <2>4. /\ q.pc = "handle" /\ q.op = r.op /\ q.targets = r.targets /\ q.next = r.next + 1
        /\ q.payload = r.payload
        /\ q.leaving = IF Leaves(r, row) THEN r.leaving + 1 ELSE r.leaving
        /\ \A pc : LET x == [q EXCEPT !.pc = pc]
                  IN  /\ x.pc = pc /\ x.op = q.op /\ x.targets = q.targets
                      /\ x.next = q.next /\ x.payload = q.payload /\ x.leaving = q.leaving
        /\ \A pc, us : LET x == [q EXCEPT !.pc = pc, !.revokees = us]
                      IN  x.pc = pc /\ x.op = q.op
    BY <1>1, <2>1 DEF Request
  <2> HIDE DEF q
  <2>5. Counted(a, users)
    <3>1. CASE r.op = "revokeUser"
      BY <1>2, <2>2, <2>4, <3>1 DEF AfterReads, Counted, Relevant
    <3>2. CASE ~(r.op \in {"update", "delete", "bulk"}) /\ r.op # "revokeUser"
      BY <1>2, <2>2, <2>4, <3>2 DEF AfterReads, Counted, Relevant
    <3>3. CASE r.op \in {"update", "delete", "bulk"}
      <4>1. /\ a.op = r.op /\ a.payload = r.payload /\ a.targets = r.targets
            /\ a.next = r.next + 1 /\ a.leaving = q.leaving
            /\ a.pc = "write" => a.leaving = 0
        BY <1>2, <2>2, <2>4, <3>3 DEF AfterReads
      <4>2. Relevant(r) /\ r.pc # "write"
        BY <2>1, <3>3 DEF Relevant
      <4> HIDE DEF a
      <4> QED
        BY <1>1, <2>2, <2>4, <4>1, <4>2, ReadCounted
    <3> QED
      BY <3>1, <3>2, <3>3
  <2>6. Counted(IF Refused(r, n) THEN NoRequest ELSE a, users)
    BY <2>5, OverCounted
  <2> HIDE DEF a
  <2> QED
    BY <2>1, <2>3, <2>6, OneStep
<1>8. ASSUME CountAdmins(w) PROVE AdminInv'
  <2>1. CASE Finish(w)
    BY <1>3, <1>8, <2>1 DEF CountAdmins
  <2>2. CASE ~Finish(w)
    <3>1. /\ r.pc = "count" /\ Goto(w, "write") /\ UNCHANGED users
          /\ ~(Cardinality(ActiveAdmins) - r.leaving < 1)
      BY <1>8, <2>2 DEF CountAdmins
    <3>2. ActiveAdmins = AdminsIn(users)
      BY DEF ActiveAdmins, AdminsIn, Live
    <3>3. Cardinality(AdminsIn(users)) - r.leaving >= 1
      <4>1. Cardinality(AdminsIn(users)) \in Nat
        BY Finite
      <4> QED
        BY <1>2, <3>1, <3>2, <4>1
    <3> DEFINE q == [r EXCEPT !.pc = "write"]
    <3>4. req' = [req EXCEPT ![w] = q]
      BY <3>1 DEF Goto, TypeInv
    <3>5. /\ q.pc = "write" /\ q.op = r.op /\ q.payload = r.payload /\ q.next = r.next
          /\ q.targets = r.targets /\ q.leaving = r.leaving
      BY <1>1 DEF Request
    <3> HIDE DEF q
    <3>6. Lost(q, users) = Lost(r, users)
      BY <3>5 DEF Lost, Leaves, RemainAdmin, RemainActive
    <3>7. Counted(q, users)
      BY <1>1, <3>1, <3>3, <3>5, <3>6 DEF Counted, Relevant
    <3> QED
      BY <3>1, <3>4, <3>7, OneStep
  <2> QED
    BY <2>1, <2>2
<1>9. ASSUME r.pc = "write", r.op \in {"update", "delete", "bulk"}
      PROVE  /\ Relevant(r) /\ t \in User
             /\ \A i \in DOMAIN r.targets : i \in 1..r.next
             /\ \A us : AdminsIn(users) \ Lost(r, users) \subseteq AdminsIn(us)
                          => AdminsIn(us) # {}
  <2>1. Len(r.targets) >= 1 /\ r.next = Len(r.targets)
    BY <1>1, <1>9 DEF Shaped, TargetOps
  <2>2. Relevant(r) /\ t \in User /\ \A i \in DOMAIN r.targets : i \in 1..r.next
    BY <1>2, <1>9, <2>1 DEF Relevant, Target
  <2> QED
    BY <1>1, <1>9, <2>2, Survives
<1>10. ASSUME UpdateUser(w) PROVE AdminInv'
  <2> DEFINE p == r.payload
             q == IF p.password THEN [r EXCEPT !.pc = "password"]
                  ELSE IF LosesRights(r) THEN [r EXCEPT !.pc = "revoke", !.revokees = {t}]
                  ELSE NoRequest
  <2>1. r.pc = "write" /\ r.op = "update"
    BY <1>10 DEF UpdateUser, Writes
  <2>2. req' = [req EXCEPT ![w] = q]
    BY <1>10 DEF UpdateUser
  <2>3. ~Relevant(q)
    BY <1>1 DEF Request, NoRequest, Relevant
  <2>4. t = r.targets[1] /\ 1 \in 1..r.next
    BY <1>1, <1>2, <1>9, <2>1 DEF Target, Shaped, TargetOps
  <2>5. ASSUME NEW u \in AdminsIn(users), u \notin Lost(r, users)
        PROVE  u \in AdminsIn(users')
    <3>1. CASE u # t
      BY <1>10, <3>1 DEF UpdateUser, AdminsIn, TypeInv
    <3>2. CASE u = t
      <4>1. ~Leaves(r, users[t]) /\ users[t].admin /\ users[t].active /\ Live(t)
        BY <2>4, <2>5, <3>2 DEF Lost, AdminsIn, Live
      <4>2. p.admin /\ p.active
        BY <2>1, <4>1 DEF Leaves, RemainAdmin, RemainActive
      <4>3. users'[t] = WithFlags(users[t], p.admin, p.active, p.must)
        BY <1>9, <1>10, <2>1, <4>1 DEF UpdateUser, TypeInv
      <4>4. users[t] \in UserRow
        BY <1>9, <2>1 DEF TypeInv
      <4>5. users'[t].status = "live" /\ users'[t].admin /\ users'[t].active
        BY <4>1, <4>2, <4>3, <4>4 DEF WithFlags, UserRow, Live
      <4> QED
        BY <1>9, <2>1, <3>2, <4>5 DEF AdminsIn
    <3> QED
      BY <3>1, <3>2
  <2>6. AdminsIn(users') # {}
    BY <1>9, <2>1, <2>5
  <2> HIDE DEF q
  <2> QED
    BY <2>2, <2>3, <2>6, WriteStep
<1>11. ASSUME UpdatePassword(w) \/ ResetPassword(w) PROVE AdminInv'
  <2> DEFINE q == [r EXCEPT !.pc = "revoke", !.revokees = {t}]
  <2>1. req' = [req EXCEPT ![w] = q]
    BY <1>1, <1>11 DEF UpdatePassword, ResetPassword, TypeInv, Request
  <2>2. ~Relevant(q)
    BY <1>1 DEF Request, Relevant
  <2>3. \E must : users' = WithPassword(t, must)
    BY <1>11 DEF UpdatePassword, ResetPassword
  <2>4. AdminsIn(users) \subseteq AdminsIn(users')
    BY <2>3 DEF WithPassword, AdminsIn, TypeInv, UserRow
  <2>5. AdminsIn(users') # {}
    BY <1>1, <2>4
  <2> HIDE DEF q
  <2> QED
    BY <2>1, <2>2, <2>5, WriteStep
<1>12. ASSUME DeleteUser(w) PROVE AdminInv'
  <2>1. r.pc = "write" /\ r.op = "delete"
    BY <1>12 DEF DeleteUser, Writes
  <2>2. t = r.targets[1] /\ 1 \in 1..r.next
    BY <1>1, <1>2, <1>9, <2>1 DEF Target, Shaped, TargetOps
  <2>3. ASSUME NEW u \in AdminsIn(users), u \notin Lost(r, users)
        PROVE  u \in AdminsIn(users')
    <3>1. u # t
      BY <2>1, <2>2, <2>3 DEF Lost, AdminsIn, Leaves, RemainAdmin, RemainActive
    <3> QED
      BY <1>12, <3>1 DEF DeleteUser, AdminsIn, TypeInv
  <2>4. AdminsIn(users') # {}
    BY <1>9, <2>1, <2>3
  <2>5. ~Relevant(NoRequest) /\ req' = [req EXCEPT ![w] = NoRequest]
    BY <1>12 DEF DeleteUser, Finish, NoRequest, Relevant
  <2> QED
    BY <2>4, <2>5, WriteStep
<1>13. ASSUME SetUsersActive(w) PROVE AdminInv'
  <2> DEFINE changed == {u \in Ids(r) : Live(u) /\ users[u].active # r.payload.active}
             q == IF ~r.payload.active /\ changed # {}
                  THEN [r EXCEPT !.pc = "revoke", !.revokees = changed] ELSE NoRequest
  <2>1. r.pc = "write" /\ r.op = "bulk"
    BY <1>13 DEF SetUsersActive, Writes
  <2>2. req' = [req EXCEPT ![w] = q]
    BY <1>13 DEF SetUsersActive
  <2>3. ~Relevant(q)
    BY <1>1 DEF Request, NoRequest, Relevant
  <2>4. ASSUME NEW u \in AdminsIn(users), u \notin Lost(r, users)
        PROVE  u \in AdminsIn(users')
    <3>1. u \notin changed
      <4> SUFFICES ASSUME u \in changed PROVE FALSE
        OBVIOUS
      <4>1. PICK i \in DOMAIN r.targets : r.targets[i] = u
        BY DEF Ids
      <4>2. i \in 1..r.next
        BY <1>9, <2>1, <4>1
      <4>3. r.payload.active \in BOOLEAN /\ users[u].active /\ users[u].admin
        BY <1>2, <2>4 DEF Payload, AdminsIn
      <4>4. ~r.payload.active
        BY <4>3, Zenon
      <4>5. Leaves(r, users[u])
        BY <2>1, <4>3, <4>4 DEF Leaves, RemainActive
      <4> QED
        BY <2>4, <4>1, <4>2, <4>5 DEF Lost
    <3> QED
      BY <1>13, <2>4, <3>1 DEF SetUsersActive, AdminsIn
  <2>5. AdminsIn(users') # {}
    BY <1>9, <2>1, <2>4
  <2> HIDE DEF q
  <2> QED
    BY <2>2, <2>3, <2>5, WriteStep
<1> QED
  BY <1>4, <1>5, <1>6, <1>7, <1>8, <1>10, <1>11, <1>12, <1>13 DEF AdminStep

\* When requests do not overlap, an active administrator always remains: what handlers
\* count before they write is still so when they write.
THEOREM SerialLastAdmin == Alone => (Spec => []LastAdminStays)
<1> SUFFICES ASSUME Alone PROVE Spec => []LastAdminStays
  OBVIOUS
<1>1. Init => AdminInv
  <2> SUFFICES ASSUME Init PROVE AdminInv
    OBVIOUS
  <2>1. PICK u \in InitialAdmins : u \in InitialUsers /\ u \in User
    BY AccountConstants
  <2>2. users[u].status = "live" /\ users[u].admin /\ users[u].active
    BY <2>1 DEF Init
  <2>3. AdminsIn(users) # {}
    BY <2>1, <2>2 DEF AdminsIn
  <2>4. \A w \in Worker : req[w] = NoRequest
    BY DEF Init
  <2> QED
    BY <2>3, <2>4, OverCounted DEF AdminInv
<1>2. TypeInv /\ AdminInv /\ [Next]_vars => AdminInv'
  <2> SUFFICES ASSUME TypeInv, AdminInv, [Next]_vars PROVE AdminInv'
    OBVIOUS
  <2>1. CASE Background \/ UNCHANGED vars
    <3>1. UNCHANGED <<users, req>>
      BY <2>1 DEF Background, PurgeSessions, Tick, vars
    <3> QED
      BY <3>1 DEF AdminInv
  <2> QED
    BY <2>1, SelfKeepsAdmin, AdminKeepsAdmin DEF Next
<1>3. AdminInv => LastAdminStays
  BY DEF AdminInv, LastAdminStays, AdminsIn, ActiveAdmins, Live
<1> QED
  BY <1>1, <1>2, <1>3, TypeInit, TypeStep, PTL DEF Spec

-----------------------------------------------------------------------------
(* What a request knows about the rows it read *)

\* The target t, its row being us[t], passed the checks of the handler.
Passed(r, t, us) ==
    us[t].status = "live" /\ ~AdminGuarded(r, us[t]) /\ ~SelfHarm(r, t, us[t])

\* What the only request r knows of the tables us and ss: the user who signed in is as
\* authenticated, the session is the caller's, and the targets read passed the checks.
Informed(r, us, ss) ==
    /\ r.pc \in {"lookup", "touch"} => r.next = 0
    /\ r.pc = "session" => r.hash = us[r.actor].hash /\ r.epoch = us[r.actor].epoch
    /\ r.op = "changePassword" /\ r.pc # "idle" =>
          ss[r.sid].user = r.actor /\ ss[r.sid].status # "unused"
    /\ r.op = "update" => Len(r.targets) = 1
    /\ r.op \in TargetOps /\ r.pc \in {"handle", "count", "write"} =>
          \A i \in 1..r.next : Passed(r, r.targets[i], us)
    /\ r.op = "update" /\ r.pc \in {"count", "write"} =>
          r.tAdmin = us[Target(r)].admin /\ r.tActive = us[Target(r)].active
    /\ r.pc = "password" => r.op = "update" /\ (~r.admin => ~us[Target(r)].admin)

\* Session row s was authenticated with the current password and rights of its user.
Current(row, us) == row.hash = us[row.user].hash /\ row.epoch = us[row.user].epoch

\* The users whose sessions the request will still end.
Due(r) == CASE r.pc = "revoke" -> r.revokees [] r.pc = "password" -> {Target(r)} [] OTHER -> {}

\* Every session that can be used is current, or the request under way will end it
\* (if clients wait for their answers: an abandoned request ends nothing more).
SessionsInv ==
    /\ \A w \in Worker : Informed(req[w], users, sessions)
    /\ \A s \in Session :
          "abandon" \notin Op /\ sessions[s].status = "live" /\ sessions[s].revokedAt = Never =>
          \/ Current(sessions[s], users)
          \/ \E w \in Worker : sessions[s].user \in Due(req[w]) /\ s \notin Spared(req[w])

\* The session s is current, or the request q will end it.
SessionOK(s, q, us, ss) ==
    "abandon" \notin Op /\ ss[s].status = "live" /\ ss[s].revokedAt = Never =>
        Current(ss[s], us) \/ (ss[s].user \in Due(q) /\ s \notin Spared(q))

\* The step leaves of session s who signed in and when, and does not revive it.
Same(s) ==
    /\ sessions'[s].user = sessions[s].user
    /\ sessions'[s].hash = sessions[s].hash /\ sessions'[s].epoch = sessions[s].epoch
    /\ sessions[s].status # "unused" => sessions'[s].status # "unused"
    /\ sessions'[s].status = "live" /\ sessions'[s].revokedAt = Never =>
          sessions[s].status = "live" /\ sessions[s].revokedAt = Never

\* The invariant for the only request.
LEMMA SessionsOfOne ==
    ASSUME Alone, SessionsInv, NEW w \in Worker
    PROVE  /\ Informed(req[w], users, sessions)
           /\ \A s \in Session : SessionOK(s, req[w], users, sessions)
BY DEF Alone, SessionsInv, SessionOK

\* A step of the only request keeps the invariant when the request that it becomes is
\* informed and every session is current or will be ended.
LEMMA SessionsStep ==
    ASSUME Alone, TypeInv, SessionsInv, NEW w \in Worker, NEW q, req' = [req EXCEPT ![w] = q],
           Informed(q, users', sessions'),
           \A s \in Session : SessionOK(s, q, users', sessions')
    PROVE  SessionsInv'
<1>1. req'[w] = q /\ \A v \in Worker : v = w
  BY DEF TypeInv, Alone
<1> QED
  BY <1>1 DEF SessionsInv, SessionOK

\* A request that is over is informed.
LEMMA OverInformed == ASSUME NEW us, NEW ss PROVE Informed(NoRequest, us, ss)
BY DEF Informed, NoRequest, TargetOps

\* The same for a step that changes no account, and of the sessions only ends some, by a
\* request that has not yet changed anything.
LEMMA QuietSessions ==
    ASSUME Alone, TypeInv, SessionsInv, NEW w \in Worker, NEW q, req' = [req EXCEPT ![w] = q],
           UNCHANGED users, \A s \in Session : Same(s),
           req[w].pc \notin {"revoke", "password"},
           Informed(q, users, sessions')
    PROVE  SessionsInv'
<1>1. \A s \in Session : SessionOK(s, req[w], users, sessions)
  BY SessionsOfOne
<1>2. Due(req[w]) = {}
  BY DEF Due
<1>3. \A s \in Session : SessionOK(s, q, users', sessions')
  BY <1>1, <1>2 DEF SessionOK, Same, Current
<1> QED
  BY <1>3, SessionsStep

\* RevokeSession and RevokeUserSessions end sessions and change nothing else.
LEMMA RevokedSame ==
    ASSUME TypeInv, NEW which, NEW at \in Nat, sessions' = Revoked(which, at), NEW s \in Session
    PROVE  Same(s)
BY DEF Revoked, Same, TypeInv, SessionRow, Never

\* Touching a session changes only when it was last used.
LEMMA TouchedSame ==
    ASSUME TypeInv, NEW x \in Session, NEW at \in Nat, sessions' = Touched(x, at),
           NEW s \in Session
    PROVE  Same(s)
BY DEF Touched, Same, TypeInv, SessionRow

\* A request that is admitted knows what it did.
LEMMA AdmittedInformed ==
    ASSUME NEW r \in Request, NEW us, NEW ss, Informed(r, us, ss), r.pc \in {"lookup", "touch"}
    PROVE  Informed(Admitted(r), us, ss)
<1>1. r.next = 0
  BY DEF Informed
<1>2. Informed([r EXCEPT !.pc = "handle"], us, ss)
  BY <1>1 DEF Informed, Request
<1> QED
  BY <1>2, OverInformed DEF Admitted

-----------------------------------------------------------------------------
(* Steps of sign-in, requireSession and the handlers on one's own account *)

\* They keep the invariant.
LEMMA SelfKeepsSessions ==
    ASSUME Alone, TypeInv, SessionsInv, NEW w \in Worker, SelfStep(w)
    PROVE  SessionsInv'
<1> DEFINE r == req[w]
<1>1. /\ r \in Request /\ clock \in Nat /\ r.now \in Nat /\ r.sid \in Session /\ r.actor \in User
      /\ Informed(r, users, sessions)
      /\ \A s \in Session : SessionOK(s, r, users, sessions)
  BY SessionsOfOne DEF TypeInv, Request
<1>2. ASSUME Finish(w), UNCHANGED users, \A s \in Session : Same(s),
             r.pc \notin {"revoke", "password"}
      PROVE  SessionsInv'
  BY <1>2, OverInformed, QuietSessions DEF Finish
<1>3. ASSUME UNCHANGED sessions PROVE \A s \in Session : Same(s)
  BY <1>3 DEF Same
<1>4. ASSUME NEW u \in User, Authenticate(w, u) PROVE SessionsInv'
  <2> DEFINE q == [NoRequest EXCEPT !.pc = "session", !.op = "login", !.actor = u,
                                    !.hash = users[u].hash, !.epoch = users[u].epoch]
  <2>1. Informed(q, users, sessions')
    BY DEF Informed, NoRequest, TargetOps
  <2>2. /\ req' = [req EXCEPT ![w] = q] /\ UNCHANGED <<users, sessions>>
        /\ r.pc \notin {"revoke", "password"}
    BY <1>4 DEF Authenticate
  <2> HIDE DEF q
  <2> QED
    BY <1>3, <2>1, <2>2, QuietSessions
<1>5. ASSUME StartSession(w) PROVE SessionsInv'
  <2>1. r.hash = users[r.actor].hash /\ r.epoch = users[r.actor].epoch
    BY <1>1, <1>5 DEF StartSession, Informed
  <2>2. Due(r) = {}
    BY <1>5 DEF StartSession, Due
  <2>3. \A s \in Session : SessionOK(s, NoRequest, users', sessions')
    <3>1. CASE UNCHANGED sessions
      BY <1>1, <1>5, <2>2, <3>1 DEF StartSession, SessionOK
    <3>2. CASE ~UNCHANGED sessions
      <4>1. PICK x \in Session : sessions' = [sessions EXCEPT ![x] =
                        [status |-> "live", user |-> r.actor, lastUsed |-> clock,
                         expires |-> clock + MaxAge, revokedAt |-> Never,
                         hash |-> r.hash, epoch |-> r.epoch]]
        BY <1>5, <3>2 DEF StartSession
      <4>2. Current(sessions'[x], users')
        BY <1>5, <2>1, <4>1 DEF StartSession, Current, TypeInv
      <4>3. \A s \in Session \ {x} : sessions'[s] = sessions[s]
        BY <4>1 DEF TypeInv
      <4> QED
        BY <1>1, <1>5, <2>2, <4>2, <4>3 DEF StartSession, SessionOK
    <3> QED
      BY <3>1, <3>2
  <2> QED
    BY <1>5, <2>3, OverInformed, SessionsStep DEF StartSession, Finish
<1>6. ASSUME NEW s \in Session, NEW op \in Op \cap SelfService, LookUp(w, s, op, <<>>, NoPayload)
      PROVE  SessionsInv'
  <2> DEFINE q == [NoRequest EXCEPT !.pc = "lookup", !.op = op, !.sid = s,
                  !.seenUsed = sessions[s].lastUsed, !.seenExpires = sessions[s].expires,
                  !.actor = sessions[s].user, !.targets = <<>>, !.payload = NoPayload]
  <2>1. q.pc = "lookup" /\ q.op = op /\ q.sid = s /\ q.actor = sessions[s].user /\ q.next = 0
    BY DEF NoRequest
  <2>2. /\ req' = [req EXCEPT ![w] = q] /\ UNCHANGED <<users, sessions>>
        /\ r.pc \notin {"revoke", "password"} /\ sessions[s].status = "live"
    BY <1>6 DEF LookUp
  <2> HIDE DEF q
  <2>3. Informed(q, users, sessions')
    BY <2>1, <2>2 DEF Informed, SelfService
  <2> QED
    BY <1>3, <2>2, <2>3, QuietSessions
<1>7. ASSUME Identify(w) PROVE SessionsInv'
  <2> DEFINE u == users[r.actor]
             known == [r EXCEPT !.now = clock, !.admin = u.admin, !.must = u.must,
                                !.hash = u.hash]
             q == IF clock >= r.seenExpires \/ clock - r.seenUsed > Idle THEN NoRequest
                  ELSE IF ~Live(r.actor) \/ ~u.active THEN [r EXCEPT !.pc = "reject", !.now = clock]
                  ELSE IF clock - r.seenUsed > TouchEvery THEN [known EXCEPT !.pc = "touch"]
                  ELSE Admitted(known)
  <2>1. /\ req' = [req EXCEPT ![w] = q] /\ UNCHANGED <<users, sessions>> /\ r.pc = "lookup"
    BY <1>7 DEF Identify
  <2>2. /\ known \in Request /\ known.pc = "lookup" /\ known.op = r.op
        /\ known.targets = r.targets /\ known.next = r.next
        /\ known.sid = r.sid /\ known.actor = r.actor
    <3>1. u.admin \in BOOLEAN /\ u.must \in BOOLEAN /\ u.hash \in Nat
      BY <1>1 DEF TypeInv, UserRow
    <3> HIDE DEF u
    <3> QED
      BY <1>1, <2>1, <3>1 DEF Request
  <2>3. Informed([r EXCEPT !.pc = "reject", !.now = clock], users, sessions')
    BY <1>1, <2>1 DEF Informed, Request
  <2> HIDE DEF known
  <2>4. Informed(known, users, sessions')
    BY <1>1, <2>1, <2>2 DEF Informed
  <2>5. Informed([known EXCEPT !.pc = "touch"], users, sessions')
    BY <2>2, <2>4 DEF Informed, Request
  <2>6. Informed(Admitted(known), users, sessions')
    BY <2>2, <2>4, AdmittedInformed
  <2>7. Informed(q, users, sessions')
    BY <2>3, <2>5, <2>6, OverInformed
  <2> HIDE DEF q
  <2> QED
    BY <1>3, <2>1, <2>7, QuietSessions
<1>8. ASSUME Touch(w) PROVE SessionsInv'
  <2>1. /\ req' = [req EXCEPT ![w] = Admitted(r)] /\ UNCHANGED users /\ r.pc = "touch"
        /\ sessions' = Touched(r.sid, r.now)
    BY <1>8 DEF Touch
  <2>2. \A s \in Session : Same(s)
    BY <1>1, <2>1, TouchedSame
  <2>3. Informed(r, users, sessions')
    BY <1>1, <2>1, <2>2 DEF Informed, Same
  <2> QED
    BY <1>1, <2>1, <2>2, <2>3, AdmittedInformed, QuietSessions
<1>9. ASSUME Reject(w) \/ Logout(w) \/ RevokeMine(w) \/ RevokeMyOthers(w) PROVE SessionsInv'
  <2>1. \E which, at : at \in Nat /\ sessions' = Revoked(which, at)
    BY <1>1, <1>9 DEF Reject, Logout, RevokeMine, RevokeMyOthers
  <2>2. Finish(w) /\ UNCHANGED users /\ r.pc \notin {"revoke", "password"}
    BY <1>9 DEF Reject, Logout, RevokeMine, RevokeMyOthers, Handles
  <2> QED
    BY <1>2, <2>1, <2>2, RevokedSame
<1>10. ASSUME Serve(w) \/ ChangePasswordRefused(w) PROVE SessionsInv'
  BY <1>2, <1>3, <1>10 DEF Serve, ChangePasswordRefused, Handles
<1>11. ASSUME ChangePassword(w) PROVE SessionsInv'
  <2> DEFINE q == [r EXCEPT !.pc = "revoke", !.revokees = {r.actor}]
  <2>1. /\ req' = [req EXCEPT ![w] = q] /\ r.pc = "handle" /\ r.op = "changePassword"
        /\ users' = WithPassword(r.actor, FALSE)
        /\ sessions' = [sessions EXCEPT ![r.sid].hash = users'[r.actor].hash]
    BY <1>1, <1>11 DEF ChangePassword, Handles, TypeInv, Request
  <2>2. sessions[r.sid].user = r.actor /\ sessions[r.sid].status # "unused"
    BY <1>1, <2>1 DEF Informed
  <2>3. /\ \A u \in User \ {r.actor} : users'[u] = users[u]
        /\ users'[r.actor].epoch = users[r.actor].epoch
    BY <1>1, <2>1 DEF WithPassword, TypeInv, UserRow
  <2>4. /\ \A s \in Session \ {r.sid} : sessions'[s] = sessions[s]
        /\ sessions'[r.sid] = [sessions[r.sid] EXCEPT !.hash = users'[r.actor].hash]
    BY <1>1, <2>1 DEF TypeInv
  <2>5. /\ sessions'[r.sid].hash = users'[r.actor].hash
        /\ sessions'[r.sid].user = r.actor /\ sessions'[r.sid].epoch = sessions[r.sid].epoch
        /\ sessions'[r.sid].status = sessions[r.sid].status
        /\ sessions'[r.sid].revokedAt = sessions[r.sid].revokedAt
    BY <1>1, <2>2, <2>4 DEF TypeInv, SessionRow
  <2>6. q.op = "changePassword" /\ q.sid = r.sid /\ q.actor = r.actor /\ q.pc = "revoke"
           /\ q.revokees = {r.actor}
    BY <1>1, <2>1 DEF Request
  <2> HIDE DEF q
  <2>7. Informed(q, users', sessions')
    BY <2>2, <2>5, <2>6 DEF Informed, TargetOps
  <2>8. Due(r) = {} /\ Due(q) = {r.actor} /\ Spared(q) = {r.sid}
    BY <2>1, <2>6 DEF Due, Spared
  <2>9. ASSUME NEW s \in Session PROVE SessionOK(s, q, users', sessions')
    <3>1. SessionOK(s, r, users, sessions) /\ sessions[s].user \in User
      BY <1>1 DEF TypeInv, SessionRow
    <3>2. CASE s = r.sid
      BY <2>2, <2>3, <2>5, <2>8, <3>1, <3>2 DEF SessionOK, Current
    <3>3. CASE s # r.sid
      BY <2>3, <2>4, <2>8, <3>1, <3>3 DEF SessionOK, Current
    <3> QED
      BY <3>2, <3>3
  <2> QED
    BY <2>1, <2>7, <2>9, SessionsStep
<1>12. ASSUME RevokeUserSessions(w) PROVE SessionsInv'
  <2>1. PICK u \in r.revokees :
           /\ sessions' = Revoked(SessionsOf(u) \ Spared(r), clock)
           /\ req' = [req EXCEPT ![w] = IF r.revokees = {u} THEN NoRequest
                                     ELSE [r EXCEPT !.revokees = r.revokees \ {u}]]
    BY <1>1, <1>12 DEF RevokeUserSessions, Request
  <2> DEFINE q == IF r.revokees = {u} THEN NoRequest
                  ELSE [r EXCEPT !.revokees = r.revokees \ {u}]
  <2>2. req' = [req EXCEPT ![w] = q] /\ UNCHANGED users /\ r.pc = "revoke"
    BY <1>12, <2>1 DEF RevokeUserSessions
  <2>3. \A s \in Session : Same(s)
    BY <1>1, <2>1, RevokedSame
  <2>4. Informed(r, users', sessions')
    BY <1>1, <2>2, <2>3 DEF Informed, Same
  <2>5. Informed([r EXCEPT !.revokees = r.revokees \ {u}], users', sessions')
    BY <1>1, <2>2, <2>4 DEF Informed, Request, TargetOps
  <2>6. Informed(q, users', sessions')
    BY <2>5, OverInformed
  <2>7. Due(q) = r.revokees \ {u}
    BY <1>1, <2>2 DEF Due, NoRequest, Request
  <2>8. r.revokees # {u} => Spared(q) = Spared(r)
    BY <1>1 DEF Spared, Request
  <2>9. ASSUME NEW s \in Session PROVE SessionOK(s, q, users', sessions')
    <3>1. SessionOK(s, r, users, sessions) /\ Due(r) = r.revokees
      BY <1>1, <2>2 DEF Due
    <3>2. s \in SessionsOf(u) \ Spared(r) => ~(sessions'[s].status = "live" /\ sessions'[s].revokedAt = Never)
      BY <1>1, <2>1 DEF Revoked, TypeInv, SessionRow, Never
    <3>3. Same(s)
      BY <2>3
    <3> HIDE DEF q
    <3>4. CASE sessions[s].user = u
      BY <2>2, <3>1, <3>2, <3>3, <3>4 DEF SessionOK, Same, Current, SessionsOf
    <3>5. CASE sessions[s].user # u
      <4>1. CASE r.revokees = {u}
        BY <2>2, <3>1, <3>3, <3>5, <4>1 DEF SessionOK, Same, Current
      <4>2. CASE r.revokees # {u}
        BY <2>2, <2>7, <2>8, <3>1, <3>3, <3>5, <4>2 DEF SessionOK, Same, Current
      <4> QED
        BY <4>1, <4>2
    <3> QED
      BY <3>4, <3>5
  <2> HIDE DEF q
  <2> QED
    BY <2>2, <2>6, <2>9, SessionsStep
<1>13. ASSUME Abandon(w) PROVE SessionsInv'
  <2>1. \A s \in Session : SessionOK(s, NoRequest, users', sessions')
    BY <1>13 DEF Abandon, SessionOK
  <2> QED
    BY <1>13, <2>1, OverInformed, SessionsStep DEF Abandon, Finish
<1> QED
  BY <1>4, <1>5, <1>6, <1>7, <1>8, <1>9, <1>10, <1>11, <1>12, <1>13 DEF SelfStep

-----------------------------------------------------------------------------
(* Steps of the administrator's handlers *)

\* What the checks made of a row depends on the parts of the request that stay.
LEMMA PassedStays ==
    ASSUME NEW r, NEW q, NEW us, NEW t, Passed(r, t, us), q.op = r.op, q.payload = r.payload,
           q.admin = r.admin, q.actor = r.actor
    PROVE  Passed(q, t, us)
BY DEF Passed, AdminGuarded, SelfHarm, RemainAdmin, RemainActive

\* Where a request goes after its last target keeps what it read.
LEMMA AfterReadsIs ==
    ASSUME NEW q \in Request, NEW a, a = AfterReads(q), q.next <= Len(q.targets)
    PROVE  /\ q.next < Len(q.targets) => a = q
           /\ q.next = Len(q.targets) /\ q.op = "revokeUser" => a.op = q.op /\ a.pc = "revoke"
           /\ q.next = Len(q.targets) /\ q.op # "revokeUser" =>
                /\ a.op = q.op /\ a.pc \in {"count", "write"} /\ a.payload = q.payload
                /\ a.admin = q.admin /\ a.actor = q.actor /\ a.targets = q.targets
                /\ a.next = q.next /\ a.tAdmin = q.tAdmin /\ a.tActive = q.tActive
<1>1. q.next \in Nat /\ Len(q.targets) \in Nat
  BY DEF Request
<1>2. CASE q.next < Len(q.targets)
  BY <1>1, <1>2 DEF AfterReads
<1>3. CASE q.next = Len(q.targets) /\ q.op = "revokeUser"
  <2>1. a = [q EXCEPT !.pc = "revoke", !.revokees = {q.targets[1]}]
    BY <1>1, <1>3 DEF AfterReads
  <2> QED
    BY <1>1, <1>3, <2>1 DEF Request
<1>4. CASE q.next = Len(q.targets) /\ q.op # "revokeUser"
  <2>1. a = [q EXCEPT !.pc = IF q.leaving > 0 THEN "count" ELSE "write"]
    BY <1>1, <1>4 DEF AfterReads
  <2> QED
    BY <1>1, <1>4, <2>1 DEF Request
<1> QED
  BY <1>1, <1>2, <1>3, <1>4

\* The request after its next target was read knows that it passed.
LEMMA ReadInformed ==
    ASSUME NEW r \in Request, Shaped(r), NEW us, NEW ss, Informed(r, us, ss),
           r.pc = "handle", r.op \in TargetOps, Passed(r, r.targets[r.next + 1], us),
           NEW ad \in BOOLEAN, NEW ac \in BOOLEAN, NEW n \in Nat, NEW q,
           q = [r EXCEPT !.next = r.next + 1, !.tAdmin = ad, !.tActive = ac, !.leaving = n],
           ad = us[r.targets[r.next + 1]].admin, ac = us[r.targets[r.next + 1]].active
    PROVE  Informed(AfterReads(q), us, ss)
<1>1. r.next < Len(r.targets) /\ r.next \in Nat /\ Len(r.targets) \in Nat
  BY DEF Request, Shaped
<1>2. /\ q \in Request /\ q.pc = "handle" /\ q.op = r.op /\ q.payload = r.payload
      /\ q.admin = r.admin /\ q.actor = r.actor /\ q.targets = r.targets /\ q.next = r.next + 1
      /\ q.tAdmin = ad /\ q.tActive = ac
  <2>1. /\ q.pc = "handle" /\ q.op = r.op /\ q.payload = r.payload
        /\ q.admin = r.admin /\ q.actor = r.actor /\ q.targets = r.targets
        /\ q.next = r.next + 1 /\ q.tAdmin = ad /\ q.tActive = ac
    BY DEF Request
  <2>2. r.next + 1 \in Nat
    BY <1>1
  <2>3. q \in Request
    BY <2>2, Zenon DEF Request
  <2> QED
    BY <2>1, <2>3
<1>3. \A i \in 1..q.next : Passed(r, r.targets[i], us)
  BY <1>1, <1>2 DEF Informed
<1>4. \A i \in 1..q.next : Passed(q, q.targets[i], us)
  BY <1>2, <1>3, PassedStays, ZenonT(30)
<1>5. PICK a : a = AfterReads(q)
  OBVIOUS
<1>6. q.next <= Len(q.targets) /\ q.next \in Nat
  BY <1>1, <1>2
<1>7. CASE q.next < Len(q.targets)
  <2>1. AfterReads(q) = q
    BY <1>2, <1>7, <1>6, AfterReadsIs, Zenon
  <2>2. q.op = "update" => Len(q.targets) = 1
    BY <1>2 DEF Informed
  <2>3. Informed(q, us, ss)
    BY <1>2, <1>4, <2>2 DEF Informed, TargetOps
  <2> QED
    BY <2>1, <2>3
<1>8. CASE q.next = Len(q.targets) /\ q.op = "revokeUser"
  <2>1. a.op = "revokeUser" /\ a.pc = "revoke"
    BY <1>2, <1>5, <1>8, <1>6, AfterReadsIs, ZenonT(30)
  <2> QED
    BY <1>5, <2>1 DEF Informed
<1>9. CASE q.next = Len(q.targets) /\ q.op # "revokeUser"
  <2>1. /\ a.op = q.op /\ a.pc \in {"count", "write"} /\ a.payload = q.payload
        /\ a.admin = q.admin /\ a.actor = q.actor /\ a.targets = q.targets /\ a.next = q.next
        /\ a.tAdmin = ad /\ a.tActive = ac
    <3>1. /\ a.op = q.op /\ a.pc \in {"count", "write"} /\ a.payload = q.payload
          /\ a.admin = q.admin /\ a.actor = q.actor /\ a.targets = q.targets
          /\ a.next = q.next /\ a.tAdmin = q.tAdmin /\ a.tActive = q.tActive
      <4>1. q \in Request
        BY <1>2
      <4> QED
        BY <1>5, <1>9, <1>6, <4>1, AfterReadsIs, Zenon
    <3> QED
      BY <1>2, <3>1
  <2>2. \A i \in 1..a.next : Passed(a, a.targets[i], us)
    BY <1>4, <2>1, PassedStays
  <2>3. a.op = "update" => Len(a.targets) = 1 /\ Target(a) = r.targets[r.next + 1]
    BY <1>1, <1>2, <1>9, <2>1 DEF Informed, Target
  <2> QED
    <3>1. Informed(a, us, ss)
      BY <1>2, <2>1, <2>2, <2>3 DEF Informed, TargetOps
    <3> QED
      BY <1>5, <3>1
<1> QED
  BY <1>1, <1>2, <1>7, <1>8, <1>9

\* They keep the invariant.
LEMMA AdminKeepsSessions ==
    ASSUME Alone, TypeInv, SessionsInv, SessionOwnerExists, NEW w \in Worker, AdminStep(w)
    PROVE  SessionsInv'
<1> DEFINE r == req[w]
           t == Target(r)
<1>1. /\ r \in Request /\ Shaped(r) /\ clock \in Nat /\ r.next \in Nat /\ r.leaving \in Nat
      /\ r.targets \in Seq(User) /\ Len(r.targets) \in Nat
      /\ Informed(r, users, sessions)
      /\ \A s \in Session : SessionOK(s, r, users, sessions) /\ sessions[s].user \in User
  BY SessionsOfOne DEF TypeInv, Request, SessionRow
<1>2. ASSUME Finish(w), UNCHANGED users, \A s \in Session : Same(s),
             r.pc \notin {"revoke", "password"}
      PROVE  SessionsInv'
  BY <1>2, OverInformed, QuietSessions DEF Finish
<1>3. ASSUME UNCHANGED sessions PROVE \A s \in Session : Same(s)
  BY <1>3 DEF Same
<1>4. ASSUME NEW s \in Session, NEW op \in Op \cap AdminOps, NEW input \in Inputs(op),
             LookUp(w, s, op, input[1], input[2])
      PROVE  SessionsInv'
  <2> DEFINE q == [NoRequest EXCEPT !.pc = "lookup", !.op = op, !.sid = s,
                  !.seenUsed = sessions[s].lastUsed, !.seenExpires = sessions[s].expires,
                  !.actor = sessions[s].user, !.targets = input[1], !.payload = input[2]]
  <2>1. q.pc = "lookup" /\ q.op = op /\ q.next = 0 /\ q.targets = input[1]
    BY DEF NoRequest
  <2>2. /\ req' = [req EXCEPT ![w] = q] /\ UNCHANGED <<users, sessions>>
        /\ r.pc \notin {"revoke", "password"}
    BY <1>4 DEF LookUp
  <2>3. op = "update" => Len(input[1]) = 1
    <3> SUFFICES ASSUME op = "update" PROVE Len(input[1]) = 1
      OBVIOUS
    <3>1. input \in {<<u>> : u \in User} \X Sent
      BY DEF Inputs
    <3>2. PICK u \in User : input[1] = <<u>>
      BY <3>1
    <3> QED
      BY <3>2
  <2> HIDE DEF q
  <2>4. Informed(q, users, sessions')
    BY <2>1, <2>3 DEF Informed, AdminOps
  <2> QED
    BY <1>3, <2>2, <2>4, QuietSessions
<1>5. ASSUME Forbidden(w) PROVE SessionsInv'
  BY <1>2, <1>3, <1>5 DEF Forbidden
<1>6. ASSUME RevokeAny(w) PROVE SessionsInv'
  <2>1. \E which : sessions' = Revoked(which, clock)
    BY <1>6 DEF RevokeAny
  <2> QED
    BY <1>1, <1>2, <1>6, <2>1, RevokedSame DEF RevokeAny, Handles
<1>7. ASSUME ReadTarget(w) PROVE SessionsInv'
  <2> DEFINE n == r.targets[r.next + 1]
             row == users[n]
             lv == IF Leaves(r, row) THEN r.leaving + 1 ELSE r.leaving
             q == [r EXCEPT !.next = r.next + 1, !.tAdmin = row.admin, !.tActive = row.active,
                     !.leaving = lv]
             a == AfterReads(q)
  <2>1. /\ r.pc = "handle" /\ r.op \in TargetOps /\ UNCHANGED <<users, sessions>>
        /\ req' = [req EXCEPT ![w] = IF Refused(r, n) THEN NoRequest ELSE a]
    BY <1>1, <1>7 DEF ReadTarget, TargetOps, Request
  <2>2. n \in User
    BY <1>1, <2>1 DEF Shaped
  <2>3. row.admin \in BOOLEAN /\ row.active \in BOOLEAN /\ lv \in Nat
    BY <1>1, <2>2 DEF TypeInv, UserRow
  <2>4. ~Refused(r, n) => Passed(r, n, users)
    BY DEF Refused, Passed, Live
  <2>5. q = [r EXCEPT !.next = r.next + 1, !.tAdmin = row.admin, !.tActive = row.active,
                     !.leaving = lv]
    OBVIOUS
  <2> HIDE DEF q, lv
  <2>6. ~Refused(r, n) => Informed(a, users, sessions)
    BY <1>1, <2>1, <2>3, <2>4, <2>5, ReadInformed
  <2>7. Informed(IF Refused(r, n) THEN NoRequest ELSE a, users, sessions')
    BY <2>1, <2>6, OverInformed
  <2> QED
    BY <1>3, <2>1, <2>7, QuietSessions
<1>8. ASSUME CountAdmins(w) PROVE SessionsInv'
  <2>1. CASE Finish(w)
    BY <1>2, <1>3, <1>8, <2>1 DEF CountAdmins
  <2>2. CASE ~Finish(w)
    <3> DEFINE q == [r EXCEPT !.pc = "write"]
    <3>1. r.pc = "count" /\ req' = [req EXCEPT ![w] = q] /\ UNCHANGED <<users, sessions>>
      BY <1>8, <2>2 DEF CountAdmins, Goto, TypeInv
    <3>2. /\ q.pc = "write" /\ q.op = r.op /\ q.payload = r.payload /\ q.next = r.next
          /\ q.targets = r.targets /\ q.admin = r.admin /\ q.actor = r.actor /\ q.sid = r.sid
          /\ q.tAdmin = r.tAdmin /\ q.tActive = r.tActive
      BY <1>1 DEF Request
    <3> HIDE DEF q
    <3>3. r.op \in TargetOps => \A i \in 1..q.next : Passed(q, q.targets[i], users)
      BY <1>1, <3>1, <3>2, PassedStays DEF Informed
    <3>4. Informed(q, users, sessions')
      BY <1>1, <3>1, <3>2, <3>3 DEF Informed, Target
    <3> QED
      BY <1>3, <3>1, <3>4, QuietSessions
  <2> QED
    BY <2>1, <2>2
<1>9. ASSUME r.pc \in {"write", "password"}
      PROVE  /\ t \in User /\ r.op \in TargetOps /\ r.next = Len(r.targets) /\ 1 \in 1..r.next
             /\ r.pc = "write" => Due(r) = {} /\ Passed(r, t, users)
  <2>1. r.op \in TargetOps /\ Len(r.targets) >= 1 /\ r.next = Len(r.targets)
    BY <1>1, <1>9 DEF Shaped
  <2> QED
    BY <1>1, <1>9, <2>1 DEF Target, Due, Informed
<1>10. ASSUME UpdateUser(w) PROVE SessionsInv'
  <2> DEFINE p == r.payload
             q == IF p.password THEN [r EXCEPT !.pc = "password"]
                  ELSE IF LosesRights(r) THEN [r EXCEPT !.pc = "revoke", !.revokees = {t}]
                  ELSE NoRequest
  <2>1. /\ r.pc = "write" /\ r.op = "update" /\ req' = [req EXCEPT ![w] = q]
        /\ UNCHANGED sessions
    BY <1>10 DEF UpdateUser, Writes
  <2>2. /\ t \in User /\ Due(r) = {} /\ Passed(r, t, users) /\ users[t] \in UserRow
        /\ r.tAdmin = users[t].admin /\ r.tActive = users[t].active
        /\ p \in Payload
    BY <1>1, <1>9, <2>1 DEF Informed, TypeInv, Request
  <2>3. /\ \A u \in User \ {t} : users'[u] = users[u]
        /\ users'[t] = WithFlags(users[t], p.admin, p.active, p.must)
    BY <1>10, <2>2 DEF UpdateUser, TypeInv, Passed, Live
  <2>4. /\ users'[t].hash = users[t].hash /\ users'[t].admin = p.admin
        /\ ~LosesRights(r) => users'[t].epoch = users[t].epoch
    BY <2>2, <2>3 DEF WithFlags, LosesRights, UserRow
  <2>5. q = NoRequest \/ (q.op = "update" /\ q.targets = r.targets /\ q.admin = r.admin
                          /\ q.pc \in {"password", "revoke"} /\ Due(q) = {t})
    BY <1>1, <2>1 DEF Request, Due, Target
  <2>6. q = NoRequest => ~LosesRights(r)
    BY <1>1 DEF NoRequest, Request
  <2> HIDE DEF q
  <2>7. Informed(q, users', sessions')
    <3>1. CASE q = NoRequest
      BY <3>1, OverInformed
    <3>2. CASE q # NoRequest
      <4>1. ~r.admin => ~p.admin
        BY <2>1, <2>2 DEF Passed, AdminGuarded
      <4> QED
        BY <1>1, <2>1, <2>4, <2>5, <3>2, <4>1 DEF Informed, Target
    <3> QED
      BY <3>1, <3>2
  <2>8. q # NoRequest => Spared(q) = {}
    BY <2>5 DEF Spared
  <2>9. ASSUME NEW s \in Session PROVE SessionOK(s, q, users', sessions')
    BY <1>1, <2>1, <2>2, <2>3, <2>4, <2>5, <2>6, <2>8 DEF SessionOK, Current
  <2> QED
    BY <2>1, <2>7, <2>9, SessionsStep
<1>11. ASSUME UpdatePassword(w) \/ ResetPassword(w) PROVE SessionsInv'
  <2> DEFINE q == [r EXCEPT !.pc = "revoke", !.revokees = {t}]
  <2>1. /\ r.pc \in {"write", "password"} /\ req' = [req EXCEPT ![w] = q] /\ UNCHANGED sessions
        /\ r.pc = "write" => r.op = "reset"
        /\ \E must : users' = WithPassword(t, must)
    BY <1>1, <1>11 DEF UpdatePassword, ResetPassword, Writes, TypeInv, Request
  <2>2. /\ t \in User /\ Due(r) \subseteq {t} /\ r.op \in {"update", "reset"}
    BY <1>1, <1>9, <2>1 DEF Due, Informed
  <2>3. \A u \in User \ {t} : users'[u] = users[u]
    BY <2>1, <2>2 DEF WithPassword, TypeInv
  <2>4. q.op = r.op /\ q.pc = "revoke" /\ q.revokees = {t} /\ q.targets = r.targets
    BY <1>1 DEF Request
  <2> HIDE DEF q
  <2>5. Informed(q, users', sessions')
    BY <1>1, <2>2, <2>4 DEF Informed
  <2>6. Due(q) = {t} /\ Spared(q) = {}
    BY <2>2, <2>4 DEF Due, Spared
  <2>7. ASSUME NEW s \in Session PROVE SessionOK(s, q, users', sessions')
    BY <1>1, <2>1, <2>2, <2>3, <2>6 DEF SessionOK, Current
  <2> QED
    BY <2>1, <2>5, <2>7, SessionsStep
<1>12. ASSUME DeleteUser(w) PROVE SessionsInv'
  <2>1. r.pc = "write" /\ t \in User /\ Due(r) = {}
    BY <1>9, <1>12 DEF DeleteUser, Writes
  <2>2. \A u \in User : users'[u].hash = users[u].hash /\ users'[u].epoch = users[u].epoch
    BY <1>12, <2>1 DEF DeleteUser, TypeInv, UserRow
  <2>3. \A s \in Session : Same(s)
    BY <1>12 DEF DeleteUser, Same, TypeInv, SessionRow
  <2>4. \A s \in Session : SessionOK(s, NoRequest, users', sessions')
    BY <1>1, <2>1, <2>2, <2>3 DEF SessionOK, Same, Current
  <2> QED
    BY <1>12, <2>4, OverInformed, SessionsStep DEF DeleteUser, Finish
<1>13. ASSUME SetUsersActive(w) PROVE SessionsInv'
  <2> DEFINE changed == {u \in Ids(r) : Live(u) /\ users[u].active # r.payload.active}
             q == IF ~r.payload.active /\ changed # {}
                  THEN [r EXCEPT !.pc = "revoke", !.revokees = changed] ELSE NoRequest
  <2>1. /\ r.pc = "write" /\ r.op = "bulk" /\ req' = [req EXCEPT ![w] = q] /\ UNCHANGED sessions
        /\ users' = [u \in User |->
              IF u \in changed
              THEN WithFlags(users[u], users[u].admin, r.payload.active, users[u].must)
              ELSE users[u]]
    BY <1>13 DEF SetUsersActive, Writes
  <2>2. Due(r) = {} /\ r.payload.active \in BOOLEAN
    BY <1>1, <1>9, <2>1 DEF Request, Payload
  <2>3. \A u \in User : users'[u].hash = users[u].hash
    BY <2>1 DEF TypeInv, UserRow, WithFlags
  <2>4. \A u \in User : u \notin changed \/ r.payload.active => users'[u].epoch = users[u].epoch
    BY <2>1, <2>2 DEF TypeInv, UserRow, WithFlags
  <2> HIDE DEF changed
  <2>5. q = NoRequest \/ (q.op = "bulk" /\ q.pc = "revoke" /\ q.revokees = changed)
    BY <1>1, <2>1 DEF Request
  <2>6. q = NoRequest => r.payload.active \/ changed = {}
    BY <1>1 DEF NoRequest, Request
  <2> HIDE DEF q
  <2>7. Informed(q, users', sessions')
    BY <2>5, OverInformed DEF Informed
  <2>8. q # NoRequest => Due(q) = changed /\ Spared(q) = {}
    BY <2>5 DEF Due, Spared
  <2>9. ASSUME NEW s \in Session PROVE SessionOK(s, q, users', sessions')
    BY <1>1, <2>1, <2>2, <2>3, <2>4, <2>6, <2>8 DEF SessionOK, Current
  <2> QED
    BY <2>1, <2>7, <2>9, SessionsStep
<1>14. ASSUME CreateUser(w) PROVE SessionsInv'
  <2>1. Finish(w) /\ UNCHANGED sessions /\ r.pc = "handle"
    BY <1>14 DEF CreateUser, Handles
  <2>2. \A u \in User : Live(u) => users'[u] = users[u]
    BY <1>14, SessionConstants DEF CreateUser, TypeInv, Live
  <2>3. Due(r) = {}
    BY <2>1 DEF Due
  <2>4. \A s \in Session : SessionOK(s, NoRequest, users', sessions')
    BY <1>1, <2>1, <2>2, <2>3 DEF SessionOK, Current, SessionOwnerExists
  <2> QED
    BY <2>1, <2>4, OverInformed, SessionsStep DEF Finish
<1> QED
  BY <1>4, <1>5, <1>6, <1>7, <1>8, <1>10, <1>11, <1>12, <1>13, <1>14 DEF AdminStep

\* Initially there is no session, and no request knows anything.
LEMMA InitSessions == Init => SessionsInv /\ SessionOwnerExists
<1> SUFFICES ASSUME Init PROVE SessionsInv /\ SessionOwnerExists
  OBVIOUS
<1>1. (\A w \in Worker : req[w] = NoRequest) /\ \A s \in Session : sessions[s].status = "unused"
  BY DEF Init
<1> QED
  BY <1>1, OverInformed DEF SessionsInv, SessionOwnerExists

\* When requests do not overlap, every step keeps the invariant.
LEMMA SessionsKept ==
    ASSUME Alone, TypeInv, SessionsInv, SessionOwnerExists, [Next]_vars
    PROVE  SessionsInv' /\ SessionOwnerExists'
<1>1. SessionOwnerExists'
  BY Rows DEF RowsStep, SessionOwnerExists, Kept, Started, Live
<1>2. CASE Background \/ UNCHANGED vars
  <2>1. UNCHANGED <<users, req>> /\ \A s \in Session : Same(s)
    BY <1>2 DEF Background, PurgeSessions, Tick, vars, Same, TypeInv, SessionRow
  <2>2. \A w \in Worker : Informed(req[w], users, sessions')
    BY <2>1 DEF SessionsInv, Informed, Same, TypeInv, Request
  <2>3. SessionsInv'
    BY <2>1, <2>2 DEF SessionsInv, Same, Current
  <2> QED
    BY <1>1, <2>3
<1> QED
  BY <1>1, <1>2, SelfKeepsSessions, AdminKeepsSessions DEF Next

\* When requests do not overlap and clients wait for their answers, no session survives a
\* new password, a loss of access or of admin rights: not the one of a reset, of an edit
\* that sets both, of a bulk deactivation, or any but the caller's own when people change
\* their password.
THEOREM SerialLoss == Alone /\ "abandon" \notin Op => (Spec => []LossEndsSessions)
<1> SUFFICES ASSUME Alone, "abandon" \notin Op PROVE Spec => []LossEndsSessions
  OBVIOUS
<1>1. SessionsInv => LossEndsSessions
  BY DEF SessionsInv, LossEndsSessions, Usable, Current, Due
<1>2. TypeInv /\ SessionsInv /\ SessionOwnerExists /\ [Next]_vars
         => SessionsInv' /\ SessionOwnerExists'
  BY SessionsKept
<1> QED
  BY <1>1, <1>2, InitSessions, TypeInit, TypeStep, PTL DEF Spec

-----------------------------------------------------------------------------
(* The rules of account management *)

\* What a step of the request of w does to the accounts, by the rules.
ByTheRules(w) ==
    LET r == req[w]
    IN  /\ users[r.actor].status = "live" =>
              /\ users'[r.actor].status = "live"
              /\ users[r.actor].active => users'[r.actor].active
              /\ users[r.actor].admin => users'[r.actor].admin
        /\ ~r.admin => \A u \in User :
              /\ users[u].status = "live" /\ users[u].admin =>
                    users'[u] = users[u] \/ u = r.actor
              /\ users'[u].admin /\ users'[u].status = "live" => users[u].admin

\* A new password leaves everything else of the row.
LEMMA PasswordOnly ==
    ASSUME TypeInv, NEW t \in User, NEW must \in BOOLEAN, users' = WithPassword(t, must)
    PROVE  /\ \A u \in User \ {t} : users'[u] = users[u]
           /\ users'[t].status = users[t].status /\ users'[t].admin = users[t].admin
           /\ users'[t].active = users[t].active
BY DEF WithPassword, TypeInv, UserRow

\* Every step of a request that does not overlap with another is by the rules.
LEMMA StepByTheRules ==
    ASSUME Alone, TypeInv, SessionsInv, NEW w \in Worker, SelfStep(w) \/ AdminStep(w)
    PROVE  ByTheRules(w)
<1> DEFINE r == req[w]
           t == Target(r)
           p == r.payload
<1>1. /\ r \in Request /\ Shaped(r) /\ r.actor \in User /\ p \in Payload
      /\ r.targets \in Seq(User) /\ Len(r.targets) \in Nat /\ r.next \in Nat
      /\ Informed(r, users, sessions)
  BY SessionsOfOne DEF TypeInv, Request
<1>2. CASE UNCHANGED users
  BY <1>2 DEF ByTheRules
<1>3. CASE ChangePassword(w)
  <2>1. users' = WithPassword(r.actor, FALSE)
    BY <1>3 DEF ChangePassword
  <2>2. /\ \A u \in User \ {r.actor} : users'[u] = users[u]
        /\ users'[r.actor].status = users[r.actor].status
        /\ users'[r.actor].admin = users[r.actor].admin
        /\ users'[r.actor].active = users[r.actor].active
    BY <1>1, <2>1, PasswordOnly
  <2> QED
    BY <1>1, <2>2 DEF ByTheRules
<1>4. ASSUME r.pc \in {"write", "password"}
      PROVE  /\ t \in User /\ r.op \in TargetOps /\ r.next = Len(r.targets) /\ 1 \in 1..r.next
             /\ r.pc = "write" => Passed(r, t, users)
  <2>1. r.op \in TargetOps /\ Len(r.targets) >= 1 /\ r.next = Len(r.targets)
    BY <1>1, <1>4 DEF Shaped
  <2> QED
    BY <1>1, <1>4, <2>1 DEF Target, Informed
<1>5. CASE UpdateUser(w)
  <2>1. r.pc = "write" /\ r.op = "update"
    BY <1>5 DEF UpdateUser, Writes
  <2>2. t \in User /\ Passed(r, t, users) /\ users[t] \in UserRow
    BY <1>4, <2>1 DEF TypeInv
  <2>3. /\ \A u \in User \ {t} : users'[u] = users[u]
        /\ users'[t] = WithFlags(users[t], p.admin, p.active, p.must)
    BY <1>5, <2>2 DEF UpdateUser, TypeInv, Passed, Live
  <2>4. users'[t].status = "live" /\ users'[t].admin = p.admin /\ users'[t].active = p.active
    BY <2>2, <2>3 DEF WithFlags, UserRow, Passed
  <2>5. t = r.actor => p.active /\ (users[t].admin => p.admin)
    BY <2>1, <2>2 DEF Passed, SelfHarm, RemainActive, RemainAdmin
  <2>6. ~r.admin => ~users[t].admin /\ ~p.admin
    BY <2>1, <2>2 DEF Passed, AdminGuarded
  <2> QED
    BY <1>1, <2>3, <2>4, <2>5, <2>6 DEF ByTheRules
<1>6. CASE UpdatePassword(w) \/ ResetPassword(w)
  <2>1. /\ r.pc = "password" \/ (r.pc = "write" /\ r.op = "reset")
        /\ \E must \in BOOLEAN : users' = WithPassword(t, must)
    BY <1>1, <1>6 DEF UpdatePassword, ResetPassword, Writes, Payload
  <2>2. t \in User /\ (~r.admin => ~users[t].admin)
    BY <1>1, <1>4, <2>1 DEF Informed, Passed, AdminGuarded
  <2>3. /\ \A u \in User \ {t} : users'[u] = users[u]
        /\ users'[t].status = users[t].status /\ users'[t].admin = users[t].admin
        /\ users'[t].active = users[t].active
    BY <2>1, <2>2, PasswordOnly
  <2> QED
    BY <1>1, <2>2, <2>3 DEF ByTheRules
<1>7. CASE DeleteUser(w)
  <2>1. r.pc = "write" /\ r.op = "delete"
    BY <1>7 DEF DeleteUser, Writes
  <2>2. t \in User /\ Passed(r, t, users)
    BY <1>4, <2>1
  <2>3. t # r.actor
    BY <2>1, <2>2 DEF Passed, SelfHarm, RemainActive
  <2>4. ~r.admin => ~users[t].admin
    BY <2>2 DEF Passed, AdminGuarded
  <2>5. /\ \A u \in User \ {t} : users'[u] = users[u]
        /\ users'[t].status = "deleted"
    BY <1>7, <2>2 DEF DeleteUser, TypeInv, UserRow
  <2> QED
    BY <1>1, <2>2, <2>3, <2>4, <2>5 DEF ByTheRules
<1>8. CASE SetUsersActive(w)
  <2> DEFINE changed == {u \in Ids(r) : Live(u) /\ users[u].active # p.active}
  <2>1. /\ r.pc = "write" /\ r.op = "bulk"
        /\ users' = [u \in User |->
              IF u \in changed
              THEN WithFlags(users[u], users[u].admin, p.active, users[u].must)
              ELSE users[u]]
    BY <1>8 DEF SetUsersActive, Writes
  <2>2. \A u \in changed : Passed(r, u, users)
    <3> SUFFICES ASSUME NEW u \in changed PROVE Passed(r, u, users)
      OBVIOUS
    <3>1. PICK i \in DOMAIN r.targets : r.targets[i] = u
      BY DEF Ids
    <3>2. i \in 1..r.next
      BY <1>1, <1>4, <2>1, <3>1
    <3> QED
      BY <1>1, <2>1, <3>1, <3>2 DEF Informed, TargetOps
  <2> HIDE DEF changed
  <2>3. \A u \in User :
           /\ users'[u].status = users[u].status /\ users'[u].admin = users[u].admin
           /\ u \notin changed => users'[u] = users[u]
           /\ u \in changed => users'[u].active = p.active
    BY <2>1 DEF TypeInv, UserRow, WithFlags
  <2>4. r.actor \in changed => p.active
    BY <2>1, <2>2 DEF Passed, SelfHarm, RemainActive
  <2>5. ~r.admin => \A u \in changed : ~users[u].admin
    BY <2>2 DEF Passed, AdminGuarded
  <2> QED
    BY <1>1, <2>3, <2>4, <2>5 DEF ByTheRules
<1>9. CASE CreateUser(w)
  <2>1. CASE UNCHANGED users
    BY <2>1 DEF ByTheRules
  <2>2. CASE ~UNCHANGED users
    <3>1. ~(p.admin /\ ~r.admin)
      BY <1>9, <2>2 DEF CreateUser
    <3>2. PICK n \in Local :
            /\ users[n].status = "unused"
            /\ users' = [users EXCEPT ![n] =
                  [status |-> "live", active |-> TRUE, admin |-> p.admin,
                   must |-> p.must, hash |-> 0, epoch |-> 0]]
      BY <1>9, <3>1 DEF CreateUser
    <3>3. n \in User
      BY SessionConstants
    <3>4. (\A u \in User \ {n} : users'[u] = users[u]) /\ users'[n].admin = p.admin
      BY <3>2, <3>3 DEF TypeInv
    <3> QED
      BY <1>1, <3>1, <3>2, <3>4 DEF ByTheRules
  <2> QED
    BY <2>1, <2>2
<1> QED
  BY <1>2, <1>3, <1>5, <1>6, <1>7, <1>8, <1>9
     DEF SelfStep, AdminStep, Authenticate, StartSession, LookUp, Identify, Reject, Touch, Serve,
         Logout, RevokeMine, RevokeMyOthers, ChangePasswordRefused, RevokeUserSessions, Abandon,
         Forbidden, ReadTarget, CountAdmins, RevokeAny

\* When requests do not overlap, nobody deactivates, demotes or deletes themselves, whatever
\* list of ids they send, and a manager who is no administrator neither touches an
\* administrator's account nor makes one.
THEOREM SerialRules == Alone => (Spec => ManagementRules)
<1> SUFFICES ASSUME Alone PROVE Spec => ManagementRules
  OBVIOUS
<1>1. TypeInv /\ SessionsInv /\ SessionOwnerExists /\ [Next]_vars
         => SessionsInv' /\ SessionOwnerExists'
  BY SessionsKept
<1>2. ASSUME TypeInv, SessionsInv, [Next]_vars, NEW w \in Worker, Steps(w)
      PROVE  ByTheRules(w)
  <2>1. SelfStep(w) \/ AdminStep(w)
    BY <1>2 DEF Next, Steps, vars, Background, PurgeSessions, Tick, Alone
  <2> QED
    BY <1>2, <2>1, StepByTheRules
<1>3. TypeInv /\ SessionsInv /\ [Next]_vars =>
         [\A w \in Worker : Steps(w) /\ Live(req[w].actor) =>
             LET old == users[req[w].actor]
                 new == users'[req[w].actor]
             IN  /\ new.status = "live"
                 /\ old.active => new.active
                 /\ old.admin => new.admin]_vars
  BY <1>2 DEF ByTheRules, Live
<1>4. TypeInv /\ SessionsInv /\ [Next]_vars =>
         [\A w \in Worker : Steps(w) /\ ~req[w].admin =>
            \A u \in User :
              /\ Live(u) /\ users[u].admin => users'[u] = users[u] \/ u = req[w].actor
              /\ users'[u].admin /\ users'[u].status = "live" => users[u].admin]_vars
  BY <1>2 DEF ByTheRules, Live
<1> QED
  BY <1>1, <1>3, <1>4, InitSessions, TypeInit, TypeStep, PTL
     DEF Spec, ManagementRules, NobodyHarmsThemselves, OnlyAdminsManageAdmins

=============================================================================
