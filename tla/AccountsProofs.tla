--------------------------- MODULE AccountsProofs ---------------------------
(***************************************************************************)
(* Proofs about Accounts for every set of users, sessions and requests in  *)
(* flight, and every timeout.                                              *)
(***************************************************************************)
EXTENDS Accounts, FiniteSetTheorems, TLAPS

TargetOps == {"revokeUser", "reset", "update", "delete", "bulk"}

\* How far a request that takes user ids has come with reading them.
Shaped(r) ==
    /\ r.op \in TargetOps => Len(r.targets) >= 1 /\ r.next <= Len(r.targets)
    /\ r.op \in TargetOps /\ r.pc \in {"lookup", "touch", "handle"}
          => r.next < Len(r.targets)
    /\ r.pc \in {"count", "write", "password"}
          => r.op \in TargetOps /\ r.next = Len(r.targets)
    /\ r.pc = "revoke" => r.revokees # {}

\* A request of the right type and shape.
Good(r) == r \in Request /\ Shaped(r)

TypeInv ==
    /\ users \in [User -> UserRow]
    /\ sessions \in [Session -> SessionRow]
    /\ req \in [Worker -> Request]
    /\ clock \in Nat
    /\ \A w \in Worker : Shaped(req[w])

-----------------------------------------------------------------------------
(* Values of the helpers *)

\* The record of a request that is over is a good one.
LEMMA NoRequestGood == Good(NoRequest) /\ NoPayload \in Payload
<1>1. (CHOOSE s \in Session : TRUE) \in Session /\ (CHOOSE u \in User : TRUE) \in User
  BY SessionConstants
<1>2. <<>> \in Seq(User) /\ NoPayload \in Payload
  BY DEF NoPayload, Payload
<1> QED
  BY <1>1, <1>2 DEF NoRequest, Request, Good, Shaped, TargetOps

\* A step that replaces one request by a good one keeps req well typed and shaped.
LEMMA OneRequest ==
    ASSUME TypeInv, NEW w \in Worker, NEW r, Good(r), req' = [req EXCEPT ![w] = r]
    PROVE  req' \in [Worker -> Request] /\ \A v \in Worker : Shaped(req'[v])
BY DEF TypeInv, Good

\* RevokeSession and RevokeUserSessions keep the session rows well typed.
LEMMA RevokedType ==
    ASSUME TypeInv, NEW which, NEW at \in Nat
    PROVE  Revoked(which, at) \in [Session -> SessionRow]
BY DEF TypeInv, Revoked, SessionRow

\* TouchSession keeps the session rows well typed.
LEMMA TouchedType ==
    ASSUME TypeInv, NEW s \in Session, NEW at \in Nat
    PROVE  Touched(s, at) \in [Session -> SessionRow]
BY DEF TypeInv, Touched, SessionRow

\* UpdateUserPassword keeps the user rows well typed.
LEMMA WithPasswordType ==
    ASSUME TypeInv, NEW u \in User, NEW must \in BOOLEAN
    PROVE  WithPassword(u, must) \in [User -> UserRow]
<1>1. users[u] \in UserRow /\ users[u].hash + 1 \in Nat
  BY DEF TypeInv, UserRow
<1>2. [users[u] EXCEPT !.hash = users[u].hash + 1, !.must = must] \in UserRow
  BY <1>1 DEF UserRow
<1> QED
  BY <1>1, <1>2 DEF TypeInv, WithPassword

\* The flags an administrator sets keep a user row well typed.
LEMMA WithFlagsType ==
    ASSUME NEW row \in UserRow, NEW ad \in BOOLEAN, NEW ac \in BOOLEAN, NEW mu \in BOOLEAN
    PROVE  WithFlags(row, ad, ac, mu) \in UserRow
<1> DEFINE e == IF (row.active /\ ~ac) \/ (row.admin /\ ~ad) THEN row.epoch + 1 ELSE row.epoch
<1>1. e \in Nat
  BY DEF UserRow
<1>2. WithFlags(row, ad, ac, mu) =
        [row EXCEPT !.admin = ad, !.active = ac, !.must = mu, !.epoch = e]
  BY DEF WithFlags, UserRow
<1> HIDE DEF e
<1> QED
  BY <1>1, <1>2 DEF UserRow

\* What clients send: ids in a sequence, at least one where the operation takes ids.
LEMMA InputsType ==
    ASSUME NEW op \in AdminOps, NEW input \in Inputs(op)
    PROVE  /\ input[1] \in Seq(User) /\ input[2] \in Payload
           /\ op \in TargetOps => Len(input[1]) >= 1
<1>0. NoPayload \in Payload /\ Sent \subseteq Payload
  BY NoRequestGood, AccountConstants
<1>1. CASE op \in {"revokeUser", "reset", "delete"}
  <2>1. Inputs(op) = {<<u>> : u \in User} \X {NoPayload}
    BY <1>1 DEF Inputs
  <2>2. PICK u \in User : input = <<<<u>>, NoPayload>>
    BY <2>1
  <2> QED
    BY <1>0, <2>2
<1>2. CASE op = "update"
  <2>1. Inputs(op) = {<<u>> : u \in User} \X Sent
    BY <1>2 DEF Inputs
  <2>2. PICK u \in User, p \in Sent : input = <<<<u>>, p>>
    BY <2>1
  <2> QED
    BY <1>0, <2>2
<1>3. CASE op = "bulk"
  <2>1. Inputs(op) = {<<u, v>> : u \in User, v \in User} \X Sent
    BY <1>3 DEF Inputs
  <2>2. PICK u \in User, v \in User, p \in Sent : input = <<<<u, v>>, p>>
    BY <2>1
  <2> QED
    BY <1>0, <2>2
<1>4. CASE op = "create"
  <2>1. Inputs(op) = {<<>>} \X Sent
    BY <1>4 DEF Inputs
  <2>2. PICK p \in Sent : input = <<<<>>, p>>
    BY <2>1
  <2> QED
    BY <1>0, <1>4, <2>2 DEF TargetOps
<1>5. CASE op = "revokeAny"
  <2>1. Inputs(op) = {<<>>} \X {NoPayload}
    BY <1>5 DEF Inputs
  <2>2. input = <<<<>>, NoPayload>>
    BY <2>1
  <2> QED
    BY <1>0, <1>5, <2>2 DEF TargetOps
<1> QED
  BY <1>1, <1>2, <1>3, <1>4, <1>5 DEF AdminOps

\* requireSession sends a good request to its handler or drops it.
LEMMA AdmittedGood ==
    ASSUME NEW r \in Request, Shaped(r), r.pc \in {"lookup", "touch"}
    PROVE  Good(Admitted(r))
<1>1. Good([r EXCEPT !.pc = "handle"])
  BY DEF Good, Shaped, Request, TargetOps
<1> QED
  BY <1>1, NoRequestGood DEF Admitted

\* After a target was read the request is where the handler goes next.
LEMMA AfterReadsGood ==
    ASSUME NEW r \in Request, r.pc = "handle", r.op \in TargetOps,
           Len(r.targets) >= 1, r.next <= Len(r.targets)
    PROVE  Good(AfterReads(r))
<1>0. r.next \in Nat /\ Len(r.targets) \in Nat /\ r.targets \in Seq(User)
  BY DEF Request
<1>1. CASE r.next < Len(r.targets)
  BY <1>0, <1>1 DEF AfterReads, Good, Shaped
<1>2. CASE r.next = Len(r.targets) /\ r.op = "revokeUser"
  <2>1. AfterReads(r) = [r EXCEPT !.pc = "revoke", !.revokees = {r.targets[1]}]
    BY <1>0, <1>2 DEF AfterReads
  <2>2. {r.targets[1]} \in SUBSET User
    BY <1>0
  <2>3. AfterReads(r) \in Request
    BY <2>1, <2>2, Zenon DEF Request
  <2> QED
    BY <1>0, <1>2, <2>1, <2>3 DEF Good, Shaped, Request, TargetOps
<1>3. CASE r.next = Len(r.targets) /\ r.op # "revokeUser"
  <2>1. AfterReads(r) = [r EXCEPT !.pc = IF r.leaving > 0 THEN "count" ELSE "write"]
    BY <1>0, <1>3 DEF AfterReads
  <2> QED
    BY <1>0, <1>3, <2>1 DEF Good, Shaped, Request, TargetOps
<1> QED
  BY <1>0, <1>1, <1>2, <1>3

-----------------------------------------------------------------------------
(* Types *)

\* A step that ends the request of w keeps req well typed and shaped.
LEMMA FinishGood ==
    ASSUME TypeInv, NEW w \in Worker, Finish(w)
    PROVE  req' \in [Worker -> Request] /\ \A v \in Worker : Shaped(req'[v])
BY OneRequest, NoRequestGood DEF Finish

\* The steps of sign-in and of requireSession keep the types.
LEMMA SessionTypes ==
    ASSUME TypeInv, NEW w \in Worker,
           \/ \E u \in User : Authenticate(w, u)
           \/ StartSession(w) \/ Identify(w) \/ Reject(w) \/ Touch(w)
    PROVE  TypeInv'
<1> DEFINE r == req[w]
<1>0. r \in Request /\ Shaped(r)
  BY DEF TypeInv
<1>1. ASSUME NEW u \in User, Authenticate(w, u) PROVE TypeInv'
  <2> DEFINE q == [NoRequest EXCEPT !.pc = "session", !.op = "login", !.actor = u,
                                    !.hash = users[u].hash, !.epoch = users[u].epoch]
  <2>1. users[u].hash \in Nat /\ users[u].epoch \in Nat
    BY DEF TypeInv, UserRow
  <2>2. Good(q)
    BY <2>1, NoRequestGood, ZenonT(30) DEF Good, Request, Shaped, TargetOps
  <2>3. req' = [req EXCEPT ![w] = q]
    BY <1>1 DEF Authenticate
  <2> HIDE DEF q
  <2> QED
    BY <1>1, <2>2, <2>3, OneRequest DEF Authenticate, TypeInv
<1>2. ASSUME StartSession(w) PROVE TypeInv'
  <2>1. sessions' \in [Session -> SessionRow]
    <3>1. [status |-> "live", user |-> r.actor, lastUsed |-> clock,
           expires |-> clock + MaxAge, revokedAt |-> Never,
           hash |-> r.hash, epoch |-> r.epoch] \in SessionRow
      BY <1>0, SessionConstants DEF SessionRow, Request, TypeInv, Never
    <3> QED
      BY <1>2, <3>1 DEF StartSession, TypeInv
  <2> QED
    BY <1>2, <2>1, FinishGood DEF StartSession, TypeInv
<1>3. ASSUME Identify(w) PROVE TypeInv'
  <2> DEFINE u == users[r.actor]
             known == [r EXCEPT !.now = clock, !.admin = u.admin, !.must = u.must,
                                !.hash = u.hash]
             next == IF clock >= r.seenExpires \/ clock - r.seenUsed > Idle THEN NoRequest
                     ELSE IF ~Live(r.actor) \/ ~u.active
                          THEN [r EXCEPT !.pc = "reject", !.now = clock]
                     ELSE IF clock - r.seenUsed > TouchEvery THEN [known EXCEPT !.pc = "touch"]
                     ELSE Admitted(known)
  <2>1. r.pc = "lookup" /\ req' = [req EXCEPT ![w] = next]
    BY <1>3 DEF Identify
  <2>2. u \in UserRow /\ clock \in Nat
    BY <1>0 DEF TypeInv, Request
  <2>3. u.admin \in BOOLEAN /\ u.must \in BOOLEAN /\ u.hash \in Nat
    BY <2>2 DEF UserRow
  <2>4. known \in Request /\ Shaped(known) /\ known.pc = "lookup"
    BY <1>0, <2>1, <2>2, <2>3 DEF Request, Shaped, TargetOps
  <2>5. Good([r EXCEPT !.pc = "reject", !.now = clock])
    BY <1>0, <2>1, <2>2 DEF Good, Request, Shaped, TargetOps
  <2>6. Good([known EXCEPT !.pc = "touch"])
    <3> HIDE DEF known
    <3> QED
      BY <2>4 DEF Good, Request, Shaped, TargetOps
  <2>7. Good(Admitted(known))
    BY <2>4, AdmittedGood
  <2>8. Good(next)
    BY <2>5, <2>6, <2>7, NoRequestGood
  <2> HIDE DEF next
  <2> QED
    BY <1>3, <2>1, <2>8, OneRequest DEF Identify, TypeInv
<1>4. ASSUME Reject(w) PROVE TypeInv'
  <2>1. sessions' \in [Session -> SessionRow]
    BY <1>0, <1>4, RevokedType DEF Reject, Request
  <2> QED
    BY <1>4, <2>1, FinishGood DEF Reject, TypeInv
<1>5. ASSUME Touch(w) PROVE TypeInv'
  <2>1. sessions' \in [Session -> SessionRow]
    BY <1>0, <1>5, TouchedType DEF Touch, Request
  <2>2. Good(Admitted(r))
    BY <1>0, <1>5, AdmittedGood DEF Touch
  <2> QED
    BY <1>5, <2>1, <2>2, OneRequest DEF Touch, TypeInv
<1> QED
  BY <1>1, <1>2, <1>3, <1>4, <1>5

\* A request that arrives with ids of users in a sequence is a good one.
LEMMA LookUpTypes ==
    ASSUME TypeInv, NEW w \in Worker, NEW s \in Session, NEW op \in SelfService \cup AdminOps,
           NEW targets \in Seq(User), NEW payload \in Payload,
           op \in TargetOps => Len(targets) >= 1,
           LookUp(w, s, op, targets, payload)
    PROVE  TypeInv'
<1> DEFINE q == [NoRequest EXCEPT !.pc = "lookup", !.op = op, !.sid = s,
                  !.seenUsed = sessions[s].lastUsed, !.seenExpires = sessions[s].expires,
                  !.actor = sessions[s].user, !.targets = targets, !.payload = payload]
<1>1. sessions[s].lastUsed \in Nat /\ sessions[s].expires \in Nat /\ sessions[s].user \in User
  BY DEF TypeInv, SessionRow
<1>2. q \in Request
  BY <1>1, NoRequestGood DEF Good, Request
<1>3. q.pc = "lookup" /\ q.op = op /\ q.targets = targets /\ q.next = 0
  BY DEF NoRequest
<1>4. Good(q)
  BY <1>2, <1>3 DEF Good, Shaped
<1>5. req' = [req EXCEPT ![w] = q]
  BY DEF LookUp
<1> HIDE DEF q
<1> QED
  BY <1>4, <1>5, OneRequest DEF LookUp, TypeInv

\* The handlers on one's own account, the purge and the clock keep the types.
LEMMA SelfTypes ==
    ASSUME TypeInv, NEW w \in Worker,
           \/ Serve(w) \/ Logout(w) \/ RevokeMine(w) \/ RevokeMyOthers(w)
           \/ ChangePassword(w) \/ ChangePasswordRefused(w) \/ RevokeUserSessions(w)
           \/ Abandon(w)
    PROVE  TypeInv'
<1> DEFINE r == req[w]
<1>0. r \in Request /\ Shaped(r) /\ clock \in Nat
  BY DEF TypeInv
<1>1. ASSUME Serve(w) \/ ChangePasswordRefused(w) \/ Abandon(w) PROVE TypeInv'
  BY <1>1, FinishGood DEF Serve, ChangePasswordRefused, Abandon, TypeInv
<1>2. ASSUME Logout(w) \/ RevokeMine(w) \/ RevokeMyOthers(w) PROVE TypeInv'
  <2>1. sessions' \in [Session -> SessionRow]
    <3>1. \E which : sessions' = Revoked(which, clock)
      BY <1>2 DEF Logout, RevokeMine, RevokeMyOthers
    <3> QED
      BY <1>0, <3>1, RevokedType
  <2> QED
    BY <1>2, <2>1, FinishGood DEF Logout, RevokeMine, RevokeMyOthers, TypeInv
<1>3. ASSUME ChangePassword(w) PROVE TypeInv'
  <2> DEFINE q == [r EXCEPT !.pc = "revoke", !.revokees = {r.actor}]
  <2>1. users' \in [User -> UserRow]
    BY <1>0, <1>3, WithPasswordType DEF ChangePassword, Request
  <2>2. users'[r.actor].hash \in Nat
    BY <1>0, <2>1 DEF Request, UserRow
  <2>3. sessions' \in [Session -> SessionRow]
    <3>1. [sessions[r.sid] EXCEPT !.hash = users'[r.actor].hash] \in SessionRow
      <4>1. sessions[r.sid] \in SessionRow
        BY <1>0 DEF TypeInv, Request
      <4> QED
        BY <2>2, <4>1 DEF SessionRow
    <3> QED
      BY <1>0, <1>3, <3>1 DEF ChangePassword, TypeInv, Request
  <2>4. {r.actor} \in SUBSET User
    BY <1>0 DEF Request
  <2>5. q \in Request
    BY <1>0, <2>4, Zenon DEF Request
  <2>6. Good(q)
    BY <1>0, <1>3, <2>5 DEF ChangePassword, Handles, Good, Shaped, Request, TargetOps
  <2>7. req' = [req EXCEPT ![w] = q]
    BY <1>3, <1>0 DEF ChangePassword, TypeInv, Request
  <2> HIDE DEF q
  <2> QED
    BY <1>3, <2>1, <2>3, <2>6, <2>7, OneRequest DEF ChangePassword, TypeInv
<1>4. ASSUME RevokeUserSessions(w) PROVE TypeInv'
  <2>1. PICK u \in r.revokees :
           /\ sessions' = Revoked(SessionsOf(u) \ Spared(r), clock)
           /\ req' = [req EXCEPT ![w] = IF r.revokees = {u} THEN NoRequest
                                        ELSE [r EXCEPT !.revokees = r.revokees \ {u}]]
    BY <1>4, <1>0 DEF RevokeUserSessions, Request
  <2>2. sessions' \in [Session -> SessionRow]
    BY <1>0, <2>1, RevokedType
  <2>3. ASSUME r.revokees # {u} PROVE Good([r EXCEPT !.revokees = r.revokees \ {u}])
    <3>1. r.revokees \ {u} \in SUBSET User /\ r.revokees \ {u} # {}
      BY <1>0, <2>1, <2>3 DEF Request
    <3> QED
      BY <1>0, <1>4, <3>1 DEF RevokeUserSessions, Good, Shaped, Request, TargetOps
  <2> DEFINE q == IF r.revokees = {u} THEN NoRequest
                  ELSE [r EXCEPT !.revokees = r.revokees \ {u}]
  <2>4. Good(q)
    BY <2>3, NoRequestGood
  <2>5. req' = [req EXCEPT ![w] = q]
    BY <2>1
  <2> HIDE DEF q
  <2> QED
    BY <1>4, <2>2, <2>4, <2>5, OneRequest DEF RevokeUserSessions, TypeInv
<1> QED
  BY <1>1, <1>2, <1>3, <1>4

\* The administrator's handlers keep the types.
LEMMA AdminTypes ==
    ASSUME TypeInv, NEW w \in Worker,
           \/ Forbidden(w) \/ ReadTarget(w) \/ CountAdmins(w)
           \/ UpdateUser(w) \/ UpdatePassword(w) \/ ResetPassword(w) \/ DeleteUser(w)
           \/ SetUsersActive(w) \/ CreateUser(w) \/ RevokeAny(w)
    PROVE  TypeInv'
<1> DEFINE r == req[w]
           t == Target(r)
<1>0. r \in Request /\ Shaped(r) /\ clock \in Nat
  BY DEF TypeInv
<1>1. /\ r.targets \in Seq(User) /\ r.next \in Nat /\ r.leaving \in Nat
      /\ r.payload \in Payload /\ Len(r.targets) \in Nat
  BY <1>0 DEF Request
<1>2. /\ r.payload.admin \in BOOLEAN /\ r.payload.active \in BOOLEAN
      /\ r.payload.must \in BOOLEAN /\ r.payload.password \in BOOLEAN
  BY <1>1 DEF Payload
<1>3. r.pc \in {"write", "password"} => t \in User /\ r.op \in TargetOps
  BY <1>0, <1>1 DEF Target, Shaped
<1>4. ASSUME t \in User, r.pc \in {"write", "password"}
      PROVE  Good([r EXCEPT !.pc = "revoke", !.revokees = {t}])
  <2>1. {t} \in SUBSET User
    BY <1>4
  <2> HIDE DEF t
  <2>2. [r EXCEPT !.pc = "revoke", !.revokees = {t}] \in Request
    BY <1>0, <2>1, Zenon DEF Request
  <2> QED
    BY <1>0, <1>3, <1>4, <2>2 DEF Good, Shaped, Request
<1>5. ASSUME Forbidden(w) PROVE TypeInv'
  BY <1>5, FinishGood DEF Forbidden, TypeInv
<1>6. ASSUME ReadTarget(w) PROVE TypeInv'
  <2> DEFINE n == r.targets[r.next + 1]
             row == users[n]
             q == [r EXCEPT !.next = r.next + 1, !.tAdmin = row.admin, !.tActive = row.active,
                     !.leaving = IF Leaves(r, row) THEN r.leaving + 1 ELSE r.leaving]
  <2>1. r.pc = "handle" /\ r.op \in TargetOps
    BY <1>6 DEF ReadTarget, TargetOps
  <2>2. Len(r.targets) >= 1 /\ r.next < Len(r.targets)
    BY <1>0, <2>1 DEF Shaped
  <2>3. row \in UserRow
    BY <1>1, <2>2 DEF TypeInv
  <2>4. row.admin \in BOOLEAN /\ row.active \in BOOLEAN
    BY <2>3 DEF UserRow
  <2>5. (IF Leaves(r, row) THEN r.leaving + 1 ELSE r.leaving) \in Nat /\ r.next + 1 \in Nat
    BY <1>1
  <2>6. q \in Request
    <3> HIDE DEF row
    <3> QED
      BY <1>0, <2>4, <2>5, Zenon DEF Request
  <2>7. q.pc = "handle" /\ q.op = r.op /\ q.targets = r.targets /\ q.next = r.next + 1
    BY <1>0, <2>1 DEF Request
  <2>8. Good(AfterReads(q))
    <3> HIDE DEF q
    <3> QED
      BY <1>1, <2>1, <2>2, <2>6, <2>7, AfterReadsGood
  <2>9. req' = [req EXCEPT ![w] = IF Refused(r, n) THEN NoRequest ELSE AfterReads(q)]
    BY <1>6, <1>0 DEF ReadTarget, Request
  <2>10. Good(IF Refused(r, n) THEN NoRequest ELSE AfterReads(q))
    <3> HIDE DEF q
    <3> QED
      BY <2>8, NoRequestGood
  <2> HIDE DEF q
  <2> QED
    BY <1>6, <2>9, <2>10, OneRequest DEF ReadTarget, TypeInv
<1>7. ASSUME CountAdmins(w) PROVE TypeInv'
  <2>1. Good([r EXCEPT !.pc = "write"])
    BY <1>0, <1>7 DEF CountAdmins, Good, Shaped, Request, TargetOps
  <2>2. CASE Finish(w)
    BY <1>7, <2>2, FinishGood DEF CountAdmins, TypeInv
  <2>3. CASE Goto(w, "write")
    <3>1. req' = [req EXCEPT ![w] = [r EXCEPT !.pc = "write"]]
      BY <2>3 DEF Goto, TypeInv
    <3> QED
      BY <1>7, <2>1, <3>1, OneRequest DEF CountAdmins, TypeInv
  <2> QED
    BY <1>7, <2>2, <2>3 DEF CountAdmins
<1>8. ASSUME UpdateUser(w) PROVE TypeInv'
  <2> DEFINE p == r.payload
             q == IF p.password THEN [r EXCEPT !.pc = "password"]
                  ELSE IF LosesRights(r) THEN [r EXCEPT !.pc = "revoke", !.revokees = {t}]
                  ELSE NoRequest
  <2>1. r.pc = "write"
    BY <1>8 DEF UpdateUser, Writes
  <2>2. WithFlags(users[t], p.admin, p.active, p.must) \in UserRow
    BY <1>2, <1>3, <2>1, WithFlagsType DEF TypeInv
  <2>3. users' \in [User -> UserRow]
    BY <1>8, <1>3, <2>1, <2>2 DEF UpdateUser, TypeInv
  <2>4. Good([r EXCEPT !.pc = "password"])
    BY <1>0, <2>1 DEF Good, Shaped, Request, TargetOps
  <2>5. Good(q)
    BY <1>3, <1>4, <2>1, <2>4, NoRequestGood
  <2>6. req' = [req EXCEPT ![w] = q]
    BY <1>8 DEF UpdateUser
  <2> HIDE DEF q
  <2> QED
    BY <1>8, <2>3, <2>5, <2>6, OneRequest DEF UpdateUser, TypeInv
<1>9. ASSUME UpdatePassword(w) \/ ResetPassword(w) PROVE TypeInv'
  <2>1. r.pc \in {"write", "password"} /\ t \in User
    BY <1>3, <1>9 DEF UpdatePassword, ResetPassword, Writes
  <2>2. users' \in [User -> UserRow]
    <3>1. \E must \in BOOLEAN : users' = WithPassword(t, must)
      BY <1>2, <1>9 DEF UpdatePassword, ResetPassword
    <3> QED
      BY <2>1, <3>1, WithPasswordType
  <2>3. req' = [req EXCEPT ![w] = [r EXCEPT !.pc = "revoke", !.revokees = {t}]]
    BY <1>9, <1>0 DEF UpdatePassword, ResetPassword, TypeInv, Request
  <2> QED
    BY <1>4, <1>9, <2>1, <2>2, <2>3, OneRequest DEF UpdatePassword, ResetPassword, TypeInv
<1>10. ASSUME DeleteUser(w) PROVE TypeInv'
  <2>1. t \in User
    BY <1>3, <1>10 DEF DeleteUser, Writes
  <2>2. users' \in [User -> UserRow]
    <3>1. [users[t] EXCEPT !.status = "deleted"] \in UserRow
      BY <2>1 DEF TypeInv, UserRow
    <3> QED
      BY <1>10, <2>1, <3>1 DEF DeleteUser, TypeInv
  <2>3. sessions' \in [Session -> SessionRow]
    <3>1. \A s \in Session : [sessions[s] EXCEPT !.status = "gone"] \in SessionRow
      BY DEF TypeInv, SessionRow
    <3> QED
      BY <1>10, <3>1 DEF DeleteUser, TypeInv
  <2> QED
    BY <1>10, <2>2, <2>3, FinishGood DEF DeleteUser, TypeInv
<1>11. ASSUME SetUsersActive(w) PROVE TypeInv'
  <2> DEFINE changed == {u \in Ids(r) : Live(u) /\ users[u].active # r.payload.active}
             q == IF ~r.payload.active /\ changed # {}
                  THEN [r EXCEPT !.pc = "revoke", !.revokees = changed] ELSE NoRequest
  <2>1. r.pc = "write" /\ r.op \in TargetOps
    BY <1>3, <1>11 DEF SetUsersActive, Writes
  <2>2. Ids(r) \subseteq User
    BY <1>1 DEF Ids
  <2>3. \A u \in User :
           WithFlags(users[u], users[u].admin, r.payload.active, users[u].must) \in UserRow
    BY <1>2, WithFlagsType DEF TypeInv, UserRow
  <2>4. users' \in [User -> UserRow]
    BY <1>11, <2>3 DEF SetUsersActive, TypeInv
  <2>5. changed \in SUBSET User
    BY <2>2
  <2>6. ASSUME changed # {} PROVE Good([r EXCEPT !.pc = "revoke", !.revokees = changed])
    <3> HIDE DEF changed
    <3>1. [r EXCEPT !.pc = "revoke", !.revokees = changed] \in Request
      BY <1>0, <2>5, Zenon DEF Request
    <3> QED
      BY <1>0, <2>1, <2>6, <3>1 DEF Good, Shaped, Request
  <2>7. Good(q)
    BY <2>6, NoRequestGood
  <2>8. req' = [req EXCEPT ![w] = q]
    BY <1>11 DEF SetUsersActive
  <2> HIDE DEF q
  <2> QED
    BY <1>11, <2>4, <2>7, <2>8, OneRequest DEF SetUsersActive, TypeInv
<1>12. ASSUME CreateUser(w) PROVE TypeInv'
  <2>1. [status |-> "live", active |-> TRUE, admin |-> r.payload.admin,
         must |-> r.payload.must, hash |-> 0, epoch |-> 0] \in UserRow
    BY <1>2 DEF UserRow
  <2>2. users' \in [User -> UserRow]
    BY <1>12, <2>1 DEF CreateUser, TypeInv
  <2> QED
    BY <1>12, <2>2, FinishGood DEF CreateUser, TypeInv
<1>13. ASSUME RevokeAny(w) PROVE TypeInv'
  <2>1. sessions' \in [Session -> SessionRow]
    <3>1. \E which : sessions' = Revoked(which, clock)
      BY <1>13 DEF RevokeAny
    <3> QED
      BY <1>0, <3>1, RevokedType
  <2> QED
    BY <1>13, <2>1, FinishGood DEF RevokeAny, TypeInv
<1> QED
  BY <1>5, <1>6, <1>7, <1>8, <1>9, <1>10, <1>11, <1>12, <1>13

\* The purge of ended sessions and the clock keep the types.
LEMMA BackgroundTypes == ASSUME TypeInv, Background PROVE TypeInv'
<1>1. \A s \in Session : [sessions[s] EXCEPT !.status = "gone"] \in SessionRow
  BY DEF TypeInv, SessionRow
<1>2. CASE PurgeSessions
  BY <1>1, <1>2 DEF PurgeSessions, TypeInv
<1>3. CASE Tick
  BY <1>3 DEF Tick, TypeInv
<1> QED
  BY <1>2, <1>3 DEF Background

\* Every step keeps the types and how far requests have come.
LEMMA TypeStep == TypeInv /\ [Next]_vars => TypeInv'
<1> SUFFICES ASSUME TypeInv, [Next]_vars PROVE TypeInv'
  OBVIOUS
<1>1. ASSUME NEW w \in Worker, SelfStep(w) PROVE TypeInv'
  <2>1. ASSUME NEW s \in Session, NEW op \in Op \cap SelfService,
               LookUp(w, s, op, <<>>, NoPayload)
        PROVE  TypeInv'
    <3>1. op \notin TargetOps /\ op \in SelfService \cup AdminOps /\ <<>> \in Seq(User)
      BY DEF SelfService, TargetOps
    <3> QED
      BY <2>1, <3>1, LookUpTypes, NoRequestGood
  <2> QED
    BY <1>1, <2>1, SessionTypes, SelfTypes DEF SelfStep
<1>2. ASSUME NEW w \in Worker, AdminStep(w) PROVE TypeInv'
  <2>1. ASSUME NEW s \in Session, NEW op \in Op \cap AdminOps, NEW input \in Inputs(op),
               LookUp(w, s, op, input[1], input[2])
        PROVE  TypeInv'
    BY <2>1, LookUpTypes, InputsType
  <2> QED
    BY <1>2, <2>1, AdminTypes DEF AdminStep
<1>3. CASE UNCHANGED vars
  BY <1>3 DEF vars, TypeInv
<1> QED
  BY <1>1, <1>2, <1>3, BackgroundTypes DEF Next

\* The initial state is well typed.
LEMMA TypeInit == Init => TypeInv
<1> SUFFICES ASSUME Init PROVE TypeInv
  OBVIOUS
<1>1. users \in [User -> UserRow]
  BY DEF Init, UserRow
<1>2. sessions \in [Session -> SessionRow]
  BY SessionConstants DEF Init, SessionRow, Never
<1> QED
  BY <1>1, <1>2, NoRequestGood DEF Init, TypeInv, Good

\* Rows, requests and the clock keep their types, and a handler that ends sessions
\* always has a user left to sign out.
THEOREM TypeCorrect == Spec => []TypeOK
<1>1. TypeInv => TypeOK
  BY DEF TypeInv, TypeOK, Shaped
<1> QED
  BY <1>1, TypeInit, TypeStep, PTL DEF Spec

-----------------------------------------------------------------------------
(* Sessions *)

\* What a step leaves of a row of the sessions table: owner and maximum age stay, a
\* revocation is final, and a row only leaves.
Kept(s) ==
    /\ sessions'[s].user = sessions[s].user
    /\ sessions'[s].expires = sessions[s].expires
    /\ sessions[s].revokedAt # Never => sessions'[s].revokedAt = sessions[s].revokedAt
    /\ \/ sessions'[s].status = sessions[s].status
       \/ sessions[s].status = "live" /\ sessions'[s].status = "gone"

\* A new session, of an account that is there.
Started(s) ==
    /\ sessions[s].status = "unused" /\ sessions'[s].status = "live"
    /\ users[sessions'[s].user].status = "live"

\* RevokeSession and RevokeUserSessions keep the rows.
LEMMA RevokedKeeps ==
    ASSUME TypeInv, NEW which, NEW at \in Nat, sessions' = Revoked(which, at), NEW s \in Session
    PROVE  Kept(s)
BY DEF Revoked, Kept, TypeInv, SessionRow

\* What a step of a request that is not a deletion does to the tables.
LEMMA SelfRows ==
    ASSUME TypeInv, NEW w \in Worker, SelfStep(w)
    PROVE  /\ \A s \in Session : Kept(s) \/ Started(s)
           /\ \A u \in User : users[u].status = "live" => users'[u].status = "live"
           /\ clock' = clock
<1> DEFINE r == req[w]
<1>0. r \in Request /\ clock \in Nat
  BY DEF TypeInv
<1>1. CASE UNCHANGED <<users, sessions, clock>>
  BY <1>1 DEF Kept, Live
<1>2. CASE StartSession(w)
  <2>1. \A s \in Session : Kept(s) \/ Started(s)
    BY <1>2 DEF StartSession, Kept, Started, TypeInv, Live
  <2> QED
    BY <1>2, <2>1 DEF StartSession, Live
<1>3. CASE Reject(w) \/ Logout(w) \/ RevokeMine(w) \/ RevokeMyOthers(w) \/ RevokeUserSessions(w)
  <2>1. \E which, at : at \in Nat /\ sessions' = Revoked(which, at)
    <3>0. r.now \in Nat
      BY <1>0 DEF Request
    <3>1. CASE Reject(w)
      BY <3>0, <3>1 DEF Reject
    <3>2. CASE Logout(w)
      BY <1>0, <3>2 DEF Logout
    <3>3. CASE RevokeMine(w)
      BY <1>0, <3>3 DEF RevokeMine
    <3>4. CASE RevokeMyOthers(w)
      BY <1>0, <3>4 DEF RevokeMyOthers
    <3>5. CASE RevokeUserSessions(w)
      BY <1>0, <3>5 DEF RevokeUserSessions
    <3> QED
      BY <1>3, <3>1, <3>2, <3>3, <3>4, <3>5
  <2>2. UNCHANGED <<users, clock>>
    BY <1>3 DEF Reject, Logout, RevokeMine, RevokeMyOthers, RevokeUserSessions
  <2> QED
    BY <2>1, <2>2, RevokedKeeps DEF Live
<1>4. CASE Touch(w)
  <2>1. \A s \in Session : Kept(s)
    BY <1>4 DEF Touch, Touched, Kept, TypeInv, SessionRow
  <2> QED
    BY <1>4, <2>1 DEF Touch, Live
<1>5. CASE ChangePassword(w)
  <2>1. \A s \in Session : Kept(s)
    BY <1>5 DEF ChangePassword, Kept, TypeInv, SessionRow
  <2>2. \A u \in User : users'[u].status = users[u].status
    BY <1>0, <1>5 DEF ChangePassword, WithPassword, TypeInv, UserRow, Request
  <2> QED
    BY <1>5, <2>1, <2>2 DEF ChangePassword, Live
<1> QED
  BY <1>1, <1>2, <1>3, <1>4, <1>5
     DEF SelfStep, Authenticate, LookUp, Identify, Serve, ChangePasswordRefused, Abandon

\* What a step of an administrator's request other than a deletion does to the tables.
LEMMA AdminRows ==
    ASSUME TypeInv, NEW w \in Worker, AdminStep(w), ~DeleteUser(w)
    PROVE  /\ \A s \in Session : Kept(s)
           /\ \A u \in User : users[u].status = "live" => users'[u].status = "live"
           /\ clock' = clock
<1> DEFINE r == req[w]
<1>0. r \in Request /\ Shaped(r) /\ clock \in Nat
  BY DEF TypeInv
<1>1. CASE UNCHANGED <<users, sessions, clock>>
  BY <1>1 DEF Kept, Live
<1>2. CASE RevokeAny(w)
  <2>1. \E which : sessions' = Revoked(which, clock)
    BY <1>2 DEF RevokeAny
  <2> QED
    BY <1>0, <1>2, <2>1, RevokedKeeps DEF RevokeAny, Live
<1>3. CASE CreateUser(w)
  <2>1. \A u \in User : users[u].status = "live" => users'[u].status = "live"
    BY <1>3, SessionConstants DEF CreateUser, TypeInv
  <2> QED
    BY <1>3, <2>1 DEF CreateUser, Live, Kept
<1>4. CASE UpdateUser(w)
  <2>1. \A u \in User : users[u].status = "live" => users'[u].status = "live"
    BY <1>4 DEF UpdateUser, TypeInv, WithFlags, UserRow
  <2> QED
    BY <1>4, <2>1 DEF UpdateUser, Live, Kept
<1>5. CASE SetUsersActive(w)
  <2>1. \A u \in User : users[u].status = "live" => users'[u].status = "live"
    BY <1>5 DEF SetUsersActive, TypeInv, WithFlags, UserRow
  <2> QED
    BY <1>5, <2>1 DEF SetUsersActive, Live, Kept
<1>6. CASE UpdatePassword(w) \/ ResetPassword(w)
  <2>1. \E t, must : users' = WithPassword(t, must)
    BY <1>6 DEF UpdatePassword, ResetPassword
  <2>2. \A u \in User : users[u].status = "live" => users'[u].status = "live"
    BY <2>1 DEF WithPassword, TypeInv, UserRow
  <2> QED
    BY <1>6, <2>2 DEF UpdatePassword, ResetPassword, Live, Kept
<1> QED
  BY <1>1, <1>2, <1>3, <1>4, <1>5, <1>6
     DEF AdminStep, LookUp, Forbidden, ReadTarget, CountAdmins

\* A deletion takes the account and its sessions together.
LEMMA DeleteRows ==
    ASSUME TypeInv, NEW w \in Worker, DeleteUser(w)
    PROVE  /\ \A s \in Session : Kept(s)
           /\ \A s \in Session :
                 sessions'[s].status = "live" /\ users[sessions'[s].user].status = "live"
                     => users'[sessions'[s].user].status = "live"
           /\ clock' = clock
<1>1. \A s \in Session : Kept(s)
  BY DEF DeleteUser, Kept, TypeInv, SessionRow
<1>2. ASSUME NEW s \in Session, sessions'[s].status = "live",
             users[sessions'[s].user].status = "live"
      PROVE  users'[sessions'[s].user].status = "live"
  <2>1. sessions[s].user # Target(req[w]) /\ sessions'[s] = sessions[s]
    BY <1>2 DEF DeleteUser, TypeInv, SessionRow
  <2>2. sessions[s].user \in User
    BY DEF TypeInv, SessionRow
  <2> QED
    BY <1>2, <2>1, <2>2 DEF DeleteUser, Live, TypeInv
<1> QED
  BY <1>1, <1>2 DEF DeleteUser

\* The purge and the clock: rows only leave, and time goes on.
LEMMA BackgroundRows ==
    ASSUME TypeInv, Background
    PROVE  /\ \A s \in Session : Kept(s)
           /\ \A u \in User : users[u].status = "live" => users'[u].status = "live"
           /\ clock' \in Nat /\ clock' >= clock
<1>1. CASE PurgeSessions
  BY <1>1 DEF PurgeSessions, Ripe, Kept, Live, TypeInv, SessionRow
<1>2. CASE Tick
  BY <1>2 DEF Tick, Kept, Live, TypeInv
<1> QED
  BY <1>1, <1>2 DEF Background

\* What any step does to the tables: rows are kept or started, and the owner of a row
\* that is there afterwards is not deleted by the step; time does not go back.
RowsStep ==
    /\ \A s \in Session : Kept(s) \/ Started(s)
    /\ \A s \in Session :
          sessions'[s].status = "live" /\ users[sessions'[s].user].status = "live"
              => users'[sessions'[s].user].status = "live"
    /\ clock' \in Nat /\ clock' >= clock

\* Every step is such a step.
LEMMA Rows == TypeInv /\ [Next]_vars => RowsStep
<1> SUFFICES ASSUME TypeInv, [Next]_vars PROVE RowsStep
  OBVIOUS
<1>0. clock \in Nat /\ \A s \in Session : sessions'[s].user \in User
  BY TypeStep DEF TypeInv, SessionRow
<1>1. CASE UNCHANGED vars
  BY <1>0, <1>1 DEF vars, Kept, RowsStep
<1>2. ASSUME NEW w \in Worker, SelfStep(w) PROVE RowsStep
  BY <1>0, <1>2, SelfRows DEF RowsStep
<1>3. ASSUME NEW w \in Worker, AdminStep(w) PROVE RowsStep
  <2>1. CASE DeleteUser(w)
    BY <1>0, <2>1, DeleteRows DEF RowsStep, Kept
  <2>2. CASE ~DeleteUser(w)
    BY <1>0, <1>3, <2>2, AdminRows DEF RowsStep
  <2> QED
    BY <2>1, <2>2
<1>4. CASE Background
  BY <1>0, <1>4, BackgroundRows DEF RowsStep
<1> QED
  BY <1>1, <1>2, <1>3, <1>4 DEF Next

\* No session outlives its account, however sign-ins and deletions interleave: a new
\* session needs the row (foreign key), a deletion takes the sessions along.
THEOREM OwnerExists == Spec => []SessionOwnerExists
<1>1. Init => SessionOwnerExists
  BY DEF Init, SessionOwnerExists
<1>2. TypeInv /\ SessionOwnerExists /\ [Next]_vars => SessionOwnerExists'
  BY Rows DEF RowsStep, SessionOwnerExists, Kept, Started, Live
<1> QED
  BY <1>1, <1>2, TypeInit, TypeStep, PTL DEF Spec

\* A revoked or expired session never becomes usable again, whatever requests that had
\* looked it up before do: touching it, or ending it again, leaves it ended.
THEOREM EndedForGood == Spec => EndedStaysEnded
<1>1. TypeInv /\ [Next]_vars => [\A s \in Session : Ended(s) => Ended(s)']_vars
  <2> SUFFICES ASSUME TypeInv, [Next]_vars, NEW s \in Session, Ended(s) PROVE Ended(s)'
    OBVIOUS
  <2>1. (Kept(s) \/ Started(s)) /\ clock' \in Nat /\ clock' >= clock
    BY Rows DEF RowsStep
  <2>2. clock \in Nat /\ sessions[s].expires \in Nat
    BY DEF TypeInv, SessionRow
  <2> QED
    BY <2>1, <2>2 DEF Ended, Kept, Started
<1> QED
  BY <1>1, TypeInit, TypeStep, PTL DEF Spec, EndedStaysEnded

=============================================================================
