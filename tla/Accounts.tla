------------------------------ MODULE Accounts ------------------------------
(***************************************************************************)
(* The administrator's handlers on accounts and sessions                   *)
(* (api/admin_users.go, handleBulkUserStatus, handleRevokeSession), run by *)
(* requests that came through requireSession (module Sessions).  Each      *)
(* reads its target rows, counts the active administrators if one would be *)
(* lost, writes, and then ends sessions: separate statements.              *)
(***************************************************************************)
EXTENDS Sessions

CONSTANTS
    Manager,        \* non-administrators whose roles hold user.manage and session.manage
    InitialUsers,   \* accounts made before the instance starts
    InitialAdmins,  \* the administrators among them
    Sent            \* the field values clients send in this instance

ASSUME AccountConstants ==
    /\ Manager \subseteq User
    /\ InitialUsers \subseteq User
    /\ InitialAdmins \subseteq InitialUsers
    /\ InitialAdmins # {}
    /\ IsFiniteSet(User)
    /\ Sent \subseteq Payload

ActiveAdmins == {u \in User : Live(u) /\ users[u].admin /\ users[u].active}

Init ==
    /\ users = [u \in User |->
                  [status |-> IF u \in InitialUsers THEN "live" ELSE "unused",
                   active |-> TRUE, admin |-> u \in InitialAdmins, must |-> FALSE,
                   hash |-> 0, epoch |-> 0]]
    /\ sessions = [s \in Session |->
                  [status |-> "unused", user |-> CHOOSE u \in User : TRUE, lastUsed |-> 0,
                   expires |-> 0, revokedAt |-> Never, hash |-> 0, epoch |-> 0]]
    /\ req = [w \in Worker |-> NoRequest]
    /\ clock = 0

-----------------------------------------------------------------------------
(* Checks *)

\* requirePermission("user.manage") / ("session.manage").
MayManage(r) == r.admin \/ r.actor \in Manager

\* Mutant of RemainAdmin: the stored flag is looked at instead of the one sent.
RemainAdminStored(r, row) == IF r.op = "delete" THEN FALSE ELSE row.admin

\* What the change leaves of the target's rights.
RemainAdmin(r, row) ==
    CASE r.op = "update" -> r.payload.admin
      [] r.op = "delete" -> FALSE
      [] OTHER -> row.admin

RemainActive(r, row) ==
    CASE r.op \in {"update", "bulk"} -> r.payload.active
      [] r.op = "delete" -> FALSE
      [] OTHER -> row.active

\* Mutant of SelfHarm: only deactivation is looked at.
SelfHarmActiveOnly(r, t, row) == t = r.actor /\ ~RemainActive(r, row) /\ row.active

\* adminChangeProblem: nobody deactivates, demotes or deletes themselves.
SelfHarm(r, t, row) ==
    /\ r.op \in {"update", "delete", "bulk"}
    /\ t = r.actor
    /\ ~RemainActive(r, row) \/ (row.admin /\ ~RemainAdmin(r, row))

\* Mutant of AdminGuarded: only the current flag counts, so a manager may promote.
AdminGuardedCurrent(r, row) == row.admin /\ ~r.admin

\* Only administrators manage, or make, administrators.
AdminGuarded(r, row) ==
    (row.admin \/ (r.op = "update" /\ r.payload.admin)) /\ ~r.admin

\* The change takes an active administrator away.
Leaves(r, row) ==
    row.admin /\ row.active /\ (~RemainAdmin(r, row) \/ ~RemainActive(r, row))

NeedsLocal(r) == r.op = "reset" \/ (r.op = "update" /\ r.payload.password)

Refused(r, t) ==
    LET row == users[t]
    IN  \/ ~Live(t)
        \/ AdminGuarded(r, row)
        \/ SelfHarm(r, t, row)
        \/ NeedsLocal(r) /\ t \notin Local

-----------------------------------------------------------------------------
(* Steps shared by the handlers that take user ids *)

Forbidden(w) ==
    /\ req[w].pc = "handle" /\ req[w].op \in AdminOps
    /\ ~MayManage(req[w])
    /\ Finish(w)
    /\ UNCHANGED <<users, sessions, clock>>

\* After the last target: count the administrators if one would leave.
AfterReads(r) ==
    CASE r.next < Len(r.targets) -> r
      [] r.next = Len(r.targets) /\ r.op = "revokeUser" ->
            [r EXCEPT !.pc = "revoke", !.revokees = {r.targets[1]}]
      [] r.next = Len(r.targets) /\ r.op # "revokeUser" ->
            [r EXCEPT !.pc = IF r.leaving > 0 THEN "count" ELSE "write"]

\* GetUserByID of the next target, with the checks on the row.
ReadTarget(w) ==
    LET r == req[w]
        t == r.targets[r.next + 1]
        row == users[t]
    IN  /\ r.pc = "handle"
        /\ r.op \in {"revokeUser", "reset", "update", "delete", "bulk"}
        /\ MayManage(r)
        /\ req' = [req EXCEPT ![w] =
              IF Refused(r, t) THEN NoRequest
              ELSE AfterReads([r EXCEPT !.next = @ + 1,
                                        !.tAdmin = row.admin, !.tActive = row.active,
                                        !.leaving = IF Leaves(r, row) THEN @ + 1 ELSE @])]
        /\ UNCHANGED <<users, sessions, clock>>

\* CountActiveAdmins: at least one administrator must remain.
CountAdmins(w) ==
    /\ req[w].pc = "count"
    /\ IF Cardinality(ActiveAdmins) - req[w].leaving < 1 THEN Finish(w) ELSE Goto(w, "write")
    /\ UNCHANGED <<users, sessions, clock>>

-----------------------------------------------------------------------------
(* Writes *)

Writes(w, op) == req[w].pc = "write" /\ req[w].op = op

Target(r) == r.targets[1]

\* A row with new flags; epoch counts the losses of access or of admin rights.
WithFlags(row, admin, active, must) ==
    [row EXCEPT !.admin = admin, !.active = active, !.must = must,
                !.epoch = IF (row.active /\ ~active) \/ (row.admin /\ ~admin)
                          THEN @ + 1 ELSE @]

\* handleUpdateUser: the target, as it was read, loses access or admin rights.
LosesRights(r) ==
    (r.tActive /\ ~r.payload.active) \/ (r.tAdmin /\ ~r.payload.admin)

\* handleUpdateUser, its UPDATE: every field is taken from the request.
UpdateUser(w) ==
    LET r == req[w]
        t == Target(r)
        p == r.payload
    IN  /\ Writes(w, "update")
        /\ users[t].epoch < MaxChanges
        /\ users' = [users EXCEPT ![t] =
                        IF Live(t) THEN WithFlags(@, p.admin, p.active, p.must) ELSE @]
        /\ req' = [req EXCEPT ![w] =
              IF p.password THEN [r EXCEPT !.pc = "password"]
              ELSE IF LosesRights(r) THEN [r EXCEPT !.pc = "revoke", !.revokees = {t}]
              ELSE NoRequest]
        /\ UNCHANGED <<sessions, clock>>

\* Mutant of UpdatePassword: a new password does not end sessions.
UpdatePasswordOnly(w) ==
    LET r == req[w]
        t == Target(r)
    IN  /\ r.pc = "password"
        /\ users[t].hash < MaxChanges
        /\ users' = WithPassword(t, r.payload.must)
        /\ Finish(w)
        /\ UNCHANGED <<sessions, clock>>

\* handleUpdateUser with a password: a second UPDATE, and sessions always end.
UpdatePassword(w) ==
    LET r == req[w]
        t == Target(r)
    IN  /\ r.pc = "password"
        /\ users[t].hash < MaxChanges
        /\ users' = WithPassword(t, r.payload.must)
        /\ req' = [req EXCEPT ![w].pc = "revoke", ![w].revokees = {t}]
        /\ UNCHANGED <<sessions, clock>>

\* handleResetPassword: a temporary password that must be changed.
ResetPassword(w) ==
    LET t == Target(req[w])
    IN  /\ Writes(w, "reset")
        /\ users[t].hash < MaxChanges
        /\ users' = WithPassword(t, TRUE)
        /\ req' = [req EXCEPT ![w].pc = "revoke", ![w].revokees = {t}]
        /\ UNCHANGED <<sessions, clock>>

\* handleDeleteUser: the row goes and its sessions with it (ON DELETE CASCADE).
DeleteUser(w) ==
    LET t == Target(req[w])
    IN  /\ Writes(w, "delete")
        /\ users' = [users EXCEPT ![t].status = "deleted"]
        /\ sessions' = [s \in Session |->
              IF sessions[s].status = "live" /\ sessions[s].user = t
              THEN [sessions[s] EXCEPT !.status = "gone"] ELSE sessions[s]]
        /\ Finish(w)
        /\ UNCHANGED clock

Ids(r) == {r.targets[i] : i \in DOMAIN r.targets}

\* Mutant of SetUsersActive: sessions are ended even when no account changed.
SetUsersActiveAlways(w) ==
    LET r == req[w]
        changed == {u \in Ids(r) : Live(u) /\ users[u].active # r.payload.active}
    IN  /\ Writes(w, "bulk")
        /\ \A u \in changed : users[u].epoch < MaxChanges
        /\ users' = [u \in User |->
              IF u \in changed
              THEN WithFlags(users[u], users[u].admin, r.payload.active, users[u].must)
              ELSE users[u]]
        /\ req' = [req EXCEPT ![w].pc = "revoke", ![w].revokees = changed]
        /\ UNCHANGED <<sessions, clock>>

\* handleBulkUserStatus: one transaction over the ids; the accounts it changed are
\* then signed out one by one.
SetUsersActive(w) ==
    LET r == req[w]
        changed == {u \in Ids(r) : Live(u) /\ users[u].active # r.payload.active}
    IN  /\ Writes(w, "bulk")
        /\ \A u \in changed : users[u].epoch < MaxChanges
        /\ users' = [u \in User |->
              IF u \in changed
              THEN WithFlags(users[u], users[u].admin, r.payload.active, users[u].must)
              ELSE users[u]]
        /\ req' = [req EXCEPT ![w] =
              IF ~r.payload.active /\ changed # {}
              THEN [r EXCEPT !.pc = "revoke", !.revokees = changed] ELSE NoRequest]
        /\ UNCHANGED <<sessions, clock>>

\* handleCreateUser: only administrators make administrators.
CreateUser(w) ==
    LET r == req[w]
    IN  /\ Handles(w, "create") /\ MayManage(r)
        /\ IF r.payload.admin /\ ~r.admin
           THEN UNCHANGED users
           ELSE \E u \in Local :
                  /\ users[u].status = "unused"
                  /\ users' = [users EXCEPT ![u] =
                        [status |-> "live", active |-> TRUE, admin |-> r.payload.admin,
                         must |-> r.payload.must, hash |-> 0, epoch |-> 0]]
        /\ Finish(w)
        /\ UNCHANGED <<sessions, clock>>

\* handleRevokeSession: anyone's session.
RevokeAny(w) ==
    /\ Handles(w, "revokeAny") /\ MayManage(req[w])
    /\ \E s \in Session : sessions[s].status = "live" /\ sessions' = Revoked({s}, clock)
    /\ Finish(w)
    /\ UNCHANGED <<users, clock>>

-----------------------------------------------------------------------------
\* The ids and fields a client sends with an operation.
Inputs(op) ==
    CASE op \in {"revokeUser", "reset", "delete"} -> {<<u>> : u \in User} \X {NoPayload}
      [] op = "update" -> {<<u>> : u \in User} \X Sent
      [] op = "create" -> {<<>>} \X Sent
      [] op = "bulk" -> {<<u, v>> : u \in User, v \in User} \X Sent
      [] OTHER -> {<<>>} \X {NoPayload}

AdminStep(w) ==
    \/ \E s \in Session, op \in Op \cap AdminOps : \E input \in Inputs(op) :
          LookUp(w, s, op, input[1], input[2])
    \/ Forbidden(w) \/ ReadTarget(w) \/ CountAdmins(w)
    \/ UpdateUser(w) \/ UpdatePassword(w) \/ ResetPassword(w) \/ DeleteUser(w)
    \/ SetUsersActive(w) \/ CreateUser(w) \/ RevokeAny(w)

Next ==
    \/ \E w \in Worker : SelfStep(w) \/ AdminStep(w)
    \/ Background

Spec == Init /\ [][Next]_vars

\* The purge ticker and the clock go on whatever requests do.
FairSpec == Spec /\ WF_vars(PurgeSessions) /\ WF_vars(Tick)

-----------------------------------------------------------------------------
(* Properties *)

\* Every variable has its type, and a handler that is ending sessions has a user to
\* sign out.
TypeOK ==
    /\ users \in [User -> UserRow]
    /\ sessions \in [Session -> SessionRow]
    /\ req \in [Worker -> Request]
    /\ clock \in Nat
    /\ \A w \in Worker : req[w].pc = "revoke" => req[w].revokees # {}

\* No session outlives its account, although a sign-in may still be under way when
\* the account is deleted: the foreign key refuses it and the delete cascades.
SessionOwnerExists ==
    \A s \in Session : sessions[s].status = "live" => Live(sessions[s].user)

Ended(s) ==
    \/ sessions[s].status = "gone"
    \/ sessions[s].status = "live" /\ sessions[s].revokedAt # Never
    \/ sessions[s].status = "live" /\ clock >= sessions[s].expires

\* A session that was revoked, or reached its maximum age, is never usable again: no
\* request that had looked it up before brings it back by touching it, and its id is
\* not handed out again.
EndedStaysEnded == [][\A s \in Session : Ended(s) => Ended(s)']_vars

\* At least one active administrator remains, whatever handlers run.
LastAdminStays == ActiveAdmins # {}

\* The request of w takes this step.
Steps(w) == req[w].pc # "idle" /\ req'[w] # req[w]

\* Nobody deactivates, demotes or deletes their own account.
NobodyHarmsThemselves ==
    [][\A w \in Worker : Steps(w) /\ Live(req[w].actor) =>
          LET old == users[req[w].actor]
              new == users'[req[w].actor]
          IN  /\ new.status = "live"
              /\ old.active => new.active
              /\ old.admin => new.admin]_vars

\* A request by a non-administrator changes no administrator's account, except that
\* people change their own password, and makes nobody an administrator.
OnlyAdminsManageAdmins ==
    [][\A w \in Worker : Steps(w) /\ ~req[w].admin =>
          \A u \in User :
              /\ Live(u) /\ users[u].admin => users'[u] = users[u] \/ u = req[w].actor
              /\ users'[u].admin /\ users'[u].status = "live" => users[u].admin]_vars

\* The rules of account management: nobody harms themselves, and administrators are
\* managed and made by administrators only (adminChangeProblem, handleUpdateUser).
ManagementRules == NobodyHarmsThemselves /\ OnlyAdminsManageAdmins

Usable(s) ==
    /\ sessions[s].status = "live" /\ sessions[s].revokedAt = Never
    /\ clock < sessions[s].expires

\* When no request is under way, every usable session was signed in to with the
\* account's current password and since the last time its owner lost access or admin
\* rights: losing any of these ends the sessions.
LossEndsSessions ==
    (\A w \in Worker : req[w].pc = "idle") =>
        \A s \in Session : Usable(s) =>
            /\ sessions[s].hash = users[sessions[s].user].hash
            /\ sessions[s].epoch = users[sessions[s].user].epoch

\* Ended sessions leave the table: whatever was revoked, or expires, early enough for
\* the clock to pass the day ended sessions are kept is purged.
EndedArePurged ==
    \A s \in Session :
        (/\ sessions[s].status = "live"
         /\ \/ sessions[s].expires + Keep < MaxClock
            \/ sessions[s].revokedAt # Never /\ sessions[s].revokedAt + Keep < MaxClock)
            ~> sessions[s].status = "gone"

=============================================================================
