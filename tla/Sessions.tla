------------------------------ MODULE Sessions ------------------------------
(***************************************************************************)
(* Sign-in, the session table and the requireSession middleware            *)
(* (api/session.go, store/sessions.go), with the handlers a user runs on   *)
(* their own account.  The database has one connection: a statement is     *)
(* atomic, and requests in flight interleave between their statements.     *)
(* What a request read it carries in its record and may use when stale.    *)
(***************************************************************************)
EXTENDS Integers, Sequences, FiniteSets

CONSTANTS
    User,       \* rows of the users table (ids are never reused)
    Session,    \* rows of the sessions table (ids are never reused)
    Worker,     \* requests that can be in flight together
    Local,      \* users with auth_source "local"
    Op,         \* the operations clients call in this instance
    Idle,       \* idle timeout
    MaxAge,     \* maximum session age
    TouchEvery, \* sessionTouchInterval
    Keep,       \* how long ended sessions are kept (24 hours)
    MaxClock,   \* bound: the clock stops here
    MaxChanges  \* bound: passwords, and losses of rights, a user goes through

ASSUME SessionConstants ==
    /\ Local \subseteq User
    /\ User # {} /\ Session # {}
    /\ Idle \in Nat /\ MaxAge \in Nat \ {0} /\ TouchEvery \in Nat /\ Keep \in Nat
    /\ MaxClock \in Nat /\ MaxChanges \in Nat

Never == -1                       \* revoked_at IS NULL

UserRow == [status : {"unused", "live", "deleted"},
            active : BOOLEAN, admin : BOOLEAN, must : BOOLEAN,
            hash : Nat,           \* which password the row holds
            epoch : Nat]          \* history: times active or admin was taken away

SessionRow == [status : {"unused", "live", "gone"},
               user : User, lastUsed : Nat, expires : Nat, revokedAt : Int,
               hash : Nat, epoch : Nat]  \* history: the user row at authentication

SelfService == {"use", "me", "logout", "changePassword", "revokeOthers", "revokeMine"}
AdminOps == {"revokeAny", "revokeUser", "reset", "update", "delete", "bulk", "create"}

\* The fields of a user an administrator's request sets.
Payload == [admin : BOOLEAN, active : BOOLEAN, must : BOOLEAN, password : BOOLEAN]

Request == [pc : {"idle", "session", "lookup", "reject", "touch", "handle", "count",
                  "write", "password", "revoke"},
            op : SelfService \cup AdminOps \cup {"login", "none"},
            sid : Session,
            seenUsed : Nat, seenExpires : Nat,  \* the session row as it was looked up
            now : Nat,
            actor : User,                       \* the identity: the user row as loaded
            admin : BOOLEAN, must : BOOLEAN, hash : Nat, epoch : Nat,
            targets : Seq(User), next : Nat,    \* ids in the request, and how many were read
            payload : Payload,
            tAdmin : BOOLEAN, tActive : BOOLEAN, \* the last target row read
            leaving : Nat,                      \* active admins the change would remove
            revokees : SUBSET User]             \* users whose sessions are still to be ended

NoPayload == [admin |-> FALSE, active |-> FALSE, must |-> FALSE, password |-> FALSE]

NoRequest == [pc |-> "idle", op |-> "none", sid |-> CHOOSE s \in Session : TRUE,
              seenUsed |-> 0, seenExpires |-> 0, now |-> 0,
              actor |-> CHOOSE u \in User : TRUE,
              admin |-> FALSE, must |-> FALSE, hash |-> 0, epoch |-> 0,
              targets |-> <<>>, next |-> 0, payload |-> NoPayload,
              tAdmin |-> FALSE, tActive |-> FALSE, leaving |-> 0, revokees |-> {}]

VARIABLES
    users,     \* users[u]: the row
    sessions,  \* sessions[s]: the row
    req,       \* req[w]: the request in flight
    clock

vars == <<users, sessions, req, clock>>

Live(u) == users[u].status = "live"

Finish(w) == req' = [req EXCEPT ![w] = NoRequest]
Goto(w, pc) == req' = [req EXCEPT ![w].pc = pc]

-----------------------------------------------------------------------------
(* Sign-in *)

\* authenticate: the row is read and the credentials checked; only an active
\* account goes on.  Every other outcome changes nothing here (see LoginGate).
Authenticate(w, u) ==
    /\ "login" \in Op
    /\ req[w].pc = "idle"
    /\ Live(u) /\ users[u].active
    /\ req' = [req EXCEPT ![w] = [NoRequest EXCEPT !.pc = "session", !.op = "login",
                  !.actor = u, !.hash = users[u].hash, !.epoch = users[u].epoch]]
    /\ UNCHANGED <<users, sessions, clock>>

\* Mutant of StartSession: no foreign key stops a session of a deleted user.
StartSessionUnchecked(w) ==
    LET r == req[w]
    IN  /\ r.pc = "session"
        /\ \E s \in Session :
              /\ sessions[s].status = "unused"
              /\ sessions' = [sessions EXCEPT ![s] =
                    [status |-> "live", user |-> r.actor, lastUsed |-> clock,
                     expires |-> clock + MaxAge, revokedAt |-> Never,
                     hash |-> r.hash, epoch |-> r.epoch]]
        /\ Finish(w)
        /\ UNCHANGED <<users, clock>>

\* startSession: the foreign key refuses a session for a user deleted meanwhile.
StartSession(w) ==
    LET r == req[w]
    IN  /\ r.pc = "session"
        /\ IF Live(r.actor)
           THEN \E s \in Session :
                  /\ sessions[s].status = "unused"
                  /\ sessions' = [sessions EXCEPT ![s] =
                        [status |-> "live", user |-> r.actor, lastUsed |-> clock,
                         expires |-> clock + MaxAge, revokedAt |-> Never,
                         hash |-> r.hash, epoch |-> r.epoch]]
           ELSE UNCHANGED sessions
        /\ Finish(w)
        /\ UNCHANGED <<users, clock>>

-----------------------------------------------------------------------------
(* requireSession *)

\* GetSessionByHash: unknown and revoked sessions are answered 401, which changes
\* nothing; the others go on with the row as it was.
LookUp(w, s, op, targets, payload) ==
    /\ req[w].pc = "idle"
    /\ sessions[s].status = "live"
    /\ sessions[s].revokedAt = Never
    /\ req' = [req EXCEPT ![w] = [NoRequest EXCEPT !.pc = "lookup", !.op = op, !.sid = s,
                  !.seenUsed = sessions[s].lastUsed, !.seenExpires = sessions[s].expires,
                  !.actor = sessions[s].user, !.targets = targets, !.payload = payload]]
    /\ UNCHANGED <<users, sessions, clock>>

AllowedBeforePasswordChange(op) == op \in {"me", "changePassword", "logout"}

\* Where a request with a good session goes: to its handler, unless the password
\* must be changed first.
Admitted(r) ==
    IF r.must /\ r.actor \in Local /\ ~AllowedBeforePasswordChange(r.op)
    THEN NoRequest ELSE [r EXCEPT !.pc = "handle"]

\* Expired and idle sessions are refused on the row as looked up; then the user is
\* loaded.  A missing or inactive user is turned away and the session revoked.
Identify(w) ==
    LET r == req[w]
        u == users[r.actor]
        known == [r EXCEPT !.now = clock, !.admin = u.admin, !.must = u.must, !.hash = u.hash]
    IN  /\ r.pc = "lookup"
        /\ req' = [req EXCEPT ![w] =
              IF clock >= r.seenExpires \/ clock - r.seenUsed > Idle THEN NoRequest
              ELSE IF ~Live(r.actor) \/ ~u.active THEN [r EXCEPT !.pc = "reject", !.now = clock]
              ELSE IF clock - r.seenUsed > TouchEvery THEN [known EXCEPT !.pc = "touch"]
              ELSE Admitted(known)]
        /\ UNCHANGED <<users, sessions, clock>>

\* Mutant of Touched: the row is written back as it was read, not revoked.
TouchedWholeRow(s, at) ==
    [sessions EXCEPT ![s] = IF @.status = "live"
                            THEN [@ EXCEPT !.lastUsed = at, !.revokedAt = Never] ELSE @]

\* TouchSession: UPDATE ... SET last_used_at WHERE id.
Touched(s, at) ==
    [sessions EXCEPT ![s] = IF @.status = "live" THEN [@ EXCEPT !.lastUsed = at] ELSE @]

\* RevokeSession and RevokeUserSessions: of these rows, the ones not revoked yet.
Revoked(which, at) ==
    [s \in Session |->
        IF s \in which /\ sessions[s].status = "live" /\ sessions[s].revokedAt = Never
        THEN [sessions[s] EXCEPT !.revokedAt = at] ELSE sessions[s]]

SessionsOf(u) == {s \in Session : sessions[s].user = u}

Reject(w) ==
    /\ req[w].pc = "reject"
    /\ sessions' = Revoked({req[w].sid}, req[w].now)
    /\ Finish(w)
    /\ UNCHANGED <<users, clock>>

Touch(w) ==
    /\ req[w].pc = "touch"
    /\ sessions' = Touched(req[w].sid, req[w].now)
    /\ req' = [req EXCEPT ![w] = Admitted(req[w])]
    /\ UNCHANGED <<users, clock>>

-----------------------------------------------------------------------------
(* Handlers on the caller's own account *)

Handles(w, op) == req[w].pc = "handle" /\ req[w].op = op

\* Every handler that changes no account or session (/api/auth/me among them).
Serve(w) ==
    /\ Handles(w, "use") \/ Handles(w, "me")
    /\ Finish(w)
    /\ UNCHANGED <<users, sessions, clock>>

Logout(w) ==
    /\ Handles(w, "logout")
    /\ sessions' = Revoked({req[w].sid}, clock)
    /\ Finish(w)
    /\ UNCHANGED <<users, clock>>

\* handleRevokeMySession: one of the caller's sessions, their own included.
RevokeMine(w) ==
    /\ Handles(w, "revokeMine")
    /\ \E s \in Session :
          /\ sessions[s].status = "live" /\ sessions[s].user = req[w].actor
          /\ sessions' = Revoked({s}, clock)
    /\ Finish(w)
    /\ UNCHANGED <<users, clock>>

RevokeMyOthers(w) ==
    /\ Handles(w, "revokeOthers")
    /\ sessions' = Revoked(SessionsOf(req[w].actor) \ {req[w].sid}, clock)
    /\ Finish(w)
    /\ UNCHANGED <<users, clock>>

\* UpdateUserPassword: an UPDATE of a row that may be gone by now.
WithPassword(u, must) ==
    LET row == users[u]
    IN  [users EXCEPT ![u] = IF Live(u) THEN [row EXCEPT !.hash = row.hash + 1, !.must = must]
                             ELSE row]

\* handleChangePassword, up to its first statement: the current password was checked
\* against the hash requireSession loaded, which nothing reads again.  The session
\* that proves the password counts as authenticated with the new one.
ChangePassword(w) ==
    LET r == req[w]
    IN  /\ Handles(w, "changePassword")
        /\ r.actor \in Local
        /\ users[r.actor].hash < MaxChanges
        /\ users' = WithPassword(r.actor, FALSE)
        /\ sessions' = [sessions EXCEPT ![r.sid].hash = users'[r.actor].hash]
        /\ req' = [req EXCEPT ![w].pc = "revoke", ![w].revokees = {r.actor}]
        /\ UNCHANGED clock

\* The password of an LDAP or Azure AD user is not the portal's to change (400).
ChangePasswordRefused(w) ==
    /\ Handles(w, "changePassword")
    /\ req[w].actor \notin Local
    /\ Finish(w)
    /\ UNCHANGED <<users, sessions, clock>>

\* exceptID: the caller's own session, when they changed their own password or ended
\* their own sessions (a session of another user is not concerned).
Spared(r) ==
    IF r.op = "changePassword" \/ r.op = "revokeUser" THEN {r.sid} ELSE {}

\* RevokeUserSessions for one of the users the handler still has to sign out.
RevokeUserSessions(w) ==
    LET r == req[w]
    IN  /\ r.pc = "revoke"
        /\ \E u \in r.revokees :
              /\ sessions' = Revoked(SessionsOf(u) \ Spared(r), clock)
              /\ req' = [req EXCEPT ![w] = IF r.revokees = {u} THEN NoRequest
                                           ELSE [r EXCEPT !.revokees = @ \ {u}]]
        /\ UNCHANGED <<users, clock>>

-----------------------------------------------------------------------------
(* Background and time *)

\* Mutant of Ripe: only revoked sessions are purged, expired ones stay.
RipeRevoked(s) ==
    LET row == sessions[s]
    IN  row.status = "live" /\ row.revokedAt # Never /\ row.revokedAt < clock - Keep

\* PurgeSessions: sessions that ended more than Keep ago.
Ripe(s) ==
    LET row == sessions[s]
    IN  /\ row.status = "live"
        /\ \/ row.expires < clock - Keep
           \/ row.revokedAt # Never /\ row.revokedAt < clock - Keep

PurgeSessions ==
    /\ \E s \in Session : Ripe(s)
    /\ sessions' = [s \in Session |->
          IF Ripe(s) THEN [sessions[s] EXCEPT !.status = "gone"] ELSE sessions[s]]
    /\ UNCHANGED <<users, req, clock>>

Tick ==
    /\ clock < MaxClock
    /\ clock' = clock + 1
    /\ UNCHANGED <<users, sessions, req>>

\* The client goes away or the server stops: the request's context is cancelled and
\* no further statement of it runs.
Abandon(w) ==
    /\ "abandon" \in Op
    /\ req[w].pc # "idle"
    /\ Finish(w)
    /\ UNCHANGED <<users, sessions, clock>>

SelfStep(w) ==
    \/ \E u \in User : Authenticate(w, u)
    \/ StartSession(w)
    \/ \E s \in Session, op \in Op \cap SelfService : LookUp(w, s, op, <<>>, NoPayload)
    \/ Identify(w) \/ Reject(w) \/ Touch(w)
    \/ Serve(w) \/ Logout(w) \/ RevokeMine(w) \/ RevokeMyOthers(w)
    \/ ChangePassword(w) \/ ChangePasswordRefused(w) \/ RevokeUserSessions(w)
    \/ Abandon(w)

Background == PurgeSessions \/ Tick

=============================================================================
