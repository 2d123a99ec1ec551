----------------------------- MODULE LoginGate -----------------------------
(***************************************************************************)
(* The login brute-force gate (api/security.go) together with the calls    *)
(* handleLogin makes on it.  A sign-in asks locked(), then checks the      *)
(* password without holding the gate's mutex, then reports fail() or       *)
(* succeed(): several sign-ins for one key may be between the two calls.   *)
(***************************************************************************)
EXTENDS Integers, Sequences, FiniteSets

CONSTANTS
    Key,           \* "ip|username" pairs
    SignIn,        \* sign-in requests that can be in flight together
    NoAttempt,     \* the key has no entry in the attempts map
    MaxFailures,   \* loginMaxFailures
    Lockout,       \* loginLockout
    Window,        \* loginWindow
    PruneAt,       \* the map size at which fail() prunes (1024)
    MaxClock       \* bound: the clock stops here

ASSUME GateConstants ==
    /\ Key # {}
    /\ MaxFailures \in Nat \ {0}
    /\ Lockout \in Nat \ {0}
    /\ Window \in Nat
    /\ PruneAt \in Nat
    /\ MaxClock \in Nat

ASSUME SignInsFinite == IsFiniteSet(SignIn)

\* The constants of the source: a lock is shorter than the counting window.
ASSUME LockoutFitsWindow == Lockout <= Window

Time == 0 .. MaxClock

Attempt == [failures : 0 .. (MaxFailures - 1), firstFailed : Int, lockedUntil : Int]

ASSUME NoAttemptIsNoEntry == NoAttempt \notin Attempt

VARIABLES
    attempts,  \* attempts[k]: the gate's entry for k, or NoAttempt
    clock,     \* the current time
    login,     \* login[s]: [pc, key] of the sign-in s
    recent     \* history: times of k's failures since its last lock or success

vars == <<attempts, clock, login, recent>>

Entries == {k \in Key : attempts[k] # NoAttempt}

\* A fresh loginAttempt has the zero time as lockedUntil: before every clock value.
Fresh(now) == [failures |-> 0, firstFailed |-> now, lockedUntil |-> -1]

locked(k) == attempts[k] # NoAttempt /\ attempts[k].lockedUntil - clock > 0

-----------------------------------------------------------------------------
Init ==
    /\ attempts = [k \in Key |-> NoAttempt]
    /\ clock = 0
    /\ login = [s \in SignIn |-> [pc |-> "idle", key |-> CHOOSE k \in Key : TRUE]]
    /\ recent = [k \in Key |-> <<>>]

\* Stale entries go only when the map has grown large.
Pruned(map, now) ==
    IF Cardinality(Entries) < PruneAt
    THEN map
    ELSE [k \in Key |->
            IF /\ map[k] # NoAttempt
               /\ now > map[k].lockedUntil
               /\ now - map[k].firstFailed > Window
            THEN NoAttempt ELSE map[k]]

\* The entry fail() counts on: the stored one, or a fresh one when there is none
\* or its window has passed.
Counting(entry, now) ==
    IF entry = NoAttempt \/ now - entry.firstFailed > Window
    THEN Fresh(now) ELSE entry

\* Mutants of CountFailure: the lock does not restart the window; the counter is
\* not reset by the lock; the lock comes one failure late.
CountFailureKeepsWindow(entry, now) ==
    IF entry.failures + 1 >= MaxFailures
    THEN [entry EXCEPT !.failures = 0, !.lockedUntil = now + Lockout]
    ELSE [entry EXCEPT !.failures = @ + 1]
CountFailureNoReset(entry, now) ==
    [failures |-> entry.failures + 1,
     firstFailed |-> entry.firstFailed,
     lockedUntil |-> IF entry.failures + 1 >= MaxFailures
                     THEN now + Lockout ELSE entry.lockedUntil]
CountFailureLate(entry, now) ==
    IF entry.failures + 1 > MaxFailures
    THEN [failures |-> 0, firstFailed |-> now, lockedUntil |-> now + Lockout]
    ELSE [entry EXCEPT !.failures = @ + 1]

\* One more failure on the entry; the MaxFailures-th one locks.
CountFailure(entry, now) ==
    IF entry.failures + 1 >= MaxFailures
    THEN [failures |-> 0, firstFailed |-> now, lockedUntil |-> now + Lockout]
    ELSE [entry EXCEPT !.failures = @ + 1]

-----------------------------------------------------------------------------
\* Mutant of Admit: the lock is not looked at.
AdmitAlways(s, k) ==
    /\ login[s].pc = "idle"
    /\ login' = [login EXCEPT ![s] = [pc |-> "check", key |-> k]]
    /\ UNCHANGED <<attempts, clock, recent>>

\* handleLogin: a key that is not locked goes on to the password check; a locked
\* one is answered 429, which changes nothing.
Admit(s, k) ==
    /\ login[s].pc = "idle"
    /\ ~locked(k)
    /\ login' = [login EXCEPT ![s] = [pc |-> "check", key |-> k]]
    /\ UNCHANGED <<attempts, clock, recent>>

\* Wrong credentials: fail(key).
Fail(s) ==
    LET k == login[s].key
        map == Pruned(attempts, clock)
        entry == CountFailure(Counting(map[k], clock), clock)
    IN  /\ login[s].pc = "check"
        /\ attempts' = [map EXCEPT ![k] = entry]
        /\ recent' = [recent EXCEPT ![k] = IF entry.failures = 0 THEN <<>> ELSE Append(@, clock)]
        /\ login' = [login EXCEPT ![s].pc = "idle"]
        /\ UNCHANGED clock

\* Right credentials: succeed(key) forgets the entry, a lock included.
Succeed(s) ==
    LET k == login[s].key
    IN  /\ login[s].pc = "check"
        /\ attempts' = [attempts EXCEPT ![k] = NoAttempt]
        /\ recent' = [recent EXCEPT ![k] = <<>>]
        /\ login' = [login EXCEPT ![s].pc = "idle"]
        /\ UNCHANGED clock

Tick ==
    /\ clock < MaxClock
    /\ clock' = clock + 1
    /\ UNCHANGED <<attempts, login, recent>>

Next ==
    \/ \E s \in SignIn, k \in Key : Admit(s, k)
    \/ \E s \in SignIn : Fail(s) \/ Succeed(s)
    \/ Tick

Spec == Init /\ [][Next]_vars

-----------------------------------------------------------------------------
\* Every variable has its type; the failure counter stays below MaxFailures, where the
\* lock resets it.
TypeOK ==
    /\ attempts \in [Key -> Attempt \cup {NoAttempt}]
    /\ clock \in Time
    /\ login \in [SignIn -> [pc : {"idle", "check"}, key : Key]]
    /\ recent \in [Key -> Seq(Time)]

\* The deadline of an entry lies within Lockout of the start of its window, which is
\* not in the future: what makes an expired window imply an expired lock.
DeadlineInWindow ==
    \A k \in Key : attempts[k] # NoAttempt =>
        /\ attempts[k].firstFailed <= clock
        /\ attempts[k].lockedUntil <= attempts[k].firstFailed + Lockout

\* A lock is never cut short: while a key is locked its entry is kept and its
\* deadline never moves back, unless a sign-in for that key that was already past
\* the check succeeds.  Late failures (fail() on a locked key), the restart of an
\* expired window and pruning could each drop the deadline.
LockIsKept ==
    [][\A k \in Key : locked(k) =>
          \/ /\ attempts'[k] # NoAttempt
             /\ attempts'[k].lockedUntil >= attempts[k].lockedUntil
          \/ \E s \in SignIn : login[s].key = k /\ Succeed(s)]_vars

\* A lock really stops guessing: the passwords checked for a locked key since it was
\* locked, with those still being checked, are fewer than the sign-ins that can be
\* in flight together, because each of them passed locked() before the lock fell.
LockStopsGuessing ==
    \A k \in Key : locked(k) =>
        attempts[k].failures
            + Cardinality({s \in SignIn : login[s].pc = "check" /\ login[s].key = k})
        < Cardinality(SignIn)

\* Two adjacent windows hold at most 2 * (MaxFailures - 1) failures without a lock:
\* more failures than that, none of which locked, span more than one window.
FailuresPerWindow ==
    \A k \in Key : \A i \in DOMAIN recent[k] :
        i + 2 * (MaxFailures - 1) \in DOMAIN recent[k]
            => recent[k][i + 2 * (MaxFailures - 1)] - recent[k][i] > Window

\* Guessing is bounded: under a lock by the sign-ins already in flight, without one by the
\* failures two windows hold.
GuessingBounded == LockStopsGuessing /\ FailuresPerWindow

=============================================================================
