-------------------------- MODULE LoginGateProofs --------------------------
(***************************************************************************)
(* The gate's type invariant; the inductive invariant that relates a lock  *)
(* to its counting window, and the theorem that a lock is never cut short; *)
(* the bounds on guessing: under a lock those who check are counted down   *)
(* (LockStops), without one the failures are grouped by the window they    *)
(* were counted in (Grouped).  For any number of keys and sign-ins.        *)
(***************************************************************************)
EXTENDS LoginGate, FiniteSetTheorems, TLAPS

\* The functions fail() is built from map well-formed entries to well-formed entries.
LEMMA PrunedType ==
    ASSUME NEW map \in [Key -> Attempt \cup {NoAttempt}], NEW now
    PROVE  Pruned(map, now) \in [Key -> Attempt \cup {NoAttempt}]
  BY DEF Pruned

LEMMA CountingType ==
    ASSUME NEW entry \in Attempt \cup {NoAttempt}, NEW now \in Time
    PROVE  Counting(entry, now) \in Attempt
  BY GateConstants DEF Counting, Fresh, Attempt, Time

LEMMA CountFailureType ==
    ASSUME NEW entry \in Attempt, NEW now \in Time
    PROVE  CountFailure(entry, now) \in Attempt
  BY GateConstants DEF CountFailure, Attempt, Time

\* Type correctness: the failure counter of an entry always stays below MaxFailures.
THEOREM TypeCorrect == Spec => []TypeOK
  <1>1. Init => TypeOK
    BY GateConstants DEF Init, TypeOK, Time
  <1>2. TypeOK /\ [Next]_vars => TypeOK'
    <2> SUFFICES ASSUME TypeOK, [Next]_vars
                 PROVE  TypeOK'
      OBVIOUS
    <2>1. ASSUME NEW s \in SignIn, NEW k \in Key, Admit(s, k)
          PROVE  TypeOK'
      BY <2>1 DEF Admit, TypeOK
    <2>2. ASSUME NEW s \in SignIn, Fail(s)
          PROVE  TypeOK'
      <3> DEFINE k == login[s].key
                 map == Pruned(attempts, clock)
                 entry == CountFailure(Counting(map[k], clock), clock)
      <3>1. k \in Key /\ clock \in Time
        BY DEF TypeOK
      <3>2. map \in [Key -> Attempt \cup {NoAttempt}]
        BY PrunedType DEF TypeOK
      <3>3. entry \in Attempt
        BY <3>1, <3>2, CountingType, CountFailureType
      <3>4. attempts' = [map EXCEPT ![k] = entry]
        BY <2>2 DEF Fail
      <3>5. attempts' \in [Key -> Attempt \cup {NoAttempt}]
        <4> HIDE DEF map, entry, k
        <4> QED BY <3>1, <3>2, <3>3, <3>4
      <3>6. recent' \in [Key -> Seq(Time)]
        <4>1. <<>> \in Seq(Time) /\ Append(recent[k], clock) \in Seq(Time)
          BY <3>1 DEF TypeOK
        <4>2. PICK r \in Seq(Time) : recent' = [recent EXCEPT ![k] = r]
          BY <2>2, <4>1 DEF Fail
        <4> HIDE DEF k
        <4> QED BY <3>1, <4>2 DEF TypeOK
      <3>7. login' \in [SignIn -> [pc : {"idle", "check"}, key : Key]]
        BY <2>2 DEF Fail, TypeOK
      <3>8. clock' \in Time
        BY <2>2, <3>1 DEF Fail
      <3> HIDE DEF k, map, entry
      <3> QED BY <3>5, <3>6, <3>7, <3>8 DEF TypeOK
    <2>3. ASSUME NEW s \in SignIn, Succeed(s)
          PROVE  TypeOK'
      BY <2>3 DEF Succeed, TypeOK
    <2>4. CASE Tick
      BY <2>4, GateConstants DEF Tick, TypeOK, Time
    <2>5. CASE UNCHANGED vars
      BY <2>5 DEF vars, TypeOK
    <2> QED BY <2>1, <2>2, <2>3, <2>4, <2>5 DEF Next
  <1> QED BY <1>1, <1>2, PTL DEF Spec

\* The entry fail() stores for a key keeps its deadline near its window.
LEMMA FailEntry ==
    ASSUME NEW old \in Attempt \cup {NoAttempt}, NEW now \in Time,
           old # NoAttempt => /\ old.firstFailed <= now
                              /\ old.lockedUntil <= old.firstFailed + Lockout
    PROVE  LET new == CountFailure(Counting(old, now), now)
           IN  /\ new.firstFailed <= now
               /\ new.lockedUntil <= new.firstFailed + Lockout
               /\ old # NoAttempt /\ old.lockedUntil > now => new.lockedUntil >= old.lockedUntil
  <1> DEFINE mid == Counting(old, now)
             new == CountFailure(mid, now)
  <1>1. /\ mid \in Attempt
        /\ mid.firstFailed <= now
        /\ mid.lockedUntil <= mid.firstFailed + Lockout
        /\ old # NoAttempt /\ old.lockedUntil > now => mid = old
    BY GateConstants, LockoutFitsWindow DEF Counting, Fresh, Attempt, Time
  <1>2. /\ new.firstFailed <= now
        /\ new.lockedUntil <= new.firstFailed + Lockout
        /\ new.lockedUntil >= mid.lockedUntil
    <2> HIDE DEF mid
    <2> QED BY <1>1, GateConstants DEF CountFailure, Attempt, Time
  <1> QED BY <1>1, <1>2

\* What a failing sign-in does to the entry of every key.
LEMMA FailStep ==
    ASSUME TypeOK, DeadlineInWindow, NEW s \in SignIn, Fail(s), NEW k \in Key
    PROVE  /\ clock' = clock
           /\ attempts'[k] # NoAttempt =>
                 /\ attempts'[k].firstFailed <= clock
                 /\ attempts'[k].lockedUntil <= attempts'[k].firstFailed + Lockout
           /\ locked(k) => /\ attempts'[k] # NoAttempt
                           /\ attempts'[k].lockedUntil >= attempts[k].lockedUntil
  <1> DEFINE map == Pruned(attempts, clock)
             entry == CountFailure(Counting(map[k], clock), clock)
  <1>1. map \in [Key -> Attempt \cup {NoAttempt}] /\ clock \in Time /\ login[s].key \in Key
    BY PrunedType DEF TypeOK
  <1>2. map[k] = attempts[k] \/ (map[k] = NoAttempt /\ clock > attempts[k].lockedUntil)
    BY DEF Pruned, TypeOK
  <1>3. locked(k) => map[k] = attempts[k] /\ attempts[k] # NoAttempt /\ attempts[k].lockedUntil > clock
    BY <1>2 DEF locked, TypeOK, Attempt, Time
  <1>4. map[k] # NoAttempt => /\ map[k].firstFailed <= clock
                              /\ map[k].lockedUntil <= map[k].firstFailed + Lockout
    BY <1>2 DEF DeadlineInWindow
  <1>5. map[k] \in Attempt \cup {NoAttempt}
    BY <1>1
  <1>6. entry \in Attempt
    BY <1>1, <1>5, CountingType, CountFailureType
  <1>7. /\ entry.firstFailed <= clock
        /\ entry.lockedUntil <= entry.firstFailed + Lockout
        /\ map[k] # NoAttempt /\ map[k].lockedUntil > clock => entry.lockedUntil >= map[k].lockedUntil
    <2> HIDE DEF map
    <2> QED BY <1>1, <1>4, <1>5, FailEntry
  <1>8. attempts'[k] = IF login[s].key = k THEN entry ELSE map[k]
    <2>1. attempts' = [map EXCEPT ![login[s].key] = CountFailure(Counting(map[login[s].key], clock), clock)]
      BY DEF Fail
    <2> HIDE DEF map
    <2> QED BY <2>1, <1>1
  <1>9. clock' = clock
    BY DEF Fail
  <1>10. attempts[k].lockedUntil >= attempts[k].lockedUntil \/ attempts[k] = NoAttempt
    BY DEF TypeOK, Attempt
  <1> HIDE DEF map, entry
  <1> QED BY <1>3, <1>4, <1>6, <1>7, <1>8, <1>9, <1>10, NoAttemptIsNoEntry

\* Every entry's deadline stays within Lockout of its window's start: the inductive
\* strengthening of LockIsKept.
THEOREM DeadlineSafe == Spec => []DeadlineInWindow
  <1>1. Init => DeadlineInWindow
    BY DEF Init, DeadlineInWindow
  <1>2. TypeOK /\ DeadlineInWindow /\ [Next]_vars => DeadlineInWindow'
    <2> SUFFICES ASSUME TypeOK, DeadlineInWindow, [Next]_vars
                 PROVE  DeadlineInWindow'
      OBVIOUS
    <2>1. ASSUME NEW s \in SignIn, NEW k \in Key, Admit(s, k)
          PROVE  DeadlineInWindow'
      BY <2>1 DEF Admit, DeadlineInWindow
    <2>2. ASSUME NEW s \in SignIn, Fail(s)
          PROVE  DeadlineInWindow'
      BY <2>2, FailStep DEF DeadlineInWindow
    <2>3. ASSUME NEW s \in SignIn, Succeed(s)
          PROVE  DeadlineInWindow'
      BY <2>3 DEF Succeed, DeadlineInWindow, TypeOK
    <2>4. CASE Tick
      BY <2>4 DEF Tick, DeadlineInWindow, TypeOK, Time, Attempt
    <2>5. CASE UNCHANGED vars
      BY <2>5 DEF vars, DeadlineInWindow
    <2> QED BY <2>1, <2>2, <2>3, <2>4, <2>5 DEF Next
  <1> QED BY <1>1, <1>2, TypeCorrect, PTL DEF Spec

\* No interleaving of late failures, window restarts and pruning cuts a lock short,
\* for every number of keys and sign-ins (handleLogin, loginGate.fail and prune).
THEOREM LockKept == Spec => LockIsKept
  <1>1. TypeOK /\ DeadlineInWindow /\ [Next]_vars =>
          [\A k \in Key : locked(k) =>
              \/ /\ attempts'[k] # NoAttempt
                 /\ attempts'[k].lockedUntil >= attempts[k].lockedUntil
              \/ \E s \in SignIn : login[s].key = k /\ Succeed(s)]_vars
    <2> SUFFICES ASSUME TypeOK, DeadlineInWindow, Next, NEW k \in Key, locked(k)
                 PROVE  \/ /\ attempts'[k] # NoAttempt
                           /\ attempts'[k].lockedUntil >= attempts[k].lockedUntil
                        \/ \E s \in SignIn : login[s].key = k /\ Succeed(s)
      OBVIOUS
    <2>0. attempts[k] # NoAttempt /\ attempts[k].lockedUntil >= attempts[k].lockedUntil
      BY DEF locked, TypeOK, Attempt
    <2>1. ASSUME NEW s \in SignIn, NEW j \in Key, Admit(s, j)
          PROVE  attempts'[k] = attempts[k]
      BY <2>1 DEF Admit
    <2>2. ASSUME NEW s \in SignIn, Fail(s)
          PROVE  attempts'[k] # NoAttempt /\ attempts'[k].lockedUntil >= attempts[k].lockedUntil
      BY <2>2, FailStep
    <2>3. ASSUME NEW s \in SignIn, Succeed(s), login[s].key # k
          PROVE  attempts'[k] = attempts[k]
      BY <2>3 DEF Succeed, TypeOK
    <2>4. CASE Tick
      BY <2>0, <2>4 DEF Tick
    <2> QED BY <2>0, <2>1, <2>2, <2>3, <2>4 DEF Next
  <1> QED BY <1>1, TypeCorrect, DeadlineSafe, PTL DEF Spec, LockIsKept

-----------------------------------------------------------------------------
(* Under a lock: those who passed locked() before it fell *)

Checking(k) == {s \in SignIn : login[s].pc = "check" /\ login[s].key = k}

\* One who reports leaves the check; those who check are never more than the sign-ins.
LEMMA CheckingFinite ==
    ASSUME NEW k
    PROVE  /\ IsFiniteSet(Checking(k)) /\ Cardinality(Checking(k)) \in Nat
           /\ Cardinality(SignIn) \in Nat
           /\ \A s \in SignIn : s \notin Checking(k) => Cardinality(Checking(k)) < Cardinality(SignIn)
<1>1. IsFiniteSet(SignIn) /\ Checking(k) \subseteq SignIn BY SignInsFinite DEF Checking
<1>2. IsFiniteSet(Checking(k)) BY <1>1, FS_Subset
<1>3. ASSUME NEW s \in SignIn, s \notin Checking(k)
      PROVE  Cardinality(Checking(k)) < Cardinality(SignIn)
  <2>1. Checking(k) # SignIn BY <1>3
  <2>2. /\ Cardinality(Checking(k)) <= Cardinality(SignIn)
        /\ Cardinality(Checking(k)) # Cardinality(SignIn)
    BY <1>1, <2>1, FS_Subset
  <2>3. Cardinality(Checking(k)) \in Nat /\ Cardinality(SignIn) \in Nat
    BY <1>1, <1>2, FS_CardinalityType
  <2> QED BY <2>2, <2>3
<1> QED BY <1>1, <1>2, <1>3, FS_CardinalityType

LEMMA Reported ==
    ASSUME TypeOK, NEW s \in SignIn, login[s].pc = "check",
           login' = [login EXCEPT ![s].pc = "idle"], NEW k \in Key
    PROVE  /\ s \notin Checking(k)'
           /\ k = login[s].key =>
                 Cardinality(Checking(k)') = Cardinality(Checking(k)) - 1
           /\ k # login[s].key => Checking(k)' = Checking(k)
<1>1. /\ login'[s].pc = "idle"
      /\ \A x \in SignIn : x # s => login'[x] = login[x]
  BY DEF TypeOK
<1>2. s \notin Checking(k)' BY <1>1 DEF Checking
<1>3. ASSUME k = login[s].key
      PROVE  Cardinality(Checking(k)') = Cardinality(Checking(k)) - 1
  <2>1. Checking(k)' = Checking(k) \ {s} /\ s \in Checking(k) BY <1>1, <1>3 DEF Checking
  <2> QED BY <2>1, CheckingFinite, FS_RemoveElement
<1>4. ASSUME k # login[s].key
      PROVE  Checking(k)' = Checking(k)
  BY <1>1, <1>4 DEF Checking
<1> QED BY <1>2, <1>3, <1>4

LockStopsAt(k) ==
    locked(k) => attempts[k].failures + Cardinality(Checking(k)) < Cardinality(SignIn)

\* A failing sign-in counts itself out: either it takes one place in the counter and leaves the
\* check, or it locks and the counter starts again.
LEMMA FailCounted ==
    ASSUME TypeOK, DeadlineInWindow, NEW k \in Key, LockStopsAt(k), NEW s \in SignIn, Fail(s)
    PROVE  LockStopsAt(k)'
<1> DEFINE map == Pruned(attempts, clock)
           entry == CountFailure(Counting(map[k], clock), clock)
<1>1. SUFFICES ASSUME locked(k)'
               PROVE  attempts'[k].failures + Cardinality(Checking(k)') < Cardinality(SignIn)
  BY DEF LockStopsAt
<1>2. /\ attempts' = [map EXCEPT ![login[s].key] =
                         CountFailure(Counting(map[login[s].key], clock), clock)]
      /\ clock' = clock /\ login[s].pc = "check" /\ login' = [login EXCEPT ![s].pc = "idle"]
  BY DEF Fail
<1>3. map \in [Key -> Attempt \cup {NoAttempt}] /\ clock \in Time /\ login[s].key \in Key
  BY PrunedType DEF TypeOK
<1>4. map[k] = attempts[k] \/ map[k] = NoAttempt BY DEF Pruned, TypeOK
<1>5. Cardinality(Checking(k)') \in Nat /\ Cardinality(Checking(k)') < Cardinality(SignIn)
      /\ Cardinality(Checking(k)) \in Nat /\ Cardinality(SignIn) \in Nat
  <2>1. s \notin Checking(k)' BY <1>2, Reported
  <2>2. Checking(k)' \subseteq SignIn /\ Checking(k)' # SignIn BY <2>1 DEF Checking
  <2>3. /\ IsFiniteSet(Checking(k)') /\ Cardinality(Checking(k)') <= Cardinality(SignIn)
        /\ Cardinality(Checking(k)') # Cardinality(SignIn)
    BY <2>2, SignInsFinite, FS_Subset
  <2> QED BY <2>3, CheckingFinite, SignInsFinite, FS_CardinalityType
<1>6. CASE k # login[s].key
  <2>1. attempts'[k] = map[k] BY <1>2, <1>3, <1>6
  <2>2. attempts'[k] = attempts[k] BY <1>1, <1>4, <2>1 DEF locked
  <2>3. locked(k) BY <1>1, <1>2, <2>2 DEF locked
  <2>4. Checking(k)' = Checking(k) BY <1>2, <1>6, Reported
  <2> QED BY <2>2, <2>3, <2>4 DEF LockStopsAt
<1>7. CASE k = login[s].key
  <2> DEFINE mid == Counting(map[k], clock)
  <2>1. attempts'[k] = entry BY <1>2, <1>3, <1>7
  <2>2. mid \in Attempt BY <1>3, CountingType
  <2> HIDE DEF map
  <2>3. CASE mid.failures + 1 >= MaxFailures
    <3>1. entry.failures = 0 BY <2>3 DEF CountFailure
    <3> QED BY <1>5, <2>1, <3>1
  <2>4. CASE ~(mid.failures + 1 >= MaxFailures)
    <3>1. entry = [mid EXCEPT !.failures = @ + 1] BY <2>4 DEF CountFailure
    <3>2. entry.lockedUntil = mid.lockedUntil /\ entry.failures = mid.failures + 1
      BY <2>2, <3>1 DEF Attempt
    <3>3. mid.lockedUntil > clock
      BY <1>1, <1>2, <1>3, <2>1, <2>2, <3>2 DEF locked, Attempt, Time
    <3>4. mid = map[k] /\ map[k] # NoAttempt BY <1>3, <3>3 DEF Counting, Fresh, Time
    <3>5. mid = attempts[k] /\ locked(k)
      <4>1. mid = attempts[k] BY <1>4, <3>4
      <4> QED BY <1>3, <2>2, <3>3, <3>4, <4>1 DEF locked, Attempt, Time
    <3>6. Cardinality(Checking(k)') = Cardinality(Checking(k)) - 1 BY <1>2, <1>7, Reported
    <3>7. attempts[k].failures + Cardinality(Checking(k)) < Cardinality(SignIn)
      BY <3>5 DEF LockStopsAt
    <3>8. attempts'[k].failures = attempts[k].failures + 1 /\ attempts[k].failures \in Nat
      BY <2>1, <2>2, <3>2, <3>5 DEF Attempt
    <3> QED BY <1>5, <3>6, <3>7, <3>8
  <2> QED BY <2>3, <2>4
<1> QED BY <1>6, <1>7

LEMMA LockStops ==
    ASSUME TypeOK, DeadlineInWindow, LockStopsGuessing, [Next]_vars
    PROVE  LockStopsGuessing'
<1>1. \A k \in Key : LockStopsAt(k) BY DEF LockStopsGuessing, LockStopsAt, Checking
<1>2. SUFFICES ASSUME NEW k \in Key PROVE LockStopsAt(k)'
  BY DEF LockStopsGuessing, LockStopsAt, Checking
<1>3. ASSUME NEW s \in SignIn, NEW j \in Key, Admit(s, j) PROVE LockStopsAt(k)'
  <2>1. /\ login[s].pc = "idle" /\ ~locked(j) /\ attempts' = attempts /\ clock' = clock
        /\ login' = [login EXCEPT ![s] = [pc |-> "check", key |-> j]]
    BY <1>3 DEF Admit
  <2>2. CASE k = j BY <2>1, <2>2 DEF LockStopsAt, locked
  <2>3. CASE k # j
    <3>1. Checking(k)' = Checking(k) BY <2>1, <2>3 DEF Checking, TypeOK
    <3> QED BY <1>1, <2>1, <3>1 DEF LockStopsAt, locked
  <2> QED BY <2>2, <2>3
<1>4. ASSUME NEW s \in SignIn, Fail(s) PROVE LockStopsAt(k)' BY <1>1, <1>4, FailCounted
<1>5. ASSUME NEW s \in SignIn, Succeed(s) PROVE LockStopsAt(k)'
  <2>1. /\ attempts' = [attempts EXCEPT ![login[s].key] = NoAttempt] /\ clock' = clock
        /\ login[s].pc = "check" /\ login' = [login EXCEPT ![s].pc = "idle"]
    BY <1>5 DEF Succeed
  <2>2. CASE k = login[s].key
    <3>1. attempts'[k] = NoAttempt BY <2>1, <2>2 DEF TypeOK
    <3> QED BY <3>1 DEF LockStopsAt, locked
  <2>3. CASE k # login[s].key
    <3>1. Checking(k)' = Checking(k) /\ attempts'[k] = attempts[k]
      BY <2>1, <2>3, Reported DEF TypeOK
    <3> QED BY <1>1, <2>1, <3>1 DEF LockStopsAt, locked
  <2> QED BY <2>2, <2>3
<1>6. CASE Tick
  <2>1. clock' = clock + 1 /\ UNCHANGED <<attempts, login>> BY <1>6 DEF Tick
  <2>2. locked(k)' => locked(k) BY <2>1 DEF locked, TypeOK, Attempt, Time
  <2>3. Checking(k)' = Checking(k) BY <2>1 DEF Checking
  <2> QED BY <1>1, <2>1, <2>2, <2>3 DEF LockStopsAt
<1>7. CASE UNCHANGED vars BY <1>1, <1>7 DEF vars, LockStopsAt, locked, Checking
<1> QED BY <1>3, <1>4, <1>5, <1>6, <1>7 DEF Next

-----------------------------------------------------------------------------
(* Without a lock: two windows of failures *)

Apart(r) ==
    \A i \in DOMAIN r : i + 2 * (MaxFailures - 1) \in DOMAIN r
        => r[i + 2 * (MaxFailures - 1)] - r[i] > Window
Until(r, now) == \A i \in DOMAIN r : r[i] <= now

\* Of the failures r, the last f were counted in the window that began at since: those before
\* came no later, and those before the window before it by more than a window.
Grouped(r, f, since) ==
    /\ \A i \in 1..(Len(r) - f) : r[i] <= since
    /\ \A i \in 1..(Len(r) - f + 1 - MaxFailures) : since - r[i] > Window

\* One more failure: in the same window, or the first of the next.
LEMMA OneMore ==
    ASSUME NEW r \in Seq(Time), NEW f \in 0..(MaxFailures - 1), NEW since \in Int,
           NEW now \in Time, since <= now, Apart(r), Until(r, now), Grouped(r, f, since)
    PROVE  /\ Until(Append(r, now), now)
           /\ f + 1 < MaxFailures =>
                 Apart(Append(r, now)) /\ Grouped(Append(r, now), f + 1, since)
           /\ now - since > Window /\ 1 < MaxFailures =>
                 Apart(Append(r, now)) /\ Grouped(Append(r, now), 1, now)
<1> DEFINE n == Len(r)
           r2 == Append(r, now)
           M == MaxFailures
<1>1. M \in Nat /\ M # 0 /\ Window \in Nat BY GateConstants
<1>2. /\ n \in Nat /\ DOMAIN r = 1..n /\ Len(r2) = n + 1 /\ DOMAIN r2 = 1..(n + 1)
      /\ r2[n + 1] = now /\ \A i \in 1..n : r2[i] = r[i] /\ r[i] \in Time
  OBVIOUS
<1>3. now \in Int /\ \A i \in 1..n : r[i] \in Int /\ r[i] <= now BY <1>2 DEF Time, Until
<1>4. /\ \A i \in 1..n : i + 2 * (M - 1) \in 1..n => r[i + 2 * (M - 1)] - r[i] > Window
      /\ \A i \in 1..(n - f) : r[i] <= since
      /\ \A i \in 1..(n - f + 1 - M) : since - r[i] > Window
  BY <1>2 DEF Apart, Grouped
<1> HIDE DEF n, r2, M
<1>5. f \in Int /\ 0 <= f /\ f <= M - 1 BY <1>1 DEF M
<1>6. Until(r2, now) BY <1>2, <1>3 DEF Until
<1>7. ASSUME \A i \in 1..n : i + 2 * (M - 1) = n + 1 => now - r[i] > Window, 1 < M
      PROVE  Apart(r2)
  <2> SUFFICES ASSUME NEW i \in 1..(n + 1), i + 2 * (M - 1) \in 1..(n + 1)
               PROVE  r2[i + 2 * (M - 1)] - r2[i] > Window
    BY <1>2 DEF Apart, M
  <2>1. i \in 1..n BY <1>1, <1>2, <1>7
  <2>2. CASE i + 2 * (M - 1) = n + 1 BY <1>2, <1>7, <2>1, <2>2
  <2>3. CASE i + 2 * (M - 1) # n + 1
    <3>1. i + 2 * (M - 1) \in 1..n BY <1>1, <1>2, <2>3
    <3> QED BY <1>2, <1>4, <2>1, <3>1
  <2> QED BY <2>2, <2>3
<1>8. ASSUME f + 1 < M PROVE Apart(r2) /\ Grouped(r2, f + 1, since)
  <2>1. \A i \in 1..n : i + 2 * (M - 1) = n + 1 => now - r[i] > Window
    <3> SUFFICES ASSUME NEW i \in 1..n, i + 2 * (M - 1) = n + 1 PROVE now - r[i] > Window
      OBVIOUS
    <3>1. i \in 1..(n - f + 1 - M) BY <1>1, <1>2, <1>5, <1>8
    <3>2. since - r[i] > Window BY <1>4, <3>1
    <3> QED BY <1>1, <1>3, <3>2
  <2>2. 1 < M BY <1>1, <1>5, <1>8
  <2>3. /\ (n + 1) - (f + 1) = n - f
        /\ \A i \in 1..(n - f) : i \in 1..n
        /\ (n + 1) - (f + 1) + 1 - M = n - f + 1 - M
        /\ \A i \in 1..(n - f + 1 - M) : i \in 1..n
    BY <1>1, <1>2, <1>5
  <2>4. Grouped(r2, f + 1, since) BY <1>2, <1>4, <2>3 DEF Grouped, M
  <2> QED BY <1>7, <2>1, <2>2, <2>4
<1>9. ASSUME now - since > Window, 1 < M PROVE Apart(r2) /\ Grouped(r2, 1, now)
  <2>1. \A i \in 1..(n + 1 - M) : i \in 1..n /\ now - r[i] > Window
    <3> SUFFICES ASSUME NEW i \in 1..(n + 1 - M) PROVE i \in 1..n /\ now - r[i] > Window
      OBVIOUS
    <3>1. i \in 1..(n - f) /\ i \in 1..n BY <1>1, <1>2, <1>5
    <3>2. r[i] <= since BY <1>4, <3>1
    <3> QED BY <1>1, <1>3, <1>9, <3>1, <3>2
  <2>2. \A i \in 1..n : i + 2 * (M - 1) = n + 1 => now - r[i] > Window
    <3> SUFFICES ASSUME NEW i \in 1..n, i + 2 * (M - 1) = n + 1 PROVE now - r[i] > Window
      OBVIOUS
    <3>1. i \in 1..(n + 1 - M) BY <1>1, <1>2, <1>9
    <3> QED BY <2>1, <3>1
  <2>3. (n + 1) - 1 = n /\ (n + 1) - 1 + 1 - M = n + 1 - M BY <1>1, <1>2
  <2>4. Grouped(r2, 1, now) BY <1>2, <1>3, <2>1, <2>3 DEF Grouped, M
  <2> QED BY <1>7, <1>9, <2>2, <2>4
<1> QED BY <1>6, <1>8, <1>9 DEF r2, M

\* An entry counts the last of the failures r, in the window it began; without an entry that
\* window has passed.
Counts(entry, r, now) ==
    \E f \in 0..(MaxFailures - 1), since \in Int :
        /\ since <= now /\ Grouped(r, f, since)
        /\ IF entry = NoAttempt THEN now - since > Window
           ELSE f = entry.failures /\ since = entry.firstFailed
Windows(entry, r, now) == Apart(r) /\ Until(r, now) /\ Counts(entry, r, now)
WindowInv == \A k \in Key : Windows(attempts[k], recent[k], clock)

\* No failure yet, or none since the key was locked or let in.
LEMMA NoneCounted ==
    ASSUME NEW entry \in Attempt \cup {NoAttempt}, NEW now \in Time,
           entry # NoAttempt => entry.failures = 0 /\ entry.firstFailed = now
    PROVE  Windows(entry, <<>>, now)
<1>1. Apart(<<>>) /\ Until(<<>>, now) BY DEF Apart, Until
<1>2. \A since : Grouped(<<>>, 0, since)
  <2>1. Len(<<>>) = 0 /\ 0 - 0 = 0 /\ 0 - 0 + 1 - MaxFailures < 1 /\ MaxFailures \in Int
    BY GateConstants
  <2> QED BY <2>1 DEF Grouped
<1>3. 0 \in 0..(MaxFailures - 1) /\ Window \in Nat /\ now \in Int BY GateConstants DEF Time
<1>4. CASE entry = NoAttempt
  <2>1. now - Window - 1 \in Int /\ now - Window - 1 <= now /\ now - (now - Window - 1) > Window
    BY <1>3
  <2> QED BY <1>1, <1>2, <1>3, <1>4, <2>1 DEF Windows, Counts
<1>5. CASE entry # NoAttempt
  <2>1. now <= now BY <1>3
  <2> QED BY <1>1, <1>2, <1>3, <1>5, <2>1 DEF Windows, Counts
<1> QED BY <1>4, <1>5

\* The clock goes on.
LEMMA Later ==
    ASSUME NEW entry, NEW r \in Seq(Time), NEW now \in Time, NEW then \in Time, now <= then,
           Windows(entry, r, now)
    PROVE  Windows(entry, r, then)
<1>1. now \in Int /\ then \in Int /\ Window \in Int /\ \A i \in DOMAIN r : r[i] \in Int
  BY GateConstants DEF Time
<1>2. Until(r, then) BY <1>1 DEF Windows, Until
<1>3. Counts(entry, r, then)
  <2>1. PICK f \in 0..(MaxFailures - 1), since \in Int :
           /\ since <= now /\ Grouped(r, f, since)
           /\ IF entry = NoAttempt THEN now - since > Window
              ELSE f = entry.failures /\ since = entry.firstFailed
    BY DEF Windows, Counts
  <2>2. since <= then /\ (now - since > Window => then - since > Window) BY <1>1, <2>1
  <2> QED BY <2>1, <2>2 DEF Counts
<1> QED BY <1>2, <1>3 DEF Windows

\* An entry that is pruned had its window passed.
LEMMA Forgotten ==
    ASSUME TypeOK, NEW k \in Key, Windows(attempts[k], recent[k], clock)
    PROVE  Windows(Pruned(attempts, clock)[k], recent[k], clock)
<1>1. \/ Pruned(attempts, clock)[k] = attempts[k]
      \/ /\ Pruned(attempts, clock)[k] = NoAttempt /\ attempts[k] # NoAttempt
         /\ clock - attempts[k].firstFailed > Window
  BY DEF Pruned, TypeOK
<1>2. CASE Pruned(attempts, clock)[k] = attempts[k] BY <1>2
<1>3. CASE /\ Pruned(attempts, clock)[k] = NoAttempt /\ attempts[k] # NoAttempt
           /\ clock - attempts[k].firstFailed > Window
  <2>1. PICK f \in 0..(MaxFailures - 1), since \in Int :
           /\ since <= clock /\ Grouped(recent[k], f, since)
           /\ since = attempts[k].firstFailed
    BY <1>3 DEF Windows, Counts
  <2> QED BY <1>3, <2>1 DEF Windows, Counts
<1> QED BY <1>1, <1>2, <1>3

\* A failure that does not lock is counted.
LEMMA Counted ==
    ASSUME NEW old \in Attempt \cup {NoAttempt}, NEW r \in Seq(Time), NEW now \in Time,
           Windows(old, r, now)
    PROVE  LET new == CountFailure(Counting(old, now), now)
           IN  Windows(new, IF new.failures = 0 THEN <<>> ELSE Append(r, now), now)
<1> DEFINE mid == Counting(old, now)
           new == CountFailure(mid, now)
<1>1. MaxFailures \in Nat /\ now \in Int BY GateConstants DEF Time
<1>2. PICK f \in 0..(MaxFailures - 1), since \in Int :
         /\ since <= now /\ Grouped(r, f, since)
         /\ IF old = NoAttempt THEN now - since > Window
            ELSE f = old.failures /\ since = old.firstFailed
  BY DEF Windows, Counts
<1>3. \/ mid = Fresh(now) /\ now - since > Window
      \/ mid = old /\ mid.failures = f /\ mid.firstFailed = since
  BY <1>2 DEF Counting
<1>4. mid \in Attempt BY CountingType
<1>5. new \in Attempt BY <1>4, CountFailureType
<1> HIDE DEF mid
<1>6. CASE mid.failures + 1 >= MaxFailures
  <2>1. new.failures = 0 /\ new.firstFailed = now BY <1>6 DEF CountFailure
  <2> HIDE DEF new
  <2>2. Windows(new, <<>>, now) BY <1>5, <2>1, NoneCounted
  <2> QED BY <2>1, <2>2 DEF new, mid
<1>7. CASE ~(mid.failures + 1 >= MaxFailures)
  <2>1. new = [mid EXCEPT !.failures = @ + 1] BY <1>7 DEF CountFailure
  <2>2. new.failures = mid.failures + 1 /\ new.firstFailed = mid.firstFailed
        /\ mid.failures \in Nat
    BY <1>4, <2>1 DEF Attempt
  <2>3. new # NoAttempt BY <1>5, NoAttemptIsNoEntry
  <2> HIDE DEF new
  <2>4. new.failures # 0 /\ mid.failures + 1 < MaxFailures BY <1>1, <1>7, <2>2
  <2>5. Windows(new, Append(r, now), now)
    <3>1. Apart(r) /\ Until(r, now) BY DEF Windows
    <3>2. CASE mid = Fresh(now) /\ now - since > Window
      <4>1. new.failures = 1 /\ new.firstFailed = now BY <2>2, <3>2 DEF Fresh
      <4>2. 1 < MaxFailures /\ now <= now /\ 1 \in 0..(MaxFailures - 1)
        BY <1>1, <2>2, <2>4, <4>1
      <4>3. Until(Append(r, now), now) /\ Apart(Append(r, now)) /\ Grouped(Append(r, now), 1, now)
        BY <1>2, <3>1, <3>2, <4>2, OneMore
      <4> QED BY <1>1, <2>3, <4>1, <4>2, <4>3 DEF Windows, Counts
    <3>3. CASE mid = old /\ mid.failures = f /\ mid.firstFailed = since
      <4>1. f + 1 < MaxFailures /\ f + 1 \in 0..(MaxFailures - 1) BY <1>1, <2>4, <3>3
      <4>2. /\ Until(Append(r, now), now) /\ Apart(Append(r, now))
            /\ Grouped(Append(r, now), f + 1, since)
        BY <1>2, <3>1, <4>1, OneMore
      <4> QED BY <1>2, <2>2, <2>3, <3>3, <4>1, <4>2 DEF Windows, Counts
    <3> QED BY <1>3, <3>2, <3>3
  <2> QED BY <2>4, <2>5 DEF new, mid
<1> QED BY <1>6, <1>7

LEMMA WindowsKept ==
    ASSUME TypeOK, WindowInv, [Next]_vars
    PROVE  WindowInv'
<1>1. SUFFICES ASSUME NEW k \in Key PROVE Windows(attempts'[k], recent'[k], clock')
  BY DEF WindowInv
<1>2. /\ Windows(attempts[k], recent[k], clock) /\ clock \in Time /\ recent[k] \in Seq(Time)
      /\ attempts[k] \in Attempt \cup {NoAttempt}
  BY DEF WindowInv, TypeOK
<1>3. ASSUME NEW s \in SignIn, NEW j \in Key, Admit(s, j)
      PROVE  Windows(attempts'[k], recent'[k], clock')
  BY <1>2, <1>3 DEF Admit
<1>4. ASSUME NEW s \in SignIn, Fail(s)
      PROVE  Windows(attempts'[k], recent'[k], clock')
  <2> DEFINE map == Pruned(attempts, clock)
             j == login[s].key
             entry == CountFailure(Counting(map[j], clock), clock)
             r == IF entry.failures = 0 THEN <<>> ELSE Append(recent[j], clock)
  <2>1. map \in [Key -> Attempt \cup {NoAttempt}] /\ Windows(map[k], recent[k], clock)
    BY <1>2, PrunedType, Forgotten DEF TypeOK
  <2>2. /\ attempts' = [map EXCEPT ![j] = entry] /\ clock' = clock
        /\ recent' = [recent EXCEPT ![j] = r]
    BY <1>4 DEF Fail
  <2>3. j \in Key /\ recent \in [Key -> Seq(Time)] BY DEF TypeOK
  <2> HIDE DEF map
  <2>4. CASE k = j
    <3>1. Windows(entry, r, clock) BY <1>2, <2>1, <2>4, Counted
    <3> QED BY <2>1, <2>2, <2>3, <2>4, <3>1
  <2>5. CASE k # j BY <2>1, <2>2, <2>3, <2>5
  <2> QED BY <2>4, <2>5
<1>5. ASSUME NEW s \in SignIn, Succeed(s)
      PROVE  Windows(attempts'[k], recent'[k], clock')
  <2>1. /\ attempts' = [attempts EXCEPT ![login[s].key] = NoAttempt] /\ clock' = clock
        /\ recent' = [recent EXCEPT ![login[s].key] = <<>>]
    BY <1>5 DEF Succeed
  <2>2. CASE k = login[s].key
    <3>1. Windows(NoAttempt, <<>>, clock) BY <1>2, NoneCounted
    <3> QED BY <2>1, <2>2, <3>1 DEF TypeOK
  <2>3. CASE k # login[s].key BY <1>2, <2>1, <2>3 DEF TypeOK
  <2> QED BY <2>2, <2>3
<1>6. CASE Tick
  <2>1. clock' = clock + 1 /\ clock < MaxClock /\ UNCHANGED <<attempts, recent>>
    BY <1>6 DEF Tick
  <2>2. clock' \in Time /\ clock <= clock' BY <1>2, <2>1, GateConstants DEF Time
  <2> QED BY <1>2, <2>1, <2>2, Later
<1>7. CASE UNCHANGED vars BY <1>2, <1>7 DEF vars
<1> QED BY <1>3, <1>4, <1>5, <1>6, <1>7 DEF Next

\* Guessing is bounded, for any number of keys and sign-ins and any limits: while a key is
\* locked fewer passwords are checked for it than sign-ins can be in flight; without a lock no
\* span of loginWindow sees more than 2 * (MaxFailures - 1) failures, wherever windows start,
\* restart or are pruned (handleLogin, fail, prune).
THEOREM GuessesBounded == Spec => []GuessingBounded
<1> DEFINE Inv == LockStopsGuessing /\ WindowInv
<1>1. Init => Inv
  <2> SUFFICES ASSUME Init PROVE Inv OBVIOUS
  <2>1. \A k \in Key : attempts[k] = NoAttempt /\ recent[k] = <<>> /\ clock = 0
    BY DEF Init
  <2>2. 0 \in Time BY GateConstants DEF Time
  <2>3. WindowInv BY <2>1, <2>2, NoneCounted DEF WindowInv
  <2> QED BY <2>1, <2>3 DEF LockStopsGuessing, locked
<1>2. TypeOK /\ DeadlineInWindow /\ Inv /\ [Next]_vars => Inv'
  BY LockStops, WindowsKept
<1>3. Inv => GuessingBounded
  BY DEF WindowInv, Windows, Apart, GuessingBounded, FailuresPerWindow
<1> QED BY <1>1, <1>2, <1>3, TypeCorrect, DeadlineSafe, PTL DEF Spec

=============================================================================
