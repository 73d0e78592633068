---------------------------- MODULE LockoutProofs ----------------------------
(***************************************************************************)
(* Proofs about Lockout, for every number of logins and every limit.       *)
(*                                                                         *)
(* The argument for AttemptsBounded: take a window as long as the cooldown *)
(* that MaxAttempts more failures lead to.  Once it holds that many, a     *)
(* login that counts gets a cooldown that reaches back over the window, as *)
(* cooldowns only grow with the series, and is refused.  So every later    *)
(* failure of the window comes from a login that had counted before, and   *)
(* one of those recorded the last.                                         *)
(***************************************************************************)
EXTENDS Lockout, ArithmeticProofs, FiniteSetTheorems

-----------------------------------------------------------------------------
(* Arithmetic of the cooldown.                                             *)

LEMMA MinOfTwo ==
  ASSUME NEW a \in Int, NEW b \in Int
  PROVE  Min({a, b}) = IF a <= b THEN a ELSE b
BY DEF Min

LEMMA Powers ==
  /\ \A k \in Nat : PowerOfTwo[k] \in Nat \ {0}
  /\ \A k, l \in Nat : k <= l => PowerOfTwo[k] <= PowerOfTwo[l]
<1>1. IsDoubling(PowerOfTwo)
  BY DoublingExists DEF IsDoubling, PowerOfTwo
<1>. QED BY <1>1, DoublingType, DoublingMonotone

LEMMA CooldownType ==
  ASSUME NEW failed \in Nat, failed >= MaxAttempts
  PROVE  Cooldown(failed) \in Nat \ {0} /\ Cooldown(failed) <= MaxLockout
<1>. DEFINE k == failed \div MaxAttempts - 1
<1>1. k \in Nat
  BY Quotient, LockoutAssumption
<1>2. BaseLockout * PowerOfTwo[k] \in Nat \ {0}
  BY <1>1, Powers, Product, LockoutAssumption
<1>3. Cooldown(failed) = Min({BaseLockout * PowerOfTwo[k], MaxLockout})
  BY DEF Cooldown
<1>. HIDE DEF k
<1>. QED BY <1>2, <1>3, MinOfTwo, LockoutAssumption

\* A longer series of failures never has the shorter cooldown.
LEMMA CooldownMonotone ==
  ASSUME NEW failed \in Nat, NEW more \in Nat, failed >= MaxAttempts, failed <= more
  PROVE  Cooldown(failed) <= Cooldown(more)
<1>. DEFINE k == failed \div MaxAttempts - 1
            l == more \div MaxAttempts - 1
<1>1. k \in Nat /\ l \in Nat /\ k <= l
  <2>1. failed \div MaxAttempts \in 1 .. failed /\ more \div MaxAttempts \in 1 .. more
    BY Quotient, LockoutAssumption
  <2>2. failed \div MaxAttempts <= more \div MaxAttempts
    BY QuotientMonotone, LockoutAssumption
  <2>. QED BY <2>1, <2>2
<1>2. Cooldown(failed) = Min({BaseLockout * PowerOfTwo[k], MaxLockout})
      /\ Cooldown(more) = Min({BaseLockout * PowerOfTwo[l], MaxLockout})
  BY DEF Cooldown
<1>. HIDE DEF k, l
<1>3. PowerOfTwo[k] \in Nat \ {0} /\ PowerOfTwo[l] \in Nat \ {0} /\ PowerOfTwo[k] <= PowerOfTwo[l]
  BY <1>1, Powers
<1>4. PICK p \in Nat \ {0}, q \in Nat \ {0} :
         p = BaseLockout * PowerOfTwo[k] /\ q = BaseLockout * PowerOfTwo[l] /\ p <= q
  BY <1>3, Product, ProductMonotone, LockoutAssumption
<1>. QED BY <1>2, <1>4, MinOfTwo, LockoutAssumption

-----------------------------------------------------------------------------
(* Counting rows.                                                          *)

LEMMA HitsFinite ==
  ASSUME NEW s \in Seq(Time), NEW S
  PROVE  /\ IsFiniteSet({i \in DOMAIN s : s[i] \in S})
         /\ Cardinality({i \in DOMAIN s : s[i] \in S}) <= Len(s)
<1>1. DOMAIN s = 1 .. Len(s) /\ Len(s) \in Nat
  OBVIOUS
<1>2. IsFiniteSet(1 .. Len(s)) /\ Cardinality(1 .. Len(s)) = Len(s)
  <2>1. ASSUME NEW n \in Nat PROVE IsFiniteSet(1 .. n) /\ Cardinality(1 .. n) = n
    BY FS_Interval
  <2>. QED BY <1>1, <2>1, Zenon
<1>3. {i \in DOMAIN s : s[i] \in S} \subseteq 1 .. Len(s)
  BY <1>1
<1>. QED BY <1>1, <1>2, <1>3, FS_Subset

LEMMA HitsAppend ==
  ASSUME NEW s \in Seq(Time), NEW S, NEW x \in Time
  PROVE  LET hits == {i \in DOMAIN s : s[i] \in S}
             next == Append(s, x)
         IN  Cardinality({i \in DOMAIN next : next[i] \in S})
               = IF x \in S THEN Cardinality(hits) + 1 ELSE Cardinality(hits)
<1>. DEFINE n == Len(s) + 1
            Hits == {i \in DOMAIN s : s[i] \in S}
            next == Append(s, x)
<1>1. DOMAIN s = 1 .. Len(s) /\ DOMAIN next = 1 .. n /\ n \notin Hits /\ Len(s) \in Nat
  OBVIOUS
<1>2. next[n] = x /\ \A i \in DOMAIN s : next[i] = s[i]
  OBVIOUS
<1>3. {i \in DOMAIN next : next[i] \in S} = IF x \in S THEN Hits \cup {n} ELSE Hits
  BY <1>1, <1>2
<1>4. IsFiniteSet(Hits)
  BY HitsFinite
<1>5. Cardinality(Hits \cup {n}) = Cardinality(Hits) + 1
  BY <1>1, <1>4, FS_AddElement
<1>. QED BY <1>3, <1>5

LEMMA FailedType ==
  ASSUME NEW S, failures \in Seq(Time)
  PROVE  /\ IsFiniteSet({i \in DOMAIN failures : failures[i] \in S})
         /\ Failed(S) \in Nat /\ Failed(S) <= Len(failures)
BY HitsFinite, FS_CardinalityType DEF Failed

LEMMA FailedNat ==
  ASSUME NEW S, failures \in Seq(Time)
  PROVE  Failed(S) \in Nat /\ Failed(S) <= Len(failures)
BY FailedType

LEMMA FailedWitness ==
  ASSUME NEW S, failures \in Seq(Time), Failed(S) >= 1
  PROVE  \E i \in DOMAIN failures : failures[i] \in S
<1>. SUFFICES ASSUME ~ \E i \in DOMAIN failures : failures[i] \in S
              PROVE  FALSE
  OBVIOUS
<1>1. {i \in DOMAIN failures : failures[i] \in S} = {}
  OBVIOUS
<1>2. Failed(S) = Cardinality({})
  BY <1>1, Zenon DEF Failed
<1>. QED BY <1>2, FS_EmptySet

LEMMA FailedSubset ==
  ASSUME NEW S, NEW T, failures \in Seq(Time), S \cap Time \subseteq T
  PROVE  Failed(S) <= Failed(T)
<1>1. {i \in DOMAIN failures : failures[i] \in S} \subseteq {i \in DOMAIN failures : failures[i] \in T}
  OBVIOUS
<1>. QED BY <1>1, FailedType, FS_Subset DEF Failed

\* What the insert of a row adds to the counts.
LEMMA FailedAppend ==
  ASSUME NEW S, failures \in Seq(Time), clock \in Time, failures' = Append(failures, clock)
  PROVE  Failed(S)' = IF clock \in S THEN Failed(S) + 1 ELSE Failed(S)
BY HitsAppend DEF Failed

\* The rows of two times that lie apart, and of all times from s on.
LEMMA FailedApart ==
  ASSUME NEW S, NEW T, NEW U, failures \in Seq(Time),
         S \cap T = {}, (S \cup T) \cap Time \subseteq U
  PROVE  Failed(S) + Failed(T) <= Failed(U)
<1>. DEFINE A == {i \in DOMAIN failures : failures[i] \in S}
            B == {i \in DOMAIN failures : failures[i] \in T}
            C == {i \in DOMAIN failures : failures[i] \in U}
<1>1. IsFiniteSet(A) /\ IsFiniteSet(B) /\ IsFiniteSet(C)
  BY FailedType
<1>2. A \cap B = {} /\ A \cup B \subseteq C
  OBVIOUS
<1>3. Failed(S) = Cardinality(A) /\ Failed(T) = Cardinality(B) /\ Failed(U) = Cardinality(C)
  BY DEF Failed
<1>. HIDE DEF A, B, C
<1>4. Cardinality(A \cup B) = Cardinality(A) + Cardinality(B)
  <2>1. Cardinality(A) \in Nat /\ Cardinality(B) \in Nat /\ Cardinality({}) = 0
    BY <1>1, FS_EmptySet, FS_CardinalityType
  <2>2. Cardinality(A \cup B) = Cardinality(A) + Cardinality(B) - Cardinality(A \cap B)
    BY <1>1, FS_Union
  <2>3. Cardinality(A \cap B) = 0
    BY <1>2, <2>1, Zenon
  <2>. QED BY <2>1, <2>2, <2>3
<1>5. Cardinality(A \cup B) <= Cardinality(C)
  BY <1>1, <1>2, FS_Subset
<1>. QED BY <1>3, <1>4, <1>5

-----------------------------------------------------------------------------
(* The invariant.                                                          *)

Busy == {r \in Reqs : req[r].pc # "idle"}

PastCheck == {"compare", "recordFailure"}

\* The logins that can still record a failure in a full window of length w:
\* past the check, or about to decide with a shorter cooldown.
Loose(w) ==
    {r \in Reqs : \/ req[r].pc \in PastCheck
                  \/ req[r].pc = "recent" /\ req[r].cooldown < w}

\* Rows are inserted in the order of the clock.
InOrder ==
    /\ \A i, j \in DOMAIN failures : i <= j => failures[i] <= failures[j]
    /\ \A i \in DOMAIN failures : failures[i] <= clock
    /\ \A s \in successes : s <= clock
    /\ successes # {} => \E s \in successes : \A t \in successes : t <= s

\* A login that has begun has room for its row.
RowsFit == Len(failures) + Cardinality(Busy) <= MaxRows + Cardinality(Reqs)

\* What a login's readings tell of the table later.
Readings ==
    \A r \in Reqs :
        /\ req[r].pc = "count" => req[r].since = 0 \/ req[r].since \in successes
        /\ req[r].pc = "recent" => req[r].since + req[r].cooldown <= clock

\* A window of length w from t on, after a series of failures from u on.
Bounded(u, t, w) ==
    successes \cap (u .. t + w - 1) = {} =>
        \/ Failed(t .. t + w - 1) < MaxAttempts
        \/ Failed(t .. t + w - 1) + (IF clock <= t + w - 1 THEN Cardinality(Loose(w)) ELSE 0)
              <= MaxAttempts + Cardinality(Reqs) - 1

WindowsFull == \A t \in Time : \A u \in 0 .. t : Bounded(u, t, Backoff(u, t))

LockoutInv == TypeOK /\ InOrder /\ RowsFit /\ Readings /\ WindowsFull

-----------------------------------------------------------------------------
(* Sets of requests.                                                       *)

LEMMA RequestSets ==
  /\ IsFiniteSet(Busy) /\ Cardinality(Busy) \in Nat /\ Cardinality(Busy) <= Cardinality(Reqs)
  /\ Cardinality(Reqs) \in Nat
  /\ \A w : /\ IsFiniteSet(Loose(w)) /\ Cardinality(Loose(w)) \in Nat
            /\ Cardinality(Loose(w)) <= Cardinality(Reqs)
<1>1. Busy \subseteq Reqs /\ \A w : Loose(w) \subseteq Reqs
  BY DEF Busy, Loose
<1>. QED BY <1>1, LockoutAssumption, FS_Subset, FS_CardinalityType

LEMMA RequestSetsNext ==
  /\ Cardinality(Reqs) \in Nat
  /\ IsFiniteSet(Busy') /\ Cardinality(Busy') \in Nat /\ Cardinality(Busy') <= Cardinality(Reqs)
  /\ \A w : /\ IsFiniteSet(Loose(w)') /\ Cardinality(Loose(w)') \in Nat
            /\ Cardinality(Loose(w)') <= Cardinality(Reqs)
<1>1. Busy' \subseteq Reqs /\ \A w : Loose(w)' \subseteq Reqs
  BY DEF Busy, Loose
<1>. QED BY <1>1, LockoutAssumption, FS_Subset, FS_CardinalityType

\* A request that ends leaves its set.
LEMMA Leaves ==
  ASSUME NEW S, IsFiniteSet(S), NEW T, NEW r \in S, T \subseteq S \ {r}
  PROVE  Cardinality(T) <= Cardinality(S) - 1
<1>1. IsFiniteSet(S \ {r}) /\ Cardinality(S \ {r}) = Cardinality(S) - 1
  BY FS_RemoveElement
<1>. QED BY <1>1, FS_Subset

-----------------------------------------------------------------------------
(* The check refuses in a full window.                                     *)

LEMMA NewestFailure ==
  ASSUME TypeOK, InOrder, NEW from \in Int, Failed(Since(from)) >= 1
  PROVE  /\ Len(failures) \in DOMAIN failures
         /\ LastFailure(from) = failures[Len(failures)]
         /\ failures[Len(failures)] >= from
<1>. DEFINE n == Len(failures)
            Recent == {failures[i] : i \in {j \in DOMAIN failures : failures[j] >= from}}
<1>1. failures \in Seq(Time) /\ Time \subseteq Int
  BY LockoutAssumption DEF TypeOK, Time
<1>2. PICK i \in DOMAIN failures : failures[i] \in Since(from)
  BY <1>1, FailedWitness
<1>3. n \in Nat /\ DOMAIN failures = 1 .. n
  BY <1>1
<1>4. i <= n /\ n \in DOMAIN failures /\ failures[i] >= from
  BY <1>1, <1>2, <1>3 DEF Since
<1>5. \A j \in DOMAIN failures : failures[j] \in Int /\ failures[j] <= failures[n]
  <2>1. \A j \in DOMAIN failures : failures[j] \in Time
    BY <1>1
  <2>2. \A j \in DOMAIN failures : j <= n
    BY <1>3
  <2>. QED BY <1>1, <1>4, <2>1, <2>2 DEF InOrder
<1>6. failures[n] >= from /\ failures[n] \in Recent
  BY <1>2, <1>4, <1>5
<1>7. \A x \in Recent : x \in Int /\ failures[n] >= x
  BY <1>5
<1>8. Max(Recent) = failures[n]
  <2>. HIDE DEF Recent
  <2>1. \A x \in Recent : (\A y \in Recent : x >= y) => x = failures[n]
    BY <1>6, <1>7
  <2>. QED BY <1>6, <1>7, <2>1 DEF Max
<1>. QED BY <1>4, <1>6, <1>8 DEF LastFailure

LEMMA BackoffType ==
  ASSUME TypeOK, NEW t \in Time, NEW u \in 0 .. t
  PROVE  /\ Backoff(u, t) \in Nat \ {0} /\ Backoff(u, t) <= MaxLockout
         /\ Failed(u .. t - 1) \in Nat /\ Failed(t .. t + Backoff(u, t) - 1) \in Nat
<1>1. failures \in Seq(Time) /\ MaxAttempts \in Nat
  BY LockoutAssumption DEF TypeOK
<1>2. \A S : Failed(S) \in Nat
  BY <1>1, FailedNat
<1>. QED BY <1>1, <1>2, CooldownType DEF Backoff

LEMMA LaterThan ==
  ASSUME NEW s \in Int, NEW a \in Int, NEW b \in Int, s <= a
  PROVE  \A x \in a .. b : s <= x
OBVIOUS

\* As long as a full window lasts, no reading of the table opens the check: a
\* login that counts now gets a cooldown that reaches back over the window,
\* and one with such a cooldown is refused.
LEMMA FullWindowBlocks ==
  ASSUME TypeOK, InOrder, Readings, NEW t \in Time, NEW u \in 0 .. t, NEW w \in Nat \ {0},
         NEW r \in Reqs,
         successes \cap (u .. t + w - 1) = {}, clock <= t + w - 1,
         Failed(t .. t + w - 1) >= MaxAttempts
  PROVE  /\ req[r].pc = "count" =>
               Failed(Since(req[r].since)) >= MaxAttempts + Failed(u .. t - 1)
         /\ req[r].pc = "recent" /\ ~ req[r].cooldown < w =>
               Locked(req[r].since, req[r].cooldown)
<1>1. /\ failures \in Seq(Time) /\ clock \in Nat /\ t \in Nat /\ u \in Nat /\ u <= t
      /\ MaxAttempts \in Nat \ {0}
      /\ successes \subseteq Nat /\ Time = 0 .. MaxTime /\ MaxTime \in Nat
  BY LockoutAssumption DEF TypeOK, Time
<1>2. req[r].since \in Int /\ req[r].cooldown \in Nat
  BY LockoutAssumption DEF TypeOK
<1>3. \A S : Failed(S) \in Nat
  BY <1>1, FailedNat
<1>4. PICK i \in DOMAIN failures : failures[i] \in t .. t + w - 1
  <2>1. Failed(t .. t + w - 1) >= 1
    BY <1>1, <1>3
  <2>. QED BY <1>1, <2>1, FailedWitness
<1>5. t <= clock
  <2>1. failures[i] \in Nat /\ failures[i] <= clock
    BY <1>1, <1>4 DEF InOrder
  <2>. QED BY <1>1, <1>4, <2>1
<1>6. ASSUME req[r].pc = "count"
      PROVE  Failed(Since(req[r].since)) >= MaxAttempts + Failed(u .. t - 1)
  <2>1. req[r].since = 0 \/ req[r].since \in successes
    BY <1>6 DEF Readings
  <2>2. \A s \in successes : s < u
    BY <1>1, <1>5 DEF InOrder
  <2>3. req[r].since <= u
    BY <1>1, <1>2, <2>1, <2>2
  <2>4. ((u .. t - 1) \cup (t .. t + w - 1)) \cap Time \subseteq Since(req[r].since)
    <3>1. req[r].since <= t
      BY <1>1, <1>2, <2>3
    <3>2. \A x \in u .. t - 1 : req[r].since <= x
      BY <1>1, <1>2, <2>3, LaterThan
    <3>3. \A x \in t .. t + w - 1 : req[r].since <= x
      BY <1>1, <1>2, <3>1, LaterThan
    <3>. QED BY <3>2, <3>3, Zenon DEF Since
  <2>5. (u .. t - 1) \cap (t .. t + w - 1) = {}
    BY <1>1
  <2>6. Failed(u .. t - 1) + Failed(t .. t + w - 1) <= Failed(Since(req[r].since))
    BY <1>1, <2>4, <2>5, FailedApart
  <2>. QED BY <1>1, <1>3, <2>6
<1>7. ASSUME req[r].pc = "recent", ~ req[r].cooldown < w
      PROVE  Locked(req[r].since, req[r].cooldown)
  <2>1. req[r].since + req[r].cooldown <= clock /\ w <= req[r].cooldown
    BY <1>2, <1>7 DEF Readings
  <2>2. req[r].since <= t
    <3>1. PICK s \in Int, c \in Nat : s = req[r].since /\ c = req[r].cooldown
      BY <1>2
    <3>2. s + c <= clock /\ w <= c
      BY <2>1, <3>1
    <3>3. PICK v \in Nat, n \in Nat : v = w /\ n = clock
      BY <1>1
    <3>4. s + c <= n /\ v <= c /\ n <= t + v - 1
      BY <3>2, <3>3
    <3>5. s <= t
      BY <1>1, <3>4
    <3>. QED BY <3>1, <3>5
  <2>3. Failed(Since(req[r].since)) >= MaxAttempts
    <3>1. (t .. t + w - 1) \cap Time \subseteq Since(req[r].since)
      BY <1>1, <1>2, <2>2 DEF Since
    <3>2. Failed(t .. t + w - 1) <= Failed(Since(req[r].since))
      BY <1>1, <3>1, FailedSubset
    <3>. QED BY <1>1, <1>3, <3>2
  <2>4. Failed(Since(req[r].since)) >= 1
    BY <1>1, <1>3, <2>3
  <2>5. Len(failures) \in DOMAIN failures /\ LastFailure(req[r].since) = failures[Len(failures)]
    BY <1>2, <2>4, NewestFailure
  <2>6. failures[Len(failures)] \in Nat /\ failures[i] \in Nat /\ failures[i] >= t
    <3>1. failures[Len(failures)] \in Time /\ failures[i] \in Time
      BY <1>1, <1>4, <2>5
    <3>. QED BY <1>1, <1>4, <3>1
  <2>7. failures[Len(failures)] >= t
    <3>1. i <= Len(failures)
      BY <1>1, <1>4
    <3>2. failures[i] <= failures[Len(failures)]
      BY <1>4, <2>5, <3>1 DEF InOrder
    <3>. QED BY <1>1, <2>6, <3>2
  <2>8. LastFailure(req[r].since) + req[r].cooldown > clock
    <3>1. PICK last \in Nat, c \in Nat, v \in Nat, n \in Nat :
             last = failures[Len(failures)] /\ c = req[r].cooldown /\ v = w /\ n = clock
      BY <1>1, <1>2, <2>6
    <3>2. last >= t /\ v <= c /\ n <= t + v - 1
      BY <2>1, <2>7, <3>1
    <3>3. last + c > n
      BY <1>1, <3>2
    <3>. QED BY <2>5, <3>1, <3>3
  <2>. QED BY <2>3, <2>8 DEF Locked
<1>. QED BY <1>6, <1>7

-----------------------------------------------------------------------------
(* The steps of a login.                                                   *)

\* The success that getConsecutiveFailedCount finds is the newest.
LEMMA NewestSuccess ==
  ASSUME TypeOK, InOrder
  PROVE  /\ LastSuccess \in successes \cup {0} /\ Max(successes \cup {0}) \in successes \cup {0}
         /\ \A s \in successes \cup {0} : s <= LastSuccess
<1>1. \A s \in successes \cup {0} : s \in Nat
  BY LockoutAssumption DEF TypeOK, Time
<1>2. CASE successes = {}
  <2>1. LastSuccess = 0 /\ Max(successes \cup {0}) = 0
    BY <1>2 DEF LastSuccess, Max
  <2>. QED BY <1>2, <2>1
<1>3. CASE successes # {}
  <2>1. PICK s \in successes : \A t \in successes : t <= s
    BY <1>3 DEF InOrder
  <2>2. Max(successes) = s /\ Max(successes \cup {0}) = s
    BY <1>1, <2>1 DEF Max
  <2>. QED BY <1>1, <1>3, <2>1, <2>2 DEF LastSuccess
<1>. QED BY <1>2, <1>3

Logins == [pc : Steps, verified : BOOLEAN,
           since : -MaxLockout .. MaxTime, cooldown : 0 .. MaxLockout,
           began : Time]

LEMMA IdleType == Idle \in Logins /\ Idle.pc = "idle"
BY LockoutAssumption DEF Idle, Logins, Steps, Time

\* No failure is recorded, and nobody who may record one joins a full window.
LEMMA BoundedKept ==
  ASSUME TypeOK, NEW t \in Time, NEW u, NEW w \in Nat \ {0}, Bounded(u, t, w),
         failures' = failures, successes \subseteq successes', clock' \in Time, clock <= clock',
         successes \cap (u .. t + w - 1) = {} /\ clock <= t + w - 1
            /\ Failed(t .. t + w - 1) >= MaxAttempts
         => Loose(w)' \subseteq Loose(w)
  PROVE  Bounded(u, t, w)'
<1>. DEFINE n == Failed(t .. t + w - 1)
            m == IF clock <= t + w - 1 THEN Cardinality(Loose(w)) ELSE 0
<1>1. n' = n /\ n \in Nat /\ MaxAttempts \in Nat
  BY FailedNat, LockoutAssumption DEF TypeOK, Failed
<1>2. SUFFICES ASSUME successes \cap (u .. t + w - 1) = {}, n >= MaxAttempts
               PROVE  n + m' <= MaxAttempts + Cardinality(Reqs) - 1
  BY <1>1 DEF Bounded
<1>3. n + m <= MaxAttempts + Cardinality(Reqs) - 1
  BY <1>1, <1>2 DEF Bounded
<1>4. m' \in Nat /\ m \in Nat /\ m' <= m
  <2>1. clock \in Nat /\ clock' \in Nat /\ t \in Nat
    BY LockoutAssumption DEF TypeOK, Time
  <2>2. /\ Cardinality(Loose(w)) \in Nat /\ Cardinality(Loose(w)') \in Nat
        /\ Loose(w)' \subseteq Loose(w) => Cardinality(Loose(w)') <= Cardinality(Loose(w))
    BY RequestSets, RequestSetsNext, FS_Subset
  <2>3. m' = IF clock' <= t + w - 1 THEN Cardinality(Loose(w)') ELSE 0
    OBVIOUS
  <2>. QED BY <1>2, <2>1, <2>2, <2>3
<1>5. Cardinality(Reqs) \in Nat
  BY RequestSets
<1>. HIDE DEF n, m
<1>. QED BY <1>1, <1>3, <1>4, <1>5

LEMMA WindowsHold ==
  ASSUME TypeOK, WindowsFull,
         failures' = failures, successes \subseteq successes', clock' \in Time, clock <= clock',
         \A t \in Time : \A u \in 0 .. t : \A w \in Nat \ {0} :
            /\ w = Backoff(u, t)
            /\ successes \cap (u .. t + w - 1) = {} /\ clock <= t + w - 1
            /\ Failed(t .. t + w - 1) >= MaxAttempts
            => Loose(w)' \subseteq Loose(w)
  PROVE  WindowsFull'
<1>. SUFFICES ASSUME NEW t \in Time, NEW u \in 0 .. t PROVE Bounded(u, t, Backoff(u, t))'
  BY DEF WindowsFull
<1>1. PICK w \in Nat \ {0} : w = Backoff(u, t)
  BY BackoffType
<1>2. Backoff(u, t)' = w
  BY <1>1 DEF Backoff, Failed
<1>3. Bounded(u, t, w)
  BY <1>1 DEF WindowsFull
<1>4. Bounded(u, t, w)'
  BY <1>1, <1>3, BoundedKept
<1>. QED BY <1>2, <1>4 DEF Bounded, Loose

LEMMA QuietStep ==
  ASSUME LockoutInv, UNCHANGED <<clock, failures, successes>>, verified' \in BOOLEAN,
         NEW r \in Reqs, NEW new \in Logins, req' = [req EXCEPT ![r] = new],
         req[r].pc = "idle" => new.pc = "idle" \/ Len(failures) < MaxRows,
         new.pc = "count" => new.since = 0 \/ new.since \in successes,
         new.pc = "recent" =>
            /\ new.since + new.cooldown <= clock
            /\ req[r].pc = "count" /\ new.cooldown = Cooldown(Failed(Since(req[r].since))),
         new.pc \in PastCheck =>
            \/ req[r].pc \in PastCheck
            \/ req[r].pc = "count" /\ ~ Failed(Since(req[r].since)) >= MaxAttempts
            \/ req[r].pc = "recent" /\ ~ Locked(req[r].since, req[r].cooldown)
  PROVE  LockoutInv'
<1>. USE DEF LockoutInv
<1>1. req \in [Reqs -> Logins] /\ req' \in [Reqs -> Logins]
      /\ req'[r] = new /\ \A q \in Reqs \ {r} : req'[q] = req[q]
  BY DEF TypeOK, Logins
<1>2. TypeOK'
  BY <1>1 DEF TypeOK, Logins
<1>3. InOrder'
  BY DEF InOrder
<1>4. RowsFit'
  <2>1. Len(failures) \in Nat /\ MaxRows \in Nat
    BY LockoutAssumption DEF TypeOK
  <2>2. CASE Len(failures) < MaxRows
    BY <2>1, <2>2, RequestSetsNext DEF RowsFit
  <2>3. CASE Busy' \subseteq Busy
    <3>1. Cardinality(Busy') <= Cardinality(Busy)
      BY <2>3, RequestSets, FS_Subset
    <3>. QED BY <2>1, <3>1, RequestSets, RequestSetsNext DEF RowsFit
  <2>4. Len(failures) < MaxRows \/ Busy' \subseteq Busy
    BY <1>1 DEF Busy
  <2>. QED BY <2>2, <2>3, <2>4
<1>5. Readings'
  BY <1>1 DEF Readings
<1>6. WindowsFull'
  <2>1. ASSUME NEW t \in Time, NEW u \in 0 .. t, NEW w \in Nat \ {0}, w = Backoff(u, t),
               successes \cap (u .. t + w - 1) = {}, clock <= t + w - 1,
               Failed(t .. t + w - 1) >= MaxAttempts
        PROVE  Loose(w)' \subseteq Loose(w)
    <3>1. /\ req[r].pc = "count" =>
               Failed(Since(req[r].since)) >= MaxAttempts + Failed(u .. t - 1)
          /\ req[r].pc = "recent" /\ ~ req[r].cooldown < w =>
               Locked(req[r].since, req[r].cooldown)
      BY <2>1, FullWindowBlocks
    <3>2. Failed(u .. t - 1) \in Nat /\ Failed(Since(req[r].since)) \in Nat
          /\ MaxAttempts \in Nat /\ w = Cooldown(MaxAttempts + Failed(u .. t - 1))
      BY <2>1, FailedNat, LockoutAssumption DEF TypeOK, Backoff
    <3>3. new.pc \in PastCheck => r \in Loose(w)
      BY <3>1, <3>2 DEF Loose
    <3>4. new.pc = "recent" => ~ new.cooldown < w
      <4>1. SUFFICES ASSUME new.pc = "recent" PROVE ~ new.cooldown < w
        OBVIOUS
      <4>2. Failed(Since(req[r].since)) >= MaxAttempts + Failed(u .. t - 1)
        BY <3>1, <4>1
      <4>3. Cooldown(MaxAttempts + Failed(u .. t - 1)) <= Cooldown(Failed(Since(req[r].since)))
        BY <3>2, <4>2, CooldownMonotone
      <4>4. w <= new.cooldown /\ new.cooldown \in Int
        BY <3>2, <4>1, <4>3, LockoutAssumption DEF Logins
      <4>. QED BY <4>4
    <3>. QED BY <1>1, <3>3, <3>4 DEF Loose, PastCheck
  <2>2. clock' \in Time /\ clock <= clock'
    BY LockoutAssumption DEF TypeOK, Time
  <2>. QED BY <2>1, <2>2, WindowsHold
<1>. QED BY <1>2, <1>3, <1>4, <1>5, <1>6

\* Nobody joins, and no failure is recorded: no window grows.
LEMMA NobodyJoins ==
  ASSUME LockoutInv, failures' = failures, successes \subseteq successes',
         clock' \in Time, clock <= clock',
         Busy' \subseteq Busy, \A w : Loose(w)' \subseteq Loose(w)
  PROVE  RowsFit' /\ WindowsFull'
<1>. USE DEF LockoutInv
<1>1. RowsFit'
  <2>1. Len(failures) \in Nat /\ MaxRows \in Nat
    BY LockoutAssumption DEF TypeOK
  <2>2. Cardinality(Busy') <= Cardinality(Busy)
    BY RequestSets, FS_Subset
  <2>. QED BY <2>1, <2>2, RequestSets, RequestSetsNext DEF RowsFit
<1>2. WindowsFull'
  BY WindowsHold
<1>. QED BY <1>1, <1>2

-----------------------------------------------------------------------------
(* The invariant holds.                                                    *)

LEMMA InitInv == Init => LockoutInv
<1>. SUFFICES ASSUME Init PROVE LockoutInv
  OBVIOUS
<1>. USE DEF Init, Idle
<1>1. TypeOK
  BY LockoutAssumption, RequestSets DEF TypeOK, Time, Steps
<1>2. InOrder /\ Readings
  BY DEF InOrder, Readings
<1>3. RowsFit
  <2>1. Busy = {} /\ Len(failures) = 0
    BY DEF Busy
  <2>. QED BY <2>1, RequestSets, FS_EmptySet, LockoutAssumption DEF RowsFit
<1>4. WindowsFull
  <2>1. \A S : Failed(S) \in Nat /\ Failed(S) <= 0
    BY <1>1, FailedNat DEF TypeOK
  <2>2. \A t \in Time : \A u \in 0 .. t :
           Failed(t .. t + Backoff(u, t) - 1) < MaxAttempts
    BY <2>1, LockoutAssumption
  <2>. QED BY <2>2 DEF WindowsFull, Bounded
<1>. QED BY <1>1, <1>2, <1>3, <1>4 DEF LockoutInv

LEMMA RecordFailureStep ==
  ASSUME LockoutInv, NEW r \in Reqs, RecordFailure(r)
  PROVE  LockoutInv'
<1>. USE DEF LockoutInv
<1>1. /\ req[r].pc = "recordFailure" /\ failures' = Append(failures, clock)
      /\ req' = [req EXCEPT ![r] = Idle] /\ UNCHANGED <<clock, successes, verified>>
  BY DEF RecordFailure, Finish
<1>2. /\ failures \in Seq(Time) /\ clock \in Time /\ Time \subseteq Int
      /\ Len(failures) \in Nat /\ Len(failures') = Len(failures) + 1 /\ failures' \in Seq(Time)
      /\ MaxRows \in Nat /\ MaxAttempts \in Nat
  BY <1>1, LockoutAssumption DEF TypeOK, Time
<1>3. Idle \in Logins
  BY IdleType
<1>4. /\ req' \in [Reqs -> Logins] /\ req'[r] = Idle
      /\ \A q \in Reqs \ {r} : req'[q] = req[q]
  BY <1>1, <1>3 DEF TypeOK, Logins
<1>5. /\ Cardinality(Busy') <= Cardinality(Busy) - 1
      /\ \A w : Cardinality(Loose(w)') <= Cardinality(Loose(w)) - 1
  <2>1. r \in Busy /\ Busy' \subseteq Busy \ {r}
    BY <1>1, <1>4 DEF Busy, Idle
  <2>2. \A w : r \in Loose(w) /\ Loose(w)' \subseteq Loose(w) \ {r}
    BY <1>1, <1>4 DEF Loose, Idle, PastCheck
  <2>. QED BY <2>1, <2>2, Leaves, RequestSets
<1>6. RowsFit'
  BY <1>2, <1>5, RequestSets, RequestSetsNext DEF RowsFit
<1>7. TypeOK'
  <2>1. Len(failures') <= MaxRows + Cardinality(Reqs)
    BY <1>2, <1>6, RequestSetsNext DEF RowsFit
  <2>. QED BY <1>1, <1>2, <1>4, <2>1 DEF TypeOK, Logins
<1>8. InOrder'
  <2>1. DOMAIN failures = 1 .. Len(failures) /\ DOMAIN failures' = 1 .. Len(failures) + 1
    BY <1>1, <1>2
  <2>2. /\ failures'[Len(failures) + 1] = clock
        /\ \A i \in DOMAIN failures : failures'[i] = failures[i] /\ failures[i] <= clock
    BY <1>1, <1>2, <2>1 DEF InOrder
  <2>3. \A i, j \in DOMAIN failures' : i <= j => failures'[i] <= failures'[j]
    <3>. TAKE i, j \in DOMAIN failures'
    <3>. HAVE i <= j
    <3>1. CASE j \in DOMAIN failures
      BY <1>2, <2>1, <2>2, <3>1 DEF InOrder
    <3>2. CASE j = Len(failures) + 1
      <4>1. failures'[i] <= clock
        BY <1>2, <2>1, <2>2
      <4>. QED BY <2>2, <3>2, <4>1
    <3>. QED BY <1>2, <2>1, <3>1, <3>2
  <2>4. \A i \in DOMAIN failures' : failures'[i] <= clock
    BY <1>2, <2>1, <2>2
  <2>. QED BY <1>1, <2>3, <2>4 DEF InOrder
<1>9. Readings'
  BY <1>1, <1>4 DEF Readings, Idle
<1>10. WindowsFull'
  <2>. SUFFICES ASSUME NEW t \in Time, NEW u \in 0 .. t PROVE Bounded(u, t, Backoff(u, t))'
    BY DEF WindowsFull
  <2>1. \A S : Failed(S)' = IF clock \in S THEN Failed(S) + 1 ELSE Failed(S)
    BY <1>1, <1>2, FailedAppend
  <2>2. \A S : Failed(S) \in Nat
    BY <1>2, FailedNat
  <2>3. clock \in Nat /\ t \in Nat /\ u \in Nat /\ MaxAttempts \in Nat \ {0}
    BY LockoutAssumption DEF TypeOK, Time
  \* The window is still to come: it holds no row.
  <2>4. CASE clock < t
    <3>1. \A v : clock \notin t .. v
      BY <2>3, <2>4
    <3>2. \A v : ~ \E i \in DOMAIN failures : failures[i] \in t .. v
      BY <1>2, <2>3, <2>4 DEF InOrder
    <3>3. ASSUME NEW v PROVE Failed(t .. v)' < MaxAttempts
      <4>1. Failed(t .. v) \in Nat /\ ~ Failed(t .. v) >= 1
        BY <1>2, <2>2, <3>2, FailedWitness
      <4>2. Failed(t .. v)' = Failed(t .. v)
        BY <2>1, <3>1
      <4>. QED BY <2>3, <4>1, <4>2
    <3>. QED BY <3>3 DEF Bounded
  \* The series before it is over: the row counts in the window, if at all.
  <2>5. CASE ~ clock < t
    <3>1. PICK w \in Nat \ {0} : w = Backoff(u, t)
      BY BackoffType
    <3>2. Backoff(u, t)' = w
      <4>1. Failed(u .. t - 1)' = Failed(u .. t - 1)
        BY <2>1, <2>3, <2>5
      <4>. QED BY <3>1, <4>1 DEF Backoff
    <3>3. Bounded(u, t, w)
      BY <3>1 DEF WindowsFull
    <3>. DEFINE n == Failed(t .. t + w - 1)
                m == IF clock <= t + w - 1 THEN Cardinality(Loose(w)) ELSE 0
    <3>4. SUFFICES ASSUME successes \cap (u .. t + w - 1) = {}, ~ n' < MaxAttempts
                   PROVE  n' + m' <= MaxAttempts + Cardinality(Reqs) - 1
      BY <1>1, <3>2 DEF Bounded, Loose
    <3>5. n < MaxAttempts \/ n + m <= MaxAttempts + Cardinality(Reqs) - 1
      BY <3>3, <3>4 DEF Bounded
    <3>6. n \in Nat /\ n' = IF clock \in t .. t + w - 1 THEN n + 1 ELSE n
      BY <2>1, <2>2
    <3>7. m' = IF clock <= t + w - 1 THEN Cardinality(Loose(w)') ELSE 0
      BY <1>1
    <3>8. /\ Cardinality(Loose(w)) \in Nat /\ Cardinality(Loose(w)') \in Nat
          /\ Cardinality(Loose(w)) <= Cardinality(Reqs) /\ Cardinality(Reqs) \in Nat
          /\ Cardinality(Loose(w)') <= Cardinality(Loose(w)) - 1
      BY <1>5, RequestSets, RequestSetsNext
    <3>9. clock \in t .. t + w - 1 <=> clock <= t + w - 1
      BY <2>3, <2>5
    <3>. HIDE DEF n
    <3>. QED BY <2>3, <3>4, <3>5, <3>6, <3>7, <3>8, <3>9
  <2>. QED BY <2>4, <2>5
<1>. QED BY <1>6, <1>7, <1>8, <1>9, <1>10

LEMMA LoginStep ==
  ASSUME LockoutInv, NEW r \in Reqs, Login(r)
  PROVE  LockoutInv'
<1>. USE DEF LockoutInv, rows, Goto, Finish
<1>1. req \in [Reqs -> Logins] /\ req[r] \in Logins /\ verified \in BOOLEAN
  BY DEF TypeOK, Logins
<1>2. Idle \in Logins /\ Idle.pc = "idle"
  BY IdleType
<1>3. CASE FindByEmail(r)
  <2>. DEFINE began == Max(successes \cup {0})
              new == [Idle EXCEPT !.pc = "lastSuccess", !.verified = verified, !.began = began]
  <2>0. began \in Time
    <3>1. successes \cup {0} \subseteq Time
      BY LockoutAssumption DEF TypeOK, Time
    <3>. QED BY <3>1, NewestSuccess
  <2>. HIDE DEF began
  <2>1. new \in Logins /\ new.pc = "lastSuccess"
    BY <1>1, <1>2, <2>0 DEF Logins, Steps
  <2>2. req' = [req EXCEPT ![r] = new] /\ Len(failures) < MaxRows
    BY <1>3 DEF FindByEmail, began
  <2>. HIDE DEF new
  <2>. QED BY <1>1, <1>3, <2>1, <2>2, QuietStep DEF FindByEmail, PastCheck
<1>4. CASE ReadLastSuccess(r)
  <2>. DEFINE new == [req[r] EXCEPT !.pc = "count", !.since = LastSuccess]
  <2>1. LastSuccess = 0 \/ LastSuccess \in successes
    BY NewestSuccess
  <2>2. LastSuccess \in -MaxLockout .. MaxTime
    <3>1. \A t \in 0 .. MaxTime : t \in -MaxLockout .. MaxTime
      BY LockoutAssumption
    <3>2. 0 \in 0 .. MaxTime
      BY LockoutAssumption
    <3>3. successes \subseteq 0 .. MaxTime
      BY DEF TypeOK, Time
    <3>. QED BY <2>1, <3>1, <3>2, <3>3
  <2>3. new \in Logins /\ new.pc = "count" /\ new.since = LastSuccess
    BY <1>1, <2>2 DEF Logins, Steps
  <2>4. req' = [req EXCEPT ![r] = new] /\ req[r].pc = "lastSuccess"
    BY <1>1, <1>4 DEF ReadLastSuccess, Logins
  <2>. HIDE DEF new
  <2>. QED BY <1>1, <1>4, <2>1, <2>3, <2>4, QuietStep DEF ReadLastSuccess, PastCheck
<1>5. CASE CountFailures(r)
  <2>. DEFINE failed == Failed(Since(req[r].since))
  <2>1. failed \in Nat /\ failed <= MaxRows + Cardinality(Reqs)
    <3>1. failed \in Nat /\ failed <= Len(failures) /\ Len(failures) \in Nat
      BY FailedNat DEF TypeOK
    <3>. QED BY <3>1, LockoutAssumption, RequestSets DEF TypeOK
  <2>2. req[r].pc = "count" /\ UNCHANGED <<clock, failures, successes, verified>>
    BY <1>5 DEF CountFailures
  <2>3. CASE failed < MaxAttempts
    <3>. DEFINE new == [req[r] EXCEPT !.pc = "compare"]
    <3>1. new \in Logins /\ new.pc = "compare"
      BY <1>1 DEF Logins, Steps
    <3>2. req' = [req EXCEPT ![r] = new]
      BY <1>1, <1>5, <2>3 DEF CountFailures, Logins
    <3>3. ~ Failed(Since(req[r].since)) >= MaxAttempts
      BY <2>1, <2>3, LockoutAssumption
    <3>. HIDE DEF new, failed
    <3>. QED BY <1>1, <2>2, <3>1, <3>2, <3>3, QuietStep
  <2>4. CASE ~ failed < MaxAttempts
    <3>. DEFINE new == [req[r] EXCEPT !.pc = "recent", !.since = clock - Cooldown(failed),
                                      !.cooldown = Cooldown(failed)]
    <3>1. failed >= MaxAttempts
      BY <2>1, <2>4, LockoutAssumption
    <3>2. req' = [req EXCEPT ![r] = new]
      BY <1>1, <1>5, <2>4 DEF CountFailures, Logins
    <3>. HIDE DEF failed
    <3>3. Cooldown(failed) \in Nat /\ Cooldown(failed) <= MaxLockout
      BY <2>1, <3>1, CooldownType
    <3>4. clock \in Nat /\ clock <= MaxTime
      BY LockoutAssumption DEF TypeOK, Time
    <3>5. /\ clock - Cooldown(failed) \in -MaxLockout .. MaxTime
          /\ Cooldown(failed) \in 0 .. MaxLockout
          /\ clock - Cooldown(failed) + Cooldown(failed) <= clock
      BY <3>3, <3>4, LockoutAssumption
    <3>6. /\ new \in Logins /\ new.pc = "recent"
          /\ new.since + new.cooldown <= clock /\ new.cooldown = Cooldown(failed)
      BY <1>1, <3>3, <3>5 DEF Logins, Steps
    <3>. HIDE DEF new
    <3>. QED BY <1>1, <2>2, <3>2, <3>6, QuietStep DEF PastCheck, failed
  <2>. QED BY <2>3, <2>4
<1>6. CASE Pass(r)
  <2>. DEFINE new == [req[r] EXCEPT !.pc = "compare"]
  <2>1. new \in Logins /\ new.pc = "compare"
    BY <1>1 DEF Logins, Steps
  <2>2. req' = [req EXCEPT ![r] = new] /\ req[r].pc = "recent"
    BY <1>1, <1>6 DEF Pass, Logins
  <2>. HIDE DEF new
  <2>. QED BY <1>1, <1>6, <2>1, <2>2, QuietStep DEF Pass
<1>7. CASE WrongPassword(r)
  <2>. DEFINE new == [req[r] EXCEPT !.pc = "recordFailure"]
  <2>1. new \in Logins /\ new.pc = "recordFailure"
    BY <1>1 DEF Logins, Steps
  <2>2. req' = [req EXCEPT ![r] = new] /\ req[r].pc = "compare"
    BY <1>1, <1>7 DEF WrongPassword, Logins
  <2>. HIDE DEF new
  <2>. QED BY <1>1, <1>7, <2>1, <2>2, QuietStep DEF WrongPassword, PastCheck
<1>8. CASE RightPassword(r) /\ req[r].verified
  <2>. DEFINE new == [req[r] EXCEPT !.pc = "recordSuccess"]
  <2>1. new \in Logins /\ new.pc = "recordSuccess"
    BY <1>1 DEF Logins, Steps
  <2>2. req' = [req EXCEPT ![r] = new] /\ req[r].pc = "compare"
    BY <1>1, <1>8 DEF RightPassword, Logins
  <2>. HIDE DEF new
  <2>. QED BY <1>1, <1>8, <2>1, <2>2, QuietStep DEF RightPassword, PastCheck
<1>9. CASE /\ req' = [req EXCEPT ![r] = Idle]
           /\ UNCHANGED <<clock, failures, successes, verified>>
  BY <1>1, <1>2, <1>9, QuietStep DEF PastCheck
<1>10. CASE RecordFailure(r)
  BY <1>10, RecordFailureStep
<1>11. CASE RecordSuccess(r)
  <2>1. /\ req' = [req EXCEPT ![r] = Idle] /\ UNCHANGED <<clock, failures, verified>>
        /\ successes' = successes \cup {clock}
    BY <1>11 DEF RecordSuccess
  <2>2. req' \in [Reqs -> Logins] /\ req'[r] = Idle /\ \A q \in Reqs \ {r} : req'[q] = req[q]
    BY <1>1, <1>2, <2>1
  <2>3. TypeOK'
    BY <2>1, <2>2 DEF TypeOK, Logins
  <2>4. InOrder'
    <3>1. clock \in Int
      BY LockoutAssumption DEF TypeOK, Time
    <3>2. \A s \in successes' : s <= clock
      BY <2>1, <3>1 DEF InOrder
    <3>. QED BY <2>1, <3>2 DEF InOrder
  <2>5. Busy' \subseteq Busy /\ \A w : Loose(w)' \subseteq Loose(w)
    BY <2>2, <1>2 DEF Busy, Loose, PastCheck
  <2>6. RowsFit' /\ WindowsFull'
    <3>1. clock' \in Time /\ clock <= clock'
      BY <2>1, LockoutAssumption DEF TypeOK, Time
    <3>. QED BY <2>1, <2>5, <3>1, NobodyJoins
  <2>7. Readings'
    BY <2>1, <2>2, <1>2 DEF Readings
  <2>. QED BY <2>3, <2>4, <2>6, <2>7
<1>. QED
  BY <1>3, <1>4, <1>5, <1>6, <1>7, <1>8, <1>9, <1>10, <1>11
     DEF Login, Refuse, RightPassword, Fail

\* Steps that no login takes: nobody joins.
LEMMA OtherStep ==
  ASSUME LockoutInv, Restart \/ VerifyEmail \/ Tick \/ UNCHANGED vars
  PROVE  LockoutInv'
<1>. USE DEF LockoutInv
<1>1. Idle \in Logins /\ Idle.pc = "idle"
  BY IdleType
<1>2. /\ req' = req \/ req' = [r \in Reqs |-> Idle]
      /\ failures' = failures /\ successes' = successes
      /\ verified' \in BOOLEAN
      /\ clock' = clock \/ (clock < MaxTime /\ clock' = clock + 1)
  BY DEF Restart, VerifyEmail, Tick, vars, rows, TypeOK
<1>3. clock \in Nat /\ clock' \in Time /\ clock <= clock' /\ clock' \in Nat
  BY <1>2, LockoutAssumption DEF TypeOK, Time
<1>4. req' \in [Reqs -> Logins] /\ req \in [Reqs -> Logins]
  BY <1>1, <1>2 DEF TypeOK, Logins
<1>5. TypeOK'
  BY <1>2, <1>3, <1>4 DEF TypeOK, Logins
<1>6. InOrder'
  <2>1. \A i \in DOMAIN failures : failures[i] \in Int
    BY LockoutAssumption DEF TypeOK, Time
  <2>2. \A s \in successes : s \in Int
    BY LockoutAssumption DEF TypeOK, Time
  <2>. QED BY <1>2, <1>3, <2>1, <2>2 DEF InOrder
<1>7. RowsFit' /\ WindowsFull'
  <2>1. Busy' \subseteq Busy /\ \A w : Loose(w)' \subseteq Loose(w)
    BY <1>1, <1>2 DEF Busy, Loose, PastCheck
  <2>. QED BY <1>2, <1>3, <2>1, NobodyJoins
<1>8. Readings'
  <2>1. CASE req' = [r \in Reqs |-> Idle]
    BY <1>1, <2>1 DEF Readings
  <2>2. CASE req' = req
    <3>1. \A r \in Reqs : req[r].since \in Int /\ req[r].cooldown \in Int
      BY LockoutAssumption DEF TypeOK
    <3>. QED BY <1>2, <1>3, <2>2, <3>1 DEF Readings
  <2>. QED BY <1>2, <2>1, <2>2
<1>. QED BY <1>5, <1>6, <1>7, <1>8

\* The invariant that carries the theorems below: the rows lie in the order of
\* the clock, and a full window is closed to all who have not passed.
THEOREM LockoutInvariant == Spec => []LockoutInv
<1>1. LockoutInv /\ [Next]_vars => LockoutInv'
  BY LoginStep, OtherStep DEF Next
<1>. QED BY InitInv, <1>1, PTL DEF Spec

-----------------------------------------------------------------------------
\* The table and the logins keep their types; no login runs out of rows.
THEOREM LockoutTypeCorrect == Spec => []TypeOK
<1>1. LockoutInv => TypeOK
  BY DEF LockoutInv
<1>. QED BY <1>1, LockoutInvariant, PTL

\* However many logins overlap: at most the limit and one failure for each
\* other login in the time of the next cooldown, at every tier.
THEOREM GuessesBounded == Spec => []AttemptsBounded
<1>1. LockoutInv => AttemptsBounded
  <2>. SUFFICES ASSUME LockoutInv, NEW t \in Time, NEW u \in 0 .. t,
                       successes \cap (u .. t + Backoff(u, t) - 1) = {}
                PROVE  Failed(t .. t + Backoff(u, t) - 1) <= MaxAttempts + Cardinality(Reqs) - 1
    BY DEF AttemptsBounded
  <2>1. PICK w \in Nat \ {0} : w = Backoff(u, t)
    BY BackoffType DEF LockoutInv
  <2>2. Bounded(u, t, w)
    BY <2>1 DEF LockoutInv, WindowsFull
  <2>. DEFINE n == Failed(t .. t + w - 1)
              m == IF clock <= t + w - 1 THEN Cardinality(Loose(w)) ELSE 0
  <2>3. n < MaxAttempts \/ n + m <= MaxAttempts + Cardinality(Reqs) - 1
    BY <2>1, <2>2 DEF Bounded
  <2>4. n \in Nat /\ n <= Len(failures) /\ MaxAttempts \in Nat \ {0}
    BY FailedNat, LockoutAssumption DEF LockoutInv, TypeOK
  <2>5. m \in Nat /\ Cardinality(Reqs) \in Nat
    BY RequestSets
  <2>. HIDE DEF n, m
  <2>6. n <= MaxAttempts + Cardinality(Reqs) - 1
    BY <2>3, <2>4, <2>5
  <2>. QED BY <2>1, <2>6 DEF n
<1>. QED BY <1>1, LockoutInvariant, PTL

-----------------------------------------------------------------------------
(* SuccessResets.  The count came after the arrival and was not below the  *)
(* limit; since then failures have only been added.                        *)

ResetOK(r) ==
    /\ req[r].pc # "idle" => req[r].began \in successes \cup {0}
    /\ req[r].pc = "count" => req[r].began <= req[r].since
    /\ req[r].pc = "recent" =>
          /\ Failed(Since(req[r].began)) >= MaxAttempts
          /\ req[r].cooldown <= Cooldown(Failed(Since(req[r].began)))

Resets == \A r \in Reqs : ResetOK(r)

LEMMA EarlierSince ==
  ASSUME NEW a \in Int, NEW b \in Int, a <= b
  PROVE  Since(b) \subseteq Since(a)
<1>1. \A s \in Time : s \in Int /\ (s >= b => s >= a)
  BY LockoutAssumption DEF Time
<1>. QED BY <1>1 DEF Since

\* The table only grows.
LEMMA RowsStay ==
  ASSUME LockoutInv, [Next]_vars
  PROVE  /\ successes \subseteq successes'
         /\ \A S : Failed(S) \in Nat /\ Failed(S)' \in Nat /\ Failed(S) <= Failed(S)'
<1>1. /\ successes \subseteq successes'
      /\ failures' = failures \/ failures' = Append(failures, clock)
  BY DEF Next, Login, FindByEmail, ReadLastSuccess, CountFailures, Refuse, Pass, WrongPassword,
         RightPassword, RecordFailure, RecordSuccess, Fail, Restart, VerifyEmail, Tick, vars, rows
<1>2. failures \in Seq(Time) /\ clock \in Time
  BY DEF LockoutInv, TypeOK
<1>3. \A S : Failed(S) \in Nat
  BY <1>2, FailedNat
<1>4. CASE failures' = failures
  BY <1>1, <1>3, <1>4 DEF Failed
<1>5. CASE failures' = Append(failures, clock)
  BY <1>1, <1>2, <1>3, <1>5, FailedAppend
<1>. QED BY <1>1, <1>4, <1>5

\* A reading that justified the cooldown still does.
LEMMA ReadingStays ==
  ASSUME LockoutInv, [Next]_vars, NEW q \in Reqs, ResetOK(q), req'[q] = req[q]
  PROVE  ResetOK(q)'
<1>1. successes \subseteq successes' /\ \A S :
         Failed(S) \in Nat /\ Failed(S)' \in Nat /\ Failed(S) <= Failed(S)'
  BY RowsStay
<1>. DEFINE before == Failed(Since(req[q].began))
<1>2. before \in Nat /\ before' \in Nat /\ before <= before' /\ MaxAttempts \in Nat
  BY <1>1, LockoutAssumption DEF Since
<1>3. before >= MaxAttempts =>
        Cooldown(before) \in Nat /\ Cooldown(before') \in Nat /\ Cooldown(before) <= Cooldown(before')
  BY <1>2, CooldownMonotone, CooldownType
<1>4. req[q].cooldown \in Int
  BY LockoutAssumption DEF LockoutInv, TypeOK
<1>5. ASSUME req[q].pc = "recent"
      PROVE  before' >= MaxAttempts /\ req[q].cooldown <= Cooldown(before')
  <2>1. before >= MaxAttempts /\ req[q].cooldown <= Cooldown(before)
    BY <1>5 DEF ResetOK
  <2>. HIDE DEF before
  <2>. QED BY <1>2, <1>3, <1>4, <2>1
<1>6. before' = Failed(Since(req[q].began))'
  OBVIOUS
<1>. HIDE DEF before
<1>. QED BY <1>1, <1>5, <1>6 DEF ResetOK, before, Cooldown

LEMMA ResetsStep == LockoutInv /\ Resets /\ [Next]_vars => Resets'
<1>. SUFFICES ASSUME LockoutInv, Resets, [Next]_vars, NEW q \in Reqs
              PROVE  ResetOK(q)'
  BY DEF Resets
<1>0. /\ ResetOK(q) /\ req \in [Reqs -> Logins] /\ successes \subseteq successes'
      /\ Time \subseteq Int /\ failures \in Seq(Time) /\ MaxAttempts \in Nat
  BY RowsStay, LockoutAssumption DEF Resets, LockoutInv, TypeOK, Logins, Time
<1>1. ASSUME req'[q] = req[q] PROVE ResetOK(q)'
  BY <1>0, <1>1, ReadingStays
<1>2. ASSUME req'[q].pc \notin {"count", "recent"},
             req'[q].pc = "idle" \/ (req[q].pc # "idle" /\ req'[q].began = req[q].began)
      PROVE  ResetOK(q)'
  BY <1>0, <1>2 DEF ResetOK
<1>3. ASSUME FindByEmail(q) PROVE ResetOK(q)'
  <2>1. req'[q].pc = "lastSuccess" /\ req'[q].began = Max(successes \cup {0})
    BY <1>0, <1>3 DEF FindByEmail, Idle
  <2>2. Max(successes \cup {0}) \in successes \cup {0}
    BY NewestSuccess DEF LockoutInv
  <2>. QED BY <1>0, <2>1, <2>2 DEF ResetOK
<1>4. ASSUME ReadLastSuccess(q) PROVE ResetOK(q)'
  <2>1. /\ req[q].pc = "lastSuccess" /\ req'[q].pc = "count"
        /\ req'[q].since = LastSuccess /\ req'[q].began = req[q].began
    BY <1>0, <1>4 DEF ReadLastSuccess, Logins
  <2>2. req[q].began <= LastSuccess
    BY <1>0, <2>1, NewestSuccess DEF ResetOK, LockoutInv
  <2>. QED BY <1>0, <2>1, <2>2 DEF ResetOK
<1>5. ASSUME CountFailures(q) PROVE ResetOK(q)'
  <2>. DEFINE failed == Failed(Since(req[q].since))
              after  == Failed(Since(req[q].began))
  <2>1. req[q].pc = "count" /\ req[q].began <= req[q].since /\ failures' = failures
    BY <1>0, <1>5 DEF CountFailures, ResetOK, rows
  <2>2. failed \in Nat /\ after \in Nat /\ failed <= after
    <3>1. req[q].began \in Int /\ req[q].since \in Int
      BY <1>0, LockoutAssumption DEF Logins, Time
    <3>2. Since(req[q].since) \subseteq Since(req[q].began)
      BY <2>1, <3>1, EarlierSince
    <3>. QED BY <1>0, <3>2, FailedNat, FailedSubset
  <2>3. CASE failed < MaxAttempts
    <3>1. req'[q].pc = "compare" /\ req'[q].began = req[q].began
      BY <1>0, <1>5, <2>3 DEF CountFailures, Goto, Logins
    <3>. QED BY <1>2, <2>1, <3>1
  <2>4. CASE ~ failed < MaxAttempts
    <3>1. /\ req'[q].pc = "recent" /\ req'[q].began = req[q].began
          /\ req'[q].cooldown = Cooldown(failed)
      BY <1>0, <1>5, <2>4 DEF CountFailures, Logins
    <3>2. Cooldown(failed) <= Cooldown(after) /\ after >= MaxAttempts
      <4>. HIDE DEF failed, after
      <4>. QED BY <1>0, <2>2, <2>4, CooldownMonotone
    <3>3. Failed(Since(req[q].began))' = after
      BY <2>1, <3>1 DEF Failed, Since
    <3>4. req'[q].began \in successes' \cup {0} /\ req'[q].pc = "recent"
      BY <1>0, <2>1, <3>1 DEF ResetOK
    <3>. HIDE DEF failed, after
    <3>. QED BY <3>1, <3>2, <3>3, <3>4 DEF ResetOK, Cooldown
  <2>. QED BY <2>3, <2>4
<1>6. ASSUME \/ Refuse(q) \/ Pass(q) \/ WrongPassword(q) \/ RightPassword(q)
             \/ RecordFailure(q) \/ RecordSuccess(q) \/ Fail(q)
      PROVE  ResetOK(q)'
  <2>1. \/ req'[q].pc = "idle"
        \/ /\ req[q].pc # "idle" /\ req'[q].began = req[q].began
           /\ req'[q].pc \in {"compare", "recordFailure", "recordSuccess"}
    BY <1>0, <1>6 DEF Refuse, Pass, WrongPassword, RightPassword, RecordFailure, RecordSuccess,
                      Fail, Goto, Finish, Idle, Logins
  <2>. QED BY <1>2, <2>1
<1>7. ASSUME NEW r \in Reqs, r # q, Login(r) PROVE req'[q] = req[q]
  BY <1>0, <1>7 DEF Login, FindByEmail, ReadLastSuccess, CountFailures, Refuse, Pass, WrongPassword,
                    RightPassword, RecordFailure, RecordSuccess, Fail, Goto, Finish
<1>8. ASSUME Restart PROVE req'[q].pc = "idle"
  BY <1>8 DEF Restart, Idle
<1>9. ASSUME VerifyEmail \/ Tick \/ UNCHANGED vars PROVE req' = req
  BY <1>9 DEF VerifyEmail, Tick, vars
<1>. QED
  BY <1>1, <1>2, <1>3, <1>4, <1>5, <1>6, <1>7, <1>8, <1>9 DEF Next, Login

\* A success on record when a login arrives resets its lockout, whatever the
\* other logins record while it is checked.
THEOREM SuccessResetsLockout == Spec => SuccessResets
<1>1. Init => Resets
  BY DEF Init, Idle, Resets, ResetOK
<1>2. Spec => [](LockoutInv /\ Resets)
  BY <1>1, ResetsStep, LockoutInvariant, PTL DEF Spec
<1>3. ASSUME LockoutInv, Resets, NEW r \in Reqs, Refuse(r)
      PROVE  LET after == Since(req[r].began) IN
             /\ Failed(after \cap Since(req[r].since)) >= MaxAttempts
             /\ req[r].cooldown <= Cooldown(Failed(after))
  <2>1. /\ req[r].pc = "recent"
        /\ Failed(Since(req[r].since)) >= MaxAttempts
        /\ Failed(Since(req[r].began)) >= MaxAttempts
        /\ req[r].cooldown <= Cooldown(Failed(Since(req[r].began)))
    BY <1>3 DEF Refuse, Locked, Resets, ResetOK
  <2>2. req[r].since \in Int /\ req[r].began \in Int /\ Time \subseteq Int
    BY <1>3, LockoutAssumption DEF LockoutInv, TypeOK, Time
  \* The later of the two bounds decides, and either is far enough back.
  <2>3. \/ Since(req[r].began) \cap Since(req[r].since) = Since(req[r].since)
        \/ Since(req[r].began) \cap Since(req[r].since) = Since(req[r].began)
    <3>1. req[r].began <= req[r].since \/ req[r].since <= req[r].began
      BY <2>2
    <3>2. \/ Since(req[r].since) \subseteq Since(req[r].began)
          \/ Since(req[r].began) \subseteq Since(req[r].since)
      BY <2>2, <3>1, EarlierSince
    <3>. QED BY <3>2
  <2>. QED BY <2>1, <2>3
<1>4. LockoutInv /\ Resets /\ [Next]_vars =>
        [\A r \in Reqs : Refuse(r) =>
            LET after == Since(req[r].began) IN
            /\ Failed(after \cap Since(req[r].since)) >= MaxAttempts
            /\ req[r].cooldown <= Cooldown(Failed(after))]_vars
  BY <1>3
<1>. QED BY <1>2, <1>4, PTL DEF Spec, SuccessResets
=============================================================================
