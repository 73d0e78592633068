------------------------------- MODULE Lockout -------------------------------
(***************************************************************************)
(* The part of login that decides whether a password is looked at: the     *)
(* login_attempts table of one account, LockoutService.checkLockout and    *)
(* recordAttempt, and the logins that overlap on that account.             *)
(*                                                                         *)
(* A tick is the resolution of attempted_at (one millisecond); durations   *)
(* are scaled down.  checkLockout runs three statements, bcrypt takes its  *)
(* time, and the attempt is recorded last, so every other login may read   *)
(* and write the table in between.                                         *)
(***************************************************************************)
EXTENDS Integers, Sequences, FiniteSets, FiniteSetsExt

CONSTANTS
    Reqs,          \* logins in flight on this account
    MaxAttempts,   \* AUTH_MAX_FAILED_ATTEMPTS
    BaseLockout,   \* AUTH_LOCKOUT_BASE_MINUTES, in ticks
    MaxLockout,    \* MAX_LOCKOUT_MINUTES, in ticks
    MaxTime,       \* bound of the clock
    MaxRows        \* bound of the recorded failures

ASSUME LockoutAssumption ==
    /\ IsFiniteSet(Reqs)
    /\ MaxAttempts \in Nat \ {0}
    /\ BaseLockout \in Nat \ {0}
    /\ MaxLockout \in Nat \ {0}
    /\ MaxTime \in Nat /\ MaxRows \in Nat

Time == 0 .. MaxTime

VARIABLES
    clock,
    failures,    \* attempted_at of the rows with successful = false, in order
    successes,   \* attempted_at of the rows with successful = true
    verified,    \* the account's email_verified
    req          \* the login each slot runs

vars == <<clock, failures, successes, verified, req>>

\* since: the lower bound of the next query on attempted_at.
\* began: history, the newest success when the login arrived; no step reads it.
Steps == {"idle", "lastSuccess", "count", "recent", "compare",
          "recordFailure", "recordSuccess"}

Idle == [pc |-> "idle", verified |-> FALSE, since |-> 0, cooldown |-> 0,
         began |-> 0]

-----------------------------------------------------------------------------
(* The queries.                                                            *)

Failed(S) == Cardinality({i \in DOMAIN failures : failures[i] \in S})

Since(t) == {s \in Time : s >= t}

\* Mutant: the earliest success, as without the descending order.
MutEarliestSuccess == IF successes = {} THEN 0 ELSE Min(successes)

\* No success yet counts from new Date(0), which is before every row.
LastSuccess == IF successes = {} THEN 0 ELSE Max(successes)

PowerOfTwo[n \in Nat] == IF n = 0 THEN 1 ELSE 2 * PowerOfTwo[n - 1]

\* Mutant: without the cap.
MutUncapped(failed) == BaseLockout * PowerOfTwo[failed \div MaxAttempts - 1]

Cooldown(failed) ==
    LET tier == failed \div MaxAttempts IN
    Min({BaseLockout * PowerOfTwo[tier - 1], MaxLockout})

LastFailure(from) == Max({failures[i] : i \in {j \in DOMAIN failures : failures[j] >= from}})

\* checkLockout's verdict on the failures from the cooldown's window.
Locked(from, cooldown) ==
    /\ Failed(Since(from)) >= MaxAttempts
    /\ LastFailure(from) + cooldown > clock

-----------------------------------------------------------------------------
Init ==
    /\ clock = 0
    /\ failures = <<>>
    /\ successes = {}
    /\ verified \in BOOLEAN
    /\ req = [r \in Reqs |-> Idle]

Goto(r, pc) == req' = [req EXCEPT ![r].pc = pc]

Finish(r) == req' = [req EXCEPT ![r] = Idle]

rows == <<clock, failures, successes, verified>>

\* findByEmail; the handler keeps this reading of the user row.
FindByEmail(r) ==
    /\ req[r].pc = "idle"
    /\ Len(failures) < MaxRows
    /\ req' = [req EXCEPT ![r] =
                 [Idle EXCEPT !.pc = "lastSuccess", !.verified = verified,
                              !.began = Max(successes \cup {0})]]
    /\ UNCHANGED rows

\* getConsecutiveFailedCount, first statement.
ReadLastSuccess(r) ==
    /\ req[r].pc = "lastSuccess"
    /\ req' = [req EXCEPT ![r].pc = "count", ![r].since = LastSuccess]
    /\ UNCHANGED rows

\* Mutant: the first tier's cooldown, however many failures there are.
MutFirstTier(r) ==
    /\ req[r].pc = "count"
    /\ IF Failed(Since(req[r].since)) < MaxAttempts
       THEN Goto(r, "compare")
       ELSE req' = [req EXCEPT ![r].pc = "recent",
                               ![r].since = clock - Cooldown(MaxAttempts),
                               ![r].cooldown = Cooldown(MaxAttempts)]
    /\ UNCHANGED rows

\* getConsecutiveFailedCount, second statement, and the tier it leads to.
CountFailures(r) ==
    LET failed == Failed(Since(req[r].since)) IN
    /\ req[r].pc = "count"
    /\ IF failed < MaxAttempts
       THEN Goto(r, "compare")
       ELSE req' = [req EXCEPT ![r].pc = "recent",
                               ![r].since = clock - Cooldown(failed),
                               ![r].cooldown = Cooldown(failed)]
    /\ UNCHANGED rows

\* getRecentFailedAttempts finds the account locked: 401, nothing recorded.
Refuse(r) ==
    /\ req[r].pc = "recent"
    /\ Locked(req[r].since, req[r].cooldown)
    /\ Finish(r)
    /\ UNCHANGED rows

Pass(r) ==
    /\ req[r].pc = "recent"
    /\ ~ Locked(req[r].since, req[r].cooldown)
    /\ Goto(r, "compare")
    /\ UNCHANGED rows

WrongPassword(r) ==
    /\ req[r].pc = "compare"
    /\ Goto(r, "recordFailure")
    /\ UNCHANGED rows

\* The email counts as verified if it was when the login read the user.
RightPassword(r) ==
    /\ req[r].pc = "compare"
    /\ IF req[r].verified THEN Goto(r, "recordSuccess") ELSE Finish(r)
    /\ UNCHANGED rows

RecordFailure(r) ==
    /\ req[r].pc = "recordFailure"
    /\ failures' = Append(failures, clock)
    /\ Finish(r)
    /\ UNCHANGED <<clock, successes, verified>>

\* The tokens are issued next, in Sessions.
RecordSuccess(r) ==
    /\ req[r].pc = "recordSuccess"
    /\ successes' = successes \cup {clock}
    /\ Finish(r)
    /\ UNCHANGED <<clock, failures, verified>>

\* A statement throws.  At a record step the error is only logged and the
\* login answers as if the row were there; before that it answers 500.
Fail(r) ==
    /\ req[r].pc # "idle"
    /\ Finish(r)
    /\ UNCHANGED rows

\* The container restarts: the logins in flight are gone, the rows stay.
Restart ==
    /\ \E r \in Reqs : req[r].pc # "idle"
    /\ req' = [r \in Reqs |-> Idle]
    /\ UNCHANGED rows

VerifyEmail ==
    /\ ~ verified
    /\ verified' = TRUE
    /\ UNCHANGED <<clock, failures, successes, req>>

Tick ==
    /\ clock < MaxTime
    /\ clock' = clock + 1
    /\ UNCHANGED <<failures, successes, verified, req>>

Login(r) ==
    \/ FindByEmail(r)
    \/ ReadLastSuccess(r)
    \/ CountFailures(r)
    \/ Refuse(r)
    \/ Pass(r)
    \/ WrongPassword(r)
    \/ RightPassword(r)
    \/ RecordFailure(r)
    \/ RecordSuccess(r)
    \/ Fail(r)

Next == (\E r \in Reqs : Login(r)) \/ Restart \/ VerifyEmail \/ Tick

Spec == Init /\ [][Next]_vars

-----------------------------------------------------------------------------
(* Properties.                                                             *)

TypeOK ==
    /\ clock \in Time
    /\ failures \in Seq(Time) /\ Len(failures) <= MaxRows + Cardinality(Reqs)
    /\ successes \subseteq Time
    /\ verified \in BOOLEAN
    /\ req \in [Reqs -> [pc : Steps, verified : BOOLEAN,
                       since : -MaxLockout .. MaxTime, cooldown : 0 .. MaxLockout,
                       began : Time]]

\* From t on: the cooldown that the next lockout brings, with the failures
\* since u before it.
Backoff(u, t) == Cooldown(MaxAttempts + Failed(u .. t - 1))

\* However the logins overlap, as long as none succeeds: after any number of
\* failures, the cooldown that MaxAttempts more of them lead to, tier by tier
\* up to the cap, is also the time in which no more than these are recorded
\* and one for each other login that had read the table before.
AttemptsBounded ==
    \A t \in Time : \A u \in 0 .. t :
        LET end == t + Backoff(u, t) - 1 IN
        successes \cap (u .. end) = {} =>
            Failed(t .. end) <= MaxAttempts + Cardinality(Reqs) - 1

\* A success resets the lockout: a login is refused only on MaxAttempts
\* failures after the newest success on record when it arrived, all within
\* the cooldown, and on a cooldown no longer than these failures' tier.  The
\* last query of checkLockout asks for no success, and other logins succeed
\* and fail between the queries; failures from before a success may be in the
\* window it looks at and never tip the scales.
SuccessResets ==
    [][\A r \in Reqs : Refuse(r) =>
          LET after == Since(req[r].began) IN
          /\ Failed(after \cap Since(req[r].since)) >= MaxAttempts
          /\ req[r].cooldown <= Cooldown(Failed(after))]_vars

\* brute-force-protection/spec.md: after MaxAttempts consecutive failures no
\* login is let through until the cooldown has elapsed since the last one.
LockedUntilCooldown ==
    [][\A r \in Reqs : Pass(r) =>
          \A i \in DOMAIN failures : failures[i] + req[r].cooldown <= clock]_vars
=============================================================================
