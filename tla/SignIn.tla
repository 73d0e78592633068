-------------------------------- MODULE SignIn --------------------------------
(***************************************************************************)
(* AuthService.login for one account, from the look-up of the user to the  *)
(* point where tokens are issued: the composition of Lockout and Devices.  *)
(*                                                                         *)
(* A login whose password is right records its attempt and, in the same    *)
(* turn of the event loop, starts checkAndNotify and goes on to Sessions.  *)
(* Both records may throw: the error is logged and the login answers as if *)
(* the row were there.  The job lives on without the login, and both die   *)
(* with the process.                                                       *)
(***************************************************************************)
EXTENDS Lockout

CONSTANTS
    DeviceIds, Jobs, Enabled, NoDevice,   \* of Devices
    MaxLost     \* bound of the records that throw

ASSUME SignInAssumption ==
    /\ IsFiniteSet(Jobs) /\ Cardinality(Reqs) <= Cardinality(Jobs)
    /\ Enabled \in BOOLEAN
    /\ NoDevice \notin DeviceIds
    /\ MaxLost \in Nat

VARIABLES known, firstSeen, lastSeen, alerts, job, missed   \* of Devices

VARIABLES
    from,         \* the address and agent that each running login came from
    signedFrom,   \* login_attempts: device and time of the successful rows
    denied,       \* history: when a password was answered 401 as wrong, in order
    lostFailures, \* history: failed attempts whose insert threw
    lostFrom      \* history: devices of the successful ones

D == INSTANCE Devices

devices  == <<known, firstSeen, lastSeen, alerts, job, missed>>
attempts == <<failures, successes, verified, req>>
answers  == <<signedFrom, denied, lostFailures, lostFrom>>
all      == <<clock, devices, attempts, from, answers>>

SignInInit ==
    /\ Init /\ D!Init
    /\ from = [r \in Reqs |-> NoDevice]
    /\ signedFrom = {} /\ lostFrom = {}
    /\ denied = <<>> /\ lostFailures = 0

-----------------------------------------------------------------------------
(* The logins.                                                             *)

Handling == {r \in Reqs : req[r].pc # "idle"}
Running == {j \in Jobs : job[j].pc # "idle"}

\* A login that is over leaves nothing behind in the process.
KeepRunning == from' = [r \in Reqs |-> IF req'[r].pc = "idle" THEN NoDevice ELSE from[r]]

\* The bound of Jobs: a login arrives when there is a slot for its job.
Arrives(r, d) ==
    /\ Cardinality(Handling) + Cardinality(Running) < Cardinality(Jobs)
    /\ FindByEmail(r)
    /\ from' = [from EXCEPT ![r] = d]
    /\ UNCHANGED <<devices, answers>>

\* checkLockout, bcrypt and the test of emailVerified.
Check(r) ==
    /\ \/ ReadLastSuccess(r) \/ CountFailures(r) \/ Refuse(r) \/ Pass(r)
       \/ WrongPassword(r) \/ RightPassword(r)
    /\ KeepRunning
    /\ UNCHANGED <<devices, answers>>

\* Mutant: the attempt is not recorded.
MutDenyUnrecorded(r) ==
    /\ req[r].pc = "recordFailure"
    /\ Finish(r)
    /\ denied' = Append(denied, clock)
    /\ KeepRunning
    /\ UNCHANGED <<clock, failures, successes, verified, devices, signedFrom,
                   lostFailures, lostFrom>>

\* 401 after the record, and also if the record threw.
Deny(r) ==
    /\ RecordFailure(r)
    /\ denied' = Append(denied, clock)
    /\ KeepRunning
    /\ UNCHANGED <<devices, signedFrom, lostFailures, lostFrom>>

MayLose == lostFailures + Cardinality(lostFrom) < MaxLost

DenyUnrecorded(r) ==
    /\ req[r].pc = "recordFailure"
    /\ MayLose
    /\ Fail(r)
    /\ denied' = Append(denied, clock)
    /\ lostFailures' = lostFailures + 1
    /\ KeepRunning
    /\ UNCHANGED <<devices, signedFrom, lostFrom>>

\* The call of checkAndNotify takes a free slot: Arrives has left one.
Notify(r) ==
    LET j == CHOOSE i \in Jobs \ Running : TRUE IN
    /\ Jobs \ Running # {}
    /\ D!Start(j, from[r]) \/ D!Skip(j, from[r])

\* Mutant: the device is noted first, and the attempt only if that was new.
MutAcceptKnown(r) ==
    /\ req[r].pc = "recordSuccess"
    /\ Finish(r)
    /\ Notify(r)
    /\ KeepRunning
    /\ UNCHANGED <<failures, successes, verified, answers>>

\* Mutant: the mail is awaited, one at a time.
MutAwaitMail(r) ==
    /\ \A j \in Jobs : job[j].pc # "mail"
    /\ RecordSuccess(r)
    /\ signedFrom' = signedFrom \cup {<<from[r], clock>>}
    /\ Notify(r)
    /\ KeepRunning
    /\ UNCHANGED <<denied, lostFailures, lostFrom>>

\* The tokens are issued next, in Sessions.
Accept(r) ==
    /\ RecordSuccess(r)
    /\ signedFrom' = signedFrom \cup {<<from[r], clock>>}
    /\ Notify(r)
    /\ KeepRunning
    /\ UNCHANGED <<denied, lostFailures, lostFrom>>

AcceptUnrecorded(r) ==
    /\ req[r].pc = "recordSuccess"
    /\ MayLose
    /\ Fail(r)
    /\ lostFrom' = lostFrom \cup {from[r]}
    /\ Notify(r)
    /\ KeepRunning
    /\ UNCHANGED <<signedFrom, denied, lostFailures>>

\* Any other statement throws: 500.
LoginFails(r) ==
    /\ req[r].pc \notin {"recordFailure", "recordSuccess"}
    /\ Fail(r)
    /\ KeepRunning
    /\ UNCHANGED <<devices, answers>>

-----------------------------------------------------------------------------
(* The jobs, the process and the clock.                                    *)

Work(j) == D!CheckAndNotify(j) /\ UNCHANGED <<attempts, from, answers>>

WorkFails(j) == D!Fail(j) /\ UNCHANGED <<attempts, from, answers>>

ServiceRestarts ==
    /\ Handling \cup Running # {}
    /\ IF Handling # {} THEN Restart ELSE UNCHANGED attempts
    /\ IF Running # {} THEN D!Restart ELSE UNCHANGED <<clock, devices>>
    /\ KeepRunning
    /\ UNCHANGED answers

TimePasses == Tick /\ D!Tick /\ UNCHANGED <<from, answers>>

EmailVerified == VerifyEmail /\ UNCHANGED <<devices, from, answers>>

-----------------------------------------------------------------------------
Advance(r) ==
    Check(r) \/ Deny(r) \/ DenyUnrecorded(r) \/ Accept(r) \/ AcceptUnrecorded(r)

SignInNext ==
    \/ \E r \in Reqs :
          \/ \E d \in DeviceIds \cup {NoDevice} : Arrives(r, d)
          \/ Advance(r) \/ LoginFails(r)
    \/ \E j \in Jobs : Work(j) \/ WorkFails(j)
    \/ ServiceRestarts \/ TimePasses \/ EmailVerified

SignInSpec == SignInInit /\ [][SignInNext]_all

\* The driver and bcrypt settle their promises, so each login goes on.
LoginsGoOn == \A r \in Reqs : WF_all(Advance(r))

\* The driver and the mailer do, so each job goes on.
JobsGoOn == \A j \in Jobs : WF_all(Work(j))

\* A mailer that hangs for good is left in, and every job may hang with it:
\* the properties that need JobsGoOn say so.
FairSignInSpec == SignInSpec /\ LoginsGoOn

-----------------------------------------------------------------------------
(* Properties.                                                             *)

\* The types of both components; the device columns are of the rows.
SignInTypeOK ==
    /\ TypeOK /\ D!TypeOK
    /\ from \in [Reqs -> DeviceIds \cup {NoDevice}]
    /\ signedFrom \subseteq (DeviceIds \cup {NoDevice}) \X Time
    /\ successes = {s[2] : s \in signedFrom}
    /\ lostFrom \subseteq DeviceIds \cup {NoDevice}
    /\ denied \in Seq(Time) /\ lostFailures \in 0 .. MaxLost

\* Logins that overlap on a new device alert once between them, also when
\* each of them started before the row existed.
AtMostOneAlert == \A d \in DeviceIds : alerts[d] <= 1

\* A device counts as known from its first login on; that login's alert was
\* delivered, is being delivered, or was lost with its one attempt.
KnownMeansAlerted ==
    \A d \in known :
        alerts[d] = 1 \/ d \in missed \/ \E j \in Jobs : job[j].pc = "mail" /\ job[j].device = d

\* The late update of an overlapping login does not move last_seen_at before
\* the moment the device was first seen.
SeenInOrder == \A d \in known : firstSeen[d] <= lastSeen[d]

\* If the mailer answers, the alert of a device that became known arrives,
\* unless it was lost.
AlertArrives ==
    JobsGoOn => \A d \in DeviceIds : d \in known ~> (alerts[d] = 1 \/ d \in missed)

\* A device becomes known only through a sign-in from it: login_attempts has
\* a successful row of that device, no later than its first_seen_at, unless
\* the insert of that row threw.  No refused login leaves a device behind.
KnownDevicesSignedIn ==
    \A d \in known \cup {job[j].device : j \in Running} :
        \/ d \in lostFrom
        \/ \E s \in signedFrom :
              s[1] = d /\ (d \in known => s[2] <= firstSeen[d])

Denied(S) == Cardinality({i \in DOMAIN denied : denied[i] \in S})

\* The lockout bounds the guesses, although a record may throw and the login
\* answers all the same: in the cooldown that MaxAttempts failures from t on
\* lead to, no more passwords are answered as wrong than those, one for each
\* other login that had read the table before, and one for each record that
\* was ever lost.
DenialsBounded ==
    \A t \in Time : \A u \in 0 .. t :
        LET end == t + Backoff(u, t) - 1 IN
        successes \cap (u .. end) = {} =>
            Denied(t .. end) <= MaxAttempts + Cardinality(Reqs) - 1 + lostFailures

\* Where the mail about each device stands.
AlertStatus ==
    [d \in DeviceIds |->
        CASE d \notin known                            -> "new"
          [] d \in missed                              -> "lost"
          [] d \in known \ missed /\ alerts[d] = 0     -> "pending"
          [] d \in known \ missed /\ alerts[d] = 1     -> "delivered"
          [] d \in known \ missed /\ alerts[d] \notin 0 .. 1 -> "repeated"]

A == INSTANCE DeviceAlerts WITH status <- AlertStatus

\* Each device goes from new to alerted or lost and no other way, and once:
\* not by overlapping logins, by errors, or by a restart amid several mails.
ImplementsDeviceAlerts == A!Spec

\* A login does not wait for checkAndNotify: it comes to an end also if no
\* job ever takes another step, as FairSignInSpec allows.
LoginsFinish == \A r \in Reqs : req[r].pc # "idle" ~> req[r].pc = "idle"
=============================================================================
