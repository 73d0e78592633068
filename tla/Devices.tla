------------------------------- MODULE Devices -------------------------------
(***************************************************************************)
(* SuspiciousLoginService: the known_devices table of one user and the     *)
(* mail about a sign-in from a new device.  login starts checkAndNotify    *)
(* and does not wait for it, so the jobs of overlapping logins interleave, *)
(* fail on their own (the error is logged) and are lost when the process   *)
(* restarts.                                                               *)
(*                                                                         *)
(* A device is an (ip address, user agent) pair.                           *)
(*                                                                         *)
(* SignIn instantiates this module: there the logins start the jobs, and   *)
(* the constants are assumed to be what they should.                       *)
(***************************************************************************)
EXTENDS Integers, FiniteSets

CONSTANTS
    DeviceIds,
    Jobs,        \* checkAndNotify calls running at once
    Enabled,     \* AUTH_SUSPICIOUS_LOGIN_ENABLED
    MaxTime,     \* bound of the clock
    NoDevice     \* a login without an address or a user agent

VARIABLES
    clock,
    known,       \* known_devices: the rows
    firstSeen, lastSeen,
    alerts,      \* mails about this device that reached the user
    job,         \* the checkAndNotify each slot runs
    missed       \* devices whose mail failed or died with the process

vars == <<clock, known, firstSeen, lastSeen, alerts, job, missed>>
rows == <<clock, known, firstSeen, lastSeen>>

Idle == [pc |-> "idle", device |-> NoDevice, now |-> 0]

Init ==
    /\ clock = 0
    /\ known = {}
    /\ firstSeen = [d \in DeviceIds |-> 0]
    /\ lastSeen = [d \in DeviceIds |-> 0]
    /\ alerts = [d \in DeviceIds |-> 0]
    /\ job = [j \in Jobs |-> Idle]
    /\ missed = {}

Finish(j) == job' = [job EXCEPT ![j] = Idle]

Start(j, d) ==
    /\ job[j].pc = "idle"
    /\ Enabled
    /\ d # NoDevice
    /\ job' = [job EXCEPT ![j] = [Idle EXCEPT !.pc = "insert", !.device = d]]
    /\ UNCHANGED <<rows, alerts, missed>>

\* Switched off, or nothing to tell the device by.
Skip(j, d) ==
    /\ job[j].pc = "idle"
    /\ ~ Enabled \/ d = NoDevice
    /\ UNCHANGED vars

\* Mutant: the row is new because a read before the insert found none.
MutInsertBlind(j) ==
    LET d == job[j].device IN
    /\ job[j].pc = "insert"
    /\ known' = known \cup {d}
    /\ firstSeen' = [firstSeen EXCEPT ![d] = clock]
    /\ lastSeen' = [lastSeen EXCEPT ![d] = clock]
    /\ job' = [job EXCEPT ![j].pc = "mail"]
    /\ UNCHANGED <<clock, alerts, missed>>

\* Mutant: the test of the returned row is inverted.
MutInverted(j) ==
    LET d == job[j].device IN
    /\ job[j].pc = "insert"
    /\ d \notin known
    /\ known' = known \cup {d}
    /\ firstSeen' = [firstSeen EXCEPT ![d] = clock]
    /\ lastSeen' = [lastSeen EXCEPT ![d] = clock]
    /\ job' = [job EXCEPT ![j].pc = "upsert", ![j].now = clock]
    /\ UNCHANGED <<clock, alerts, missed>>

\* INSERT ... ON CONFLICT DO NOTHING returns a row: the device is new.
InsertIsNew(j) ==
    LET d == job[j].device IN
    /\ job[j].pc = "insert"
    /\ d \notin known
    /\ known' = known \cup {d}
    /\ firstSeen' = [firstSeen EXCEPT ![d] = clock]
    /\ lastSeen' = [lastSeen EXCEPT ![d] = clock]
    /\ job' = [job EXCEPT ![j].pc = "mail"]
    /\ UNCHANGED <<clock, alerts, missed>>

\* It returns none: the row is there.  upsertDevice takes its date now.
InsertIsKnown(j) ==
    /\ job[j].pc = "insert"
    /\ job[j].device \in known
    /\ job' = [job EXCEPT ![j].pc = "upsert", ![j].now = clock]
    /\ UNCHANGED <<rows, alerts, missed>>

\* Mutant: the wrong column is updated.
MutWrongColumn(j) ==
    /\ job[j].pc = "upsert"
    /\ firstSeen' = [firstSeen EXCEPT ![job[j].device] = job[j].now]
    /\ Finish(j)
    /\ UNCHANGED <<clock, known, lastSeen, alerts, missed>>

UpsertDevice(j) ==
    /\ job[j].pc = "upsert"
    /\ lastSeen' = [lastSeen EXCEPT ![job[j].device] = job[j].now]
    /\ Finish(j)
    /\ UNCHANGED <<clock, known, firstSeen, alerts, missed>>

\* Mutant: the mail is sent again, as its job is not over.
MutResent(j) ==
    /\ job[j].pc = "mail"
    /\ alerts' = [alerts EXCEPT ![job[j].device] = @ + 1]
    /\ UNCHANGED <<rows, missed, job>>

SendEmail(j) ==
    /\ job[j].pc = "mail"
    /\ alerts' = [alerts EXCEPT ![job[j].device] = @ + 1]
    /\ Finish(j)
    /\ UNCHANGED <<rows, missed>>

\* Mutant: the row is taken back so that the next login alerts.
MutTakenBack(j) ==
    /\ job[j].pc = "mail"
    /\ known' = known \ {job[j].device}
    /\ missed' = missed \cup {job[j].device}
    /\ Finish(j)
    /\ UNCHANGED <<clock, firstSeen, lastSeen, alerts>>

\* The mail server refuses; the error is logged and nothing tries again.
EmailFails(j) ==
    /\ job[j].pc = "mail"
    /\ missed' = missed \cup {job[j].device}
    /\ Finish(j)
    /\ UNCHANGED <<rows, alerts>>

\* A statement throws; login's catch logs it.
Fail(j) ==
    /\ job[j].pc \in {"insert", "upsert"}
    /\ Finish(j)
    /\ UNCHANGED <<rows, alerts, missed>>

Restart ==
    /\ \E j \in Jobs : job[j].pc # "idle"
    /\ missed' = missed \cup {job[j].device : j \in {i \in Jobs : job[i].pc = "mail"}}
    /\ job' = [j \in Jobs |-> Idle]
    /\ UNCHANGED <<rows, alerts>>

Tick ==
    /\ clock < MaxTime
    /\ clock' = clock + 1
    /\ UNCHANGED <<known, firstSeen, lastSeen, alerts, job, missed>>

CheckAndNotify(j) ==
    \/ InsertIsNew(j)
    \/ InsertIsKnown(j)
    \/ UpsertDevice(j)
    \/ SendEmail(j)
    \/ EmailFails(j)

-----------------------------------------------------------------------------
\* The types of the rows and the jobs.
TypeOK ==
    /\ clock \in 0 .. MaxTime
    /\ known \subseteq DeviceIds /\ missed \subseteq known
    /\ firstSeen \in [DeviceIds -> 0 .. MaxTime]
    /\ lastSeen \in [DeviceIds -> 0 .. MaxTime]
    /\ alerts \in [DeviceIds -> Nat]
    /\ \A j \in Jobs :
          /\ job[j].pc \in {"idle", "insert", "upsert", "mail"}
          /\ job[j].device \in DeviceIds \cup {NoDevice}
          /\ job[j].now \in 0 .. MaxTime
=============================================================================
