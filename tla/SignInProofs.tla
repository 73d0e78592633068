----------------------------- MODULE SignInProofs -----------------------------
(***************************************************************************)
(* The alerts about new devices and the lockout, for all devices, jobs,    *)
(* logins and times.                                                       *)
(*                                                                         *)
(* The insert decides which job owns the mail of a device: as long as that *)
(* job is at its mail, nobody was told and nobody else will tell.  A job   *)
(* at its update took its date from a moment when the row existed.         *)
(***************************************************************************)
EXTENDS SignIn, LockoutProofs

Job == [pc : {"idle", "insert", "upsert", "mail"},
        device : DeviceIds \cup {NoDevice}, now : 0 .. MaxTime]

Types ==
    /\ clock \in 0 .. MaxTime
    /\ known \subseteq DeviceIds /\ missed \subseteq known
    /\ firstSeen \in [DeviceIds -> 0 .. MaxTime]
    /\ lastSeen \in [DeviceIds -> 0 .. MaxTime]
    /\ alerts \in [DeviceIds -> 0 .. 1]
    /\ job \in [Jobs -> Job]

\* What the row of a job's device holds at each of its statements.
JobInv(q) ==
    /\ q.pc # "idle" => q.device \in DeviceIds
    /\ q.pc = "upsert" => q.device \in known /\ firstSeen[q.device] <= q.now
    /\ q.pc = "mail" =>
          q.device \in known /\ alerts[q.device] = 0 /\ q.device \notin missed

\* The mail of a device is in one hand.
OneMail(i, j) ==
    i # j /\ job[i].pc = "mail" /\ job[j].pc = "mail" => job[i].device # job[j].device

DeviceInv(d) ==
    /\ d \notin known => alerts[d] = 0
    /\ d \in known => firstSeen[d] <= lastSeen[d]

\* No device was first seen in the future.
FirstSeenPast == \A d \in DeviceIds : firstSeen[d] <= clock

Inv ==
    /\ Types
    /\ \A j \in Jobs : JobInv(job[j])
    /\ \A i, j \in Jobs : OneMail(i, j)
    /\ \A d \in DeviceIds : DeviceInv(d)
    /\ KnownMeansAlerted
    /\ FirstSeenPast

-----------------------------------------------------------------------------
LEMMA IdleJob == D!Idle \in Job /\ D!Idle.pc = "idle" /\ D!Idle.device = NoDevice
<1>1. 0 \in 0 .. MaxTime
  BY SignInAssumption, LockoutAssumption
<1>2. QED
  BY <1>1 DEF D!Idle, Job

LEMMA DevicesInit == D!Init => Inv
<1>. SUFFICES ASSUME D!Init PROVE Inv
  OBVIOUS
<1>1. Types
  BY IdleJob, SignInAssumption, LockoutAssumption DEF D!Init, Types
<1>2. known = {} /\ (\A j \in Jobs : job[j] = D!Idle) /\ \A d \in DeviceIds : alerts[d] = 0
  BY DEF D!Init
<1>3. FirstSeenPast
  BY DEF D!Init, FirstSeenPast
<1>4. QED
  BY <1>1, <1>2, <1>3, IdleJob DEF Inv, JobInv, OneMail, DeviceInv, KnownMeansAlerted

\* A job begins or ends, or is still to write.
LEMMA JobStep ==
  ASSUME Inv, NEW j \in Jobs, NEW q \in Job, job' = [job EXCEPT ![j] = q],
         UNCHANGED <<D!rows, alerts, missed>>,
         JobInv(q), q.pc # "mail", job[j].pc # "mail"
  PROVE  Inv'
<1>1. Types'
  BY DEF Inv, Types, D!rows
<1>2. \A i \in Jobs : job'[i] = IF i = j THEN q ELSE job[i]
  BY DEF Inv, Types
<1>3. UNCHANGED <<clock, known, firstSeen, lastSeen>>
  BY DEF D!rows
<1>4. \A i \in Jobs : JobInv(job[i])'
  BY <1>2, <1>3 DEF Inv, JobInv
<1>5. \A i, k \in Jobs : OneMail(i, k)'
  BY <1>2 DEF Inv, OneMail
<1>6. \A d \in DeviceIds : DeviceInv(d)'
  BY <1>3 DEF Inv, DeviceInv
<1>7. KnownMeansAlerted'
  BY <1>2, <1>3 DEF Inv, KnownMeansAlerted
<1>8. FirstSeenPast'
  BY <1>3 DEF Inv, FirstSeenPast
<1>9. QED
  BY <1>1, <1>4, <1>5, <1>6, <1>7, <1>8 DEF Inv

\* login starts checkAndNotify, or that returns at once.
LEMMA StartStep ==
  ASSUME Inv, NEW j \in Jobs, NEW d \in DeviceIds \cup {NoDevice}, D!Start(j, d) \/ D!Skip(j, d)
  PROVE  Inv'
<1>1. CASE D!Start(j, d)
  <2>. DEFINE q == [D!Idle EXCEPT !.pc = "insert", !.device = d]
  <2>1. q \in Job /\ q.pc = "insert" /\ q.device = d
    BY IdleJob DEF Job
  <2>2. JobInv(q) /\ job[j].pc # "mail"
    BY <1>1, <2>1 DEF D!Start, JobInv
  <2>3. QED
    BY <1>1, <2>1, <2>2, JobStep DEF D!Start
<1>2. CASE D!Skip(j, d)
  BY <1>2 DEF D!Skip, D!vars, Inv, Types, JobInv, OneMail, DeviceInv, KnownMeansAlerted, FirstSeenPast
<1>3. QED
  BY <1>1, <1>2

\* The row exists: upsertDevice takes its date.
LEMMA KnownStep ==
  ASSUME Inv, NEW j \in Jobs, D!InsertIsKnown(j)
  PROVE  Inv'
<1>. DEFINE q == [job[j] EXCEPT !.pc = "upsert", !.now = clock]
<1>1. job[j] \in Job /\ job[j].device \in known /\ clock \in 0 .. MaxTime
  BY DEF D!InsertIsKnown, Inv, Types
<1>2. q \in Job /\ q.pc = "upsert" /\ q.device = job[j].device /\ q.now = clock
  BY <1>1 DEF Job
<1>3. known \subseteq DeviceIds /\ firstSeen[q.device] <= clock
  BY <1>1, <1>2 DEF Inv, Types, FirstSeenPast
<1>4. JobInv(q) /\ job[j].pc # "mail"
  BY <1>1, <1>2, <1>3 DEF D!InsertIsKnown, JobInv
<1>5. job' = [job EXCEPT ![j] = q] /\ UNCHANGED <<D!rows, alerts, missed>>
  BY DEF D!InsertIsKnown
<1>. HIDE DEF q
<1>6. QED
  BY <1>2, <1>4, <1>5, JobStep

LEMMA FailStep ==
  ASSUME Inv, NEW j \in Jobs, D!Fail(j)
  PROVE  Inv'
<1>1. JobInv(D!Idle) /\ job[j].pc # "mail"
  BY IdleJob DEF D!Fail, JobInv
<1>2. QED
  BY <1>1, IdleJob, JobStep DEF D!Fail, D!Finish

\* The insert returned the row: this job has the mail now.
LEMMA NewStep ==
  ASSUME Inv, NEW j \in Jobs, D!InsertIsNew(j)
  PROVE  Inv'
<1>. DEFINE d == job[j].device
<1>1. job[j] \in Job /\ d \in DeviceIds \ known /\ alerts[d] = 0 /\ d \notin missed
  BY DEF D!InsertIsNew, Inv, Types, JobInv, DeviceInv
<1>2. /\ known' = known \cup {d}
      /\ firstSeen' = [firstSeen EXCEPT ![d] = clock]
      /\ lastSeen' = [lastSeen EXCEPT ![d] = clock]
      /\ job' = [job EXCEPT ![j].pc = "mail"]
      /\ UNCHANGED <<clock, alerts, missed>>
  BY DEF D!InsertIsNew
<1>3. Types'
  BY <1>1, <1>2 DEF Inv, Types, Job
<1>4. /\ job'[j].pc = "mail" /\ job'[j].device = d
      /\ \A i \in Jobs \ {j} : job'[i] = job[i]
  BY <1>1, <1>2 DEF Inv, Types, Job
<1>5. /\ firstSeen'[d] = clock /\ lastSeen'[d] = clock /\ clock \in Nat
      /\ \A e \in DeviceIds \ {d} : firstSeen'[e] = firstSeen[e] /\ lastSeen'[e] = lastSeen[e]
  BY <1>1, <1>2, SignInAssumption, LockoutAssumption DEF Inv, Types
<1>6. ASSUME NEW i \in Jobs PROVE JobInv(job[i])'
  <2>1. CASE i = j
    BY <1>1, <1>2, <1>4, <2>1 DEF JobInv
  <2>2. CASE i # j
    <3>1. job'[i] = job[i] /\ JobInv(job[i])
      BY <1>4, <2>2 DEF Inv
    <3>2. QED
      BY <1>1, <1>2, <1>5, <3>1 DEF JobInv
  <2>3. QED
    BY <2>1, <2>2
<1>7. \A i, k \in Jobs : OneMail(i, k)'
  BY <1>1, <1>4 DEF Inv, OneMail, JobInv
<1>8. \A e \in DeviceIds : DeviceInv(e)'
  BY <1>1, <1>2, <1>5 DEF Inv, DeviceInv
<1>9. KnownMeansAlerted'
  <2>1. \A i \in Jobs : job[i].pc = "mail" => job'[i] = job[i]
    BY <1>4 DEF D!InsertIsNew
  <2>2. QED
    BY <1>2, <1>4, <2>1 DEF Inv, KnownMeansAlerted
<1>10. FirstSeenPast'
  BY <1>1, <1>2, <1>5 DEF Inv, FirstSeenPast
<1>11. QED
  BY <1>3, <1>6, <1>7, <1>8, <1>9, <1>10 DEF Inv

LEMMA UpsertStep ==
  ASSUME Inv, NEW j \in Jobs, D!UpsertDevice(j)
  PROVE  Inv'
<1>. DEFINE d == job[j].device
<1>1. /\ job[j] \in Job /\ d \in known /\ d \in DeviceIds
      /\ firstSeen[d] <= job[j].now /\ job[j].pc = "upsert"
  BY DEF D!UpsertDevice, Inv, Types, JobInv
<1>2. /\ lastSeen' = [lastSeen EXCEPT ![d] = job[j].now]
      /\ job' = [job EXCEPT ![j] = D!Idle]
      /\ UNCHANGED <<clock, known, firstSeen, alerts, missed>>
  BY DEF D!UpsertDevice, D!Finish
<1>3. Types'
  BY <1>1, <1>2, IdleJob DEF Inv, Types, Job
<1>4. \A i \in Jobs : job'[i] = IF i = j THEN D!Idle ELSE job[i]
  BY <1>2 DEF Inv, Types
<1>5. \A i \in Jobs : JobInv(job[i])'
  BY <1>2, <1>4, IdleJob DEF Inv, JobInv
<1>6. \A i, k \in Jobs : OneMail(i, k)'
  BY <1>4, IdleJob DEF Inv, OneMail
<1>7. \A e \in DeviceIds : DeviceInv(e)'
  BY <1>1, <1>2 DEF Inv, Types, DeviceInv
<1>8. KnownMeansAlerted'
  BY <1>1, <1>2, <1>4 DEF Inv, KnownMeansAlerted
<1>9. FirstSeenPast'
  BY <1>2 DEF Inv, FirstSeenPast
<1>10. QED
  BY <1>3, <1>5, <1>6, <1>7, <1>8, <1>9 DEF Inv

\* The mail goes out, or it fails and is not tried again.
LEMMA MailStep ==
  ASSUME Inv, NEW j \in Jobs, D!SendEmail(j) \/ D!EmailFails(j)
  PROVE  Inv'
<1>. DEFINE d == job[j].device
<1>1. /\ job[j] \in Job /\ d \in known /\ d \in DeviceIds /\ job[j].pc = "mail"
      /\ alerts[d] = 0 /\ d \notin missed
  BY DEF D!SendEmail, D!EmailFails, Inv, Types, JobInv
<1>2. /\ \/ alerts' = [alerts EXCEPT ![d] = 1] /\ missed' = missed
         \/ missed' = missed \cup {d} /\ alerts' = alerts
      /\ job' = [job EXCEPT ![j] = D!Idle]
      /\ UNCHANGED <<clock, known, firstSeen, lastSeen>>
  BY <1>1 DEF D!SendEmail, D!EmailFails, D!Finish, D!rows, Inv, Types
<1>3. Types'
  BY <1>1, <1>2, IdleJob DEF Inv, Types
<1>4. \A i \in Jobs : job'[i] = IF i = j THEN D!Idle ELSE job[i]
  BY <1>2 DEF Inv, Types
<1>5. /\ alerts'[d] = 1 \/ d \in missed'
      /\ \A e \in DeviceIds \ {d} : alerts'[e] = alerts[e] /\ (e \in missed' <=> e \in missed)
  BY <1>1, <1>2 DEF Inv, Types
<1>6. ASSUME NEW i \in Jobs PROVE JobInv(job[i])'
  <2>1. CASE i = j
    BY <1>4, <2>1, IdleJob DEF JobInv
  <2>2. CASE i # j
    <3>1. job'[i] = job[i] /\ JobInv(job[i]) /\ (job[i].pc = "mail" => job[i].device # d)
      BY <1>1, <1>4, <2>2 DEF Inv, OneMail
    <3>2. QED
      BY <1>2, <1>5, <3>1 DEF JobInv
  <2>3. QED
    BY <2>1, <2>2
<1>7. \A i, k \in Jobs : OneMail(i, k)'
  BY <1>4, IdleJob DEF Inv, OneMail
<1>8. \A e \in DeviceIds : DeviceInv(e)'
  BY <1>1, <1>2, <1>5 DEF Inv, DeviceInv
<1>9. KnownMeansAlerted'
  <2>1. ASSUME NEW e \in known, e # d
        PROVE  \/ alerts'[e] = 1 \/ e \in missed'
               \/ \E i \in Jobs : job'[i].pc = "mail" /\ job'[i].device = e
    BY <1>1, <1>4, <1>5, <2>1 DEF Inv, Types, KnownMeansAlerted
  <2>2. QED
    BY <1>2, <1>5, <2>1 DEF KnownMeansAlerted
<1>10. FirstSeenPast'
  BY <1>2 DEF Inv, FirstSeenPast
<1>11. QED
  BY <1>3, <1>6, <1>7, <1>8, <1>9, <1>10 DEF Inv

LEMMA RestartStep ==
  ASSUME Inv, D!Restart
  PROVE  Inv'
<1>1. /\ missed' = missed \cup {job[j].device : j \in {i \in Jobs : job[i].pc = "mail"}}
      /\ job' = [j \in Jobs |-> D!Idle]
      /\ UNCHANGED <<clock, known, firstSeen, lastSeen, alerts>>
  BY DEF D!Restart, D!rows
<1>2. Types'
  BY <1>1, IdleJob DEF Inv, Types, JobInv
<1>3. \A j \in Jobs : job'[j] = D!Idle
  BY <1>1
<1>4. KnownMeansAlerted'
  BY <1>1 DEF Inv, KnownMeansAlerted
<1>5. \A d \in DeviceIds : DeviceInv(d)'
  BY <1>1 DEF Inv, DeviceInv
<1>6. FirstSeenPast'
  BY <1>1 DEF Inv, FirstSeenPast
<1>7. QED
  BY <1>2, <1>3, <1>4, <1>5, <1>6, IdleJob DEF Inv, JobInv, OneMail

LEMMA TickStep ==
  ASSUME Inv, D!Tick
  PROVE  Inv'
<1>1. /\ clock < MaxTime /\ clock' = clock + 1
      /\ UNCHANGED <<known, firstSeen, lastSeen, alerts, job, missed>>
  BY DEF D!Tick
<1>2. Types'
  BY <1>1, SignInAssumption, LockoutAssumption DEF Inv, Types
<1>3. FirstSeenPast'
  BY <1>1, SignInAssumption, LockoutAssumption DEF Inv, Types, FirstSeenPast
<1>4. QED
  BY <1>1, <1>2, <1>3 DEF Inv, JobInv, OneMail, DeviceInv, KnownMeansAlerted

-----------------------------------------------------------------------------
(* The whole login.  Where a device comes from has to be known from the    *)
(* moment its job starts.                                                  *)

\* A recorded sign-in from this device, or one whose record was lost.
SignedIn(d) == d \in lostFrom \/ \E s \in signedFrom : s[1] = d

SignedInBefore(d) ==
    d \in lostFrom \/ \E s \in signedFrom : s[1] = d /\ s[2] <= firstSeen[d]

Sources ==
    /\ from \in [Reqs -> DeviceIds \cup {NoDevice}]
    /\ \A s \in signedFrom : s[2] \in 0 .. clock
    /\ \A d \in known : SignedInBefore(d)
    /\ \A j \in Jobs : job[j].pc # "idle" => SignedIn(job[j].device)

SignInInv == Inv /\ Sources

LEMMA SignInInitInv == SignInInit => SignInInv
BY DevicesInit, IdleJob DEF SignInInit, D!Init, SignInInv, Sources

\* Records are only added, and a login that ends forgets its device.
Adds ==
    /\ from' \in [Reqs -> DeviceIds \cup {NoDevice}]
    /\ signedFrom \subseteq signedFrom' /\ lostFrom \subseteq lostFrom'
    /\ \A s \in signedFrom' \ signedFrom : s[2] = clock

LEMMA Follows ==
  ASSUME SignInInv, Inv', Adds, clock' = clock \/ clock' = clock + 1,
         \A d \in known' : \/ d \in known /\ firstSeen'[d] = firstSeen[d]
                           \/ SignedIn(d) /\ firstSeen'[d] = clock,
         \A j \in Jobs : job'[j].pc # "idle" => SignedIn(job[j].device)'
  PROVE  SignInInv'
<1>1. clock \in Nat /\ clock' \in Nat /\ clock <= clock'
  BY SignInAssumption, LockoutAssumption DEF SignInInv, Inv, Types
<1>2. \A s \in signedFrom' : s[2] \in 0 .. clock' /\ s[2] \in Nat
  BY <1>1 DEF Adds, SignInInv, Sources
<1>3. ASSUME NEW d \in known' PROVE SignedInBefore(d)'
  <2>1. CASE d \in known /\ firstSeen'[d] = firstSeen[d]
    BY <2>1 DEF SignInInv, Sources, SignedInBefore, Adds
  <2>2. CASE SignedIn(d) /\ firstSeen'[d] = clock
    BY <1>1, <2>2 DEF SignInInv, Sources, SignedIn, SignedInBefore, Adds
  <2>3. QED
    BY <2>1, <2>2
<1>4. QED
  BY <1>2, <1>3 DEF SignInInv, Sources, Adds

\* Nothing of Devices changes.
LEMMA DevicesRest ==
  ASSUME SignInInv, Adds, UNCHANGED <<clock, devices>>
  PROVE  SignInInv'
<1>1. UNCHANGED <<clock, known, firstSeen, lastSeen, alerts, job, missed>>
  BY DEF devices
<1>2. Inv'
  BY <1>1 DEF SignInInv, Inv, Types, JobInv, OneMail, DeviceInv, KnownMeansAlerted,
     FirstSeenPast
<1>3. \A j \in Jobs : job'[j].pc # "idle" => SignedIn(job[j].device)'
  BY <1>1 DEF SignInInv, Sources, SignedIn, Adds
<1>4. QED
  BY <1>1, <1>2, <1>3, Follows

\* A login up to its verdict, and its errors.
LEMMA VerdictStep ==
  ASSUME SignInInv, NEW r \in Reqs,
         \/ \E d \in DeviceIds \cup {NoDevice} : Arrives(r, d)
         \/ Check(r) \/ Deny(r) \/ DenyUnrecorded(r) \/ LoginFails(r)
  PROVE  SignInInv'
<1>1. UNCHANGED <<clock, devices, signedFrom, lostFrom>>
  BY DEF Arrives, Check, Deny, DenyUnrecorded, LoginFails, answers, rows,
     FindByEmail, ReadLastSuccess, CountFailures, Refuse, Pass,
     WrongPassword, RightPassword, RecordFailure, Fail
<1>2. from' \in [Reqs -> DeviceIds \cup {NoDevice}]
  BY DEF Arrives, Check, Deny, DenyUnrecorded, LoginFails, KeepRunning, SignInInv, Sources
<1>3. QED
  BY <1>1, <1>2, DevicesRest DEF Adds

\* The login is accepted: the record comes before the job.
LEMMA AcceptStep ==
  ASSUME SignInInv, NEW r \in Reqs, Accept(r) \/ AcceptUnrecorded(r)
  PROVE  SignInInv'
<1>1. /\ clock' = clock /\ Notify(r) /\ KeepRunning
      /\ \/ signedFrom' = signedFrom \cup {<<from[r], clock>>} /\ lostFrom' = lostFrom
         \/ lostFrom' = lostFrom \cup {from[r]} /\ signedFrom' = signedFrom
  BY DEF Accept, AcceptUnrecorded, RecordSuccess, Fail, rows
<1>2. Adds
  BY <1>1 DEF Adds, KeepRunning, SignInInv, Sources
<1>3. from[r] \in lostFrom' \/ \E s \in signedFrom' : s[1] = from[r]
  <2>1. <<from[r], clock>>[1] = from[r]
    OBVIOUS
  <2>2. QED
    BY <1>1, <2>1
<1>4. PICK j \in Jobs : D!Start(j, from[r]) \/ D!Skip(j, from[r])
  BY <1>1 DEF Notify
<1>5. from[r] \in DeviceIds \cup {NoDevice} /\ Inv'
  BY <1>4, StartStep DEF SignInInv, Sources
<1>6. /\ known' = known /\ firstSeen' = firstSeen
      /\ \/ job' = job
         \/ job' = [job EXCEPT ![j] = [D!Idle EXCEPT !.pc = "insert", !.device = from[r]]]
  BY <1>4 DEF D!Start, D!Skip, D!rows, D!vars
<1>7. ASSUME NEW i \in Jobs, job'[i].pc # "idle" PROVE SignedIn(job[i].device)'
  <2>1. CASE job'[i] = job[i]
    BY <1>2, <1>7, <2>1 DEF SignInInv, Sources, SignedIn, Adds
  <2>2. CASE job'[i] # job[i]
    <3>1. job'[i].device = from[r]
      BY <1>6, <2>2 DEF SignInInv, Inv, Types, D!Idle
    <3>2. QED
      BY <1>3, <3>1 DEF SignedIn
  <2>3. QED
    BY <2>1, <2>2
<1>8. QED
  BY <1>1, <1>2, <1>5, <1>6, <1>7, Follows

\* A job writes, mails or fails; only the insert makes a device known.
LEMMA WorkStep ==
  ASSUME SignInInv, NEW j \in Jobs, Work(j) \/ WorkFails(j)
  PROVE  SignInInv'
<1>1. Inv' /\ (D!CheckAndNotify(j) \/ D!Fail(j)) /\ UNCHANGED <<from, answers>>
  BY NewStep, KnownStep, UpsertStep, MailStep, FailStep
     DEF Work, WorkFails, D!CheckAndNotify, SignInInv
<1>2. /\ clock' = clock
      /\ \/ known' = known /\ firstSeen' = firstSeen
         \/ /\ known' = known \cup {job[j].device} /\ job[j].pc = "insert"
            /\ firstSeen' = [firstSeen EXCEPT ![job[j].device] = clock]
            /\ job[j].device \notin known
  BY <1>1 DEF D!CheckAndNotify, D!InsertIsNew, D!InsertIsKnown, D!UpsertDevice, D!SendEmail, D!EmailFails,
     D!Fail, D!rows
<1>3. Adds
  BY <1>1 DEF Adds, answers, SignInInv, Sources
<1>4. ASSUME NEW d \in known'
      PROVE  \/ d \in known /\ firstSeen'[d] = firstSeen[d]
             \/ SignedIn(d) /\ firstSeen'[d] = clock
  <2>1. job[j].pc = "insert" => SignedIn(job[j].device) /\ job[j].device \in DeviceIds
    BY DEF SignInInv, Sources, Inv, JobInv
  <2>2. QED
    BY <1>2, <2>1 DEF SignInInv, Inv, Types
<1>5. ASSUME NEW i \in Jobs, job'[i].pc # "idle" PROVE SignedIn(job[i].device)'
  <2>1. job[i].pc # "idle" /\ job'[i].device = job[i].device
    BY <1>1, <1>5, IdleJob DEF D!CheckAndNotify, D!InsertIsNew, D!InsertIsKnown, D!UpsertDevice,
       D!SendEmail, D!EmailFails, D!Fail, D!Finish, SignInInv, Inv, Types, Job
  <2>2. QED
    BY <1>3, <2>1 DEF SignInInv, Sources, SignedIn, Adds
<1>6. QED
  BY <1>1, <1>2, <1>3, <1>4, <1>5, Follows

LEMMA ProcessStep ==
  ASSUME SignInInv, ServiceRestarts \/ TimePasses \/ EmailVerified
  PROVE  SignInInv'
<1>1. /\ UNCHANGED answers
      /\ UNCHANGED from \/ KeepRunning
      /\ UNCHANGED <<clock, devices>> \/ D!Restart \/ D!Tick
  <2>1. CASE ServiceRestarts
    BY <2>1 DEF ServiceRestarts
  <2>2. CASE TimePasses
    BY <2>2 DEF TimePasses
  <2>3. CASE EmailVerified
    BY <2>3 DEF EmailVerified, VerifyEmail
  <2>4. QED
    BY <2>1, <2>2, <2>3
<1>2. Adds
  BY <1>1 DEF Adds, answers, KeepRunning, SignInInv, Sources
<1>3. CASE UNCHANGED <<clock, devices>>
  BY <1>2, <1>3, DevicesRest
<1>4. CASE D!Restart \/ D!Tick
  <2>1. Inv'
    BY <1>4, RestartStep, TickStep DEF SignInInv
  <2>2. /\ UNCHANGED <<known, firstSeen>> /\ (clock' = clock \/ clock' = clock + 1)
        /\ \A i \in Jobs : job'[i] = job[i] \/ job'[i] = D!Idle
    BY <1>4 DEF D!Restart, D!Tick, D!rows
  <2>3. \A i \in Jobs : job'[i].pc # "idle" => SignedIn(job[i].device)'
    BY <1>2, <2>2, IdleJob DEF SignInInv, Sources, SignedIn, Adds
  <2>4. QED
    BY <1>2, <2>1, <2>2, <2>3, Follows
<1>5. QED
  BY <1>1, <1>3, <1>4

LEMMA StepInv == SignInInv /\ [SignInNext]_all => SignInInv'
<1>. SUFFICES ASSUME SignInInv, [SignInNext]_all PROVE SignInInv'
  OBVIOUS
<1>1. ASSUME NEW r \in Reqs,
             \/ \E d \in DeviceIds \cup {NoDevice} : Arrives(r, d)
             \/ Advance(r) \/ LoginFails(r)
      PROVE  SignInInv'
  BY <1>1, VerdictStep, AcceptStep DEF Advance
<1>2. ASSUME NEW j \in Jobs, Work(j) \/ WorkFails(j) PROVE SignInInv'
  BY <1>2, WorkStep
<1>3. CASE ServiceRestarts \/ TimePasses \/ EmailVerified
  BY <1>3, ProcessStep
<1>4. CASE UNCHANGED all
  <2>1. UNCHANGED <<clock, devices>> /\ Adds
    BY <1>4 DEF all, answers, Adds, SignInInv, Sources
  <2>2. QED
    BY <2>1, DevicesRest
<1>5. QED
  BY <1>1, <1>2, <1>3, <1>4 DEF SignInNext

\* The invariant behind the theorems about the devices: the D!rows, the mails
\* and where each device comes from.
THEOREM SignInInvariant == SignInSpec => []SignInInv
BY SignInInitInv, StepInv, PTL DEF SignInSpec

-----------------------------------------------------------------------------
\* Overlapping logins from a new device alert once between them.
THEOREM OneAlert == SignInSpec => []AtMostOneAlert
<1>1. SignInInv => AtMostOneAlert
  BY DEF SignInInv, Inv, Types, AtMostOneAlert
<1>2. QED
  BY <1>1, SignInInvariant, PTL

\* A known device was alerted about, is being, or its alert was lost.
THEOREM KnownAlerted == SignInSpec => []KnownMeansAlerted
<1>1. SignInInv => KnownMeansAlerted
  BY DEF SignInInv, Inv
<1>2. QED
  BY <1>1, SignInInvariant, PTL

\* The late updates of last_seen_at never go back before first_seen_at.
THEOREM SeenOrdered == SignInSpec => []SeenInOrder
<1>1. SignInInv => SeenInOrder
  BY DEF SignInInv, Inv, Types, DeviceInv, SeenInOrder
<1>2. QED
  BY <1>1, SignInInvariant, PTL

\* A device becomes known by a recorded sign-in that came before, or by one
\* whose record was lost; never by a refused one.
THEOREM OnlySignedIn == SignInSpec => []KnownDevicesSignedIn
<1>1. SignInInv => KnownDevicesSignedIn
  <2>. SUFFICES ASSUME SignInInv, NEW d \in known \cup {job[j].device : j \in Running}
                PROVE  \/ d \in lostFrom
                       \/ \E s \in signedFrom :
                             s[1] = d /\ (d \in known => s[2] <= firstSeen[d])
    BY DEF KnownDevicesSignedIn
  <2>1. CASE d \in known
    BY <2>1 DEF SignInInv, Sources, SignedInBefore
  <2>2. CASE d \notin known
    BY <2>2 DEF SignInInv, Sources, SignedIn, Running
  <2>3. QED
    BY <2>1, <2>2
<1>2. QED
  BY <1>1, SignInInvariant, PTL

-----------------------------------------------------------------------------
(* The lockout.  What LockoutProofs shows of overlapping logins holds of   *)
(* the whole login, as its other parts leave the lockout's variables alone. *)

LEMMA SignInIsLockout == SignInSpec => Spec
<1>1. SignInInit => Init
  BY DEF SignInInit
<1>2. [SignInNext]_all => [Next]_vars
  <2>. SUFFICES ASSUME [SignInNext]_all PROVE Next \/ UNCHANGED vars
    OBVIOUS
  <2>1. ASSUME NEW r \in Reqs,
               \/ \E d \in DeviceIds \cup {NoDevice} : Arrives(r, d)
               \/ Advance(r) \/ LoginFails(r)
        PROVE  Next
    BY <2>1 DEF Arrives, Advance, Check, Deny, DenyUnrecorded, Accept, AcceptUnrecorded,
       LoginFails, Next, Login
  <2>2. ASSUME NEW j \in Jobs, Work(j) \/ WorkFails(j) PROVE UNCHANGED vars
    BY <2>2 DEF Work, WorkFails, D!CheckAndNotify, D!InsertIsNew, D!InsertIsKnown,
       D!UpsertDevice, D!SendEmail, D!EmailFails, D!Fail, D!rows, attempts, vars
  <2>3. CASE ServiceRestarts
    BY <2>3 DEF ServiceRestarts, D!Restart, D!rows, attempts, Next, Restart, rows, vars
  <2>4. CASE TimePasses \/ EmailVerified
    BY <2>4 DEF TimePasses, EmailVerified, Next
  <2>5. CASE UNCHANGED all
    BY <2>5 DEF all, attempts, vars
  <2>6. QED
    BY <2>1, <2>2, <2>3, <2>4, <2>5 DEF SignInNext
<1>3. QED
  BY <1>1, <1>2, PTL DEF SignInSpec, Spec

\* What the logins answered, and the records that were lost.
AnswerTypes ==
    /\ signedFrom \subseteq (DeviceIds \cup {NoDevice}) \X Time
    /\ successes = {s[2] : s \in signedFrom}
    /\ lostFrom \subseteq DeviceIds \cup {NoDevice} /\ IsFiniteSet(lostFrom)
    /\ denied \in Seq(Time) /\ lostFailures \in 0 .. MaxLost

\* Each refused password has its row, or its insert threw.
Accounted == \A S : Denied(S) <= Failed(S) + lostFailures

LEMMA DeniedNat ==
  ASSUME NEW S, denied \in Seq(Time)
  PROVE  Denied(S) \in Nat
BY HitsFinite, FS_CardinalityType DEF Denied

LEMMA DeniedAppend ==
  ASSUME NEW S, denied \in Seq(Time), clock \in Time, denied' = Append(denied, clock)
  PROVE  Denied(S)' = IF clock \in S THEN Denied(S) + 1 ELSE Denied(S)
BY HitsAppend DEF Denied

AnswersInv == AnswerTypes /\ Accounted

LEMMA AnswersInit == SignInInit => AnswersInv
<1>. SUFFICES ASSUME SignInInit PROVE AnswersInv
  OBVIOUS
<1>1. AnswerTypes
  BY FS_EmptySet, SignInAssumption DEF SignInInit, Init, AnswerTypes
<1>2. \A S : Denied(S) = 0 /\ Failed(S) = 0
  <2>1. DOMAIN denied = {} /\ DOMAIN failures = {}
    BY DEF SignInInit, Init
  <2>2. \A S : {i \in DOMAIN denied : denied[i] \in S} = {}
           /\ {i \in DOMAIN failures : failures[i] \in S} = {}
    BY <2>1
  <2>. QED BY <2>2, FS_EmptySet DEF Denied, Failed
<1>3. lostFailures = 0
  BY DEF SignInInit
<1>. QED BY <1>1, <1>2, <1>3 DEF AnswersInv, Accounted

LEMMA AnswersStep ==
  SignInInv /\ LockoutInv /\ AnswersInv /\ [SignInNext]_all => AnswersInv'
<1>. SUFFICES ASSUME SignInInv, LockoutInv, AnswersInv, [SignInNext]_all PROVE AnswersInv'
  OBVIOUS
<1>. USE DEF AnswersInv
<1>1. /\ clock \in Time /\ failures \in Seq(Time) /\ denied \in Seq(Time)
      /\ \A r \in Reqs : from[r] \in DeviceIds \cup {NoDevice}
      /\ \A S : Failed(S) \in Nat /\ Denied(S) \in Nat
      /\ lostFailures \in Nat
  BY FailedNat, DeniedNat, SignInAssumption
     DEF LockoutInv, TypeOK, SignInInv, Sources, AnswerTypes
<1>2. UNCHANGED <<failures, successes, answers>> => AnswersInv'
  BY DEF answers, AnswerTypes, Accounted, Denied, Failed
<1>3. ASSUME NEW r \in Reqs,
             \/ \E d \in DeviceIds \cup {NoDevice} : Arrives(r, d)
             \/ Check(r) \/ LoginFails(r)
      PROVE  UNCHANGED <<failures, successes, answers>>
  BY <1>3 DEF Arrives, Check, LoginFails, rows, FindByEmail, ReadLastSuccess, CountFailures,
     Refuse, Pass, WrongPassword, RightPassword, Fail
<1>4. ASSUME NEW r \in Reqs, Deny(r) PROVE AnswersInv'
  <2>1. /\ failures' = Append(failures, clock) /\ denied' = Append(denied, clock)
        /\ UNCHANGED <<successes, signedFrom, lostFailures, lostFrom>>
    BY <1>4 DEF Deny, RecordFailure
  <2>2. AnswerTypes'
    BY <1>1, <2>1 DEF AnswerTypes
  <2>3. ASSUME NEW S PROVE Denied(S)' <= Failed(S)' + lostFailures
    <3>1. /\ Denied(S)' = IF clock \in S THEN Denied(S) + 1 ELSE Denied(S)
          /\ Failed(S)' = IF clock \in S THEN Failed(S) + 1 ELSE Failed(S)
      BY <1>1, <2>1, DeniedAppend, FailedAppend
    <3>2. Denied(S) <= Failed(S) + lostFailures
      BY DEF Accounted
    <3>. QED BY <1>1, <3>1, <3>2
  <2>. QED BY <2>1, <2>2, <2>3 DEF Accounted
<1>5. ASSUME NEW r \in Reqs, DenyUnrecorded(r) PROVE AnswersInv'
  <2>1. /\ denied' = Append(denied, clock) /\ lostFailures' = lostFailures + 1
        /\ lostFailures + Cardinality(lostFrom) < MaxLost
        /\ UNCHANGED <<failures, successes, signedFrom, lostFrom>>
    BY <1>5 DEF DenyUnrecorded, MayLose, Fail, rows
  <2>2. AnswerTypes'
    <3>1. Cardinality(lostFrom) \in Nat /\ lostFailures \in 0 .. MaxLost
      BY FS_CardinalityType DEF AnswerTypes
    <3>2. lostFailures' \in 0 .. MaxLost
      BY <2>1, <3>1, SignInAssumption
    <3>. QED BY <1>1, <2>1, <3>2 DEF AnswerTypes
  <2>3. ASSUME NEW S PROVE Denied(S)' <= Failed(S) + lostFailures'
    <3>1. Denied(S)' = IF clock \in S THEN Denied(S) + 1 ELSE Denied(S)
      BY <1>1, <2>1, DeniedAppend
    <3>2. Denied(S) <= Failed(S) + lostFailures
      BY DEF Accounted
    <3>. QED BY <1>1, <2>1, <3>1, <3>2
  <2>4. \A S : Failed(S)' = Failed(S)
    BY <2>1 DEF Failed
  <2>. QED BY <2>2, <2>3, <2>4 DEF Accounted
<1>6. ASSUME NEW r \in Reqs, Accept(r) \/ AcceptUnrecorded(r) PROVE AnswersInv'
  <2>1. UNCHANGED <<failures, denied, lostFailures>>
    BY <1>6 DEF Accept, AcceptUnrecorded, RecordSuccess, Fail, rows
  <2>2. Accounted'
    BY <2>1 DEF Accounted, Denied, Failed
  <2>3. \/ /\ signedFrom' = signedFrom \cup {<<from[r], clock>>}
           /\ successes' = successes \cup {clock} /\ lostFrom' = lostFrom
        \/ /\ lostFrom' = lostFrom \cup {from[r]}
           /\ UNCHANGED <<successes, signedFrom>>
    BY <1>6 DEF Accept, AcceptUnrecorded, RecordSuccess, Fail, rows
  <2>4. successes' = {s[2] : s \in signedFrom'}
    <3>1. <<from[r], clock>>[2] = clock
      OBVIOUS
    <3>. QED BY <2>3, <3>1 DEF AnswerTypes
  <2>5. /\ signedFrom' \subseteq (DeviceIds \cup {NoDevice}) \X Time
        /\ lostFrom' \subseteq DeviceIds \cup {NoDevice} /\ IsFiniteSet(lostFrom')
    <3>1. /\ signedFrom \subseteq (DeviceIds \cup {NoDevice}) \X Time
          /\ lostFrom \subseteq DeviceIds \cup {NoDevice} /\ IsFiniteSet(lostFrom)
      BY DEF AnswerTypes
    <3>2. <<from[r], clock>> \in (DeviceIds \cup {NoDevice}) \X Time
      BY <1>1
    <3>3. signedFrom' = signedFrom \/ signedFrom' = signedFrom \cup {<<from[r], clock>>}
      BY <2>3
    <3>4. lostFrom' = lostFrom \/ lostFrom' = lostFrom \cup {from[r]}
      BY <2>3
    <3>5. IsFiniteSet(lostFrom \cup {from[r]})
      BY <3>1, FS_AddElement
    <3>6. signedFrom' \subseteq (DeviceIds \cup {NoDevice}) \X Time
      BY <3>1, <3>2, <3>3
    <3>7. lostFrom' \subseteq DeviceIds \cup {NoDevice} /\ IsFiniteSet(lostFrom')
      BY <1>1, <3>1, <3>4, <3>5
    <3>. QED BY <3>6, <3>7
  <2>. QED BY <2>1, <2>2, <2>4, <2>5 DEF AnswerTypes
<1>7. CASE \/ \E j \in Jobs : Work(j) \/ WorkFails(j)
           \/ ServiceRestarts \/ TimePasses \/ EmailVerified \/ UNCHANGED all
  BY <1>2, <1>7 DEF Work, WorkFails, ServiceRestarts, TimePasses, EmailVerified, all, attempts,
     Restart, Tick, VerifyEmail, rows
<1>. QED
  BY <1>2, <1>3, <1>4, <1>5, <1>6, <1>7 DEF SignInNext, Advance

LEMMA AnswersCorrect == SignInSpec => [](SignInInv /\ LockoutInv /\ AnswersInv)
<1>1. SignInSpec => []LockoutInv
  BY SignInIsLockout, LockoutInvariant
<1>. QED
  BY <1>1, AnswersInit, AnswersStep, SignInInvariant, PTL DEF SignInSpec

\* The tables and the jobs keep their types through the whole login: the
\* rows that throw keep to their bound, and no login lacks room for its row.
THEOREM SignInTypeCorrect == SignInSpec => []SignInTypeOK
<1>1. SignInInv /\ LockoutInv /\ AnswersInv => SignInTypeOK
  BY DEF SignInInv, Inv, Types, Job, D!TypeOK, Sources, LockoutInv, AnswersInv, AnswerTypes,
         SignInTypeOK
<1>. QED
  BY <1>1, AnswersCorrect, PTL

\* The passwords that are answered as wrong in a cooldown: the limit, one for
\* each other login, and one for each record that was lost, however the
\* logins, their jobs and the failures of statements interleave.
THEOREM DenialsStayBounded == SignInSpec => []DenialsBounded
<1>1. SignInSpec => []AttemptsBounded
  BY SignInIsLockout, GuessesBounded
<1>2. AttemptsBounded /\ LockoutInv /\ AnswersInv => DenialsBounded
  <2>. SUFFICES ASSUME AttemptsBounded, LockoutInv, AnswersInv,
                       NEW t \in Time, NEW u \in 0 .. t,
                       successes \cap (u .. t + Backoff(u, t) - 1) = {}
                PROVE  Denied(t .. t + Backoff(u, t) - 1)
                         <= MaxAttempts + Cardinality(Reqs) - 1 + lostFailures
    BY DEF DenialsBounded
  <2>. DEFINE S == t .. t + Backoff(u, t) - 1
  <2>1. Failed(S) <= MaxAttempts + Cardinality(Reqs) - 1
    BY DEF AttemptsBounded
  <2>2. Denied(S) <= Failed(S) + lostFailures
    BY DEF AnswersInv, Accounted
  <2>. HIDE DEF S
  <2>3. Denied(S) \in Nat /\ Failed(S) \in Nat /\ lostFailures \in Nat
    BY DeniedNat, FailedNat, SignInAssumption DEF LockoutInv, TypeOK, AnswersInv, AnswerTypes
  <2>4. MaxAttempts \in Nat /\ Cardinality(Reqs) \in Nat
    BY LockoutAssumption, RequestSets
  <2>5. Denied(S) <= MaxAttempts + Cardinality(Reqs) - 1 + lostFailures
    BY <2>1, <2>2, <2>3, <2>4
  <2>. QED BY <2>5 DEF S
<1>. QED
  BY <1>1, <1>2, AnswersCorrect, PTL

-----------------------------------------------------------------------------
(* The devices as the user sees them.                                      *)

LEMMA StatusValues ==
  ASSUME missed \subseteq known
  PROVE  /\ AlertStatus = [d \in DeviceIds |-> AlertStatus[d]]
         /\ \A d \in DeviceIds :
               /\ d \notin known => AlertStatus[d] = "new"
               /\ d \in missed => AlertStatus[d] = "lost"
               /\ d \in known \ missed /\ alerts[d] = 0 => AlertStatus[d] = "pending"
               /\ d \in known \ missed /\ alerts[d] = 1 => AlertStatus[d] = "delivered"
<1>1. AlertStatus = [d \in DeviceIds |-> AlertStatus[d]]
  BY DEF AlertStatus
<1>. SUFFICES ASSUME NEW d \in DeviceIds
              PROVE  /\ d \notin known => AlertStatus[d] = "new"
                     /\ d \in missed => AlertStatus[d] = "lost"
                     /\ d \in known \ missed /\ alerts[d] = 0 => AlertStatus[d] = "pending"
                     /\ d \in known \ missed /\ alerts[d] = 1 => AlertStatus[d] = "delivered"
  BY <1>1
<1>2. d \notin known => AlertStatus[d] = "new"
  BY DEF AlertStatus
<1>3. d \in missed => AlertStatus[d] = "lost"
  BY DEF AlertStatus
<1>4. d \in known \ missed /\ alerts[d] = 0 => AlertStatus[d] = "pending"
  BY DEF AlertStatus
<1>5. d \in known \ missed /\ alerts[d] = 1 => AlertStatus[d] = "delivered"
  BY DEF AlertStatus
<1>. QED BY <1>2, <1>3, <1>4, <1>5

LEMMA StatusValuesNext ==
  ASSUME missed' \subseteq known'
  PROVE  /\ AlertStatus' = [d \in DeviceIds |-> AlertStatus'[d]]
         /\ \A d \in DeviceIds :
               /\ d \notin known' => AlertStatus'[d] = "new"
               /\ d \in missed' => AlertStatus'[d] = "lost"
               /\ d \in known' \ missed' /\ alerts'[d] = 0 => AlertStatus'[d] = "pending"
               /\ d \in known' \ missed' /\ alerts'[d] = 1 => AlertStatus'[d] = "delivered"
<1>1. AlertStatus' = [d \in DeviceIds |-> AlertStatus'[d]]
  BY DEF AlertStatus
<1>. SUFFICES ASSUME NEW d \in DeviceIds
              PROVE  /\ d \notin known' => AlertStatus'[d] = "new"
                     /\ d \in missed' => AlertStatus'[d] = "lost"
                     /\ d \in known' \ missed' /\ alerts'[d] = 0 => AlertStatus'[d] = "pending"
                     /\ d \in known' \ missed' /\ alerts'[d] = 1 => AlertStatus'[d] = "delivered"
  BY <1>1
<1>2. d \notin known' => AlertStatus'[d] = "new"
  BY DEF AlertStatus
<1>3. d \in missed' => AlertStatus'[d] = "lost"
  BY DEF AlertStatus
<1>4. d \in known' \ missed' /\ alerts'[d] = 0 => AlertStatus'[d] = "pending"
  BY DEF AlertStatus
<1>5. d \in known' \ missed' /\ alerts'[d] = 1 => AlertStatus'[d] = "delivered"
  BY DEF AlertStatus
<1>. QED BY <1>2, <1>3, <1>4, <1>5

\* What is the same of a device leaves its status the same.
LEMMA StatusKept ==
  ASSUME NEW d \in DeviceIds, d \in known <=> d \in known', d \in missed <=> d \in missed',
         alerts[d] = alerts'[d]
  PROVE  AlertStatus'[d] = AlertStatus[d]
BY DEF AlertStatus

LEMMA OneMoves ==
  ASSUME NEW d \in DeviceIds, NEW v, AlertStatus'[d] = v,
         \A e \in DeviceIds \ {d} : AlertStatus'[e] = AlertStatus[e]
  PROVE  AlertStatus' = [AlertStatus EXCEPT ![d] = v]
<1>1. /\ AlertStatus = [e \in DeviceIds |-> AlertStatus[e]]
      /\ AlertStatus' = [e \in DeviceIds |-> AlertStatus'[e]]
  BY DEF AlertStatus
<1>. QED BY <1>1

\* The jobs' statements and mails move one device at most.
LEMMA WorkAlerts ==
  ASSUME SignInInv, NEW j \in Jobs, Work(j) \/ WorkFails(j)
  PROVE  \/ \E d \in DeviceIds : A!Notice(d) \/ A!Deliver(d) \/ A!Lose({d})
         \/ AlertStatus' = AlertStatus
<1>. DEFINE d == job[j].device
<1>1. /\ missed \subseteq known /\ known \subseteq DeviceIds
      /\ alerts \in [DeviceIds -> 0 .. 1]
      /\ job[j].pc # "idle" => d \in DeviceIds
      /\ job[j].pc = "mail" => d \in known /\ alerts[d] = 0 /\ d \notin missed
      /\ \A e \in DeviceIds : e \notin known => alerts[e] = 0
  BY DEF SignInInv, Inv, Types, JobInv, DeviceInv
<1>2. CASE D!InsertIsNew(j)
  <2>1. /\ d \in DeviceIds /\ d \notin known /\ known' = known \cup {d}
        /\ alerts[d] = 0 /\ UNCHANGED <<alerts, missed>>
    BY <1>1, <1>2 DEF D!InsertIsNew
  <2>2. AlertStatus[d] = "new" /\ AlertStatus'[d] = "pending"
    BY <1>1, <2>1, StatusValues, StatusValuesNext
  <2>3. \A e \in DeviceIds \ {d} : AlertStatus'[e] = AlertStatus[e]
    BY <2>1, StatusKept
  <2>4. AlertStatus' = [AlertStatus EXCEPT ![d] = "pending"]
    BY <2>1, <2>2, <2>3, OneMoves
  <2>. QED BY <2>1, <2>2, <2>4 DEF A!Notice
<1>3. CASE D!SendEmail(j)
  <2>1. /\ d \in DeviceIds /\ d \in known /\ alerts[d] = 0 /\ d \notin missed
        /\ alerts' = [alerts EXCEPT ![d] = 1] /\ UNCHANGED <<known, missed>>
    <3>1. /\ d \in DeviceIds /\ d \in known /\ alerts[d] = 0 /\ d \notin missed
          /\ alerts' = [alerts EXCEPT ![d] = alerts[d] + 1] /\ UNCHANGED <<known, missed>>
      BY <1>1, <1>3 DEF D!SendEmail, D!rows
    <3>. QED BY <3>1
  <2>2. alerts'[d] = 1 /\ \A e \in DeviceIds \ {d} : alerts'[e] = alerts[e]
    BY <1>1, <2>1
  <2>3. AlertStatus[d] = "pending" /\ AlertStatus'[d] = "delivered"
    BY <1>1, <2>1, <2>2, StatusValues, StatusValuesNext
  <2>4. \A e \in DeviceIds \ {d} : AlertStatus'[e] = AlertStatus[e]
    BY <2>1, <2>2, StatusKept
  <2>5. AlertStatus' = [AlertStatus EXCEPT ![d] = "delivered"]
    BY <2>1, <2>3, <2>4, OneMoves
  <2>. QED BY <2>1, <2>3, <2>5 DEF A!Deliver
<1>4. CASE D!EmailFails(j)
  <2>1. /\ d \in DeviceIds /\ d \in known /\ alerts[d] = 0 /\ d \notin missed
        /\ missed' = missed \cup {d} /\ UNCHANGED <<known, alerts>>
    BY <1>1, <1>4 DEF D!EmailFails, D!rows
  <2>2. AlertStatus[d] = "pending" /\ AlertStatus'[d] = "lost"
    BY <1>1, <2>1, StatusValues, StatusValuesNext
  <2>3. \A e \in DeviceIds \ {d} : AlertStatus'[e] = AlertStatus[e]
    BY <2>1, StatusKept
  <2>4. AlertStatus' = [e \in DeviceIds |-> IF e \in {d} THEN "lost" ELSE AlertStatus[e]]
    BY <1>1, <2>1, <2>2, <2>3, StatusValuesNext
  <2>. QED BY <2>1, <2>2, <2>4 DEF A!Lose
<1>5. CASE UNCHANGED <<known, alerts, missed>>
  BY <1>5 DEF AlertStatus
<1>. QED
  BY <1>2, <1>3, <1>4, <1>5
     DEF Work, WorkFails, D!CheckAndNotify, D!InsertIsKnown, D!UpsertDevice, D!Fail, D!rows

\* A restart loses the mails that were on their way, all at once.
LEMMA RestartAlerts ==
  ASSUME SignInInv, D!Restart
  PROVE  \E Dying \in SUBSET DeviceIds : A!Lose(Dying)
<1>. DEFINE Dying == {job[j].device : j \in {i \in Jobs : job[i].pc = "mail"}}
<1>1. /\ \A d \in Dying : d \in DeviceIds /\ d \in known /\ alerts[d] = 0 /\ d \notin missed
      /\ missed \subseteq known
  BY DEF SignInInv, Inv, Types, JobInv
<1>2. missed' = missed \cup Dying /\ UNCHANGED <<known, alerts>>
  BY DEF D!Restart, D!rows
<1>. HIDE DEF Dying
<1>3. \A d \in Dying : AlertStatus[d] = "pending" /\ AlertStatus'[d] = "lost"
  BY <1>1, <1>2, StatusValues, StatusValuesNext
<1>4. \A d \in DeviceIds \ Dying : AlertStatus'[d] = AlertStatus[d]
  BY <1>2, StatusKept
<1>5. AlertStatus' = [d \in DeviceIds |-> IF d \in Dying THEN "lost" ELSE AlertStatus[d]]
  BY <1>1, <1>2, <1>3, <1>4, StatusValuesNext
<1>6. A!Lose(Dying)
  BY <1>3, <1>5, Zenon DEF A!Lose
<1>. QED BY <1>1, <1>6

\* Overlapping logins, failing statements and mails, and restarts: for the
\* user, each device is announced once or its announcement is lost for good.
THEOREM SignInImplementsDeviceAlerts == SignInSpec => ImplementsDeviceAlerts
<1>1. SignInInit => A!Init
  BY StatusValues DEF SignInInit, D!Init, A!Init
<1>2. SignInInv /\ [SignInNext]_all => [A!Next]_AlertStatus
  <2>. SUFFICES ASSUME SignInInv, [SignInNext]_all PROVE A!Next \/ UNCHANGED AlertStatus
    OBVIOUS
  <2>1. UNCHANGED <<known, alerts, missed>> => UNCHANGED AlertStatus
    BY DEF AlertStatus
  <2>2. ASSUME NEW r \in Reqs,
               \/ \E d \in DeviceIds \cup {NoDevice} : Arrives(r, d)
               \/ Advance(r) \/ LoginFails(r)
        PROVE  UNCHANGED <<known, alerts, missed>>
    BY <2>2 DEF Arrives, Advance, Check, Deny, DenyUnrecorded, Accept, AcceptUnrecorded,
       LoginFails, Notify, D!Start, D!Skip, D!rows, D!vars, devices
  <2>3. ASSUME NEW j \in Jobs, Work(j) \/ WorkFails(j)
        PROVE  A!Next \/ UNCHANGED AlertStatus
    BY <2>3, WorkAlerts DEF A!Next
  <2>4. CASE ServiceRestarts
    <3>1. CASE D!Restart
      BY <3>1, RestartAlerts DEF A!Next
    <3>. QED BY <2>1, <2>4, <3>1 DEF ServiceRestarts, devices
  <2>5. CASE TimePasses \/ EmailVerified \/ UNCHANGED all
    <3>1. UNCHANGED <<known, alerts, missed>>
      BY <2>5 DEF TimePasses, EmailVerified, D!Tick, all, devices
    <3>. QED BY <2>1, <3>1
  <2>. QED BY <2>1, <2>2, <2>3, <2>4, <2>5 DEF SignInNext
<1>. QED
  BY <1>1, <1>2, SignInInvariant, PTL DEF SignInSpec, ImplementsDeviceAlerts, A!Spec
=============================================================================
