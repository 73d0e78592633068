# Verification of tracker-services

TLA+ models of the expense tracker's back end, the TLC runs that check them on
small instances, and TLAPS proofs that carry the safety properties to every
instance. Paths below are relative to the repository.

## The system

A NestJS API gateway (`apps/api-gateway`) answers HTTP and passes messages over
TCP to three services. Of these, `apps/auth-service` has code;
`apps/users-service` and `apps/expenses-service` are empty modules. All state is
in PostgreSQL (`packages/database`) and in the browser's cookie; no service keeps
any in memory. `packages/shared` holds guards, filters, the mailer and message
patterns.

| Component | State | Operations | What is hard |
|---|---|---|---|
| sessions (auth-service) | `RefreshToken` rows | end of `login`, `refreshTokens`, `logout`, `logoutAll` | each handler is up to five autocommitted statements; other handlers run between any two; no transaction |
| login lockout (auth-service) | `LoginAttempt` rows | `checkLockout`, `recordAttempt` | the check is far from the record it guards; sliding windows; doubling cooldown |
| accounts (auth-service) | `User` rows, mailboxes | `register`, `verifyEmail` | look-up, breach API, insert, mail: each can fail after the one before |
| known devices (auth-service) | `KnownDevice` rows, mails | `checkAndNotify` | started by `login` and never waited for; one attempt to mail |
| auth routes (api-gateway) | the `refreshToken` cookie | login, refresh, logout, logout-all, register, verify-email | five-second timeout while the service carries on; responses of several tabs |
| seed script (database) | `User`, `TransactionCategory`, `Transaction` rows | user, categories, batches | partial runs, re-runs, overlapping runs |
| users and expenses routes (api-gateway) | access tokens at the clients | guards, pipes, one message | the guards believe a role that was copied at sign-in; nobody answers the message yet |
| configuration, DTOs, client, enums | none after the start | | |

How they interact: the gateway sends one message per request through
`sendWithTimeout` and either gets a value, an error or nothing in time; the service
does not learn that nobody waits any more. `login` goes through lockout, then starts
the device job without waiting for it, then issues a session. Lockout,
accounts and sessions share only the `User` row; `deletedAt` is read by all and set
by no code here, so each model lets the outside set it.

What makes them correct, in a sentence each: sessions – a refresh token is used up
by one use and a session that was closed stays closed; lockout – a bounded number
of tries within the cooldown of every tier, and a success that resets it; accounts – one account per
address, a mail means a working token, and what a browser is told is true; devices –
one alert per new device, and only accepted logins make a device known;
gateway – the cookie and the table stay in step; guarded routes – a role that was taken
away stops counting in bounded time; seeding – re-runs add no category
twice and file every entry rightly.

## Modules

| Module | Models | Steps and state |
|---|---|---|
| `Sessions` | sessions | `stored`, `revoked`, `expiresAt`, `replacedBy` are the table; `req[r]` is a handler with the locals it keeps across an await. `FindUsable`, `FindOwner`, `RevokePresented`, `GenerateTokens`, `StoreRefreshToken` (or `StoreCollides`), `MarkOldReplaced`, `Reply` are `refreshTokens` in the order of its awaits; `Login` enters at the signing. `Logout` and `LogoutAll` are one UPDATE. `Fail` and `Restart` may come between any two steps. |
| `SessionLedger` | what sessions promise | a token is unissued, live, dead, in this order once; successors of dead tokens; closings of one user's tokens |
| `Gateway` | login, refresh and logout routes over `Sessions` | `cookie`; `call[r]` is an open HTTP request and what became of its message. `Post...`, `Serve...`, `Run`, `Return`, `Respond`, `Timeout`, `AnswerLost`. Each `Serve` and `Run` step is a step of `Sessions`. |
| `Accounts` | `register`, `verifyEmail` | the `User` columns, `mailed` for the mailboxes; `req[r]` is a handler between its awaits (`FindByEmail`, `NotBreached`, `Create` or `CreateCollides`, `SendVerificationEmail`, `ReplyCreated`; `FindByToken`, `MarkEmailVerified`) |
| `Registration` | register and verify-email routes over `Accounts` | `call[r]` as in `Gateway`. The breach check may outlast the gateway's timeout, so a handler often finishes for nobody, beside the second try of the same browser |
| `Lockout` | login up to the recorded attempt, for one account | `failures` is `attempted_at` of the failed rows in the order of their inserts, `successes` that of the others; `req[r]` holds the lower bound and cooldown of the query to come |
| `AccountLedger` | what registration promises of an address | an account is free, stored, mailed, verified, in this order once; its address is its own for good |
| `Devices` | the statements of `checkAndNotify` for one user; `SignIn` instantiates it | `known`, `firstSeen`, `lastSeen`, `alerts`; `job[j]` is a call nobody waits for |
| `DeviceAlerts` | what a user is promised about new devices | a device is new, its mail pending, then delivered or lost |
| `SignIn` | login up to the tokens: extends `Lockout`, instantiates `Devices` | `from` is where a login came from, `signedFrom` the device columns of `LoginAttempt`. `Accept` records and starts a job in one turn of the event loop; `DenyUnrecorded`, `AcceptUnrecorded` are the records that throw and are only logged |
| `Access` | guards and guarded routes | `role` is the column; `auth[c]` is the open login or refresh of a client with the role it read (`ReadUser`) and then signed (`GenerateTokens`); `access[c]` is the token it uses, `http[c]` its call (`Unauthorized`, `Forbidden`, `Pass`, `BadRequest`, `ServiceError`). `SetRole` and `Delete` come from outside |
| `Seeding` | the seed script | the two tables as sequences, `run[p]` with its two Maps, the item between query and insert, and the place in the file |
| `...Proofs` | proofs about the module of that name | |
| `ArithmeticProofs` | lemmas on induction, doubling, quotients and products | nothing of the code; `LockoutProofs` and `SignInProofs` extend it |
| `MC...` | instances for TLC | symmetry sets and the seed file |

`PROJECT.json` ("map") gives the lines of every definition. Operators whose name
begins with `Mut` are altered copies of the definition that follows them; they are
not used by any specification and serve to show that each property can fail.

History variables (`parent`, `line`, `contended`, `overtaken`, `fate` in `Sessions`,
`lost` in `Gateway`, `last` in `Access`, the field `began` of the requests of `Lockout`,
`missed` in `Devices`, `denied`, `lostFailures`, `lostFrom` in `SignIn`, `overlapped` in
`Seeding`) record what a property speaks of. No guard reads them, but for the bound
`MaxLost` on the last two of `SignIn`.

### Abstractions

- A refresh token is a JWT over the user's id, email, role and the second of issue;
  as no code changes email or role, it is the record `[user, iat]`. So two signings
  for one user in one second are the *same* token, as in the code, and meet the
  UNIQUE index.
- One SQL statement is one atomic step (autocommit, one row or one UPDATE). Every
  `await` is a point where others run.
- Clocks of service and database agree and do not go back. In `Sessions` a tick is a
  second, so within the second of expiry either answer occurs; in `Lockout` it is the
  resolution of `attemptedAt`.
- Nest and rxjs are modelled from their use: a handler that throws gives an error
  reply, one that returns `undefined` gives a reply without a value, on which
  `lastValueFrom` rejects.
- The access token's lifetime and the cookie's `maxAge` are left out of `Gateway`.
  The code fixes `maxAge` at seven days whatever lifetime of refresh tokens is
  configured. `SignedIn` asks that some login has reached a browser.
- `Registration` has the statuses of the routes as the code gives them: a second
  registration of an address is a 409 (the documentation of the route says 400), and
  the loser of a race for it gets a 500, as the filter that turns errors of the database
  into 400 is bound in the gateway and not in the service.
- `SignIn` bounds the jobs at work by letting a login arrive only when a slot is left for
  its job (`Arrives`), and the records that throw by `MaxLost`.
- `Access` knows a route by the message it sends and its call by the roles asked for. Any
  sign-in may succeed and any call may be refused by the pipes: which ones do is the
  business of `Sessions`, `Lockout` and the DTOs. The public routes and logout are
  `Gateway`'s. The gateway's timers fire on time; handlers of the service may take for ever.
- Bcrypt and the breach API are steps with any outcome; that the same password gives the
  same outcome is of no concern to the properties.
- A category's type follows from its name in the seed file, and each subcategory
  name occurs under one category (`SeedingAssumption`). Both hold of the whole data
  file: of its 1880 entries, with 21 categories and 34 subcategories, no subcategory is
  under two categories and no category has two types.

## Runs

| Run | Bounds | Properties |
|---|---|---|
| `sessions` | 1 user, 2 requests, 3 seconds, lifetime 1 | `TypeOK`, `RotatedTokenIsRevoked`, `ReplacementChain`, `SingleSuccessor`, `EndedSessionsStayEnded` |
| `sessions_live` | 1 user, 2 requests, 2 seconds, fair | `RequestsFinish`, `ImplementsLedger` |
| `gateway` | 1 user, 2 open requests, 2 seconds | `GatewayTypeOK`, `CookieUsable` |
| `gateway_logout` | 1 request | `LogoutSucceeds` is violated |
| `registration` | 2 addresses, 3 tokens, 2 requests, 3 ticks | `RegistrationTypeOK`, `OneRowPerEmail`, `MailedTokensWork`, `VerificationIsFinal`, `AnswersTrue`, `ImplementsAccountLedger` |
| `register_throttle` | 1 address, 6 requests | `RegistrationsThrottled` is violated |
| `accounts_retry` | 1 address, 1 request | `RefusedMeansMailed` is violated |
| `lockout` | 2 logins, limit 2, cooldown 2 capped at 3, 5 ticks, 5 rows | `TypeOK`, `AttemptsBounded`, `SuccessResets` |
| `lockout_spec` | 1 login | `LockedUntilCooldown` is violated |
| `signin` | 2 logins, 2 jobs, 1 device, 2 ticks, limit 1, 1 row, 1 lost record, fair | `SignInTypeOK`, `AtMostOneAlert`, `KnownMeansAlerted`, `SeenInOrder`, `KnownDevicesSignedIn`, `DenialsBounded`, `AlertArrives`, `LoginsFinish`, `ImplementsDeviceAlerts` |
| `access` | 1 user, 1 client, token lifetime 2, timeout 1, clock from 3 to 7 | `AccessTypeOK`, `VerdictsInForce`, `ValidOnArrival` |
| `seeding` | 3 entries, 2 overlapping runs, 3 runs in all, batches of 2 | `TypeOK`, `FiledRight`, `NoDuplicates`, `PrefixesOnly` |

Why the bounds are enough to see the interesting cases. Three seconds give `sessions`
a login, a refresh and a refresh of its successor, two tokens that expire and two
signings that collide; two requests give every race of two handlers. Steps that touch a
second user's rows are left to the theorem `Refinement`, which has any number of users. `gateway` has two seconds and so one rotation at most; the
theorem `CookieCorrect` covers every number. `registration` has a token more than
addresses, so an address can be tried again after a failure or a deletion, and two
slots, so the second try meets the first handler at every await. `lockout` reaches the
second tier and its cap, and five rows let both logins be past the check when the limit
falls; a login can succeed between the queries of the other. `signin` has both logins from the
one new device and both jobs at work beside them; with a limit of one the next login can be
locked, and `MaxRows` of one lets in two rows, those of two logins past the check. Its device properties are about one device at a time, but for a restart that loses
several mails at once, which is left to the theorem `SignInImplementsDeviceAlerts`.
Clients share nothing but the users' roles, so `access` has one; its four ticks outlast the window of three in
which a lost role may count, and a token signed at the last moment. `seeding` has a name
that is both a category and a subcategory, and a last batch that is not full. `MaxTime`,
`MaxRows`, `MaxStarts` and `MaxLost` bound clock, rows, starts and lost records.

Deadlock is checked in all runs but `lockout`, `lockout_spec`, `signin` and `seeding`:
there the model stops when the clock is at `MaxTime` with `MaxRows` rows, or after
`MaxStarts` runs.

Fairness. `Sessions` assumes weak fairness of each handler's next statement: the driver
settles every promise and the event loop resumes the handler. `SignIn` has it in two parts:
`LoginsGoOn` (driver and bcrypt) and `JobsGoOn` (driver and mailer). `FairSignInSpec` has only the
first: the mailer may hang for good. `LoginsFinish` holds all the same, and so says that no login
waits for its job; `AlertArrives` has `JobsGoOn` as its premise. Nothing is
assumed about arrivals, failures, restarts or the clock. `StoreCollides`, `DenyUnrecorded` and `AcceptUnrecorded` are part
of what is fair, as a refused insert is an answer too.

### What the violated properties show

- `LogoutSucceeds`: a logout with a cookie is answered 500. The token is revoked, but
  the service's handler returns nothing, the gateway's `lastValueFrom` finds an empty
  stream, and `clearCookie` is not reached.
- `LockedUntilCooldown`: the specification of brute-force protection counts
  consecutive failures; the code asks in addition that as many lie within the last
  cooldown. Slow series of failures do not lock.
- `RegistrationsThrottled`: the routes declare limits, but nothing enforces them, so all
  six registrations of one period are passed to the service.
- `RefusedMeansMailed`: if the verification mail fails, the address stays taken and no
  operation sends the token again.

Two more facts hold by design and are stated as the conditions of properties that
hold. A token can get two successors (`SingleSuccessor` names when: two refreshes held
it at once). A session can outlive its logout in two ways (`EndedSessionsStayEnded`): a refresh
in flight stores past it (`fate = "escaped"`), or the logout comes with a token that was
exchanged before, as when the answer to the refresh was late or lost; `revokeByToken` then ends
the old row, and the successor that is stored already stays live (`fate = "spared"`). A refresh within the second of its token's issue fails with the
token already revoked; `CookieUsable` counts it in `lost`.

## Proofs

Each theorem holds for all values of the constants that satisfy the named assumptions of
the module: users, requests, devices, runs and rows in any (finite) number, any clock
bound, any lifetime, limit or file.

`SessionsProofs`:

1. `Base` = `TypeOK`, `RequestsOK` and `Aged`. None of the properties is inductive
   without `RequestsOK`: it says for each `pc` what the request's reading still tells
   about the rows (a refresh past `revoke` has a revoked token; the string it signed
   is of its user and no older than the token it presents).
2. `Accumulation`: rows and revocations only grow; the steps below use it.
3. `Lineage`: a parent is revoked, older than its child and of the same user. Strictly
   older, because a collision in the same second fails the insert. `Rotation` follows.
4. `Pointers` adds that a pointer leads to a child whose parent is the pointing row, so
   pointers are injective: `Chains`.
5. `Exclusive` relates the requests that hold an unrevoked reading of a token to
   `contended`: `NoForks`. `Overtaking` relates them to `overtaken`: who still holds a token
   that was ended is known to be overtaken, so what it stores counts as escaped. `Endings`
   follows all descendants (`line`): whoever has an ended ancestor is ended, escaped or
   spared, and the ended are not live. Together: `EndedStaysEnded`.
6. `Refinement`: each statement maps to `Begin`, `Succeed`, `Close` or a stutter of
   `SessionLedger`.

`GatewayProofs`:

1. `GatewayInv` = `Base`, `GatewayTypeOK` and `KnownTokens` (what a request carries came
   to the browser in a reply). It makes every step of the gateway a step of `Sessions` or
   a stutter: `GatewayImplementsSessions`, and with it all theorems above (`GatewayEndedStaysEnded`,
   `GatewayKeepsSessions`).
2. `CookieCorrect`: by three invariants on top of it. `FreshOK`: a stored token that no reply
   has carried is known to one handler, so nobody can present it and no refresh can revoke
   it. `CarriedOK`: the same for a token in a response under way. `CookieOK`: a token in the
   cookie that is neither live nor ended belongs to a refresh past its revocation, until its
   answer sets the cookie or is lost.

`AccessProofs`, from `TimesAssumption` (tokens outlive the timeout, as 15 minutes do 5
seconds) and `NoAccessAssumption`: `Inv` says how old a role may be at each stage. A running
handler's role was held since its request; while the gateway waits the request is no older
than the timeout, so a delivered token expires within timeout and lifetime of when its user
had the role. The parts about waiting are what makes it inductive: without them a handler
could sign an old role at any time and deliver it. `VerdictsCorrect` and `ArrivalCorrect`
follow.

`RegistrationProofs`: a token that a handler has drawn is its own until the insert (`Owned`,
as `randomUUID` draws none twice); tables only grow in the respects that answers and later
statements rely on (`Grows`); so what a handler read (`RequestInv`) and what an answer on
its way claims (`Kept`) stays true. Of it follow `OneAccount`, `MailsKeepTheirPromise`,
`Verified`, `TruthfulAnswers` and `RegistrationImplementsAccounts`: timeouts and lost answers
add nothing to the behaviours of `Accounts`. `RegistrationImplementsLedger`: each statement is
`Store`, `Mail` or `Verify` of one account or no step; `Inv` is needed to know that the inserted
token was free, that a mail goes to a row not mailed yet, and that a verification is of a mailed
one.

`LockoutProofs`: `AttemptsBounded` speaks of every tier: the cooldown that the next lockout
brings is a time in which no more failures are recorded than the limit and one for each other
login under way. It is not inductive, because of the logins between check and record.
`LockoutInv` strengthens it: in a window without a success, the failures and the logins that
have passed the check and may still record in it are together within the bound from the moment
the window is full; the login that filled it is back at the start, so at most all others are
left. `FullWindowBlocks` shows why nobody joins them: whatever a login had read before, the
count it takes now has at least as many failures, so its cooldown is at least as long
(`CooldownMonotone`), its last query covers the full window, and it is refused. That cooldowns
grow rests on the powers of two, a recursive function: `ArithmeticProofs` shows that such a
function exists, is positive and grows, by induction over sets of numbers with a least element
(`LeastNatural`), as the library's induction theorems take an operator.

`SuccessResets` speaks of one refused login and needs `Resets`: at each stage the login's
reading of the last success is no older than `began`, and the failures it has counted, the tier
and the cooldown it took from them are covered by the failures since `began` that are in the
table now; rows are only added, so others cannot spoil that. As both bounds of the last query are
moments in the past, the later of the two decides (`EarlierSince`).

`SignInProofs`: the insert decides which job owns the mail of a device; as long as that job is at
its mail, nobody has told the user and nobody else will (`OneMail`, `JobInv`): `OneAlert`,
`KnownAlerted`. `SeenOrdered` holds as a job that updates took its date when the row was there.
`Sources` relates jobs and rows to the accepted logins: `OnlySignedIn`; `Accounted` counts the
wrong passwords: each answer has its row or is one of the lost records. `SignInIsLockout` says that
every behaviour of the whole login is one of `Lockout`, so `LockoutProofs` holds of it:
`DenialsStayBounded` joins `GuessesBounded`, which bounds the rows of a cooldown, with
`Accounted`, which bounds the answers by the rows and the lost ones. `SignInTypeCorrect` puts the
types of both parts together. `SignInImplementsDeviceAlerts`: of `Inv`, the statement of each job is `Notice`, `Deliver` or `Lose` of its device or no step at all, and a restart is
`Lose` of all devices whose mail is under way.

`SeedingProofs`: `MapsRight` (the Maps of a run lead to the rows of the file's names), `Complete`
(a run writes transactions when no name is missing) and `Holds` (the item between query and
insert is still the next one) make `FilesRight` inductive, also for runs that overlap or fail.
`CreatesOnce` adds `Alone`: without an overlap what a run found missing is missing when it
inserts. `LeavesPrefixes` counts: an entry is behind an earlier one by the runs whose place in
the file is between the two (`FallingCounts`).

Only model-checked: liveness (`RequestsFinish`, `AlertArrives`, `LoginsFinish`), as the provers have
no fairness. Every other property of a passing run is the statement of a theorem.

## Not modelled, and the plan

Not modelled:

- `users-service`, `expenses-service`: empty modules. `Access` has what the gateway answers then.
- Configuration (read once; its values are CONSTANTS), DTO validation and password rules
  (stateless, in reach of unit tests), formatting, the pool and generated migrations, wording of
  mails. A registration without a password ends in a 500 instead of a 400, as the validator that
  compares it with the address throws; as such a body sends no message, no module has it.
- The pool's end in `onModuleDestroy`: the applications enable no shutdown hooks, so it is never
  called on a signal; every module lets the process stop at any await instead.
- Hard deletion of users: no code does it.

What could come next: `SignIn` and `Sessions` joined, so that login is one operation with the
tokens at its end; it would show that no session starts without an accepted login, which now
follows from reading `login` from top to bottom. And `users-service` and `expenses-service` as
soon as they have handlers: the properties of `Access` then need the ownership of rows.
