----------------------------- MODULE Registration -----------------------------
(***************************************************************************)
(* The routes register and verify-email of the API gateway in front of     *)
(* Accounts, and the browsers that call them.                              *)
(*                                                                         *)
(* A request becomes one message, sent by sendWithTimeout.  The breach     *)
(* check of a registration may take as long as the gateway waits, and the  *)
(* hash, the insert and the mail come after it; so a registration often    *)
(* finishes when its browser has long been told that it failed, and meets  *)
(* the browser's second try on its way.                                    *)
(*                                                                         *)
(* A slot is an HTTP request and the handler it started; the slot is free  *)
(* again when both have ended.                                             *)
(***************************************************************************)
EXTENDS Accounts

CONSTANTS
    ThrottleLimit,   \* requests that @Throttle allows on each of the routes,
    ThrottleTtl      \* and the period it counts them in, in ticks

ASSUME ThrottleAssumption == ThrottleLimit \in Nat /\ ThrottleTtl \in Nat

VARIABLES call   \* the request of each slot

\* waiting: the browser's request is open.  rpc: what became of the message.
Answers == {"created", "verified", "conflict", "refused", "failed"}

Call == [op : {"none", "register", "verify"}, waiting : BOOLEAN,
         rpc : {"none", "queued", "running"} \cup Answers,
         email : Emails \cup {NoEmail}, token : Tokens \cup {NoToken}]

NoCall == [op |-> "none", waiting |-> FALSE, rpc |-> "none",
           email |-> NoEmail, token |-> NoToken]

RegistrationInit == Init /\ call = [r \in Reqs |-> NoCall]

-----------------------------------------------------------------------------
(* The browser's requests; those with an invalid body send no message.     *)

Post(r, op, e, k) ==
    /\ call[r] = NoCall
    /\ call' = [call EXCEPT ![r] = [op |-> op, waiting |-> TRUE, rpc |-> "queued",
                                   email |-> e, token |-> k]]
    /\ UNCHANGED vars

PostRegister(r) == \E e \in Emails : Post(r, "register", e, NoToken)

\* With a token that came by mail.
PostVerifyEmail(r) == \E k \in mailed : Post(r, "verify", NoEmail, k)

-----------------------------------------------------------------------------
(* The service takes the message, whether or not the gateway still waits.  *)

Queued(r, op) == call[r].op = op /\ call[r].rpc = "queued"

Rpc(r, outcome) == call' = [call EXCEPT ![r].rpc = outcome]

ServeRegister(r) ==
    /\ Queued(r, "register")
    /\ \/ FindByEmail(r, call[r].email) /\ Rpc(r, "running")
       \/ AlreadyExists(r, call[r].email) /\ Rpc(r, "conflict")

ServeVerifyEmail(r) ==
    /\ Queued(r, "verify")
    /\ \/ FindByToken(r, call[r].token) /\ Rpc(r, "running")
       \/ TokenRefused(r, call[r].token) /\ Rpc(r, "refused")

\* The first statement throws, or the connection is refused.
ServeFails(r) ==
    /\ call[r].rpc = "queued"
    /\ Rpc(r, "failed")
    /\ UNCHANGED vars

\* A step of the running registration that does not end it.
Step(r) ==
    /\ \/ \E k \in Tokens : NotBreached(r, k)
       \/ Create(r)
       \/ SendVerificationEmail(r)
    /\ UNCHANGED call

\* How the handlers end.
Refuse(r) == Breached(r) /\ Rpc(r, "refused")

Collide(r) == CreateCollides(r) /\ Rpc(r, "failed")

Return(r) ==
    /\ ReplyCreated(r)
    /\ call' = [call EXCEPT ![r].rpc = "created", ![r].token = req[r].token]

ReturnVerified(r) == MarkEmailVerified(r) /\ Rpc(r, "verified")

ServiceFails(r) == Fail(r) /\ Rpc(r, "failed")

\* The connection closes with the process: what it was running has failed.
ServiceRestarts ==
    /\ Restart
    /\ call' = [r \in Reqs |-> IF call[r].rpc = "running"
                               THEN [call[r] EXCEPT !.rpc = "failed"] ELSE call[r]]

-----------------------------------------------------------------------------
(* The gateway answers the browser.                                        *)

\* An RpcException carries its status; any other error is a 500.
HttpStatus(c) ==
    CASE c.rpc = "created"  -> 201
      [] c.rpc = "verified" -> 200
      [] c.rpc = "conflict" -> 409
      [] c.rpc = "refused"  -> 400
      [] OTHER              -> 500

Free(r) == call' = [call EXCEPT ![r] = NoCall] /\ UNCHANGED vars

Respond(r) == call[r].waiting /\ call[r].rpc \in Answers /\ Free(r)

\* Mutant: the timeout is taken for the end of the handler.
MutForget(r) ==
    /\ call[r].waiting
    /\ call[r].rpc \in {"queued", "running"}
    /\ Free(r)

\* Five seconds: the browser gets a 500 and the message stays on its way.
Timeout(r) ==
    /\ call[r].waiting
    /\ call[r].rpc \in {"queued", "running"}
    /\ call' = [call EXCEPT ![r].waiting = FALSE]
    /\ UNCHANGED vars

\* The answer comes after the timeout, or does not reach the browser.
AnswerLost(r) == call[r].rpc \in Answers /\ Free(r)

-----------------------------------------------------------------------------
Browser(r) == PostRegister(r) \/ PostVerifyEmail(r)

Serve(r) == ServeRegister(r) \/ ServeVerifyEmail(r) \/ ServeFails(r)

Handle(r) == Step(r) \/ Refuse(r) \/ Collide(r) \/ Return(r) \/ ReturnVerified(r)

Answer(r) == Respond(r) \/ AnswerLost(r)

RegistrationNext ==
    \/ \E r \in Reqs :
          Browser(r) \/ Serve(r) \/ Handle(r) \/ ServiceFails(r) \/ Answer(r) \/ Timeout(r)
    \/ ServiceRestarts
    \/ (Tick \/ \E k \in Tokens : SoftDelete(k)) /\ UNCHANGED call

RegistrationSpec == RegistrationInit /\ [][RegistrationNext]_<<vars, call>>

-----------------------------------------------------------------------------
(* Properties.                                                             *)

\* The types, and what a slot's message and handler tell of each other.
RegistrationTypeOK ==
    /\ TypeOK
    /\ call \in [Reqs -> Call]
    /\ \A r \in Reqs :
          /\ call[r].rpc = "running" <=> req[r].pc # "idle"
          /\ call[r].rpc = "running" /\ call[r].op = "register" =>
                req[r].email = call[r].email
          /\ call[r].rpc = "running" /\ call[r].op = "verify" =>
                req[r].token = call[r].token

\* What the answer claims, about the tables at the moment it is given.
Truthful(c) ==
    CASE HttpStatus(c) = 201 ->
             c.token \in Rows \cap mailed /\ email[c.token] = c.email
      [] HttpStatus(c) = 200 -> c.token \in verified
      [] HttpStatus(c) = 409 -> \E k \in Rows : email[k] = c.email
      [] HttpStatus(c) = 400 /\ c.op = "verify" ->
             \/ c.token \in verified \cup deleted
             \/ expiresAt[c.token] < clock
      [] OTHER -> TRUE

\* What a browser is told is true when it is told, whatever ran since the
\* service found it out.  A token that came by mail is called invalid only if
\* it expired, or its account is verified (by an earlier try, perhaps, whose
\* answer was lost) or deleted.
AnswersTrue ==
    [][\A r \in Reqs : Respond(r) => Truthful(call[r])]_<<vars, call>>

\* How far each account has come.
Standing ==
    [k \in Tokens |->
        CASE k \notin Rows                        -> "free"
          [] k \in Rows \ mailed                  -> "stored"
          [] k \in (Rows \cap mailed) \ verified  -> "mailed"
          [] k \in Rows \cap mailed \cap verified -> "verified"]

Ledger == INSTANCE AccountLedger WITH standing <- Standing, owner <- email

\* An address once taken is never free again and never changes accounts, and
\* its account is verified in one order only, by whichever of the tries that
\* timeouts, errors and restarts leave behind.
ImplementsAccountLedger == Ledger!Spec

\* "429 Too many requests", at most ThrottleLimit registrations each
\* ThrottleTtl: the requests open before the first period ends were all sent in it.
RegistrationsThrottled ==
    clock < ThrottleTtl =>
        Cardinality({r \in Reqs : call[r].op = "register"}) <= ThrottleLimit
=============================================================================
