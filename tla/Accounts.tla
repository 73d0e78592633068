------------------------------ MODULE Accounts ------------------------------
(***************************************************************************)
(* Registration and email verification: the users table, the handlers      *)
(* register and verifyEmail, and the two services they call, the breach    *)
(* check and the mail server.                                              *)
(*                                                                         *)
(* A registration looks the address up, asks the breach API, hashes,       *)
(* inserts and mails, each of them an await.  Nothing joins these steps    *)
(* in a transaction: what one has done stays when a later one fails.       *)
(*                                                                         *)
(* The verification token is a random UUID drawn for one row, so it also   *)
(* names the row.                                                          *)
(***************************************************************************)
EXTENDS Integers, FiniteSets

CONSTANTS
    Emails,
    Tokens,     \* UUIDs randomUUID may return
    Reqs,       \* handlers in flight
    MaxTime,    \* bound of the clock
    TokenTTL,   \* EMAIL_VERIFICATION_TOKEN_EXPIRY_HOURS, in ticks
    NoEmail, NoToken

ASSUME AccountsAssumption ==
    /\ MaxTime \in Nat /\ TokenTTL \in Nat
    /\ NoEmail \notin Emails /\ NoToken \notin Tokens

VARIABLES
    clock,
    email,      \* users.email of the row, NoEmail where there is no row
    pending,    \* rows whose email_verification_token is still set
    expiresAt,  \* users.email_verification_token_expires_at
    verified,   \* rows with email_verified
    deleted,    \* rows with deleted_at set
    mailed,     \* tokens that a mailbox received
    req         \* the handler each slot runs

users == <<email, pending, expiresAt, verified, deleted>>
vars  == <<clock, users, mailed, req>>

Idle == [pc |-> "idle", email |-> NoEmail, token |-> NoToken, expires |-> 0]

Rows  == {k \in Tokens : email[k] # NoEmail}
Found(e) == {k \in Rows \ deleted : email[k] = e}

-----------------------------------------------------------------------------
Init ==
    /\ clock = 0
    /\ email = [k \in Tokens |-> NoEmail]
    /\ expiresAt = [k \in Tokens |-> 0]
    /\ pending = {} /\ verified = {} /\ deleted = {}
    /\ mailed = {}
    /\ req = [r \in Reqs |-> Idle]

Finish(r) == req' = [req EXCEPT ![r] = Idle]

(* register                                                                *)

FindByEmail(r, e) ==
    /\ req[r].pc = "idle"
    /\ Found(e) = {}
    /\ req' = [req EXCEPT ![r] = [Idle EXCEPT !.pc = "hibp", !.email = e]]
    /\ UNCHANGED <<clock, users, mailed>>

\* 409, and nothing changes.
AlreadyExists(r, e) ==
    /\ req[r].pc = "idle"
    /\ Found(e) # {}
    /\ UNCHANGED vars

Breached(r) ==
    /\ req[r].pc = "hibp"
    /\ Finish(r)
    /\ UNCHANGED <<clock, users, mailed>>

\* Mutant: the mail goes out before the insert.
MutMailFirst(r, k) ==
    /\ req[r].pc = "hibp"
    /\ k \notin Rows /\ \A q \in Reqs : req[q].token # k
    /\ req' = [req EXCEPT ![r].pc = "create", ![r].token = k,
                          ![r].expires = clock + TokenTTL]
    /\ mailed' = mailed \cup {k}
    /\ UNCHANGED <<clock, users>>

\* The password is in no breach, or the API gave no answer in time.
NotBreached(r, k) ==
    /\ req[r].pc = "hibp"
    /\ k \notin Rows /\ \A q \in Reqs : req[q].token # k
    /\ req' = [req EXCEPT ![r].pc = "create", ![r].token = k,
                          ![r].expires = clock + TokenTTL]
    /\ UNCHANGED <<clock, users, mailed>>

\* Mutant: a partial index, WHERE deleted_at IS NULL.
MutPartialIndex(e) == Found(e) = {}

\* The index on email does not leave out soft-deleted rows.
EmailFree(e) == \A k \in Rows : email[k] # e

\* Mutant: register answers without waiting for the mail.
MutUnmailed(r) ==
    LET k == req[r].token IN
    /\ req[r].pc = "create"
    /\ EmailFree(req[r].email)
    /\ email' = [email EXCEPT ![k] = req[r].email]
    /\ expiresAt' = [expiresAt EXCEPT ![k] = req[r].expires]
    /\ pending' = pending \cup {k}
    /\ req' = [req EXCEPT ![r].pc = "reply"]
    /\ UNCHANGED <<clock, verified, deleted, mailed>>

Create(r) ==
    LET k == req[r].token IN
    /\ req[r].pc = "create"
    /\ EmailFree(req[r].email)
    /\ email' = [email EXCEPT ![k] = req[r].email]
    /\ expiresAt' = [expiresAt EXCEPT ![k] = req[r].expires]
    /\ pending' = pending \cup {k}
    /\ req' = [req EXCEPT ![r].pc = "email"]
    /\ UNCHANGED <<clock, verified, deleted, mailed>>

\* The address was taken since the lookup, or by a deleted account: 500.
CreateCollides(r) ==
    /\ req[r].pc = "create"
    /\ ~ EmailFree(req[r].email)
    /\ Finish(r)
    /\ UNCHANGED <<clock, users, mailed>>

SendVerificationEmail(r) ==
    /\ req[r].pc = "email"
    /\ mailed' = mailed \cup {req[r].token}
    /\ req' = [req EXCEPT ![r].pc = "reply"]
    /\ UNCHANGED <<clock, users>>

ReplyCreated(r) ==
    /\ req[r].pc = "reply"
    /\ Finish(r)
    /\ UNCHANGED <<clock, users, mailed>>

(* verifyEmail                                                             *)

FindByToken(r, k) ==
    /\ req[r].pc = "idle"
    /\ k \in pending \ deleted
    /\ expiresAt[k] >= clock
    /\ req' = [req EXCEPT ![r] = [Idle EXCEPT !.pc = "mark", !.token = k]]
    /\ UNCHANGED <<clock, users, mailed>>

\* Unknown, used or expired: 400, and nothing changes.
TokenRefused(r, k) ==
    /\ req[r].pc = "idle"
    /\ k \notin pending \ deleted \/ expiresAt[k] < clock
    /\ UNCHANGED vars

\* Mutant: the token stays set.
MutTokenKept(r) ==
    /\ req[r].pc = "mark"
    /\ verified' = verified \cup {req[r].token}
    /\ Finish(r)
    /\ UNCHANGED <<clock, email, pending, expiresAt, deleted, mailed>>

MarkEmailVerified(r) ==
    LET k == req[r].token IN
    /\ req[r].pc = "mark"
    /\ verified' = verified \cup {k}
    /\ pending' = pending \ {k}
    /\ Finish(r)
    /\ UNCHANGED <<clock, email, expiresAt, deleted, mailed>>

-----------------------------------------------------------------------------
\* Mutant: the row is taken back when its mail fails.
MutRollback(r) ==
    /\ req[r].pc = "email"
    /\ email' = [email EXCEPT ![req[r].token] = NoEmail]
    /\ pending' = pending \ {req[r].token}
    /\ Finish(r)
    /\ UNCHANGED <<clock, expiresAt, verified, deleted, mailed>>

\* A statement or the mail server throws: 500, the steps before it stay.
Fail(r) ==
    /\ req[r].pc # "idle"
    /\ Finish(r)
    /\ UNCHANGED <<clock, users, mailed>>

Restart ==
    /\ \E r \in Reqs : req[r].pc # "idle"
    /\ req' = [r \in Reqs |-> Idle]
    /\ UNCHANGED <<clock, users, mailed>>

\* No code here sets users.deleted_at; whoever does acts on the database.
SoftDelete(k) ==
    /\ k \in Rows \ deleted
    /\ deleted' = deleted \cup {k}
    /\ UNCHANGED <<clock, email, pending, expiresAt, verified, mailed, req>>

Tick ==
    /\ clock < MaxTime
    /\ clock' = clock + 1
    /\ UNCHANGED <<users, mailed, req>>

Register(r) ==
    \/ \E e \in Emails : FindByEmail(r, e) \/ AlreadyExists(r, e)
    \/ Breached(r)
    \/ \E k \in Tokens : NotBreached(r, k)
    \/ Create(r)
    \/ CreateCollides(r)
    \/ SendVerificationEmail(r)
    \/ ReplyCreated(r)

VerifyEmail(r) ==
    \/ \E k \in mailed : FindByToken(r, k) \/ TokenRefused(r, k)
    \/ MarkEmailVerified(r)

Next ==
    \/ \E r \in Reqs : Register(r) \/ VerifyEmail(r) \/ Fail(r)
    \/ \E k \in Tokens : SoftDelete(k)
    \/ Restart
    \/ Tick

Spec == Init /\ [][Next]_vars

-----------------------------------------------------------------------------
(* Properties.                                                             *)

TypeOK ==
    /\ clock \in 0 .. MaxTime
    /\ email \in [Tokens -> Emails \cup {NoEmail}]
    /\ expiresAt \in [Tokens -> 0 .. MaxTime + TokenTTL]
    /\ pending \subseteq Rows /\ verified \subseteq Rows /\ deleted \subseteq Rows
    /\ mailed \subseteq Tokens
    /\ \A r \in Reqs :
          /\ req[r].pc \in {"idle", "hibp", "create", "email", "reply", "mark"}
          /\ req[r].email \in Emails \cup {NoEmail}
          /\ req[r].token \in Tokens \cup {NoToken}

\* Two registrations that both found the address free make one account.
OneRowPerEmail ==
    \A k, l \in Rows : email[k] = email[l] => k = l

\* A token in a mailbox is that of a stored row, which waits for it or was
\* verified by it; the loser of a race mails nothing.  It works until it
\* expires or its account is soft-deleted: the row stays, the token does not.
MailedTokensWork ==
    \A k \in mailed :
        k \in Rows /\ (k \in pending \/ k \in verified)

\* An account is only ever verified by a token that its mailbox received,
\* and once verified it stays so and its token stays used.
VerificationIsFinal ==
    [][/\ verified \subseteq verified' /\ verified' \subseteq mailed'
       /\ pending' \cap verified' = {}]_vars

\* "Creates a new user account and sends verification email": an address
\* that register refuses as taken was sent its token, or is being sent it.
RefusedMeansMailed ==
    \A e \in Emails : \A k \in Found(e) :
        k \in mailed \/ \E r \in Reqs : req[r].pc = "email" /\ req[r].token = k
=============================================================================
