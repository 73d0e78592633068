------------------------------ MODULE Sessions ------------------------------
(***************************************************************************)
(* Refresh-token sessions of the auth service: the refresh_tokens table    *)
(* and the four message handlers that write it (the issuing tail of login, *)
(* refreshTokens, logout, logoutAll).                                      *)
(*                                                                         *)
(* Every repository call of the code is one autocommitted SQL statement    *)
(* and every `await` lets the other requests run, so a handler is a        *)
(* request that advances one statement at a time.  The Node process may    *)
(* restart and any statement may fail between two steps.                   *)
(*                                                                         *)
(* A refresh token is a JWT over {sub, email, role, iat, exp}.  Nothing in *)
(* the code changes a user's email or role, and iat is in whole seconds,   *)
(* so the string is identified by its user and its second of issue.  One   *)
(* tick of the clock is one second; ids and token strings are both unique  *)
(* in the table, so the token stands for its row id too.                   *)
(***************************************************************************)
EXTENDS Integers

CONSTANTS
    Users,      \* user ids
    Reqs,       \* request slots: the requests the service has in flight
    MaxTime,    \* bound of the clock
    TTL,        \* lifetime of a refresh token, in ticks
    NoToken,    \* "no token": NULL, or a string that is in no row
    NoUser

Time  == 0 .. MaxTime
Token == [user : Users, iat : Time]

ASSUME SessionsAssumption ==
    /\ MaxTime \in Nat
    /\ TTL \in Nat
    /\ NoToken \notin Token
    /\ NoUser \notin Users

VARIABLES
    clock,
    active,      \* users whose row has deleted_at NULL
    stored,      \* refresh_tokens: the rows
    revoked,     \* refresh_tokens.revoked_at is not NULL
    expiresAt,   \* refresh_tokens.expires_at
    replacedBy,  \* refresh_tokens.replaced_by_token_id
    req,         \* the handler each slot is running
    given        \* tokens that reached a client in a reply

\* History of the run; no action of the service reads it.
VARIABLES
    parent,      \* the token whose refresh issued this one
    line,        \* every token this one descends from
    contended,   \* tokens that two refreshes held unrevoked at once
    overtaken,   \* refreshes whose token was logged out under them
    fate         \* "ended" by a logout, or how the token came to outlive one

table == <<stored, revoked, expiresAt, replacedBy>>
hist  == <<parent, line, contended, overtaken, fate>>
Fates == {"open", "ended", "escaped", "spared"}
vars  == <<clock, active, table, req, given, hist>>

Ops   == {"none", "login", "refresh"}
Steps == {"idle", "owner", "revoke", "sign", "store", "mark", "reply"}

Request == [op : Ops, pc : Steps, user : Users \cup {NoUser},
            tok : Token \cup {NoToken}, new : Token \cup {NoToken}]

Idle == [op |-> "none", pc |-> "idle", user |-> NoUser,
         tok |-> NoToken, new |-> NoToken]

Live == stored \ revoked

-----------------------------------------------------------------------------
(* The repository: one SQL statement each.                                 *)

\* Mutant: the revocation is recorded whether or not there is such a row.
MutRevokeUnknown(t) == revoked' = revoked \cup {t}

\* revokeByToken: UPDATE ... WHERE token = t, whatever revoked_at holds.
RevokeByToken(t) == revoked' = revoked \cup ({t} \cap stored)

\* Mutant: AND expires_at > now() on top.
MutRevokeUnexpired(u) ==
    revoked' = revoked \cup {t \in Live : t.user = u /\ expiresAt[t] > clock}

\* revokeAllByUserId: UPDATE ... WHERE user_id = u AND revoked_at IS NULL.
RevokeAllByUserId(u) ==
    revoked' = revoked \cup {t \in Live : t.user = u}

\* Mutant: an upsert on token.
MutUpsert(t) ==
    /\ stored' = stored \cup {t}
    /\ expiresAt' = [expiresAt EXCEPT ![t] = clock + TTL]
    /\ UNCHANGED <<revoked, replacedBy>>

\* calculateRefreshTokenExpiry, some time after the signing.
Expiry(now) == now + TTL

\* create: INSERT, refused by the UNIQUE constraint on token.
Create(t) ==
    /\ t \notin stored
    /\ stored' = stored \cup {t}
    /\ \E now \in t.iat .. clock : expiresAt' = [expiresAt EXCEPT ![t] = Expiry(now)]
    /\ UNCHANGED <<revoked, replacedBy>>

\* markReplaced: UPDATE ... SET replaced_by_token_id WHERE id = old.
MarkReplaced(old, new) ==
    replacedBy' = [replacedBy EXCEPT ![old] = new]

-----------------------------------------------------------------------------
Init ==
    /\ clock = 0
    /\ active = Users
    /\ stored = {} /\ revoked = {}
    /\ expiresAt = [t \in Token |-> 0]
    /\ replacedBy = [t \in Token |-> NoToken]
    /\ req = [r \in Reqs |-> Idle]
    /\ given = {}
    /\ parent = [t \in Token |-> NoToken]
    /\ line = [t \in Token |-> {}]
    /\ contended = {} /\ overtaken = {}
    /\ fate = [t \in Token |-> "open"]

At(r, ops, pc) == req[r].op \in ops /\ req[r].pc = pc

Goto(r, pc) == req' = [req EXCEPT ![r].pc = pc]

Finish(r) == req' = [req EXCEPT ![r] = Idle]

\* Refreshes that read an unrevoked row and still act on that reading.
Holding(r, t) ==
    /\ req[r].op = "refresh" /\ req[r].tok = t
    /\ req[r].pc \in {"owner", "revoke", "sign", "store"}

\* login once the credentials were accepted; it issues from here on.
Login(r, u) ==
    /\ req[r].pc = "idle"
    /\ u \in active
    /\ req' = [req EXCEPT ![r] = [op |-> "login", pc |-> "sign", user |-> u,
                                 tok |-> NoToken, new |-> NoToken]]
    /\ UNCHANGED <<clock, active, table, given, hist>>

-----------------------------------------------------------------------------
(* refreshTokens, one statement at a time.  The cookie holds a token that  *)
(* some reply carried, or a string that is in no row.                      *)

\* Time is cut to seconds, so in the second of expiry either answer occurs.
MayBeExpired(t) == expiresAt[t] <= clock
MayBeFresh(t)   == expiresAt[t] >= clock

\* Mutant: without the test of revokedAt.
MutFindAny(r, t) ==
    /\ req[r].pc = "idle"
    /\ t \in stored /\ MayBeFresh(t)
    /\ req' = [req EXCEPT ![r] = [op |-> "refresh", pc |-> "owner",
                                 user |-> t.user, tok |-> t, new |-> NoToken]]
    /\ contended' = IF \E q \in Reqs \ {r} : Holding(q, t)
                    THEN contended \cup {t} ELSE contended
    /\ overtaken' = overtaken \ {r}
    /\ UNCHANGED <<clock, active, table, given, parent, line, fate>>

\* findByToken returns an unrevoked, unexpired row; the handler goes on with
\* this reading of it.
FindUsable(r, t) ==
    /\ req[r].pc = "idle"
    /\ t \in Live /\ MayBeFresh(t)
    /\ req' = [req EXCEPT ![r] = [op |-> "refresh", pc |-> "owner",
                                 user |-> t.user, tok |-> t, new |-> NoToken]]
    /\ contended' = IF \E q \in Reqs \ {r} : Holding(q, t)
                    THEN contended \cup {t} ELSE contended
    /\ overtaken' = overtaken \ {r}
    /\ UNCHANGED <<clock, active, table, given, parent, line, fate>>

\* No row, a revoked one or an expired one: 401, and nothing changes.
FindRefused(r, t) ==
    /\ req[r].pc = "idle"
    /\ t \in Live => MayBeExpired(t)
    /\ UNCHANGED vars

FindOwner(r) ==
    /\ At(r, {"refresh"}, "owner")
    /\ IF req[r].user \in active THEN Goto(r, "revoke") ELSE Finish(r)
    /\ UNCHANGED <<clock, active, table, given, hist>>

\* Mutant: the presented token is not revoked.
MutNotRevoked(r) ==
    /\ At(r, {"refresh"}, "revoke")
    /\ Goto(r, "sign")
    /\ UNCHANGED <<clock, active, table, given, hist>>

RevokePresented(r) ==
    /\ At(r, {"refresh"}, "revoke")
    /\ RevokeByToken(req[r].tok)
    /\ Goto(r, "sign")
    /\ UNCHANGED <<clock, active, stored, expiresAt, replacedBy, given, hist>>

\* generateTokens: the string is the same for every signing in one second.
Jwt(u) == [user |-> u, iat |-> clock]

GenerateTokens(r) ==
    /\ At(r, {"login", "refresh"}, "sign")
    /\ req' = [req EXCEPT ![r] =
                 [op |-> req[r].op, pc |-> "store", user |-> req[r].user,
                  tok |-> req[r].tok, new |-> Jwt(req[r].user)]]
    /\ UNCHANGED <<clock, active, table, given, hist>>

StoreRefreshToken(r) ==
    LET new == req[r].new IN
    /\ At(r, {"login", "refresh"}, "store")
    /\ Create(new)
    /\ Goto(r, IF req[r].op = "login" THEN "reply" ELSE "mark")
    /\ parent' = [parent EXCEPT ![new] = req[r].tok]
    /\ line' = [line EXCEPT ![new] = IF req[r].op = "login" THEN {}
                                     ELSE line[req[r].tok] \cup {req[r].tok}]
    /\ fate' = [fate EXCEPT ![new] =
                  IF req[r].op = "login" THEN "open"
                  ELSE IF r \in overtaken THEN "escaped"
                  ELSE IF fate[req[r].tok] = "ended" THEN "open"
                  ELSE fate[req[r].tok]]
    /\ UNCHANGED <<clock, active, given, contended, overtaken>>

\* Mutant: the insert is retried with the same string.
MutRetryStore(r) ==
    /\ At(r, {"login", "refresh"}, "store")
    /\ req[r].new \in stored
    /\ UNCHANGED vars

\* The same user, the same second: the UNIQUE violation fails the request.
StoreCollides(r) ==
    /\ At(r, {"login", "refresh"}, "store")
    /\ req[r].new \in stored
    /\ Finish(r)
    /\ UNCHANGED <<clock, active, table, given, hist>>

MarkOldReplaced(r) ==
    /\ At(r, {"refresh"}, "mark")
    /\ MarkReplaced(req[r].tok, req[r].new)
    /\ Goto(r, "reply")
    /\ UNCHANGED <<clock, active, stored, revoked, expiresAt, given, hist>>

Reply(r) ==
    /\ At(r, {"login", "refresh"}, "reply")
    /\ given' = given \cup {req[r].new}
    /\ Finish(r)
    /\ UNCHANGED <<clock, active, table, hist>>

-----------------------------------------------------------------------------
(* logout and logoutAll: one statement, so one step.  ended: the rows whose *)
(* session the user closes.                                                *)

EndSessions(ended) ==
    /\ fate' = [t \in Token |->
                  IF t \in ended THEN "ended"
                  ELSE IF fate[t] = "open" /\ line[t] \cap ended # {}
                       THEN "spared" ELSE fate[t]]
    /\ overtaken' = overtaken \cup
                      {q \in Reqs : \E t \in ended : Holding(q, t)}
    /\ UNCHANGED <<parent, line, contended>>

Logout(t) ==
    /\ RevokeByToken(t)
    /\ EndSessions({t} \cap stored)
    /\ UNCHANGED <<clock, active, stored, expiresAt, replacedBy, req, given>>

\* It needs an access token, and that came in a reply with a refresh token.
LogoutAll(u) ==
    /\ \E t \in given : t.user = u
    /\ RevokeAllByUserId(u)
    /\ EndSessions({t \in stored : t.user = u})
    /\ UNCHANGED <<clock, active, stored, expiresAt, replacedBy, req, given>>

-----------------------------------------------------------------------------
(* What happens to the service.                                            *)

\* A statement throws, or the reply is lost: the rest of the handler is
\* skipped.  A statement that commits and then reports an error is the
\* failure of the statement after it.
Fail(r) ==
    /\ req[r].pc # "idle"
    /\ Finish(r)
    /\ UNCHANGED <<clock, active, table, given, hist>>

\* The container restarts: every request in flight is gone, the rows stay.
Restart ==
    /\ \E r \in Reqs : req[r].pc # "idle"
    /\ req' = [r \in Reqs |-> Idle]
    /\ UNCHANGED <<clock, active, table, given, hist>>

Tick ==
    /\ clock < MaxTime
    /\ clock' = clock + 1
    /\ UNCHANGED <<active, table, req, given, hist>>

\* No code here sets users.deleted_at; whoever does acts on the database.
SoftDelete(u) ==
    /\ u \in active
    /\ active' = active \ {u}
    /\ UNCHANGED <<clock, table, req, given, hist>>

Arrive(r) ==
    \/ \E u \in Users : Login(r, u)
    \/ \E t \in given \cup {NoToken} : FindUsable(r, t) \/ FindRefused(r, t)

Handle(r) ==
    \/ FindOwner(r)
    \/ RevokePresented(r)
    \/ GenerateTokens(r)
    \/ StoreRefreshToken(r)
    \/ StoreCollides(r)
    \/ MarkOldReplaced(r)
    \/ Reply(r)

Next ==
    \/ \E r \in Reqs : Arrive(r) \/ Handle(r) \/ Fail(r)
    \/ \E t \in given \cup {NoToken} : Logout(t)
    \/ \E u \in Users : LogoutAll(u) \/ SoftDelete(u)
    \/ Restart
    \/ Tick

\* Every await settles: the driver answers each statement, the event loop
\* resumes each handler.
Fairness == \A r \in Reqs : WF_vars(Handle(r))

Spec     == Init /\ [][Next]_vars
FairSpec == Spec /\ Fairness

-----------------------------------------------------------------------------
(* Properties.                                                             *)

\* The types of the rows, the requests and the history.
TypeOK ==
    /\ clock \in Time
    /\ active \subseteq Users
    /\ stored \subseteq Token
    /\ revoked \subseteq stored
    /\ expiresAt \in [Token -> Nat]
    /\ replacedBy \in [Token -> Token \cup {NoToken}]
    /\ req \in [Reqs -> Request]
    /\ given \subseteq stored
    /\ parent \in [Token -> Token \cup {NoToken}]
    /\ contended \subseteq Token
    /\ overtaken \subseteq Reqs
    /\ line \in [Token -> SUBSET Token]
    /\ fate \in [Token -> Fates]

\* Rotation: a token that a refresh exchanged is revoked by the time its
\* successor has a row, whatever fails afterwards.
RotatedTokenIsRevoked ==
    \A t \in stored : parent[t] # NoToken => parent[t] \in revoked

\* The replaced_by pointers form chains: a pointer leads from a revoked row
\* to an existing row of the same user issued in a later second, and no two
\* rows point to the same one (the UNIQUE index never refuses markReplaced).
ReplacementChain ==
    \A p \in Token :
        LET t == replacedBy[p] IN
        t # NoToken =>
            /\ p \in revoked
            /\ t \in stored
            /\ t.user = p.user
            /\ p.iat < t.iat
            /\ \A q \in Token : replacedBy[q] = t => q = p

\* One token yields two successors only when two refreshes both read it
\* unrevoked before either had finished with it.
SingleSuccessor ==
    \A t1, t2 \in stored :
        /\ parent[t1] = parent[t2]
        /\ parent[t1] # NoToken
        /\ parent[t1] \notin contended
        => t1 = t2

\* A token that logout or logoutAll ended is dead, and a live token that
\* descends from it got away in one of two ways.  "escaped": it goes back to
\* a refresh that read its token before the logout and stored after it.
\* "spared": it goes back to a row stored before a logout that came with a
\* token already exchanged (a cookie that missed the answer); revokeByToken
\* ends the row it is given and not that row's successors.  Every other
\* descendant, among them any issued from a later reading, is dead.
EndedSessionsStayEnded ==
    \A t \in Live :
        /\ fate[t] # "ended"
        /\ fate[t] = "open" => \A p \in line[t] : fate[p] # "ended"

\* The statements of overlapping handlers add up to the ledger: a login, a
\* succession to a dead token, or a closing of tokens of one user.
Ledger == INSTANCE SessionLedger WITH
    status <- [t \in Token |-> IF t \notin stored THEN "unissued"
                               ELSE IF t \in revoked THEN "dead" ELSE "live"],
    from   <- parent

ImplementsLedger == Ledger!Spec

\* Every request ends, in a reply or an error, also when statements of other
\* requests interleave with it.
RequestsFinish == \A r \in Reqs : req[r].pc # "idle" ~> req[r].pc = "idle"

=============================================================================
