------------------------------- MODULE Gateway -------------------------------
(***************************************************************************)
(* The auth controller of the API gateway in front of Sessions, and the    *)
(* browser that keeps the refresh token in a cookie.                       *)
(*                                                                         *)
(* An HTTP request becomes one message to the auth service, sent by        *)
(* sendWithTimeout.  The gateway stops waiting after five seconds; the     *)
(* service does not know and carries on, and its late answer is dropped.   *)
(* So the cookie and the refresh_tokens table are two copies of one fact   *)
(* that nothing updates together.                                          *)
(*                                                                         *)
(* A slot is an HTTP request and the handler it started; the slot is free  *)
(* again when both have ended.                                             *)
(***************************************************************************)
EXTENDS Sessions

VARIABLES
    cookie,   \* the browser's refreshToken cookie
    call,     \* the request of each slot
    lost      \* history: tokens a refresh used up without its answer arriving

gateway == <<cookie, call, lost>>

\* waiting: the browser's request is open.  rpc: what became of the message.
Call == [op : {"none", "login", "refresh", "logout", "logoutAll"},
         waiting : BOOLEAN,
         rpc : {"none", "queued", "running", "value", "empty", "refused", "failed"},
         tok : Token \cup {NoToken},
         new : Token \cup {NoToken}]

NoCall == [op |-> "none", waiting |-> FALSE, rpc |-> "none",
           tok |-> NoToken, new |-> NoToken]

Answers == {"value", "empty", "refused", "failed"}

GatewayInit ==
    /\ Init
    /\ cookie = NoToken
    /\ call = [r \in Reqs |-> NoCall]
    /\ lost = {}

-----------------------------------------------------------------------------
(* The browser's requests.                                                 *)

Post(r, op, tok) ==
    /\ call[r] = NoCall
    /\ call' = [call EXCEPT ![r] = [op |-> op, waiting |-> TRUE, rpc |-> "queued",
                                   tok |-> tok, new |-> NoToken]]
    /\ UNCHANGED <<vars, cookie, lost>>

\* The guard asks for an access token, and that came with a refresh token.
\* Its lifetime is not modelled: a caller whose token ran out does nothing.
SignedIn == given # {}

PostLogin(r) == Post(r, "login", NoToken)

PostRefresh(r) == cookie # NoToken /\ Post(r, "refresh", cookie)

PostLogout(r) == SignedIn /\ cookie # NoToken /\ Post(r, "logout", cookie)

PostLogoutAll(r) == SignedIn /\ Post(r, "logoutAll", NoToken)

\* Without the cookie refresh is a 400 and logout has nothing to revoke or
\* to clear.
NoCookie(r) ==
    /\ call[r] = NoCall
    /\ cookie = NoToken
    /\ UNCHANGED <<vars, gateway>>

-----------------------------------------------------------------------------
(* The service takes the message, whether or not the gateway still waits.  *)

Queued(r, op) == call[r].op = op /\ call[r].rpc = "queued"

Rpc(r, outcome) == call' = [call EXCEPT ![r].rpc = outcome]

ServeLogin(r) ==
    /\ Queued(r, "login")
    /\ \/ (\E u \in Users : Login(r, u)) /\ Rpc(r, "running")
       \/ UNCHANGED vars /\ Rpc(r, "refused")
    /\ UNCHANGED <<cookie, lost>>

ServeRefresh(r) ==
    /\ Queued(r, "refresh")
    /\ \/ FindUsable(r, call[r].tok) /\ Rpc(r, "running")
       \/ FindRefused(r, call[r].tok) /\ Rpc(r, "refused")
    /\ UNCHANGED <<cookie, lost>>

\* The handler of logout returns undefined, which is no value on the wire.
ServeLogout(r) ==
    /\ Queued(r, "logout")
    /\ Logout(call[r].tok) /\ Rpc(r, "empty")
    /\ UNCHANGED <<cookie, lost>>

\* The first statement throws, or the connection is refused.
ServeFails(r) ==
    /\ call[r].rpc = "queued"
    /\ Rpc(r, "failed")
    /\ UNCHANGED <<vars, cookie, lost>>

ServeLogoutAll(r) ==
    /\ Queued(r, "logoutAll")
    /\ (\E u \in Users : LogoutAll(u)) /\ Rpc(r, "value")
    /\ UNCHANGED <<cookie, lost>>

\* The token that the running refresh has revoked.
Used(r) == {req[r].tok} \cap revoked

\* A statement of the running handler; ending early ends it with an error.
Run(r) ==
    /\ \/ FindOwner(r) \/ RevokePresented(r) \/ GenerateTokens(r)
       \/ StoreRefreshToken(r) \/ StoreCollides(r) \/ MarkOldReplaced(r)
    /\ IF req'[r].pc = "idle"
       THEN /\ Rpc(r, IF req[r].pc = "owner" THEN "refused" ELSE "failed")
            /\ lost' = lost \cup Used(r)
       ELSE UNCHANGED <<call, lost>>
    /\ UNCHANGED cookie

ServiceFails(r) ==
    /\ Fail(r)
    /\ Rpc(r, "failed")
    /\ lost' = lost \cup Used(r)
    /\ UNCHANGED cookie

\* The handler returns the tokens.
Return(r) ==
    /\ Reply(r)
    /\ call' = [call EXCEPT ![r] =
                  [op |-> call[r].op, waiting |-> call[r].waiting, rpc |-> "value",
                   tok |-> call[r].tok, new |-> req[r].new]]
    /\ UNCHANGED <<cookie, lost>>

\* The connection closes with the process: what it was running has failed.
ServiceRestarts ==
    /\ Restart
    /\ call' = [r \in Reqs |-> IF call[r].rpc = "running"
                               THEN [call[r] EXCEPT !.rpc = "failed"] ELSE call[r]]
    /\ lost' = lost \cup UNION {Used(r) : r \in Reqs}
    /\ UNCHANGED cookie

-----------------------------------------------------------------------------
(* The gateway answers the browser.                                        *)

\* lastValueFrom rejects when the reply has no value.
HttpStatus(c) ==
    IF c.rpc = "value" THEN 200 ELSE IF c.rpc = "refused" THEN 401 ELSE 500

\* Mutant: the successor is not put into the cookie.
MutKeepCookie(c) ==
    IF c.op = "login" THEN c.new ELSE IF c.op = "logout" THEN NoToken ELSE cookie

\* What a successful response does to the cookie.
SetCookie(c) ==
    IF c.op \in {"login", "refresh"} THEN c.new
    ELSE IF c.op = "logout" THEN NoToken ELSE cookie

Free(r) == call' = [call EXCEPT ![r] = NoCall]

Respond(r) ==
    /\ call[r].rpc \in Answers
    /\ call[r].waiting
    /\ cookie' = IF HttpStatus(call[r]) = 200 THEN SetCookie(call[r]) ELSE cookie
    /\ Free(r)
    /\ UNCHANGED <<vars, lost>>

\* Mutant: the timeout is taken for the end of the handler.
MutForget(r) ==
    /\ call[r].waiting
    /\ call[r].rpc \in {"queued", "running"}
    /\ Free(r)
    /\ UNCHANGED <<vars, cookie, lost>>

\* Five seconds: the browser gets a 500 and the message stays on its way.
Timeout(r) ==
    /\ call[r].waiting
    /\ call[r].rpc \in {"queued", "running"}
    /\ call' = [call EXCEPT ![r] =
                  [op |-> call[r].op, waiting |-> FALSE, rpc |-> call[r].rpc,
                   tok |-> call[r].tok, new |-> call[r].new]]
    /\ UNCHANGED <<vars, cookie, lost>>

\* The answer comes after the timeout, or the response never reaches the
\* browser.
AnswerLost(r) ==
    /\ call[r].rpc \in Answers
    /\ lost' = IF call[r].op = "refresh" /\ call[r].rpc = "value"
               THEN lost \cup {call[r].tok} ELSE lost
    /\ Free(r)
    /\ UNCHANGED <<vars, cookie>>

-----------------------------------------------------------------------------
Browser(r) ==
    PostLogin(r) \/ PostRefresh(r) \/ PostLogout(r) \/ PostLogoutAll(r) \/ NoCookie(r)

Serve(r) ==
    \/ ServeLogin(r) \/ ServeRefresh(r) \/ ServeLogout(r) \/ ServeLogoutAll(r)
    \/ ServeFails(r)

GatewayNext ==
    \/ \E r \in Reqs :
          \/ Browser(r)
          \/ Serve(r)
          \/ Run(r) \/ ServiceFails(r) \/ Return(r)
          \/ Respond(r) \/ Timeout(r) \/ AnswerLost(r)
    \/ ServiceRestarts
    \/ (Tick \/ \E u \in Users : SoftDelete(u)) /\ UNCHANGED gateway

GatewaySpec == GatewayInit /\ [][GatewayNext]_<<vars, gateway>>

-----------------------------------------------------------------------------
(* Properties.                                                             *)

\* The types, and what a slot's message and handler tell of each other.
GatewayTypeOK ==
    /\ cookie \in given \cup {NoToken}
    /\ call \in [Reqs -> Call]
    /\ lost \subseteq Token
    /\ \A r \in Reqs :
          /\ call[r].rpc = "running" <=> req[r].pc # "idle"
          /\ call[r].rpc = "running" =>
                call[r].op = req[r].op /\ call[r].tok = req[r].tok
          /\ call[r].op \in {"login", "refresh"} /\ call[r].rpc = "value" =>
                call[r].new \in given

\* The cookie opens a session until the user closes it or the answer to its
\* refresh is lost: neither several tabs nor responses out of order leave the
\* browser with a token that another of its refreshes used up.
CookieUsable ==
    cookie # NoToken =>
        \/ cookie \in Live
        \/ fate[cookie] = "ended"
        \/ cookie \in lost
        \/ \E r \in Reqs : call[r].op = "refresh" /\ call[r].tok = cookie

\* "Logout successful": a logout that the service carried out while the
\* gateway waits is answered 200, and so clears the cookie.
LogoutSucceeds ==
    \A r \in Reqs :
        call[r].op = "logout" /\ call[r].waiting /\ call[r].rpc \in Answers \ {"failed"}
        => HttpStatus(call[r]) = 200
=============================================================================
