---------------------------- MODULE GatewayProofs ----------------------------
(***************************************************************************)
(* What the gateway adds to Sessions takes nothing away from it: every     *)
(* behaviour of the gateway is a behaviour of Sessions, so the theorems    *)
(* about Sessions hold behind the gateway too.  And the cookie keeps up    *)
(* with the table: CookieUsable, for every number of open requests.        *)
(***************************************************************************)
EXTENDS Gateway, SessionsProofs

\* The tokens that requests carry came to the browser in a reply.
KnownTokens ==
    \A r \in Reqs :
        /\ call[r].tok \in given \cup {NoToken}
        /\ call[r].op = "login" => call[r].tok = NoToken
        /\ call[r].op = "refresh" => call[r].tok \in given

GatewayInv == Base /\ GatewayTypeOK /\ KnownTokens

\* A step of the gateway is a step of the service or leaves it alone, also
\* when the gateway has given up waiting.
LEMMA GatewayStep ==
    ASSUME GatewayInv, [GatewayNext]_<<vars, gateway>>
    PROVE  [Next]_vars
<1>1. CASE UNCHANGED <<vars, gateway>>
    BY <1>1 DEF vars
<1>2. ASSUME NEW r \in Reqs, Browser(r) PROVE UNCHANGED vars
    BY <1>2 DEF Browser, PostLogin, PostRefresh, PostLogout, PostLogoutAll,
                NoCookie, Post
<1>3. ASSUME NEW r \in Reqs, Serve(r) PROVE [Next]_vars
  <2>1. CASE ServeLogin(r)
    BY <2>1 DEF ServeLogin, Next, Arrive
  <2>2. CASE ServeRefresh(r)
    BY <2>2 DEF ServeRefresh, Next, Arrive, GatewayInv, KnownTokens
  <2>3. CASE ServeLogout(r)
    BY <2>3 DEF ServeLogout, Next, GatewayInv, KnownTokens
  <2>4. CASE ServeLogoutAll(r)
    BY <2>4 DEF ServeLogoutAll, Next
  <2>5. CASE ServeFails(r)
    BY <2>5 DEF ServeFails
  <2> QED
    BY <1>3, <2>1, <2>2, <2>3, <2>4, <2>5 DEF Serve
<1>4. ASSUME NEW r \in Reqs, Run(r) \/ ServiceFails(r) \/ Return(r) PROVE Next
    BY <1>4 DEF Run, ServiceFails, Return, Next, Handle
<1>5. ASSUME NEW r \in Reqs, Respond(r) \/ Timeout(r) \/ AnswerLost(r)
      PROVE UNCHANGED vars
    BY <1>5 DEF Respond, Timeout, AnswerLost
<1>6. ServiceRestarts => Next
    BY DEF ServiceRestarts, Next
<1>7. Tick \/ (\E u \in Users : SoftDelete(u)) => Next
    BY DEF Next
<1> QED
    BY <1>1, <1>2, <1>3, <1>4, <1>5, <1>6, <1>7 DEF GatewayNext

\* No step takes a token back that a reply has carried.
LEMMA GivenGrows ==
    ASSUME [Next]_vars
    PROVE  given \subseteq given'
BY DEF Next, vars, Arrive, Handle, Login, FindUsable, FindRefused, FindOwner,
       RevokePresented, GenerateTokens, StoreRefreshToken, StoreCollides,
       MarkOldReplaced, Reply, Logout, LogoutAll, Fail, Restart, Tick, SoftDelete

\* Every step keeps the slots in line with the handlers they started.
LEMMA CallsStep ==
    ASSUME GatewayInv, [GatewayNext]_<<vars, gateway>>, Base', given \subseteq given'
    PROVE  GatewayTypeOK' /\ KnownTokens'
<1> USE DEF GatewayInv, GatewayTypeOK, KnownTokens, Call
<1>1. CASE UNCHANGED <<vars, gateway>>
    BY <1>1 DEF vars, gateway
<1>2. ASSUME NEW r \in Reqs, Browser(r) PROVE GatewayTypeOK' /\ KnownTokens'
  <2>0. given \subseteq Token
    BY DEF Base, TypeOK
  <2>1. ASSUME NEW op \in {"login", "refresh", "logout", "logoutAll"},
               NEW tok \in given \cup {NoToken}, Post(r, op, tok),
               op = "login" => tok = NoToken, op = "refresh" => tok # NoToken
        PROVE GatewayTypeOK' /\ KnownTokens'
    BY <2>0, <2>1 DEF Post, NoCall, vars
  <2>2. CASE NoCookie(r)
    BY <2>2 DEF NoCookie, vars, gateway
  <2> QED
    BY <1>2, <2>1, <2>2 DEF Browser, PostLogin, PostRefresh, PostLogout, PostLogoutAll
<1>3. ASSUME NEW r \in Reqs, Serve(r) PROVE GatewayTypeOK' /\ KnownTokens'
  <2>0. req \in [Reqs -> Request]
    BY DEF Base, TypeOK
  <2>1. ASSUME NEW u \in Users, Queued(r, "login"), Login(r, u), Rpc(r, "running"),
               UNCHANGED <<cookie, lost>>
        PROVE  GatewayTypeOK' /\ KnownTokens'
    BY <2>0, <2>1 DEF Queued, Rpc, Login, Request
  <2>2. ASSUME Queued(r, "refresh"), FindUsable(r, call[r].tok), Rpc(r, "running"),
               UNCHANGED <<cookie, lost>>
        PROVE  GatewayTypeOK' /\ KnownTokens'
    BY <2>0, <2>2 DEF Queued, Rpc, FindUsable, Request
  <2>6. ASSUME Rpc(r, "refused"), call[r].rpc = "queued",
               UNCHANGED <<vars, cookie, lost>>
        PROVE  GatewayTypeOK' /\ KnownTokens'
    BY <2>6 DEF Rpc, vars
  <2>3. CASE ServeLogout(r)
    BY <2>3 DEF ServeLogout, Queued, Rpc, Logout, vars
  <2>4. CASE ServeLogoutAll(r)
    BY <2>4 DEF ServeLogoutAll, Queued, Rpc, LogoutAll, vars
  <2>5. CASE ServeFails(r)
    BY <2>5 DEF ServeFails, Rpc, vars
  <2> QED
    BY <1>3, <2>1, <2>2, <2>3, <2>4, <2>5, <2>6
       DEF Serve, ServeLogin, ServeRefresh, FindRefused, Queued
<1>4. ASSUME NEW r \in Reqs, Run(r) PROVE GatewayTypeOK' /\ KnownTokens'
  <2>0. req \in [Reqs -> Request] /\ revoked \subseteq Token
    BY DEF Base, TypeOK
  <2>1. /\ UNCHANGED <<given, cookie>>
        /\ req[r].pc # "idle"
        /\ \A q \in Reqs \ {r} : req'[q] = req[q]
        /\ req'[r].pc # "idle" => req'[r].op = req[r].op /\ req'[r].tok = req[r].tok
    BY <1>4, <2>0 DEF Run, FindOwner, RevokePresented, GenerateTokens, StoreRefreshToken,
                 StoreCollides, MarkOldReplaced, Goto, Finish, Idle, Request, At
  <2>2. CASE req'[r].pc = "idle"
    <3>1. PICK outcome \in {"refused", "failed"} :
              Rpc(r, outcome) /\ lost' = lost \cup Used(r)
      BY <1>4, <2>2 DEF Run
    <3> QED
      BY <2>0, <2>1, <2>2, <3>1 DEF Rpc, Used
  <2>3. CASE req'[r].pc # "idle"
    BY <1>4, <2>1, <2>3 DEF Run
  <2> QED
    BY <2>2, <2>3
<1>5. ASSUME NEW r \in Reqs, ServiceFails(r) PROVE GatewayTypeOK' /\ KnownTokens'
  <2>1. req \in [Reqs -> Request] /\ revoked \subseteq Token
    BY DEF Base, TypeOK
  <2>2. /\ Fail(r) /\ Rpc(r, "failed") /\ lost' = lost \cup Used(r)
        /\ UNCHANGED cookie
    BY <1>5 DEF ServiceFails
  <2> QED
    BY <2>1, <2>2 DEF Rpc, Fail, Finish, Idle, Used
<1>6. ASSUME NEW r \in Reqs, Return(r) PROVE GatewayTypeOK' /\ KnownTokens'
    BY <1>6 DEF Return, Reply, Finish, Idle, Base, TypeOK
<1>7. ASSUME NEW r \in Reqs, Respond(r) \/ Timeout(r) \/ AnswerLost(r)
      PROVE GatewayTypeOK' /\ KnownTokens'
  <2>0. NoCall \in Call /\ given \subseteq Token /\ UNCHANGED vars
    BY <1>7 DEF NoCall, Base, TypeOK, Respond, Timeout, AnswerLost
  <2>1. UNCHANGED <<given, req>>
    BY <2>0 DEF vars
  <2>2. CASE Respond(r)
    <3>1. cookie' \in given \cup {NoToken}
      <4>1. call[r] \in Call
        OBVIOUS
      <4>2. CASE call[r].rpc = "value"
        <5>1. \/ call[r].op \in {"login", "refresh"} /\ cookie' = call[r].new
              \/ cookie' \in {cookie, NoToken}
          BY <2>2, <4>2 DEF Respond, HttpStatus, SetCookie
        <5>2. call[r].op \in {"login", "refresh"} => call[r].new \in given
          BY <4>2
        <5> QED
          BY <2>1, <5>1, <5>2
      <4>3. CASE call[r].rpc # "value"
        BY <2>2, <4>3 DEF Respond, HttpStatus, SetCookie
      <4> QED
        BY <4>2, <4>3
    <3>2. call[r].rpc # "running" /\ call' = [call EXCEPT ![r] = NoCall]
      BY <2>2 DEF Respond, Free, Answers
    <3> QED
      BY <2>0, <2>1, <2>2, <3>1, <3>2 DEF Respond, NoCall
  <2>3. CASE Timeout(r)
    <3>1. UNCHANGED <<cookie, lost>> /\ \A q \in Reqs \ {r} : call'[q] = call[q]
      BY <2>3 DEF Timeout
    <3>2. /\ call'[r].op = call[r].op /\ call'[r].rpc = call[r].rpc
          /\ call'[r].tok = call[r].tok /\ call'[r].new = call[r].new
          /\ call' \in [Reqs -> Call]
      BY <2>3 DEF Timeout
    <3> QED
      BY <2>0, <2>1, <3>1, <3>2
  <2>4. CASE AnswerLost(r)
    <3>1. call[r].rpc # "running" /\ call' = [call EXCEPT ![r] = NoCall]
      BY <2>4 DEF AnswerLost, Free, Answers
    <3>2. lost' \subseteq Token
      <4>1. call[r].op = "refresh" => call[r].tok \in Token
        BY <2>0
      <4> QED
        BY <2>4, <4>1 DEF AnswerLost
    <3> QED
      BY <2>0, <2>1, <2>4, <3>1, <3>2 DEF AnswerLost, NoCall
  <2> QED
    BY <1>7, <2>2, <2>3, <2>4
<1>8. ASSUME ServiceRestarts PROVE GatewayTypeOK' /\ KnownTokens'
  <2>1. lost' \subseteq Token
    BY <1>8 DEF ServiceRestarts, Used, Base, TypeOK
  <2>2. \A r \in Reqs :
            /\ req'[r] = Idle
            /\ call'[r] \in Call
            /\ call'[r].op = call[r].op /\ call'[r].tok = call[r].tok
            /\ call'[r].new = call[r].new
            /\ call'[r].rpc = IF call[r].rpc = "running" THEN "failed" ELSE call[r].rpc
    BY <1>8 DEF ServiceRestarts, Restart
  <2>3. call' \in [Reqs -> Call] /\ UNCHANGED <<given, cookie>>
    BY <1>8, <2>2 DEF ServiceRestarts, Restart
  <2> QED
    BY <2>1, <2>2, <2>3 DEF Idle
<1>9. (Tick \/ \E u \in Users : SoftDelete(u)) /\ UNCHANGED gateway
      => GatewayTypeOK' /\ KnownTokens'
    BY DEF Tick, SoftDelete, gateway
<1> QED
    BY <1>1, <1>2, <1>3, <1>4, <1>5, <1>6, <1>7, <1>8, <1>9 DEF GatewayNext

-----------------------------------------------------------------------------
\* The slots and the cookie are consistent with the handlers in every state.
LEMMA GatewayInvariant == GatewaySpec => []GatewayInv
<1>1. GatewayInit => GatewayInv
  <2> SUFFICES ASSUME GatewayInit PROVE GatewayInv
    OBVIOUS
  <2>1. Base
    BY BaseInit DEF GatewayInit
  <2>2. GatewayTypeOK /\ KnownTokens
    BY DEF GatewayInit, Init, Idle, GatewayTypeOK, KnownTokens, Call, NoCall
  <2> QED
    BY <2>1, <2>2 DEF GatewayInv
<1>2. GatewayInv /\ [GatewayNext]_<<vars, gateway>> => GatewayInv'
  <2> SUFFICES ASSUME GatewayInv, [GatewayNext]_<<vars, gateway>> PROVE GatewayInv'
    OBVIOUS
  <2>1. Base /\ [Next]_vars
    BY GatewayStep DEF GatewayInv
  <2>2. Base'
    BY <2>1, TypeStep, RequestsStep, AgedStep DEF Base
  <2> QED
    BY <2>1, <2>2, GivenGrows, CallsStep DEF GatewayInv
<1> QED
    BY <1>1, <1>2, PTL DEF GatewaySpec

\* Type correctness of the gateway's slots, also of those whose browser has
\* been answered with a timeout.
THEOREM GatewayTypeCorrect == GatewaySpec => []GatewayTypeOK
<1>1. GatewayInv => GatewayTypeOK
    BY DEF GatewayInv
<1> QED
    BY <1>1, GatewayInvariant, PTL

\* The service behind the gateway behaves as Sessions: timeouts, lost answers
\* and several tabs make it do nothing that Sessions does not.
THEOREM GatewayImplementsSessions == GatewaySpec => Spec
<1>1. GatewayInit => Init
    BY DEF GatewayInit
<1>2. GatewayInv /\ [GatewayNext]_<<vars, gateway>> => [Next]_vars
    BY GatewayStep
<1> QED
    BY <1>1, <1>2, GatewayInvariant, PTL DEF GatewaySpec, Spec

\* So a token that logout or logoutAll ended is dead, and so are its
\* descendants with the two exceptions, behind the gateway too, whose timeouts
\* leave handlers running that nobody waits for.
THEOREM GatewayEndedStaysEnded == GatewaySpec => []EndedSessionsStayEnded
    BY GatewayImplementsSessions, EndedStaysEnded

\* The other guarantees of the session store, in one: behind the gateway too
\* the statements add up to the ledger, a token is revoked before it has a
\* successor, the successors form chains without cycles, and two successors of
\* one token need two refreshes that overlapped.
THEOREM GatewayKeepsSessions ==
  GatewaySpec => /\ ImplementsLedger
                 /\ [](RotatedTokenIsRevoked /\ ReplacementChain /\ SingleSuccessor)
    BY GatewayImplementsSessions, Refinement, Rotation, Chains, NoForks, PTL
-----------------------------------------------------------------------------
(* CookieUsable.  A token that only the service and a response under way   *)
(* know cannot be presented, so nothing but a logout revokes it; one that  *)
(* a refresh revoked is accounted for by that refresh until it ends.       *)

Alive(t) == t \in Live \/ fate[t] = "ended"

\* The refresh of t is past its revocation.
Rotates(r, t) ==
    /\ call[r].op = "refresh" /\ call[r].tok = t
    /\ \/ call[r].rpc = "value"
       \/ call[r].rpc = "running" /\ req[r].pc \in Rotating

CookieOK ==
    cookie # NoToken =>
        Alive(cookie) \/ cookie \in lost \/ \E r \in Reqs : Rotates(r, cookie)

Stored(r) == req[r].pc \in {"mark", "reply"}

FreshOK ==
    \A r \in Reqs : Stored(r) =>
        /\ req[r].new \notin given
        /\ Alive(req[r].new)
        /\ \A q \in Reqs \ {r} : Stored(q) => req[q].new # req[r].new

Carried(r) == call[r].op \in {"login", "refresh"} /\ call[r].rpc = "value"

CarriedOK ==
    \A r \in Reqs : Carried(r) =>
        /\ Alive(call[r].new)
        /\ call[r].new # cookie
        /\ \A q \in Reqs : call[q].tok # call[r].new
        /\ \A q \in Reqs \ {r} : Carried(q) => call[q].new # call[r].new

\* Of the stored tokens, a step leaves only that of a refresh neither live nor
\* ended.
LEMMA Revoking ==
    ASSUME Base, [Next]_vars, NEW t \in stored, Alive(t),
           \A r \in Reqs : ~ (RevokePresented(r) /\ req[r].tok = t)
    PROVE  Alive(t)'
<1> USE DEF Alive, Live
<1>0. t \in Token /\ fate \in [Token -> Fates]
    BY DEF Base, TypeOK
<1>1. ASSUME NEW r \in Reqs, Arrive(r) \/ Fail(r)
      PROVE  UNCHANGED <<stored, revoked, fate>>
    BY <1>1 DEF Arrive, Login, FindUsable, FindRefused, Fail, vars, table, hist
<1>2. ASSUME NEW r \in Reqs, Handle(r), ~ StoreRefreshToken(r), ~ RevokePresented(r)
      PROVE  UNCHANGED <<stored, revoked, fate>>
    BY <1>2 DEF Handle, FindOwner, GenerateTokens, StoreCollides,
       MarkOldReplaced, Reply, table, hist
<1>3. ASSUME NEW r \in Reqs, RevokePresented(r) PROVE Alive(t)'
    BY <1>3 DEF RevokePresented, RevokeByToken, hist
<1>4. ASSUME NEW r \in Reqs, StoreRefreshToken(r) PROVE Alive(t)'
    BY <1>0, <1>4 DEF StoreRefreshToken, Create
<1>5. ASSUME NEW s \in given \cup {NoToken}, Logout(s) PROVE Alive(t)'
    BY <1>0, <1>5 DEF Logout, RevokeByToken, EndSessions
<1>6. ASSUME NEW u \in Users, LogoutAll(u) PROVE Alive(t)'
    BY <1>0, <1>6 DEF LogoutAll, RevokeAllByUserId, EndSessions
<1>7. ASSUME Restart \/ Tick \/ (\E u \in Users : SoftDelete(u)) \/ UNCHANGED vars
      PROVE  UNCHANGED <<stored, revoked, fate>>
    BY <1>7 DEF Restart, Tick, SoftDelete, vars, table, hist
<1> QED
    BY <1>1, <1>2, <1>3, <1>4, <1>5, <1>6, <1>7 DEF Next

Slot(r) ==
    \/ Browser(r) \/ Serve(r) \/ Run(r) \/ ServiceFails(r) \/ Return(r)
    \/ Respond(r) \/ Timeout(r) \/ AnswerLost(r)

\* A slot's step leaves the other slots alone.
LEMMA OtherSlots ==
    ASSUME GatewayInv, NEW q \in Reqs, Slot(q), NEW r \in Reqs, r # q
    PROVE  call'[r] = call[r] /\ req'[r] = req[r]
<1>0. call \in [Reqs -> Call] /\ req \in [Reqs -> Request]
    BY DEF GatewayInv, GatewayTypeOK, Base, TypeOK
<1>1. CASE Browser(q)
    BY <1>0, <1>1 DEF Browser, PostLogin, PostRefresh, PostLogout, PostLogoutAll,
                      NoCookie, Post, vars, gateway
<1>2. CASE Serve(q)
    BY <1>0, <1>2 DEF Serve, ServeLogin, ServeRefresh, ServeLogout, ServeLogoutAll,
       ServeFails, Rpc, Login, FindUsable, FindRefused, Logout, LogoutAll, vars
<1>3. CASE Run(q)
    BY <1>0, <1>3 DEF Run, Rpc, FindOwner, RevokePresented, GenerateTokens,
       StoreRefreshToken, StoreCollides, MarkOldReplaced, Goto, Finish
<1>4. CASE ServiceFails(q) \/ Return(q)
    BY <1>0, <1>4 DEF ServiceFails, Return, Rpc, Fail, Reply, Finish
<1>5. CASE Respond(q) \/ Timeout(q) \/ AnswerLost(q)
    BY <1>0, <1>5 DEF Respond, Timeout, AnswerLost, Free, vars
<1> QED
    BY <1>1, <1>2, <1>3, <1>4, <1>5 DEF Slot

\* revokeByToken makes the refresh accountable for its token.
LEMMA Presented ==
    ASSUME GatewayInv, GatewayInv', NEW r \in Reqs, RevokePresented(r)
    PROVE  /\ Rotates(r, req[r].tok)' /\ req'[r].tok = req[r].tok
           /\ call[r].tok = req[r].tok
<1>1. req \in [Reqs -> Request] /\ req[r].op = "refresh" /\ req[r].pc = "revoke"
    BY DEF GatewayInv, Base, TypeOK, RevokePresented, At
<1>2. req'[r].op = "refresh" /\ req'[r].pc = "sign" /\ req'[r].tok = req[r].tok
    BY <1>1 DEF RevokePresented, Goto, Request
<1> QED
    BY <1>1, <1>2 DEF GatewayInv, GatewayTypeOK, Rotates, Rotating

\* A refresh that revoked its token accounts for it until the successor is in
\* the cookie or the answer is lost.
LEMMA RotatesStep ==
    ASSUME GatewayInv, GatewayInv', [GatewayNext]_<<vars, gateway>>,
           NEW r \in Reqs, NEW t \in Token, Rotates(r, t)
    PROVE  Rotates(r, t)' \/ t \in lost' \/ (Respond(r) /\ Carried(r))
<1>0. /\ req \in [Reqs -> Request] /\ call \in [Reqs -> Call]
      /\ call[r].op = "refresh" /\ call[r].tok = t
      /\ call[r].rpc = "running" =>
            req[r].op = "refresh" /\ req[r].tok = t /\ req[r].pc \in Rotating
            /\ t \in revoked
    BY DEF GatewayInv, GatewayTypeOK, Base, TypeOK, RequestsOK, RequestOK, Rotates, Rotating
<1>1. CASE call'[r] = call[r] /\ req'[r] = req[r]
    BY <1>1 DEF Rotates
<1>2. CASE Slot(r)
  <2>1. ~ Browser(r) /\ ~ Serve(r) 
    BY DEF Rotates, Browser, PostLogin, PostRefresh, PostLogout, PostLogoutAll,
       NoCookie, Post, NoCall, Serve, ServeLogin, ServeRefresh, ServeLogout,
       ServeLogoutAll, ServeFails, Queued
  <2>2. CASE Run(r)
    <3>1. req[r].pc \in Rotating /\ call[r].rpc = "running"
      <4>1. req[r].pc # "idle"
        BY <2>2 DEF Run, FindOwner, RevokePresented, GenerateTokens,
           StoreRefreshToken, StoreCollides, MarkOldReplaced, At
      <4> QED
        BY <1>0, <4>1 DEF GatewayInv, GatewayTypeOK
    <3>2. CASE req'[r].pc = "idle"
      BY <1>0, <2>2, <3>1, <3>2 DEF Run, Used
    <3>3. CASE req'[r].pc # "idle"
      <4>1. req'[r].pc \in Rotating
        BY <1>0, <2>2, <3>1, <3>3 DEF Run, FindOwner, RevokePresented, GenerateTokens,
           StoreRefreshToken, StoreCollides, MarkOldReplaced, At, Goto, Finish, Idle,
           Rotating, Request
      <4>2. call'[r] = call[r]
        BY <2>2, <3>3 DEF Run
      <4> QED
        BY <1>0, <3>1, <4>1, <4>2 DEF Rotates
    <3> QED
      BY <3>2, <3>3
  <2>3. CASE ServiceFails(r)
    <3>1. call[r].rpc = "running"
      BY <2>3 DEF ServiceFails, Fail, GatewayInv, GatewayTypeOK
    <3> QED
      BY <1>0, <2>3, <3>1 DEF ServiceFails, Used
  <2>4. CASE Return(r)
    BY <1>0, <2>4 DEF Return, Rotates
  <2>5. CASE Respond(r)
    <3>1. call[r].rpc = "value"
      BY <2>5 DEF Respond, Answers, Rotates
    <3> QED
      BY <1>0, <2>5, <3>1 DEF Carried
  <2>6. CASE Timeout(r)
    <3>1. UNCHANGED req /\ call'[r].op = call[r].op /\ call'[r].tok = call[r].tok
          /\ call'[r].rpc = call[r].rpc
      BY <1>0, <2>6 DEF Timeout, vars
    <3> QED
      BY <3>1 DEF Rotates
  <2>7. CASE AnswerLost(r)
    <3>1. call[r].rpc = "value"
      BY <2>7 DEF AnswerLost, Answers, Rotates
    <3> QED
      BY <1>0, <2>7, <3>1 DEF AnswerLost
  <2> QED
    BY <1>2, <2>1, <2>2, <2>3, <2>4, <2>5, <2>6, <2>7 DEF Slot
<1>3. CASE ServiceRestarts
  <2>1. CASE call[r].rpc = "running"
    BY <1>0, <1>3, <2>1 DEF ServiceRestarts, Used
  <2>2. CASE call[r].rpc = "value"
    <3>1. call'[r] = call[r]
      BY <1>0, <1>3, <2>2 DEF ServiceRestarts
    <3> QED
      BY <1>0, <2>2, <3>1 DEF Rotates
  <2> QED
    BY <2>1, <2>2 DEF Rotates
<1>4. CASE (Tick \/ \E u \in Users : SoftDelete(u)) /\ UNCHANGED gateway
    BY <1>1, <1>4 DEF Tick, SoftDelete, gateway
<1>5. CASE UNCHANGED <<vars, gateway>>
    BY <1>1, <1>5 DEF vars, gateway
<1> QED
    BY <1>1, <1>2, <1>3, <1>4, <1>5, OtherSlots DEF GatewayNext, Slot

\* A token gets stored by storeRefreshToken only, and reaches a client by a
\* reply only.
LEMMA StoredStep ==
    ASSUME Base, [Next]_vars, NEW r \in Reqs, Stored(r)'
    PROVE  (Stored(r) /\ req'[r].new = req[r].new) \/ StoreRefreshToken(r)
<1> USE DEF Stored
<1>0. req \in [Reqs -> Request]
    BY DEF Base, TypeOK
<1>1. ASSUME NEW q \in Reqs, Arrive(q) \/ Fail(q) \/ Handle(q), q # r
      PROVE  req'[r] = req[r]
    BY <1>0, <1>1 DEF Arrive, Login, FindUsable, FindRefused, Fail, Handle, FindOwner,
       RevokePresented, GenerateTokens, StoreRefreshToken, StoreCollides,
       MarkOldReplaced, Reply, Goto, Finish, vars
<1>2. ~ Fail(r) /\ ~ StoreCollides(r) /\ ~ Reply(r) /\ ~ Restart
    BY <1>0 DEF Fail, StoreCollides, Reply, Restart, Finish, Idle
<1>3. ~ RevokePresented(r) /\ ~ GenerateTokens(r) /\ ~ FindOwner(r)
    BY <1>0 DEF RevokePresented, GenerateTokens, FindOwner, Goto, Finish, Idle, Request
<1>4. ASSUME NEW u \in Users PROVE ~ Login(r, u)
    BY <1>0 DEF Login
<1>5. ASSUME NEW t \in given \cup {NoToken} PROVE ~ FindUsable(r, t)
    BY <1>0 DEF FindUsable
<1>6. CASE MarkOldReplaced(r)
    BY <1>0, <1>6 DEF MarkOldReplaced, At, Goto, Request
<1>7. ASSUME \/ \E t \in given \cup {NoToken} : Logout(t)
             \/ \E u \in Users : LogoutAll(u) \/ SoftDelete(u)
             \/ Tick \/ UNCHANGED vars
             \/ \E q \in Reqs, t \in given \cup {NoToken} : FindRefused(q, t)
      PROVE  UNCHANGED req
    BY <1>7 DEF Logout, LogoutAll, SoftDelete, Tick, FindRefused, vars
<1> QED
    BY <1>1, <1>2, <1>3, <1>4, <1>5, <1>6, <1>7 DEF Next, Arrive, Handle

\* given changes by a reply only.
LEMMA GivenStep ==
    ASSUME [Next]_vars
    PROVE  UNCHANGED given \/ \E r \in Reqs : Reply(r)
BY DEF Next, vars, Arrive, Handle, Login, FindUsable, FindRefused, FindOwner,
       RevokePresented, GenerateTokens, StoreRefreshToken, StoreCollides,
       MarkOldReplaced, Logout, LogoutAll, Fail, Restart, Tick, SoftDelete

\* A successor that no reply has carried yet is alive and nobody else's.
LEMMA FreshStep ==
    ASSUME GatewayInv, GatewayInv', FreshOK, [Next]_vars
    PROVE  FreshOK'
<1> SUFFICES ASSUME NEW r \in Reqs, Stored(r)'
             PROVE  /\ req'[r].new \notin given'
                    /\ Alive(req[r].new)'
                    /\ \A q \in Reqs \ {r} : Stored(q)' => req'[q].new # req'[r].new
    BY DEF FreshOK
<1>0. /\ req \in [Reqs -> Request] /\ given \subseteq stored /\ revoked \subseteq stored
      /\ \A q \in Reqs : Stored(q) => req[q].new \in stored
    BY DEF GatewayInv, Base, TypeOK, RequestsOK, RequestOK, Stored
<1>1. ASSUME NEW q \in Reqs, StoreRefreshToken(q)
      PROVE  /\ req[q].new \notin stored /\ req'[q].new = req[q].new
             /\ stored' = stored \cup {req[q].new} /\ UNCHANGED <<given, revoked>>
             /\ \A p \in Reqs \ {q} : req'[p] = req[p]
    BY <1>0, <1>1 DEF StoreRefreshToken, Create, Goto, Request
<1>2. CASE StoreRefreshToken(r)
  <2>1. Alive(req[r].new)'
    BY <1>0, <1>1, <1>2 DEF Alive, Live
  <2> QED
    BY <1>0, <1>1, <1>2, <2>1 DEF Stored
<1>3. CASE ~ StoreRefreshToken(r)
  <2>1. Stored(r) /\ req'[r].new = req[r].new
    BY <1>3, StoredStep DEF GatewayInv
  <2>2. req'[r].new \notin given'
    <3>1. CASE UNCHANGED given
      BY <2>1, <3>1 DEF FreshOK
    <3>2. ASSUME NEW q \in Reqs, Reply(q) PROVE req'[r].new \notin given'
      <4>1. q # r
        BY <1>0, <3>2 DEF Reply, Finish, Idle, Stored
      <4>2. Stored(q) /\ given' = given \cup {req[q].new}
        BY <3>2 DEF Reply, At, Stored
      <4> QED
        BY <2>1, <4>1, <4>2 DEF FreshOK
    <3> QED
      BY <3>1, <3>2, GivenStep
  <2>3. Alive(req[r].new)'
    <3>1. PICK t \in stored : t = req[r].new
      BY <1>0, <2>1
    <3>2. Alive(t) /\ t \notin given
      BY <2>1, <3>1 DEF FreshOK
    <3>3. ASSUME NEW q \in Reqs, RevokePresented(q), req[q].tok = t PROVE FALSE
      <4>1. call[q].tok = t /\ call[q].tok \in given \cup {NoToken}
        BY <3>3, Presented DEF GatewayInv, KnownTokens
      <4>2. t \in Token /\ NoToken \notin Token
        BY SessionsAssumption DEF GatewayInv, Base, TypeOK
      <4> QED
        BY <3>2, <4>1, <4>2
    <3>4. Alive(t)'
      BY <3>2, <3>3, Revoking DEF GatewayInv
    <3> QED
      BY <2>1, <3>1, <3>4
  <2>4. ASSUME NEW q \in Reqs \ {r}, Stored(q)' PROVE req'[q].new # req'[r].new
    <3>1. CASE StoreRefreshToken(q)
      BY <1>0, <1>1, <2>1, <3>1
    <3>2. CASE ~ StoreRefreshToken(q)
      BY <2>1, <2>4, <3>2, StoredStep DEF GatewayInv, FreshOK
    <3> QED
      BY <3>1, <3>2
  <2> QED
    BY <2>2, <2>3, <2>4
<1> QED
    BY <1>2, <1>3

\* Serving a message writes the message's progress, never its tokens.
LEMMA ServeStep ==
    ASSUME call \in [Reqs -> Call], NEW r \in Reqs, Serve(r)
    PROVE  /\ call[r].rpc = "queued" /\ cookie' = cookie
           /\ call'[r].op = call[r].op /\ call'[r].tok = call[r].tok
           /\ call'[r].op \in {"login", "refresh"} => call'[r].rpc # "value"
<1>1. ASSUME NEW outcome \in {"running", "value", "empty", "refused", "failed"},
             Rpc(r, outcome)
      PROVE  /\ call'[r].op = call[r].op /\ call'[r].tok = call[r].tok
             /\ call'[r].rpc = outcome
  <2>1. call[r] \in Call
      OBVIOUS
  <2>2. call'[r] = [call[r] EXCEPT !.rpc = outcome]
      BY <1>1 DEF Rpc
  <2> QED
      BY <2>1, <2>2 DEF Call
<1>2. CASE ServeLogin(r)
    BY <1>1, <1>2 DEF ServeLogin, Queued
<1>3. CASE ServeRefresh(r)
    BY <1>1, <1>3 DEF ServeRefresh, Queued
<1>4. CASE ServeLogout(r)
    BY <1>1, <1>4 DEF ServeLogout, Queued
<1>5. CASE ServeLogoutAll(r)
    BY <1>1, <1>5 DEF ServeLogoutAll, Queued
<1>6. CASE ServeFails(r)
    BY <1>1, <1>6 DEF ServeFails
<1> QED
    BY <1>2, <1>3, <1>4, <1>5, <1>6 DEF Serve

\* A response under way was there before, or is one that the handler returns.
LEMMA CarriedStep ==
    ASSUME GatewayInv, [GatewayNext]_<<vars, gateway>>, NEW r \in Reqs, Carried(r)'
    PROVE  \/ Carried(r) /\ call'[r].new = call[r].new /\ ~ Respond(r)
           \/ Return(r)
<1>0. call \in [Reqs -> Call]
    BY DEF GatewayInv, GatewayTypeOK
<1>1. ~ Respond(r) /\ ~ AnswerLost(r)
    BY <1>0 DEF Respond, AnswerLost, Free, NoCall, Carried
<1>2. CASE call'[r] = call[r]
    BY <1>1, <1>2 DEF Carried
<1>3. CASE Slot(r)
  <2>1. Browser(r) => call'[r] = call[r]
    BY <1>0 DEF Browser, PostLogin, PostRefresh, PostLogout, PostLogoutAll,
       NoCookie, Post, Carried, gateway
  <2>2. ASSUME Serve(r) PROVE FALSE
    BY <1>0, <2>2, ServeStep DEF Carried
  <2>3. Run(r) => call'[r] = call[r]
    BY <1>0 DEF Run, Rpc, Carried, Call
  <2>4. ~ ServiceFails(r)
    BY <1>0 DEF ServiceFails, Rpc, Carried, Call
  <2>5. CASE Timeout(r)
    BY <1>0, <1>1, <2>5 DEF Timeout, Carried
  <2> QED
    BY <1>1, <1>2, <1>3, <2>1, <2>2, <2>3, <2>4, <2>5 DEF Slot
<1>4. CASE ServiceRestarts
  <2>1. call'[r] = call[r] \/ call'[r].rpc = "failed"
    BY <1>0, <1>4 DEF ServiceRestarts
  <2> QED
    BY <1>2, <2>1 DEF Carried
<1> QED
    BY <1>2, <1>3, <1>4, OtherSlots DEF GatewayNext, Slot, gateway

\* The browser presents nothing but its cookie.
LEMMA PresentedToken ==
    ASSUME GatewayInv, [GatewayNext]_<<vars, gateway>>, NEW r \in Reqs
    PROVE  call'[r].tok \in {call[r].tok, cookie, NoToken}
<1>0. call \in [Reqs -> Call]
    BY DEF GatewayInv, GatewayTypeOK
<1>1. CASE Browser(r)
  <2>1. ASSUME NEW op, NEW tok \in {cookie, NoToken}, Post(r, op, tok)
        PROVE  call'[r].tok \in {cookie, NoToken}
    BY <1>0, <2>1 DEF Post
  <2>2. NoCookie(r) => call'[r] = call[r]
    BY DEF NoCookie, gateway
  <2> QED
    BY <1>1, <2>1, <2>2 DEF Browser, PostLogin, PostRefresh, PostLogout, PostLogoutAll
<1>2. CASE Serve(r)
    BY <1>0, <1>2, ServeStep
<1>3. CASE Run(r) \/ ServiceFails(r) \/ Return(r)
  <2>1. call[r] \in Call
    BY <1>0
  <2> QED
    BY <1>0, <1>3, <2>1 DEF Run, ServiceFails, Return, Rpc, Call
<1>4. CASE Respond(r) \/ Timeout(r) \/ AnswerLost(r)
    BY <1>0, <1>4 DEF Respond, Timeout, AnswerLost, Free, NoCall
<1>5. CASE ServiceRestarts
    BY <1>0, <1>5 DEF ServiceRestarts
<1>6. CASE UNCHANGED call
    BY <1>6
<1> QED
    BY <1>1, <1>2, <1>3, <1>4, <1>5, <1>6, OtherSlots DEF GatewayNext, Slot, gateway

\* The cookie is kept, cleared, or set by a response.
LEMMA CookieStep ==
    ASSUME GatewayInv, [GatewayNext]_<<vars, gateway>>
    PROVE  \/ cookie' \in {cookie, NoToken}
           \/ \E r \in Reqs : Respond(r) /\ Carried(r) /\ cookie' = call[r].new
<1>1. ASSUME NEW r \in Reqs, Respond(r)
      PROVE \/ cookie' \in {cookie, NoToken}
            \/ Carried(r) /\ cookie' = call[r].new
    BY <1>1 DEF Respond, HttpStatus, SetCookie, Carried
<1>2. ASSUME NEW r \in Reqs, Browser(r) \/ Serve(r) PROVE cookie' = cookie
    BY <1>2 DEF Browser, PostLogin, PostRefresh, PostLogout, PostLogoutAll, NoCookie,
       Post, gateway, Serve, ServeLogin, ServeRefresh, ServeLogout, ServeLogoutAll,
       ServeFails
<1>3. ASSUME NEW r \in Reqs, Run(r) \/ ServiceFails(r) \/ Return(r) \/ Timeout(r) \/ AnswerLost(r)
      PROVE  cookie' = cookie
    BY <1>3 DEF Run, ServiceFails, Return, Timeout, AnswerLost
<1> QED
    BY <1>1, <1>2, <1>3 DEF GatewayNext, ServiceRestarts, gateway

\* A response under way brings a token that nobody else has.
LEMMA CarriedOKStep ==
    ASSUME GatewayInv, GatewayInv', FreshOK, CarriedOK,
           [GatewayNext]_<<vars, gateway>>
    PROVE  CarriedOK'
<1> SUFFICES ASSUME NEW r \in Reqs, Carried(r)'
             PROVE  /\ Alive(call[r].new)'
                    /\ call'[r].new # cookie'
                    /\ \A q \in Reqs : call'[q].tok # call'[r].new
                    /\ \A q \in Reqs \ {r} : Carried(q)' => call'[q].new # call'[r].new
    BY DEF CarriedOK
<1>0. /\ req \in [Reqs -> Request] /\ call \in [Reqs -> Call]
      /\ given \subseteq stored /\ stored \subseteq Token /\ NoToken \notin Token
      /\ \A q \in Reqs : Stored(q) => req[q].new \in stored
    BY SessionsAssumption
       DEF GatewayInv, GatewayTypeOK, Base, TypeOK, RequestsOK, RequestOK, Stored
<1>1. ASSUME NEW q \in Reqs, Return(q)
      PROVE  /\ Stored(q) /\ call'[q].new = req[q].new
             /\ UNCHANGED <<cookie, stored, revoked, fate>>
             /\ call'[q].tok = call[q].tok
             /\ \A p \in Reqs \ {q} : call'[p] = call[p]
    BY <1>0, <1>1 DEF Return, Reply, At, Stored, table, hist
<1>2. CASE Return(r)
  <2>1. req[r].new \notin given /\ req[r].new # NoToken /\ Alive(req[r].new)
    BY <1>0, <1>1, <1>2 DEF FreshOK
  <2>2. Alive(call[r].new)'
    BY <1>1, <1>2, <2>1 DEF Alive, Live
  <2>3. ASSUME NEW q \in Reqs \ {r}, Carried(q)' PROVE call'[q].new \in given
    BY <1>1, <1>2, <2>3 DEF Carried, GatewayInv, GatewayTypeOK
  <2>4. \A q \in Reqs : call'[q].tok \in given \cup {NoToken}
    BY <1>1, <1>2 DEF GatewayInv, KnownTokens
  <2> QED
    BY <1>1, <1>2, <2>1, <2>2, <2>3, <2>4 DEF GatewayInv, GatewayTypeOK
<1>3. CASE Carried(r) /\ call'[r].new = call[r].new /\ ~ Respond(r)
  <2>1. PICK t \in given : t = call[r].new
    BY <1>3 DEF Carried, GatewayInv, GatewayTypeOK
  <2>2. /\ Alive(t) /\ t # cookie /\ t # NoToken
        /\ \A q \in Reqs : call[q].tok # t
        /\ \A q \in Reqs \ {r} : Carried(q) => call[q].new # t
    BY <1>0, <1>3, <2>1 DEF CarriedOK
  <2>3. Alive(t)'
    <3>1. ASSUME NEW q \in Reqs, RevokePresented(q), req[q].tok = t PROVE FALSE
      BY <2>2, <3>1, Presented
    <3> QED
      BY <1>0, <2>1, <2>2, <3>1, Revoking, GatewayStep DEF GatewayInv
  <2>4. t # cookie'
    BY <1>3, <2>2, CookieStep
  <2>5. ASSUME NEW q \in Reqs PROVE call'[q].tok # t
    BY <2>2, PresentedToken
  <2>6. ASSUME NEW q \in Reqs \ {r}, Carried(q)' PROVE call'[q].new # t
    <3>1. CASE Return(q)
      BY <1>1, <2>1, <3>1 DEF FreshOK
    <3>2. CASE Carried(q) /\ call'[q].new = call[q].new
      BY <2>2, <3>2
    <3> QED
      BY <2>6, <3>1, <3>2, CarriedStep
  <2> QED
    BY <1>3, <2>1, <2>3, <2>4, <2>5, <2>6
<1> QED
    BY <1>2, <1>3, CarriedStep

\* No step takes a token off the list of the lost.
LEMMA LostGrows ==
    ASSUME [GatewayNext]_<<vars, gateway>>
    PROVE  lost \subseteq lost'
BY DEF GatewayNext, Browser, PostLogin, PostRefresh, PostLogout, PostLogoutAll,
       NoCookie, Post, Serve, ServeLogin, ServeRefresh, ServeLogout, ServeLogoutAll,
       ServeFails, Run, ServiceFails, Return, Respond, Timeout, AnswerLost,
       ServiceRestarts, gateway

\* The cookie stays accounted for.
LEMMA CookieOKStep ==
    ASSUME GatewayInv, GatewayInv', CarriedOK, CookieOK,
           [GatewayNext]_<<vars, gateway>>
    PROVE  CookieOK'
<1> SUFFICES ASSUME cookie' # NoToken
             PROVE  \/ Alive(cookie)' \/ cookie' \in lost'
                    \/ \E r \in Reqs : Rotates(r, cookie)'
    BY DEF CookieOK
<1>1. CASE cookie' = cookie
  <2>1. PICK t \in given : t = cookie
    BY <1>1 DEF GatewayInv, GatewayTypeOK
  <2>2. t \in stored /\ t \in Token
    BY DEF GatewayInv, Base, TypeOK
  <2>3. SUFFICES Alive(t)' \/ t \in lost' \/ \E r \in Reqs : Rotates(r, t)'
    BY <1>1, <2>1 DEF Rotates
  <2>4. CASE Alive(t)
    <3>1. ASSUME NEW r \in Reqs, RevokePresented(r), req[r].tok = t
          PROVE  Rotates(r, t)'
      BY <3>1, Presented DEF Rotates
    <3>2. CASE \A r \in Reqs : ~ (RevokePresented(r) /\ req[r].tok = t)
      BY <2>2, <2>4, <3>2, Revoking, GatewayStep DEF GatewayInv
    <3> QED
      BY <3>1, <3>2
  <2>5. CASE t \in lost
    BY <2>5, LostGrows
  <2>6. ASSUME NEW r \in Reqs, Rotates(r, t) PROVE Rotates(r, t)' \/ t \in lost'
    <3>1. ASSUME Respond(r), Carried(r) PROVE FALSE
      <4>1. call[r].op = "refresh" /\ call[r].rpc = "value"
        BY <2>6, <3>1 DEF Rotates, Carried
      <4>2. cookie' = call[r].new
        BY <3>1, <4>1 DEF Respond, HttpStatus, SetCookie
      <4> QED
        BY <1>1, <3>1, <4>2 DEF CarriedOK
    <3> QED
      BY <2>2, <2>6, <3>1, RotatesStep
  <2> QED
    BY <1>1, <2>1, <2>4, <2>5, <2>6 DEF CookieOK
<1>2. ASSUME NEW r \in Reqs, Respond(r), Carried(r), cookie' = call[r].new
      PROVE  Alive(cookie)'
    BY <1>2 DEF CarriedOK, Alive, Live, Respond, vars, table, hist
<1> QED
    BY <1>1, <1>2, CookieStep

\* The cookie always opens a session, except after a logout and while or
\* after a refresh has used it up whose answer has not arrived; for every
\* number of tabs, in whatever order the responses come.
THEOREM CookieCorrect == GatewaySpec => []CookieUsable
<1>1. GatewayInit => FreshOK /\ CarriedOK /\ CookieOK
    BY DEF GatewayInit, Init, Idle, NoCall, FreshOK, Stored, CarriedOK, Carried, CookieOK
<1>2. /\ GatewayInv /\ GatewayInv' /\ FreshOK /\ CarriedOK /\ CookieOK
      /\ [GatewayNext]_<<vars, gateway>>
      => (FreshOK /\ CarriedOK /\ CookieOK)'
    BY GatewayStep, FreshStep, CarriedOKStep, CookieOKStep
<1>3. CookieOK => CookieUsable
    BY DEF CookieOK, CookieUsable, Alive, Rotates
<1> QED
    BY <1>1, <1>2, <1>3, GatewayInvariant, PTL DEF GatewaySpec
=============================================================================
