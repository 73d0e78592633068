----------------------------- MODULE AccessProofs -----------------------------
(***************************************************************************)
(* The verdicts of the guards are in force, for all users, clients and     *)
(* times.  What has to be carried along is how old a role may be at each   *)
(* stage: in a handler that is still waited for it was held since the      *)
(* request, and a delivered token expires before it is older than Window.  *)
(***************************************************************************)
EXTENDS Access, TLAPS

\* A handler's role was held at or after its request.
ReadInv(a) == a.pc = "read" => last[a.user][a.role] >= a.since

\* So was that of a token, which expires a lifetime after its signing; both
\* happen within the timeout when the gateway still waits.
SignedInv(a) ==
    a.pc = "signed" =>
        /\ last[a.token.user][a.token.role] >= a.since
        /\ a.token.exp >= a.since + AccessTTL
        /\ a.waiting => a.token.exp <= a.since + Window

\* The timers fire on time.
WaitInv(a) ==
    a # NoAuth => a.since <= clock /\ (a.waiting => clock <= a.since + RpcTimeout)

\* A token out of date by more than Window has expired.
TokenInv(t) == t # NoAccess => t.exp <= last[t.user][t.role] + Window

Inv ==
    /\ AccessTypeOK
    /\ \A u \in Users : \A ro \in Roles : last[u][ro] <= clock
    /\ \A u \in Users : role[u] \in Roles => last[u][role[u]] = clock
    /\ \A c \in Clients :
          ReadInv(auth[c]) /\ SignedInv(auth[c]) /\ WaitInv(auth[c]) /\ TokenInv(access[c])

-----------------------------------------------------------------------------
LEMMA WindowIsNat == Window \in Nat
  BY TimesAssumption DEF Window

\* The states of a sign-in by their tag.
LEMMA AuthCases ==
  ASSUME NEW a \in Auth
  PROVE  /\ a.pc \in {"idle", "posted", "read", "signed"}
         /\ a = NoAuth <=> a.pc = "idle"
         /\ a # NoAuth => a.since \in Nat /\ a.waiting \in BOOLEAN
         /\ a.pc \in {"posted", "read"} => a.user \in Users
         /\ a.pc = "read" => a.role \in Roles
         /\ a.pc = "signed" => a.token \in AccessToken
<1>1. CASE a = NoAuth
  BY <1>1 DEF NoAuth
<1>2. CASE a \in [pc : {"posted"}, user : Users, since : Nat, waiting : BOOLEAN]
  BY <1>2 DEF NoAuth
<1>3. CASE a \in [pc : {"read"}, user : Users, since : Nat, waiting : BOOLEAN, role : Roles]
  BY <1>3 DEF NoAuth
<1>4. CASE a \in [pc : {"signed"}, since : Nat, waiting : BOOLEAN, token : AccessToken]
  BY <1>4 DEF NoAuth
<1>5. QED
  BY <1>1, <1>2, <1>3, <1>4 DEF Auth

LEMMA InitInv == Init => Inv
<1>. SUFFICES ASSUME Init PROVE Inv
  OBVIOUS
<1>1. AccessTypeOK
  BY WindowIsNat DEF Init, AccessTypeOK, Auth, Call
<1>2. ASSUME NEW u \in Users
      PROVE  /\ \A ro \in Roles : last[u][ro] <= clock
             /\ role[u] \in Roles => last[u][role[u]] = clock
  <2>1. clock \in Nat
    BY WindowIsNat DEF Init
  <2>2. \A ro \in Roles : last[u][ro] = IF role[u] = ro THEN clock ELSE 0
    BY DEF Init
  <2>3. QED
    BY <2>1, <2>2
<1>3. \A c \in Clients : auth[c] = NoAuth /\ access[c] = NoAccess
  BY DEF Init
<1>4. QED
  BY <1>1, <1>2, <1>3 DEF Inv, ReadInv, SignedInv, WaitInv, TokenInv, NoAuth

-----------------------------------------------------------------------------
(* The steps.                                                              *)

\* Only the client's own sign-in changes, to one for which the parts hold.
LEMMA AuthStep ==
  ASSUME Inv, NEW c \in Clients, NEW a \in Auth,
         auth' = [auth EXCEPT ![c] = a],
         ReadInv(a), SignedInv(a), WaitInv(a),
         UNCHANGED <<clock, role, last, access, http>>
  PROVE  Inv'
<1>1. AccessTypeOK'
  BY DEF Inv, AccessTypeOK
<1>2. \A d \in Clients : auth'[d] = IF d = c THEN a ELSE auth[d]
  BY DEF Inv, AccessTypeOK
<1>3. \A d \in Clients :
         ReadInv(auth[d])' /\ SignedInv(auth[d])' /\ WaitInv(auth[d])' /\ TokenInv(access[d])'
  BY <1>2 DEF Inv, ReadInv, SignedInv, WaitInv, TokenInv
<1>4. QED
  BY <1>1, <1>3 DEF Inv

\* The clock moves, and with it what the users have at the moment.
LEMMA TickStep == Inv /\ Tick => Inv'
<1>. SUFFICES ASSUME Inv, Tick PROVE Inv'
  OBVIOUS
<1>1. clock \in Nat /\ clock' = clock + 1
  BY DEF Inv, AccessTypeOK, Tick
<1>2. /\ last' \in [Users -> [Roles -> Nat]]
      /\ \A u \in Users : \A ro \in Roles :
            last'[u][ro] = IF role[u] = ro THEN clock + 1 ELSE last[u][ro]
  BY <1>1 DEF Inv, AccessTypeOK, Tick
<1>3. \A u \in Users : \A ro \in Roles :
         last[u][ro] \in Nat /\ last'[u][ro] \in Nat
         /\ last[u][ro] <= last'[u][ro] /\ last'[u][ro] <= clock'
  BY <1>1, <1>2 DEF Inv, AccessTypeOK
<1>4. \A u \in Users : role'[u] \in Roles => last'[u][role'[u]] = clock'
  BY <1>1, <1>2 DEF Tick
<1>5. AccessTypeOK'
  BY <1>1, <1>2 DEF Inv, AccessTypeOK, Tick
<1>6. ASSUME NEW c \in Clients
      PROVE  ReadInv(auth[c])' /\ SignedInv(auth[c])' /\ WaitInv(auth[c])' /\ TokenInv(access[c])'
  <2>1. auth[c] \in Auth /\ auth'[c] = auth[c] /\ access'[c] = access[c]
        /\ access[c] \in AccessToken \cup {NoAccess}
    BY DEF Inv, AccessTypeOK, Tick
  <2>2. ReadInv(auth[c])'
    BY <1>3, <2>1, AuthCases DEF Inv, ReadInv
  <2>3. SignedInv(auth[c])'
    <3>. SUFFICES ASSUME auth[c].pc = "signed" PROVE SignedInv(auth[c])'
      BY <2>1 DEF SignedInv
    <3>1. auth[c].token \in AccessToken /\ auth[c].since \in Nat
      BY <2>1, AuthCases
    <3>2. QED
      BY <1>3, <2>1, <3>1 DEF Inv, SignedInv, AccessToken
  <2>4. WaitInv(auth[c])'
    BY <1>1, <2>1, AuthCases, TimesAssumption DEF Inv, WaitInv, Tick, Waiting
  <2>5. TokenInv(access[c])'
    BY <1>3, <2>1, WindowIsNat DEF Inv, TokenInv, AccessToken
  <2>6. QED
    BY <2>2, <2>3, <2>4, <2>5
<1>7. QED
  BY <1>3, <1>4, <1>5, <1>6 DEF Inv

\* A role that is set is held now, and no role was held earlier for it.
LEMMA SetRoleStep ==
  ASSUME Inv, NEW u \in Users, NEW ro \in Roles, SetRole(u, ro)
  PROVE  Inv'
<1>1. /\ clock \in Nat /\ clock' = clock
      /\ auth' = auth /\ access' = access /\ http' = http
  BY DEF Inv, AccessTypeOK, SetRole
<1>2. /\ last' \in [Users -> [Roles -> Nat]]
      /\ \A v \in Users : \A rr \in Roles :
            last'[v][rr] = IF v = u /\ rr = ro THEN clock ELSE last[v][rr]
  <2>1. last \in [Users -> [Roles -> Nat]] /\ last' = [last EXCEPT ![u][ro] = clock]
    BY DEF Inv, AccessTypeOK, SetRole
  <2>. QED BY <1>1, <2>1
<1>3. \A v \in Users : \A rr \in Roles :
         last[v][rr] \in Nat /\ last'[v][rr] \in Nat
         /\ last[v][rr] <= last'[v][rr] /\ last'[v][rr] <= clock'
  <2>1. /\ last \in [Users -> [Roles -> Nat]]
        /\ \A v \in Users : \A rr \in Roles : last[v][rr] <= clock
    BY DEF Inv, AccessTypeOK
  <2>. QED BY <1>1, <1>2, <2>1
<1>4. /\ role' \in [Users -> Roles \cup {"gone"}]
      /\ \A v \in Users : role'[v] = IF v = u THEN ro ELSE role[v]
  BY DEF Inv, AccessTypeOK, SetRole
<1>5. \A v \in Users : role'[v] \in Roles => last'[v][role'[v]] = clock'
  BY <1>1, <1>2, <1>4 DEF Inv
<1>6. AccessTypeOK'
  BY <1>1, <1>2, <1>4 DEF Inv, AccessTypeOK
<1>7. ASSUME NEW c \in Clients
      PROVE  ReadInv(auth[c])' /\ SignedInv(auth[c])' /\ WaitInv(auth[c])' /\ TokenInv(access[c])'
  <2>1. auth[c] \in Auth /\ access[c] \in AccessToken \cup {NoAccess}
    BY DEF Inv, AccessTypeOK
  <2>2. ReadInv(auth[c])'
    BY <1>1, <1>3, <2>1, AuthCases DEF Inv, ReadInv
  <2>3. SignedInv(auth[c])'
    <3>. SUFFICES ASSUME auth[c].pc = "signed" PROVE SignedInv(auth[c])'
      BY <1>1 DEF SignedInv
    <3>1. auth[c].token \in AccessToken /\ auth[c].since \in Nat
      BY <2>1, AuthCases
    <3>2. QED
      BY <1>1, <1>3, <3>1 DEF Inv, SignedInv, AccessToken
  <2>4. WaitInv(auth[c])'
    BY <1>1 DEF Inv, WaitInv
  <2>5. TokenInv(access[c])'
    BY <1>1, <1>3, <2>1, WindowIsNat DEF Inv, TokenInv, AccessToken
  <2>6. QED
    BY <2>2, <2>3, <2>4, <2>5
<1>8. QED
  BY <1>3, <1>5, <1>6, <1>7 DEF Inv

LEMMA DeleteStep ==
  ASSUME Inv, NEW u \in Users, Delete(u)
  PROVE  Inv'
<1>1. /\ role' \in [Users -> Roles \cup {"gone"}]
      /\ \A v \in Users : role'[v] = IF v = u THEN "gone" ELSE role[v]
  BY DEF Inv, AccessTypeOK, Delete
<1>2. AccessTypeOK'
  BY <1>1 DEF Inv, AccessTypeOK, Delete
<1>3. "gone" \notin Roles
  BY DEF Roles
<1>4. QED
  BY <1>1, <1>2, <1>3 DEF Inv, Delete, ReadInv, SignedInv, WaitInv, TokenInv

LEMMA PostStep ==
  ASSUME Inv, NEW c \in Clients, NEW u \in Users, Post(c, u)
  PROVE  Inv'
<1>. DEFINE a == [pc |-> "posted", user |-> u, since |-> clock, waiting |-> TRUE]
<1>1. a \in Auth /\ clock \in Nat
  BY DEF Inv, AccessTypeOK, Auth
<1>2. ReadInv(a) /\ SignedInv(a) /\ WaitInv(a)
  BY <1>1, TimesAssumption DEF ReadInv, SignedInv, WaitInv
<1>3. QED
  BY <1>1, <1>2, AuthStep DEF Post

\* The role that is read is held now, which is not before the request.
LEMMA ReadUserStep ==
  ASSUME Inv, NEW c \in Clients, ReadUser(c)
  PROVE  Inv'
<1>1. PICK ro \in RoleRead(auth[c].user) :
         auth' = [auth EXCEPT ![c] =
                    [pc |-> "read", user |-> auth[c].user, since |-> auth[c].since,
                     waiting |-> auth[c].waiting, role |-> ro]]
  BY DEF ReadUser
<1>. DEFINE a == [pc |-> "read", user |-> auth[c].user, since |-> auth[c].since,
                  waiting |-> auth[c].waiting, role |-> ro]
<1>2. /\ auth[c] # NoAuth /\ auth[c].user \in Users
      /\ auth[c].since \in Nat /\ auth[c].waiting \in BOOLEAN
  BY AuthCases DEF Inv, AccessTypeOK, ReadUser
<1>3. ro \in Roles /\ ro = role[auth[c].user]
  BY <1>2 DEF RoleRead, Inv, AccessTypeOK
<1>4. a \in Auth
  BY <1>2, <1>3 DEF Auth
<1>5. ReadInv(a) /\ SignedInv(a) /\ WaitInv(a)
  BY <1>2, <1>3 DEF Inv, ReadInv, SignedInv, WaitInv
<1>6. QED
  BY <1>1, <1>4, <1>5, AuthStep DEF ReadUser

LEMMA GenerateTokensStep ==
  ASSUME Inv, NEW c \in Clients, GenerateTokens(c)
  PROVE  Inv'
<1>. DEFINE t == [user |-> auth[c].user, role |-> auth[c].role, exp |-> clock + AccessTTL]
            a == [pc |-> "signed", since |-> auth[c].since, waiting |-> auth[c].waiting,
                  token |-> t]
<1>1. /\ auth[c] # NoAuth /\ auth[c].user \in Users /\ auth[c].role \in Roles
      /\ auth[c].since \in Nat /\ auth[c].waiting \in BOOLEAN
      /\ clock \in Nat
  BY AuthCases DEF Inv, AccessTypeOK, GenerateTokens
<1>2. t \in AccessToken
  BY <1>1, TimesAssumption DEF AccessToken
<1>3. a \in Auth
  BY <1>1, <1>2 DEF Auth
<1>4. ReadInv(a) /\ WaitInv(a)
  BY <1>1 DEF Inv, ReadInv, WaitInv
<1>5. SignedInv(a)
  BY <1>1, TimesAssumption DEF Inv, ReadInv, WaitInv, SignedInv, GenerateTokens, Window
<1>6. QED
  BY <1>3, <1>4, <1>5, AuthStep DEF GenerateTokens

LEMMA RefuseStep ==
  ASSUME Inv, NEW c \in Clients, Refuse(c)
  PROVE  Inv'
<1>1. NoAuth \in Auth /\ ReadInv(NoAuth) /\ SignedInv(NoAuth) /\ WaitInv(NoAuth)
  BY DEF Auth, NoAuth, ReadInv, SignedInv, WaitInv
<1>2. QED
  BY <1>1, AuthStep DEF Refuse

LEMMA TimeoutStep ==
  ASSUME Inv, NEW c \in Clients, Timeout(c)
  PROVE  Inv'
<1>. DEFINE a == [auth[c] EXCEPT !.waiting = FALSE]
<1>1. auth[c] \in Auth /\ auth[c] # NoAuth /\ auth' = [auth EXCEPT ![c] = a]
  BY DEF Inv, AccessTypeOK, Timeout, Waiting
<1>2. a \in Auth
  BY <1>1 DEF Auth, NoAuth
<1>3. CASE auth[c].pc = "posted"
  <2>1. a.pc = "posted" /\ a.since = auth[c].since /\ ~ a.waiting
    BY <1>1, <1>3 DEF Auth, NoAuth
  <2>2. QED
    BY <1>1, <1>2, <2>1, AuthStep DEF Inv, Timeout, ReadInv, SignedInv, WaitInv
<1>4. CASE auth[c].pc = "read"
  <2>1. /\ a.pc = "read" /\ a.since = auth[c].since /\ ~ a.waiting
        /\ a.user = auth[c].user /\ a.role = auth[c].role
    BY <1>1, <1>4 DEF Auth, NoAuth
  <2>2. QED
    BY <1>1, <1>2, <1>4, <2>1, AuthStep DEF Inv, Timeout, ReadInv, SignedInv, WaitInv
<1>5. CASE auth[c].pc = "signed"
  <2>1. a.pc = "signed" /\ a.since = auth[c].since /\ ~ a.waiting /\ a.token = auth[c].token
    BY <1>1, <1>5 DEF Auth, NoAuth
  <2>2. QED
    BY <1>1, <1>2, <1>5, <2>1, AuthStep DEF Inv, Timeout, ReadInv, SignedInv, WaitInv
<1>6. QED
  BY <1>1, <1>3, <1>4, <1>5, AuthCases

LEMMA DeliverStep ==
  ASSUME Inv, NEW c \in Clients, Deliver(c)
  PROVE  Inv'
<1>. DEFINE t == auth[c].token
<1>1. /\ auth[c] \in Auth /\ auth[c].pc = "signed" /\ auth[c].waiting
      /\ t \in AccessToken /\ auth[c].since \in Nat
  BY AuthCases DEF Inv, AccessTypeOK, Deliver
<1>2. /\ \A d \in Clients : auth'[d] = IF d = c THEN NoAuth ELSE auth[d]
      /\ \A d \in Clients : access'[d] = IF d = c THEN t ELSE access[d]
      /\ last' = last /\ clock' = clock /\ role' = role /\ http' = http
  BY DEF Inv, AccessTypeOK, Deliver
<1>3. AccessTypeOK'
  BY <1>1 DEF Inv, AccessTypeOK, Deliver, Auth
<1>4. TokenInv(t)
  <2>1. t.exp \in Nat /\ last[t.user][t.role] \in Nat
    BY <1>1 DEF Inv, AccessTypeOK, AccessToken
  <2>2. last[t.user][t.role] >= auth[c].since /\ t.exp <= auth[c].since + Window
    BY <1>1 DEF Inv, SignedInv
  <2>3. QED
    BY <1>1, <2>1, <2>2, WindowIsNat DEF TokenInv
<1>5. ReadInv(NoAuth)' /\ SignedInv(NoAuth)' /\ WaitInv(NoAuth)'
  BY DEF NoAuth, ReadInv, SignedInv, WaitInv
<1>6. \A d \in Clients :
         ReadInv(auth[d])' /\ SignedInv(auth[d])' /\ WaitInv(auth[d])' /\ TokenInv(access[d])'
  BY <1>2, <1>4, <1>5 DEF Inv, ReadInv, SignedInv, WaitInv, TokenInv
<1>7. QED
  BY <1>2, <1>3, <1>6 DEF Inv

\* The guards and the services change nothing but the call.
LEMMA CallStep ==
  ASSUME Inv, NEW c \in Clients, CallRoute(c)
  PROVE  Inv'
<1>1. UNCHANGED <<clock, role, last, auth, access>>
  BY DEF CallRoute, Unauthorized, Forbidden, Pass, BadRequest, ServiceError, Done, Answer
<1>2. access[c] # NoAccess => access[c].user \in Users
  BY DEF Inv, AccessTypeOK, AccessToken
<1>3. \A route \in Routes : Required(route) \in SUBSET Roles
  BY DEF Required, Roles
<1>4. http' \in [Clients -> Call]
  <2>1. CASE Unauthorized(c)
    BY <2>1 DEF Inv, AccessTypeOK, Unauthorized, Answer, Call
  <2>2. ASSUME NEW route \in Routes, Forbidden(c, route) \/ Pass(c, route)
        PROVE  http' \in [Clients -> Call]
    <3>1. ASSUME NEW s \in {"403", "passed"}
          PROVE  [status |-> s, user |-> access[c].user, asked |-> Required(route)] \in Call
      BY <1>2, <1>3, <2>2 DEF Call, Forbidden, Pass, Valid
    <3>2. QED
      BY <2>2, <3>1 DEF Inv, AccessTypeOK, Forbidden, Pass, Answer
  <2>3. CASE BadRequest(c) \/ ServiceError(c)
    <3>1. http[c] \in Call /\ http[c].status = "passed"
      BY <2>3 DEF Inv, AccessTypeOK, BadRequest, ServiceError
    <3>2. http[c].user \in Users /\ http[c].asked \in SUBSET Roles
      BY <3>1 DEF Call, NoCall
    <3>3. QED
      BY <2>3, <3>2 DEF Inv, AccessTypeOK, BadRequest, ServiceError, Answer, Call
  <2>4. CASE Done(c)
    BY <2>4 DEF Inv, AccessTypeOK, Done, Answer, Call
  <2>5. QED
    BY <2>1, <2>2, <2>3, <2>4 DEF CallRoute
<1>5. QED
  BY <1>1, <1>4 DEF Inv, AccessTypeOK, ReadInv, SignedInv, WaitInv, TokenInv

LEMMA NextInv == Inv /\ [Next]_vars => Inv'
<1>. SUFFICES ASSUME Inv, [Next]_vars PROVE Inv'
  OBVIOUS
<1>1. CASE Tick
  BY <1>1, TickStep
<1>2. ASSUME NEW u \in Users, Delete(u) PROVE Inv'
  BY <1>2, DeleteStep
<1>3. ASSUME NEW u \in Users, NEW ro \in Roles, SetRole(u, ro) PROVE Inv'
  BY <1>3, SetRoleStep
<1>4. ASSUME NEW c \in Clients, SignIn(c) PROVE Inv'
  BY <1>4, PostStep, ReadUserStep, GenerateTokensStep, DeliverStep, TimeoutStep,
     RefuseStep DEF SignIn
<1>5. ASSUME NEW c \in Clients, CallRoute(c) PROVE Inv'
  BY <1>5, CallStep
<1>6. CASE UNCHANGED vars
  BY <1>6 DEF vars, Inv, AccessTypeOK, ReadInv, SignedInv, WaitInv, TokenInv
<1>7. QED
  BY <1>1, <1>2, <1>3, <1>4, <1>5, <1>6 DEF Next

-----------------------------------------------------------------------------
(* The theorems.                                                           *)

\* The variables keep their types.
THEOREM AccessTyping == Spec => []AccessTypeOK
<1>1. Inv => AccessTypeOK
  BY DEF Inv
<1>2. QED
  BY InitInv, NextInv, <1>1, PTL DEF Spec

\* A valid token names a role that its user had within Window.
LEMMA ValidIsRecent ==
  ASSUME Inv, NEW c \in Clients, Valid(access[c])
  PROVE  /\ access[c] \in AccessToken
         /\ clock < last[access[c].user][access[c].role] + Window
<1>1. access[c] \in AccessToken
  BY DEF Inv, AccessTypeOK, Valid
<1>2. last[access[c].user][access[c].role] \in Nat /\ clock \in Nat /\ access[c].exp \in Nat
  BY <1>1 DEF Inv, AccessTypeOK, AccessToken
<1>3. QED
  BY <1>1, <1>2, WindowIsNat DEF Inv, TokenInv, Valid

\* The verdicts of the guards are in force: a call passes, or is forbidden,
\* by a role that its user had within a token lifetime and a timeout.
THEOREM VerdictsCorrect == Spec => VerdictsInForce
<1>1. ASSUME Inv, [Next]_vars, NEW c \in Clients, http[c] = NoCall
      PROVE  /\ http'[c].status = "passed" => HadLately(http'[c].user, http'[c].asked)
             /\ http'[c].status = "403" => HadLately(http'[c].user, Roles \ http'[c].asked)
  <2>1. http[c].status = "none"
    BY <1>1 DEF NoCall
  <2>2. CASE \E route \in Routes : Forbidden(c, route)
    <3>1. PICK route \in Routes : Forbidden(c, route)
      BY <2>2
    <3>2. http'[c] = [status |-> "403", user |-> access[c].user, asked |-> Required(route)]
      BY <1>1, <3>1 DEF Forbidden, Answer, Inv, AccessTypeOK
    <3>3. access[c].role \in Roles \ Required(route)
      BY <1>1, <3>1, ValidIsRecent DEF Forbidden, HasRole, AccessToken
    <3>4. QED
      BY <1>1, <3>1, <3>2, <3>3, ValidIsRecent DEF Forbidden, HadLately
  <2>3. CASE \E route \in Routes : Pass(c, route)
    <3>1. PICK route \in Routes : Pass(c, route)
      BY <2>3
    <3>2. http'[c] = [status |-> "passed", user |-> access[c].user, asked |-> Required(route)]
      BY <1>1, <3>1 DEF Pass, Answer, Inv, AccessTypeOK
    <3>3. QED
      BY <1>1, <3>1, <3>2, ValidIsRecent DEF Pass, HasRole, HadLately
  <2>4. CASE Unauthorized(c)
    BY <1>1, <2>4 DEF Unauthorized, Answer, Inv, AccessTypeOK
  <2>5. CASE http'[c] = http[c]
    BY <2>1, <2>5
  <2>6. ASSUME NEW d \in Clients, d # c, CallRoute(d) PROVE http'[c] = http[c]
    BY <1>1, <2>6 DEF CallRoute, Unauthorized, Forbidden, Pass, BadRequest, ServiceError, Done, Answer,
                Inv, AccessTypeOK
  <2>7. CASE CallRoute(c)
    BY <2>1, <2>2, <2>3, <2>4, <2>7 DEF CallRoute, BadRequest, ServiceError, Done
  <2>8. CASE UNCHANGED http
    BY <2>5, <2>8
  <2>9. CASE Next
    BY <2>5, <2>6, <2>7, <2>8, <2>9
       DEF Next, Tick, Delete, SetRole, SignIn, Post, ReadUser, GenerateTokens, Deliver,
           Timeout, Refuse
  <2>10. QED
    BY <1>1, <2>8, <2>9 DEF vars
<1>2. Inv /\ [Next]_vars =>
        [\A c \in Clients :
          /\ http[c] = NoCall /\ http'[c].status = "passed"
                => HadLately(http'[c].user, http'[c].asked)
          /\ http[c] = NoCall /\ http'[c].status = "403"
                => HadLately(http'[c].user, Roles \ http'[c].asked)]_vars
  BY <1>1
<1>3. QED
  BY InitInv, NextInv, <1>2, PTL DEF Spec, VerdictsInForce

\* A delivered access token has not expired on arrival.
THEOREM ArrivalCorrect == Spec => ValidOnArrival
<1>1. ASSUME Inv, [Next]_vars, NEW c \in Clients, access'[c] # access[c]
      PROVE  clock < access'[c].exp
  <2>1. Deliver(c)
    <3>1. ASSUME NEW d \in Clients, d # c, Deliver(d) PROVE access'[c] = access[c]
      BY <3>1 DEF Deliver, Inv, AccessTypeOK
    <3>2. ~ UNCHANGED access
      BY <1>1
    <3>3. PICK d \in Clients : Deliver(d)
      BY <1>1, <3>2
         DEF vars, Next, Tick, Delete, SetRole, SignIn, Post, ReadUser, GenerateTokens,
             Timeout, Refuse, CallRoute, Unauthorized, Forbidden, Pass, BadRequest, ServiceError, Done,
             Answer
    <3>4. QED
      BY <1>1, <3>1, <3>3
  <2>2. /\ auth[c] # NoAuth /\ auth[c].token \in AccessToken
        /\ auth[c].since \in Nat /\ clock \in Nat
        /\ access'[c] = auth[c].token
    BY <1>1, <2>1, AuthCases DEF Deliver, Inv, AccessTypeOK
  <2>3. /\ auth[c].token.exp >= auth[c].since + AccessTTL
        /\ clock <= auth[c].since + RpcTimeout
    BY <1>1, <2>1, <2>2 DEF Inv, SignedInv, WaitInv, Deliver
  <2>4. QED
    BY <2>2, <2>3, TimesAssumption DEF AccessToken
<1>2. Inv /\ [Next]_vars =>
        [\A c \in Clients : access'[c] # access[c] => clock < access'[c].exp]_vars
  BY <1>1
<1>3. QED
  BY InitInv, NextInv, <1>2, PTL DEF Spec, ValidOnArrival
=============================================================================
