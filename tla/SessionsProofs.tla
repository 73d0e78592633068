--------------------------- MODULE SessionsProofs ---------------------------
(***************************************************************************)
(* Proofs about Sessions, for every set of users, every number of          *)
(* overlapping requests and every clock bound.  The invariant is built in  *)
(* layers; each layer is proved from the ones before it.                   *)
(***************************************************************************)
EXTENDS Sessions, TLAPS

Issuing == {"store", "mark", "reply"}
Rotating == {"sign", "store", "mark", "reply"}

\* What a request slot knows about the table, by the step it is at.
RequestOK(r) ==
    /\ req[r].pc = "idle" <=> req[r].op = "none"
    /\ req[r].op = "login" =>
          req[r].pc \in {"sign", "store", "reply"} /\ req[r].tok = NoToken
    /\ req[r].op # "none" => req[r].user \in Users
    /\ req[r].op = "refresh" =>
          req[r].tok \in stored /\ req[r].user = req[r].tok.user
    /\ req[r].op = "refresh" /\ req[r].pc \in Rotating =>
          req[r].tok \in revoked
    /\ req[r].pc \in Issuing =>
          /\ req[r].new \in Token
          /\ req[r].new.user = req[r].user
          /\ req[r].new.iat <= clock
          /\ req[r].op = "refresh" => req[r].tok.iat <= req[r].new.iat
    /\ req[r].pc \in {"mark", "reply"} => req[r].new \in stored
    /\ req[r].op = "refresh" /\ req[r].pc \in {"mark", "reply"} =>
          parent[req[r].new] = req[r].tok

RequestsOK == \A r \in Reqs : RequestOK(r)

\* No row was issued in the future.
Aged == \A t \in stored : t.iat <= clock

Base == TypeOK /\ RequestsOK /\ Aged

-----------------------------------------------------------------------------
\* The initial state satisfies the invariants that speak of the requests.
LEMMA BaseInit == Init => Base
BY SessionsAssumption
   DEF Init, Base, TypeOK, RequestsOK, RequestOK, Aged, Idle, Request, Ops,
       Steps, Time, Issuing, Rotating, Fates

\* generateTokens signs a token of the user, dated with the clock.
LEMMA JwtIsToken ==
    ASSUME TypeOK, NEW u \in Users
    PROVE  /\ Jwt(u) \in Token
           /\ Jwt(u).user = u /\ Jwt(u).iat = clock
BY DEF TypeOK, Jwt, Token

\* A token is a record of a user and a second.
LEMMA TokenFields ==
    ASSUME NEW t \in Token
    PROVE  t.user \in Users /\ t.iat \in Time
BY DEF Token

USE DEF At

\* A handler that goes on or ends is a handler.
LEMMA RequestTypes ==
  /\ Idle \in Request
  /\ \A q \in Request : \A pc \in Steps : [q EXCEPT !.pc = pc] \in Request
BY DEF Idle, Request, Ops, Steps

LEMMA OwnerTypes ==
  ASSUME TypeOK, NEW r \in Reqs, FindOwner(r)
  PROVE  TypeOK'
<1>1. req \in [Reqs -> Request] /\ "revoke" \in Steps
  BY DEF TypeOK, Steps
<1>2. \/ req' = [req EXCEPT ![r] = [req[r] EXCEPT !.pc = "revoke"]]
      \/ req' = [req EXCEPT ![r] = Idle]
  BY DEF FindOwner, Goto, Finish
<1>3. req' \in [Reqs -> Request]
  BY <1>1, <1>2, RequestTypes
<1>4. UNCHANGED <<clock, active, stored, revoked, expiresAt, replacedBy, given,
                  parent, line, contended, overtaken, fate>>
  BY DEF FindOwner, table, hist
<1>. QED BY <1>3, <1>4 DEF TypeOK

LEMMA RevocationTypes ==
  ASSUME TypeOK, NEW r \in Reqs, RevokePresented(r)
  PROVE  TypeOK'
<1>1. req \in [Reqs -> Request] /\ "sign" \in Steps
  BY DEF TypeOK, Steps
<1>2. req' \in [Reqs -> Request]
  BY <1>1, RequestTypes DEF RevokePresented, Goto
<1>3. revoked' \subseteq stored
  BY DEF TypeOK, RevokePresented, RevokeByToken
<1>4. UNCHANGED <<clock, active, stored, expiresAt, replacedBy, given,
                  parent, line, contended, overtaken, fate>>
  BY DEF RevokePresented, hist
<1>. QED BY <1>2, <1>3, <1>4 DEF TypeOK

\* Every handler step keeps the types of the rows, requests and history.
LEMMA TypeStep == Base /\ [Next]_vars => TypeOK'
<1> SUFFICES ASSUME Base, [Next]_vars PROVE TypeOK'
    OBVIOUS
<1> USE SessionsAssumption
    DEF Base, TypeOK, table, hist, Goto, Finish, Idle, Ops, Steps, Request, Fates
<1>1. ASSUME NEW r \in Reqs, NEW u \in Users, Login(r, u) PROVE TypeOK'
    BY <1>1 DEF Login
<1>2. ASSUME NEW r \in Reqs, NEW t \in given \cup {NoToken}, FindUsable(r, t)
      PROVE TypeOK'
  <2>1. t \in Token /\ t.user \in Users
    BY <1>2 DEF FindUsable, Live, Token
  <2>2. req' \in [Reqs -> Request]
    BY <1>2, <2>1 DEF FindUsable
  <2>3. contended' \subseteq Token
    BY <1>2, <2>1 DEF FindUsable
  <2> QED
    BY <1>2, <2>2, <2>3 DEF FindUsable
<1>3. ASSUME NEW r \in Reqs, FindOwner(r) PROVE TypeOK'
    BY <1>3, OwnerTypes
<1>4. ASSUME NEW r \in Reqs, RevokePresented(r) PROVE TypeOK'
    BY <1>4, RevocationTypes
<1>5. ASSUME NEW r \in Reqs, GenerateTokens(r) PROVE TypeOK'
  <2>1. Jwt(req[r].user) \in Token
    BY <1>5, JwtIsToken DEF GenerateTokens, RequestsOK, RequestOK
  <2> QED
    BY <1>5, <2>1 DEF GenerateTokens
<1>6. ASSUME NEW r \in Reqs, StoreRefreshToken(r) PROVE TypeOK'
  <2>1. req[r].new \in Token /\ req[r].new.iat \in Nat
    BY <1>6, TokenFields DEF StoreRefreshToken, RequestsOK, RequestOK, Issuing, Time
  <2>2. PICK now \in req[r].new.iat .. clock :
            expiresAt' = [expiresAt EXCEPT ![req[r].new] = now + TTL]
    BY <1>6 DEF StoreRefreshToken, Create, Expiry
  <2>3. now + TTL \in Nat
    BY <2>1
  <2>4. expiresAt' \in [Token -> Nat]
    BY <2>1, <2>2, <2>3
  <2> QED
    BY <1>6, <2>1, <2>4 DEF StoreRefreshToken, Create, RequestsOK, RequestOK, Issuing, Time
<1>7. ASSUME NEW r \in Reqs, StoreCollides(r) PROVE TypeOK'
    BY <1>7 DEF StoreCollides
<1>8. ASSUME NEW r \in Reqs, MarkOldReplaced(r) PROVE TypeOK'
    BY <1>8 DEF MarkOldReplaced, MarkReplaced, RequestsOK, RequestOK, Issuing
<1>9. ASSUME NEW r \in Reqs, Reply(r) PROVE TypeOK'
    BY <1>9 DEF Reply, RequestsOK, RequestOK
<1>10. ASSUME NEW r \in Reqs, Fail(r) PROVE TypeOK'
    BY <1>10 DEF Fail
<1>11. ASSUME NEW t \in given \cup {NoToken}, Logout(t) PROVE TypeOK'
    BY <1>11 DEF Logout, RevokeByToken, EndSessions
<1>12. ASSUME NEW u \in Users, LogoutAll(u) PROVE TypeOK'
    BY <1>12 DEF LogoutAll, RevokeAllByUserId, EndSessions, Live
<1>13. ASSUME Restart PROVE TypeOK'
    BY <1>13 DEF Restart
<1>14. ASSUME Tick PROVE TypeOK'
    BY <1>14 DEF Tick, Time
<1>15. ASSUME NEW u \in Users, SoftDelete(u) PROVE TypeOK'
    BY <1>15 DEF SoftDelete
<1>16. ASSUME UNCHANGED vars PROVE TypeOK'
    BY <1>16 DEF vars
<1> QED
    BY <1>1, <1>2, <1>3, <1>4, <1>5, <1>6, <1>7, <1>8, <1>9, <1>10, <1>11,
       <1>12, <1>13, <1>14, <1>15, <1>16
    DEF Next, Arrive, Handle, FindRefused
-----------------------------------------------------------------------------
\* Every handler step keeps what a request remembers in line with the rows.
LEMMA RequestsStep == Base /\ [Next]_vars => RequestsOK'
<1> SUFFICES ASSUME Base, [Next]_vars, NEW q \in Reqs PROVE RequestOK(q)'
    BY DEF RequestsOK
<1> RequestOK(q)
    BY DEF Base, RequestsOK
<1> USE SessionsAssumption
    DEF Base, TypeOK, RequestOK, Issuing, Rotating, table, hist, Goto, Finish,
        Idle, Request, Ops, Steps
<1>1. ASSUME NEW r \in Reqs, NEW u \in Users, Login(r, u) PROVE RequestOK(q)'
    BY <1>1 DEF Login
<1>2. ASSUME NEW r \in Reqs, NEW t \in given \cup {NoToken}, FindUsable(r, t)
      PROVE RequestOK(q)'
    BY <1>2 DEF FindUsable, Live, Token
<1>3. ASSUME NEW r \in Reqs, FindOwner(r) PROVE RequestOK(q)'
    BY <1>3 DEF FindOwner
<1>4. ASSUME NEW r \in Reqs, RevokePresented(r) PROVE RequestOK(q)'
    BY <1>4 DEF RevokePresented, RevokeByToken
<1>5. ASSUME NEW r \in Reqs, GenerateTokens(r) PROVE RequestOK(q)'
  <2>1. CASE q # r
    BY <1>5, <2>1 DEF GenerateTokens
  <2>2. CASE q = r
    <3>1. req[q].user \in Users
        BY <1>5, <2>2 DEF GenerateTokens
    <3>2. /\ Jwt(req[q].user) \in Token
          /\ Jwt(req[q].user).user = req[q].user
          /\ Jwt(req[q].user).iat = clock
        BY <3>1, JwtIsToken
    <3>3. /\ req[q].op \in {"login", "refresh"}
          /\ req'[q].op = req[q].op /\ req'[q].pc = "store"
          /\ req'[q].user = req[q].user /\ req'[q].tok = req[q].tok
          /\ req'[q].new = Jwt(req[q].user)
        BY <1>5, <2>2 DEF GenerateTokens
    <3>4. req[q].op = "refresh" => req[q].tok.iat <= clock
        BY DEF Aged
    <3>5. req[q].op = "refresh" => req[q].tok \in revoked
        BY <1>5, <2>2 DEF GenerateTokens
    <3>6. UNCHANGED <<clock, stored, revoked, parent>>
        BY <1>5 DEF GenerateTokens
    <3>7. clock \in Int
        BY DEF Time
    <3> QED
        BY <3>1, <3>2, <3>3, <3>4, <3>5, <3>6, <3>7
  <2> QED
    BY <2>1, <2>2
<1>6. ASSUME NEW r \in Reqs, StoreRefreshToken(r) PROVE RequestOK(q)'
    BY <1>6 DEF StoreRefreshToken, Create
<1>7. ASSUME NEW r \in Reqs, StoreCollides(r) PROVE RequestOK(q)'
    BY <1>7 DEF StoreCollides
<1>8. ASSUME NEW r \in Reqs, MarkOldReplaced(r) PROVE RequestOK(q)'
    BY <1>8 DEF MarkOldReplaced, MarkReplaced
<1>9. ASSUME NEW r \in Reqs, Reply(r) PROVE RequestOK(q)'
    BY <1>9 DEF Reply
<1>10. ASSUME NEW r \in Reqs, Fail(r) PROVE RequestOK(q)'
    BY <1>10 DEF Fail
<1>11. ASSUME NEW t \in given \cup {NoToken}, Logout(t) PROVE RequestOK(q)'
    BY <1>11 DEF Logout, RevokeByToken, EndSessions
<1>12. ASSUME NEW u \in Users, LogoutAll(u) PROVE RequestOK(q)'
    BY <1>12 DEF LogoutAll, RevokeAllByUserId, EndSessions, Live
<1>13. ASSUME Restart PROVE RequestOK(q)'
    BY <1>13 DEF Restart
<1>14. ASSUME Tick PROVE RequestOK(q)'
    BY <1>14 DEF Tick, Time, Token
<1>15. ASSUME NEW u \in Users, SoftDelete(u) PROVE RequestOK(q)'
    BY <1>15 DEF SoftDelete
<1>16. ASSUME UNCHANGED vars PROVE RequestOK(q)'
    BY <1>16 DEF vars
<1> QED
    BY <1>1, <1>2, <1>3, <1>4, <1>5, <1>6, <1>7, <1>8, <1>9, <1>10, <1>11,
       <1>12, <1>13, <1>14, <1>15, <1>16
    DEF Next, Arrive, Handle, FindRefused

-----------------------------------------------------------------------------
\* Rows and revocations only accumulate, and only StoreRefreshToken adds a
\* row or writes a parent.
LEMMA Accumulation ==
    Base /\ [Next]_vars =>
        /\ stored \subseteq stored' /\ revoked \subseteq revoked'
        /\ \/ UNCHANGED <<stored, parent>>
           \/ \E r \in Reqs : StoreRefreshToken(r)
<1> SUFFICES ASSUME Base, [Next]_vars
             PROVE  /\ stored \subseteq stored' /\ revoked \subseteq revoked'
                    /\ \/ UNCHANGED <<stored, parent>>
                       \/ \E r \in Reqs : StoreRefreshToken(r)
    OBVIOUS
<1>1. ASSUME NEW r \in Reqs, StoreRefreshToken(r)
      PROVE  stored \subseteq stored' /\ UNCHANGED revoked
    BY <1>1 DEF StoreRefreshToken, Create
<1>2. ASSUME NEW r \in Reqs, Arrive(r) \/ Fail(r)
      PROVE  UNCHANGED <<stored, revoked, parent>>
    BY <1>2 DEF Arrive, Login, FindUsable, FindRefused, Fail, vars, table, hist
<1>3. ASSUME NEW r \in Reqs, Handle(r), ~ StoreRefreshToken(r)
      PROVE  revoked \subseteq revoked' /\ UNCHANGED <<stored, parent>>
    BY <1>3 DEF Handle, FindOwner, RevokePresented, RevokeByToken,
       GenerateTokens, StoreCollides, MarkOldReplaced, Reply, table, hist
<1>4. ASSUME \/ \E t \in given \cup {NoToken} : Logout(t)
             \/ \E u \in Users : LogoutAll(u)
      PROVE  revoked \subseteq revoked' /\ UNCHANGED <<stored, parent>>
    BY <1>4 DEF Logout, LogoutAll, RevokeByToken, RevokeAllByUserId,
       EndSessions
<1>5. ASSUME Restart \/ Tick \/ (\E u \in Users : SoftDelete(u)) \/ UNCHANGED vars
      PROVE  UNCHANGED <<stored, revoked, parent>>
    BY <1>5 DEF Restart, Tick, SoftDelete, vars, table, hist
<1> QED
    BY <1>1, <1>2, <1>3, <1>4, <1>5 DEF Next

\* The clock stays ahead of every stored token and every token in flight.
LEMMA AgedStep == Base /\ [Next]_vars => Aged'
<1> SUFFICES ASSUME Base, [Next]_vars PROVE Aged'
    OBVIOUS
<1>1. clock' = clock \/ clock' = clock + 1
  <2>1. ASSUME NEW r \in Reqs, Arrive(r) \/ Fail(r) PROVE clock' = clock
      BY <2>1 DEF Arrive, Login, FindUsable, FindRefused, Fail, vars
  <2>2. ASSUME NEW r \in Reqs, Handle(r) PROVE clock' = clock
      BY <2>2 DEF Handle, FindOwner, RevokePresented, GenerateTokens,
         StoreRefreshToken, StoreCollides, MarkOldReplaced, Reply
  <2>3. ASSUME \/ \E t \in given \cup {NoToken} : Logout(t)
               \/ \E u \in Users : LogoutAll(u) \/ SoftDelete(u)
               \/ Restart \/ UNCHANGED vars
        PROVE  clock' = clock
      BY <2>3 DEF Logout, LogoutAll, SoftDelete, Restart, vars
  <2> QED
      BY <2>1, <2>2, <2>3 DEF Next, Tick
<1>2. CASE UNCHANGED <<stored, parent>>
    BY <1>1, <1>2, TokenFields DEF Base, TypeOK, Aged, Time
<1>3. ASSUME NEW r \in Reqs, StoreRefreshToken(r) PROVE Aged'
    BY <1>3 DEF StoreRefreshToken, Create, Base, RequestsOK, RequestOK, Aged,
       Issuing
<1> QED
    BY <1>2, <1>3, Accumulation

\* The types and the requests' readings are consistent in every state.
THEOREM Consistency == Spec => []Base
<1>1. Init => Base
    BY BaseInit
<1>2. Base /\ [Next]_vars => Base'
    BY TypeStep, RequestsStep, AgedStep DEF Base
<1> QED
    BY <1>1, <1>2, PTL DEF Spec

\* Type correctness of the sessions table and its requests.
THEOREM TypeCorrect == Spec => []TypeOK
<1>1. Base => TypeOK
    BY DEF Base
<1> QED
    BY <1>1, Consistency, PTL

-----------------------------------------------------------------------------
\* A refresh about to store differs in its new token from the presented one.
LEMMA TokensDiffer ==
    ASSUME NEW s \in Token, NEW t \in Token, s.user = t.user, s.iat <= t.iat,
           s # t
    PROVE  s.iat < t.iat
<1>1. s = [user |-> s.user, iat |-> s.iat] /\ t = [user |-> t.user, iat |-> t.iat]
    BY DEF Token
<1>2. s.iat # t.iat
    BY <1>1
<1>3. s.iat \in Int /\ t.iat \in Int
    BY TokenFields DEF Time
<1> QED
    BY <1>2, <1>3

\* The token a row succeeds is revoked, of the same user, and older.
Lineage ==
    \A t \in stored : parent[t] # NoToken =>
        /\ parent[t] \in revoked
        /\ parent[t].user = t.user
        /\ parent[t].iat < t.iat

\* Every step keeps the lineage of stored tokens: dead parent, same user, older.
LEMMA LineageStep == Base /\ Lineage /\ [Next]_vars => Lineage'
<1> SUFFICES ASSUME Base, Lineage, [Next]_vars PROVE Lineage'
    OBVIOUS
<1>1. CASE UNCHANGED <<stored, parent>>
    BY <1>1, Accumulation DEF Lineage
<1>2. ASSUME NEW r \in Reqs, StoreRefreshToken(r) PROVE Lineage'
  <2> DEFINE new == req[r].new
             old == req[r].tok
  <2>1. /\ new \in Token /\ new \notin stored
        /\ stored' = stored \cup {new} /\ UNCHANGED revoked
        /\ parent' = [parent EXCEPT ![new] = old]
        /\ parent \in [Token -> Token \cup {NoToken}]
        /\ stored \subseteq Token
      BY <1>2 DEF StoreRefreshToken, Create, Base, TypeOK, RequestsOK,
         RequestOK, Issuing
  <2>2. old # NoToken =>
          old \in revoked /\ old.user = new.user /\ old.iat < new.iat
    <3> SUFFICES ASSUME old # NoToken
                 PROVE  old \in revoked /\ old.user = new.user /\ old.iat < new.iat
        OBVIOUS
    <3>1. req[r].op = "refresh"
        BY <1>2 DEF StoreRefreshToken, Base, RequestsOK, RequestOK
    <3>2. /\ old \in stored /\ old \in revoked
          /\ old.user = new.user /\ old.iat <= new.iat
        BY <1>2, <3>1 DEF StoreRefreshToken, Base, RequestsOK, RequestOK,
           Issuing, Rotating
    <3> QED
        BY <2>1, <3>2, TokensDiffer
  <2> HIDE DEF new, old
  <2> QED
      BY <2>1, <2>2 DEF Lineage
<1> QED
    BY <1>1, <1>2, Accumulation

\* The parents of stored tokens are revoked, older tokens of the same user.
THEOREM LineageCorrect == Spec => []Lineage
<1>1. Init => Lineage
    BY DEF Init, Lineage
<1> QED
    BY <1>1, LineageStep, Consistency, PTL DEF Spec

\* A refreshed token is revoked before its successor exists.
THEOREM Rotation == Spec => []RotatedTokenIsRevoked
<1>1. Lineage => RotatedTokenIsRevoked
    BY DEF Lineage, RotatedTokenIsRevoked
<1> QED
    BY <1>1, LineageCorrect, PTL

-----------------------------------------------------------------------------
\* replaced_by_token_id names a row that the refresh of this token issued.
Pointers ==
    \A p \in Token : replacedBy[p] # NoToken =>
        replacedBy[p] \in stored /\ parent[replacedBy[p]] = p

\* Every step keeps replaced_by_token_id pointing from parent to successor.
LEMMA PointersStep == Base /\ Pointers /\ [Next]_vars => Pointers'
<1> SUFFICES ASSUME Base, Pointers, [Next]_vars PROVE Pointers'
    OBVIOUS
<1>1. CASE UNCHANGED <<stored, parent, replacedBy>>
    BY <1>1 DEF Pointers
<1>2. ASSUME NEW r \in Reqs, StoreRefreshToken(r) PROVE Pointers'
  <2>1. /\ req[r].new \notin stored /\ stored \subseteq stored'
        /\ parent' = [parent EXCEPT ![req[r].new] = req[r].tok]
        /\ parent \in [Token -> Token \cup {NoToken}]
        /\ stored \subseteq Token /\ UNCHANGED replacedBy
      BY <1>2 DEF StoreRefreshToken, Create, Base, TypeOK
  <2> QED
      BY <2>1 DEF Pointers
<1>3. ASSUME NEW r \in Reqs, MarkOldReplaced(r) PROVE Pointers'
  <2>1. /\ req[r].new \in stored /\ parent[req[r].new] = req[r].tok
        /\ replacedBy' = [replacedBy EXCEPT ![req[r].tok] = req[r].new]
        /\ replacedBy \in [Token -> Token \cup {NoToken}]
        /\ UNCHANGED <<stored, parent>>
      BY <1>3 DEF MarkOldReplaced, MarkReplaced, Base, TypeOK, RequestsOK,
         RequestOK, hist
  <2> QED
      BY <2>1 DEF Pointers
<1>4. ASSUME NEW r \in Reqs, Arrive(r) \/ Fail(r)
      PROVE  UNCHANGED <<stored, parent, replacedBy>>
    BY <1>4 DEF Arrive, Login, FindUsable, FindRefused, Fail, vars, table, hist
<1>5. ASSUME NEW r \in Reqs, Handle(r), ~ StoreRefreshToken(r),
             ~ MarkOldReplaced(r)
      PROVE  UNCHANGED <<stored, parent, replacedBy>>
    BY <1>5 DEF Handle, FindOwner, RevokePresented, RevokeByToken,
       GenerateTokens, StoreCollides, Reply, table, hist
<1>6. ASSUME \/ \E t \in given \cup {NoToken} : Logout(t)
             \/ \E u \in Users : LogoutAll(u) \/ SoftDelete(u)
             \/ Restart \/ Tick \/ UNCHANGED vars
      PROVE  UNCHANGED <<stored, parent, replacedBy>>
    BY <1>6 DEF Logout, LogoutAll, SoftDelete, Restart, Tick, EndSessions,
       vars, table, hist
<1> QED
    BY <1>1, <1>2, <1>3, <1>4, <1>5, <1>6 DEF Next

\* replaced_by_token_id forms injective chains that lead forward in time,
\* from revoked rows to rows of the same user: markReplaced never meets its
\* UNIQUE index and never closes a cycle.
THEOREM Chains == Spec => []ReplacementChain
<1>1. Init => Pointers
    BY DEF Init, Pointers
<1>2. Spec => []Pointers
    BY <1>1, PointersStep, Consistency, PTL DEF Spec
<1>3. Base /\ Lineage /\ Pointers => ReplacementChain
  <2> SUFFICES ASSUME Lineage, Pointers, NEW p \in Token, replacedBy[p] # NoToken
               PROVE  /\ p \in revoked
                      /\ replacedBy[p] \in stored
                      /\ replacedBy[p].user = p.user
                      /\ p.iat < replacedBy[p].iat
                      /\ \A q \in Token : replacedBy[q] = replacedBy[p] => q = p
      BY DEF ReplacementChain
  <2>1. replacedBy[p] \in stored /\ parent[replacedBy[p]] = p
      BY DEF Pointers
  <2>2. p # NoToken
      BY SessionsAssumption
  <2>3. p \in revoked /\ p.user = replacedBy[p].user /\ p.iat < replacedBy[p].iat
      BY <2>1, <2>2 DEF Lineage
  <2>4. ASSUME NEW q \in Token, replacedBy[q] = replacedBy[p] PROVE q = p
      BY <2>1, <2>4 DEF Pointers
  <2> QED
      BY <2>1, <2>3, <2>4
<1> QED
    BY <1>2, <1>3, LineageCorrect, Consistency, PTL

-----------------------------------------------------------------------------
\* No step but FindUsable makes a request hold a token.
LEMMA StillHolding ==
    ASSUME Base, NEW r \in Reqs,
           \/ Fail(r) \/ (Handle(r) /\ ~ StoreRefreshToken(r))
           \/ \E u \in Users : Login(r, u)
    PROVE  \A q \in Reqs, p \in Token : Holding(q, p)' => Holding(q, p)
<1> SUFFICES ASSUME NEW q \in Reqs, NEW p \in Token, Holding(q, p)'
             PROVE  Holding(q, p)
    OBVIOUS
<1> USE DEF Holding, Base, TypeOK
<1>1. CASE q # r
    BY <1>1 DEF Handle, Fail, FindOwner, RevokePresented, GenerateTokens,
       StoreCollides, MarkOldReplaced, Reply, Login, Goto, Finish
<1>2. CASE q = r
  <2> USE DEF Request
  <2>1. ~ Fail(r) /\ ~ StoreCollides(r) /\ ~ Reply(r)
      BY <1>2 DEF Fail, StoreCollides, Reply, Finish, Idle
  <2>2. ASSUME NEW u \in Users PROVE ~ Login(r, u)
      BY <1>2 DEF Login
  <2>3. CASE FindOwner(r)
      BY <1>2, <2>3 DEF FindOwner, Goto, Finish, Idle
  <2>4. CASE RevokePresented(r) \/ GenerateTokens(r)
      BY <1>2, <2>4 DEF RevokePresented, GenerateTokens, Goto
  <2>5. ~ MarkOldReplaced(r)
      BY <1>2 DEF MarkOldReplaced, Goto
  <2> QED
      BY <2>1, <2>2, <2>3, <2>4, <2>5 DEF Handle
<1> QED
    BY <1>1, <1>2

\* An uncontended token is held by one refresh at most, and while it is held
\* it has no successor yet.
Exclusive ==
    \A r \in Reqs, p \in Token : Holding(r, p) /\ p \notin contended =>
        /\ \A q \in Reqs : Holding(q, p) => q = r
        /\ \A t \in stored : parent[t] # p

\* Outside contention, one refresh at most works on a token, and none after it has
\* a successor.
LEMMA ExclusiveStep ==
    /\ Base /\ Lineage /\ SingleSuccessor /\ Exclusive /\ [Next]_vars
    => SingleSuccessor' /\ Exclusive'
<1> SUFFICES ASSUME Base, Lineage, SingleSuccessor, Exclusive, [Next]_vars
             PROVE  SingleSuccessor' /\ Exclusive'
    OBVIOUS
<1> USE DEF SingleSuccessor, Exclusive
<1>1. ASSUME UNCHANGED <<stored, parent, contended>>,
             \A r \in Reqs, p \in Token : Holding(r, p)' => Holding(r, p)
      PROVE  SingleSuccessor' /\ Exclusive'
    BY <1>1
<1>2. ASSUME NEW r \in Reqs, NEW t \in given \cup {NoToken}, FindUsable(r, t)
      PROVE  SingleSuccessor' /\ Exclusive'
  <2>1. /\ t \in Token /\ t \in stored /\ t \notin revoked
        /\ UNCHANGED <<stored, parent>>
    <3>1. t \in stored /\ t \notin revoked /\ UNCHANGED <<stored, parent>>
        BY <1>2 DEF FindUsable, Live, table
    <3> QED
        BY <3>1 DEF Base, TypeOK
  <2>6. /\ contended \subseteq contended'
        /\ t \notin contended' => \A q \in Reqs \ {r} : ~ Holding(q, t)
    <3>1. contended' = IF \E q \in Reqs \ {r} : Holding(q, t)
                       THEN contended \cup {t} ELSE contended
        BY <1>2 DEF FindUsable
    <3> QED
        BY <3>1
  <2>2. \A s \in stored : parent[s] # t
      BY <2>1, SessionsAssumption DEF Lineage
  <2>3. \A q \in Reqs, p \in Token : Holding(q, p)' => Holding(q, p) \/ (q = r /\ p = t)
      BY <1>2 DEF FindUsable, Holding, Base, TypeOK
  <2>4. \A q \in Reqs, p \in Token : q # r /\ Holding(q, p)' => Holding(q, p)
      BY <1>2 DEF FindUsable, Holding, Base, TypeOK
  <2>5. \A p \in Token : Holding(r, p)' => p = t
      BY <1>2 DEF FindUsable, Holding, Base, TypeOK
  <2> QED
      BY <2>1, <2>2, <2>3, <2>4, <2>5, <2>6
<1>3. ASSUME NEW r \in Reqs, StoreRefreshToken(r)
      PROVE  SingleSuccessor' /\ Exclusive'
  <2> DEFINE new == req[r].new
             old == req[r].tok
  <2>1. /\ new \in Token /\ new \notin stored
        /\ stored' = stored \cup {new} /\ UNCHANGED contended
        /\ parent' = [parent EXCEPT ![new] = old]
        /\ parent \in [Token -> Token \cup {NoToken}]
        /\ stored \subseteq Token
      BY <1>3 DEF StoreRefreshToken, Create, Base, TypeOK, RequestsOK,
         RequestOK, Issuing
  <2>2. old # NoToken => old \in Token /\ Holding(r, old)
      BY <1>3 DEF StoreRefreshToken, Holding, Base, TypeOK, RequestsOK, RequestOK
  <2>3. \A q \in Reqs, p \in Token : Holding(q, p)' => Holding(q, p) /\ q # r
      BY <1>3 DEF StoreRefreshToken, Goto, Holding, Base, TypeOK
  <2> HIDE DEF new, old
  <2> QED
      BY <2>1, <2>2, <2>3, SessionsAssumption
<1>4. ASSUME NEW r \in Reqs,
             Fail(r) \/ (Handle(r) /\ ~ StoreRefreshToken(r))
             \/ \E u \in Users : Login(r, u)
      PROVE  UNCHANGED <<stored, parent, contended>>
    BY <1>4 DEF Fail, Handle, FindOwner, RevokePresented, GenerateTokens,
       StoreCollides, MarkOldReplaced, Reply, Login, table, hist
<1>5. ASSUME \/ \E t \in given \cup {NoToken} : Logout(t)
             \/ \E u \in Users : LogoutAll(u) \/ SoftDelete(u)
             \/ Restart \/ Tick \/ UNCHANGED vars
             \/ \E r \in Reqs, t \in given \cup {NoToken} : FindRefused(r, t)
      PROVE  /\ UNCHANGED <<stored, parent, contended>>
             /\ \A q \in Reqs, p \in Token : Holding(q, p)' => Holding(q, p)
    BY <1>5 DEF Logout, LogoutAll, SoftDelete, Restart, Tick, FindRefused,
       EndSessions, Holding, Idle, vars, table, hist
<1> QED
    BY <1>1, <1>2, <1>3, <1>4, <1>5, StillHolding DEF Next, Arrive, Handle

\* A token that no two refreshes held together has one successor at most.
THEOREM NoForks == Spec => []SingleSuccessor
<1>1. Init => SingleSuccessor /\ Exclusive
    BY DEF Init, SingleSuccessor, Exclusive, Holding, Idle
<1>2. Spec => [](SingleSuccessor /\ Exclusive)
    BY <1>1, ExclusiveStep, LineageCorrect, Consistency, PTL DEF Spec
<1> QED
    BY <1>2, PTL

-----------------------------------------------------------------------------
\* A refresh that holds a token of an ended session was overtaken by the
\* logout that ended it.
Overtaking ==
    \A r \in Reqs, p \in Token :
        Holding(r, p) /\ fate[p] = "ended" => r \in overtaken

\* No live token is ended, and no open one, live or dead, has an ended ancestor.
Endings ==
    /\ \A t \in Live : fate[t] # "ended"
    /\ \A t, p \in Token : p \in line[t] /\ fate[p] = "ended" => fate[t] # "open"

\* Whoever holds a token that a logout ended is known to be overtaken, and a
\* new token takes over the fate of its line.
LEMMA EndingStep ==
    /\ Base /\ Endings /\ Overtaking /\ [Next]_vars
    => Endings' /\ Overtaking'
<1> SUFFICES ASSUME Base, Endings, Overtaking, [Next]_vars
             PROVE  Endings' /\ Overtaking'
    OBVIOUS
<1> USE DEF Endings, Overtaking, Live
<1>1. ASSUME UNCHANGED <<stored, line, fate, overtaken>>,
             \A r \in Reqs, p \in Token : Holding(r, p)' => Holding(r, p)
      PROVE  Endings' /\ Overtaking'
    BY <1>1, Accumulation
<1>2. ASSUME NEW r \in Reqs, NEW t \in given \cup {NoToken}, FindUsable(r, t)
      PROVE  Endings' /\ Overtaking'
  <2>1. t \in Live /\ UNCHANGED <<stored, revoked, line, fate>>
        /\ overtaken' = overtaken \ {r}
      BY <1>2 DEF FindUsable, table
  <2>2. \A q \in Reqs, p \in Token : q # r /\ Holding(q, p)' => Holding(q, p)
      BY <1>2 DEF FindUsable, Holding, Base, TypeOK
  <2>3. \A p \in Token : Holding(r, p)' => p = t
      BY <1>2 DEF FindUsable, Holding, Base, TypeOK
  <2> QED
      BY <2>1, <2>2, <2>3
<1>3. ASSUME NEW r \in Reqs, StoreRefreshToken(r)
      PROVE  Endings' /\ Overtaking'
  <2> DEFINE new == req[r].new
             old == req[r].tok
  <2>1. /\ new \in Token /\ new \notin stored
        /\ stored' = stored \cup {new} /\ UNCHANGED <<revoked, overtaken>>
        /\ fate \in [Token -> Fates] /\ line \in [Token -> SUBSET Token]
        /\ revoked \subseteq stored /\ stored \subseteq Token
      BY <1>3 DEF StoreRefreshToken, Create, Base, TypeOK, RequestsOK,
         RequestOK, Issuing
  <2>2. \A p \in Token : p # new => fate'[p] = fate[p]
      BY <1>3 DEF StoreRefreshToken, Base, TypeOK
  <2>3. /\ fate'[new] # "ended"
        /\ \A p \in line'[new] : fate[p] = "ended" => fate'[new] # "open"
    <3>1. CASE req[r].op = "login"
        BY <1>3, <2>1, <3>1 DEF StoreRefreshToken
    <3>2. CASE r \in overtaken /\ req[r].op # "login"
        BY <1>3, <2>1, <3>2 DEF StoreRefreshToken
    <3>3. CASE r \notin overtaken /\ req[r].op # "login"
      <4>1. /\ fate'[new] = IF fate[old] = "ended" THEN "open" ELSE fate[old]
            /\ line'[new] = line[old] \cup {old}
          BY <1>3, <2>1, <3>3 DEF StoreRefreshToken
      <4>2. req[r].op = "refresh"
          BY <1>3, <3>3 DEF StoreRefreshToken
      <4>3. Holding(r, old) /\ old \in Token
          BY <1>3, <4>2 DEF StoreRefreshToken, Holding, Base, TypeOK,
             RequestsOK, RequestOK
      <4>4. fate[old] # "ended"
          BY <3>3, <4>3
      <4>5. \A p \in line[old] : p \in Token
          BY <2>1, <4>3
      <4> QED
          BY <4>1, <4>3, <4>4, <4>5
    <3> QED
        BY <3>1, <3>2, <3>3
  <2>4. \A q \in Reqs, p \in Token :
            Holding(q, p)' => Holding(q, p) /\ p \in stored
    <3> SUFFICES ASSUME NEW q \in Reqs, NEW p \in Token, Holding(q, p)'
                 PROVE  Holding(q, p) /\ p \in stored
        OBVIOUS
    <3>1. Holding(q, p)
        BY <1>3 DEF StoreRefreshToken, Goto, Holding, Base, TypeOK
    <3> QED
        BY <3>1 DEF Holding, Base, RequestsOK, RequestOK
  <2>5. \A t \in Token : t # new => line'[t] = line[t]
      BY <1>3 DEF StoreRefreshToken, Base, TypeOK
  <2>6. \A t, p \in Token : p \in line'[t] /\ fate'[p] = "ended" => fate'[t] # "open"
    <3> SUFFICES ASSUME NEW t \in Token, NEW p \in Token, p \in line'[t],
                        fate'[p] = "ended"
                 PROVE  fate'[t] # "open"
        OBVIOUS
    <3>1. p # new /\ fate[p] = "ended"
        BY <2>2, <2>3
    <3> QED
        BY <2>2, <2>3, <2>5, <3>1
  <2> HIDE DEF new, old
  <2>7. Endings'
      BY <2>1, <2>2, <2>3, <2>6
  <2>8. Overtaking'
      BY <2>1, <2>2, <2>4
  <2> QED
      BY <2>7, <2>8
<1>4. ASSUME NEW ended \in SUBSET stored, EndSessions(ended),
             ended \subseteq revoked', UNCHANGED <<stored, req>>
      PROVE  Endings' /\ Overtaking'
  <2>1. /\ \A t \in Token : fate'[t] = "ended" => t \in ended \/ fate[t] = "ended"
        /\ \A t, p \in Token : p \in line'[t] /\ p \in ended => fate'[t] # "open"
        /\ \A t \in Token : fate'[t] = "open" => fate[t] = "open"
        /\ line' = line
        /\ overtaken \subseteq overtaken'
        /\ \A r \in Reqs, p \in ended : Holding(r, p) => r \in overtaken'
      BY <1>4 DEF EndSessions, Base, TypeOK
  <2>2. \A r \in Reqs, p \in Token : Holding(r, p)' <=> Holding(r, p)
      BY <1>4 DEF Holding
  <2>3. revoked \subseteq revoked' /\ stored \subseteq Token
      BY Accumulation DEF Base, TypeOK
  <2> QED
      BY <1>4, <2>1, <2>2, <2>3
<1>5. ASSUME NEW t \in given \cup {NoToken}, Logout(t)
      PROVE  Endings' /\ Overtaking'
    BY <1>4, <1>5 DEF Logout, RevokeByToken
<1>6. ASSUME NEW u \in Users, LogoutAll(u)
      PROVE  Endings' /\ Overtaking'
    BY <1>4, <1>6 DEF LogoutAll, RevokeAllByUserId
<1>7. ASSUME NEW r \in Reqs, Fail(r) \/ (Handle(r) /\ ~ StoreRefreshToken(r))
                             \/ \E u \in Users : Login(r, u)
      PROVE  UNCHANGED <<stored, line, fate, overtaken>>
    BY <1>7 DEF Fail, Handle, FindOwner, RevokePresented, GenerateTokens,
       StoreCollides, MarkOldReplaced, Reply, Login, table, hist
<1>8. ASSUME Restart \/ Tick \/ (\E u \in Users : SoftDelete(u)) \/ UNCHANGED vars
      PROVE  /\ UNCHANGED <<stored, line, fate, overtaken>>
             /\ \A q \in Reqs, p \in Token : Holding(q, p)' => Holding(q, p)
    BY <1>8 DEF Restart, Tick, SoftDelete, Holding, Idle, vars, table, hist
<1>9. ASSUME NEW r \in Reqs, NEW t \in given \cup {NoToken}, FindRefused(r, t)
      PROVE  Endings' /\ Overtaking'
    BY <1>1, <1>8, <1>9 DEF FindRefused
<1> QED
    BY <1>1, <1>2, <1>3, <1>5, <1>6, <1>7, <1>8, <1>9, StillHolding
    DEF Next, Arrive, Handle

\* A token that logout or logoutAll ended is dead, and so are its descendants,
\* except those that escaped the logout or were spared by it.
THEOREM EndedStaysEnded == Spec => []EndedSessionsStayEnded
<1>1. Init => Endings /\ Overtaking
    BY DEF Init, Endings, Overtaking, Holding, Idle, Live
<1>2. Spec => [](Base /\ Endings /\ Overtaking)
    BY <1>1, EndingStep, Consistency, PTL DEF Spec
<1>3. Base /\ Endings => EndedSessionsStayEnded
    BY DEF Base, TypeOK, Live, Endings, EndedSessionsStayEnded
<1> QED
    BY <1>2, <1>3, PTL

-----------------------------------------------------------------------------
\* The refinement: what a step does to the rows, then to the ledger.

Status == [t \in Token |-> IF t \notin stored THEN "unissued"
                           ELSE IF t \in revoked THEN "dead" ELSE "live"]

\* A step that only revokes tokens of one user closes in the ledger.
LEMMA ClosingStep ==
    ASSUME NEW u \in Users, UNCHANGED <<stored, parent>>,
           stored \subseteq Token, revoked \subseteq revoked',
           revoked' \subseteq stored,
           \A t \in revoked' \ revoked : t.user = u
    PROVE  Ledger!Close(u)
<1>1. Status' \in [Token -> {"unissued", "live", "dead"}]
    BY DEF Status
<1>2. ASSUME NEW t \in Token
      PROVE  \/ Status'[t] = Status[t]
             \/ t.user = u /\ Status[t] = "live" /\ Status'[t] = "dead"
    BY <1>2 DEF Status
<1> QED
    BY <1>1, <1>2 DEF Ledger!Close, Ledger!Token, Token, Time, Status

\* Inserting the row of a login or of a refresh begins or succeeds.
LEMMA StoringStep ==
    ASSUME Base, Lineage, Lineage', NEW r \in Reqs, StoreRefreshToken(r)
    PROVE  \E t \in Token : Ledger!Begin(t) \/ \E p \in Token : Ledger!Succeed(p, t)
<1>1. PICK new \in Token : new = req[r].new
    BY DEF StoreRefreshToken, Base, RequestsOK, RequestOK, Issuing
<1>2. PICK old \in Token \cup {NoToken} : old = req[r].tok
    BY DEF Base, TypeOK, Request
<1>3. /\ new \notin stored
      /\ stored' = stored \cup {new} /\ UNCHANGED revoked
      /\ parent' = [parent EXCEPT ![new] = old]
      /\ parent \in [Token -> Token \cup {NoToken}]
      /\ stored \subseteq Token /\ revoked \subseteq stored
    BY <1>1, <1>2 DEF StoreRefreshToken, Create, Base, TypeOK
<1>4. Status[new] = "unissued" /\ Status' = [Status EXCEPT ![new] = "live"]
    BY <1>3 DEF Status
<1>5. CASE old = NoToken
  <2>1. Ledger!Begin(new)
      BY <1>3, <1>4, <1>5 DEF Ledger!Begin, Status
  <2> QED
      BY <2>1
<1>6. CASE old # NoToken
  <2>1. old \in Token /\ new \in stored' /\ parent'[new] = old
      BY <1>3, <1>6
  <2>2. old \in revoked /\ old.user = new.user /\ old.iat < new.iat
      BY <1>3, <1>6, <2>1 DEF Lineage
  <2>3. Status[old] = "dead"
      BY <1>3, <2>1, <2>2 DEF Status
  <2>4. Ledger!Succeed(old, new)
      BY <1>3, <1>4, <2>2, <2>3 DEF Ledger!Succeed, Status
  <2> QED
      BY <2>1, <2>4
<1> QED
    BY <1>5, <1>6

\* Every step of the service is a step of the ledger or leaves it alone.
LEMMA LedgerStep ==
    Base /\ Lineage /\ Base' /\ Lineage' /\ [Next]_vars
    => [Ledger!Next]_(Ledger!ledger)
<1> SUFFICES ASSUME Base, Lineage, Base', Lineage', [Next]_vars
             PROVE  Ledger!Next \/ UNCHANGED <<Status, parent>>
    BY DEF Ledger!ledger, Status
<1>1. stored \subseteq Token /\ revoked' \subseteq stored'
      /\ revoked \subseteq revoked'
    BY Accumulation DEF Base, TypeOK
<1>2. ASSUME NEW r \in Reqs, StoreRefreshToken(r) PROVE Ledger!Next
    BY <1>2, StoringStep DEF Ledger!Next, Ledger!Token, Token, Time
<1>3. ASSUME NEW r \in Reqs, RevokePresented(r) PROVE Ledger!Next
  <2>1. PICK t \in stored : t = req[r].tok
      BY <1>3 DEF RevokePresented, Base, RequestsOK, RequestOK
  <2>2. /\ t.user \in Users
        /\ UNCHANGED <<stored, parent>>
        /\ revoked' \subseteq revoked \cup {t}
      BY <1>1, <1>3, <2>1, TokenFields
      DEF RevokePresented, RevokeByToken, hist
  <2>3. Ledger!Close(t.user)
      BY <1>1, <2>2, ClosingStep
  <2> QED
      BY <2>2, <2>3 DEF Ledger!Next
<1>4. ASSUME NEW t \in given \cup {NoToken}, Logout(t)
      PROVE  Ledger!Next \/ UNCHANGED <<Status, parent>>
  <2>1. UNCHANGED <<stored, parent>> /\ revoked' = revoked \cup ({t} \cap stored)
      BY <1>4 DEF Logout, RevokeByToken, EndSessions
  <2>2. CASE t \in stored
    <3>1. t.user \in Users
        BY <1>1, <2>2, TokenFields
    <3>2. Ledger!Close(t.user)
        BY <1>1, <2>1, <3>1, ClosingStep
    <3> QED
        BY <3>1, <3>2 DEF Ledger!Next
  <2>3. CASE t \notin stored
      BY <2>1, <2>3 DEF Status
  <2> QED
      BY <2>2, <2>3
<1>5. ASSUME NEW u \in Users, LogoutAll(u) PROVE Ledger!Next
  <2>1. /\ UNCHANGED <<stored, parent>>
        /\ \A t \in revoked' \ revoked : t.user = u
      BY <1>5 DEF LogoutAll, RevokeAllByUserId, EndSessions
  <2>2. Ledger!Close(u)
      BY <1>1, <2>1, ClosingStep
  <2> QED
      BY <2>2 DEF Ledger!Next
<1>6. ASSUME NEW r \in Reqs,
             \/ Arrive(r) \/ Fail(r)
             \/ Handle(r) /\ ~ StoreRefreshToken(r) /\ ~ RevokePresented(r)
      PROVE  UNCHANGED <<stored, revoked, parent>>
    BY <1>6 DEF Arrive, Fail, Handle, Login, FindUsable, FindRefused,
       FindOwner, GenerateTokens, StoreCollides, MarkOldReplaced, Reply,
       vars, table, hist
<1>7. ASSUME Restart \/ Tick \/ (\E u \in Users : SoftDelete(u)) \/ UNCHANGED vars
      PROVE  UNCHANGED <<stored, revoked, parent>>
    BY <1>7 DEF Restart, Tick, SoftDelete, vars, table, hist
<1>8. UNCHANGED <<stored, revoked, parent>> => UNCHANGED <<Status, parent>>
    BY DEF Status
<1> QED
    BY <1>2, <1>3, <1>4, <1>5, <1>6, <1>7, <1>8 DEF Next

\* The handlers, statement by statement, implement the ledger of tokens.
THEOREM Refinement == Spec => ImplementsLedger
<1>1. Init => Ledger!Init
    BY DEF Init, Ledger!Init, Ledger!Token, Token, Time
<1>2. Spec => [](Base /\ Lineage)
    BY Consistency, LineageCorrect, PTL
<1> QED
    BY <1>1, <1>2, LedgerStep, PTL DEF Spec, ImplementsLedger, Ledger!Spec

=============================================================================
