-------------------------- MODULE RegistrationProofs --------------------------
(***************************************************************************)
(* Registration behind the gateway, for all addresses, tokens, numbers of  *)
(* requests and token lifetimes.                                           *)
(*                                                                         *)
(* The argument: a token that a handler has drawn is its own until the     *)
(* insert, what the tables hold only grows in the respects that an answer  *)
(* or a later statement relies on, and so neither what a handler has read  *)
(* nor what it has answered becomes false while it is on its way.          *)
(***************************************************************************)
EXTENDS Registration, TLAPS

Request == [pc : {"idle", "hibp", "create", "email", "reply", "mark"},
            email : Emails \cup {NoEmail}, token : Tokens \cup {NoToken},
            expires : 0 .. MaxTime + TokenTTL]

Types ==
    /\ clock \in 0 .. MaxTime
    /\ email \in [Tokens -> Emails \cup {NoEmail}]
    /\ expiresAt \in [Tokens -> 0 .. MaxTime + TokenTTL]
    /\ req \in [Reqs -> Request]
    /\ call \in [Reqs -> Call]

\* The users table against the mailboxes.
Tables ==
    /\ pending \subseteq Rows /\ deleted \subseteq Rows
    /\ verified \subseteq mailed /\ mailed \subseteq Rows
    /\ Rows \subseteq pending \cup verified
    /\ pending \cap verified = {}
    /\ OneRowPerEmail

\* What an answer claims stays true until it is given.
Kept(c) ==
    /\ c.rpc = "created"  => c.token \in Rows \cap mailed /\ email[c.token] = c.email
    /\ c.rpc = "verified" => c.token \in verified
    /\ c.rpc = "conflict" => \E k \in Rows : email[k] = c.email
    /\ c.rpc = "refused" /\ c.op = "verify" =>
          c.token \in verified \cup deleted \/ expiresAt[c.token] < clock

\* A handler, its message, and the rows that it has read or written.
RequestInv(q, c) ==
    /\ c.rpc = "running" <=> q.pc # "idle"
    /\ c.op = "register" => c.email \in Emails
    /\ c.op = "verify" => c.token \in mailed
    /\ q.pc \in {"hibp", "create", "email", "reply"} =>
          c.op = "register" /\ q.email = c.email
    /\ q.pc = "create" => q.token \in Tokens \ Rows
    /\ q.pc \in {"email", "reply"} => q.token \in Rows /\ email[q.token] = q.email
    /\ q.pc = "reply" => q.token \in mailed
    /\ q.pc = "mark" => c.op = "verify" /\ q.token = c.token
    /\ Kept(c)

\* Nobody else has a token that is about to be inserted.
Owned(r, s) == r # s /\ req[r].pc = "create" => req[s].token # req[r].token

Inv ==
    /\ Types
    /\ Tables
    /\ \A r \in Reqs : RequestInv(req[r], call[r])
    /\ \A r, s \in Reqs : Owned(r, s)

-----------------------------------------------------------------------------
LEMMA IdleRequest == Idle \in Request /\ Idle.pc = "idle" /\ Idle.token = NoToken
<1>1. 0 \in 0 .. MaxTime + TokenTTL
  BY AccountsAssumption
<1>2. QED
  BY <1>1 DEF Idle, Request

LEMMA InitInv == RegistrationInit => Inv
<1>. SUFFICES ASSUME RegistrationInit PROVE Inv
  OBVIOUS
<1>1. Types
  BY AccountsAssumption DEF RegistrationInit, Init, Idle, NoCall, Types, Request, Call
<1>2. Rows = {}
  BY DEF RegistrationInit, Init, Rows
<1>3. Tables
  BY <1>2 DEF RegistrationInit, Init, Tables, OneRowPerEmail
<1>4. \A r \in Reqs : req[r] = Idle /\ call[r] = NoCall
  BY DEF RegistrationInit, Init
<1>5. QED
  BY <1>1, <1>3, <1>4 DEF Inv, Idle, NoCall, RequestInv, Kept, Owned

\* A request moves and the tables stay: it is enough to look at this request.
LEMMA RequestStep ==
  ASSUME Inv, NEW r \in Reqs, NEW q \in Request, NEW c \in Call,
         req' = [req EXCEPT ![r] = q], call' = [call EXCEPT ![r] = c],
         UNCHANGED <<clock, users, mailed>>,
         RequestInv(q, c),
         \A s \in Reqs \ {r} :
            /\ q.pc = "create" => req[s].token # q.token
            /\ req[s].pc = "create" => q.token # req[s].token
  PROVE  Inv'
<1>1. Types'
  BY DEF Inv, Types, users
<1>2. UNCHANGED <<clock, email, pending, expiresAt, verified, deleted, mailed>>
  BY DEF users
<1>3. Rows' = Rows
  BY <1>2 DEF Rows
<1>4. Tables'
  BY <1>2, <1>3 DEF Inv, Tables, OneRowPerEmail
<1>5. \A s \in Reqs : /\ req'[s] = IF s = r THEN q ELSE req[s]
                      /\ call'[s] = IF s = r THEN c ELSE call[s]
  BY DEF Inv, Types
<1>6. \A s \in Reqs : RequestInv(req[s], call[s])'
  BY <1>2, <1>3, <1>5 DEF Inv, RequestInv, Kept
<1>7. \A s, t \in Reqs : Owned(s, t)'
  BY <1>5 DEF Inv, Owned
<1>8. QED
  BY <1>1, <1>4, <1>6, <1>7 DEF Inv

\* The ways in which the tables change leave every other request its ground.
Grows ==
    /\ clock \in Nat /\ clock' \in Nat /\ clock <= clock'
    /\ Rows \subseteq Rows'
    /\ \A k \in Rows : email'[k] = email[k] /\ expiresAt'[k] = expiresAt[k]
    /\ mailed \subseteq mailed' /\ verified \subseteq verified' /\ deleted \subseteq deleted'

LEMMA RequestKept ==
  ASSUME Inv, Grows, NEW q \in Request, NEW c \in Call, RequestInv(q, c),
         q.pc = "create" => q.token \notin Rows'
  PROVE  RequestInv(q, c)'
<1>1. c.rpc = "refused" /\ c.op = "verify" =>
         c.token \in verified' \cup deleted' \/ expiresAt'[c.token] < clock'
  <2>. SUFFICES ASSUME c.rpc = "refused", c.op = "verify"
                PROVE  c.token \in verified' \cup deleted' \/ expiresAt'[c.token] < clock'
    OBVIOUS
  <2>1. c.token \in mailed /\ c.token \in Rows
    BY DEF RequestInv, Inv, Tables
  <2>2. expiresAt[c.token] \in Int /\ expiresAt'[c.token] = expiresAt[c.token]
    BY <2>1, AccountsAssumption DEF Inv, Types, Rows, Grows
  <2>3. QED
    BY <2>2 DEF RequestInv, Kept, Grows
<1>2. QED
  BY <1>1 DEF RequestInv, Kept, Grows

\* So only the request that moved and the tables are left to look at.
LEMMA TableStep ==
  ASSUME Inv, Grows, NEW r \in Reqs,
         Types', Tables', RequestInv(req[r], call[r])',
         \A s \in Reqs \ {r} : req'[s] = req[s] /\ call'[s] = call[s],
         Rows' \subseteq Rows \cup {req[r].token},
         req[r].pc = "create" \/ Rows' = Rows,
         req'[r].pc # "create",
         \A s \in Reqs \ {r} : req[s].pc = "create" => req'[r].token # req[s].token
  PROVE  Inv'
<1>1. ASSUME NEW s \in Reqs, s # r PROVE RequestInv(req[s], call[s])'
  <2>1. req[s] \in Request /\ call[s] \in Call /\ RequestInv(req[s], call[s])
    BY DEF Inv, Types
  <2>2. req[s].pc = "create" => req[s].token \notin Rows'
    BY <1>1, <2>1 DEF Inv, RequestInv, Owned
  <2>3. QED
    BY <1>1, <2>1, <2>2, RequestKept DEF RequestInv, Kept
<1>2. \A s, t \in Reqs : Owned(s, t)'
  BY DEF Inv, Owned
<1>3. QED
  BY <1>1, <1>2 DEF Inv

-----------------------------------------------------------------------------
(* The steps of the browser and the gateway.                               *)

\* A slot without a running handler is idle and nobody's rival.
LEMMA IdleSlot ==
  ASSUME Inv, NEW r \in Reqs, call[r].rpc # "running"
  PROVE  req[r].pc = "idle"
BY DEF Inv, RequestInv

\* The message of an idle slot changes.
LEMMA CallStep ==
  ASSUME Inv, NEW r \in Reqs, NEW c \in Call,
         UNCHANGED vars, call' = [call EXCEPT ![r] = c],
         RequestInv(req[r], c)
  PROVE  Inv'
<1>1. req[r] \in Request /\ req' = [req EXCEPT ![r] = req[r]]
  BY DEF Inv, Types, vars
<1>2. \A s \in Reqs \ {r} : Owned(r, s) /\ Owned(s, r)
  BY DEF Inv
<1>3. UNCHANGED <<clock, users, mailed>>
  BY DEF vars
<1>4. QED
  BY <1>1, <1>2, <1>3, RequestStep DEF Owned

LEMMA BrowserStep ==
  ASSUME Inv, NEW r \in Reqs, Browser(r)
  PROVE  Inv'
<1>1. ASSUME NEW e \in Emails, Post(r, "register", e, NoToken) PROVE Inv'
  <2>. DEFINE c == [op |-> "register", waiting |-> TRUE, rpc |-> "queued",
                    email |-> e, token |-> NoToken]
  <2>1. c \in Call /\ req[r].pc = "idle"
    BY <1>1, IdleSlot DEF Post, NoCall, Call
  <2>2. RequestInv(req[r], c)
    BY <2>1 DEF RequestInv, Kept
  <2>3. QED
    BY <1>1, <2>1, <2>2, CallStep DEF Post
<1>2. ASSUME NEW k \in mailed, Post(r, "verify", NoEmail, k) PROVE Inv'
  <2>. DEFINE c == [op |-> "verify", waiting |-> TRUE, rpc |-> "queued",
                    email |-> NoEmail, token |-> k]
  <2>1. c \in Call /\ req[r].pc = "idle"
    BY <1>2, IdleSlot DEF Post, NoCall, Call, Inv, Tables, Rows
  <2>2. RequestInv(req[r], c)
    BY <2>1 DEF RequestInv, Kept
  <2>3. QED
    BY <1>2, <2>1, <2>2, CallStep DEF Post
<1>3. QED
  BY <1>1, <1>2 DEF Browser, PostRegister, PostVerifyEmail

LEMMA AnswerStep ==
  ASSUME Inv, NEW r \in Reqs, Answer(r) \/ Timeout(r)
  PROVE  Inv'
<1>1. CASE Answer(r)
  <2>1. req[r].pc = "idle" /\ Free(r)
    BY <1>1, IdleSlot DEF Answer, Respond, AnswerLost, Answers
  <2>2. NoCall \in Call /\ RequestInv(req[r], NoCall)
    BY <2>1 DEF NoCall, Call, RequestInv, Kept
  <2>3. QED
    BY <2>1, <2>2, CallStep DEF Free
<1>2. CASE Timeout(r)
  <2>. DEFINE c == [call[r] EXCEPT !.waiting = FALSE]
  <2>1. call[r] \in Call /\ RequestInv(req[r], call[r])
    BY DEF Inv, Types
  <2>. c \in Call /\ c.op = call[r].op /\ c.rpc = call[r].rpc
       /\ c.email = call[r].email /\ c.token = call[r].token
    BY <2>1 DEF Call
  <2>. HIDE DEF c
  <2>2. c \in Call /\ RequestInv(req[r], c)
    BY <2>1 DEF RequestInv, Kept
  <2>. USE DEF c
  <2>3. call' = [call EXCEPT ![r] = c] /\ UNCHANGED vars
    BY <1>2 DEF Timeout
  <2>4. QED
    BY <2>2, <2>3, CallStep
<1>3. QED
  BY <1>1, <1>2

-----------------------------------------------------------------------------
(* The steps of the handlers that leave the tables as they are.            *)

\* A message is answered without a handler that runs on.
LEMMA Answered ==
  ASSUME Inv, NEW r \in Reqs, NEW o \in Answers, Rpc(r, o),
         UNCHANGED <<clock, users, mailed>>, req'[r].pc = "idle",
         req' = req \/ Finish(r),
         Kept([call[r] EXCEPT !.rpc = o])
  PROVE  Inv'
<1>. DEFINE c == [call[r] EXCEPT !.rpc = o]
<1>1. call[r] \in Call /\ req[r] \in Request /\ RequestInv(req[r], call[r])
  BY DEF Inv, Types
<1>2. c \in Call /\ call' = [call EXCEPT ![r] = c] /\ c.rpc # "running"
  BY <1>1 DEF Rpc, Call, Answers
<1>3. \A q \in Request : q.pc = "idle" => RequestInv(q, c)
  BY <1>1, <1>2 DEF RequestInv, Call
<1>4. CASE req' = req
  <2>1. req[r].pc = "idle" /\ req' = [req EXCEPT ![r] = req[r]]
    BY <1>4 DEF Inv, Types
  <2>2. \A s \in Reqs \ {r} : Owned(r, s) /\ Owned(s, r)
    BY DEF Inv
  <2>3. QED
    BY <1>1, <1>2, <1>3, <2>1, <2>2, RequestStep DEF Owned
<1>5. CASE Finish(r)
  <2>1. Idle \in Request /\ Idle.pc = "idle" /\ Idle.token = NoToken
    BY IdleRequest
  <2>2. \A s \in Reqs : req[s].pc = "create" => req[s].token # NoToken
    BY AccountsAssumption DEF Inv, RequestInv
  <2>3. QED
    BY <1>2, <1>3, <1>5, <2>1, <2>2, RequestStep DEF Finish
<1>6. QED
  BY <1>4, <1>5

LEMMA ServeStep ==
  ASSUME Inv, NEW r \in Reqs, Serve(r)
  PROVE  Inv'
<1>1. /\ call[r] \in Call /\ RequestInv(req[r], call[r])
      /\ call[r].rpc = "queued" /\ req[r].pc = "idle"
  BY IdleSlot DEF Inv, Types, Serve, ServeRegister, ServeVerifyEmail, ServeFails, Queued
<1>2. \A s \in Reqs : req[s].pc = "create" => req[s].token \in Tokens \ Rows
  BY DEF Inv, RequestInv
<1>3. CASE call[r].op = "register" /\ FindByEmail(r, call[r].email) /\ Rpc(r, "running")
  <2>. DEFINE q == [Idle EXCEPT !.pc = "hibp", !.email = call[r].email]
              c == [call[r] EXCEPT !.rpc = "running"]
  <2>1. q \in Request /\ c \in Call
    BY <1>1, <1>3, IdleRequest DEF Request, RequestInv, Call
  <2>2. RequestInv(q, c)
    BY <1>1, <1>3 DEF Idle, RequestInv, Kept, Call
  <2>3. q.pc = "hibp" /\ q.token = NoToken /\ NoToken \notin Tokens
    BY AccountsAssumption DEF Idle
  <2>4. QED
    BY <1>2, <1>3, <2>1, <2>2, <2>3, RequestStep DEF FindByEmail, Rpc
<1>4. CASE call[r].op = "register" /\ AlreadyExists(r, call[r].email) /\ Rpc(r, "conflict")
  <2>1. Kept([call[r] EXCEPT !.rpc = "conflict"])
    BY <1>1, <1>4 DEF AlreadyExists, Found, Kept, Call
  <2>2. UNCHANGED <<clock, users, mailed, req>>
    BY <1>4 DEF AlreadyExists, vars
  <2>3. QED
    BY <1>1, <1>4, <2>1, <2>2, Answered DEF Answers
<1>5. CASE call[r].op = "verify" /\ FindByToken(r, call[r].token) /\ Rpc(r, "running")
  <2>. DEFINE q == [Idle EXCEPT !.pc = "mark", !.token = call[r].token]
              c == [call[r] EXCEPT !.rpc = "running"]
  <2>1. call[r].token \in mailed /\ call[r].token \in Rows
    BY <1>1, <1>5 DEF RequestInv, Inv, Tables
  <2>2. q \in Request /\ c \in Call
    BY <1>1, <2>1, IdleRequest DEF Request, Call, Rows
  <2>3. RequestInv(q, c)
    <3>1. /\ q.pc = "mark" /\ q.token = c.token /\ c.rpc = "running" /\ c.op = "verify"
          /\ c.token \in mailed
      BY <1>1, <1>5, <2>1 DEF Idle, Call
    <3>. HIDE DEF q, c
    <3>. QED BY <3>1 DEF RequestInv, Kept
  <2>4. q.pc = "mark" /\ q.token \in Rows
    BY <2>1 DEF Idle
  <2>5. /\ req' = [req EXCEPT ![r] = q] /\ call' = [call EXCEPT ![r] = c]
        /\ UNCHANGED <<clock, users, mailed>>
    BY <1>5 DEF FindByToken, Rpc
  <2>. HIDE DEF q, c
  <2>6. QED
    BY <1>2, <2>2, <2>3, <2>4, <2>5, RequestStep
<1>6. CASE call[r].op = "verify" /\ TokenRefused(r, call[r].token) /\ Rpc(r, "refused")
  <2>1. call[r].token \in pending \cup verified
    BY <1>1, <1>6 DEF RequestInv, Inv, Tables
  <2>2. Kept([call[r] EXCEPT !.rpc = "refused"])
    BY <1>1, <1>6, <2>1 DEF TokenRefused, Kept, Call
  <2>3. UNCHANGED <<clock, users, mailed, req>>
    BY <1>6 DEF TokenRefused, vars
  <2>4. QED
    BY <1>1, <1>6, <2>2, <2>3, Answered DEF Answers
<1>7. CASE ServeFails(r)
  <2>1. Kept([call[r] EXCEPT !.rpc = "failed"])
    BY <1>1 DEF Kept, Call
  <2>2. UNCHANGED <<clock, users, mailed, req>> /\ Rpc(r, "failed")
    BY <1>7 DEF ServeFails, vars
  <2>3. QED
    BY <1>1, <2>1, <2>2, Answered DEF Answers
<1>8. QED
  BY <1>3, <1>4, <1>5, <1>6, <1>7 DEF Serve, ServeRegister, ServeVerifyEmail, Queued

\* A handler ends with an error and leaves the tables behind as they are.
LEMMA HandlerFails ==
  ASSUME Inv, NEW r \in Reqs, Refuse(r) \/ Collide(r) \/ ServiceFails(r)
  PROVE  Inv'
<1>1. call[r] \in Call /\ req[r] \in Request /\ RequestInv(req[r], call[r])
  BY DEF Inv, Types
<1>2. /\ Finish(r) /\ UNCHANGED <<clock, users, mailed>> /\ req'[r].pc = "idle"
      /\ \/ req[r].pc = "hibp" /\ Rpc(r, "refused")
         \/ Rpc(r, "failed")
  BY DEF Refuse, Breached, Collide, CreateCollides, ServiceFails, Fail, Finish, Idle, Inv, Types
<1>3. CASE req[r].pc = "hibp" /\ Rpc(r, "refused")
  <2>1. call[r].op = "register"
    BY <1>1, <1>3 DEF RequestInv
  <2>2. Kept([call[r] EXCEPT !.rpc = "refused"])
    BY <1>1, <2>1 DEF Kept, Call
  <2>3. QED
    BY <1>2, <1>3, <2>2, Answered DEF Answers
<1>4. CASE Rpc(r, "failed")
  <2>1. Kept([call[r] EXCEPT !.rpc = "failed"])
    BY <1>1 DEF Kept, Call
  <2>2. QED
    BY <1>2, <1>4, <2>1, Answered DEF Answers
<1>5. QED
  BY <1>2, <1>3, <1>4

\* register draws its token and hashes.
LEMMA DrawStep ==
  ASSUME Inv, NEW r \in Reqs, NEW k \in Tokens, NotBreached(r, k), UNCHANGED call
  PROVE  Inv'
<1>. DEFINE q == [req[r] EXCEPT !.pc = "create", !.token = k, !.expires = clock + TokenTTL]
<1>1. /\ call[r] \in Call /\ req[r] \in Request /\ RequestInv(req[r], call[r])
      /\ call' = [call EXCEPT ![r] = call[r]]
  BY DEF Inv, Types
<1>2. clock + TokenTTL \in 0 .. MaxTime + TokenTTL
  BY AccountsAssumption DEF Inv, Types
<1>3. q \in Request /\ req' = [req EXCEPT ![r] = q]
  BY <1>1, <1>2 DEF NotBreached, Request
<1>4. RequestInv(q, call[r])
  BY <1>1 DEF NotBreached, RequestInv, Request
<1>5. (\A s \in Reqs : req[s].token # k) /\ UNCHANGED <<clock, users, mailed>>
  BY DEF NotBreached
<1>6. q.token = k
  BY <1>1 DEF Request
<1>. HIDE DEF q
<1>7. QED
  BY <1>1, <1>3, <1>4, <1>5, <1>6, RequestStep

\* The registration is done, with everything that its answer says.
LEMMA ReturnStep ==
  ASSUME Inv, NEW r \in Reqs, Return(r)
  PROVE  Inv'
<1>. DEFINE c == [call[r] EXCEPT !.rpc = "created", !.token = req[r].token]
<1>1. call[r] \in Call /\ req[r] \in Request /\ RequestInv(req[r], call[r])
  BY DEF Inv, Types
<1>2. c \in Call /\ call' = [call EXCEPT ![r] = c]
  <2>1. req[r].token \in Tokens \cup {NoToken}
    BY <1>1 DEF Request
  <2>2. c \in Call
    BY <1>1, <2>1 DEF Call, Answers
  <2>3. call' = [call EXCEPT ![r] = c]
    BY DEF Return, Inv, Types, Call
  <2>4. QED
    BY <2>2, <2>3
<1>3. Idle \in Request /\ Idle.pc = "idle" /\ Idle.token = NoToken
  BY IdleRequest
<1>4. RequestInv(Idle, c)
  <2>1. /\ c.op = "register" /\ c.rpc = "created" /\ c.email = call[r].email
        /\ c.token = req[r].token /\ call[r].op = "register" /\ req[r].pc = "reply"
    BY <1>1 DEF Return, ReplyCreated, RequestInv, Call
  <2>. HIDE DEF c
  <2>. QED BY <1>1, <1>3, <2>1 DEF RequestInv, Kept
<1>5. \A s \in Reqs : req[s].pc = "create" => req[s].token # NoToken
  BY AccountsAssumption DEF Inv, RequestInv
<1>. HIDE DEF c
<1>6. QED
  BY <1>2, <1>3, <1>4, <1>5, RequestStep DEF Return, ReplyCreated, Finish

-----------------------------------------------------------------------------
(* The steps of the handlers that write to the tables, and the world.      *)

LEMMA CreateStep ==
  ASSUME Inv, NEW r \in Reqs, Create(r), UNCHANGED call
  PROVE  Inv'
<1>. DEFINE k == req[r].token
            e == call[r].email
<1>1. /\ call[r] \in Call /\ req[r] \in Request /\ RequestInv(req[r], call[r])
      /\ req[r].pc = "create"
  BY DEF Inv, Types, Create
<1>2. /\ k \in Tokens \ Rows /\ e \in Emails /\ req[r].email = e
      /\ call[r].rpc = "running" /\ call[r].op = "register"
  BY <1>1 DEF RequestInv
<1>3. /\ email' = [email EXCEPT ![k] = e]
      /\ expiresAt' = [expiresAt EXCEPT ![k] = req[r].expires]
      /\ pending' = pending \cup {k}
      /\ req' = [req EXCEPT ![r].pc = "email"]
      /\ UNCHANGED <<clock, verified, deleted, mailed, call>>
  BY <1>2 DEF Create
<1>4. Types'
  BY <1>1, <1>2, <1>3 DEF Inv, Types, Request
<1>5. /\ Rows' = Rows \cup {k} /\ email'[k] = e
      /\ \A l \in Rows : email'[l] = email[l] /\ expiresAt'[l] = expiresAt[l]
  BY <1>2, <1>3, AccountsAssumption DEF Inv, Types, Rows
<1>6. Grows
  BY <1>3, <1>5, AccountsAssumption DEF Grows, Inv, Types
<1>7. Tables'
  <2>1. \A l \in Rows : email[l] # e
    BY <1>2 DEF Create, EmailFree
  <2>2. OneRowPerEmail'
    BY <1>5, <2>1 DEF Inv, Tables, OneRowPerEmail
  <2>3. QED
    BY <1>2, <1>3, <1>5, <2>2 DEF Inv, Tables
<1>8. /\ req'[r].pc = "email" /\ req'[r].token = k /\ req'[r].email = e
      /\ \A s \in Reqs \ {r} : req'[s] = req[s]
  BY <1>1, <1>2, <1>3 DEF Inv, Types, Request
<1>9. RequestInv(req[r], call[r])'
  BY <1>2, <1>3, <1>5, <1>8 DEF RequestInv, Kept
<1>10. \A s \in Reqs \ {r} : req[s].pc = "create" => k # req[s].token
  BY DEF Inv, Owned
<1>11. QED
  BY <1>1, <1>3, <1>4, <1>5, <1>6, <1>7, <1>8, <1>9, <1>10, TableStep

LEMMA MailStep ==
  ASSUME Inv, NEW r \in Reqs, SendVerificationEmail(r), UNCHANGED call
  PROVE  Inv'
<1>. DEFINE k == req[r].token
<1>1. call[r] \in Call /\ req[r] \in Request /\ RequestInv(req[r], call[r])
  BY DEF Inv, Types
<1>2. /\ req[r].pc = "email" /\ req' = [req EXCEPT ![r].pc = "reply"]
      /\ mailed' = mailed \cup {k}
      /\ UNCHANGED <<clock, email, pending, expiresAt, verified, deleted, call>>
  BY DEF SendVerificationEmail, users
<1>3. /\ k \in Rows /\ Rows' = Rows
      /\ call[r].rpc = "running" /\ call[r].op = "register"
      /\ call[r].email \in Emails /\ req[r].email = call[r].email
      /\ email[k] = call[r].email
  BY <1>1, <1>2 DEF RequestInv, Rows
<1>4. Types'
  BY <1>1, <1>2 DEF Inv, Types, Request
<1>5. Grows
  BY <1>2, <1>3, AccountsAssumption DEF Grows, Inv, Types
<1>6. Tables'
  BY <1>2, <1>3 DEF Inv, Tables, OneRowPerEmail
<1>7. /\ req'[r].pc = "reply" /\ req'[r].token = k /\ req'[r].email = call[r].email
      /\ \A s \in Reqs \ {r} : req'[s] = req[s]
  BY <1>1, <1>2, <1>3 DEF Inv, Types, Request
<1>8. RequestInv(req[r], call[r])'
  BY <1>2, <1>3, <1>7 DEF RequestInv, Kept
<1>9. \A s \in Reqs \ {r} : req[s].pc = "create" => k # req[s].token
  BY DEF Inv, Owned
<1>10. QED
  BY <1>2, <1>3, <1>4, <1>5, <1>6, <1>7, <1>8, <1>9, TableStep

LEMMA MarkStep ==
  ASSUME Inv, NEW r \in Reqs, ReturnVerified(r)
  PROVE  Inv'
<1>. DEFINE k == req[r].token
<1>1. call[r] \in Call /\ req[r] \in Request /\ RequestInv(req[r], call[r])
  BY DEF Inv, Types
<1>2. /\ req[r].pc = "mark" /\ req' = [req EXCEPT ![r] = Idle]
      /\ call' = [call EXCEPT ![r].rpc = "verified"]
      /\ verified' = verified \cup {k} /\ pending' = pending \ {k}
      /\ UNCHANGED <<clock, email, expiresAt, deleted, mailed>>
  BY DEF ReturnVerified, MarkEmailVerified, Finish, Rpc
<1>3. call[r].op = "verify" /\ call[r].token = k /\ k \in mailed
  BY <1>1, <1>2 DEF RequestInv
<1>4. Rows' = Rows
  BY <1>2 DEF Rows
<1>5. Types'
  BY <1>1, <1>2, IdleRequest DEF Inv, Types, Call, Answers
<1>6. Grows
  BY <1>2, <1>4, AccountsAssumption DEF Grows, Inv, Types
<1>7. Tables'
  BY <1>2, <1>3, <1>4 DEF Inv, Tables, OneRowPerEmail
<1>8. /\ call'[r].rpc = "verified" /\ call'[r].op = "verify" /\ call'[r].token = k
      /\ req'[r] = Idle
      /\ \A s \in Reqs \ {r} : req'[s] = req[s] /\ call'[s] = call[s]
  BY <1>1, <1>2, <1>3 DEF Inv, Types, Call
<1>9. RequestInv(req[r], call[r])'
  BY <1>2, <1>3, <1>8, IdleRequest DEF RequestInv, Kept
<1>10. \A s \in Reqs : req[s].pc = "create" => req[s].token # NoToken
  BY AccountsAssumption DEF Inv, RequestInv
<1>11. QED
  BY <1>4, <1>5, <1>6, <1>7, <1>8, <1>9, <1>10, IdleRequest, TableStep

\* The clock moves, or an account is deleted; no handler does.
LEMMA WorldStep ==
  ASSUME Inv, Tick \/ (\E k \in Tokens : SoftDelete(k)), UNCHANGED call
  PROVE  Inv'
<1>1. /\ UNCHANGED <<email, pending, expiresAt, verified, mailed, req, call>>
      /\ \/ clock < MaxTime /\ clock' = clock + 1 /\ deleted' = deleted
         \/ clock' = clock /\ \E k \in Rows : deleted' = deleted \cup {k}
  BY DEF Tick, SoftDelete, users
<1>2. Rows' = Rows
  BY <1>1 DEF Rows
<1>3. Types'
  BY <1>1, AccountsAssumption DEF Inv, Types
<1>4. Grows
  BY <1>1, <1>2, AccountsAssumption DEF Grows, Inv, Types
<1>5. Tables'
  BY <1>1, <1>2 DEF Inv, Tables, OneRowPerEmail
<1>6. ASSUME NEW s \in Reqs PROVE RequestInv(req[s], call[s])'
  <2>1. req[s] \in Request /\ call[s] \in Call /\ RequestInv(req[s], call[s])
    BY DEF Inv, Types
  <2>2. req[s].pc = "create" => req[s].token \notin Rows'
    BY <1>2, <2>1 DEF RequestInv
  <2>3. QED
    BY <1>1, <1>4, <2>1, <2>2, RequestKept DEF RequestInv, Kept
<1>7. \A s, t \in Reqs : Owned(s, t)'
  BY <1>1 DEF Inv, Owned
<1>8. QED
  BY <1>3, <1>5, <1>6, <1>7 DEF Inv

LEMMA RestartStep ==
  ASSUME Inv, ServiceRestarts
  PROVE  Inv'
<1>1. /\ UNCHANGED <<clock, email, pending, expiresAt, verified, deleted, mailed>>
      /\ req' = [r \in Reqs |-> Idle]
      /\ call' = [r \in Reqs |-> IF call[r].rpc = "running"
                                 THEN [call[r] EXCEPT !.rpc = "failed"] ELSE call[r]]
  BY DEF ServiceRestarts, Restart, users
<1>2. Rows' = Rows
  BY <1>1 DEF Rows
<1>3. Types'
  <2>1. \A r \in Reqs : [call[r] EXCEPT !.rpc = "failed"] \in Call /\ call[r] \in Call
    BY DEF Inv, Types, Call, Answers
  <2>2. call' \in [Reqs -> Call]
    BY <1>1, <2>1
  <2>3. req' \in [Reqs -> Request]
    BY <1>1, IdleRequest
  <2>. QED BY <1>1, <2>2, <2>3 DEF Inv, Types
<1>4. Tables'
  BY <1>1, <1>2 DEF Inv, Tables, OneRowPerEmail
<1>5. ASSUME NEW s \in Reqs PROVE RequestInv(req[s], call[s])'
  <2>1. req'[s] = Idle /\ RequestInv(req[s], call[s]) /\ call[s] \in Call
    BY <1>1 DEF Inv, Types
  <2>2. /\ call'[s].op = call[s].op /\ call'[s].email = call[s].email
        /\ call'[s].token = call[s].token
        /\ \/ call'[s].rpc = "failed"
           \/ call'[s].rpc = call[s].rpc /\ call[s].rpc # "running"
    <3>1. CASE call[s].rpc = "running"
      <4>1. call'[s] = [call[s] EXCEPT !.rpc = "failed"]
        BY <1>1, <3>1
      <4>. QED
        BY <2>1, <4>1 DEF Call
    <3>2. CASE call[s].rpc # "running"
      BY <1>1, <3>2
    <3>3. QED
      BY <3>1, <3>2
  <2>3. QED
    BY <1>1, <1>2, <2>1, <2>2, IdleRequest DEF RequestInv, Kept
<1>6. \A s, t \in Reqs : Owned(s, t)'
  BY <1>1, IdleRequest DEF Owned
<1>7. QED
  BY <1>3, <1>4, <1>5, <1>6 DEF Inv

LEMMA StepInv == Inv /\ [RegistrationNext]_<<vars, call>> => Inv'
<1>. SUFFICES ASSUME Inv, [RegistrationNext]_<<vars, call>> PROVE Inv'
  OBVIOUS
<1>1. ASSUME NEW r \in Reqs, Browser(r) \/ Answer(r) \/ Timeout(r) PROVE Inv'
  BY <1>1, BrowserStep, AnswerStep
<1>2. ASSUME NEW r \in Reqs, Serve(r) PROVE Inv'
  BY <1>2, ServeStep
<1>3. ASSUME NEW r \in Reqs, Handle(r) PROVE Inv'
  <2>1. CASE Step(r)
    BY <2>1, DrawStep, CreateStep, MailStep DEF Step
  <2>2. CASE Refuse(r) \/ Collide(r)
    BY <2>2, HandlerFails
  <2>3. CASE Return(r)
    BY <2>3, ReturnStep
  <2>4. CASE ReturnVerified(r)
    BY <2>4, MarkStep
  <2>5. QED
    BY <1>3, <2>1, <2>2, <2>3, <2>4 DEF Handle
<1>4. ASSUME NEW r \in Reqs, ServiceFails(r) PROVE Inv'
  BY <1>4, HandlerFails
<1>5. CASE ServiceRestarts
  BY <1>5, RestartStep
<1>6. CASE (Tick \/ \E k \in Tokens : SoftDelete(k)) /\ UNCHANGED call
  BY <1>6, WorldStep
<1>7. CASE UNCHANGED <<vars, call>>
  BY <1>7 DEF Inv, Types, Tables, RequestInv, Kept, Owned, OneRowPerEmail, Rows, vars, users
<1>8. QED
  BY <1>1, <1>2, <1>3, <1>4, <1>5, <1>6, <1>7 DEF RegistrationNext

\* Everything below rests on this.
THEOREM RegistrationInv == RegistrationSpec => []Inv
BY InitInv, StepInv, PTL DEF RegistrationSpec

\* Timeouts, late answers and lost ones add nothing to what the service does:
\* behind the gateway runs Accounts.
THEOREM RegistrationImplementsAccounts == RegistrationSpec => Spec
<1>1. RegistrationInit => Init
  BY DEF RegistrationInit
<1>2. Inv /\ [RegistrationNext]_<<vars, call>> => [Next]_vars
  <2>. SUFFICES ASSUME Inv, [RegistrationNext]_<<vars, call>> PROVE [Next]_vars
    OBVIOUS
  <2>1. ASSUME NEW r \in Reqs, Browser(r) \/ Answer(r) \/ Timeout(r) PROVE UNCHANGED vars
    BY <2>1 DEF Browser, PostRegister, PostVerifyEmail, Post, Answer, Respond, AnswerLost,
         Free, Timeout
  <2>2. ASSUME NEW r \in Reqs, Serve(r) PROVE Next \/ UNCHANGED vars
    <3>1. CASE ServeRegister(r)
      <4>1. call[r].email \in Emails
        BY <3>1 DEF Inv, RequestInv, ServeRegister, Queued
      <4>2. QED
        BY <3>1, <4>1 DEF ServeRegister, Next, Register
    <3>2. CASE ServeVerifyEmail(r)
      <4>1. call[r].token \in mailed
        BY <3>2 DEF Inv, RequestInv, ServeVerifyEmail, Queued
      <4>2. QED
        BY <3>2, <4>1 DEF ServeVerifyEmail, Next, VerifyEmail
    <3>3. CASE ServeFails(r)
      BY <3>3 DEF ServeFails
    <3>4. QED
      BY <2>2, <3>1, <3>2, <3>3 DEF Serve
  <2>3. ASSUME NEW r \in Reqs, Handle(r) \/ ServiceFails(r) PROVE Next
    BY <2>3 DEF Handle, Step, Refuse, Collide, Return, ReturnVerified, ServiceFails,
         Next, Register, VerifyEmail
  <2>4. CASE ServiceRestarts \/ Tick \/ (\E k \in Tokens : SoftDelete(k))
    BY <2>4 DEF ServiceRestarts, Next
  <2>5. QED
    BY <2>1, <2>2, <2>3, <2>4 DEF RegistrationNext
<1>3. QED
  BY <1>1, <1>2, RegistrationInv, PTL DEF RegistrationSpec, Spec

-----------------------------------------------------------------------------
\* Tables, requests and handlers keep their types, and a slot's message and
\* its handler tell the same story also after the gateway's timeout.
THEOREM RegistrationTypeCorrect == RegistrationSpec => []RegistrationTypeOK
<1>1. Inv => RegistrationTypeOK
  <2>. SUFFICES ASSUME Inv PROVE RegistrationTypeOK
    OBVIOUS
  <2>1. TypeOK
    BY DEF Inv, Types, Tables, TypeOK, Request, Rows
  <2>2. \A r \in Reqs : RequestInv(req[r], call[r]) /\ req[r] \in Request
    BY DEF Inv, Types
  <2>3. \A r \in Reqs : call[r].rpc = "running" =>
           /\ call[r].op = "register" => req[r].email = call[r].email
           /\ call[r].op = "verify" => req[r].token = call[r].token
    BY <2>2 DEF RequestInv, Request
  <2>4. QED
    BY <2>1, <2>2, <2>3 DEF Inv, Types, RegistrationTypeOK, RequestInv
<1>2. QED
  BY <1>1, RegistrationInv, PTL

\* However many registrations of an address overlap, one makes an account.
THEOREM OneAccount == RegistrationSpec => []OneRowPerEmail
<1>1. Inv => OneRowPerEmail
  BY DEF Inv, Tables
<1>2. QED
  BY <1>1, RegistrationInv, PTL

\* A token in a mailbox has its row and works until it is used.
THEOREM MailsKeepTheirPromise == RegistrationSpec => []MailedTokensWork
<1>1. Inv => MailedTokensWork
  BY DEF Inv, Tables, MailedTokensWork
<1>2. QED
  BY <1>1, RegistrationInv, PTL

\* No step takes a verification back, or verifies without a mailed token.
THEOREM Verified == RegistrationSpec => VerificationIsFinal
<1>1. Inv /\ Inv' /\ [RegistrationNext]_<<vars, call>> =>
         [/\ verified \subseteq verified' /\ verified' \subseteq mailed'
          /\ pending' \cap verified' = {}]_vars
  <2>. SUFFICES ASSUME Inv, Inv', [RegistrationNext]_<<vars, call>>
                PROVE  verified \subseteq verified'
    BY DEF Inv, Tables
  <2>. USE DEF vars, users
  <2>1. ASSUME NEW r \in Reqs, Browser(r) \/ Answer(r) \/ Timeout(r) \/ Serve(r)
        PROVE  verified' = verified
    BY <2>1 DEF Browser, PostRegister, PostVerifyEmail, Post, Answer, Respond, AnswerLost,
         Free, Timeout, Serve, ServeRegister, ServeVerifyEmail, ServeFails, FindByEmail,
         AlreadyExists, FindByToken, TokenRefused
  <2>2. ASSUME NEW r \in Reqs, Handle(r) \/ ServiceFails(r) PROVE verified \subseteq verified'
    BY <2>2 DEF Handle, Step, NotBreached, Create, SendVerificationEmail, Refuse, Breached,
         Collide, CreateCollides, Return, ReplyCreated, ReturnVerified, MarkEmailVerified,
         ServiceFails, Fail
  <2>3. CASE ServiceRestarts \/ Tick \/ (\E k \in Tokens : SoftDelete(k))
    BY <2>3 DEF ServiceRestarts, Restart, Tick, SoftDelete
  <2>4. QED
    BY <2>1, <2>2, <2>3 DEF RegistrationNext
<1>2. QED
  BY <1>1, RegistrationInv, PTL DEF RegistrationSpec, VerificationIsFinal

\* An answer is true when it is given, however late that is and whatever the
\* service did in between; this is Kept, put in terms of the status.
THEOREM TruthfulAnswers == RegistrationSpec => AnswersTrue
<1>1. Inv => \A r \in Reqs : call[r].rpc \in Answers => Truthful(call[r])
  <2>. SUFFICES ASSUME Inv, NEW r \in Reqs, call[r].rpc \in Answers
                PROVE  Truthful(call[r])
    OBVIOUS
  <2>1. Kept(call[r])
    BY DEF Inv, RequestInv
  <2>2. CASE call[r].rpc = "created"
    <3>1. HttpStatus(call[r]) = 201
      BY <2>2 DEF HttpStatus
    <3>2. QED
      BY <2>1, <2>2, <3>1 DEF Truthful, Kept
  <2>3. CASE call[r].rpc = "verified"
    <3>1. HttpStatus(call[r]) = 200
      BY <2>3 DEF HttpStatus
    <3>2. QED
      BY <2>1, <2>3, <3>1 DEF Truthful, Kept
  <2>4. CASE call[r].rpc = "conflict"
    <3>1. HttpStatus(call[r]) = 409
      BY <2>4 DEF HttpStatus
    <3>2. QED
      BY <2>1, <2>4, <3>1 DEF Truthful, Kept
  <2>5. CASE call[r].rpc = "refused"
    <3>1. HttpStatus(call[r]) = 400
      BY <2>5 DEF HttpStatus
    <3>2. QED
      BY <2>1, <2>5, <3>1 DEF Truthful, Kept
  <2>6. CASE call[r].rpc = "failed"
    <3>1. HttpStatus(call[r]) = 500
      BY <2>6 DEF HttpStatus
    <3>2. QED
      BY <3>1 DEF Truthful
  <2>7. QED
    BY <2>2, <2>3, <2>4, <2>5, <2>6 DEF Answers
<1>2. Inv => [\A r \in Reqs : Respond(r) => Truthful(call[r])]_<<vars, call>>
  BY <1>1 DEF Respond
<1>3. QED
  BY <1>2, RegistrationInv, PTL DEF AnswersTrue

-----------------------------------------------------------------------------
(* The accounts without the requests.                                      *)

LEMMA StandingValues ==
  /\ Standing = [k \in Tokens |-> Standing[k]]
  /\ \A k \in Tokens :
        /\ k \notin Rows => Standing[k] = "free"
        /\ k \in Rows \ mailed => Standing[k] = "stored"
        /\ k \in (Rows \cap mailed) \ verified => Standing[k] = "mailed"
        /\ k \in Rows \cap mailed \cap verified => Standing[k] = "verified"
BY DEF Standing

LEMMA StandingValuesNext ==
  /\ Standing' = [k \in Tokens |-> Standing'[k]]
  /\ \A k \in Tokens :
        /\ k \notin Rows' => Standing'[k] = "free"
        /\ k \in Rows' \ mailed' => Standing'[k] = "stored"
        /\ k \in (Rows' \cap mailed') \ verified' => Standing'[k] = "mailed"
        /\ k \in Rows' \cap mailed' \cap verified' => Standing'[k] = "verified"
BY DEF Standing

LEMMA StandingKept ==
  ASSUME NEW k \in Tokens, k \in Rows <=> k \in Rows', k \in mailed <=> k \in mailed',
         k \in verified <=> k \in verified'
  PROVE  Standing'[k] = Standing[k]
BY DEF Standing

LEMMA OneMoves ==
  ASSUME NEW k \in Tokens, NEW v, Standing'[k] = v,
         \A l \in Tokens \ {k} : Standing'[l] = Standing[l]
  PROVE  Standing' = [Standing EXCEPT ![k] = v]
BY StandingValues, StandingValuesNext

LEMMA LedgerStores ==
  ASSUME Inv, NEW r \in Reqs, Create(r)
  PROVE  \E k \in Tokens, e \in Emails : Ledger!Store(k, e)
<1>. DEFINE k == req[r].token
            e == req[r].email
<1>1. /\ k \in Tokens \ Rows /\ e \in Emails
      /\ email \in [Tokens -> Emails \cup {NoEmail}]
      /\ mailed \subseteq Rows /\ verified \subseteq mailed
  BY DEF Create, Inv, Types, Tables, RequestInv
<1>2. /\ \A l \in Rows : email[l] # e
      /\ email' = [email EXCEPT ![k] = e] /\ UNCHANGED <<mailed, verified>>
  BY DEF Create, EmailFree
<1>3. \A l \in Tokens : email[l] # e
  BY <1>1, <1>2, AccountsAssumption DEF Rows
<1>4. Rows' = Rows \cup {k}
  BY <1>1, <1>2, AccountsAssumption DEF Rows
<1>. HIDE DEF k, e
<1>5. Standing[k] = "free" /\ Standing'[k] = "stored"
  BY <1>1, <1>2, <1>4, StandingValues, StandingValuesNext
<1>6. \A l \in Tokens \ {k} : Standing'[l] = Standing[l]
  BY <1>2, <1>4, StandingKept
<1>7. Standing' = [Standing EXCEPT ![k] = "stored"]
  BY <1>1, <1>5, <1>6, OneMoves
<1>8. Ledger!Store(k, e)
  BY <1>2, <1>3, <1>5, <1>7, Zenon DEF Ledger!Store
<1>. QED BY <1>1, <1>8

LEMMA LedgerMails ==
  ASSUME Inv, NEW r \in Reqs, SendVerificationEmail(r)
  PROVE  UNCHANGED <<Standing, email>> \/ \E k \in Tokens : Ledger!Mail(k)
<1>. DEFINE k == req[r].token
<1>1. /\ k \in Rows /\ k \in Tokens /\ verified \subseteq mailed
      /\ mailed' = mailed \cup {k} /\ UNCHANGED <<email, verified>>
  BY DEF SendVerificationEmail, users, Inv, Types, Tables, RequestInv, Rows
<1>2. Rows' = Rows
  BY <1>1 DEF Rows
<1>. HIDE DEF k
<1>3. CASE k \in mailed
  <2>1. mailed' = mailed
    BY <1>1, <1>3
  <2>. QED BY <1>1, <1>2, <2>1 DEF Standing
<1>4. CASE k \notin mailed
  <2>1. Standing[k] = "stored" /\ Standing'[k] = "mailed"
    BY <1>1, <1>2, <1>4, StandingValues, StandingValuesNext
  <2>2. \A l \in Tokens \ {k} : Standing'[l] = Standing[l]
    BY <1>1, <1>2, StandingKept
  <2>3. Standing' = [Standing EXCEPT ![k] = "mailed"]
    BY <1>1, <2>1, <2>2, OneMoves
  <2>4. Ledger!Mail(k)
    BY <1>1, <2>1, <2>3, Zenon DEF Ledger!Mail
  <2>. QED BY <1>1, <2>4
<1>. QED BY <1>3, <1>4

\* Two handlers may mark the same account; the second changes nothing.
LEMMA LedgerVerifies ==
  ASSUME Inv, NEW r \in Reqs, MarkEmailVerified(r)
  PROVE  UNCHANGED <<Standing, email>> \/ \E k \in Tokens : Ledger!Verify(k)
<1>. DEFINE k == req[r].token
<1>1. /\ k \in Rows /\ k \in Tokens /\ k \in mailed
      /\ verified' = verified \cup {k} /\ UNCHANGED <<email, mailed>>
  <2>1. k \in mailed /\ mailed \subseteq Rows
    BY DEF MarkEmailVerified, Inv, Tables, RequestInv
  <2>. QED BY <2>1 DEF MarkEmailVerified, Rows
<1>2. Rows' = Rows
  BY <1>1 DEF Rows
<1>. HIDE DEF k
<1>3. CASE k \in verified
  <2>1. verified' = verified
    BY <1>1, <1>3
  <2>. QED BY <1>1, <1>2, <2>1 DEF Standing
<1>4. CASE k \notin verified
  <2>1. Standing[k] = "mailed" /\ Standing'[k] = "verified"
    BY <1>1, <1>2, <1>4, StandingValues, StandingValuesNext
  <2>2. \A l \in Tokens \ {k} : Standing'[l] = Standing[l]
    BY <1>1, <1>2, StandingKept
  <2>3. Standing' = [Standing EXCEPT ![k] = "verified"]
    BY <1>1, <2>1, <2>2, OneMoves
  <2>4. Ledger!Verify(k)
    BY <1>1, <2>1, <2>3, Zenon DEF Ledger!Verify
  <2>. QED BY <1>1, <2>4
<1>. QED BY <1>3, <1>4

\* The handlers, one statement at a time behind a gateway that may not wait,
\* implement the ledger of accounts: an address keeps its account for good.
THEOREM RegistrationImplementsLedger == RegistrationSpec => ImplementsAccountLedger
<1>1. RegistrationInit => Ledger!Init
  BY StandingValues DEF RegistrationInit, Init, Ledger!Init, Rows
<1>2. Inv /\ [Next]_vars => [Ledger!Next]_<<Standing, email>>
  <2>. SUFFICES ASSUME Inv, [Next]_vars PROVE Ledger!Next \/ UNCHANGED <<Standing, email>>
    OBVIOUS
  <2>1. UNCHANGED <<email, mailed, verified>> => UNCHANGED <<Standing, email>>
    BY DEF Standing, Rows
  <2>2. ASSUME NEW r \in Reqs, Create(r) \/ SendVerificationEmail(r) \/ MarkEmailVerified(r)
        PROVE  Ledger!Next \/ UNCHANGED <<Standing, email>>
    BY <2>2, LedgerStores, LedgerMails, LedgerVerifies DEF Ledger!Next
  <2>3. ASSUME NEW r \in Reqs, Register(r) \/ VerifyEmail(r) \/ Fail(r)
        PROVE  Ledger!Next \/ UNCHANGED <<Standing, email>>
    <3>1. \/ Create(r) \/ SendVerificationEmail(r) \/ MarkEmailVerified(r)
          \/ UNCHANGED <<email, mailed, verified>>
      BY <2>3 DEF Register, VerifyEmail, FindByEmail, AlreadyExists, Breached, NotBreached,
         CreateCollides, ReplyCreated, FindByToken, TokenRefused, Fail, users, vars
    <3>. QED BY <2>1, <2>2, <3>1
  <2>4. CASE (\E k \in Tokens : SoftDelete(k)) \/ Restart \/ Tick \/ UNCHANGED vars
    <3>1. UNCHANGED <<email, mailed, verified>>
      BY <2>4 DEF SoftDelete, Restart, Tick, users, vars
    <3>. QED BY <2>1, <3>1
  <2>. QED BY <2>3, <2>4 DEF Next
<1>. QED
  BY <1>1, <1>2, RegistrationInv, RegistrationImplementsAccounts, PTL
     DEF RegistrationSpec, Spec, ImplementsAccountLedger, Ledger!Spec, Ledger!accounts
=============================================================================
