-------------------------------- MODULE Access --------------------------------
(***************************************************************************)
(* Who may call the guarded routes of the API gateway, and for how long.   *)
(*                                                                         *)
(* The gateway never reads the users table: the guards believe the role in *)
(* the access token, which login and refresh copied from the user they had *)
(* read before they signed.  A role changes, or an account goes, while     *)
(* handlers run and tokens are out.  What bounds the damage is the expiry  *)
(* of the token together with the timeout of the gateway, which keeps      *)
(* tokens signed too late from being delivered.                            *)
(*                                                                         *)
(* Each client has one sign-in and one call of a guarded route open at a   *)
(* time, and uses the access token it was given last.  Which sign-ins      *)
(* succeed is the business of Sessions and Lockout: here any may.          *)
(***************************************************************************)
EXTENDS Integers

CONSTANTS
    Users,
    Clients,
    AccessTTL,    \* lifetime of an access token
    RpcTimeout,   \* how long the gateway waits for a service
    MaxTime,      \* bound: the clock stops there
    NoAccess

\* The configured 15 minutes against the 5 seconds of sendWithTimeout.
ASSUME TimesAssumption ==
    /\ RpcTimeout \in Nat
    /\ AccessTTL \in Nat
    /\ RpcTimeout < AccessTTL
    /\ MaxTime \in Nat

Roles == {"USER", "ADMIN", "SUPER_ADMIN"}

\* The longest that a role outlives itself.
Window == RpcTimeout + AccessTTL

ASSUME NoAccessAssumption ==
    NoAccess \notin [user : Users, role : Roles, exp : Nat]

VARIABLES
    clock,
    role,     \* users.role, "gone" for a deleted account
    last,     \* history: when each user had each role last, 0 for long ago
    auth,     \* the login or refresh of each client
    access,   \* the access token of each client
    http      \* its call of a guarded route

vars == <<clock, role, last, auth, access, http>>

-----------------------------------------------------------------------------
(* The routes, named by the message they send, with the roles they ask     *)
(* for; without @Roles any valid token will do.                             *)

SelfRoutes == {"get-user", "update-profile"}

CategoryRoutes ==
    {"create-category", "find-all-categories", "find-one-category",
     "update-category", "remove-category"}

TransactionRoutes ==
    {"create-transaction", "find-all-transactions", "admin-test-transaction",
     "get-transaction-statistics", "find-one-transaction",
     "update-transaction", "remove-transaction"}

Routes ==
    SelfRoutes \cup CategoryRoutes \cup TransactionRoutes
        \cup {"get-user-by-id", "update-user-role"}

Required(route) ==
    CASE route = "get-user-by-id"   -> {"ADMIN", "SUPER_ADMIN"}
      [] route = "update-user-role" -> {"SUPER_ADMIN"}
      [] OTHER                      -> Roles

-----------------------------------------------------------------------------
AccessToken == [user : Users, role : Roles, exp : Nat]

NoAuth == [pc |-> "idle"]

Auth ==
    {NoAuth}
    \cup [pc : {"posted"}, user : Users, since : Nat, waiting : BOOLEAN]
    \cup [pc : {"read"}, user : Users, since : Nat, waiting : BOOLEAN, role : Roles]
    \cup [pc : {"signed"}, since : Nat, waiting : BOOLEAN, token : AccessToken]

NoCall == [status |-> "none"]

\* A call keeps what the guards asked of it; the message carries no roles.
Call ==
    {NoCall}
    \cup [status : {"401"}]
    \cup [status : {"403", "passed", "400", "500"}, user : Users, asked : SUBSET Roles]

Init ==
    /\ clock = Window
    /\ role \in [Users -> Roles]
    /\ last = [u \in Users |-> [ro \in Roles |-> IF role[u] = ro THEN clock ELSE 0]]
    /\ auth = [c \in Clients |-> NoAuth]
    /\ access = [c \in Clients |-> NoAccess]
    /\ http = [c \in Clients |-> NoCall]

-----------------------------------------------------------------------------
(* The world.                                                              *)

Waiting(c) == auth[c] # NoAuth /\ auth[c].waiting

\* The gateway's timers fire on time.
Tick ==
    /\ clock < MaxTime
    /\ \A c \in Clients : Waiting(c) => clock < auth[c].since + RpcTimeout
    /\ clock' = clock + 1
    /\ last' = [u \in Users |-> [ro \in Roles |->
                   IF role[u] = ro THEN clock + 1 ELSE last[u][ro]]]
    /\ UNCHANGED <<role, auth, access, http>>

\* No code of the repository writes the role of an existing user; operators do.
SetRole(u, ro) ==
    /\ role[u] \in Roles \ {ro}
    /\ role' = [role EXCEPT ![u] = ro]
    /\ last' = [last EXCEPT ![u][ro] = clock]
    /\ UNCHANGED <<clock, auth, access, http>>

Delete(u) ==
    /\ role[u] \in Roles
    /\ role' = [role EXCEPT ![u] = "gone"]
    /\ UNCHANGED <<clock, last, auth, access, http>>

-----------------------------------------------------------------------------
(* Login and refresh.                                                      *)

Post(c, u) ==
    /\ auth[c] = NoAuth
    /\ auth' = [auth EXCEPT ![c] =
                  [pc |-> "posted", user |-> u, since |-> clock, waiting |-> TRUE]]
    /\ UNCHANGED <<clock, role, last, access, http>>

\* Mutant: deleted accounts are found as well.
MutRoleRead(u) == {role[u]}

\* The role of the row that findByEmail or findById returns, if any.
RoleRead(u) == {role[u]} \ {"gone"}

ReadUser(c) ==
    /\ auth[c].pc = "posted"
    /\ \E ro \in RoleRead(auth[c].user) :
          auth' = [auth EXCEPT ![c] =
                     [pc |-> "read", user |-> auth[c].user, since |-> auth[c].since,
                      waiting |-> auth[c].waiting, role |-> ro]]
    /\ UNCHANGED <<clock, role, last, access, http>>

\* Much later, after bcrypt, the lockout, or the revocation.
GenerateTokens(c) ==
    /\ auth[c].pc = "read"
    /\ auth' = [auth EXCEPT ![c] =
                  [pc |-> "signed", since |-> auth[c].since, waiting |-> auth[c].waiting,
                   token |-> [user |-> auth[c].user, role |-> auth[c].role,
                              exp |-> clock + AccessTTL]]]
    /\ UNCHANGED <<clock, role, last, access, http>>

\* The handler is refused, fails or dies.
Refuse(c) ==
    /\ auth[c] # NoAuth
    /\ auth' = [auth EXCEPT ![c] = NoAuth]
    /\ UNCHANGED <<clock, role, last, access, http>>

\* Mutant: a late answer is delivered all the same.
MutDeliver(c) ==
    /\ auth[c].pc = "signed"
    /\ access' = [access EXCEPT ![c] = auth[c].token]
    /\ auth' = [auth EXCEPT ![c] = NoAuth]
    /\ UNCHANGED <<clock, role, last, http>>

Deliver(c) ==
    /\ auth[c].pc = "signed"
    /\ auth[c].waiting
    /\ access' = [access EXCEPT ![c] = auth[c].token]
    /\ auth' = [auth EXCEPT ![c] = NoAuth]
    /\ UNCHANGED <<clock, role, last, http>>

\* The handler goes on; Refuse ends it when nobody waits for its answer.
Timeout(c) ==
    /\ Waiting(c)
    /\ clock >= auth[c].since + RpcTimeout
    /\ auth' = [auth EXCEPT ![c].waiting = FALSE]
    /\ UNCHANGED <<clock, role, last, access, http>>

-----------------------------------------------------------------------------
(* A call of a guarded route.                                              *)

\* Mutant: passport-jwt is told to ignore the expiry.
MutValid(t) == t # NoAccess

\* JwtAuthGuard: the signature of a token we issued, and its expiry.
Valid(t) == t # NoAccess /\ clock < t.exp

\* RolesGuard, which runs after it.
HasRole(t, route) == t.role \in Required(route)

Answer(c, call) ==
    /\ http' = [http EXCEPT ![c] = call]
    /\ UNCHANGED <<clock, role, last, auth, access>>

Unauthorized(c) ==
    /\ http[c] = NoCall
    /\ ~ Valid(access[c])
    /\ Answer(c, [status |-> "401"])

Forbidden(c, route) ==
    /\ http[c] = NoCall
    /\ Valid(access[c])
    /\ ~ HasRole(access[c], route)
    /\ Answer(c, [status |-> "403", user |-> access[c].user, asked |-> Required(route)])

Pass(c, route) ==
    /\ http[c] = NoCall
    /\ Valid(access[c])
    /\ HasRole(access[c], route)
    /\ Answer(c, [status |-> "passed", user |-> access[c].user, asked |-> Required(route)])

\* The pipes run after the guards: the body, the query or the id is invalid.
BadRequest(c) ==
    /\ http[c].status = "passed"
    /\ Answer(c, [status |-> "400", user |-> http[c].user, asked |-> http[c].asked])

\* The message is sent.  The users and the expenses service have no handlers:
\* they answer that nothing matches it, or are down, or the wait times out.
ServiceError(c) ==
    /\ http[c].status = "passed"
    /\ Answer(c, [status |-> "500", user |-> http[c].user, asked |-> http[c].asked])

Done(c) ==
    /\ http[c].status \in {"401", "403", "400", "500"}
    /\ Answer(c, NoCall)

-----------------------------------------------------------------------------
SignIn(c) ==
    \/ \E u \in Users : Post(c, u)
    \/ ReadUser(c) \/ GenerateTokens(c) \/ Deliver(c) \/ Timeout(c) \/ Refuse(c)

CallRoute(c) ==
    \/ Unauthorized(c)
    \/ \E route \in Routes : Forbidden(c, route) \/ Pass(c, route)
    \/ BadRequest(c) \/ ServiceError(c) \/ Done(c)

Next ==
    \/ Tick
    \/ \E u \in Users : Delete(u) \/ \E ro \in Roles : SetRole(u, ro)
    \/ \E c \in Clients : SignIn(c) \/ CallRoute(c)

Spec == Init /\ [][Next]_vars

-----------------------------------------------------------------------------
(* Properties.                                                             *)

\* The types of the variables.
AccessTypeOK ==
    /\ clock \in Nat
    /\ role \in [Users -> Roles \cup {"gone"}]
    /\ last \in [Users -> [Roles -> Nat]]
    /\ auth \in [Clients -> Auth]
    /\ access \in [Clients -> AccessToken \cup {NoAccess}]
    /\ http \in [Clients -> Call]

\* The user had one of these roles less than Window ago.
HadLately(u, roles) == \E ro \in roles : clock < last[u][ro] + Window

\* No verdict of the guards is older than an access token and a timeout: they
\* pass a call only of a user who lately had a role that its route asks for,
\* and forbid one only to a user who lately had another.
\* So a demotion, a promotion and the end of an account all take effect.
VerdictsInForce ==
    [][\A c \in Clients :
          /\ http[c] = NoCall /\ http'[c].status = "passed"
                => HadLately(http'[c].user, http'[c].asked)
          /\ http[c] = NoCall /\ http'[c].status = "403"
                => HadLately(http'[c].user, Roles \ http'[c].asked)]_vars

\* Signing in again cures a 401: whatever the handler waited for, the access
\* token it delivers has not expired on arrival.
ValidOnArrival ==
    [][\A c \in Clients : access'[c] # access[c] => clock < access'[c].exp]_vars
=============================================================================
