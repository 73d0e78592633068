---------------------------- MODULE SessionLedger ----------------------------
(***************************************************************************)
(* What the session store promises, without requests, statements or        *)
(* clocks: a token is unissued, live or dead, and goes through these in    *)
(* this order once.  A login starts a session; a successor is issued only  *)
(* for a dead token of the same user and is younger than it; a step of the *)
(* service kills tokens of one user only.  Sessions implements this.       *)
(***************************************************************************)
EXTENDS Integers

CONSTANTS Users, MaxTime, NoToken

Token == [user : Users, iat : 0 .. MaxTime]

VARIABLES
    status,   \* [Token -> {"unissued", "live", "dead"}]
    from      \* the token a live or dead one succeeds, if any

ledger == <<status, from>>

Init ==
    /\ status = [t \in Token |-> "unissued"]
    /\ from = [t \in Token |-> NoToken]

Begin(t) ==
    /\ status[t] = "unissued"
    /\ status' = [status EXCEPT ![t] = "live"]
    /\ from' = [from EXCEPT ![t] = NoToken]

Succeed(p, t) ==
    /\ status[p] = "dead"
    /\ status[t] = "unissued"
    /\ t.user = p.user /\ p.iat < t.iat
    /\ status' = [status EXCEPT ![t] = "live"]
    /\ from' = [from EXCEPT ![t] = p]

Close(u) ==
    /\ status' \in [Token -> {"unissued", "live", "dead"}]
    /\ \A t \in Token :
          \/ status'[t] = status[t]
          \/ t.user = u /\ status[t] = "live" /\ status'[t] = "dead"
    /\ UNCHANGED from

Next ==
    \/ \E t \in Token : Begin(t) \/ \E p \in Token : Succeed(p, t)
    \/ \E u \in Users : Close(u)

Spec == Init /\ [][Next]_ledger
=============================================================================
