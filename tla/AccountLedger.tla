---------------------------- MODULE AccountLedger ----------------------------
(***************************************************************************)
(* What registration promises of an address, without requests, statements  *)
(* or clocks: the account that takes it keeps it for good, and goes from   *)
(* stored to mailed to verified, through each at most once.  It may stop   *)
(* anywhere: at stored, if its mail failed.  Registration implements this. *)
(***************************************************************************)
CONSTANTS Emails, Tokens, NoEmail

VARIABLES
    standing,   \* [Tokens -> {"free", "stored", "mailed", "verified"}]
    owner       \* the address of the account that the token was drawn for

accounts == <<standing, owner>>

Init ==
    /\ standing = [k \in Tokens |-> "free"]
    /\ owner = [k \in Tokens |-> NoEmail]

Store(k, e) ==
    /\ standing[k] = "free"
    /\ \A l \in Tokens : owner[l] # e
    /\ standing' = [standing EXCEPT ![k] = "stored"]
    /\ owner' = [owner EXCEPT ![k] = e]

Mail(k) ==
    /\ standing[k] = "stored"
    /\ standing' = [standing EXCEPT ![k] = "mailed"]
    /\ UNCHANGED owner

Verify(k) ==
    /\ standing[k] = "mailed"
    /\ standing' = [standing EXCEPT ![k] = "verified"]
    /\ UNCHANGED owner

Next == \E k \in Tokens : (\E e \in Emails : Store(k, e)) \/ Mail(k) \/ Verify(k)

Spec == Init /\ [][Next]_accounts
=============================================================================
