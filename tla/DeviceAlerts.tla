----------------------------- MODULE DeviceAlerts -----------------------------
(***************************************************************************)
(* What the user is promised about new devices, without logins, jobs or    *)
(* rows: a device is new until the first sign-in from it; from then on one *)
(* mail about it is on its way, which arrives once or is lost for good.    *)
(* Several are lost together when the process dies.  SignIn implements     *)
(* this.                                                                   *)
(***************************************************************************)
CONSTANT DeviceIds

VARIABLE status   \* [DeviceIds -> {"new", "pending", "delivered", "lost"}]

Init == status = [d \in DeviceIds |-> "new"]

Notice(d) ==
    /\ status[d] = "new"
    /\ status' = [status EXCEPT ![d] = "pending"]

Deliver(d) ==
    /\ status[d] = "pending"
    /\ status' = [status EXCEPT ![d] = "delivered"]

Lose(D) ==
    /\ \A d \in D : status[d] = "pending"
    /\ status' = [d \in DeviceIds |-> IF d \in D THEN "lost" ELSE status[d]]

Next ==
    \/ \E d \in DeviceIds : Notice(d) \/ Deliver(d)
    \/ \E D \in SUBSET DeviceIds : Lose(D)

Spec == Init /\ [][Next]_status
=============================================================================
