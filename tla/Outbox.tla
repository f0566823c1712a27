-------------------------------- MODULE Outbox --------------------------------
(***************************************************************************)
(* What the outbox promises: a notification that has been posted stays     *)
(* pending until it is settled, it is delivered at least once, and is       *)
(* settled as sent only when every device it is owed to has had it.        *)
(* Worker implements it.                                                   *)
(***************************************************************************)
CONSTANTS Notifs, Endpoints

VARIABLES
  state,   \* what became of each notification: absent, pending, sent, failed
  owed,    \* the devices its recipient has had since it was posted
  served   \* the devices that got it from a batch that was not lost

Init ==
  /\ state = [n \in Notifs |-> "absent"]
  /\ owed = [n \in Notifs |-> {}]
  /\ served = [n \in Notifs |-> {}]

Post(n) ==
  /\ state[n] = "absent"
  /\ state' = [state EXCEPT ![n] = "pending"]
  /\ served' = [served EXCEPT ![n] = {}]
  /\ \E E \in SUBSET Endpoints : owed' = [owed EXCEPT ![n] = E]

\* Devices come and go; only those that stay are owed the notification.
Forget ==
  /\ \A n \in Notifs : owed'[n] \subseteq owed[n]
  /\ owed' \in [Notifs -> SUBSET Endpoints]
  /\ UNCHANGED <<state, served>>

Deliver(n, e) ==
  /\ state[n] = "pending"
  /\ e \notin served[n]
  /\ served' = [served EXCEPT ![n] = @ \cup {e}]
  /\ UNCHANGED <<state, owed>>

\* A batch that is lost is delivered again.
Lose ==
  /\ \E L \in SUBSET {n \in Notifs : state[n] = "pending"} :
       served' = [n \in Notifs |-> IF n \in L THEN {} ELSE served[n]]
  /\ UNCHANGED <<state, owed>>

\* Some pending notifications, a batch, are settled together.
Settle ==
  /\ \E S, F \in SUBSET {n \in Notifs : state[n] = "pending"} :
       /\ \A n \in S : owed[n] \subseteq served[n]
       /\ state' = [n \in Notifs |-> IF n \in S THEN "sent"
                                     ELSE IF n \in F THEN "failed" ELSE state[n]]
  /\ UNCHANGED <<owed, served>>

Drop ==
  /\ \E D \in SUBSET {n \in Notifs : state[n] \in {"sent", "failed"}} :
       state' = [n \in Notifs |-> IF n \in D THEN "absent" ELSE state[n]]
  /\ UNCHANGED <<owed, served>>

Next == \/ \E n \in Notifs : Post(n) \/ \E e \in Endpoints : Deliver(n, e)
        \/ Forget \/ Lose \/ Settle \/ Drop

Spec == Init /\ [][Next]_<<state, owed, served>>

================================================================================
