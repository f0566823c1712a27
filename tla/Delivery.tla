------------------------------- MODULE Delivery -------------------------------
(***************************************************************************)
(* What the devices of a user get from the workers.  Worker is extended by *)
(* two history variables, which no action reads, to say what "sent" means. *)
(***************************************************************************)
EXTENDS Worker

VARIABLES
  served,  \* the endpoints that have taken a notification, but for what lost
           \* transactions had sent
  owed     \* the endpoints its recipient has kept, alive, since it was posted

deliveryVars == <<notifications, created, subscriptions, gone, w, crashes, served, owed>>

Reachable(n) == EndpointsOf(notifications[n].user) \ gone

Posted(n) == n \in DOMAIN notifications' \ DOMAIN notifications

\* The transaction that had claimed n ends without settling it.
Lost(n) == \E v \in Workers : /\ n \in w[v].claimed \ w'[v].claimed
                             /\ notifications'[n].status = "pending"

Takes(n, e) ==
  \E v \in Workers : w[v].row = n /\ \E s \in w[v].subs : s.endpoint = e /\ Accepted(v, s)

Record ==
  /\ served' = [n \in Notifs |->
       IF Posted(n) \/ Lost(n) THEN {}
       ELSE served[n] \cup {e \in Endpoints : Takes(n, e)}]
  /\ owed' = [n \in Notifs |->
       IF Posted(n) THEN Reachable(n)'
       ELSE IF n \in DOMAIN notifications' THEN owed[n] \cap Reachable(n)'
       ELSE owed[n]]

DeliveryInit == Init /\ served = [n \in Notifs |-> {}] /\ owed = [n \in Notifs |-> {}]

DeliveryNext == Next /\ Record

DeliverySpec == DeliveryInit /\ [][DeliveryNext]_deliveryVars

--------------------------------------------------------------------------------
(* Properties *)

\* What is marked sent has reached every browser that its recipient has kept
\* since it was posted, whatever failed, died or was subscribed in between.
SentMeansServed ==
  \A n \in DOMAIN notifications :
    notifications[n].status = "sent" => owed[n] \subseteq served[n]

\* At least once is more than once only because a transaction was lost: nobody
\* is about to send what a device has had from a transaction that was not, so
\* two replicas never send the same notification.
NoNeedlessResend ==
  \A v \in Workers : w[v].pc = "send" =>
    \A s \in w[v].subs : s.endpoint \notin served[w[v].row]

\* A worker step is a step of the outbox or none: nothing pending is dropped, a
\* batch is settled as a whole, what is settled stays settled.
Contract == INSTANCE Outbox WITH
  state <- [n \in Notifs |-> IF n \in DOMAIN notifications
                             THEN notifications[n].status ELSE "absent"]

ImplementsOutbox == Contract!Spec

--------------------------------------------------------------------------------
(* The inductive invariant *)

\* What a worker has sent, and has still to send, of the notifications it holds.
Tracked(tx) ==
  /\ \A n \in tx.sent : owed[n] \subseteq served[n]
  /\ tx.pc \in {"send", "delete"} =>
       /\ \A s \in tx.subs : s.endpoint \notin served[tx.row]
       /\ ~tx.liveFailures =>
            owed[tx.row] \subseteq served[tx.row] \cup {s.endpoint : s \in tx.subs}

\* No worker has begun to send n.
Untaken(n) ==
  \A v \in Workers : n \in w[v].claimed => n \in Remaining(v) /\ n # w[v].row

DInv ==
  /\ WInv
  /\ served \in [Notifs -> SUBSET Endpoints] /\ owed \in [Notifs -> SUBSET Endpoints]
  /\ SentMeansServed
  /\ \A v \in Workers : Tracked(w[v])
  /\ \A n \in Pending : Untaken(n) => served[n] = {}
  /\ \A n \in DOMAIN notifications : owed[n] \subseteq Reachable(n)

================================================================================
