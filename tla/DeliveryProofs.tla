---------------------------- MODULE DeliveryProofs ----------------------------
(***************************************************************************)
(* Theorems about Worker and Delivery, for any sets of users, browsers,    *)
(* rows and workers and any size of batch.                                 *)
(***************************************************************************)
EXTENDS Delivery, TLAPS

--------------------------------------------------------------------------------
(* Steps that only change what one worker holds *)

LEMMA NoTxHeld ==
  ASSUME NEW pc \in {"idle", "prune"}
  PROVE  NoTx(pc, {}) \in Tx /\ Held(NoTx(pc, {}))
  BY DEF NoTx, Tx, PCs, Held

\* A worker's transaction becomes tx, and no row changes.
LEMMA StepOfWorker ==
  ASSUME WInv, NEW v \in Workers, NEW tx \in Tx, w' = [w EXCEPT ![v] = tx],
         UNCHANGED <<notifications, subscriptions, gone>>, Held(tx),
         \A x \in Workers \ {v} : Apart(tx, w[x])
  PROVE  WInv'
<1>1. w \in [Workers -> Tx] /\ w' \in [Workers -> Tx]
  BY DEF WInv, RowsTyped
<1>2. \A x \in Workers : w'[x] = IF x = v THEN tx ELSE w[x]
  BY <1>1
<1>3. RowsTyped'
  BY <1>1 DEF WInv, RowsTyped
<1>4. OneUserPerBrowser'
  BY DEF WInv, OneUserPerBrowser
<1>5. \A x \in Workers : Held(w[x])'
  BY <1>2 DEF WInv, Held, Pending
<1>6. \A x, y \in Workers : x # y => Apart(w[x], w[y])'
  BY <1>2 DEF WInv, Apart
<1> QED BY <1>3, <1>4, <1>5, <1>6 DEF WInv

\* The rows change, and no worker's transaction.
LEMMA StepOfRows ==
  ASSUME WInv, w' = w, RowsTyped', OneUserPerBrowser',
         ASSUME NEW v \in Workers PROVE Held(w[v])'
  PROVE  WInv'
  BY DEF WInv, Apart

LEMMA InitSound == Init => WInv
<1> SUFFICES ASSUME Init PROVE WInv
  OBVIOUS
<1>1. NoTx("idle", {}) \in Tx /\ Held(NoTx("idle", {}))
  BY NoTxHeld
<1>2. RowsTyped
  BY <1>1 DEF Init, RowsTyped
<1>3. OneUserPerBrowser
  BY DEF Init, OneUserPerBrowser
<1>4. \A v, x \in Workers : Held(w[v]) /\ Apart(w[v], w[x])
  BY <1>1 DEF Init, NoTx, Apart
<1> QED BY <1>2, <1>3, <1>4 DEF WInv

--------------------------------------------------------------------------------
(* The API *)

LEMMA InsertSound ==
  ASSUME WInv, NEW n \in Notifs, NEW u \in Users, InsertNotification(n, u)
  PROVE  WInv'
<1> DEFINE row == [user |-> u, status |-> "pending"]
<1>1. /\ DOMAIN notifications' = DOMAIN notifications \cup {n}
      /\ \A m \in DOMAIN notifications \cup {n} :
           notifications'[m] = IF m = n THEN row ELSE notifications[m]
      /\ notifications' \in [DOMAIN notifications \cup {n} ->
                             Notification]
  BY DEF InsertNotification, WInv, RowsTyped, Notification
<1>2. Pending \subseteq Pending'
  BY <1>1 DEF Pending, InsertNotification
<1>3. RowsTyped'
  BY <1>1 DEF InsertNotification, WInv, RowsTyped
<1>4. OneUserPerBrowser'
  BY DEF InsertNotification, WInv, OneUserPerBrowser
<1>5. ASSUME NEW v \in Workers PROVE Held(w[v])'
  BY <1>2 DEF InsertNotification, WInv, Held
<1> QED BY <1>3, <1>4, <1>5, StepOfRows DEF InsertNotification

LEMMA UpsertSound ==
  ASSUME WInv, NEW u \in Users, NEW e \in Endpoints, UpsertPushSubscription(u, e)
  PROVE  WInv'
<1> DEFINE rows == {k \in DOMAIN subscriptions : subscriptions[k].endpoint = e}
<1> USE DEF WInv, RowsTyped, PushSubscription
<1>1. CASE rows # {}
  <2>1. subscriptions' = [k \in DOMAIN subscriptions |->
          IF k \in rows THEN [subscriptions[k] EXCEPT !.user = u] ELSE subscriptions[k]]
    BY <1>1 DEF UpsertPushSubscription
  <2>2. /\ DOMAIN subscriptions' = DOMAIN subscriptions
        /\ \A k \in DOMAIN subscriptions :
             subscriptions'[k].endpoint = subscriptions[k].endpoint
        /\ subscriptions' \in [DOMAIN subscriptions -> PushSubscription]
    BY <2>1
  <2>3. RowsTyped'
    BY <2>2 DEF UpsertPushSubscription
  <2>4. OneUserPerBrowser'
    BY <2>2 DEF OneUserPerBrowser
  <2>5. ASSUME NEW v \in Workers PROVE Held(w[v])'
    BY <2>2 DEF UpsertPushSubscription, Held, Pending
  <2> QED BY <2>3, <2>4, <2>5, StepOfRows DEF UpsertPushSubscription
<1>2. CASE rows = {}
  <2>1. PICK k \in FreshSubs :
          subscriptions' = [j \in DOMAIN subscriptions \cup {k} |->
            IF j = k THEN [user |-> u, endpoint |-> e] ELSE subscriptions[j]]
    BY <1>2 DEF UpsertPushSubscription
  <2>2. /\ k \in SubIds /\ k \notin DOMAIN subscriptions
        /\ \A v \in Workers : k # w[v].sub /\ \A s \in w[v].subs : s.id # k
    BY DEF FreshSubs
  <2>3. /\ DOMAIN subscriptions' = DOMAIN subscriptions \cup {k}
        /\ \A j \in DOMAIN subscriptions : subscriptions'[j] = subscriptions[j]
        /\ subscriptions'[k].endpoint = e
        /\ subscriptions' \in [DOMAIN subscriptions \cup {k} -> PushSubscription]
    BY <2>1, <2>2
  <2>4. RowsTyped'
    BY <2>2, <2>3 DEF UpsertPushSubscription
  <2>5. OneUserPerBrowser'
    BY <1>2, <2>2, <2>3 DEF OneUserPerBrowser
  <2>6. ASSUME NEW v \in Workers PROVE Held(w[v])'
    BY <2>2, <2>3 DEF UpsertPushSubscription, Held, Pending
  <2> QED BY <2>4, <2>5, <2>6, StepOfRows DEF UpsertPushSubscription
<1> QED BY <1>1, <1>2

LEMMA DeleteSound ==
  ASSUME WInv, NEW u \in Users, NEW e \in Endpoints, DeletePushSubscription(u, e)
  PROVE  WInv'
<1>1. /\ DOMAIN subscriptions' \subseteq DOMAIN subscriptions
      /\ \A k \in DOMAIN subscriptions' : subscriptions'[k] = subscriptions[k]
      /\ \A v \in Workers : \A k \in w[v].deleted \cap DOMAIN subscriptions :
           k \in DOMAIN subscriptions'
      /\ subscriptions' \in [DOMAIN subscriptions' -> PushSubscription]
  BY DEF DeletePushSubscription, Restrict, Locked, SubsOf, WInv, RowsTyped
<1>2. RowsTyped'
  BY <1>1 DEF DeletePushSubscription, WInv, RowsTyped
<1>3. OneUserPerBrowser'
  BY <1>1 DEF WInv, OneUserPerBrowser
<1>4. ASSUME NEW v \in Workers PROVE Held(w[v])'
  BY <1>1 DEF DeletePushSubscription, WInv, Held, Pending
<1> QED BY <1>2, <1>3, <1>4, StepOfRows DEF DeletePushSubscription

LEMMA ExpireSound ==
  ASSUME WInv, NEW e \in Endpoints, Expire(e)
  PROVE  WInv'
<1>1. RowsTyped' /\ OneUserPerBrowser'
  BY DEF Expire, WInv, RowsTyped, OneUserPerBrowser
<1>2. ASSUME NEW v \in Workers PROVE Held(w[v])'
  BY DEF Expire, WInv, Held, Pending
<1> QED BY <1>1, <1>2, StepOfRows DEF Expire

--------------------------------------------------------------------------------
(* The workers *)

LEMMA ClaimSound ==
  ASSUME WInv, NEW v \in Workers, ClaimPendingNotifications(v)
  PROVE  WInv'
<1>1. PICK rows \in Oldest(Unlocked(Pending)) : w' = [w EXCEPT ![v] = NoTx("list", rows)]
  BY DEF ClaimPendingNotifications, Claim
<1>2. rows \subseteq Pending /\ \A x \in Workers : rows \cap w[x].claimed = {}
  BY DEF Oldest, Unlocked
<1>3. NoTx("list", rows) \in Tx /\ Held(NoTx("list", rows))
  BY <1>2 DEF NoTx, Tx, PCs, Held, Pending, WInv, RowsTyped
<1>4. \A x \in Workers \ {v} : Apart(NoTx("list", rows), w[x])
  BY <1>2 DEF NoTx, Apart
<1> QED BY <1>1, <1>3, <1>4, StepOfWorker DEF ClaimPendingNotifications, Claim

LEMMA ListSound ==
  ASSUME WInv, NEW v \in Workers, ListPushSubscriptionsForUser(v)
  PROVE  WInv'
<1>1. PICK n \in Remaining(v) :
        w' = [w EXCEPT ![v].pc = "send", ![v].row = n, ![v].liveFailures = FALSE,
                       ![v].subs = {[id |-> k, endpoint |-> subscriptions[k].endpoint] :
                                     k \in SubsOf(notifications[n].user) \ w[v].deleted}]
  BY DEF ListPushSubscriptionsForUser
<1> DEFINE subs == {[id |-> k, endpoint |-> subscriptions[k].endpoint] :
                      k \in SubsOf(notifications[n].user) \ w[v].deleted}
           tx == [w[v] EXCEPT !.pc = "send", !.row = n, !.liveFailures = FALSE,
                              !.subs = subs]
<1>2. w[v] \in Tx /\ Held(w[v]) /\ w[v].pc = "list" /\ n \in w[v].claimed
  BY DEF WInv, RowsTyped, ListPushSubscriptionsForUser, Remaining
<1>3. \A s \in subs : /\ s \in [id : SubIds, endpoint : Endpoints]
                      /\ s.id \in DOMAIN subscriptions
                      /\ s.endpoint = subscriptions[s.id].endpoint
                      /\ s = [id |-> s.id, endpoint |-> s.endpoint]
  BY DEF SubsOf, WInv, RowsTyped, PushSubscription
<1>4. \A s, t \in subs : s.endpoint = t.endpoint => s = t
  BY <1>3 DEF WInv, OneUserPerBrowser
<1>5. w' = [w EXCEPT ![v] = tx]
  BY <1>1
<1>6. tx \in Tx
  BY <1>2, <1>3 DEF Tx, PCs
<1>7. Held(tx)
  BY <1>2, <1>3, <1>4 DEF Held, Remaining, Tx
<1>8. \A x \in Workers \ {v} : Apart(tx, w[x])
  BY <1>2 DEF WInv, Apart, Tx
<1> QED BY <1>5, <1>6, <1>7, <1>8, StepOfWorker DEF ListPushSubscriptionsForUser

LEMMA AnswerSound ==
  ASSUME WInv, NEW v \in Workers, NEW s \in w[v].subs, NEW tx \in Tx, Answer(v, s, tx),
         \/ tx = w[v]
         \/ tx = [w[v] EXCEPT !.liveFailures = TRUE]
         \/ s.endpoint \in gone /\ tx = [w[v] EXCEPT !.pc = "delete", !.sub = s.id]
  PROVE  WInv'
<1> DEFINE q == [tx EXCEPT !.subs = @ \ {s}]
<1>1. w[v] \in Tx /\ Held(w[v]) /\ w[v].pc = "send"
  BY DEF WInv, RowsTyped, Answer
<1>2. /\ q \in Tx
      /\ q.claimed = w[v].claimed /\ q.deleted = w[v].deleted
      /\ q.sent = w[v].sent /\ q.failed = w[v].failed /\ q.row = w[v].row
      /\ q.subs \subseteq w[v].subs
      /\ \/ q.pc = "send"
         \/ q.pc = "delete" /\ q.sub = s.id /\ s.endpoint \in gone
  BY <1>1 DEF Tx, PCs
<1>3. Held(q)
  BY <1>1, <1>2 DEF Held
<1>4. \A x \in Workers \ {v} : Apart(q, w[x])
  BY <1>2 DEF WInv, Apart
<1>5. w' = [w EXCEPT ![v] = q]
  BY DEF Answer
<1> QED BY <1>2, <1>3, <1>4, <1>5, StepOfWorker DEF Answer

LEMMA SendSound ==
  ASSUME WInv, NEW v \in Workers, Send(v)
  PROVE  WInv'
<1>1. PICK s \in w[v].subs : Accepted(v, s) \/ Dead(v, s) \/ Failed(v, s)
  BY DEF Send
<1>2. w[v] \in Tx /\ s.id \in SubIds
  BY DEF WInv, RowsTyped, Tx
<1>3. CASE Accepted(v, s)
  BY <1>2, <1>3, AnswerSound DEF Accepted
<1>4. CASE Dead(v, s)
  <2>1. [w[v] EXCEPT !.pc = "delete", !.sub = s.id] \in Tx
    BY <1>2 DEF Tx, PCs
  <2> QED BY <1>4, <2>1, AnswerSound DEF Dead
<1>5. CASE Failed(v, s)
  <2>1. [w[v] EXCEPT !.liveFailures = TRUE] \in Tx
    BY <1>2 DEF Tx
  <2> QED BY <1>5, <2>1, AnswerSound DEF Failed
<1> QED BY <1>1, <1>3, <1>4, <1>5

LEMMA DeleteByIDSound ==
  ASSUME WInv, NEW v \in Workers, DeletePushSubscriptionByID(v)
  PROVE  WInv'
<1> DEFINE k == {w[v].sub} \cap DOMAIN subscriptions
           tx == [w[v] EXCEPT !.pc = "send", !.sub = Nil, !.deleted = @ \cup k]
<1>1. w[v] \in Tx /\ Held(w[v]) /\ w[v].pc = "delete"
  BY DEF WInv, RowsTyped, DeletePushSubscriptionByID
<1>2. k \subseteq SubIds
  BY DEF WInv, RowsTyped
<1>3. w' = [w EXCEPT ![v] = tx]
  BY DEF DeletePushSubscriptionByID
<1>4. tx \in Tx
  BY <1>1, <1>2 DEF Tx, PCs
<1>5. Held(tx)
  BY <1>1 DEF Held, Tx
<1>6. \A x \in Workers \ {v} : Apart(tx, w[x])
  BY <1>1 DEF WInv, Apart, Tx, DeletePushSubscriptionByID
<1> QED BY <1>3, <1>4, <1>5, <1>6, StepOfWorker DEF DeletePushSubscriptionByID

LEMMA MarkSound ==
  ASSUME WInv, NEW v \in Workers, MarkNotification(v)
  PROVE  WInv'
<1> DEFINE n == {w[v].row}
           tx == [w[v] EXCEPT !.pc = "list", !.row = Nil,
                    !.sent = IF w[v].liveFailures THEN @ ELSE @ \cup n,
                    !.failed = IF w[v].liveFailures THEN @ \cup n ELSE @]
<1>1. w[v] \in Tx /\ Held(w[v]) /\ w[v].pc = "send" /\ w[v].subs = {}
  BY DEF WInv, RowsTyped, MarkNotification
<1>2. n \subseteq w[v].claimed /\ n \subseteq Notifs
  BY <1>1 DEF Held, Tx
<1>3. w' = [w EXCEPT ![v] = tx]
  BY DEF MarkNotification
<1>4. tx \in Tx
  BY <1>1, <1>2 DEF Tx, PCs
<1>5. Held(tx)
  BY <1>1, <1>2 DEF Held, Tx
<1>6. \A x \in Workers \ {v} : Apart(tx, w[x])
  BY <1>1 DEF WInv, Apart, Tx
<1> QED BY <1>3, <1>4, <1>5, <1>6, StepOfWorker DEF MarkNotification

LEMMA RollbackSound ==
  ASSUME WInv, NEW v \in Workers, Rollback(v)
  PROVE  WInv'
<1>1. \A x \in Workers \ {v} : Apart(NoTx("idle", {}), w[x])
  BY DEF NoTx, Apart
<1> QED BY <1>1, NoTxHeld, StepOfWorker DEF Rollback

\* What a commit does to the rows.
LEMMA CommitRows ==
  ASSUME WInv, NEW v \in Workers, Commit(v)
  PROVE  /\ w' = [w EXCEPT ![v] = NoTx("prune", {})]
         /\ w[v].claimed = w[v].sent \cup w[v].failed
         /\ DOMAIN notifications' = DOMAIN notifications
         /\ \A n \in DOMAIN notifications :
              /\ notifications'[n].user = notifications[n].user
              /\ n \in w[v].sent => notifications'[n].status = "sent"
              /\ n \in w[v].claimed \ w[v].sent => notifications'[n].status = "failed"
              /\ n \notin w[v].claimed => notifications'[n] = notifications[n]
         /\ Pending' = Pending \ w[v].claimed
         /\ DOMAIN subscriptions' = DOMAIN subscriptions \ w[v].deleted
         /\ \A k \in DOMAIN subscriptions' : subscriptions'[k] = subscriptions[k]
         /\ RowsTyped'
<1>1. w[v] \in Tx /\ Held(w[v])
  BY DEF WInv, RowsTyped
<1>2. /\ w' = [w EXCEPT ![v] = NoTx("prune", {})]
      /\ w[v].claimed = w[v].sent \cup w[v].failed
  BY <1>1 DEF Commit, Remaining, Held
<1>3. /\ DOMAIN notifications' = DOMAIN notifications
      /\ \A n \in DOMAIN notifications :
           /\ notifications'[n].user = notifications[n].user
           /\ n \in w[v].sent => notifications'[n].status = "sent"
           /\ n \in w[v].claimed \ w[v].sent => notifications'[n].status = "failed"
           /\ n \notin w[v].claimed => notifications'[n] = notifications[n]
      /\ notifications' \in [DOMAIN notifications -> Notification]
  BY <1>2 DEF Commit, WInv, RowsTyped, Notification
<1>4. Pending' = Pending \ w[v].claimed
  BY <1>1, <1>2, <1>3 DEF Pending, Held
<1>5. /\ DOMAIN subscriptions' = DOMAIN subscriptions \ w[v].deleted
      /\ \A k \in DOMAIN subscriptions' : subscriptions'[k] = subscriptions[k]
      /\ subscriptions' \in [DOMAIN subscriptions' -> PushSubscription]
  BY DEF Commit, Restrict, WInv, RowsTyped
<1>6. RowsTyped'
  BY <1>2, <1>3, <1>5, NoTxHeld DEF WInv, RowsTyped
<1> QED BY <1>2, <1>3, <1>4, <1>5, <1>6

LEMMA CommitSound ==
  ASSUME WInv, NEW v \in Workers, Commit(v)
  PROVE  WInv'
<1>1. \A x \in Workers : w'[x] = IF x = v THEN NoTx("prune", {}) ELSE w[x]
  BY CommitRows DEF WInv, RowsTyped
<1> DEFINE Kept ==
      /\ Pending' = Pending \ w[v].claimed
      /\ DOMAIN subscriptions' = DOMAIN subscriptions \ w[v].deleted
      /\ \A k \in DOMAIN subscriptions' : subscriptions'[k] = subscriptions[k]
      /\ gone' = gone
<1>0. Kept
  BY CommitRows DEF Commit
<1>2. OneUserPerBrowser'
  BY <1>0 DEF WInv, OneUserPerBrowser
<1>3. ASSUME NEW x \in Workers PROVE Held(w[x])'
  <2>1. CASE x = v
    BY <2>1, <1>1 DEF NoTx, Held
  <2>2. CASE x # v
    <3>1. w'[x] = w[x] /\ Held(w[x]) /\ Apart(w[x], w[v])
      BY <1>1, <2>2 DEF WInv
    <3>2. w[x].claimed \subseteq Pending'
      BY <3>1, <1>0 DEF Held, Apart
    <3>3. \A k \in w[x].deleted :
            k \in DOMAIN subscriptions' /\ subscriptions'[k].endpoint \in gone
      BY <3>1, <1>0 DEF Held, Apart
    <3> QED BY <3>1, <3>2, <3>3, <1>0 DEF Held
  <2> QED BY <2>1, <2>2
<1>4. \A x, y \in Workers : x # y => Apart(w[x], w[y])'
  BY <1>1 DEF WInv, Apart, NoTx
<1> QED BY <1>2, <1>3, <1>4, CommitRows DEF WInv

\* Pruning leaves what is pending.
LEMMA PruneRows ==
  ASSUME WInv, NEW v \in Workers, PruneOldNotifications(v)
  PROVE  /\ w' = [w EXCEPT ![v] = NoTx("idle", {})]
         /\ DOMAIN notifications' \subseteq DOMAIN notifications
         /\ Pending \subseteq DOMAIN notifications'
         /\ \A n \in DOMAIN notifications' : notifications'[n] = notifications[n]
         /\ Pending' = Pending
         /\ UNCHANGED <<subscriptions, gone>>
         /\ RowsTyped'
<1>1. PICK kept \in SUBSET DOMAIN notifications :
        Pending \subseteq kept /\ notifications' = Restrict(notifications, kept)
  <2>1. PICK newer \in SUBSET DOMAIN notifications : Keep(newer \cup Pending)
    BY DEF PruneOldNotifications, Newer
  <2> QED BY <2>1 DEF Keep, Pending
<1>2. /\ DOMAIN notifications' = kept
      /\ \A n \in kept : notifications'[n] = notifications[n]
      /\ notifications' \in [kept -> Notification]
  BY <1>1 DEF Restrict, WInv, RowsTyped
<1>3. Pending' = Pending
  BY <1>1, <1>2 DEF Pending
<1>4. w' = [w EXCEPT ![v] = NoTx("idle", {})] /\ UNCHANGED <<subscriptions, gone>>
  BY DEF PruneOldNotifications
<1>5. RowsTyped'
  BY <1>2, <1>4, NoTxHeld DEF WInv, RowsTyped
<1> QED BY <1>1, <1>2, <1>3, <1>4, <1>5

LEMMA PruneSound ==
  ASSUME WInv, NEW v \in Workers, PruneOldNotifications(v)
  PROVE  WInv'
<1>1. \A x \in Workers : w'[x] = IF x = v THEN NoTx("idle", {}) ELSE w[x]
  BY PruneRows DEF WInv, RowsTyped
<1>2. OneUserPerBrowser'
  BY PruneRows DEF WInv, OneUserPerBrowser
<1>3. ASSUME NEW x \in Workers PROVE Held(w[x])'
  <2>1. Held(w[x]) /\ Pending' = Pending /\ UNCHANGED <<subscriptions, gone>>
    BY PruneRows DEF WInv
  <2>2. CASE x = v
    BY <2>2, <1>1 DEF NoTx, Held
  <2>3. CASE x # v
    BY <2>1, <2>3, <1>1 DEF Held
  <2> QED BY <2>2, <2>3
<1>4. \A x, y \in Workers : x # y => Apart(w[x], w[y])'
  BY <1>1 DEF WInv, Apart, NoTx
<1> QED BY <1>2, <1>3, <1>4, PruneRows DEF WInv

LEMMA StutterSound == WInv /\ UNCHANGED vars => WInv'
  BY DEF WInv, vars, RowsTyped, OneUserPerBrowser, Held, Apart, Pending

LEMMA NextSound == WInv /\ [Next]_vars => WInv'
<1> SUFFICES ASSUME WInv, Next PROVE WInv'
  BY StutterSound
<1>1. ASSUME NEW v \in Workers, Step(v) PROVE WInv'
  BY <1>1, ClaimSound, ListSound, SendSound, DeleteByIDSound, MarkSound, CommitSound,
     PruneSound, RollbackSound DEF Step, DeadlockAbort
<1>2. ASSUME NEW v \in Workers, Crash(v) PROVE WInv'
  BY <1>2, RollbackSound DEF Crash
<1>3. ASSUME NEW n \in Notifs, NEW u \in Users, InsertNotification(n, u) PROVE WInv'
  BY <1>3, InsertSound
<1>4. ASSUME NEW u \in Users, NEW e \in Endpoints,
             UpsertPushSubscription(u, e) \/ DeletePushSubscription(u, e)
      PROVE  WInv'
  BY <1>4, UpsertSound, DeleteSound
<1>5. ASSUME NEW e \in Endpoints, Expire(e) PROVE WInv'
  BY <1>5, ExpireSound
<1> QED BY <1>1, <1>2, <1>3, <1>4, <1>5 DEF Next

LEMMA AlwaysWInv == Spec => []WInv
  BY InitSound, NextSound, PTL DEF Spec

\* However browsers change hands and workers delete their rows, a browser is
\* subscribed for one user at most.
THEOREM OneUser == Spec => []OneUserPerBrowser
<1>1. WInv => OneUserPerBrowser
  BY DEF WInv
<1> QED BY <1>1, AlwaysWInv, PTL

\* A worker deletes by id what it listed before it sent, and yet it never takes
\* down a subscription that the push service has not discarded.
THEOREM OnlyDead == Spec => OnlyDeadDeleted
<1> DEFINE Deletes == \A k \in DOMAIN subscriptions \ DOMAIN subscriptions' :
                        subscriptions[k].endpoint \in gone \/ UNCHANGED w
<1>1. ASSUME WInv, Next PROVE Deletes
  <2>1. ASSUME NEW v \in Workers, Commit(v) PROVE Deletes
    <3>1. \A k \in w[v].deleted : subscriptions[k].endpoint \in gone
      BY <1>1 DEF WInv, Held
    <3>2. DOMAIN subscriptions' = DOMAIN subscriptions \ w[v].deleted
      BY <1>1, <2>1, CommitRows
    <3> QED BY <3>1, <3>2
  <2>2. ASSUME NEW v \in Workers, Step(v), ~Commit(v) PROVE Deletes
    <3>1. UNCHANGED subscriptions
      BY <2>2 DEF Step, ClaimPendingNotifications, Claim, ListPushSubscriptionsForUser,
         Send, Accepted, Dead, Failed, Answer, DeletePushSubscriptionByID,
         MarkNotification, PruneOldNotifications, DeadlockAbort, Rollback
    <3> QED BY <3>1
  <2>3. ASSUME NEW v \in Workers, Crash(v) PROVE Deletes
    BY <2>3 DEF Crash, Rollback
  <2>4. ASSUME NEW n \in Notifs, NEW u \in Users, InsertNotification(n, u) PROVE Deletes
    BY <2>4 DEF InsertNotification
  <2>5. ASSUME NEW u \in Users, NEW e \in Endpoints,
               UpsertPushSubscription(u, e) \/ DeletePushSubscription(u, e)
        PROVE  Deletes
    BY <2>5 DEF UpsertPushSubscription, DeletePushSubscription
  <2>6. ASSUME NEW e \in Endpoints, Expire(e) PROVE Deletes
    BY <2>6 DEF Expire
  <2> QED BY <1>1, <2>1, <2>2, <2>3, <2>4, <2>5, <2>6 DEF Next
<1>2. WInv /\ [Next]_vars => [Deletes]_vars
  BY <1>1
<1> QED BY <1>2, AlwaysWInv, PTL DEF Spec, OnlyDeadDeleted

--------------------------------------------------------------------------------
(* The order of the rows *)

\* A new row is younger than all others.
LEMMA InsertOrdered ==
  ASSUME Ordered, NEW n \in Notifs, NEW u \in Users, InsertNotification(n, u)
  PROVE  Ordered'
<1>1. /\ n \notin DOMAIN notifications /\ DOMAIN notifications' = DOMAIN notifications \cup {n}
      /\ created' = created \cup ((DOMAIN notifications) \X {n})
  BY DEF InsertNotification
<1>2. \A l, m : Older(l, m)' <=> Older(l, m) \/ (l \in DOMAIN notifications /\ m = n)
  BY <1>1 DEF Older
<1>3. \A l, m : Older(l, m) => l \in DOMAIN notifications /\ m \in DOMAIN notifications
  BY DEF Ordered, Older
<1>4. created' \subseteq (DOMAIN notifications') \X (DOMAIN notifications')
  BY <1>1 DEF Ordered
<1>5. \A l, m \in DOMAIN notifications' :
        /\ l # m <=> Older(l, m)' \/ Older(m, l)'
        /\ ~(Older(l, m)' /\ Older(m, l)')
  BY <1>1, <1>2, <1>3 DEF Ordered
<1>6. \A l, m, o \in DOMAIN notifications' : Older(l, m)' /\ Older(m, o)' => Older(l, o)'
  BY <1>1, <1>2, <1>3 DEF Ordered
<1> QED BY <1>4, <1>5, <1>6 DEF Ordered

\* The rows that are kept keep their order.
LEMMA PruneOrdered ==
  ASSUME Ordered, NEW v \in Workers, PruneOldNotifications(v)
  PROVE  Ordered'
<1>1. PICK newer \in SUBSET DOMAIN notifications : Keep(newer \cup Pending)
  BY DEF PruneOldNotifications, Newer
<1> DEFINE kept == newer \cup Pending
<1>2. /\ kept \subseteq DOMAIN notifications /\ DOMAIN notifications' = kept
      /\ created' = created \cap (kept \X kept)
  BY <1>1 DEF Keep, Restrict, Pending
<1> HIDE DEF kept
<1>3. \A l, m : Older(l, m)' <=> Older(l, m) /\ l \in kept /\ m \in kept
  BY <1>2 DEF Older
<1>4. created' \subseteq (DOMAIN notifications') \X (DOMAIN notifications')
  BY <1>2
<1> QED BY <1>2, <1>3, <1>4 DEF Ordered

\* No other step adds or drops a row.
LEMMA OrderedKept ==
  ASSUME Ordered, DOMAIN notifications' = DOMAIN notifications, created' = created
  PROVE  Ordered'
BY DEF Ordered, Older

LEMMA TypesSound ==
  ASSUME WInv, WInv', TypeOK, Next PROVE TypeOK'
<1>1. RowsTyped /\ RowsTyped'
  BY DEF WInv
<1> DEFINE Rest == Ordered' /\ gone' \subseteq Endpoints /\ crashes' \in 0..MaxCrashes
<1>2. ASSUME NEW v \in Workers, Step(v) PROVE Rest
  <2>1. UNCHANGED <<gone, crashes>>
    BY <1>2 DEF Step, ClaimPendingNotifications, Claim, ListPushSubscriptionsForUser, Send,
       Accepted, Dead, Failed, Answer, DeletePushSubscriptionByID, MarkNotification,
       Commit, PruneOldNotifications, DeadlockAbort, Rollback
  <2>2. CASE PruneOldNotifications(v)
    BY <2>1, <2>2, PruneOrdered DEF TypeOK
  <2>3. CASE ~PruneOldNotifications(v)
    <3>1. DOMAIN notifications' = DOMAIN notifications /\ created' = created
      BY <1>2, <2>3 DEF Step, ClaimPendingNotifications, Claim,
         ListPushSubscriptionsForUser, Send, Accepted, Dead, Failed, Answer,
         DeletePushSubscriptionByID, MarkNotification, Commit, DeadlockAbort, Rollback
    <3> QED BY <2>1, <3>1, OrderedKept DEF TypeOK
  <2> QED BY <2>2, <2>3
<1>3. ASSUME NEW v \in Workers, Crash(v) PROVE Rest
  <2>1. crashes' \in 0..MaxCrashes
    BY <1>3, CrashAssumption DEF Crash, TypeOK
  <2> QED BY <1>3, <2>1, OrderedKept DEF Crash, Rollback, TypeOK
<1>4. ASSUME NEW n \in Notifs, NEW u \in Users, InsertNotification(n, u) PROVE Rest
  <2>1. UNCHANGED <<gone, crashes>>
    BY <1>4 DEF InsertNotification
  <2> QED BY <1>4, <2>1, InsertOrdered DEF TypeOK
<1>5. ASSUME NEW u \in Users, NEW e \in Endpoints,
             UpsertPushSubscription(u, e) \/ DeletePushSubscription(u, e)
      PROVE  Rest
  BY <1>5, OrderedKept DEF UpsertPushSubscription, DeletePushSubscription, TypeOK
<1>6. ASSUME NEW e \in Endpoints, Expire(e) PROVE Rest
  BY <1>6, OrderedKept DEF Expire, TypeOK
<1>7. Rest
  BY <1>2, <1>3, <1>4, <1>5, <1>6 DEF Next
<1> QED BY <1>1, <1>7 DEF TypeOK, RowsTyped

\* Rows, transactions and locks have their types, and created_at orders the rows
\* whichever of them were pruned.
THEOREM WorkerTypes == Spec => []TypeOK
<1>1. Init => TypeOK
  <2> SUFFICES ASSUME Init PROVE TypeOK
    OBVIOUS
  <2>1. RowsTyped
    BY InitSound DEF WInv
  <2>2. DOMAIN notifications = {} /\ created = {} /\ gone = {} /\ crashes = 0
    BY DEF Init
  <2>3. Ordered /\ crashes \in 0..MaxCrashes
    BY <2>2, CrashAssumption DEF Ordered
  <2> QED BY <2>1, <2>2, <2>3 DEF TypeOK, RowsTyped
<1>2. WInv /\ WInv' /\ TypeOK /\ [Next]_vars => TypeOK'
  <2>1. TypeOK /\ UNCHANGED vars => TypeOK'
    BY DEF vars, TypeOK, Ordered, Older
  <2> QED BY <2>1, TypesSound
<1> QED BY <1>1, <1>2, AlwaysWInv, PTL DEF Spec

--------------------------------------------------------------------------------
(* What the history says of a step *)

\* Only a worker in the middle of a send makes a device take a notification.
LEMMA TakesSound ==
  ASSUME WInv, NEW n, NEW e, Takes(n, e)
  PROVE  \E v \in Workers : \E s \in w[v].subs :
           /\ w[v].pc = "send" /\ n = w[v].row /\ e = s.endpoint
           /\ n \in w[v].claimed
           /\ w'[v].subs = w[v].subs \ {s} /\ w'[v].pc = "send"
           /\ \A x \in Workers \ {v} : w'[x] = w[x]
<1>1. PICK v \in Workers : w[v].row = n /\ \E s \in w[v].subs : s.endpoint = e /\ Accepted(v, s)
  BY DEF Takes
<1>2. PICK s \in w[v].subs : s.endpoint = e /\ Accepted(v, s)
  BY <1>1
<1>3. w \in [Workers -> Tx] /\ w[v] \in Tx /\ Held(w[v])
  BY DEF WInv, RowsTyped
<1>4. w[v].pc = "send" /\ w' = [w EXCEPT ![v] = [w[v] EXCEPT !.subs = @ \ {s}]]
  BY <1>2 DEF Accepted, Answer
<1>5. /\ w'[v].subs = w[v].subs \ {s} /\ w'[v].pc = "send"
      /\ \A x \in Workers \ {v} : w'[x] = w[x]
  BY <1>3, <1>4 DEF Tx
<1>6. n \in w[v].claimed
  BY <1>1, <1>3, <1>4 DEF Held
<1> QED BY <1>1, <1>2, <1>4, <1>5, <1>6

\* A transaction that goes on keeps what has been taken and owed.
LEMMA KeptByHolder ==
  ASSUME WInv, Record, NEW v \in Workers, NEW n \in w[v].claimed, n \in w'[v].claimed
  PROVE  /\ served'[n] = served[n] \cup {e \in Endpoints : Takes(n, e)}
         /\ owed'[n] \subseteq owed[n]
<1>1. n \in DOMAIN notifications /\ n \in Notifs
  BY DEF WInv, Held, Pending, RowsTyped
<1>2. ~Posted(n)
  BY <1>1 DEF Posted
<1>3. ~Lost(n)
  <2>1. \A x \in Workers : n \in w[x].claimed => x = v
    BY DEF WInv, Apart
  <2> QED BY <2>1 DEF Lost
<1> QED BY <1>1, <1>2, <1>3 DEF Record

\* Other workers do not touch what a worker has claimed.
LEMMA OthersTracked ==
  ASSUME WInv, Record, NEW v \in Workers, w'[v] = w[v], Tracked(w[v])
  PROVE  Tracked(w[v])'
<1>1. ASSUME NEW n \in w[v].claimed
      PROVE  served'[n] = served[n] /\ owed'[n] \subseteq owed[n]
  <2>1. ASSUME NEW e, Takes(n, e) PROVE FALSE
    <3>1. PICK x \in Workers : \E s \in w[x].subs :
            n \in w[x].claimed /\ w'[x].subs = w[x].subs \ {s}
      BY <2>1, TakesSound
    <3>2. x = v
      BY <3>1 DEF WInv, Apart
    <3> QED BY <3>1, <3>2
  <2> QED BY <2>1, KeptByHolder
<1>2. Held(w[v])
  BY DEF WInv
<1>3. w[v].sent \subseteq w[v].claimed
  BY <1>2 DEF Held
<1>4. w[v].pc \in {"send", "delete"} => w[v].row \in w[v].claimed
  BY <1>2 DEF Held
<1> QED BY <1>1, <1>3, <1>4 DEF Tracked

\* The worker that makes the step still holds what it has sent.
LEMMA SentTracked ==
  ASSUME WInv, Record, NEW v \in Workers, Tracked(w[v]), w'[v].claimed = w[v].claimed,
         NEW n \in w[v].sent
  PROVE  owed'[n] \subseteq served'[n]
<1>1. n \in w[v].claimed
  BY DEF WInv, Held
<1> QED BY <1>1, KeptByHolder DEF Tracked

LEMMA NoTxTracked ==
  ASSUME NEW pc, pc \notin {"send", "delete"}, NEW rows, NEW v, w'[v] = NoTx(pc, rows)
  PROVE  Tracked(w[v])'
  BY DEF NoTx, Tracked

LEMMA ListTracked ==
  ASSUME DInv, Record, NEW v \in Workers, ListPushSubscriptionsForUser(v)
  PROVE  Tracked(w[v])'
<1>1. PICK n \in Remaining(v) :
        w' = [w EXCEPT ![v].pc = "send", ![v].row = n, ![v].liveFailures = FALSE,
                       ![v].subs = {[id |-> k, endpoint |-> subscriptions[k].endpoint] :
                                     k \in SubsOf(notifications[n].user) \ w[v].deleted}]
  BY DEF ListPushSubscriptionsForUser
<1> DEFINE subs == {[id |-> k, endpoint |-> subscriptions[k].endpoint] :
                      k \in SubsOf(notifications[n].user) \ w[v].deleted}
<1>2. /\ w[v] \in Tx /\ w \in [Workers -> Tx] /\ Held(w[v]) /\ w[v].pc = "list"
      /\ n \in w[v].claimed /\ n \in DOMAIN notifications /\ n \in Notifs
      /\ w[v].row = Nil /\ n \in Pending
  BY DEF DInv, WInv, RowsTyped, ListPushSubscriptionsForUser, Remaining, Held, Pending
<1>3. /\ w'[v].pc = "send" /\ w'[v].row = n /\ w'[v].subs = subs
      /\ w'[v].sent = w[v].sent /\ w'[v].claimed = w[v].claimed
      /\ \A x \in Workers \ {v} : w'[x] = w[x]
  BY <1>1, <1>2 DEF Tx
<1>4. Untaken(n)
  <2>1. \A x \in Workers : n \in w[x].claimed => x = v
    BY <1>2 DEF DInv, WInv, Apart
  <2> QED BY <1>2, <2>1, WorkerNilAssumption DEF Untaken
<1>5. served[n] = {}
  BY <1>2, <1>4 DEF DInv
<1>6. served'[n] = {}
  <2>1. ASSUME NEW e, Takes(n, e) PROVE FALSE
    <3>1. PICK x \in Workers : w[x].pc = "send" /\ n \in w[x].claimed
      BY <2>1, TakesSound DEF DInv
    <3>2. x = v
      BY <1>2, <3>1 DEF DInv, WInv, Apart
    <3> QED BY <1>2, <3>1, <3>2
  <2> QED BY <1>2, <1>3, <1>5, <2>1, KeptByHolder DEF DInv
<1>7. owed'[n] \subseteq {s.endpoint : s \in subs}
  <2>1. owed'[n] \subseteq EndpointsOf(notifications[n].user) \ gone
    <3>1. owed'[n] \subseteq owed[n]
      BY <1>2, <1>3, KeptByHolder DEF DInv
    <3> QED BY <1>2, <3>1 DEF DInv, Reachable
  <2>2. ASSUME NEW k \in SubsOf(notifications[n].user), subscriptions[k].endpoint \notin gone
        PROVE  \E s \in subs : s.endpoint = subscriptions[k].endpoint
    <3>1. k \notin w[v].deleted
      BY <1>2, <2>2 DEF Held
    <3>2. [id |-> k, endpoint |-> subscriptions[k].endpoint] \in subs
      BY <3>1
    <3> QED BY <3>2
  <2> QED BY <2>1, <2>2 DEF EndpointsOf
<1>8. \A m \in w[v].sent : owed'[m] \subseteq served'[m]
  BY <1>3, SentTracked DEF DInv
<1> QED BY <1>3, <1>6, <1>7, <1>8 DEF Tracked

\* The answer of a device: how the transaction changes.
LEMMA AnswerShape ==
  ASSUME WInv, NEW v \in Workers, NEW s \in w[v].subs,
         Accepted(v, s) \/ Dead(v, s) \/ Failed(v, s)
  PROVE  /\ w[v].pc = "send" /\ w[v].row \in w[v].claimed /\ s.endpoint \in Endpoints
         /\ w'[v].pc \in {"send", "delete"}
         /\ w'[v].row = w[v].row /\ w'[v].claimed = w[v].claimed
         /\ w'[v].sent = w[v].sent /\ w'[v].failed = w[v].failed
         /\ w'[v].subs = w[v].subs \ {s}
         /\ \A x \in Workers \ {v} : w'[x] = w[x]
         /\ UNCHANGED <<notifications, subscriptions, gone>>
         /\ ~w'[v].liveFailures => ~w[v].liveFailures /\ (Accepted(v, s) \/ Dead(v, s))
<1>1. w \in [Workers -> Tx] /\ w[v] \in Tx /\ Held(w[v])
  BY DEF WInv, RowsTyped
<1>2. w[v].pc = "send" /\ w[v].row \in w[v].claimed
  BY <1>1 DEF Accepted, Dead, Failed, Answer, Held
<1>3. s.endpoint \in Endpoints
  BY <1>1 DEF Tx
<1>4. CASE Accepted(v, s)
  BY <1>1, <1>2, <1>3, <1>4 DEF Accepted, Answer, Tx
<1>5. CASE Dead(v, s)
  BY <1>1, <1>2, <1>3, <1>5 DEF Dead, Answer, Tx
<1>6. CASE Failed(v, s)
  BY <1>1, <1>2, <1>3, <1>6 DEF Failed, Answer, Tx
<1> QED BY <1>4, <1>5, <1>6

LEMMA AnswerTracked ==
  ASSUME DInv, Record, NEW v \in Workers, NEW s \in w[v].subs,
         Accepted(v, s) \/ Dead(v, s) \/ Failed(v, s)
  PROVE  Tracked(w[v])'
<1> DEFINE n == w[v].row
<1>1. /\ WInv /\ Tracked(w[v]) /\ Held(w[v]) /\ w[v].pc = "send" /\ n \in w[v].claimed
      /\ n \in w'[v].claimed /\ n \in DOMAIN notifications /\ n \in Notifs
  BY AnswerShape DEF DInv, WInv, RowsTyped, Held, Pending
<1>2. served'[n] = served[n] \cup {e \in Endpoints : Takes(n, e)} /\ owed'[n] \subseteq owed[n]
  BY <1>1, KeptByHolder
<1>3. ASSUME NEW e, Takes(n, e) PROVE e = s.endpoint
  <2>1. PICK x \in Workers : \E t \in w[x].subs :
          n \in w[x].claimed /\ e = t.endpoint /\ w'[x].subs = w[x].subs \ {t}
    BY <1>1, <1>3, TakesSound
  <2>2. x = v
    BY <1>1, <2>1 DEF WInv, Apart
  <2>3. PICK t \in w[v].subs : e = t.endpoint /\ w'[v].subs = w[v].subs \ {t}
    BY <2>1, <2>2
  <2>4. w'[v].subs = w[v].subs \ {s}
    BY <1>1, AnswerShape
  <2>5. t = s
    BY <2>3, <2>4
  <2> QED BY <2>3, <2>5
<1>4. ASSUME NEW t \in w'[v].subs PROVE t.endpoint \notin served'[n]
  <2>1. t \in w[v].subs /\ t # s
    BY <1>1, <1>4, AnswerShape
  <2>2. t.endpoint # s.endpoint
    BY <1>1, <2>1 DEF Held
  <2>3. t.endpoint \notin served[n]
    BY <1>1, <2>1 DEF Tracked
  <2> QED BY <1>2, <1>3, <2>2, <2>3
<1>5. ASSUME ~w'[v].liveFailures, NEW e \in owed'[n]
      PROVE  e \in served'[n] \cup {t.endpoint : t \in w'[v].subs}
  <2>1. ~w[v].liveFailures /\ (Accepted(v, s) \/ Dead(v, s))
    BY <1>1, <1>5, AnswerShape
  <2>2. e \in served[n] \cup {t.endpoint : t \in w[v].subs}
    BY <1>1, <1>2, <1>5, <2>1 DEF Tracked
  <2>3. CASE e \in served[n]
    BY <1>2, <2>3
  <2>4. ASSUME NEW t \in w[v].subs, e = t.endpoint, t # s
        PROVE  e \in {q.endpoint : q \in w'[v].subs}
    <3>1. t \in w'[v].subs
      BY <1>1, <2>4, AnswerShape
    <3> QED BY <2>4, <3>1
  <2>5. CASE e = s.endpoint
    <3>1. s.endpoint \in Endpoints
      BY <1>1, AnswerShape
    <3>2. CASE Accepted(v, s)
      <4>1. Takes(n, e)
        BY <2>5, <3>2 DEF Takes
      <4> QED BY <1>2, <2>5, <3>1, <4>1
    <3>3. CASE Dead(v, s)
      <4>1. e \in gone
        BY <2>5, <3>3 DEF Dead
      <4>2. e \notin owed[n]
        BY <1>1, <4>1 DEF DInv, Reachable
      <4> QED BY <1>2, <1>5, <4>2
    <3> QED BY <2>1, <3>2, <3>3
  <2> QED BY <2>2, <2>3, <2>4, <2>5
<1>6. \A m \in w[v].sent : owed'[m] \subseteq served'[m]
  BY <1>1, AnswerShape, SentTracked
<1>7. w'[v].row = n /\ w'[v].sent = w[v].sent
  BY <1>1, AnswerShape
<1> QED BY <1>4, <1>5, <1>6, <1>7 DEF Tracked

\* A step of the worker that sends nothing.
LEMMA HolderUnserved ==
  ASSUME WInv, Record, NEW v \in Workers, NEW n \in w[v].claimed, n \in w'[v].claimed,
         ~(w[v].pc = "send" /\ w'[v].subs # w[v].subs)
  PROVE  served'[n] = served[n] /\ owed'[n] \subseteq owed[n]
<1>1. ASSUME NEW e, Takes(n, e) PROVE FALSE
  <2>1. PICK x \in Workers : \E t \in w[x].subs :
          /\ w[x].pc = "send" /\ n \in w[x].claimed /\ w'[x].subs = w[x].subs \ {t}
    BY <1>1, TakesSound
  <2>2. x = v
    BY <2>1 DEF WInv, Apart
  <2> QED BY <2>1, <2>2
<1> QED BY <1>1, KeptByHolder

LEMMA DeleteByIDTracked ==
  ASSUME DInv, Record, NEW v \in Workers, DeletePushSubscriptionByID(v)
  PROVE  Tracked(w[v])'
<1>1. /\ WInv /\ w \in [Workers -> Tx] /\ w[v] \in Tx /\ Held(w[v]) /\ Tracked(w[v])
      /\ w[v].pc = "delete"
  BY DEF DInv, WInv, RowsTyped, DeletePushSubscriptionByID
<1>2. /\ w'[v].pc = "send" /\ w'[v].row = w[v].row /\ w'[v].subs = w[v].subs
      /\ w'[v].sent = w[v].sent /\ w'[v].claimed = w[v].claimed
      /\ w'[v].liveFailures = w[v].liveFailures
  BY <1>1 DEF DeletePushSubscriptionByID, Tx
<1>3. w[v].row \in w[v].claimed
  BY <1>1 DEF Held
<1>4. served'[w[v].row] = served[w[v].row] /\ owed'[w[v].row] \subseteq owed[w[v].row]
  BY <1>1, <1>2, <1>3, HolderUnserved
<1>5. \A m \in w[v].sent : owed'[m] \subseteq served'[m]
  BY <1>1, <1>2, SentTracked
<1> QED BY <1>1, <1>2, <1>4, <1>5 DEF Tracked

LEMMA MarkTracked ==
  ASSUME DInv, Record, NEW v \in Workers, MarkNotification(v)
  PROVE  Tracked(w[v])'
<1> DEFINE n == w[v].row
<1>1. /\ WInv /\ w \in [Workers -> Tx] /\ w[v] \in Tx /\ Held(w[v]) /\ Tracked(w[v])
      /\ w[v].pc = "send" /\ w[v].subs = {}
  BY DEF DInv, WInv, RowsTyped, MarkNotification
<1>2. /\ w'[v].pc = "list" /\ w'[v].claimed = w[v].claimed /\ w'[v].subs = w[v].subs
      /\ w'[v].sent = IF w[v].liveFailures THEN w[v].sent ELSE w[v].sent \cup {n}
  BY <1>1 DEF MarkNotification, Tx
<1>3. n \in w[v].claimed
  BY <1>1 DEF Held
<1>4. served'[n] = served[n] /\ owed'[n] \subseteq owed[n]
  BY <1>1, <1>2, <1>3, HolderUnserved
<1>5. ~w[v].liveFailures => owed[n] \subseteq served[n]
  BY <1>1 DEF Tracked
<1>6. \A m \in w[v].sent : owed'[m] \subseteq served'[m]
  BY <1>1, <1>2, SentTracked
<1> QED BY <1>2, <1>4, <1>5, <1>6 DEF Tracked

--------------------------------------------------------------------------------
(* Every step *)

\* Rows become pending when they are posted, and sent when a worker commits.
Sources ==
  /\ \A n \in Pending' : Posted(n) \/ n \in Pending
  /\ \A n \in DOMAIN notifications' : notifications'[n].status = "sent" =>
       /\ n \in DOMAIN notifications
       /\ notifications[n].status = "sent" \/ \E v \in Workers : n \in w[v].sent

\* What a worker has begun to send it has begun to send.
Advances(v) ==
  \A n \in w[v].claimed \cap w'[v].claimed :
    n \in Remaining(v)' /\ n # w'[v].row => n \in Remaining(v) /\ n # w[v].row

StepOf(v) ==
  /\ Sources
  /\ Advances(v)
  /\ Tracked(w[v])'
  /\ \A x \in Workers \ {v} : w'[x] = w[x]

LEMMA SameSources ==
  ASSUME UNCHANGED notifications
  PROVE  Sources
  BY DEF Sources, Pending

LEMMA EndOf ==
  ASSUME WInv, NEW v \in Workers, NEW pc \in {"idle", "prune"}, w' = [w EXCEPT ![v] = NoTx(pc, {})]
  PROVE  Advances(v) /\ Tracked(w[v])' /\ \A x \in Workers \ {v} : w'[x] = w[x]
<1>1. w \in [Workers -> Tx]
  BY DEF WInv, RowsTyped
<1>2. w'[v] = NoTx(pc, {}) /\ \A x \in Workers \ {v} : w'[x] = w[x]
  BY <1>1
<1>3. w'[v].claimed = {}
  BY <1>2 DEF NoTx
<1>4. Advances(v)
  BY <1>3 DEF Advances
<1>5. Tracked(w[v])'
  BY <1>2, NoTxTracked
<1> QED BY <1>2, <1>4, <1>5

LEMMA WorkerSteps ==
  ASSUME DInv, Record, NEW v \in Workers, Step(v) \/ Crash(v)
  PROVE  StepOf(v)
<1>0. WInv /\ w \in [Workers -> Tx] /\ w[v] \in Tx /\ Held(w[v])
  BY DEF DInv, WInv, RowsTyped
<1>1. CASE ClaimPendingNotifications(v)
  <2>1. PICK rows : w' = [w EXCEPT ![v] = NoTx("list", rows)]
    BY <1>1 DEF ClaimPendingNotifications, Claim
  <2>2. w'[v] = NoTx("list", rows) /\ \A x \in Workers \ {v} : w'[x] = w[x]
    BY <1>0, <2>1
  <2>3. w[v].claimed = {}
    BY <1>0, <1>1 DEF ClaimPendingNotifications, Claim, Held
  <2> QED BY <1>1, <2>2, <2>3, NoTxTracked, SameSources
          DEF StepOf, Advances, ClaimPendingNotifications, Claim
<1>2. CASE ListPushSubscriptionsForUser(v)
  <2>1. w[v].row = Nil /\ Nil \notin w[v].claimed
    BY <1>0, <1>2, WorkerNilAssumption DEF ListPushSubscriptionsForUser, Held, Tx
  <2>2. /\ w'[v].sent = w[v].sent /\ w'[v].failed = w[v].failed
        /\ w'[v].claimed = w[v].claimed
        /\ \A x \in Workers \ {v} : w'[x] = w[x]
    BY <1>0, <1>2 DEF ListPushSubscriptionsForUser, Tx
  <2>3. Advances(v)
    BY <2>1, <2>2 DEF Advances, Remaining
  <2> QED BY <1>2, <2>2, <2>3, ListTracked, SameSources
          DEF StepOf, ListPushSubscriptionsForUser
<1>3. CASE Send(v)
  <2>1. PICK s \in w[v].subs : Accepted(v, s) \/ Dead(v, s) \/ Failed(v, s)
    BY <1>3 DEF Send
  <2>2. Advances(v)
    BY <1>0, <2>1, AnswerShape DEF Advances, Remaining
  <2>3. UNCHANGED notifications /\ \A x \in Workers \ {v} : w'[x] = w[x]
    BY <1>0, <2>1, AnswerShape
  <2>4. Tracked(w[v])'
    BY <2>1, AnswerTracked
  <2> QED BY <2>2, <2>3, <2>4, SameSources DEF StepOf
<1>4. CASE DeletePushSubscriptionByID(v)
  <2>1. /\ w'[v].row = w[v].row /\ w'[v].claimed = w[v].claimed
        /\ w'[v].sent = w[v].sent /\ w'[v].failed = w[v].failed
        /\ \A x \in Workers \ {v} : w'[x] = w[x]
    BY <1>0, <1>4 DEF DeletePushSubscriptionByID, Tx
  <2> QED BY <1>4, <2>1, DeleteByIDTracked, SameSources
          DEF StepOf, Advances, Remaining, DeletePushSubscriptionByID
<1>5. CASE MarkNotification(v)
  <2>1. /\ w'[v].claimed = w[v].claimed
        /\ w'[v].sent \cup w'[v].failed = w[v].sent \cup w[v].failed \cup {w[v].row}
        /\ \A x \in Workers \ {v} : w'[x] = w[x]
    BY <1>0, <1>5 DEF MarkNotification, Tx
  <2>2. Advances(v)
    BY <2>1 DEF Advances, Remaining
  <2> QED BY <1>5, <2>1, <2>2, MarkTracked, SameSources DEF StepOf, MarkNotification
<1>6. CASE Commit(v)
  <2>1. w' = [w EXCEPT ![v] = NoTx("prune", {})]
    BY <1>0, <1>6, CommitRows
  <2>2. Sources
    BY <1>0, <1>6, CommitRows DEF Sources
  <2> QED BY <1>0, <2>1, <2>2, EndOf DEF StepOf
<1>7. CASE PruneOldNotifications(v)
  <2>1. w' = [w EXCEPT ![v] = NoTx("idle", {})]
    BY <1>0, <1>7, PruneRows
  <2>2. Sources
    BY <1>0, <1>7, PruneRows DEF Sources
  <2> QED BY <1>0, <2>1, <2>2, EndOf DEF StepOf
<1>8. CASE Rollback(v)
  BY <1>0, <1>8, EndOf, SameSources DEF Rollback, StepOf
<1> QED BY <1>1, <1>2, <1>3, <1>4, <1>5, <1>6, <1>7, <1>8 DEF Step, Crash, DeadlockAbort

LEMMA InsertSources ==
  ASSUME NEW n \in Notifs, NEW u \in Users, InsertNotification(n, u)
  PROVE  Sources /\ w' = w
<1>1. /\ DOMAIN notifications' = DOMAIN notifications \cup {n}
      /\ n \notin DOMAIN notifications
      /\ notifications'[n].status = "pending"
      /\ \A m \in DOMAIN notifications : notifications'[m] = notifications[m]
  BY DEF InsertNotification
<1> QED BY <1>1 DEF Sources, Pending, Posted, InsertNotification

LEMMA HistoryInit == DeliveryInit => DInv
<1> SUFFICES ASSUME DeliveryInit PROVE DInv
  OBVIOUS
<1>1. WInv /\ DOMAIN notifications = {}
  BY InitSound DEF DeliveryInit, Init
<1>2. \A v \in Workers : Tracked(w[v])
  BY DEF DeliveryInit, Init, NoTx, Tracked
<1> QED BY <1>1, <1>2 DEF DInv, DeliveryInit, SentMeansServed, Pending

\* The history agrees with the rows if every worker's part of it does.
LEMMA HistoryStep ==
  ASSUME DInv, Record, WInv', Sources, \A v \in Workers : Advances(v),
         ASSUME NEW v \in Workers PROVE Tracked(w[v])'
  PROVE  DInv'
<1>0. WInv
  BY DEF DInv
<1>1. DOMAIN notifications \subseteq Notifs /\ DOMAIN notifications' \subseteq Notifs
  BY <1>0 DEF WInv, RowsTyped
<1>2. SentMeansServed'
  <2> SUFFICES ASSUME NEW n \in DOMAIN notifications', notifications'[n].status = "sent"
               PROVE  owed'[n] \subseteq served'[n]
    BY DEF SentMeansServed
  <2>1. n \in DOMAIN notifications /\ n \in Notifs
    BY <1>1 DEF Sources
  <2>2. owed[n] \subseteq served[n]
    BY <2>1 DEF Sources, DInv, SentMeansServed, Tracked
  <2>3. ~Posted(n) /\ ~Lost(n)
    BY <2>1 DEF Posted, Lost
  <2>4. served[n] \subseteq served'[n] /\ owed'[n] \subseteq owed[n]
    BY <2>1, <2>3 DEF Record
  <2> QED BY <2>2, <2>4
<1>3. ASSUME NEW n \in Pending', Untaken(n)' PROVE served'[n] = {}
  <2>1. n \in Notifs /\ n \in DOMAIN notifications' /\ notifications'[n].status = "pending"
    BY <1>1 DEF Pending
  <2>2. CASE Posted(n) \/ Lost(n)
    BY <2>1, <2>2 DEF Record
  <2>3. CASE ~Posted(n) /\ ~Lost(n)
    <3>1. n \in Pending
      BY <2>3 DEF Sources
    <3>2. ASSUME NEW v \in Workers, n \in w[v].claimed
          PROVE  n \in Remaining(v) /\ n # w[v].row
      <4>1. n \in w'[v].claimed
        BY <2>1, <2>3, <3>2 DEF Lost
      <4>2. n \in Remaining(v)' /\ n # w'[v].row
        BY <1>3, <4>1 DEF Untaken
      <4> QED BY <3>2, <4>1, <4>2 DEF Advances
    <3>3. served[n] = {}
      BY <3>1, <3>2 DEF DInv, Untaken
    <3>4. ASSUME NEW e, Takes(n, e) PROVE FALSE
      BY <1>0, <3>2, <3>4, TakesSound
    <3> QED BY <2>1, <2>3, <3>3, <3>4 DEF Record
  <2> QED BY <2>2, <2>3
<1>4. \A n \in DOMAIN notifications' : owed'[n] \subseteq Reachable(n)'
  BY <1>1 DEF Record
<1>5. served' \in [Notifs -> SUBSET Endpoints] /\ owed' \in [Notifs -> SUBSET Endpoints]
  <2>1. \A n \in Notifs : Posted(n) => Reachable(n)' \subseteq Endpoints
    BY DEF Reachable, EndpointsOf, SubsOf, WInv, RowsTyped, PushSubscription
  <2> QED BY <2>1 DEF DInv, Record
<1> QED BY <1>2, <1>3, <1>4, <1>5 DEF DInv

LEMMA HistoryNext == DInv /\ [DeliveryNext]_deliveryVars => DInv'
<1>1. ASSUME DInv, UNCHANGED deliveryVars PROVE DInv'
  <2>1. WInv'
    BY <1>1, StutterSound DEF DInv, deliveryVars, vars
  <2> QED BY <1>1, <2>1 DEF DInv, deliveryVars, SentMeansServed, Tracked, Pending, Untaken,
          Remaining, Reachable, EndpointsOf, SubsOf
<1>2. ASSUME DInv, Next, Record PROVE DInv'
  <2>1. WInv /\ WInv'
    BY <1>2, NextSound DEF DInv
  <2>2. ASSUME NEW v \in Workers, Step(v) \/ Crash(v) PROVE DInv'
    <3>1. StepOf(v)
      BY <1>2, <2>2, WorkerSteps
    <3>2. ASSUME NEW x \in Workers PROVE Tracked(w[x])' /\ Advances(x)
      <4>1. CASE x = v
        BY <3>1, <4>1 DEF StepOf
      <4>2. CASE x # v
        <5>1. w'[x] = w[x] /\ Tracked(w[x])
          BY <1>2, <3>1, <4>2 DEF StepOf, DInv
        <5> QED BY <1>2, <2>1, <5>1, OthersTracked DEF Advances, Remaining
      <4> QED BY <4>1, <4>2
    <3> QED BY <1>2, <2>1, <3>1, <3>2, HistoryStep DEF StepOf
  <2>3. ASSUME Sources, w' = w PROVE DInv'
    <3>1. ASSUME NEW x \in Workers PROVE Tracked(w[x])' /\ Advances(x)
      BY <1>2, <2>1, <2>3, OthersTracked DEF Advances, Remaining, DInv
    <3> QED BY <1>2, <2>1, <2>3, <3>1, HistoryStep
  <2>4. ASSUME NEW n \in Notifs, NEW u \in Users, InsertNotification(n, u) PROVE DInv'
    <3>1. Sources /\ w' = w
      BY <2>4, InsertSources
    <3> QED BY <2>3, <3>1
  <2>5. ASSUME NEW u \in Users, NEW e \in Endpoints,
               UpsertPushSubscription(u, e) \/ DeletePushSubscription(u, e)
        PROVE  DInv'
    BY <2>3, <2>5, SameSources DEF UpsertPushSubscription, DeletePushSubscription
  <2>6. ASSUME NEW e \in Endpoints, Expire(e) PROVE DInv'
    BY <2>3, <2>6, SameSources DEF Expire
  <2> QED BY <1>2, <2>2, <2>4, <2>5, <2>6 DEF Next
<1> QED BY <1>1, <1>2 DEF DeliveryNext

LEMMA AlwaysDInv == DeliverySpec => []DInv
  BY HistoryInit, HistoryNext, PTL DEF DeliverySpec

\* What is marked sent has reached every browser its recipient has kept alive
\* since it was posted, through failures, deadlocks, lost transactions and
\* whatever browsers do meanwhile.
THEOREM SentIsServed == DeliverySpec => []SentMeansServed
<1>1. DInv => SentMeansServed
  BY DEF DInv
<1> QED BY <1>1, AlwaysDInv, PTL

\* No worker is about to send what the device has had, unless the transaction
\* that sent it was lost: two replicas never send the same notification.
THEOREM NoResend == DeliverySpec => []NoNeedlessResend
<1>1. DInv => NoNeedlessResend
  BY DEF DInv, Tracked, NoNeedlessResend
<1> QED BY <1>1, AlwaysDInv, PTL

--------------------------------------------------------------------------------
(* Delivery implements Outbox *)

state == [n \in Notifs |-> IF n \in DOMAIN notifications
                           THEN notifications[n].status ELSE "absent"]

contractVars == <<state, owed, served>>

\* Nothing is taken in a step in which no worker is, and stays, in a send.
LEMMA NothingTaken ==
  ASSUME WInv, \A v \in Workers : w'[v] = w[v] \/ w[v].pc # "send" \/ w'[v].pc # "send",
         NEW n, NEW e
  PROVE  ~Takes(n, e)
<1> SUFFICES ASSUME Takes(n, e) PROVE FALSE
  OBVIOUS
<1>1. PICK v \in Workers : \E s \in w[v].subs :
        w[v].pc = "send" /\ w'[v].pc = "send" /\ w'[v].subs = w[v].subs \ {s}
  BY TakesSound
<1> QED BY <1>1

LEMMA ServedSame ==
  ASSUME DInv, Record, NEW n \in Notifs, ~Posted(n), ~Lost(n), \A e : ~Takes(n, e)
  PROVE  served'[n] = served[n]
  BY DEF Record, DInv

LEMMA OwedSame ==
  ASSUME DInv, Record, NEW n \in Notifs, ~Posted(n),
         n \in DOMAIN notifications' => Reachable(n) \subseteq Reachable(n)'
  PROVE  owed'[n] = owed[n]
<1>1. n \in DOMAIN notifications' => n \in DOMAIN notifications
  BY DEF Posted
<1> QED BY <1>1 DEF Record, DInv

LEMMA HistoryFunctions ==
  ASSUME DInv, Record
  PROVE  /\ served = [n \in Notifs |-> served[n]] /\ served' = [n \in Notifs |-> served'[n]]
         /\ owed = [n \in Notifs |-> owed[n]] /\ owed' = [n \in Notifs |-> owed'[n]]
  BY DEF Record, DInv

\* A step that changes no row and ends no transaction delivers or does nothing.
LEMMA QuietStep ==
  ASSUME DInv, Record, UNCHANGED <<notifications, subscriptions, gone>>,
         \A v \in Workers : w[v].claimed \subseteq w'[v].claimed
  PROVE  (\E n \in Notifs, e \in Endpoints : Contract!Deliver(n, e)) \/ UNCHANGED contractVars
<1>0. WInv
  BY DEF DInv
<1>1. \A n : ~Posted(n) /\ ~Lost(n)
  BY DEF Posted, Lost
<1>2. UNCHANGED state
  BY DEF state
<1>3. \A n \in Notifs : owed'[n] = owed[n]
  BY <1>1, OwedSame DEF Reachable, EndpointsOf, SubsOf
<1>4. UNCHANGED owed
  BY <1>3, HistoryFunctions
<1>5. CASE \E n, e : Takes(n, e)
  <2>1. PICK n, e : Takes(n, e)
    BY <1>5
  <2>2. PICK v \in Workers : \E s \in w[v].subs :
          /\ w[v].pc = "send" /\ n = w[v].row /\ e = s.endpoint
          /\ n \in w[v].claimed /\ w'[v].subs = w[v].subs \ {s}
          /\ \A x \in Workers \ {v} : w'[x] = w[x]
    BY <1>0, <2>1, TakesSound
  <2>3. PICK s \in w[v].subs :
          /\ w[v].pc = "send" /\ n = w[v].row /\ e = s.endpoint
          /\ n \in w[v].claimed /\ w'[v].subs = w[v].subs \ {s}
          /\ \A x \in Workers \ {v} : w'[x] = w[x]
    BY <2>2
  <2>4. /\ Held(w[v]) /\ Tracked(w[v]) /\ w[v] \in Tx
    BY <1>0 DEF DInv, WInv, RowsTyped
  <2>5. /\ n \in Notifs /\ n \in DOMAIN notifications /\ notifications[n].status = "pending"
        /\ e \in Endpoints /\ e \notin served[n]
    BY <1>0, <2>3, <2>4 DEF Held, Tracked, Pending, WInv, RowsTyped, Tx
  <2>6. ASSUME NEW m, NEW d, Takes(m, d) PROVE m = n /\ d = e
    <3>1. PICK x \in Workers : \E t \in w[x].subs :
            m = w[x].row /\ d = t.endpoint /\ w'[x].subs = w[x].subs \ {t}
      BY <1>0, <2>6, TakesSound
    <3>2. x = v
      BY <2>3, <3>1
    <3>3. PICK t \in w[v].subs :
            m = w[v].row /\ d = t.endpoint /\ w'[v].subs = w[v].subs \ {t}
      BY <3>1, <3>2
    <3>4. t = s
      BY <2>3, <3>3
    <3> QED BY <2>3, <3>3, <3>4
  <2>7. \A m \in Notifs : served'[m] = IF m = n THEN served[n] \cup {e} ELSE served[m]
    BY <1>1, <2>1, <2>5, <2>6 DEF Record, DInv
  <2>8. served' = [served EXCEPT ![n] = @ \cup {e}]
    BY <2>5, <2>7, HistoryFunctions
  <2>9. state[n] = "pending"
    BY <2>5 DEF state
  <2> QED BY <1>2, <1>4, <2>5, <2>8, <2>9 DEF Contract!Deliver, state
<1>6. CASE \A n, e : ~Takes(n, e)
  <2>1. \A n \in Notifs : served'[n] = served[n]
    BY <1>1, <1>6, ServedSame
  <2>2. UNCHANGED served
    BY <2>1, HistoryFunctions
  <2> QED BY <1>2, <1>4, <2>2 DEF contractVars
<1> QED BY <1>5, <1>6

LEMMA InsertPosts ==
  ASSUME DInv, Record, DInv', NEW n \in Notifs, NEW u \in Users, InsertNotification(n, u)
  PROVE  Contract!Post(n)
<1>1. /\ DOMAIN notifications' = DOMAIN notifications \cup {n}
      /\ n \notin DOMAIN notifications
      /\ notifications'[n].status = "pending"
      /\ \A m \in DOMAIN notifications : notifications'[m] = notifications[m]
      /\ w' = w /\ UNCHANGED <<subscriptions, gone>>
  BY DEF InsertNotification
<1>2. \A m : (Posted(m) <=> m = n) /\ ~Lost(m)
  BY <1>1 DEF Posted, Lost
<1>3. \A m, e : ~Takes(m, e)
  BY <1>1, NothingTaken DEF DInv
<1>4. \A m \in Notifs : served'[m] = IF m = n THEN {} ELSE served[m]
  BY <1>2, <1>3, ServedSame DEF Record
<1>5. \A m \in Notifs \ {n} : owed'[m] = owed[m]
  BY <1>1, <1>2, OwedSame DEF Reachable, EndpointsOf, SubsOf
<1>6. served' = [served EXCEPT ![n] = {}] /\ owed' = [owed EXCEPT ![n] = owed'[n]]
  BY <1>4, <1>5, HistoryFunctions
<1>7. owed'[n] \subseteq Endpoints
  BY DEF DInv
<1>8. state[n] = "absent" /\ state' = [state EXCEPT ![n] = "pending"]
  BY <1>1 DEF state
<1> QED BY <1>6, <1>7, <1>8 DEF Contract!Post, state

\* Browsers come and go.
LEMMA RowsForget ==
  ASSUME DInv, Record, DInv', UNCHANGED <<notifications, w>>
  PROVE  Contract!Forget
<1>1. \A n : ~Posted(n) /\ ~Lost(n)
  BY DEF Posted, Lost
<1>2. \A n, e : ~Takes(n, e)
  BY NothingTaken DEF DInv
<1>3. \A n \in Notifs : served'[n] = served[n]
  BY <1>1, <1>2, ServedSame
<1>4. UNCHANGED <<state, served>>
  BY <1>3, HistoryFunctions DEF state
<1>5. \A n \in Notifs : owed'[n] \subseteq owed[n]
  BY <1>1 DEF Record, DInv
<1> QED BY <1>4, <1>5 DEF Contract!Forget, state, DInv

LEMMA CommitSettles ==
  ASSUME DInv, Record, NEW v \in Workers, Commit(v)
  PROVE  Contract!Settle
<1>0. WInv /\ Held(w[v]) /\ Tracked(w[v]) /\ w \in [Workers -> Tx]
  BY DEF DInv, WInv, RowsTyped
<1> DEFINE S == w[v].sent
           F == w[v].claimed \ S
<1>1. /\ \A n \in DOMAIN notifications :
           /\ notifications'[n].user = notifications[n].user
           /\ n \in S => notifications'[n].status = "sent"
           /\ n \in F => notifications'[n].status = "failed"
           /\ n \notin w[v].claimed => notifications'[n] = notifications[n]
      /\ DOMAIN notifications' = DOMAIN notifications
  BY <1>0, CommitRows
<1>2. /\ S \subseteq w[v].claimed /\ w[v].claimed \subseteq DOMAIN notifications
      /\ DOMAIN notifications \subseteq Notifs
      /\ \A n \in w[v].claimed : state[n] = "pending"
  BY <1>0 DEF Held, Pending, WInv, RowsTyped, state
<1>3. S \subseteq {n \in Notifs : state[n] = "pending"}
      /\ F \subseteq {n \in Notifs : state[n] = "pending"}
  BY <1>2
<1>4. state' = [n \in Notifs |-> IF n \in S THEN "sent"
                                 ELSE IF n \in F THEN "failed" ELSE state[n]]
  BY <1>1, <1>2 DEF state
<1>5. /\ \A x \in Workers \ {v} : w'[x] = w[x]
      /\ w[v].pc = "list" /\ UNCHANGED gone
  BY <1>0, CommitRows DEF Commit
<1>6. \A n : ~Posted(n)
  BY <1>1 DEF Posted
<1>7. ASSUME NEW n \in Notifs PROVE ~Lost(n)
  BY <1>1, <1>2, <1>5 DEF Lost
<1>8. \A n, e : ~Takes(n, e)
  BY <1>0, <1>5, NothingTaken
<1>9. \A n \in Notifs : served'[n] = served[n]
  BY <1>6, <1>7, <1>8, ServedSame
<1>10. ASSUME NEW n \in Notifs PROVE owed'[n] = owed[n]
  <2>1. DOMAIN subscriptions' = DOMAIN subscriptions \ w[v].deleted
        /\ \A k \in DOMAIN subscriptions' : subscriptions'[k] = subscriptions[k]
    BY <1>0, CommitRows
  <2>2. \A k \in w[v].deleted : subscriptions[k].endpoint \in gone
    BY <1>0 DEF Held
  <2>3. n \in DOMAIN notifications => Reachable(n) \subseteq Reachable(n)'
    BY <1>1, <1>5, <2>1, <2>2 DEF Reachable, EndpointsOf, SubsOf
  <2> QED BY <1>1, <1>6, <2>3, OwedSame
<1>11. UNCHANGED <<owed, served>>
  BY <1>9, <1>10, HistoryFunctions
<1>12. \A n \in S : owed[n] \subseteq served[n]
  BY <1>0 DEF Tracked
<1>13. \E A, B \in SUBSET {n \in Notifs : state[n] = "pending"} :
         /\ \A n \in A : owed[n] \subseteq served[n]
         /\ state' = [n \in Notifs |-> IF n \in A THEN "sent"
                                       ELSE IF n \in B THEN "failed" ELSE state[n]]
  <2> HIDE DEF S, F
  <2> QED BY <1>3, <1>4, <1>12
<1> QED BY <1>11, <1>13 DEF Contract!Settle, state

LEMMA PruneDrops ==
  ASSUME DInv, Record, NEW v \in Workers, PruneOldNotifications(v)
  PROVE  Contract!Drop
<1>0. WInv /\ Held(w[v]) /\ w \in [Workers -> Tx]
  BY DEF DInv, WInv, RowsTyped
<1> DEFINE D == DOMAIN notifications \ DOMAIN notifications'
<1>1. /\ DOMAIN notifications' \subseteq DOMAIN notifications
      /\ Pending \subseteq DOMAIN notifications'
      /\ \A n \in DOMAIN notifications' : notifications'[n] = notifications[n]
      /\ UNCHANGED <<subscriptions, gone>>
      /\ w' = [w EXCEPT ![v] = NoTx("idle", {})]
  BY <1>0, PruneRows
<1>2. w[v].claimed = {} /\ w[v].pc = "prune" /\ \A x \in Workers \ {v} : w'[x] = w[x]
  BY <1>0, <1>1 DEF Held, PruneOldNotifications
<1>3. \A n : ~Posted(n) /\ ~Lost(n)
  BY <1>1, <1>2 DEF Posted, Lost
<1>4. \A n, e : ~Takes(n, e)
  BY <1>0, <1>2, NothingTaken
<1>5. \A n \in Notifs : served'[n] = served[n]
  BY <1>3, <1>4, ServedSame
<1>6. \A n \in Notifs : owed'[n] = owed[n]
  BY <1>1, <1>3, OwedSame DEF Reachable, EndpointsOf, SubsOf
<1>7. UNCHANGED <<owed, served>>
  BY <1>5, <1>6, HistoryFunctions
<1>8. D \subseteq {n \in Notifs : state[n] \in {"sent", "failed"}}
  BY <1>0, <1>1 DEF Pending, WInv, RowsTyped, Notification, state
<1>9. state' = [n \in Notifs |-> IF n \in D THEN "absent" ELSE state[n]]
  BY <1>1 DEF state
<1> QED BY <1>7, <1>8, <1>9 DEF Contract!Drop, state

LEMMA RollbackLoses ==
  ASSUME DInv, Record, NEW v \in Workers, w[v].pc # "idle", Rollback(v)
  PROVE  Contract!Lose
<1>0. WInv /\ Held(w[v]) /\ w \in [Workers -> Tx]
  BY DEF DInv, WInv, RowsTyped
<1> DEFINE L == w[v].claimed
<1>1. /\ w'[v] = NoTx("idle", {}) /\ \A x \in Workers \ {v} : w'[x] = w[x]
      /\ UNCHANGED <<notifications, subscriptions, gone>>
  BY <1>0 DEF Rollback
<1>2. w'[v].claimed = {} /\ w'[v].pc = "idle"
  BY <1>1 DEF NoTx
<1>3. L \subseteq {n \in Notifs : state[n] = "pending"} /\ L \subseteq Pending
  BY <1>0 DEF Held, Pending, WInv, RowsTyped, state
<1>4. \A n : ~Posted(n) /\ (Lost(n) <=> n \in L)
  BY <1>1, <1>2, <1>3 DEF Posted, Lost, Pending
<1>5. \A n, e : ~Takes(n, e)
  BY <1>0, <1>1, <1>2, NothingTaken
<1>6. \A n \in Notifs : served'[n] = IF n \in L THEN {} ELSE served[n]
  BY <1>4, <1>5, ServedSame DEF Record
<1>7. \A n \in Notifs : owed'[n] = owed[n]
  BY <1>1, <1>4, OwedSame DEF Reachable, EndpointsOf, SubsOf
<1>8. /\ served' = [n \in Notifs |-> IF n \in L THEN {} ELSE served[n]]
      /\ UNCHANGED <<state, owed>>
  BY <1>1, <1>6, <1>7, HistoryFunctions DEF state
<1> QED BY <1>3, <1>8 DEF Contract!Lose, state

LEMMA ContractInit == DeliveryInit => Contract!Init
  BY DEF DeliveryInit, Init, Contract!Init

LEMMA ContractNext ==
  ASSUME DInv, DInv', DeliveryNext
  PROVE  Contract!Next \/ UNCHANGED contractVars
<1>0. WInv /\ Record /\ Next /\ w \in [Workers -> Tx]
  BY DEF DInv, WInv, RowsTyped, DeliveryNext
<1>1. ASSUME NEW v \in Workers,
             \/ ClaimPendingNotifications(v) \/ ListPushSubscriptionsForUser(v) \/ Send(v)
             \/ DeletePushSubscriptionByID(v) \/ MarkNotification(v)
      PROVE  Contract!Next \/ UNCHANGED contractVars
  <2>1. UNCHANGED <<notifications, subscriptions, gone>>
    BY <1>1 DEF ClaimPendingNotifications, Claim, ListPushSubscriptionsForUser, Send,
       Accepted, Dead, Failed, Answer, DeletePushSubscriptionByID, MarkNotification
  <2>2. w[v] \in Tx /\ Held(w[v])
    BY <1>0 DEF WInv
  <2>3. w[v].claimed \subseteq w'[v].claimed /\ \A x \in Workers \ {v} : w'[x] = w[x]
    <3>1. CASE ClaimPendingNotifications(v)
      BY <1>0, <2>2, <3>1 DEF ClaimPendingNotifications, Claim, Held
    <3>2. CASE ListPushSubscriptionsForUser(v)
      BY <1>0, <2>2, <3>2 DEF ListPushSubscriptionsForUser, Tx
    <3>3. CASE Send(v)
      BY <1>0, <3>3, AnswerShape DEF Send
    <3>4. CASE DeletePushSubscriptionByID(v)
      BY <1>0, <2>2, <3>4 DEF DeletePushSubscriptionByID, Tx
    <3>5. CASE MarkNotification(v)
      BY <1>0, <2>2, <3>5 DEF MarkNotification, Tx
    <3> QED BY <1>1, <3>1, <3>2, <3>3, <3>4, <3>5
  <2> QED BY <1>0, <2>1, <2>3, QuietStep DEF Contract!Next
<1>2. ASSUME NEW v \in Workers, Commit(v) PROVE Contract!Next
  BY <1>0, <1>2, CommitSettles DEF Contract!Next
<1>3. ASSUME NEW v \in Workers, PruneOldNotifications(v) PROVE Contract!Next
  BY <1>0, <1>3, PruneDrops DEF Contract!Next
<1>4. ASSUME NEW v \in Workers, DeadlockAbort(v) \/ Crash(v) PROVE Contract!Next
  <2>1. w[v].pc # "idle" /\ Rollback(v)
    BY <1>4 DEF DeadlockAbort, Crash, WaitsFor
  <2> QED BY <1>0, <2>1, RollbackLoses DEF Contract!Next
<1>5. ASSUME NEW n \in Notifs, NEW u \in Users, InsertNotification(n, u)
      PROVE  Contract!Next
  BY <1>0, <1>5, InsertPosts DEF Contract!Next
<1>6. ASSUME UNCHANGED <<notifications, w>> PROVE Contract!Next
  BY <1>0, <1>6, RowsForget DEF Contract!Next
<1>7. ASSUME NEW u \in Users, NEW e \in Endpoints,
             UpsertPushSubscription(u, e) \/ DeletePushSubscription(u, e)
      PROVE  Contract!Next
  BY <1>6, <1>7 DEF UpsertPushSubscription, DeletePushSubscription
<1>8. ASSUME NEW e \in Endpoints, Expire(e) PROVE Contract!Next
  BY <1>6, <1>8 DEF Expire
<1> QED BY <1>0, <1>1, <1>2, <1>3, <1>4, <1>5, <1>7, <1>8 DEF Next, Step

\* The workers, whatever they suffer, implement the outbox.
THEOREM Implements == DeliverySpec => ImplementsOutbox
<1>1. DInv /\ DInv' /\ [DeliveryNext]_deliveryVars => [Contract!Next]_<<state, owed, served>>
  <2>1. UNCHANGED deliveryVars => UNCHANGED contractVars
    BY DEF deliveryVars, contractVars, state
  <2> QED BY <2>1, ContractNext DEF contractVars
<1> QED BY <1>1, ContractInit, AlwaysDInv, PTL DEF DeliverySpec, ImplementsOutbox, Contract!Spec, state

================================================================================
