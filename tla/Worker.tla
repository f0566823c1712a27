-------------------------------- MODULE Worker --------------------------------
(***************************************************************************)
(* Delivery of notifications: backend/internal/worker/worker.go (sending   *)
(* and pruning; see Reminders for the scan), push/webpush.go, the services *)
(* that write push_subscriptions, and their SQL.                           *)
(*                                                                         *)
(* Every API replica runs a worker.  It claims a batch of pending rows in  *)
(* one transaction, sends each of them to the devices of its recipient,    *)
(* and only at the end commits what became of them.  What the transaction  *)
(* has written is seen by nobody else until then: it is part of w[v].      *)
(***************************************************************************)
EXTENDS Naturals, FiniteSets, FiniteSetsExt, Functions

CONSTANTS
  Users,
  Notifs,      \* uuids of notifications rows
  Endpoints,   \* push endpoints, one per browser
  SubIds,      \* uuids of push_subscriptions rows
  Workers,     \* the replicas
  Batch,       \* LIMIT of the claim
  MaxCrashes,  \* bound of the model: how often a worker's transaction is lost
  Nil

ASSUME BatchAssumption == Batch \in Nat \ {0}
ASSUME CrashAssumption == MaxCrashes \in Nat
ASSUME WorkerNilAssumption == Nil \notin SubIds \cup Notifs

VARIABLES
  notifications,  \* the outbox: a function from the ids of its rows
  created,        \* the order of created_at: pairs of ids, the older one first
  subscriptions,  \* push_subscriptions: a function from the ids of its rows
  gone,           \* endpoints the push service answers 404 or 410 for
  w,              \* what each worker holds in memory and in its transaction
  crashes

vars == <<notifications, created, subscriptions, gone, w, crashes>>

--------------------------------------------------------------------------------
(* Rows, locks and the memory of a worker *)

Notification == [user : Users, status : {"pending", "sent", "failed"}]
PushSubscription == [user : Users, endpoint : Endpoints]

PCs == {"idle", "list", "send", "delete", "prune"}

Tx == [pc : PCs,
       claimed : SUBSET Notifs,     \* FOR UPDATE: locked until the commit
       row : Notifs \cup {Nil},     \* the one of them being sent
       subs : SUBSET [id : SubIds, endpoint : Endpoints],
                                    \* its subscriptions still to be sent to
       sub : SubIds \cup {Nil},     \* the one that has just answered dead
       liveFailures : BOOLEAN,      \* some send of this row has failed
       deleted : SUBSET SubIds,     \* deleted rows, locked until the commit
       sent : SUBSET Notifs, failed : SUBSET Notifs]

NoTx(pc, rows) == [pc |-> pc, claimed |-> rows, row |-> Nil, subs |-> {}, sub |-> Nil,
                   liveFailures |-> FALSE, deleted |-> {}, sent |-> {}, failed |-> {}]

Pending == {n \in DOMAIN notifications : notifications[n].status = "pending"}
Locked(k) == \E v \in Workers : k \in w[v].deleted
SubsOf(u) == {k \in DOMAIN subscriptions : subscriptions[k].user = u}
EndpointsOf(u) == {subscriptions[k].endpoint : k \in SubsOf(u)}

\* gen_random_uuid(): an id no row and no worker mentions.
FreshSubs == {k \in SubIds \ DOMAIN subscriptions :
                \A v \in Workers : k # w[v].sub /\ \A s \in w[v].subs : s.id # k}

--------------------------------------------------------------------------------
(* What the API does: post notifications, save and delete subscriptions *)

\* The row commits with the domain change (OutboxEnqueuer.Enqueue).
InsertNotification(n, u) ==
  /\ n \notin DOMAIN notifications
  /\ notifications' = [m \in DOMAIN notifications \cup {n} |->
                         IF m = n THEN [user |-> u, status |-> "pending"]
                                  ELSE notifications[m]]
  /\ created' = created \cup ((DOMAIN notifications) \X {n})
  /\ UNCHANGED <<subscriptions, gone, w, crashes>>

\* Fault: ON CONFLICT (user_id, endpoint).
UpsertPerUser(u, e) ==
  /\ \/ \E k \in DOMAIN subscriptions : subscriptions[k] = [user |-> u, endpoint |-> e]
        /\ UNCHANGED subscriptions
     \/ /\ e \notin EndpointsOf(u)
        /\ \E k \in FreshSubs :
             subscriptions' = [j \in DOMAIN subscriptions \cup {k} |->
               IF j = k THEN [user |-> u, endpoint |-> e] ELSE subscriptions[j]]
  /\ UNCHANGED <<notifications, created, gone, w, crashes>>

\* A browser registers: ON CONFLICT (endpoint) DO UPDATE SET user_id, the id
\* stays.  A row that a worker is deleting is waited for.
UpsertPushSubscription(u, e) ==
  LET rows == {k \in DOMAIN subscriptions : subscriptions[k].endpoint = e} IN
  /\ \A k \in rows : ~Locked(k)
  /\ \/ /\ rows # {}
        /\ subscriptions' = [k \in DOMAIN subscriptions |->
             IF k \in rows THEN [subscriptions[k] EXCEPT !.user = u] ELSE subscriptions[k]]
     \/ /\ rows = {}
        /\ \E k \in FreshSubs :
             subscriptions' = [j \in DOMAIN subscriptions \cup {k} |->
               IF j = k THEN [user |-> u, endpoint |-> e] ELSE subscriptions[j]]
  /\ UNCHANGED <<notifications, created, gone, w, crashes>>

\* A browser unsubscribes: DELETE ... WHERE user_id AND endpoint.
DeletePushSubscription(u, e) ==
  LET rows == {k \in SubsOf(u) : subscriptions[k].endpoint = e} IN
  /\ \A k \in rows : ~Locked(k)
  /\ rows # {}
  /\ subscriptions' = Restrict(subscriptions, DOMAIN subscriptions \ rows)
  /\ UNCHANGED <<notifications, created, gone, w, crashes>>

\* The push service discards a subscription for good.
Expire(e) ==
  /\ gone' = gone \cup {e}
  /\ UNCHANGED <<notifications, created, subscriptions, w, crashes>>

--------------------------------------------------------------------------------
(* sendPending *)

Older(m, n) == <<m, n>> \in created

\* The rows that ORDER BY created_at LIMIT Batch can yield from S.
Oldest(S) ==
  {C \in SUBSET S : /\ Cardinality(C) = Min({Batch, Cardinality(S)})
                    /\ \A n \in C, m \in S \ C : Older(n, m)}
Newest(S) ==
  {C \in SUBSET S : /\ Cardinality(C) = Min({Batch, Cardinality(S)})
                    /\ \A n \in C, m \in S \ C : Older(m, n)}

Unlocked(S) == {n \in S : \A v \in Workers : n \notin w[v].claimed}

\* An empty batch is committed and the tick goes on.
Claim(v, batches) ==
  /\ w[v].pc = "idle"
  /\ \E rows \in batches : w' = [w EXCEPT ![v] = NoTx("list", rows)]
  /\ UNCHANGED <<notifications, created, subscriptions, gone, crashes>>

\* Fault: the rows are read without FOR UPDATE.
ClaimUnlocked(v) == Claim(v, Oldest(Pending))

\* Fault: ORDER BY created_at DESC.
ClaimNewest(v) == Claim(v, Newest(Unlocked(Pending)))

\* FOR UPDATE SKIP LOCKED: what other workers have claimed is passed over.
ClaimPendingNotifications(v) == Claim(v, Oldest(Unlocked(Pending)))

Remaining(v) == w[v].claimed \ (w[v].sent \cup w[v].failed)

\* The next row, and the committed subscriptions of its recipient without those
\* this batch has deleted.
ListPushSubscriptionsForUser(v) ==
  /\ w[v].pc = "list"
  /\ \E n \in Remaining(v) :
       /\ \A m \in Remaining(v) : ~Older(m, n)
       /\ w' = [w EXCEPT ![v].pc = "send", ![v].row = n, ![v].liveFailures = FALSE,
                         ![v].subs = {[id |-> k, endpoint |-> subscriptions[k].endpoint] :
                                       k \in SubsOf(notifications[n].user) \ w[v].deleted}]
  /\ UNCHANGED <<notifications, created, subscriptions, gone, crashes>>

Answer(v, s, tx) ==
  /\ w[v].pc = "send" /\ s \in w[v].subs
  /\ w' = [w EXCEPT ![v] = [tx EXCEPT !.subs = @ \ {s}]]
  /\ UNCHANGED <<notifications, created, subscriptions, gone, crashes>>

\* Fault: the outcome of the last send is kept instead of the failures.
AcceptedForgets(v, s) ==
  s.endpoint \notin gone /\ Answer(v, s, [w[v] EXCEPT !.liveFailures = FALSE])

Accepted(v, s) == s.endpoint \notin gone /\ Answer(v, s, w[v])

\* 404 or 410.
Dead(v, s) ==
  s.endpoint \in gone /\ Answer(v, s, [w[v] EXCEPT !.pc = "delete", !.sub = s.id])

\* Any other status, an error or the timeout, after which the push service may
\* have taken the message all the same.
Failed(v, s) == Answer(v, s, [w[v] EXCEPT !.liveFailures = TRUE])

Send(v) == \E s \in w[v].subs : Accepted(v, s) \/ Dead(v, s) \/ Failed(v, s)

\* Fault: DELETE ... WHERE user_id, as DeletePushSubscription without endpoint.
DeleteAllOfUser(v) ==
  /\ w[v].pc = "delete"
  /\ w' = [w EXCEPT ![v].pc = "send", ![v].sub = Nil,
                    ![v].deleted = @ \cup SubsOf(notifications[w[v].row].user)]
  /\ UNCHANGED <<notifications, created, subscriptions, gone, crashes>>

\* DELETE ... WHERE id waits for a worker that is deleting the same row.  The
\* row may be gone since it was listed.
DeletePushSubscriptionByID(v) ==
  /\ w[v].pc = "delete"
  /\ \A x \in Workers \ {v} : w[v].sub \notin w[x].deleted
  /\ w' = [w EXCEPT ![v].pc = "send", ![v].sub = Nil,
                    ![v].deleted = @ \cup ({w[v].sub} \cap DOMAIN subscriptions)]
  /\ UNCHANGED <<notifications, created, subscriptions, gone, crashes>>

\* MarkNotificationSent, or MarkNotificationFailed, which is final.
MarkNotification(v) ==
  LET n == {w[v].row} IN
  /\ w[v].pc = "send" /\ w[v].subs = {}
  /\ w' = [w EXCEPT ![v].pc = "list", ![v].row = Nil,
                    ![v].sent = IF w[v].liveFailures THEN @ ELSE @ \cup n,
                    ![v].failed = IF w[v].liveFailures THEN @ \cup n ELSE @]
  /\ UNCHANGED <<notifications, created, subscriptions, gone, crashes>>

\* Fault: a status the CHECK of the column does not know.
CommitRetry(v) ==
  /\ w[v].pc = "list" /\ Remaining(v) = {}
  /\ notifications' = [n \in DOMAIN notifications |->
       IF n \in w[v].sent THEN [notifications[n] EXCEPT !.status = "sent"]
       ELSE IF n \in w[v].failed THEN [notifications[n] EXCEPT !.status = "retry"]
       ELSE notifications[n]]
  /\ subscriptions' = Restrict(subscriptions, DOMAIN subscriptions \ w[v].deleted)
  /\ w' = [w EXCEPT ![v] = NoTx("prune", {})]
  /\ UNCHANGED <<created, gone, crashes>>

\* Statuses and deletions of the whole batch become visible together.
Commit(v) ==
  /\ w[v].pc = "list" /\ Remaining(v) = {}
  /\ notifications' = [n \in DOMAIN notifications |->
       IF n \in w[v].sent THEN [notifications[n] EXCEPT !.status = "sent"]
       ELSE IF n \in w[v].failed THEN [notifications[n] EXCEPT !.status = "failed"]
       ELSE notifications[n]]
  /\ subscriptions' = Restrict(subscriptions, DOMAIN subscriptions \ w[v].deleted)
  /\ w' = [w EXCEPT ![v] = NoTx("prune", {})]
  /\ UNCHANGED <<created, gone, crashes>>

\* The rows that may be newer than 30 days: with a row, all that came after it.
Newer == {S \in SUBSET DOMAIN notifications :
            \A m \in S, n \in DOMAIN notifications : Older(m, n) => n \in S}

Keep(rows) ==
  /\ notifications' = Restrict(notifications, rows)
  /\ created' = created \cap (rows \X rows)

\* Fault: pending rows are pruned too.
PruneAll(v) ==
  /\ w[v].pc = "prune"
  /\ \E newer \in Newer : Keep(newer)
  /\ w' = [w EXCEPT ![v] = NoTx("idle", {})]
  /\ UNCHANGED <<subscriptions, gone, crashes>>

\* The settled ones of the rows older than 30 days, however many that are.
PruneOldNotifications(v) ==
  /\ w[v].pc = "prune"
  /\ \E newer \in Newer : Keep(newer \cup Pending)
  /\ w' = [w EXCEPT ![v] = NoTx("idle", {})]
  /\ UNCHANGED <<subscriptions, gone, crashes>>

\* The transaction is rolled back.  What was sent stays sent, but nobody knows.
Rollback(v) ==
  /\ w' = [w EXCEPT ![v] = NoTx("idle", {})]
  /\ UNCHANGED <<notifications, created, subscriptions, gone>>

\* The replica is killed, its connection breaks or a statement fails.
Crash(v) ==
  /\ w[v].pc # "idle"
  /\ crashes < MaxCrashes
  /\ crashes' = crashes + 1
  /\ Rollback(v)

WaitsFor(v, x) == w[v].pc = "delete" /\ x # v /\ w[v].sub \in w[x].deleted

\* Workers that delete each other's subscriptions in opposite orders: PostgreSQL
\* detects the cycle and fails one of the statements.
DeadlockAbort(v) ==
  /\ \E S \in SUBSET Workers :
       v \in S /\ \A x \in S : \E y \in S : WaitsFor(x, y)
  /\ Rollback(v)
  /\ UNCHANGED crashes

--------------------------------------------------------------------------------
Step(v) ==
  \/ ClaimPendingNotifications(v) \/ ListPushSubscriptionsForUser(v) \/ Send(v)
  \/ DeletePushSubscriptionByID(v) \/ MarkNotification(v) \/ Commit(v)
  \/ PruneOldNotifications(v) \/ DeadlockAbort(v)

Init ==
  /\ notifications = [n \in {} |-> Nil]
  /\ created = {}
  /\ subscriptions = [k \in {} |-> Nil]
  /\ gone = {}
  /\ w = [v \in Workers |-> NoTx("idle", {})]
  /\ crashes = 0

Next ==
  \/ \E v \in Workers : Step(v) \/ Crash(v)
  \/ \E n \in Notifs, u \in Users : InsertNotification(n, u)
  \/ \E u \in Users, e \in Endpoints :
       UpsertPushSubscription(u, e) \/ DeletePushSubscription(u, e)
  \/ \E e \in Endpoints : Expire(e)

Spec == Init /\ [][Next]_vars

\* The ticker of every replica keeps firing, and a send is given up after 10 s.
\* A DELETE that waits for a lock is granted it when the holder's transaction
\* ends, before the holder can ask again.  A browser does not go on for ever
\* registering subscriptions that its push service has discarded.
FairSpec ==
  /\ Spec
  /\ \A v \in Workers : WF_vars(Step(v))
  /\ \A v \in Workers, k \in SubIds :
       SF_vars(w[v].sub = k /\ DeletePushSubscriptionByID(v))
  /\ <>[][\A u \in Users, e \in gone : ~UpsertPushSubscription(u, e)]_vars

--------------------------------------------------------------------------------
(* Properties *)

\* The rows have an order, whichever of them were pruned in between.
Ordered ==
  /\ created \subseteq (DOMAIN notifications) \X (DOMAIN notifications)
  /\ \A m, n \in DOMAIN notifications : m # n <=> Older(m, n) \/ Older(n, m)
  /\ \A m, n \in DOMAIN notifications : ~(Older(m, n) /\ Older(n, m))
  /\ \A l, m, n \in DOMAIN notifications : Older(l, m) /\ Older(m, n) => Older(l, n)

TypeOK ==
  /\ DOMAIN notifications \subseteq Notifs
  /\ notifications \in [DOMAIN notifications -> Notification]
  /\ Ordered
  /\ DOMAIN subscriptions \subseteq SubIds
  /\ subscriptions \in [DOMAIN subscriptions -> PushSubscription]
  /\ gone \subseteq Endpoints
  /\ w \in [Workers -> Tx]
  /\ crashes \in 0..MaxCrashes

\* A browser is subscribed for one user at most, whoever used it before and
\* whichever worker is deleting its row: nobody reads another user's messages.
OneUserPerBrowser ==
  \A j, k \in DOMAIN subscriptions :
    subscriptions[j].endpoint = subscriptions[k].endpoint => j = k

\* A worker takes down a subscription only when the push service has discarded
\* it: a failing or slow device, or another device of the user, keeps its own.
OnlyDeadDeleted == [][
  \A k \in DOMAIN subscriptions \ DOMAIN subscriptions' :
    subscriptions[k].endpoint \in gone \/ UNCHANGED w ]_vars

\* No notification starves behind newer ones, behind a worker that waits for
\* another or in a batch that is always lost.
EveryNotificationSettled ==
  \A n \in Notifs : n \in Pending ~> n \notin Pending

--------------------------------------------------------------------------------
(* The inductive invariant *)

RowsTyped ==
  /\ DOMAIN notifications \subseteq Notifs
  /\ notifications \in [DOMAIN notifications -> Notification]
  /\ DOMAIN subscriptions \subseteq SubIds
  /\ subscriptions \in [DOMAIN subscriptions -> PushSubscription]
  /\ w \in [Workers -> Tx]

\* What a worker relies on although it read it, or wrote it, statements ago.
Held(tx) ==
  /\ tx.claimed \subseteq Pending
  /\ tx.sent \cup tx.failed \subseteq tx.claimed
  /\ IF tx.pc \in {"send", "delete"}
     THEN tx.row \in tx.claimed \ (tx.sent \cup tx.failed)
     ELSE tx.row = Nil /\ tx.subs = {}
  /\ tx.pc \in {"idle", "prune"} => tx.claimed = {} /\ tx.deleted = {}
  /\ \A s, t \in tx.subs : s.endpoint = t.endpoint => s = t
  /\ \A s \in tx.subs :
       s.id \in DOMAIN subscriptions => subscriptions[s.id].endpoint = s.endpoint
  /\ \A k \in tx.deleted :
       k \in DOMAIN subscriptions /\ subscriptions[k].endpoint \in gone
  /\ tx.pc = "delete" /\ tx.sub \in DOMAIN subscriptions =>
       subscriptions[tx.sub].endpoint \in gone

\* Row locks: no two transactions have claimed or deleted the same row.
Apart(tx, other) ==
  tx.claimed \cap other.claimed = {} /\ tx.deleted \cap other.deleted = {}

WInv ==
  /\ RowsTyped
  /\ OneUserPerBrowser
  /\ \A v \in Workers : Held(w[v])
  /\ \A v, x \in Workers : v # x => Apart(w[v], w[x])

================================================================================
