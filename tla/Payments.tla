------------------------------- MODULE Payments -------------------------------
(***************************************************************************)
(* Payment tracking of a concert: backend/internal/service/payments.go,    *)
(* the handlers that call it and the SQL statements it runs.               *)
(*                                                                         *)
(* Two API replicas serve requests concurrently.  Every service method is  *)
(* a chain of SQL statements, each of them atomic and each seeing what is  *)
(* committed when it runs (READ COMMITTED): what a method read may be      *)
(* stale when it writes.  A request in flight is a record req[p] that      *)
(* holds what the method has read so far; one action is one statement with *)
(* the checks that follow it.  A transaction whose first statement takes   *)
(* the lock that decides the race (Confirm, AddItem) is one action, at its *)
(* commit; Activate, which reads between its INSERT and its COMMIT, is two.*)
(***************************************************************************)
EXTENDS Integers, FiniteSets, Functions

CONSTANTS
  Users,
  Concerts,
  Members,       \* [Concerts -> SUBSET Users], the group of each concert
  Procs,         \* goroutines that serve requests, over all the replicas
  CollIds,       \* uuids of payment_collections rows
  ItemIds,       \* uuids of payment_items rows
  AmountInputs,  \* amounts that requests carry, negative ones included
  Links,         \* payment links
  Ops,           \* the operations that clients request
  Nil

ItemOps == {"SetAmount", "RemoveItem", "Report", "UnReport", "Confirm", "UnConfirm"}
AllOps == ItemOps \cup
          {"Activate", "Get", "AddItem", "Deactivate", "SetPaymentLink"}

\* The item operations that go through loadItemAsResponsible.
ResponsibleOps == {"SetAmount", "RemoveItem", "Confirm", "UnConfirm"}

ASSUME MembersAssumption == Members \in [Concerts -> SUBSET Users]
ASSUME AmountAssumption == AmountInputs \subseteq Int
ASSUME OpsAssumption == Ops \subseteq AllOps
ASSUME NilAssumption ==
  Nil \notin Users \cup Concerts \cup CollIds \cup ItemIds \cup Links \cup Int

VARIABLES
  rsvpYes,      \* users whose committed answer to a concert is yes
  collections,  \* payment_collections: a function from the ids of its rows
  items,        \* payment_items: a function from the ids of its rows
  req,          \* what each goroutine's request has read, and its answer
  enqueued      \* <<user, kind>> outbox rows the latest transaction inserted

vars == <<rsvpYes, collections, items, req, enqueued>>

--------------------------------------------------------------------------------
(* Rows and requests *)

Statuses == {"open", "reported", "confirmed"}

Collection == [concert : Concerts, responsible : Users, default : Int,
               link : Links \cup {Nil}]

\* A nullable timestamp is TRUE when it is set.
Item == [coll : CollIds, user : Users, amount : Int, status : Statuses,
         reportedAt : BOOLEAN, confirmedAt : BOOLEAN]

PCs == {"idle", "insert", "commit", "check", "reread", "item", "view", "write"}
Answers == {"none", "ok", "bad_request", "forbidden", "not_found", "conflict",
            "internal", "gone"}

Request == [pc : PCs, op : AllOps \cup {"none"}, answer : Answers,
            user : Users \cup {Nil}, concert : Concerts \cup {Nil},
            coll : CollIds \cup {Nil}, isResponsible : BOOLEAN,
            item : ItemIds \cup {Nil}, debtor : Users \cup {Nil},
            reportedAt : BOOLEAN, amount : Int, link : Links \cup {Nil},
            seed : SUBSET Users, seen : SUBSET ItemIds]

Blank == [pc |-> "idle", op |-> "none", answer |-> "none", user |-> Nil,
          concert |-> Nil, coll |-> Nil, isResponsible |-> FALSE, item |-> Nil,
          debtor |-> Nil, reportedAt |-> FALSE, amount |-> 0, link |-> Nil,
          seed |-> {}, seen |-> {}]

\* All that is left of a request once it has been answered.
Answered(code) == [Blank EXCEPT !.answer = code]

\* What a handler passes to the service once it has parsed the request.
Received(op, u, c) == [Blank EXCEPT !.op = op, !.user = u, !.concert = c]

CanReceive(p, op) == req[p].pc = "idle" /\ op \in Ops

Respond(p, code) == req' = [req EXCEPT ![p] = Answered(code)]

\* Request r of p goes on at pc next, or is answered with what a check found.
Proceed(p, r, code, next) ==
  req' = [req EXCEPT ![p] = IF code = "ok" THEN [r EXCEPT !.pc = next]
                                           ELSE Answered(code)]

\* gen_random_uuid(): an id no row and no request in flight mentions.
FreshColls == {k \in CollIds \ DOMAIN collections : \A p \in Procs : req[p].coll # k}
FreshItems == {i \in ItemIds \ DOMAIN items : \A p \in Procs : req[p].item # i}

--------------------------------------------------------------------------------
(* The SQL statements *)

GetPaymentCollectionByConcert(c) ==
  {k \in DOMAIN collections : collections[k].concert = c}

GetPaymentItemForUser(k, u) ==
  {i \in DOMAIN items : items[i].coll = k /\ items[i].user = u}

ListPaymentItems(k) == {i \in DOMAIN items : items[i].coll = k}

ListYesRsvpUserIDs(c) == rsvpYes[c]

\* Fault: the column has no DEFAULT.
NoDefaultStatus(k, u, amount) ==
  [coll |-> k, user |-> u, amount |-> amount, status |-> Nil,
   reportedAt |-> FALSE, confirmedAt |-> FALSE]

\* DEFAULT 'open', both timestamps NULL.
CreatePaymentItem(k, u, amount) ==
  [coll |-> k, user |-> u, amount |-> amount, status |-> "open",
   reportedAt |-> FALSE, confirmedAt |-> FALSE]

CreatePaymentCollection(k, r) ==
  collections' = [j \in DOMAIN collections \cup {k} |->
                    IF j = k THEN [concert |-> r.concert, responsible |-> r.user,
                                   default |-> r.amount, link |-> r.link]
                             ELSE collections[j]]

\* payment_items rows reference their collection ON DELETE CASCADE.
DeletePaymentCollection(k) ==
  /\ collections' = Restrict(collections, DOMAIN collections \ {k})
  /\ items' = Restrict(items, DOMAIN items \ ListPaymentItems(k))

DeletePaymentItem(i) == items' = Restrict(items, DOMAIN items \ {i})

UpdatePaymentCollectionLink(k, link) ==
  collections' = [collections EXCEPT ![k].link = link]

UpdatePaymentItemAmount(i, amount) == items' = [items EXCEPT ![i].amount = amount]

\* Fault: the UPDATE is keyed by the collection.
UpdateWholeCollection(i, status, reportedAt, confirmedAt) ==
  items' = [j \in DOMAIN items |->
              IF items[j].coll # items[i].coll THEN items[j]
              ELSE [items[j] EXCEPT !.status = status, !.reportedAt = reportedAt,
                                    !.confirmedAt = confirmedAt]]

UpdatePaymentItemStatus(i, status, reportedAt, confirmedAt) ==
  items' = [items EXCEPT ![i].status = status, ![i].reportedAt = reportedAt,
                         ![i].confirmedAt = confirmedAt]

\* UpsertRSVP commits a user's answer to a concert.
UpsertRSVP(c, u) ==
  /\ u \in Members[c]
  /\ \E yes \in {rsvpYes[c] \cup {u}, rsvpYes[c] \ {u}} :
       rsvpYes' = [rsvpYes EXCEPT ![c] = yes]
  /\ enqueued' = {}
  /\ UNCHANGED <<collections, items, req>>

--------------------------------------------------------------------------------
(* Checks *)

Active(c) == GetPaymentCollectionByConcert(c) # {}
CollOf(c) == CHOOSE k \in GetPaymentCollectionByConcert(c) : TRUE

\* loadItem up to the item: membership (ConcertService.Get), active collection.
loadCollection(u, c) ==
  IF u \notin Members[c] THEN "forbidden"
  ELSE IF ~Active(c) THEN "not_found" ELSE "ok"

requireResponsible(u, c) ==
  IF loadCollection(u, c) # "ok" THEN loadCollection(u, c)
  ELSE IF collections[CollOf(c)].responsible # u THEN "forbidden" ELSE "ok"

\* The item exists and belongs to the collection the request has loaded.
loadItem(r) ==
  IF r.item \in DOMAIN items /\ items[r.item].coll = r.coll THEN "ok" ELSE "not_found"

\* Fault: col.ResponsibleUserID is not compared.
LoadItemAsMember(r) == loadItem(r)

loadItemAsResponsible(r) ==
  IF loadItem(r) # "ok" THEN loadItem(r)
  ELSE IF r.isResponsible THEN "ok" ELSE "forbidden"

loadOwnItem(r) ==
  IF loadItem(r) # "ok" THEN loadItem(r)
  ELSE IF items[r.item].user = r.user THEN "ok" ELSE "forbidden"

\* The state machine: what Report, UnReport, Confirm and UnConfirm require.
StatusPermits(op, status) ==
  CASE op = "Report" -> status = "open"
    [] op = "UnReport" -> status = "reported"
    [] op = "Confirm" -> status # "confirmed"
    [] op = "UnConfirm" -> status = "confirmed"
    [] OTHER -> TRUE

itemCheck(r) ==
  LET access == IF r.op \in ResponsibleOps THEN loadItemAsResponsible(r)
                                           ELSE loadOwnItem(r)
  IN  IF access # "ok" THEN access
      ELSE IF ~StatusPermits(r.op, items[r.item].status) \/ r.amount < 0
           THEN "bad_request" ELSE "ok"

--------------------------------------------------------------------------------
(* Activate *)

\* The early checks; a collection that is already there is answered 409.
Activate(p) ==
  /\ CanReceive(p, "Activate")
  /\ \E u \in Users, c \in Concerts, a \in AmountInputs, l \in Links \cup {Nil} :
       Proceed(p, [Received("Activate", u, c) EXCEPT !.amount = a, !.link = l],
               IF a < 0 THEN "bad_request"
               ELSE IF u \notin Members[c] THEN "forbidden"
               ELSE IF Active(c) THEN "conflict" ELSE "ok",
               "insert")
  /\ enqueued' = {}
  /\ UNCHANGED <<rsvpYes, collections, items>>

\* Fault: the slot is claimed before it is waited for.
ClaimsUniqueSlot(p, c) == req[p].pc \in {"insert", "commit"} /\ req[p].concert = c

\* A transaction that has inserted a row for concert c and not yet committed.
HoldsUniqueSlot(p, c) == req[p].pc = "commit" /\ req[p].concert = c

\* Fault: the early check alone guards the insert.
InsertUnguarded(p) ==
  LET r == req[p] IN
  /\ r.pc = "insert"
  /\ \E k \in FreshColls :
       req' = [req EXCEPT ![p] = [r EXCEPT !.pc = "commit", !.coll = k,
                                    !.seed = ListYesRsvpUserIDs(r.concert)]]
  /\ enqueued' = {}
  /\ UNCHANGED <<rsvpYes, collections, items>>

\* The INSERT waits for a concurrent one of the same concert to end; on a row
\* that is there it fails on UNIQUE(concert_id).  Then the yes answers are read.
ActivateInsert(p) ==
  LET r == req[p] IN
  /\ r.pc = "insert"
  /\ \A q \in Procs : ~HoldsUniqueSlot(q, r.concert)
  /\ \/ Active(r.concert) /\ Respond(p, "internal")
     \/ /\ ~Active(r.concert)
        /\ \E k \in FreshColls :
             req' = [req EXCEPT ![p] = [r EXCEPT !.pc = "commit", !.coll = k,
                                          !.seed = ListYesRsvpUserIDs(r.concert)]]
  /\ enqueued' = {}
  /\ UNCHANGED <<rsvpYes, collections, items>>

\* One item and one notification for everyone in the seed, all or nothing.
ActivateCommit(p) ==
  LET r == req[p] IN
  /\ r.pc = "commit"
  /\ CreatePaymentCollection(r.coll, r)
  /\ \E I \in SUBSET FreshItems : \E debtor \in Bijection(I, r.seed) :
       items' = [i \in DOMAIN items \cup I |->
                   IF i \in I THEN CreatePaymentItem(r.coll, debtor[i], r.amount)
                              ELSE items[i]]
  /\ enqueued' = r.seed \X {"please_pay"}
  /\ Respond(p, "ok")
  /\ UNCHANGED rsvpYes

--------------------------------------------------------------------------------
(* Get *)

Get(p) ==
  /\ CanReceive(p, "Get")
  /\ \E u \in Users, c \in Concerts :
       LET code == loadCollection(u, c) IN
       Proceed(p, IF code # "ok" THEN Received("Get", u, c)
                  ELSE [Received("Get", u, c) EXCEPT !.coll = CollOf(c),
                          !.isResponsible = (collections[CollOf(c)].responsible = u)],
               code, "view")
  /\ enqueued' = {}
  /\ UNCHANGED <<rsvpYes, collections, items>>

\* Fault: items are listed by concert.
GetItemsOfConcert(p) ==
  LET r == req[p]
      seen == {i \in DOMAIN items : /\ collections[items[i].coll].concert = r.concert
                                    /\ r.isResponsible \/ items[i].user = r.user}
  IN
  /\ r.pc = "view"
  /\ req' = [req EXCEPT ![p] = [Answered("ok") EXCEPT !.seen = seen]]
  /\ enqueued' = {}
  /\ UNCHANGED <<rsvpYes, collections, items>>

\* The responsible sees every item, a member at most the member's own.
GetItems(p) ==
  LET r == req[p]
      seen == IF r.isResponsible THEN ListPaymentItems(r.coll)
                                 ELSE GetPaymentItemForUser(r.coll, r.user)
  IN
  /\ r.pc = "view"
  /\ req' = [req EXCEPT ![p] = [Answered("ok") EXCEPT !.seen = seen]]
  /\ enqueued' = {}
  /\ UNCHANGED <<rsvpYes, collections, items>>

--------------------------------------------------------------------------------
(* AddItem *)

\* requireResponsible, the amount (Nil: the default) and the target's membership.
AddItem(p) ==
  /\ CanReceive(p, "AddItem")
  /\ \E u, v \in Users, c \in Concerts, a \in AmountInputs \cup {Nil} :
       LET gate == requireResponsible(u, c)
           amount == IF a = Nil THEN collections[CollOf(c)].default ELSE a
       IN  IF gate # "ok" THEN Proceed(p, Received("AddItem", u, c), gate, "check")
           ELSE Proceed(p, [Received("AddItem", u, c) EXCEPT !.coll = CollOf(c),
                              !.debtor = v, !.amount = amount],
                        IF amount < 0 \/ v \notin Members[c] THEN "bad_request"
                        ELSE "ok",
                        "check")
  /\ enqueued' = {}
  /\ UNCHANGED <<rsvpYes, collections, items>>

AddItemCheck(p) ==
  LET r == req[p] IN
  /\ r.pc = "check"
  /\ Proceed(p, r, IF GetPaymentItemForUser(r.coll, r.debtor) # {} THEN "conflict"
                   ELSE "ok", "write")
  /\ enqueued' = {}
  /\ UNCHANGED <<rsvpYes, collections, items>>

\* Fault: no UNIQUE(collection_id, user_id), only the early check.
AddItemUnguarded(p) ==
  LET r == req[p] IN
  /\ r.pc = "write" /\ r.op = "AddItem"
  /\ \E i \in FreshItems :
       items' = [j \in DOMAIN items \cup {i} |->
                   IF j = i THEN CreatePaymentItem(r.coll, r.debtor, r.amount)
                            ELSE items[j]]
  /\ enqueued' = {<<r.debtor, "please_pay">>}
  /\ req' = [req EXCEPT ![p].pc = "reread"]
  /\ UNCHANGED <<rsvpYes, collections>>

\* The insert fails on the foreign key when the collection is gone, and on
\* UNIQUE(collection_id, user_id) when someone else has added the item.
AddItemWrite(p) ==
  LET r == req[p]
      refused == \/ r.coll \notin DOMAIN collections
                 \/ GetPaymentItemForUser(r.coll, r.debtor) # {}
  IN
  /\ r.pc = "write" /\ r.op = "AddItem"
  /\ \/ /\ refused
        /\ Respond(p, "internal")
        /\ enqueued' = {}
        /\ UNCHANGED items
     \/ /\ ~refused
        /\ \E i \in FreshItems :
             items' = [j \in DOMAIN items \cup {i} |->
                         IF j = i THEN CreatePaymentItem(r.coll, r.debtor, r.amount)
                                  ELSE items[j]]
        /\ enqueued' = {<<r.debtor, "please_pay">>}
        /\ req' = [req EXCEPT ![p].pc = "reread"]
  /\ UNCHANGED <<rsvpYes, collections>>

\* The row is read back for the answer; it may be gone by now.
AddItemReread(p) ==
  LET r == req[p] IN
  /\ r.pc = "reread"
  /\ Respond(p, IF GetPaymentItemForUser(r.coll, r.debtor) # {} THEN "ok"
                ELSE "internal")
  /\ enqueued' = {}
  /\ UNCHANGED <<rsvpYes, collections, items>>

--------------------------------------------------------------------------------
(* Deactivate, SetPaymentLink *)

CollectionOp(p, op, u, c, l) ==
  LET gate == requireResponsible(u, c) IN
  /\ CanReceive(p, op)
  /\ Proceed(p, IF gate # "ok" THEN Received(op, u, c)
                ELSE [Received(op, u, c) EXCEPT !.coll = CollOf(c), !.link = l],
             gate, "write")
  /\ enqueued' = {}
  /\ UNCHANGED <<rsvpYes, collections, items>>

Deactivate(p) ==
  \E u \in Users, c \in Concerts : CollectionOp(p, "Deactivate", u, c, Nil)

\* Fault: DELETE ... WHERE concert_id.
DeactivateConcert(p) ==
  /\ req[p].pc = "write" /\ req[p].op = "Deactivate"
  /\ LET ks == GetPaymentCollectionByConcert(req[p].concert) IN
       /\ collections' = Restrict(collections, DOMAIN collections \ ks)
       /\ items' = Restrict(items, {i \in DOMAIN items : items[i].coll \notin ks})
  /\ Respond(p, "ok")
  /\ enqueued' = {}
  /\ UNCHANGED rsvpYes

\* DELETE of the collection that was loaded, which may be gone: still 204.
DeactivateWrite(p) ==
  /\ req[p].pc = "write" /\ req[p].op = "Deactivate"
  /\ DeletePaymentCollection(req[p].coll)
  /\ Respond(p, "ok")
  /\ enqueued' = {}
  /\ UNCHANGED rsvpYes

SetPaymentLink(p) ==
  \E u \in Users, c \in Concerts, l \in Links \cup {Nil} :
    CollectionOp(p, "SetPaymentLink", u, c, l)

SetPaymentLinkWrite(p) ==
  LET r == req[p] IN
  /\ r.pc = "write" /\ r.op = "SetPaymentLink"
  /\ \/ /\ r.coll \in DOMAIN collections
        /\ UpdatePaymentCollectionLink(r.coll, r.link)
        /\ Respond(p, "ok")
     \/ /\ r.coll \notin DOMAIN collections
        /\ Respond(p, "internal")
        /\ UNCHANGED collections
  /\ enqueued' = {}
  /\ UNCHANGED <<rsvpYes, items>>

--------------------------------------------------------------------------------
(* Operations on an item *)

\* The first statements of loadItem; col.ResponsibleUserID stays as read here.
ItemOp(p, op, u, c, i, a) ==
  LET code == loadCollection(u, c)
      r == [Received(op, u, c) EXCEPT !.item = i, !.amount = a]
  IN
  /\ CanReceive(p, op)
  /\ Proceed(p, IF code # "ok" THEN r
                ELSE [r EXCEPT !.coll = CollOf(c),
                        !.isResponsible = (collections[CollOf(c)].responsible = u)],
             code, "item")
  /\ enqueued' = {}
  /\ UNCHANGED <<rsvpYes, collections, items>>

SetAmount(p) ==
  \E u \in Users, c \in Concerts, i \in ItemIds, a \in AmountInputs :
    ItemOp(p, "SetAmount", u, c, i, a)

RemoveItem(p) ==
  \E u \in Users, c \in Concerts, i \in ItemIds : ItemOp(p, "RemoveItem", u, c, i, 0)

\* The handler the four transitions of an item's status share.
transition(p) ==
  \E op \in {"Report", "UnReport", "Confirm", "UnConfirm"},
     u \in Users, c \in Concerts, i \in ItemIds : ItemOp(p, op, u, c, i, 0)

\* GetPaymentItem and the checks the operation makes on what it read.
LoadItem(p) ==
  LET r == req[p]
      code == itemCheck(r)
  IN
  /\ r.pc = "item"
  /\ Proceed(p, IF code # "ok" THEN r
                ELSE [r EXCEPT !.debtor = items[r.item].user,
                               !.reportedAt = items[r.item].reportedAt],
             code, "write")
  /\ enqueued' = {}
  /\ UNCHANGED <<rsvpYes, collections, items>>

Writing(p, op) == req[p].pc = "write" /\ req[p].op = op
\* UPDATE ... WHERE id = $1 RETURNING finds the row, or answers pgx.ErrNoRows.
Updated(p) == req[p].item \in DOMAIN items /\ Respond(p, "ok")
Vanished(p) == req[p].item \notin DOMAIN items /\ Respond(p, "internal") /\ UNCHANGED items

SetAmountWrite(p) ==
  /\ Writing(p, "SetAmount")
  /\ \/ Updated(p) /\ UpdatePaymentItemAmount(req[p].item, req[p].amount)
     \/ Vanished(p)
  /\ enqueued' = {}
  /\ UNCHANGED <<rsvpYes, collections>>

RemoveItemWrite(p) ==
  /\ Writing(p, "RemoveItem")
  /\ DeletePaymentItem(req[p].item)
  /\ Respond(p, "ok")
  /\ enqueued' = {}
  /\ UNCHANGED <<rsvpYes, collections>>

\* None of the four updates looks at the status the row has by now.
ReportWrite(p) ==
  /\ Writing(p, "Report")
  /\ \/ Updated(p) /\ UpdatePaymentItemStatus(req[p].item, "reported", TRUE, FALSE)
     \/ Vanished(p)
  /\ enqueued' = {}
  /\ UNCHANGED <<rsvpYes, collections>>

UnReportWrite(p) ==
  /\ Writing(p, "UnReport")
  /\ \/ Updated(p) /\ UpdatePaymentItemStatus(req[p].item, "open", FALSE, FALSE)
     \/ Vanished(p)
  /\ enqueued' = {}
  /\ UNCHANGED <<rsvpYes, collections>>

\* Fault: the notification is not part of the transaction.
ConfirmAndNotify(p) ==
  LET r == req[p] IN
  /\ Writing(p, "Confirm")
  /\ \/ Updated(p) /\ UpdatePaymentItemStatus(r.item, "confirmed", r.reportedAt, TRUE)
     \/ Vanished(p)
  /\ enqueued' = {<<r.debtor, "confirmed">>}
  /\ UNCHANGED <<rsvpYes, collections>>

\* The update and the debtor's notification commit together; reported_at is
\* written back as it was read.
ConfirmWrite(p) ==
  LET r == req[p] IN
  /\ Writing(p, "Confirm")
  /\ \/ /\ Updated(p)
        /\ UpdatePaymentItemStatus(r.item, "confirmed", r.reportedAt, TRUE)
        /\ enqueued' = {<<r.debtor, "confirmed">>}
     \/ Vanished(p) /\ enqueued' = {}
  /\ UNCHANGED <<rsvpYes, collections>>

\* Fault: an item goes back to reported whether it was reported or not.
UnConfirmToReported(p) ==
  /\ Writing(p, "UnConfirm")
  /\ \/ Updated(p) /\ UpdatePaymentItemStatus(req[p].item, "reported",
                                                req[p].reportedAt, FALSE)
     \/ Vanished(p)
  /\ enqueued' = {}
  /\ UNCHANGED <<rsvpYes, collections>>

UnConfirmWrite(p) ==
  LET r == req[p] IN
  /\ Writing(p, "UnConfirm")
  /\ \/ /\ Updated(p)
        /\ UpdatePaymentItemStatus(r.item, IF r.reportedAt THEN "reported" ELSE "open",
                                   r.reportedAt, FALSE)
     \/ Vanished(p)
  /\ enqueued' = {}
  /\ UNCHANGED <<rsvpYes, collections>>

--------------------------------------------------------------------------------
\* The client goes away, the replica stops or a statement fails: the context is
\* cancelled, an open transaction is rolled back and nothing more is written.
Abort(p) ==
  /\ req[p].pc # "idle"
  /\ Respond(p, "gone")
  /\ enqueued' = {}
  /\ UNCHANGED <<rsvpYes, collections, items>>

Receive(p) == \/ Activate(p) \/ Get(p) \/ AddItem(p) \/ Deactivate(p)
              \/ SetPaymentLink(p) \/ SetAmount(p) \/ RemoveItem(p) \/ transition(p)

\* The next statement of a request in flight.
Statement(p) ==
  \/ ActivateInsert(p) \/ ActivateCommit(p) \/ GetItems(p)
  \/ AddItemCheck(p) \/ AddItemWrite(p) \/ AddItemReread(p)
  \/ DeactivateWrite(p) \/ SetPaymentLinkWrite(p)
  \/ LoadItem(p) \/ SetAmountWrite(p) \/ RemoveItemWrite(p)
  \/ ReportWrite(p) \/ UnReportWrite(p) \/ ConfirmWrite(p) \/ UnConfirmWrite(p)

Init ==
  /\ rsvpYes = [c \in Concerts |-> {}]
  /\ collections = [k \in {} |-> Nil]
  /\ items = [i \in {} |-> Nil]
  /\ req = [p \in Procs |-> Blank]
  /\ enqueued = {}

Next == \/ \E p \in Procs : Receive(p) \/ Statement(p) \/ Abort(p)
        \/ \E c \in Concerts, u \in Users : UpsertRSVP(c, u)

Spec == Init /\ [][Next]_vars

\* A goroutine that is serving a request keeps running its statements.  Strong
\* fairness is for the INSERT that waits: PostgreSQL wakes it whenever the
\* transaction it waits for ends, and not every time is another one quicker.
FairSpec == Spec /\ \A p \in Procs : SF_vars(Statement(p))

--------------------------------------------------------------------------------
(* Properties *)

\* Every row and every request in flight has the type its Go struct gives it.
TypeOK ==
  /\ rsvpYes \in [Concerts -> SUBSET Users]
  /\ DOMAIN collections \subseteq CollIds
  /\ collections \in [DOMAIN collections -> Collection]
  /\ DOMAIN items \subseteq ItemIds
  /\ items \in [DOMAIN items -> Item]
  /\ req \in [Procs -> Request]
  /\ enqueued \subseteq Users \X {"please_pay", "confirmed"}

\* However activations race and whatever stands between the check that answers
\* 409 and the INSERT, a concert never has two collections, two responsibles.
OneCollectionPerConcert ==
  \A j, k \in DOMAIN collections : collections[j].concert = collections[k].concert => j = k

\* AddItem racing Deactivate or another AddItem leaves no item without its
\* collection, none for a user outside the group, and no one charged twice.
ItemsBelong ==
  /\ \A i \in DOMAIN items :
       /\ items[i].coll \in DOMAIN collections
       /\ items[i].user \in Members[collections[items[i].coll].concert]
  /\ \A i, j \in DOMAIN items :
       items[i].coll = items[j].coll /\ items[i].user = items[j].user => i = j

\* The status and the audit timestamps never contradict each other, even though
\* Confirm and UnConfirm write back a reported_at they read two statements ago.
RowsConsistent ==
  \A i \in DOMAIN items :
    /\ items[i].amount >= 0
    /\ items[i].confirmedAt <=> items[i].status = "confirmed"
    /\ items[i].status = "open" => ~items[i].reportedAt
    /\ items[i].status = "reported" => items[i].reportedAt

\* What a request in flight may rely on, however old what it read is: ids are
\* never reused under it, a collection never changes its concert or responsible,
\* an item never changes its collection or debtor.
Privileged(r) == r.isResponsible \/ r.op \in {"AddItem", "Deactivate", "SetPaymentLink"}

InFlightSound(r) ==
  /\ r.pc # "idle" => r.user \in Users /\ r.concert \in Concerts
  /\ r.pc \in {"insert", "commit"} => r.op = "Activate"
  /\ r.pc \in {"check", "reread"} => r.op = "AddItem"
  /\ r.pc = "view" => r.op = "Get"
  /\ r.pc = "item" => r.op \in ItemOps
  /\ r.pc \in {"insert", "commit", "check", "write"} => r.amount >= 0
  /\ r.pc \in {"check", "write"} /\ r.op = "AddItem" =>
       r.debtor \in Members[r.concert]
  /\ r.coll \in DOMAIN collections =>
       /\ collections[r.coll].concert = r.concert
       /\ Privileged(r) => collections[r.coll].responsible = r.user
  /\ r.pc = "write" /\ r.op \in ItemOps =>
       /\ r.op \in ResponsibleOps => r.isResponsible
       /\ r.op \notin ResponsibleOps => r.user = r.debtor
       /\ r.item \in DOMAIN items =>
            items[r.item].coll = r.coll /\ items[r.item].user = r.debtor

\* The uncommitted row of an activation is its own: no committed row and no
\* other transaction has its id or its concert.
SlotsExclusive ==
  \A p \in Procs : req[p].pc = "commit" =>
    /\ ~Active(req[p].concert)
    /\ req[p].coll \in CollIds \ DOMAIN collections
    /\ req[p].seed \subseteq Members[req[p].concert]
    /\ \A q \in Procs \ {p} :
         /\ req[q].coll # req[p].coll
         /\ req[q].pc = "commit" => req[q].concert # req[p].concert

\* The inductive invariant.
IInv ==
  /\ TypeOK
  /\ \A c \in Concerts : rsvpYes[c] \subseteq Members[c]
  /\ \A k \in DOMAIN collections : collections[k].default >= 0
  /\ \A p \in Procs : InFlightSound(req[p])
  /\ SlotsExclusive
  /\ OneCollectionPerConcert
  /\ ItemsBelong
  /\ RowsConsistent

Took(p) == req'[p] # req[p]
ResponsibleFor(i) == collections[items[i].coll].responsible

\* Who writes a row is entitled to it when the write happens and not only when
\* it was checked: the responsible of the item's collection, or the debtor, who
\* changes neither the amount nor makes the item confirmed.
AuthorisedWrite(i, p) ==
  \/ req[p].user = ResponsibleFor(i)
  \/ /\ req[p].user = items[i].user
     /\ items'[i].amount = items[i].amount
     /\ items'[i].status # "confirmed"

AuthorisedWrites ==
  \A i \in DOMAIN items \cap DOMAIN items' : items'[i] # items[i] =>
    \E p \in Procs : Took(p) /\ AuthorisedWrite(i, p)

WritesAuthorised == [][AuthorisedWrites]_vars

\* A collection or an item disappears only at the hand of its own responsible:
\* a Deactivate that was loaded long ago never takes down the collection that
\* another member has activated since.
AuthorisedDeletes ==
  \A p \in Procs : Took(p) =>
    /\ \A k \in DOMAIN collections \ DOMAIN collections' :
         collections[k].responsible = req[p].user
    /\ \A i \in DOMAIN items \ DOMAIN items' : ResponsibleFor(i) = req[p].user

DeletesAuthorised == [][AuthorisedDeletes]_vars

NewDebtors == {<<items'[i].user, "please_pay">> : i \in DOMAIN items' \ DOMAIN items}
NewlyConfirmed(i) == items[i].status # "confirmed" /\ items'[i].status = "confirmed"

\* The Confirms that are answered 200 in this step.
Confirming == {p \in Procs : /\ req[p].pc # "idle" /\ req[p].op = "Confirm"
                             /\ req'[p].pc = "idle" /\ req'[p].answer = "ok"}

Announced ==
  /\ enqueued' = NewDebtors \cup
                  {<<items[req[p].item].user, "confirmed">> : p \in Confirming}
  /\ \A p \in Confirming : items'[req[p].item].status = "confirmed"
  /\ \A i \in DOMAIN items \cap DOMAIN items' :
       NewlyConfirmed(i) => \E p \in Confirming : req[p].item = i

\* The outbox rows of a transaction are one for every debtor it has added and one
\* for the debtor whose item a Confirm that is answered 200 leaves confirmed, and
\* no others: none when the item has vanished, a check fails or the request ends.
\* Whether the item was confirmed already is asked in ConfirmsUnconfirmed.
NotifiedAtomically == [][Announced]_vars

\* GET shows a member who is not the responsible of the collection no item but
\* the member's own, although the collection may be replaced by another
\* member's between the statement that reads it and the one that lists items.
ViewAuthorised == [][
  \A p \in Procs : req[p].pc = "view" => \A i \in req'[p].seen :
    req[p].user \in {items[i].user, ResponsibleFor(i)} ]_vars

\* Every request is answered: no two activations wait for each other and none
\* waits for a transaction that has ended.
EveryRequestAnswered ==
  \A p \in Procs : req[p].pc # "idle" ~> req[p].pc = "idle"

\* The states of a concert as a member may think of them (see PaymentLedger).
ledger == [c \in {d \in Concerts : Active(d)} |->
  [responsible |-> collections[CollOf(c)].responsible,
   status |-> [u \in {items[i].user : i \in ListPaymentItems(CollOf(c))} |->
                 items[CHOOSE i \in GetPaymentItemForUser(CollOf(c), u) : TRUE].status]]]

Ledger == INSTANCE PaymentLedger

\* Every step of the service is one indivisible step of the ledger, or none:
\* activation with its whole seed, deactivation with all items, one debtor.
ImplementsLedger == Ledger!Spec

--------------------------------------------------------------------------------
(* What the design says and the code does not do *)

\* cycle 2 design: "The owner may toggle report/un-report only while the item is
\* not confirmed".  Report checks that and then updates without a condition.
OwnerLeavesConfirmed == [][
  \A p \in Procs : Took(p) => \A i \in DOMAIN items \cap DOMAIN items' :
    items[i].status = "confirmed" /\ items'[i].status # "confirmed" =>
      req[p].user = ResponsibleFor(i) ]_vars

\* cycle 2 design: a Confirm that is answered 200 takes its item from open or
\* reported to confirmed; any other transition is refused.  Of two Confirms that
\* have both read the item before either writes, the second is answered 200 too,
\* and the debtor is told again.
ConfirmsUnconfirmed == [][\A p \in Confirming : NewlyConfirmed(req[p].item)]_vars

\* cycle 2 design: activating is answered "409 if already active".  The loser of
\* two concurrent activations is answered 500.
SecondActivationIsConflict == [][
  \A p \in Procs : ActivateInsert(p) => req'[p].answer # "internal" ]_vars

================================================================================
