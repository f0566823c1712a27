---------------------------- MODULE PaymentsProofs ----------------------------
(***************************************************************************)
(* Theorems about Payments, for any sets of users, concerts, goroutines    *)
(* and ids.                                                                *)
(***************************************************************************)
EXTENDS Payments, TLAPS

--------------------------------------------------------------------------------
(* Type correctness *)

LEMMA BlankType == Blank \in Request
  BY DEF Blank, Request, PCs, Answers

LEMMA AnsweredType == ASSUME NEW code \in Answers PROVE Answered(code) \in Request
  BY BlankType DEF Answered, Request

LEMMA ReceivedType ==
  ASSUME NEW op \in AllOps, NEW u \in Users, NEW c \in Concerts
  PROVE  Received(op, u, c) \in Request
  BY BlankType DEF Received, Request

\* What the steps of a request fill in.
LEMMA FilledType ==
  ASSUME NEW r \in Request
  PROVE  /\ \A k \in CollIds, l \in Links \cup {Nil} :
              [r EXCEPT !.coll = k, !.link = l] \in Request
         /\ \A a \in Int, l \in Links \cup {Nil} :
              [r EXCEPT !.amount = a, !.link = l] \in Request
         /\ \A k \in CollIds, b \in BOOLEAN :
              [r EXCEPT !.coll = k, !.isResponsible = b] \in Request
         /\ \A i \in ItemIds, a \in Int :
              [r EXCEPT !.item = i, !.amount = a] \in Request
         /\ \A k \in CollIds, u \in Users, a \in Int :
              [r EXCEPT !.coll = k, !.debtor = u, !.amount = a] \in Request
         /\ \A u \in Users, b \in BOOLEAN :
              [r EXCEPT !.debtor = u, !.reportedAt = b] \in Request
         /\ \A k \in CollIds, S \in SUBSET Users :
              [r EXCEPT !.pc = "commit", !.coll = k, !.seed = S] \in Request
<1>1. \A k \in CollIds, l \in Links \cup {Nil} :
        [r EXCEPT !.coll = k, !.link = l] \in Request
  BY DEF Request
<1>2. \A a \in Int, l \in Links \cup {Nil} :
        [r EXCEPT !.amount = a, !.link = l] \in Request
  BY DEF Request
<1>3. \A k \in CollIds, b \in BOOLEAN :
        [r EXCEPT !.coll = k, !.isResponsible = b] \in Request
  BY DEF Request
<1>4. \A i \in ItemIds, a \in Int :
        [r EXCEPT !.item = i, !.amount = a] \in Request
  BY DEF Request
<1>5. \A k \in CollIds, u \in Users, a \in Int :
        [r EXCEPT !.coll = k, !.debtor = u, !.amount = a] \in Request
  BY DEF Request
<1>6. \A u \in Users, b \in BOOLEAN :
        [r EXCEPT !.debtor = u, !.reportedAt = b] \in Request
  BY DEF Request
<1>7. \A k \in CollIds, S \in SUBSET Users :
        [r EXCEPT !.pc = "commit", !.coll = k, !.seed = S] \in Request
  BY DEF Request, PCs
<1> QED BY <1>1, <1>2, <1>3, <1>4, <1>5, <1>6, <1>7

LEMMA RespondType ==
  ASSUME TypeOK, NEW p \in Procs, NEW code \in Answers, Respond(p, code)
  PROVE  req' \in [Procs -> Request]
  BY AnsweredType DEF TypeOK, Respond

LEMMA ProceedType ==
  ASSUME TypeOK, NEW p \in Procs, NEW r \in Request, NEW code \in Answers,
         NEW next \in PCs, Proceed(p, r, code, next)
  PROVE  req' \in [Procs -> Request]
<1>1. [r EXCEPT !.pc = next] \in Request
  BY DEF Request
<1> QED BY <1>1, AnsweredType DEF TypeOK, Proceed

\* The collection a concert has, when it has one.
LEMMA CollOfActive ==
  ASSUME NEW c, Active(c)
  PROVE  CollOf(c) \in DOMAIN collections /\ collections[CollOf(c)].concert = c
  BY DEF Active, CollOf, GetPaymentCollectionByConcert

LEMMA GateTypes ==
  ASSUME NEW u, NEW c
  PROVE  /\ loadCollection(u, c) \in Answers
         /\ requireResponsible(u, c) \in Answers
         /\ loadCollection(u, c) = "ok" => Active(c) /\ u \in Members[c]
         /\ requireResponsible(u, c) = "ok" =>
              Active(c) /\ u \in Members[c] /\ collections[CollOf(c)].responsible = u
  BY DEF loadCollection, requireResponsible, Answers

LEMMA ItemCheckType ==
  ASSUME NEW r PROVE itemCheck(r) \in Answers
  BY DEF itemCheck, loadItemAsResponsible, loadOwnItem, loadItem, Answers

LEMMA ItemCheckFound ==
  ASSUME NEW r, itemCheck(r) = "ok"
  PROVE  r.item \in DOMAIN items /\ items[r.item].coll = r.coll
  BY DEF itemCheck, loadItemAsResponsible, loadOwnItem, loadItem

LEMMA TypeInit == Init => TypeOK
<1> SUFFICES ASSUME Init PROVE TypeOK
  OBVIOUS
<1>1. req \in [Procs -> Request]
  BY BlankType DEF Init
<1> QED BY <1>1 DEF Init, TypeOK

LEMMA CollectionOpType ==
  ASSUME TypeOK, NEW p \in Procs, NEW op \in AllOps, NEW u \in Users,
         NEW c \in Concerts, NEW l \in Links \cup {Nil}, CollectionOp(p, op, u, c, l)
  PROVE  TypeOK'
<1>1. req' \in [Procs -> Request]
  <2>1. CASE requireResponsible(u, c) = "ok"
    <3> DEFINE r == [Received(op, u, c) EXCEPT !.coll = CollOf(c), !.link = l]
    <3>1. CollOf(c) \in CollIds
      BY <2>1, GateTypes, CollOfActive DEF TypeOK
    <3>2. r \in Request
      BY <3>1, ReceivedType, FilledType
    <3>3. Proceed(p, r, "ok", "write")
      BY <2>1 DEF CollectionOp
    <3> HIDE DEF r
    <3> QED BY <3>2, <3>3, ProceedType DEF Answers, PCs
  <2>2. CASE requireResponsible(u, c) # "ok"
    BY <2>2, GateTypes, ReceivedType, ProceedType DEF CollectionOp, PCs
  <2> QED BY <2>1, <2>2
<1> QED BY <1>1 DEF CollectionOp, TypeOK

LEMMA ItemOpType ==
  ASSUME TypeOK, NEW p \in Procs, NEW op \in AllOps, NEW u \in Users,
         NEW c \in Concerts, NEW i \in ItemIds, NEW a \in Int,
         ItemOp(p, op, u, c, i, a)
  PROVE  TypeOK'
<1> DEFINE r == [Received(op, u, c) EXCEPT !.item = i, !.amount = a]
           s == [r EXCEPT !.coll = CollOf(c),
                   !.isResponsible = (collections[CollOf(c)].responsible = u)]
<1>1. r \in Request
  BY ReceivedType, FilledType
<1>2. req' \in [Procs -> Request]
  <2>1. CASE loadCollection(u, c) = "ok"
    <3>1. CollOf(c) \in CollIds
      BY <2>1, GateTypes, CollOfActive DEF TypeOK
    <3>2. s \in Request
      BY <3>1, <1>1, FilledType
    <3>3. Proceed(p, s, "ok", "item")
      BY <2>1 DEF ItemOp
    <3> HIDE DEF s
    <3> QED BY <3>2, <3>3, ProceedType DEF Answers, PCs
  <2>2. CASE loadCollection(u, c) # "ok"
    <3>1. Proceed(p, r, loadCollection(u, c), "item")
      BY <2>2 DEF ItemOp
    <3> HIDE DEF r
    <3> QED BY <1>1, <3>1, GateTypes, ProceedType DEF PCs
  <2> QED BY <2>1, <2>2
<1> QED BY <1>2 DEF ItemOp, TypeOK

\* The rows stay well typed under each of the statements that write them.
LEMMA CreateItemType ==
  ASSUME NEW k \in CollIds, NEW u \in Users, NEW a \in Int
  PROVE  CreatePaymentItem(k, u, a) \in Item
  BY DEF CreatePaymentItem, Item, Statuses

LEMMA DeleteType ==
  ASSUME TypeOK, NEW S, NEW T
  PROVE  /\ collections' = Restrict(collections, DOMAIN collections \ S) =>
              /\ DOMAIN collections' \subseteq CollIds
              /\ collections' \in [DOMAIN collections' -> Collection]
         /\ items' = Restrict(items, DOMAIN items \ T) =>
              /\ DOMAIN items' \subseteq ItemIds
              /\ items' \in [DOMAIN items' -> Item]
  BY DEF TypeOK, Restrict

LEMMA UpdateStatusType ==
  ASSUME TypeOK, NEW i \in DOMAIN items, NEW s \in Statuses, NEW b \in BOOLEAN,
         NEW d \in BOOLEAN, UpdatePaymentItemStatus(i, s, b, d)
  PROVE  /\ DOMAIN items' \subseteq ItemIds
         /\ items' \in [DOMAIN items' -> Item]
<1> DEFINE row == [items[i] EXCEPT !.status = s, !.reportedAt = b, !.confirmedAt = d]
<1>1. items[i] \in Item
  BY DEF TypeOK
<1>2. row \in Item
  BY <1>1 DEF Item
<1>3. items' = [items EXCEPT ![i] = row]
  BY DEF UpdatePaymentItemStatus
<1> HIDE DEF row
<1> QED BY <1>2, <1>3 DEF TypeOK

LEMMA ItemInFlight ==
  ASSUME TypeOK, NEW p \in Procs
  PROVE  /\ req[p] \in Request
         /\ req[p].reportedAt \in BOOLEAN
         /\ req[p].amount \in Int
         /\ req[p].seed \subseteq Users
  BY DEF TypeOK, Request

LEMMA TypeReceive ==
  ASSUME TypeOK, NEW p \in Procs, Receive(p)
  PROVE  TypeOK'
<1>1. CASE Activate(p)
  <2>1. PICK u \in Users, c \in Concerts, a \in AmountInputs, l \in Links \cup {Nil} :
          Proceed(p, [Received("Activate", u, c) EXCEPT !.amount = a, !.link = l],
                  IF a < 0 THEN "bad_request"
                  ELSE IF u \notin Members[c] THEN "forbidden"
                  ELSE IF Active(c) THEN "conflict" ELSE "ok",
                  "insert")
    BY <1>1 DEF Activate
  <2> DEFINE r == [Received("Activate", u, c) EXCEPT !.amount = a, !.link = l]
             code == IF a < 0 THEN "bad_request"
                     ELSE IF u \notin Members[c] THEN "forbidden"
                     ELSE IF Active(c) THEN "conflict" ELSE "ok"
  <2>2. r \in Request
    BY ReceivedType, FilledType, AmountAssumption DEF AllOps
  <2>3. code \in Answers
    BY DEF Answers
  <2>4. Proceed(p, r, code, "insert")
    BY <2>1
  <2> HIDE DEF r, code
  <2>5. req' \in [Procs -> Request]
    BY <2>2, <2>3, <2>4, ProceedType DEF PCs
  <2> QED BY <1>1, <2>5 DEF Activate, TypeOK
<1>2. CASE Get(p)
  <2>1. PICK u \in Users, c \in Concerts :
          LET code == loadCollection(u, c) IN
          Proceed(p, IF code # "ok" THEN Received("Get", u, c)
                     ELSE [Received("Get", u, c) EXCEPT !.coll = CollOf(c),
                             !.isResponsible = (collections[CollOf(c)].responsible = u)],
                  code, "view")
    BY <1>2 DEF Get
  <2>2. req' \in [Procs -> Request]
    <3>1. CASE loadCollection(u, c) = "ok"
      <4> DEFINE r == [Received("Get", u, c) EXCEPT !.coll = CollOf(c),
                         !.isResponsible = (collections[CollOf(c)].responsible = u)]
      <4>1. CollOf(c) \in CollIds
        BY <3>1, GateTypes, CollOfActive DEF TypeOK
      <4>2. r \in Request
        BY <4>1, ReceivedType, FilledType DEF AllOps
      <4>3. Proceed(p, r, "ok", "view")
        BY <2>1, <3>1
      <4> HIDE DEF r
      <4> QED BY <4>2, <4>3, ProceedType DEF PCs, Answers
    <3>2. CASE loadCollection(u, c) # "ok"
      BY <2>1, <3>2, GateTypes, ReceivedType, ProceedType DEF PCs, AllOps
    <3> QED BY <3>1, <3>2
  <2> QED BY <1>2, <2>2 DEF Get, TypeOK
<1>3. CASE AddItem(p)
  <2>1. PICK u \in Users, v \in Users, c \in Concerts, a \in AmountInputs \cup {Nil} :
          LET gate == requireResponsible(u, c)
              amount == IF a = Nil THEN collections[CollOf(c)].default ELSE a
          IN  IF gate # "ok" THEN Proceed(p, Received("AddItem", u, c), gate, "check")
              ELSE Proceed(p, [Received("AddItem", u, c) EXCEPT !.coll = CollOf(c),
                                 !.debtor = v, !.amount = amount],
                           IF amount < 0 \/ v \notin Members[c] THEN "bad_request"
                           ELSE "ok",
                           "check")
    BY <1>3 DEF AddItem
  <2> DEFINE amount == IF a = Nil THEN collections[CollOf(c)].default ELSE a
             code == IF amount < 0 \/ v \notin Members[c] THEN "bad_request" ELSE "ok"
             r == [Received("AddItem", u, c) EXCEPT !.coll = CollOf(c),
                     !.debtor = v, !.amount = amount]
  <2>2. req' \in [Procs -> Request]
    <3>1. CASE requireResponsible(u, c) = "ok"
      <4>1. CollOf(c) \in DOMAIN collections
        BY <3>1, GateTypes, CollOfActive
      <4>2. CollOf(c) \in CollIds /\ collections[CollOf(c)].default \in Int
        BY <4>1 DEF TypeOK, Collection
      <4>3. amount \in Int
        BY <4>2, AmountAssumption
      <4>4. Proceed(p, r, code, "check")
        BY <2>1, <3>1
      <4>5. code \in Answers
        BY DEF Answers
      <4> HIDE DEF amount, code
      <4>6. r \in Request
        BY <4>2, <4>3, ReceivedType, FilledType DEF AllOps
      <4> HIDE DEF r
      <4> QED BY <4>4, <4>5, <4>6, ProceedType DEF PCs
    <3>2. CASE requireResponsible(u, c) # "ok"
      BY <2>1, <3>2, GateTypes, ReceivedType, ProceedType DEF PCs, AllOps
    <3> QED BY <3>1, <3>2
  <2> QED BY <1>3, <2>2 DEF AddItem, TypeOK
<1>4. CASE Deactivate(p) \/ SetPaymentLink(p)
  BY <1>4, CollectionOpType DEF Deactivate, SetPaymentLink, AllOps
<1>5. CASE SetAmount(p)
  BY <1>5, ItemOpType, AmountAssumption DEF SetAmount, AllOps, ItemOps
<1>6. CASE RemoveItem(p)
  BY <1>6, ItemOpType DEF RemoveItem, AllOps, ItemOps
<1>7. CASE transition(p)
  BY <1>7, ItemOpType DEF transition, AllOps, ItemOps
<1> QED BY <1>1, <1>2, <1>3, <1>4, <1>5, <1>6, <1>7 DEF Receive

\* The commit of an activation adds well-typed rows.
LEMMA TypeCommit ==
  ASSUME IInv, NEW p \in Procs, ActivateCommit(p)
  PROVE  TypeOK'
<1> DEFINE r == req[p]
<1>1. /\ r \in Request /\ r.pc = "commit"
      /\ r.coll \in CollIds /\ r.user \in Users /\ r.concert \in Concerts
      /\ r.amount \in Int /\ r.link \in Links \cup {Nil} /\ r.seed \subseteq Users
  BY DEF IInv, TypeOK, SlotsExclusive, InFlightSound, ActivateCommit, Request
<1>2. req' \in [Procs -> Request]
  BY RespondType DEF ActivateCommit, Answers, IInv
<1>3. DOMAIN collections' \subseteq CollIds /\ collections' \in [DOMAIN collections' -> Collection]
  <2> DEFINE row == [concert |-> r.concert, responsible |-> r.user,
                     default |-> r.amount, link |-> r.link]
  <2>1. row \in Collection
    BY <1>1 DEF Collection
  <2>2. collections' = [j \in DOMAIN collections \cup {r.coll} |->
                          IF j = r.coll THEN row ELSE collections[j]]
    BY DEF ActivateCommit, CreatePaymentCollection
  <2> HIDE DEF row
  <2> QED BY <1>1, <2>1, <2>2 DEF IInv, TypeOK
<1>4. DOMAIN items' \subseteq ItemIds /\ items' \in [DOMAIN items' -> Item]
  <2>1. PICK I \in SUBSET FreshItems : \E debtor \in Bijection(I, r.seed) :
          items' = [i \in DOMAIN items \cup I |->
                      IF i \in I THEN CreatePaymentItem(r.coll, debtor[i], r.amount)
                                 ELSE items[i]]
    BY DEF ActivateCommit
  <2>2. PICK debtor \in [I -> r.seed] :
          items' = [i \in DOMAIN items \cup I |->
                      IF i \in I THEN CreatePaymentItem(r.coll, debtor[i], r.amount)
                                 ELSE items[i]]
    BY <2>1 DEF Bijection, Injection
  <2>3. \A i \in I : CreatePaymentItem(r.coll, debtor[i], r.amount) \in Item
    BY <1>1, <2>2, CreateItemType
  <2> QED BY <2>2, <2>3 DEF IInv, TypeOK, FreshItems
<1>5. enqueued' \subseteq Users \X {"please_pay", "confirmed"}
  BY <1>1 DEF ActivateCommit
<1> QED BY <1>2, <1>3, <1>4, <1>5 DEF ActivateCommit, IInv, TypeOK

LEMMA TypeStatement ==
  ASSUME IInv, NEW p \in Procs, Statement(p)
  PROVE  TypeOK'
<1> DEFINE r == req[p]
<1>0. TypeOK /\ r \in Request
  BY DEF IInv, TypeOK
<1>1. CASE ActivateInsert(p)
  <2>1. req' \in [Procs -> Request]
    <3>1. CASE Respond(p, "internal")
      BY <1>0, <3>1, RespondType DEF Answers
    <3>2. CASE \E k \in FreshColls :
             req' = [req EXCEPT ![p] = [r EXCEPT !.pc = "commit", !.coll = k,
                                          !.seed = ListYesRsvpUserIDs(r.concert)]]
      <4>1. r.concert \in Concerts
        BY <1>1 DEF IInv, InFlightSound, ActivateInsert
      <4>2. rsvpYes[r.concert] \in SUBSET Users
        BY <1>0, <4>1 DEF TypeOK
      <4>3. PICK k \in FreshColls :
              req' = [req EXCEPT ![p] = [r EXCEPT !.pc = "commit", !.coll = k,
                                           !.seed = ListYesRsvpUserIDs(r.concert)]]
        BY <3>2
      <4>4. k \in CollIds
        BY DEF FreshColls
      <4>5. [r EXCEPT !.pc = "commit", !.coll = k,
                      !.seed = ListYesRsvpUserIDs(r.concert)] \in Request
        BY <1>0, <4>2, <4>4, FilledType DEF ListYesRsvpUserIDs
      <4> QED BY <1>0, <4>3, <4>5 DEF TypeOK
    <3> QED BY <1>1, <3>1, <3>2 DEF ActivateInsert
  <2> QED BY <1>0, <1>1, <2>1 DEF ActivateInsert, TypeOK
<1>2. CASE ActivateCommit(p)
  BY <1>2, TypeCommit
<1>3. CASE GetItems(p)
  <2> DEFINE seen == IF r.isResponsible THEN ListPaymentItems(r.coll)
                                        ELSE GetPaymentItemForUser(r.coll, r.user)
  <2>1. seen \in SUBSET ItemIds
    BY <1>0 DEF ListPaymentItems, GetPaymentItemForUser, TypeOK
  <2>2. Answered("ok") \in Request
    BY AnsweredType DEF Answers
  <2>3. [Answered("ok") EXCEPT !.seen = seen] \in Request
    <3> HIDE DEF seen
    <3> QED BY <2>1, <2>2 DEF Request
  <2> QED BY <1>0, <1>3, <2>3 DEF GetItems, TypeOK
<1>4. CASE AddItemCheck(p)
  <2>1. req' \in [Procs -> Request]
    BY <1>0, <1>4, ProceedType DEF AddItemCheck, Answers, PCs
  <2> QED BY <1>0, <1>4, <2>1 DEF AddItemCheck, TypeOK
<1>5. CASE AddItemWrite(p)
  <2>1. CASE /\ Respond(p, "internal") /\ enqueued' = {} /\ UNCHANGED items
    <3>1. req' \in [Procs -> Request]
      BY <1>0, <2>1, RespondType DEF Answers
    <3> QED BY <1>0, <1>5, <2>1, <3>1 DEF AddItemWrite, TypeOK
  <2>2. CASE /\ r.coll \in DOMAIN collections
             /\ \E i \in FreshItems :
                  items' = [j \in DOMAIN items \cup {i} |->
                              IF j = i THEN CreatePaymentItem(r.coll, r.debtor, r.amount)
                                       ELSE items[j]]
             /\ enqueued' = {<<r.debtor, "please_pay">>}
             /\ req' = [req EXCEPT ![p].pc = "reread"]
    <3>1. r.coll \in CollIds /\ r.debtor \in Users /\ r.amount \in Int
      BY <1>0, <1>5, <2>2, MembersAssumption
         DEF IInv, InFlightSound, AddItemWrite, TypeOK, Request
    <3>2. CreatePaymentItem(r.coll, r.debtor, r.amount) \in Item
      BY <3>1, CreateItemType
    <3>3. DOMAIN items' \subseteq ItemIds /\ items' \in [DOMAIN items' -> Item]
      BY <1>0, <2>2, <3>2 DEF TypeOK, FreshItems
    <3>4. [r EXCEPT !.pc = "reread"] \in Request
      BY <1>0 DEF Request, PCs
    <3> QED BY <1>0, <1>5, <2>2, <3>1, <3>3, <3>4 DEF AddItemWrite, TypeOK
  <2> QED BY <1>5, <2>1, <2>2 DEF AddItemWrite
<1>6. CASE AddItemReread(p)
  <2>1. req' \in [Procs -> Request]
    BY <1>0, <1>6, RespondType DEF AddItemReread, Answers
  <2> QED BY <1>0, <1>6, <2>1 DEF AddItemReread, TypeOK
<1>7. CASE DeactivateWrite(p)
  <2>1. req' \in [Procs -> Request]
    BY <1>0, <1>7, RespondType DEF DeactivateWrite, Answers
  <2> QED BY <1>0, <1>7, <2>1, DeleteType DEF DeactivateWrite, DeletePaymentCollection, TypeOK
<1>8. CASE SetPaymentLinkWrite(p)
  <2>1. req' \in [Procs -> Request]
    BY <1>0, <1>8, RespondType DEF SetPaymentLinkWrite, Answers
  <2>2. \A k \in DOMAIN collections :
          [collections[k] EXCEPT !.link = r.link] \in Collection
    BY <1>0 DEF TypeOK, Collection, Request
  <2> QED BY <1>0, <1>8, <2>1, <2>2
          DEF SetPaymentLinkWrite, UpdatePaymentCollectionLink, TypeOK
<1>9. CASE LoadItem(p)
  <2>1. req' \in [Procs -> Request]
    <3>1. CASE itemCheck(r) = "ok"
      <4> DEFINE s == [r EXCEPT !.debtor = items[r.item].user,
                                !.reportedAt = items[r.item].reportedAt]
      <4>1. items[r.item].user \in Users /\ items[r.item].reportedAt \in BOOLEAN
        BY <1>0, <3>1, ItemCheckFound DEF TypeOK, Item
      <4>2. s \in Request
        BY <1>0, <4>1, FilledType
      <4>3. Proceed(p, s, "ok", "write")
        BY <1>9, <3>1 DEF LoadItem
      <4> HIDE DEF s
      <4> QED BY <1>0, <4>2, <4>3, ProceedType DEF PCs, Answers
    <3>2. CASE itemCheck(r) # "ok"
      BY <1>0, <1>9, <3>2, ItemCheckType, ProceedType DEF LoadItem, PCs
    <3> QED BY <3>1, <3>2
  <2> QED BY <1>0, <1>9, <2>1 DEF LoadItem, TypeOK
<1>10. ASSUME Updated(p) \/ Vanished(p) PROVE req' \in [Procs -> Request]
  BY <1>0, <1>10, RespondType DEF Updated, Vanished, Answers
<1>11. CASE SetAmountWrite(p)
  <2>1. \A i \in DOMAIN items : [items[i] EXCEPT !.amount = r.amount] \in Item
    BY <1>0 DEF TypeOK, Item, Request
  <2> QED BY <1>0, <1>10, <1>11, <2>1
          DEF SetAmountWrite, UpdatePaymentItemAmount, Updated, Vanished, TypeOK
<1>12. CASE RemoveItemWrite(p)
  <2>1. req' \in [Procs -> Request]
    BY <1>0, <1>12, RespondType DEF RemoveItemWrite, Answers
  <2> QED BY <1>0, <1>12, <2>1, DeleteType DEF RemoveItemWrite, DeletePaymentItem, TypeOK
<1>13. CASE ReportWrite(p)
  <2>1. DOMAIN items' \subseteq ItemIds /\ items' \in [DOMAIN items' -> Item]
    BY <1>0, <1>13, UpdateStatusType DEF ReportWrite, Updated, Vanished, Statuses, TypeOK
  <2> QED BY <1>0, <1>10, <1>13, <2>1 DEF ReportWrite, TypeOK
<1>14. CASE UnReportWrite(p)
  <2>1. DOMAIN items' \subseteq ItemIds /\ items' \in [DOMAIN items' -> Item]
    BY <1>0, <1>14, UpdateStatusType DEF UnReportWrite, Updated, Vanished, Statuses, TypeOK
  <2> QED BY <1>0, <1>10, <1>14, <2>1 DEF UnReportWrite, TypeOK
<1>15. CASE ConfirmWrite(p)
  <2>1. DOMAIN items' \subseteq ItemIds /\ items' \in [DOMAIN items' -> Item]
    BY <1>0, <1>15, UpdateStatusType, ItemInFlight
       DEF ConfirmWrite, Updated, Vanished, Statuses, TypeOK
  <2>2. enqueued' \subseteq Users \X {"please_pay", "confirmed"}
    <3>1. CASE Updated(p) /\ enqueued' = {<<r.debtor, "confirmed">>}
      <4>1. r.debtor = items[r.item].user /\ r.item \in DOMAIN items
        BY <1>15, <3>1 DEF IInv, InFlightSound, ConfirmWrite, Writing, Updated, ItemOps
      <4> QED BY <1>0, <3>1, <4>1 DEF TypeOK, Item
    <3> QED BY <1>15, <3>1 DEF ConfirmWrite
  <2> QED BY <1>0, <1>10, <1>15, <2>1, <2>2 DEF ConfirmWrite, TypeOK
<1>16. CASE UnConfirmWrite(p)
  <2>1. DOMAIN items' \subseteq ItemIds /\ items' \in [DOMAIN items' -> Item]
    BY <1>0, <1>16, UpdateStatusType, ItemInFlight
       DEF UnConfirmWrite, Updated, Vanished, Statuses, TypeOK
  <2> QED BY <1>0, <1>10, <1>16, <2>1 DEF UnConfirmWrite, TypeOK
<1> QED BY <1>1, <1>2, <1>3, <1>4, <1>5, <1>6, <1>7, <1>8, <1>9, <1>11, <1>12,
           <1>13, <1>14, <1>15, <1>16 DEF Statement

LEMMA TypeNext ==
  ASSUME IInv, [Next]_vars
  PROVE  TypeOK'
<1>0. TypeOK
  BY DEF IInv
<1>1. ASSUME NEW p \in Procs, Abort(p) PROVE TypeOK'
  <2>1. req' \in [Procs -> Request]
    BY <1>0, <1>1, RespondType DEF Abort, Answers
  <2> QED BY <1>0, <1>1, <2>1 DEF Abort, TypeOK
<1>2. ASSUME NEW c \in Concerts, NEW u \in Users, UpsertRSVP(c, u) PROVE TypeOK'
  BY <1>0, <1>2 DEF UpsertRSVP, TypeOK
<1>3. CASE UNCHANGED vars
  BY <1>0, <1>3 DEF vars, TypeOK
<1> QED BY <1>0, <1>1, <1>2, <1>3, TypeReceive, TypeStatement DEF Next

--------------------------------------------------------------------------------
(* The inductive invariant *)

\* A step of p that adds no row: what remains keeps its identity, and the next
\* record of p is sound and does not reserve a slot.
KeepsCollections ==
  \A k \in DOMAIN collections' :
    /\ k \in DOMAIN collections
    /\ collections'[k].concert = collections[k].concert
    /\ collections'[k].responsible = collections[k].responsible
    /\ collections'[k].default = collections[k].default

KeepsItems ==
  \A i \in DOMAIN items' :
    /\ i \in DOMAIN items
    /\ items'[i].coll = items[i].coll /\ items'[i].user = items[i].user
    /\ items'[i].coll \in DOMAIN collections'

OnlyMoves(p) == \A q \in Procs \ {p} : req'[q] = req[q]

LEMMA OthersSound ==
  ASSUME IInv, NEW q \in Procs, req'[q] = req[q],
         \A k \in DOMAIN collections' : k \in DOMAIN collections =>
           /\ collections'[k].concert = collections[k].concert
           /\ collections'[k].responsible = collections[k].responsible,
         \A i \in DOMAIN items' : i \in DOMAIN items =>
           items'[i].coll = items[i].coll /\ items'[i].user = items[i].user,
         req[q].coll \in DOMAIN collections' => req[q].coll \in DOMAIN collections,
         req[q].item \in DOMAIN items' => req[q].item \in DOMAIN items
  PROVE  InFlightSound(req[q])'
  BY DEF IInv, InFlightSound, Privileged

LEMMA NoNewRows ==
  ASSUME IInv, TypeOK', NEW p \in Procs, rsvpYes' = rsvpYes,
         KeepsCollections, KeepsItems, RowsConsistent', OnlyMoves(p),
         InFlightSound(req[p])', req'[p].pc # "commit",
         req'[p].coll \in {Nil, req[p].coll} \cup DOMAIN collections
  PROVE  IInv'
<1>1. \A q \in Procs : InFlightSound(req[q])'
  <2> SUFFICES ASSUME NEW q \in Procs, q # p PROVE InFlightSound(req[q])'
    OBVIOUS
  <2>1. req'[q] = req[q]
    BY DEF OnlyMoves
  <2> QED BY <2>1, OthersSound DEF KeepsCollections, KeepsItems
<1>2. SlotsExclusive'
  <2> SUFFICES ASSUME NEW q \in Procs, req'[q].pc = "commit"
               PROVE /\ ~Active(req[q].concert)'
                     /\ req'[q].coll \in CollIds \ DOMAIN collections'
                     /\ req'[q].seed \subseteq Members[req'[q].concert]
                     /\ \A t \in Procs \ {q} :
                          /\ req'[t].coll # req'[q].coll
                          /\ req'[t].pc = "commit" => req'[t].concert # req'[q].concert
    BY DEF SlotsExclusive
  <2>1. q # p /\ req'[q] = req[q] /\ req[q].pc = "commit"
    BY DEF OnlyMoves
  <2>2. /\ ~Active(req[q].concert)
        /\ req[q].coll \in CollIds \ DOMAIN collections
        /\ req[q].seed \subseteq Members[req[q].concert]
        /\ \A t \in Procs \ {q} :
             /\ req[t].coll # req[q].coll
             /\ req[t].pc = "commit" => req[t].concert # req[q].concert
    BY <2>1 DEF IInv, SlotsExclusive
  <2>3. ~Active(req[q].concert)'
    BY <2>1, <2>2 DEF Active, GetPaymentCollectionByConcert, KeepsCollections
  <2>4. req'[p].coll # req'[q].coll
    BY <2>1, <2>2, NilAssumption
  <2>5. \A t \in Procs \ {q} :
          /\ req'[t].coll # req'[q].coll
          /\ req'[t].pc = "commit" => req'[t].concert # req'[q].concert
    BY <2>1, <2>2, <2>4 DEF OnlyMoves
  <2> QED BY <2>1, <2>2, <2>3, <2>5 DEF KeepsCollections
<1>3. OneCollectionPerConcert'
  BY DEF IInv, OneCollectionPerConcert, KeepsCollections
<1>4. ItemsBelong'
  BY DEF IInv, ItemsBelong, KeepsCollections, KeepsItems
<1>5. \A k \in DOMAIN collections' : collections'[k].default >= 0
  BY DEF IInv, KeepsCollections
<1>6. \A c \in Concerts : rsvpYes'[c] \subseteq Members[c]
  BY DEF IInv
<1> QED BY <1>1, <1>2, <1>3, <1>4, <1>5, <1>6 DEF IInv

LEMMA AnsweredSound ==
  ASSUME TypeOK', NEW p \in Procs, NEW code, req'[p] = Answered(code)
  PROVE  InFlightSound(req[p])' /\ req'[p].pc = "idle" /\ req'[p].coll = Nil
<1>1. /\ req'[p].pc = "idle" /\ req'[p].coll = Nil
  BY DEF Answered, Blank
<1>2. Nil \notin DOMAIN collections'
  BY NilAssumption DEF TypeOK
<1> QED BY <1>1, <1>2 DEF InFlightSound

\* The step ends the request and adds no row.
LEMMA AnswerStep ==
  ASSUME IInv, TypeOK', NEW p \in Procs, NEW code, Respond(p, code),
         rsvpYes' = rsvpYes, KeepsCollections, KeepsItems, RowsConsistent'
  PROVE  IInv'
<1>1. req'[p] = Answered(code) /\ OnlyMoves(p)
  BY DEF Respond, OnlyMoves, IInv, TypeOK
<1>2. InFlightSound(req[p])' /\ req'[p].pc = "idle" /\ req'[p].coll = Nil
  BY <1>1, AnsweredSound
<1> QED BY <1>1, <1>2, NoNewRows

\* The step only reads the tables.
LEMMA ReadStep ==
  ASSUME IInv, TypeOK', NEW p \in Procs, NEW r, req' = [req EXCEPT ![p] = r],
         UNCHANGED <<rsvpYes, collections, items>>,
         InFlightSound(r), r.pc # "commit",
         r.coll \in {Nil, req[p].coll} \cup DOMAIN collections
  PROVE  IInv'
<1>1. KeepsCollections /\ KeepsItems
  BY DEF KeepsCollections, KeepsItems, IInv, ItemsBelong
<1>2. RowsConsistent'
  BY DEF IInv, RowsConsistent
<1>3. req'[p] = r /\ OnlyMoves(p)
  BY DEF OnlyMoves, IInv, TypeOK
<1>4. InFlightSound(req[p])'
  BY <1>3 DEF InFlightSound, Privileged
<1> QED BY <1>1, <1>2, <1>3, <1>4, NoNewRows

LEMMA AnsweredReads ==
  ASSUME IInv, TypeOK', NEW p \in Procs, NEW code, Respond(p, code),
         UNCHANGED <<rsvpYes, collections, items>>
  PROVE  IInv'
<1>1. KeepsCollections /\ KeepsItems
  BY DEF KeepsCollections, KeepsItems, IInv, ItemsBelong
<1>2. RowsConsistent'
  BY DEF IInv, RowsConsistent
<1> QED BY <1>1, <1>2, AnswerStep

LEMMA ProceedStep ==
  ASSUME IInv, TypeOK', NEW p \in Procs, NEW r \in Request, NEW code, NEW next \in PCs,
         Proceed(p, r, code, next),
         UNCHANGED <<rsvpYes, collections, items>>,
         code = "ok" => /\ InFlightSound([r EXCEPT !.pc = next])
                        /\ next # "commit"
                        /\ r.coll \in {Nil, req[p].coll} \cup DOMAIN collections
  PROVE  IInv'
<1>1. CASE code = "ok"
  <2> DEFINE s == [r EXCEPT !.pc = next]
  <2>1. s.pc = next /\ s.coll = r.coll
    BY DEF Request
  <2>2. req' = [req EXCEPT ![p] = s]
    BY <1>1 DEF Proceed
  <2>3. InFlightSound(s)
    BY <1>1
  <2> HIDE DEF s
  <2> QED BY <1>1, <2>1, <2>2, <2>3, ReadStep
<1>2. CASE code # "ok"
  BY <1>2, AnsweredReads DEF Proceed, Respond
<1> QED BY <1>1, <1>2

\* A request that has been received and filled in with what was read is sound.
LEMMA ReceivedFields ==
  ASSUME NEW op, NEW u, NEW c
  PROVE  LET r == Received(op, u, c) IN
         /\ r.op = op /\ r.user = u /\ r.concert = c /\ r.coll = Nil
         /\ r.pc = "idle" /\ r.amount = 0 /\ ~r.isResponsible
  BY DEF Received, Blank

LEMMA InvCollectionOp ==
  ASSUME IInv, TypeOK', NEW p \in Procs, NEW op \in {"Deactivate", "SetPaymentLink"},
         NEW u \in Users, NEW c \in Concerts, NEW l \in Links \cup {Nil},
         CollectionOp(p, op, u, c, l)
  PROVE  IInv'
<1> DEFINE gate == requireResponsible(u, c)
           x == Received(op, u, c)
           r == [x EXCEPT !.coll = CollOf(c), !.link = l]
<1>0. TypeOK
  BY DEF IInv
<1>1. x \in Request
  BY ReceivedType DEF AllOps
<1>2. CASE gate = "ok"
  <2>1. /\ CollOf(c) \in DOMAIN collections
        /\ collections[CollOf(c)].concert = c
        /\ collections[CollOf(c)].responsible = u
    BY <1>2, GateTypes, CollOfActive
  <2>2. r \in Request
    BY <1>0, <1>1, <2>1, FilledType DEF TypeOK
  <2>3. /\ r.op = op /\ r.user = u /\ r.concert = c /\ r.coll = CollOf(c)
        /\ r.amount = 0 /\ ~r.isResponsible
    <3> HIDE DEF x
    <3> QED BY <1>1, ReceivedFields DEF Request, x
  <2>4. Proceed(p, r, "ok", "write")
    BY <1>2 DEF CollectionOp
  <2> HIDE DEF r
  <2>5. InFlightSound([r EXCEPT !.pc = "write"])
    BY <2>1, <2>2, <2>3 DEF InFlightSound, Request, Privileged, ItemOps
  <2> QED BY <2>1, <2>2, <2>3, <2>4, <2>5, ProceedStep DEF PCs, CollectionOp
<1>3. CASE gate # "ok"
  BY <1>1, <1>3, ProceedStep DEF CollectionOp, PCs
<1> QED BY <1>2, <1>3

LEMMA InvItemOp ==
  ASSUME IInv, TypeOK', NEW p \in Procs, NEW op \in ItemOps,
         NEW u \in Users, NEW c \in Concerts, NEW i \in ItemIds, NEW a \in Int,
         ItemOp(p, op, u, c, i, a)
  PROVE  IInv'
<1> DEFINE x == Received(op, u, c)
           r == [x EXCEPT !.item = i, !.amount = a]
           b == (collections[CollOf(c)].responsible = u)
           s == [r EXCEPT !.coll = CollOf(c), !.isResponsible = b]
<1>0. TypeOK
  BY DEF IInv
<1>1. x \in Request
  BY ReceivedType DEF AllOps
<1>2. r \in Request
  BY <1>1, FilledType
<1>3. r.op = op /\ r.user = u /\ r.concert = c
  <2> HIDE DEF x
  <2> QED BY <1>1, ReceivedFields DEF Request, x
<1>4. CASE loadCollection(u, c) = "ok"
  <2>1. CollOf(c) \in DOMAIN collections /\ collections[CollOf(c)].concert = c
    BY <1>4, GateTypes, CollOfActive
  <2>2. Proceed(p, s, "ok", "item")
    BY <1>4 DEF ItemOp
  <2> HIDE DEF r
  <2>3. s \in Request
    BY <1>0, <1>2, <2>1, FilledType DEF TypeOK
  <2>4. /\ s.op = op /\ s.user = u /\ s.concert = c /\ s.coll = CollOf(c)
        /\ s.isResponsible <=> b
    BY <1>2, <1>3 DEF Request
  <2> HIDE DEF s
  <2>5. InFlightSound([s EXCEPT !.pc = "item"])
    BY <2>1, <2>3, <2>4 DEF InFlightSound, Request, Privileged, ItemOps
  <2> QED BY <2>1, <2>2, <2>3, <2>4, <2>5, ProceedStep DEF PCs, ItemOp
<1>5. CASE loadCollection(u, c) # "ok"
  <2>1. Proceed(p, r, loadCollection(u, c), "item")
    BY <1>5 DEF ItemOp
  <2> HIDE DEF r
  <2> QED BY <1>2, <1>5, <2>1, ProceedStep DEF ItemOp, PCs
<1> QED BY <1>4, <1>5

LEMMA InvActivate ==
  ASSUME IInv, TypeOK', NEW p \in Procs, Activate(p)
  PROVE  IInv'
<1>1. PICK u \in Users, c \in Concerts, a \in AmountInputs, l \in Links \cup {Nil} :
        Proceed(p, [Received("Activate", u, c) EXCEPT !.amount = a, !.link = l],
                IF a < 0 THEN "bad_request"
                ELSE IF u \notin Members[c] THEN "forbidden"
                ELSE IF Active(c) THEN "conflict" ELSE "ok",
                "insert")
  BY DEF Activate
<1> DEFINE x == Received("Activate", u, c)
           r == [x EXCEPT !.amount = a, !.link = l]
           code == IF a < 0 THEN "bad_request"
                   ELSE IF u \notin Members[c] THEN "forbidden"
                   ELSE IF Active(c) THEN "conflict" ELSE "ok"
<1>2. x \in Request /\ a \in Int
  BY ReceivedType, AmountAssumption DEF AllOps
<1>3. r \in Request
  BY <1>2, FilledType
<1>4. /\ r.op = "Activate" /\ r.user = u /\ r.concert = c /\ r.coll = Nil /\ r.amount = a
  <2> HIDE DEF x
  <2> QED BY <1>2, ReceivedFields DEF Request, x
<1>5. Proceed(p, r, code, "insert") /\ (code = "ok" => a >= 0)
  BY <1>1, <1>2
<1>6. Nil \notin DOMAIN collections
  BY NilAssumption DEF IInv, TypeOK
<1> HIDE DEF r, code
<1>7. code = "ok" => InFlightSound([r EXCEPT !.pc = "insert"])
  BY <1>3, <1>4, <1>5, <1>6 DEF InFlightSound, Request
<1> QED BY <1>3, <1>4, <1>5, <1>7, ProceedStep DEF PCs, Activate

LEMMA InvGet ==
  ASSUME IInv, TypeOK', NEW p \in Procs, Get(p)
  PROVE  IInv'
<1>1. PICK u \in Users, c \in Concerts :
        LET code == loadCollection(u, c) IN
        Proceed(p, IF code # "ok" THEN Received("Get", u, c)
                   ELSE [Received("Get", u, c) EXCEPT !.coll = CollOf(c),
                           !.isResponsible = (collections[CollOf(c)].responsible = u)],
                code, "view")
  BY DEF Get
<1> DEFINE x == Received("Get", u, c)
           b == (collections[CollOf(c)].responsible = u)
           s == [x EXCEPT !.coll = CollOf(c), !.isResponsible = b]
<1>2. x \in Request
  BY ReceivedType DEF AllOps
<1>3. CASE loadCollection(u, c) = "ok"
  <2>1. CollOf(c) \in DOMAIN collections /\ collections[CollOf(c)].concert = c
    BY <1>3, GateTypes, CollOfActive
  <2>2. Proceed(p, s, "ok", "view")
    BY <1>1, <1>3
  <2>3. s \in Request
    BY <1>2, <2>1, FilledType DEF IInv, TypeOK
  <2>4. /\ s.op = "Get" /\ s.user = u /\ s.concert = c /\ s.coll = CollOf(c)
        /\ s.isResponsible <=> b
    <3>1. x.op = "Get" /\ x.user = u /\ x.concert = c
      BY ReceivedFields
    <3> HIDE DEF x
    <3> QED BY <1>2, <3>1 DEF Request
  <2> HIDE DEF s
  <2>5. InFlightSound([s EXCEPT !.pc = "view"])
    BY <2>1, <2>3, <2>4 DEF InFlightSound, Request, Privileged
  <2> QED BY <2>1, <2>2, <2>3, <2>4, <2>5, ProceedStep DEF PCs, Get
<1>4. CASE loadCollection(u, c) # "ok"
  BY <1>1, <1>2, <1>4, ProceedStep DEF Get, PCs
<1> QED BY <1>3, <1>4

LEMMA InvAddItem ==
  ASSUME IInv, TypeOK', NEW p \in Procs, AddItem(p)
  PROVE  IInv'
<1>1. PICK u \in Users, v \in Users, c \in Concerts, a \in AmountInputs \cup {Nil} :
        LET gate == requireResponsible(u, c)
            amount == IF a = Nil THEN collections[CollOf(c)].default ELSE a
        IN  IF gate # "ok" THEN Proceed(p, Received("AddItem", u, c), gate, "check")
            ELSE Proceed(p, [Received("AddItem", u, c) EXCEPT !.coll = CollOf(c),
                               !.debtor = v, !.amount = amount],
                         IF amount < 0 \/ v \notin Members[c] THEN "bad_request"
                         ELSE "ok",
                         "check")
  BY DEF AddItem
<1> DEFINE x == Received("AddItem", u, c)
           amount == IF a = Nil THEN collections[CollOf(c)].default ELSE a
           code == IF amount < 0 \/ v \notin Members[c] THEN "bad_request" ELSE "ok"
           r == [x EXCEPT !.coll = CollOf(c), !.debtor = v, !.amount = amount]
<1>2. x \in Request
  BY ReceivedType DEF AllOps
<1>3. CASE requireResponsible(u, c) = "ok"
  <2>1. /\ CollOf(c) \in DOMAIN collections
        /\ collections[CollOf(c)].concert = c
        /\ collections[CollOf(c)].responsible = u
    BY <1>3, GateTypes, CollOfActive
  <2>2. amount \in Int /\ CollOf(c) \in CollIds
    <3>1. CollOf(c) \in CollIds /\ collections[CollOf(c)].default \in Int
      BY <2>1 DEF IInv, TypeOK, Collection
    <3> QED BY <3>1, AmountAssumption
  <2>3. Proceed(p, r, code, "check")
    BY <1>1, <1>3
  <2>4. code = "ok" => amount >= 0 /\ v \in Members[c]
    BY <2>2
  <2> HIDE DEF amount, code
  <2>5. r \in Request
    BY <1>2, <2>2, FilledType
  <2>6. /\ r.op = "AddItem" /\ r.user = u /\ r.concert = c /\ r.coll = CollOf(c)
        /\ ~r.isResponsible /\ r.amount = amount /\ r.debtor = v
    <3> HIDE DEF x
    <3> QED BY <1>2, ReceivedFields DEF Request, x
  <2> HIDE DEF r
  <2>7. code = "ok" => InFlightSound([r EXCEPT !.pc = "check"])
    BY <2>1, <2>4, <2>5, <2>6 DEF InFlightSound, Request, Privileged
  <2> QED BY <2>1, <2>3, <2>5, <2>6, <2>7, ProceedStep DEF PCs, AddItem
<1>4. CASE requireResponsible(u, c) # "ok"
  BY <1>1, <1>2, <1>4, ProceedStep DEF AddItem, PCs
<1> QED BY <1>3, <1>4

LEMMA InvReceive ==
  ASSUME IInv, TypeOK', NEW p \in Procs, Receive(p)
  PROVE  IInv'
<1>1. CASE Deactivate(p) \/ SetPaymentLink(p)
  BY <1>1, InvCollectionOp DEF Deactivate, SetPaymentLink
<1>2. CASE SetAmount(p)
  BY <1>2, InvItemOp, AmountAssumption DEF SetAmount, ItemOps
<1>3. CASE RemoveItem(p) \/ transition(p)
  BY <1>3, InvItemOp DEF RemoveItem, transition, ItemOps
<1> QED BY <1>1, <1>2, <1>3, InvActivate, InvGet, InvAddItem DEF Receive

\* A row that is updated keeps its collection and its debtor.
LEMMA InvUpdateItem ==
  ASSUME IInv, TypeOK', NEW p \in Procs, NEW code, Respond(p, code),
         NEW i \in DOMAIN items, NEW row,
         items' = [items EXCEPT ![i] = row],
         row.coll = items[i].coll, row.user = items[i].user,
         row.amount >= 0,
         row.confirmedAt <=> row.status = "confirmed",
         row.status = "open" => ~row.reportedAt,
         row.status = "reported" => row.reportedAt,
         UNCHANGED <<rsvpYes, collections>>
  PROVE  IInv'
<1>1. DOMAIN items' = DOMAIN items
  OBVIOUS
<1>2. items'[i] = row /\ \A j \in DOMAIN items \ {i} : items'[j] = items[j]
  BY DEF IInv, TypeOK
<1>3. KeepsCollections /\ KeepsItems
  BY <1>1, <1>2 DEF KeepsCollections, KeepsItems, IInv, ItemsBelong
<1>4. RowsConsistent'
  BY <1>1, <1>2 DEF IInv, RowsConsistent
<1> QED BY <1>3, <1>4, AnswerStep

LEMMA InvUpdateStatus ==
  ASSUME IInv, TypeOK', NEW p \in Procs, Updated(p),
         NEW s \in Statuses, NEW b \in BOOLEAN, NEW d \in BOOLEAN,
         UpdatePaymentItemStatus(req[p].item, s, b, d),
         d <=> s = "confirmed", s = "open" => ~b, s = "reported" => b,
         UNCHANGED <<rsvpYes, collections>>
  PROVE  IInv'
<1> DEFINE i == req[p].item
           row == [items[i] EXCEPT !.status = s, !.reportedAt = b, !.confirmedAt = d]
<1>1. i \in DOMAIN items /\ items[i] \in Item
  BY DEF Updated, IInv, TypeOK
<1>2. items[i].amount >= 0
  BY <1>1 DEF IInv, RowsConsistent
<1>3. /\ row.coll = items[i].coll /\ row.user = items[i].user
      /\ row.amount = items[i].amount /\ row.status = s
      /\ row.reportedAt = b /\ row.confirmedAt = d
  BY <1>1 DEF Item
<1>4. items' = [items EXCEPT ![i] = row]
  BY DEF UpdatePaymentItemStatus
<1> HIDE DEF row
<1> QED BY <1>1, <1>2, <1>3, <1>4, InvUpdateItem DEF Updated

LEMMA InvVanished ==
  ASSUME IInv, TypeOK', NEW p \in Procs, Vanished(p),
         UNCHANGED <<rsvpYes, collections>>
  PROVE  IInv'
  BY AnsweredReads DEF Vanished

LEMMA InvItemWrites ==
  ASSUME IInv, TypeOK', NEW p \in Procs,
         \/ SetAmountWrite(p) \/ ReportWrite(p) \/ UnReportWrite(p)
         \/ ConfirmWrite(p) \/ UnConfirmWrite(p)
  PROVE  IInv'
<1> DEFINE r == req[p]
<1>0. r.reportedAt \in BOOLEAN /\ r.amount \in Int
  BY ItemInFlight DEF IInv
<1>1. CASE SetAmountWrite(p)
  <2>1. CASE Updated(p) /\ UpdatePaymentItemAmount(r.item, r.amount)
    <3> DEFINE i == r.item
               row == [items[i] EXCEPT !.amount = r.amount]
    <3>1. i \in DOMAIN items /\ items[i] \in Item
      BY <2>1 DEF Updated, IInv, TypeOK
    <3>2. r.amount >= 0
      BY <1>1 DEF IInv, InFlightSound, SetAmountWrite, Writing
    <3>3. /\ items[i].confirmedAt <=> items[i].status = "confirmed"
          /\ items[i].status = "open" => ~items[i].reportedAt
          /\ items[i].status = "reported" => items[i].reportedAt
      BY <3>1 DEF IInv, RowsConsistent
    <3>4. /\ row.coll = items[i].coll /\ row.user = items[i].user
          /\ row.amount = r.amount /\ row.status = items[i].status
          /\ row.reportedAt = items[i].reportedAt
          /\ row.confirmedAt = items[i].confirmedAt
      BY <3>1 DEF Item
    <3>5. items' = [items EXCEPT ![i] = row]
      BY <2>1 DEF UpdatePaymentItemAmount
    <3> HIDE DEF row
    <3> QED BY <1>1, <2>1, <3>1, <3>2, <3>3, <3>4, <3>5, InvUpdateItem
            DEF Updated, SetAmountWrite
  <2> QED BY <1>1, <2>1, InvVanished DEF SetAmountWrite
<1>2. CASE ReportWrite(p)
  BY <1>2, InvUpdateStatus, InvVanished DEF ReportWrite, Statuses
<1>3. CASE UnReportWrite(p)
  BY <1>3, InvUpdateStatus, InvVanished DEF UnReportWrite, Statuses
<1>4. CASE ConfirmWrite(p)
  BY <1>0, <1>4, InvUpdateStatus, InvVanished DEF ConfirmWrite, Statuses
<1>5. CASE UnConfirmWrite(p)
  <2> DEFINE s == IF r.reportedAt THEN "reported" ELSE "open"
  <2>1. s \in Statuses /\ s # "confirmed"
        /\ (s = "open" => ~r.reportedAt) /\ (s = "reported" => r.reportedAt)
    BY DEF Statuses
  <2>2. \/ Updated(p) /\ UpdatePaymentItemStatus(r.item, s, r.reportedAt, FALSE)
        \/ Vanished(p)
    BY <1>5 DEF UnConfirmWrite
  <2> HIDE DEF s
  <2> QED BY <1>0, <1>5, <2>1, <2>2, InvUpdateStatus, InvVanished DEF UnConfirmWrite
<1> QED BY <1>1, <1>2, <1>3, <1>4, <1>5

\* Reading statements in the middle of a request.
LEMMA InvAddItemCheck ==
  ASSUME IInv, TypeOK', NEW p \in Procs, AddItemCheck(p)
  PROVE  IInv'
<1> DEFINE r == req[p]
<1>1. r \in Request /\ r.pc = "check" /\ InFlightSound(r)
  BY DEF IInv, TypeOK, AddItemCheck
<1>2. InFlightSound([r EXCEPT !.pc = "write"])
  BY <1>1 DEF InFlightSound, Request, Privileged, ItemOps
<1> QED BY <1>1, <1>2, ProceedStep DEF AddItemCheck, PCs

LEMMA InvLoadItem ==
  ASSUME IInv, TypeOK', NEW p \in Procs, LoadItem(p)
  PROVE  IInv'
<1> DEFINE r == req[p]
           s == [r EXCEPT !.debtor = items[r.item].user,
                          !.reportedAt = items[r.item].reportedAt]
<1>1. r \in Request /\ r.pc = "item" /\ InFlightSound(r)
  BY DEF IInv, TypeOK, LoadItem
<1>2. CASE itemCheck(r) = "ok"
  <2>1. /\ r.item \in DOMAIN items /\ items[r.item].coll = r.coll
        /\ r.op \in ResponsibleOps => r.isResponsible
        /\ r.op \notin ResponsibleOps => items[r.item].user = r.user
        /\ r.amount >= 0
    BY <1>1, <1>2 DEF itemCheck, loadItemAsResponsible, loadOwnItem, loadItem, Request
  <2>2. items[r.item].user \in Users /\ items[r.item].reportedAt \in BOOLEAN
    BY <2>1 DEF IInv, TypeOK, Item
  <2>3. s \in Request
    BY <1>1, <2>2, FilledType
  <2>4. Proceed(p, s, "ok", "write")
    BY <1>2 DEF LoadItem
  <2>5. /\ s.op = r.op /\ s.user = r.user /\ s.concert = r.concert /\ s.coll = r.coll
        /\ s.isResponsible = r.isResponsible /\ s.amount = r.amount
        /\ s.item = r.item /\ s.debtor = items[r.item].user
    BY <1>1 DEF Request
  <2> HIDE DEF s
  <2>6. InFlightSound([s EXCEPT !.pc = "write"])
    BY <1>1, <2>1, <2>3, <2>5 DEF InFlightSound, Request, Privileged, ItemOps
  <2> QED BY <2>3, <2>4, <2>5, <2>6, ProceedStep DEF PCs, LoadItem
<1>3. CASE itemCheck(r) # "ok"
  BY <1>1, <1>3, ProceedStep DEF LoadItem, PCs
<1> QED BY <1>2, <1>3

\* An activation that takes the slot of its concert.
LEMMA InvActivateInsert ==
  ASSUME IInv, TypeOK', NEW p \in Procs, ActivateInsert(p)
  PROVE  IInv'
<1> DEFINE r == req[p]
           c == r.concert
<1>1. CASE Respond(p, "internal")
  BY <1>1, AnsweredReads DEF ActivateInsert
<1>2. CASE /\ ~Active(c)
           /\ \E k \in FreshColls :
                req' = [req EXCEPT ![p] = [r EXCEPT !.pc = "commit", !.coll = k,
                                             !.seed = ListYesRsvpUserIDs(c)]]
  <2>1. PICK k \in FreshColls :
          req' = [req EXCEPT ![p] = [r EXCEPT !.pc = "commit", !.coll = k,
                                       !.seed = ListYesRsvpUserIDs(c)]]
    BY <1>2
  <2>2. /\ r \in Request /\ r.pc = "insert" /\ InFlightSound(r)
        /\ c \in Concerts /\ r.amount >= 0
    BY DEF IInv, TypeOK, ActivateInsert, InFlightSound
  <2>3. k \in CollIds \ DOMAIN collections /\ \A q \in Procs : req[q].coll # k
    BY DEF FreshColls
  <2>4. UNCHANGED <<rsvpYes, collections, items>>
    BY DEF ActivateInsert
  <2>5. \A q \in Procs \ {p} : req'[q] = req[q]
    BY <2>1 DEF IInv, TypeOK
  <2>6. /\ req'[p].pc = "commit" /\ req'[p].coll = k /\ req'[p].concert = c
        /\ req'[p].seed = rsvpYes[c] /\ req'[p].user = r.user /\ req'[p].op = r.op
        /\ req'[p].amount = r.amount
    BY <2>1, <2>2 DEF IInv, TypeOK, Request, ListYesRsvpUserIDs
  <2>7. \A q \in Procs : InFlightSound(req[q])'
    <3> SUFFICES ASSUME NEW q \in Procs PROVE InFlightSound(req[q])'
      OBVIOUS
    <3>1. CASE q = p
      BY <2>2, <2>3, <2>4, <2>6, <3>1 DEF InFlightSound
    <3>2. CASE q # p
      BY <2>4, <2>5, <3>2, OthersSound
    <3> QED BY <3>1, <3>2
  <2>8. SlotsExclusive'
    <3>1. \A q \in Procs \ {p} : req[q].pc = "commit" => req[q].concert # c
      BY DEF ActivateInsert, HoldsUniqueSlot
    <3>2. ~Active(c)' /\ rsvpYes[c] \subseteq Members[c]
      BY <1>2, <2>2, <2>4 DEF Active, GetPaymentCollectionByConcert, IInv
    <3> SUFFICES ASSUME NEW q \in Procs, req'[q].pc = "commit"
                 PROVE /\ ~Active(req[q].concert)'
                       /\ req'[q].coll \in CollIds \ DOMAIN collections'
                       /\ req'[q].seed \subseteq Members[req'[q].concert]
                       /\ \A t \in Procs \ {q} :
                            /\ req'[t].coll # req'[q].coll
                            /\ req'[t].pc = "commit" => req'[t].concert # req'[q].concert
      BY DEF SlotsExclusive
    <3>4. CASE q = p
      <4>1. ~Active(req[q].concert)'
        BY <2>4, <2>6, <3>2, <3>4 DEF Active, GetPaymentCollectionByConcert
      <4> QED BY <2>3, <2>4, <2>5, <2>6, <3>1, <3>2, <3>4, <4>1
    <3>5. CASE q # p
      <4>1. req'[q] = req[q] /\ req[q].pc = "commit"
        BY <2>5, <3>5
      <4>2. ~Active(req[q].concert)'
        BY <2>4, <4>1
           DEF Active, GetPaymentCollectionByConcert, IInv, SlotsExclusive
      <4> QED BY <2>3, <2>4, <2>5, <2>6, <3>1, <4>1, <4>2 DEF IInv, SlotsExclusive
    <3> QED BY <3>4, <3>5
  <2> QED BY <2>4, <2>7, <2>8
          DEF IInv, OneCollectionPerConcert, ItemsBelong, RowsConsistent
<1> QED BY <1>1, <1>2 DEF ActivateInsert

\* The commit of an activation.
LEMMA InvActivateCommit ==
  ASSUME IInv, TypeOK', NEW p \in Procs, ActivateCommit(p)
  PROVE  IInv'
<1> DEFINE r == req[p]
           k == r.coll
<1>1. /\ r \in Request /\ r.pc = "commit" /\ ~Active(r.concert)
      /\ k \in CollIds \ DOMAIN collections /\ r.amount >= 0
      /\ r.seed \subseteq Members[r.concert]
      /\ \A q \in Procs \ {p} :
           /\ req[q].coll # k
           /\ req[q].pc = "commit" => req[q].concert # r.concert
  BY DEF IInv, TypeOK, SlotsExclusive, InFlightSound, ActivateCommit
<1>2. PICK I \in SUBSET FreshItems : \E debtor \in Bijection(I, r.seed) :
        items' = [i \in DOMAIN items \cup I |->
                    IF i \in I THEN CreatePaymentItem(k, debtor[i], r.amount)
                               ELSE items[i]]
  BY DEF ActivateCommit
<1>3. PICK debtor \in [I -> r.seed] :
        /\ \A i, j \in I : debtor[i] = debtor[j] => i = j
        /\ items' = [i \in DOMAIN items \cup I |->
                       IF i \in I THEN CreatePaymentItem(k, debtor[i], r.amount)
                                  ELSE items[i]]
  BY <1>2 DEF Bijection, Injection, IsInjective
<1>4. I \cap DOMAIN items = {} /\ \A q \in Procs : req[q].item \notin I
  BY DEF FreshItems
<1>5. /\ \A i \in I : /\ i \in DOMAIN items' /\ items'[i].coll = k
                      /\ items'[i].user = debtor[i] /\ items'[i].amount = r.amount
                      /\ items'[i].status = "open" /\ ~items'[i].reportedAt
                      /\ ~items'[i].confirmedAt
      /\ \A i \in DOMAIN items : i \in DOMAIN items' /\ items'[i] = items[i]
      /\ DOMAIN items' = DOMAIN items \cup I
  BY <1>3, <1>4 DEF CreatePaymentItem
<1>6. /\ DOMAIN collections' = DOMAIN collections \cup {k}
      /\ collections'[k].concert = r.concert /\ collections'[k].responsible = r.user
      /\ collections'[k].default = r.amount
      /\ \A j \in DOMAIN collections : collections'[j] = collections[j]
  BY <1>1 DEF ActivateCommit, CreatePaymentCollection
<1>7. req'[p] = Answered("ok") /\ \A q \in Procs \ {p} : req'[q] = req[q]
  BY DEF ActivateCommit, Respond, IInv, TypeOK
<1>8. req'[p].pc = "idle" /\ req'[p].coll = Nil /\ InFlightSound(req[p])'
  BY <1>7, AnsweredSound
<1>9. \A q \in Procs : InFlightSound(req[q])'
  <2> SUFFICES ASSUME NEW q \in Procs, q # p PROVE InFlightSound(req[q])'
    BY <1>8
  <2>1. req'[q] = req[q]
    BY <1>7
  <2> QED BY <1>1, <1>4, <1>5, <1>6, <2>1, OthersSound
<1>10. SlotsExclusive'
  <2> SUFFICES ASSUME NEW q \in Procs, req'[q].pc = "commit"
               PROVE /\ ~Active(req[q].concert)'
                     /\ req'[q].coll \in CollIds \ DOMAIN collections'
                     /\ req'[q].seed \subseteq Members[req'[q].concert]
                     /\ \A t \in Procs \ {q} :
                          /\ req'[t].coll # req'[q].coll
                          /\ req'[t].pc = "commit" => req'[t].concert # req'[q].concert
    BY DEF SlotsExclusive
  <2>1. q # p /\ req'[q] = req[q] /\ req[q].pc = "commit"
    BY <1>7, <1>8
  <2>2. /\ ~Active(req[q].concert)
        /\ req[q].coll \in CollIds \ DOMAIN collections
        /\ req[q].seed \subseteq Members[req[q].concert]
        /\ \A t \in Procs \ {q} :
             /\ req[t].coll # req[q].coll
             /\ req[t].pc = "commit" => req[t].concert # req[q].concert
    BY <2>1 DEF IInv, SlotsExclusive
  <2>3. ~Active(req[q].concert)'
    BY <1>1, <1>6, <2>1, <2>2 DEF Active, GetPaymentCollectionByConcert
  <2>4. req'[p].coll # req'[q].coll
    BY <1>8, <2>1, <2>2, NilAssumption
  <2> QED BY <1>1, <1>6, <1>7, <1>8, <2>1, <2>2, <2>3, <2>4
<1>11. OneCollectionPerConcert'
  BY <1>1, <1>6 DEF IInv, OneCollectionPerConcert, Active, GetPaymentCollectionByConcert
<1>12. ItemsBelong'
  <2>1. \A i \in DOMAIN items : items[i].coll \in DOMAIN collections
    BY DEF IInv, ItemsBelong
  <2>2. \A i \in DOMAIN items' :
          /\ items'[i].coll \in DOMAIN collections'
          /\ items'[i].user \in Members[collections'[items'[i].coll].concert]
    <3> SUFFICES ASSUME NEW i \in DOMAIN items'
                 PROVE /\ items'[i].coll \in DOMAIN collections'
                       /\ items'[i].user \in Members[collections'[items'[i].coll].concert]
      OBVIOUS
    <3>1. CASE i \in I
      BY <1>1, <1>3, <1>5, <1>6, <3>1
    <3>2. CASE i \in DOMAIN items
      BY <1>5, <1>6, <3>2 DEF IInv, ItemsBelong
    <3> QED BY <1>5, <3>1, <3>2
  <2>3. \A i, j \in DOMAIN items' :
          items'[i].coll = items'[j].coll /\ items'[i].user = items'[j].user => i = j
    <3> SUFFICES ASSUME NEW i \in DOMAIN items', NEW j \in DOMAIN items',
                        items'[i].coll = items'[j].coll,
                        items'[i].user = items'[j].user
                 PROVE i = j
      OBVIOUS
    <3>1. CASE i \in I /\ j \in I
      BY <1>3, <1>5, <3>1
    <3>2. CASE i \in DOMAIN items /\ j \in DOMAIN items
      BY <1>5, <3>2 DEF IInv, ItemsBelong
    <3>3. CASE i \in I /\ j \in DOMAIN items
      BY <1>1, <1>5, <2>1, <3>3
    <3>4. CASE i \in DOMAIN items /\ j \in I
      BY <1>1, <1>5, <2>1, <3>4
    <3>5. i \in DOMAIN items \cup I /\ j \in DOMAIN items \cup I
      BY <1>5
    <3> QED BY <3>1, <3>2, <3>3, <3>4, <3>5
  <2> QED BY <2>2, <2>3 DEF ItemsBelong
<1>13. RowsConsistent'
  BY <1>1, <1>5 DEF IInv, RowsConsistent
<1>14. \A j \in DOMAIN collections' : collections'[j].default >= 0
  BY <1>1, <1>6 DEF IInv
<1>15. \A c \in Concerts : rsvpYes'[c] \subseteq Members[c]
  BY DEF IInv, ActivateCommit
<1> QED BY <1>9, <1>10, <1>11, <1>12, <1>13, <1>14, <1>15 DEF IInv

\* AddItem inserts its row, or is refused by a constraint.
LEMMA InvAddItemWrite ==
  ASSUME IInv, TypeOK', NEW p \in Procs, AddItemWrite(p)
  PROVE  IInv'
<1> DEFINE r == req[p]
           k == r.coll
<1>1. CASE Respond(p, "internal") /\ UNCHANGED items
  BY <1>1, AnsweredReads DEF AddItemWrite
<1>2. CASE /\ k \in DOMAIN collections
           /\ GetPaymentItemForUser(k, r.debtor) = {}
           /\ \E i \in FreshItems :
                items' = [j \in DOMAIN items \cup {i} |->
                            IF j = i THEN CreatePaymentItem(k, r.debtor, r.amount)
                                     ELSE items[j]]
           /\ req' = [req EXCEPT ![p].pc = "reread"]
  <2>1. /\ r \in Request /\ r.pc = "write" /\ r.op = "AddItem" /\ InFlightSound(r)
        /\ UNCHANGED <<rsvpYes, collections>>
    BY DEF IInv, TypeOK, AddItemWrite
  <2>2. /\ r.amount >= 0 /\ r.debtor \in Members[r.concert]
        /\ collections[k].concert = r.concert
    BY <1>2, <2>1 DEF InFlightSound
  <2>3. PICK i \in FreshItems :
          items' = [j \in DOMAIN items \cup {i} |->
                      IF j = i THEN CreatePaymentItem(k, r.debtor, r.amount)
                               ELSE items[j]]
    BY <1>2
  <2>4. i \notin DOMAIN items /\ \A q \in Procs : req[q].item # i
    BY DEF FreshItems
  <2>5. /\ DOMAIN items' = DOMAIN items \cup {i}
        /\ items'[i].coll = k /\ items'[i].user = r.debtor /\ items'[i].amount = r.amount
        /\ items'[i].status = "open" /\ ~items'[i].reportedAt /\ ~items'[i].confirmedAt
        /\ \A j \in DOMAIN items : items'[j] = items[j]
    BY <2>3, <2>4 DEF CreatePaymentItem
  <2>6. /\ \A q \in Procs \ {p} : req'[q] = req[q]
        /\ req'[p] = [r EXCEPT !.pc = "reread"]
    BY <1>2 DEF IInv, TypeOK
  <2>7. /\ req'[p].pc = "reread" /\ req'[p].op = "AddItem" /\ req'[p].coll = k
        /\ req'[p].concert = r.concert /\ req'[p].user = r.user
        /\ req'[p].isResponsible = r.isResponsible
    BY <2>1, <2>6 DEF Request
  <2>8. \A q \in Procs : InFlightSound(req[q])'
    <3> SUFFICES ASSUME NEW q \in Procs PROVE InFlightSound(req[q])'
      OBVIOUS
    <3>1. CASE q = p
      BY <2>1, <2>7, <3>1 DEF InFlightSound, Privileged
    <3>2. CASE q # p
      BY <2>1, <2>4, <2>5, <2>6, <3>2, OthersSound
    <3> QED BY <3>1, <3>2
  <2>9. SlotsExclusive'
    <3> SUFFICES ASSUME NEW q \in Procs, req'[q].pc = "commit"
                 PROVE /\ ~Active(req[q].concert)'
                       /\ req'[q].coll \in CollIds \ DOMAIN collections'
                       /\ req'[q].seed \subseteq Members[req'[q].concert]
                       /\ \A t \in Procs \ {q} :
                            /\ req'[t].coll # req'[q].coll
                            /\ req'[t].pc = "commit" => req'[t].concert # req'[q].concert
      BY DEF SlotsExclusive
    <3>1. q # p /\ req'[q] = req[q]
      BY <2>6, <2>7
    <3>2. ~Active(req[q].concert)'
      BY <2>1, <3>1 DEF Active, GetPaymentCollectionByConcert, IInv, SlotsExclusive
    <3>3. /\ req[q].coll \in CollIds \ DOMAIN collections
          /\ req[q].seed \subseteq Members[req[q].concert]
          /\ \A t \in Procs \ {q} :
               /\ req[t].coll # req[q].coll
               /\ req[t].pc = "commit" => req[t].concert # req[q].concert
      BY <3>1 DEF IInv, SlotsExclusive
    <3>4. req'[p].coll # req'[q].coll
      BY <2>7, <3>1, <3>3
    <3>5. \A t \in Procs \ {q} :
            /\ req'[t].coll # req'[q].coll
            /\ req'[t].pc = "commit" => req'[t].concert # req'[q].concert
      BY <2>6, <2>7, <3>1, <3>3, <3>4
    <3> QED BY <2>1, <3>1, <3>2, <3>3, <3>5
  <2>10. ItemsBelong'
    <3>1. \A j \in DOMAIN items : ~(items[j].coll = k /\ items[j].user = r.debtor)
      BY <1>2 DEF GetPaymentItemForUser
    <3>2. \A j \in DOMAIN items' :
            /\ items'[j].coll \in DOMAIN collections'
            /\ items'[j].user \in Members[collections'[items'[j].coll].concert]
      <4>1. items'[i].coll \in DOMAIN collections'
        BY <1>2, <2>1, <2>5
      <4>2. items'[i].user \in Members[collections'[items'[i].coll].concert]
        BY <2>1, <2>2, <2>5
      <4>3. \A j \in DOMAIN items :
              /\ items'[j].coll \in DOMAIN collections'
              /\ items'[j].user \in Members[collections'[items'[j].coll].concert]
        BY <2>1, <2>5 DEF IInv, ItemsBelong
      <4> QED BY <2>5, <4>1, <4>2, <4>3
    <3>3. \A j \in DOMAIN items :
            ~(items'[j].coll = items'[i].coll /\ items'[j].user = items'[i].user)
      BY <2>5, <3>1
    <3>4. \A j, h \in DOMAIN items' :
            items'[j].coll = items'[h].coll /\ items'[j].user = items'[h].user => j = h
      <4> SUFFICES ASSUME NEW j \in DOMAIN items', NEW h \in DOMAIN items',
                          items'[j].coll = items'[h].coll,
                          items'[j].user = items'[h].user
                   PROVE j = h
        OBVIOUS
      <4>1. j \in DOMAIN items \cup {i} /\ h \in DOMAIN items \cup {i}
        BY <2>5
      <4>2. CASE j = i \/ h = i
        BY <3>3, <4>1, <4>2
      <4>3. CASE j \in DOMAIN items /\ h \in DOMAIN items
        BY <2>5, <4>3 DEF IInv, ItemsBelong
      <4> QED BY <4>1, <4>2, <4>3
    <3> QED BY <3>2, <3>4 DEF ItemsBelong
  <2>11. RowsConsistent'
    BY <2>2, <2>5 DEF IInv, RowsConsistent
  <2> QED BY <2>1, <2>8, <2>9, <2>10, <2>11 DEF IInv, OneCollectionPerConcert
<1> QED BY <1>1, <1>2 DEF AddItemWrite

\* The statements that only remove rows, or touch a column no one relies on.
LEMMA InvRemovals ==
  ASSUME IInv, TypeOK', NEW p \in Procs,
         DeactivateWrite(p) \/ SetPaymentLinkWrite(p) \/ RemoveItemWrite(p)
  PROVE  IInv'
<1>1. CASE DeactivateWrite(p)
  <2>1. KeepsCollections /\ KeepsItems
    BY <1>1 DEF DeactivateWrite, DeletePaymentCollection, Restrict, KeepsCollections,
                KeepsItems, ListPaymentItems, IInv, ItemsBelong
  <2>2. RowsConsistent'
    BY <1>1 DEF DeactivateWrite, DeletePaymentCollection, Restrict, IInv, RowsConsistent
  <2> QED BY <1>1, <2>1, <2>2, AnswerStep DEF DeactivateWrite
<1>2. CASE SetPaymentLinkWrite(p)
  <2>1. CASE UNCHANGED collections
    BY <1>2, <2>1, AnsweredReads DEF SetPaymentLinkWrite
  <2>2. CASE /\ req[p].coll \in DOMAIN collections
             /\ UpdatePaymentCollectionLink(req[p].coll, req[p].link)
             /\ Respond(p, "ok")
    <3>1. \A k \in DOMAIN collections : collections[k] \in Collection
      BY DEF IInv, TypeOK
    <3>2. KeepsCollections
      BY <2>2, <3>1 DEF UpdatePaymentCollectionLink, KeepsCollections, Collection
    <3>3. DOMAIN collections' = DOMAIN collections /\ UNCHANGED items
      BY <1>2, <2>2 DEF UpdatePaymentCollectionLink, SetPaymentLinkWrite
    <3>4. KeepsItems /\ RowsConsistent'
      BY <3>3 DEF KeepsItems, IInv, ItemsBelong, RowsConsistent
    <3> QED BY <1>2, <2>2, <3>2, <3>4, AnswerStep DEF SetPaymentLinkWrite
  <2> QED BY <1>2, <2>1, <2>2 DEF SetPaymentLinkWrite
<1>3. CASE RemoveItemWrite(p)
  <2>1. KeepsCollections /\ KeepsItems
    BY <1>3 DEF RemoveItemWrite, DeletePaymentItem, Restrict, KeepsCollections,
                KeepsItems, IInv, ItemsBelong
  <2>2. RowsConsistent'
    BY <1>3 DEF RemoveItemWrite, DeletePaymentItem, Restrict, IInv, RowsConsistent
  <2> QED BY <1>3, <2>1, <2>2, AnswerStep DEF RemoveItemWrite
<1> QED BY <1>1, <1>2, <1>3

LEMMA InvStatement ==
  ASSUME IInv, TypeOK', NEW p \in Procs, Statement(p)
  PROVE  IInv'
<1>1. CASE GetItems(p)
  <2> DEFINE seen == IF req[p].isResponsible THEN ListPaymentItems(req[p].coll)
                     ELSE GetPaymentItemForUser(req[p].coll, req[p].user)
             r == [Answered("ok") EXCEPT !.seen = seen]
  <2>1. /\ req' = [req EXCEPT ![p] = r]
        /\ UNCHANGED <<rsvpYes, collections, items>>
    BY <1>1 DEF GetItems
  <2>2. r.pc = "idle" /\ r.coll = Nil
    BY DEF Answered, Blank
  <2>3. InFlightSound(r)
    BY <2>2, NilAssumption DEF InFlightSound, IInv, TypeOK
  <2> HIDE DEF r
  <2> QED BY <2>1, <2>2, <2>3, ReadStep
<1>2. CASE AddItemReread(p)
  BY <1>2, AnsweredReads DEF AddItemReread
<1> QED BY <1>1, <1>2, InvActivateInsert, InvActivateCommit, InvAddItemCheck,
           InvAddItemWrite, InvRemovals, InvLoadItem, InvItemWrites DEF Statement

LEMMA InvInit == Init => IInv
<1> SUFFICES ASSUME Init PROVE IInv
  OBVIOUS
<1>1. \A p \in Procs : req[p] = Blank
  BY DEF Init
<1>2. \A p \in Procs : req[p].pc = "idle" /\ req[p].coll = Nil
  BY <1>1 DEF Blank
<1>3. DOMAIN collections = {} /\ DOMAIN items = {}
  BY DEF Init
<1>4. \A p \in Procs : InFlightSound(req[p])
  BY <1>2, <1>3 DEF InFlightSound
<1>5. SlotsExclusive
  BY <1>2 DEF SlotsExclusive
<1>6. \A c \in Concerts : rsvpYes[c] \subseteq Members[c]
  BY DEF Init
<1> QED BY <1>3, <1>4, <1>5, <1>6, TypeInit
        DEF IInv, OneCollectionPerConcert, ItemsBelong, RowsConsistent

LEMMA InvNext == IInv /\ [Next]_vars => IInv'
<1> SUFFICES ASSUME IInv, [Next]_vars PROVE IInv'
  OBVIOUS
<1>1. TypeOK'
  BY TypeNext
<1>2. ASSUME NEW p \in Procs, Abort(p) PROVE IInv'
  BY <1>1, <1>2, AnsweredReads DEF Abort
<1>3. ASSUME NEW c \in Concerts, NEW u \in Users, UpsertRSVP(c, u) PROVE IInv'
  <2>1. UNCHANGED <<collections, items, req>>
    BY <1>3 DEF UpsertRSVP
  <2>2. \A d \in Concerts : rsvpYes'[d] \subseteq Members[d]
    BY <1>3 DEF UpsertRSVP, IInv, TypeOK
  <2>3. \A p \in Procs : InFlightSound(req[p])'
    BY <2>1 DEF IInv, InFlightSound, Privileged
  <2>4. SlotsExclusive'
    BY <2>1 DEF IInv, SlotsExclusive, Active, GetPaymentCollectionByConcert
  <2> QED BY <1>1, <2>1, <2>2, <2>3, <2>4
          DEF IInv, OneCollectionPerConcert, ItemsBelong, RowsConsistent
<1>4. CASE UNCHANGED vars
  <2>1. \A p \in Procs : InFlightSound(req[p])'
    BY <1>4 DEF vars, IInv, InFlightSound, Privileged
  <2>2. SlotsExclusive'
    BY <1>4 DEF vars, IInv, SlotsExclusive, Active, GetPaymentCollectionByConcert
  <2> QED BY <1>1, <1>4, <2>1, <2>2
          DEF vars, IInv, OneCollectionPerConcert, ItemsBelong, RowsConsistent
<1> QED BY <1>1, <1>2, <1>3, <1>4, InvReceive, InvStatement DEF Next

THEOREM InvariantHolds == Spec => []IInv
  BY InvInit, InvNext, PTL DEF Spec

\* The rows and the requests in flight always have the type their Go structs give
\* them.
THEOREM TypeCorrect == Spec => []TypeOK
<1>1. IInv => TypeOK
  BY DEF IInv
<1> QED BY <1>1, InvariantHolds, PTL

\* However activations race, no concert ever has two collections.
THEOREM ActivationExclusive == Spec => []OneCollectionPerConcert
<1>1. IInv => OneCollectionPerConcert
  BY DEF IInv
<1> QED BY <1>1, InvariantHolds, PTL

\* No item outlives its collection, is charged to a stranger, or charged twice.
THEOREM ItemsAlwaysBelong == Spec => []ItemsBelong
<1>1. IInv => ItemsBelong
  BY DEF IInv
<1> QED BY <1>1, InvariantHolds, PTL

\* Statuses and audit timestamps agree, whatever stale values were written back.
THEOREM RowsAlwaysConsistent == Spec => []RowsConsistent
<1>1. IInv => RowsConsistent
  BY DEF IInv
<1> QED BY <1>1, InvariantHolds, PTL

--------------------------------------------------------------------------------
(* Authority at the moment of the write *)

\* What a write on an item found at load time still holds when it happens.
LEMMA WriterEntitled ==
  ASSUME IInv, NEW p \in Procs, req[p].pc = "write", req[p].op \in ItemOps,
         req[p].item \in DOMAIN items
  PROVE  LET i == req[p].item IN
         /\ req[p].op \in ResponsibleOps => req[p].user = ResponsibleFor(i)
         /\ req[p].op \notin ResponsibleOps => req[p].user = items[i].user
<1> DEFINE r == req[p]
           i == r.item
<1>1. InFlightSound(r)
  BY DEF IInv
<1>2. items[i].coll = r.coll /\ items[i].user = r.debtor
  BY <1>1 DEF InFlightSound
<1>3. r.coll \in DOMAIN collections
  BY <1>2 DEF IInv, ItemsBelong
<1>4. r.isResponsible => collections[r.coll].responsible = r.user
  BY <1>1, <1>3 DEF InFlightSound, Privileged
<1> QED BY <1>1, <1>2, <1>4 DEF InFlightSound, ResponsibleFor

\* Answering is a step of the request.
LEMMA RespondTakes ==
  ASSUME IInv, NEW p \in Procs, NEW code, Respond(p, code), req[p].pc # "idle"
  PROVE  Took(p)
  BY DEF Respond, Answered, Blank, Took, IInv, TypeOK

LEMMA OnlyItemWritesChangeItems ==
  ASSUME IInv, NEW p \in Procs, Receive(p) \/ Statement(p) \/ Abort(p),
         NEW i \in DOMAIN items \cap DOMAIN items', items'[i] # items[i]
  PROVE  /\ i = req[p].item /\ Took(p) /\ req[p].pc = "write" /\ req[p].op \in ItemOps
         /\ req[p].op \notin ResponsibleOps =>
              items'[i].amount = items[i].amount /\ items'[i].status # "confirmed"
<1>1. ASSUME UNCHANGED items PROVE FALSE
  BY <1>1
<1>2. CASE Receive(p)
  BY <1>1, <1>2 DEF Receive, Activate, Get, AddItem, Deactivate, SetPaymentLink,
       CollectionOp, SetAmount, RemoveItem, transition, ItemOp
<1>3. CASE Abort(p) \/ ActivateInsert(p) \/ GetItems(p) \/ AddItemCheck(p)
           \/ AddItemReread(p) \/ SetPaymentLinkWrite(p) \/ LoadItem(p)
  BY <1>1, <1>3 DEF Abort, ActivateInsert, GetItems, AddItemCheck, AddItemReread,
       SetPaymentLinkWrite, LoadItem
<1>4. CASE ActivateCommit(p) \/ AddItemWrite(p)
  <2>1. items'[i] = items[i]
    BY <1>4 DEF ActivateCommit, AddItemWrite, FreshItems
  <2> QED BY <2>1
<1>5. CASE DeactivateWrite(p) \/ RemoveItemWrite(p)
  <2>1. items'[i] = items[i]
    BY <1>5 DEF DeactivateWrite, RemoveItemWrite, DeletePaymentCollection,
                DeletePaymentItem, Restrict
  <2> QED BY <2>1
<1>6. ASSUME Updated(p), req[p].pc = "write" PROVE Took(p)
  BY <1>6, RespondTakes DEF Updated
<1>7. CASE SetAmountWrite(p)
  BY <1>1, <1>6, <1>7 DEF SetAmountWrite, Writing, Updated, Vanished,
       UpdatePaymentItemAmount, ItemOps, ResponsibleOps
<1>8. CASE ReportWrite(p) \/ UnReportWrite(p)
  <2>1. PICK s \in {"reported", "open"}, b \in BOOLEAN :
          Updated(p) /\ UpdatePaymentItemStatus(req[p].item, s, b, FALSE)
    BY <1>1, <1>8 DEF ReportWrite, UnReportWrite, Vanished
  <2>2. i = req[p].item
    BY <2>1 DEF UpdatePaymentItemStatus
  <2>3. items[i] \in Item
    BY DEF IInv, TypeOK
  <2>4. items'[i].amount = items[i].amount /\ items'[i].status = s
    BY <2>1, <2>2, <2>3 DEF UpdatePaymentItemStatus, Item
  <2>5. req[p].pc = "write" /\ req[p].op \in {"Report", "UnReport"}
    BY <1>8 DEF ReportWrite, UnReportWrite, Writing
  <2> QED BY <1>6, <2>1, <2>2, <2>4, <2>5 DEF ItemOps
<1>9. CASE ConfirmWrite(p) \/ UnConfirmWrite(p)
  <2>1. req[p].pc = "write" /\ req[p].op \in {"Confirm", "UnConfirm"}
    BY <1>9 DEF ConfirmWrite, UnConfirmWrite, Writing
  <2>2. Updated(p) /\ i = req[p].item
    BY <1>1, <1>9 DEF ConfirmWrite, UnConfirmWrite, Vanished, UpdatePaymentItemStatus
  <2> QED BY <1>6, <2>1, <2>2 DEF ItemOps, ResponsibleOps
<1> QED BY <1>2, <1>3, <1>4, <1>5, <1>7, <1>8, <1>9 DEF Statement

\* Every write of an item is made by someone entitled to it at that moment,
\* although the checks were made on a state that may be gone.
THEOREM WritesAlwaysAuthorised == Spec => WritesAuthorised
<1>1. ASSUME IInv, [Next]_vars PROVE [AuthorisedWrites]_vars
  <2>1. ASSUME NEW p \in Procs, Receive(p) \/ Statement(p) \/ Abort(p)
        PROVE  AuthorisedWrites
    <3> SUFFICES ASSUME NEW i \in DOMAIN items \cap DOMAIN items', items'[i] # items[i]
                 PROVE \E q \in Procs : Took(q) /\ AuthorisedWrite(i, q)
      BY DEF AuthorisedWrites
    <3>1. /\ i = req[p].item /\ Took(p) /\ req[p].pc = "write" /\ req[p].op \in ItemOps
          /\ req[p].op \notin ResponsibleOps =>
               items'[i].amount = items[i].amount /\ items'[i].status # "confirmed"
      BY <1>1, <2>1, OnlyItemWritesChangeItems
    <3>2. AuthorisedWrite(i, p)
      BY <1>1, <3>1, WriterEntitled DEF AuthorisedWrite
    <3> QED BY <3>1, <3>2
  <2>2. ASSUME NEW c \in Concerts, NEW u \in Users, UpsertRSVP(c, u)
        PROVE  AuthorisedWrites
    BY <2>2 DEF UpsertRSVP, AuthorisedWrites
  <2> QED BY <1>1, <2>1, <2>2 DEF Next
<1> QED BY <1>1, InvariantHolds, PTL DEF Spec, WritesAuthorised

\* A step of a request touches no other request.
LEMMA RequestMoves ==
  ASSUME IInv, NEW p \in Procs, Receive(p) \/ Statement(p) \/ Abort(p)
  PROVE  OnlyMoves(p)
<1>1. ASSUME NEW r, req' = [req EXCEPT ![p] = r] PROVE OnlyMoves(p)
  BY <1>1 DEF OnlyMoves, IInv, TypeOK
<1>2. ASSUME NEW code, Respond(p, code) PROVE OnlyMoves(p)
  BY <1>1, <1>2 DEF Respond
<1>3. ASSUME NEW r, NEW code, NEW next, Proceed(p, r, code, next) PROVE OnlyMoves(p)
  BY <1>1, <1>3 DEF Proceed
<1>4. CASE Receive(p)
  <2>1. CASE Activate(p)
    BY <1>3, <2>1 DEF Activate
  <2>2. CASE Get(p)
    BY <1>3, <2>2 DEF Get
  <2>3. CASE AddItem(p)
    <3>1. \E r, code : Proceed(p, r, code, "check")
      BY <2>3 DEF AddItem
    <3> QED BY <1>3, <3>1
  <2>4. CASE Deactivate(p) \/ SetPaymentLink(p)
    BY <1>3, <2>4 DEF Deactivate, SetPaymentLink, CollectionOp
  <2>5. CASE SetAmount(p) \/ RemoveItem(p) \/ transition(p)
    BY <1>3, <2>5 DEF SetAmount, RemoveItem, transition, ItemOp
  <2> QED BY <1>4, <2>1, <2>2, <2>3, <2>4, <2>5 DEF Receive
<1>5. CASE Statement(p)
  <2>1. CASE ActivateInsert(p)
    BY <1>1, <1>2, <2>1 DEF ActivateInsert
  <2>2. CASE ActivateCommit(p) \/ AddItemReread(p) \/ DeactivateWrite(p)
             \/ SetPaymentLinkWrite(p) \/ RemoveItemWrite(p)
    BY <1>2, <2>2 DEF ActivateCommit, AddItemReread, DeactivateWrite,
                      SetPaymentLinkWrite, RemoveItemWrite
  <2>3. CASE GetItems(p)
    BY <1>1, <2>3 DEF GetItems
  <2>4. CASE AddItemCheck(p) \/ LoadItem(p)
    BY <1>3, <2>4 DEF AddItemCheck, LoadItem
  <2>5. CASE AddItemWrite(p)
    BY <1>1, <1>2, <2>5 DEF AddItemWrite
  <2>6. CASE \/ SetAmountWrite(p) \/ ReportWrite(p) \/ UnReportWrite(p)
             \/ ConfirmWrite(p) \/ UnConfirmWrite(p)
    BY <1>2, <2>6 DEF SetAmountWrite, ReportWrite, UnReportWrite, ConfirmWrite,
                      UnConfirmWrite, Updated, Vanished
  <2> QED BY <1>5, <2>1, <2>2, <2>3, <2>4, <2>5, <2>6 DEF Statement
<1>6. CASE Abort(p)
  BY <1>2, <1>6 DEF Abort
<1> QED BY <1>4, <1>5, <1>6

\* No collection and no item is removed by anyone but its own responsible.
THEOREM DeletesAlwaysAuthorised == Spec => DeletesAuthorised
<1>1. ASSUME IInv, [Next]_vars PROVE [AuthorisedDeletes]_vars
  <2>1. ASSUME NEW p \in Procs, Receive(p) \/ Statement(p) \/ Abort(p)
        PROVE  AuthorisedDeletes
    <3>1. \A q \in Procs : Took(q) => q = p
      <4>1. OnlyMoves(p)
        BY <1>1, <2>1, RequestMoves
      <4> QED BY <4>1 DEF OnlyMoves, Took
    <3>2. /\ \A k \in DOMAIN collections \ DOMAIN collections' :
               collections[k].responsible = req[p].user
          /\ \A i \in DOMAIN items \ DOMAIN items' : ResponsibleFor(i) = req[p].user
      <4>1. CASE DeactivateWrite(p)
        <5>1. InFlightSound(req[p]) /\ Privileged(req[p])
          BY <1>1, <4>1 DEF IInv, DeactivateWrite, Privileged
        <5> QED BY <1>1, <4>1, <5>1 DEF DeactivateWrite, DeletePaymentCollection, Restrict,
              ListPaymentItems, ResponsibleFor, IInv, ItemsBelong, InFlightSound
      <4>2. CASE RemoveItemWrite(p)
        <5>1. UNCHANGED collections /\ DOMAIN items \ DOMAIN items' \subseteq {req[p].item}
          BY <4>2 DEF RemoveItemWrite, DeletePaymentItem, Restrict
        <5>2. /\ req[p].pc = "write" /\ req[p].op \in ItemOps
              /\ req[p].op \in ResponsibleOps
          BY <4>2 DEF RemoveItemWrite, Writing, ItemOps, ResponsibleOps
        <5> QED BY <1>1, <5>1, <5>2, WriterEntitled
      <4>3. CASE ~DeactivateWrite(p) /\ ~RemoveItemWrite(p)
        <5>1. DOMAIN collections \subseteq DOMAIN collections'
          BY <2>1, <4>3 DEF Receive, Activate, Get, AddItem,
             Deactivate, SetPaymentLink, CollectionOp, SetAmount, RemoveItem, transition,
             ItemOp, Statement, ActivateInsert, ActivateCommit, CreatePaymentCollection,
             GetItems, AddItemCheck, AddItemWrite, AddItemReread,
             SetPaymentLinkWrite, UpdatePaymentCollectionLink, LoadItem, SetAmountWrite,
             ReportWrite, UnReportWrite, ConfirmWrite, UnConfirmWrite, Abort
        <5>2. DOMAIN items \subseteq DOMAIN items'
          BY <2>1, <4>3 DEF Receive, Activate, Get, AddItem,
             Deactivate, SetPaymentLink, CollectionOp, SetAmount, RemoveItem, transition,
             ItemOp, Statement, ActivateInsert, ActivateCommit,
             GetItems, AddItemCheck, AddItemWrite, AddItemReread,
             SetPaymentLinkWrite, LoadItem, SetAmountWrite, UpdatePaymentItemAmount,
             ReportWrite, UnReportWrite, ConfirmWrite, UnConfirmWrite,
             UpdatePaymentItemStatus, Vanished, Abort
        <5> QED BY <5>1, <5>2
      <4> QED BY <4>1, <4>2, <4>3
    <3> QED BY <3>1, <3>2 DEF AuthorisedDeletes
  <2>2. ASSUME NEW c \in Concerts, NEW u \in Users, UpsertRSVP(c, u)
        PROVE  AuthorisedDeletes
    BY <2>2 DEF UpsertRSVP, AuthorisedDeletes
  <2>3. CASE UNCHANGED vars
    BY <2>3 DEF vars
  <2> QED BY <1>1, <2>1, <2>2, <2>3 DEF Next
<1> QED BY <1>1, InvariantHolds, PTL DEF Spec, DeletesAuthorised

================================================================================
