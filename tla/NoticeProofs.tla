------------------------------ MODULE NoticeProofs -------------------------------
(***************************************************************************)
(* Theorems about who is told in Coordination, for any sets of users,      *)
(* groups, codes, concerts and goroutines.                                 *)
(***************************************************************************)
EXTENDS CoordinationProofs

\* What has been recorded stays recorded.
Grows ==
  notifications \subseteq notifications' /\ overlapped \subseteq overlapped'
  /\ late \subseteq late'

LEMMA ToldStays ==
  ASSUME Grows, NEW type, NEW c, NEW u, NEW v
  PROVE  Told(type, c, u, v) => Told(type, c, u, v)'
  BY DEF Grows, Told, Tell

LEMMA InformedStays ==
  ASSUME Grows, NEW c, NEW u, NEW v
  PROVE  Informed(c, u, v) => Informed(c, u, v)'
  BY ToldStays DEF Grows, Informed

\* Being informed is mutual.
LEMMA InformedBoth ==
  ASSUME NEW c, NEW u, NEW v
  PROVE  Informed(c, u, v) <=> Informed(c, v, u)
<1>1. {u, v} = {v, u}
  OBVIOUS
<1> QED BY <1>1 DEF Informed

LEMMA StepGrows ==
  ASSUME NEW r \in Reqs, Serve(r) \/ Abort(r) \/ \E u \in Users : Receive(r, u)
  PROVE  Grows
<1>1. UNCHANGED <<notifications, overlapped, late>> => Grows
  BY DEF Grows
<1>2. CASE AddGroupMember(r)
  BY <1>2 DEF AddGroupMember, JoinedLate, Grows
<1>3. CASE CommitConcert(r)
  BY <1>3 DEF CommitConcert, History, Grows
<1>4. CASE UpsertRSVP(r)
  BY <1>4 DEF UpsertRSVP, Rows, Grows
<1>5. CASE CommitRSVP(r)
  BY <1>5 DEF CommitRSVP, History, Grows
<1> QED
  BY <1>1, <1>2, <1>3, <1>4, <1>5 DEF Serve, Abort, Receive, CreateGroup, CommitGroup,
     Join, RegenerateInvite, UpdateGroupInviteCode, Create, CreateConcert,
     ListGroupMembers, Set, ListRSVPsForConcert, Gate, Rows, History

LEMMA OnlyOne ==
  ASSUME IInv, NEW r \in Reqs, NEW q, Goto(r, q)
  PROVE  \A x \in Reqs : req'[x] = IF x = r THEN q ELSE req[x]
  BY DEF IInv, TypeOK, Goto

LEMMA OnlyOneAnswered ==
  ASSUME IInv, NEW r \in Reqs, Answer(r)
  PROVE  \A x \in Reqs : req'[x] = IF x = r THEN Idle ELSE req[x]
  BY OnlyOne DEF Answer

LEMMA OtherRequests ==
  ASSUME IInv, NEW r \in Reqs, Serve(r) \/ Abort(r) \/ \E u \in Users : Receive(r, u)
  PROVE  \A x \in Reqs \ {r} : req'[x] = req[x]
<1>1. \E q : Goto(r, q)
  BY DEF Serve, Abort, Receive, CreateGroup, CommitGroup, Join, AddGroupMember,
     RegenerateInvite, UpdateGroupInviteCode, Create, CreateConcert, ListGroupMembers,
     CommitConcert, Set, UpsertRSVP, ListRSVPsForConcert, CommitRSVP, Gate, Answer
<1> QED BY <1>1, OnlyOne

LEMMA NewRequest ==
  ASSUME IInv, NEW r \in Reqs, NEW u \in Users, Receive(r, u)
  PROVE  req'[r].pc \in {"group", "join", "invite", "concert", "rsvp"}
  BY DEF IInv, TypeOK, Receive, Goto, Idle

--------------------------------------------------------------------------------
(* Concerts are announced *)

\* A step that neither admits a member, nor lists the members, nor commits a concert.
AnnouncementsKept ==
  /\ DOMAIN groups' = DOMAIN groups /\ UNCHANGED <<role, concerts>>
  /\ \A x \in Reqs : req'[x].pc = "concertCommit" => req'[x] = req[x]

LEMMA KeepsAnnouncements ==
  ASSUME IInv, NEW r \in Reqs,
         \/ CreateGroup(r) \/ Join(r) \/ RegenerateInvite(r) \/ UpdateGroupInviteCode(r)
         \/ Create(r) \/ CreateConcert(r) \/ Set(r) \/ UpsertRSVP(r)
         \/ ListRSVPsForConcert(r) \/ CommitRSVP(r) \/ Abort(r)
         \/ \E u \in Users : Receive(r, u)
  PROVE  AnnouncementsKept
<1>1. req \in [Reqs -> Request]
  BY DEF IInv, TypeOK
<1>2. DOMAIN groups' = DOMAIN groups /\ UNCHANGED <<role, concerts>>
  BY DEF CreateGroup, Join, RegenerateInvite, UpdateGroupInviteCode, Create,
     CreateConcert, Set, UpsertRSVP, ListRSVPsForConcert, CommitRSVP, Abort, Receive,
     Gate, Rows
<1>3. req'[r].pc # "concertCommit"
  <2>1. CASE \E u \in Users : Receive(r, u)
    BY <2>1, NewRequest
  <2>2. Answer(r) => req'[r].pc = "idle"
    BY <1>1 DEF Answer, Goto, Idle
  <2>3. CASE CreateGroup(r)
    BY <2>3, <2>2, <1>1 DEF CreateGroup, Goto, Request
  <2>4. CASE Join(r)
    BY <2>4, <2>2, <1>1 DEF Join, Goto, Request
  <2>5. CASE RegenerateInvite(r)
    BY <2>5, <2>2, <1>1 DEF RegenerateInvite, Gate, Goto, Request
  <2>6. CASE Create(r)
    BY <2>6, <2>2, <1>1 DEF Create, Gate, Goto, Request
  <2>7. CASE Set(r)
    BY <2>7, <2>2, <1>1 DEF Set, Gate, Goto, Request
  <2>8. CASE CreateConcert(r)
    BY <2>8, <1>1 DEF CreateConcert, Goto, Request
  <2>9. CASE UpsertRSVP(r)
    BY <2>9, <1>1 DEF UpsertRSVP, Goto, Request
  <2>10. CASE ListRSVPsForConcert(r)
    BY <2>10, <1>1 DEF ListRSVPsForConcert, Goto, Request
  <2>11. CASE UpdateGroupInviteCode(r) \/ CommitRSVP(r) \/ Abort(r)
    BY <2>11, <2>2, <1>1 DEF UpdateGroupInviteCode, CommitRSVP, Abort
  <2> QED BY <2>1, <2>3, <2>4, <2>5, <2>6, <2>7, <2>8, <2>9, <2>10, <2>11
<1>4. \A x \in Reqs \ {r} : req'[x] = req[x]
  BY OtherRequests DEF Serve
<1> QED BY <1>2, <1>3, <1>4 DEF AnnouncementsKept

LEMMA AnnouncedKept ==
  ASSUME MembersAnnounced, Announcing, AnnouncementsKept, Grows
  PROVE  MembersAnnounced' /\ Announcing'
<1>1. \A g \in Groups : Members(g)' = Members(g)
  BY DEF AnnouncementsKept, Members
<1>2. MembersAnnounced'
  <2> SUFFICES ASSUME NEW c \in DOMAIN concerts,
                      NEW u \in Members(concerts[c].group_id) \ {concerts[c].created_by}
               PROVE  \/ Told("concert_new", c, concerts[c].created_by, u)'
                      \/ <<c, u>> \in late'
    BY DEF MembersAnnounced, AnnouncementsKept, Members
  <2> QED BY DEF MembersAnnounced, Grows, Told, Tell, AnnouncementsKept
<1>3. Announcing'
  BY <1>1 DEF Announcing, AnnouncementsKept, Grows, Members
<1> QED BY <1>2, <1>3

\* A new group has no concerts.
LEMMA AnnouncedCommitGroup ==
  ASSUME IInv, MembersAnnounced, Announcing, NEW r \in Reqs, CommitGroup(r), Grows
  PROVE  MembersAnnounced' /\ Announcing'
<1> DEFINE h == req[r].group
<1>1. h \in Groups \ DOMAIN groups /\ Members(h) = {}
  BY RequestTypes DEF CommitGroup, Admitted, Announcing
<1>2. DOMAIN groups' = DOMAIN groups \cup {h} /\ UNCHANGED <<concerts, late>>
  BY DEF CommitGroup, History
<1>3. \A g : g # h => Members(g)' = Members(g)
  BY DEF IInv, TypeOK, CommitGroup, Members
<1>4. \A c \in DOMAIN concerts : concerts[c].group_id # h
  BY <1>1 DEF IInv, StaysInGroup
<1>5. MembersAnnounced'
  BY <1>2, <1>3, <1>4, ToldStays DEF MembersAnnounced
<1>6. ASSUME NEW x \in Reqs, req'[x].pc = "concertCommit"
      PROVE  req'[x] = req[x] /\ req[x].group # h
  <2>1. req'[x] = req[x]
    BY <1>6, OnlyOneAnswered DEF CommitGroup, Idle
  <2>2. req[x].user \in Members(req[x].group)
    BY <1>6, <2>1, RequestTypes DEF Admitted
  <2> QED BY <2>1, <2>2, <1>1
<1>7. Announcing'
  BY <1>1, <1>2, <1>3, <1>6 DEF Announcing
<1> QED BY <1>5, <1>7

\* Whoever joins is late for the concerts there are.
LEMMA AnnouncedAddGroupMember ==
  ASSUME IInv, MembersAnnounced, Announcing, NEW r \in Reqs, AddGroupMember(r), Grows
  PROVE  MembersAnnounced' /\ Announcing'
<1> PICK g, u : g = req[r].group /\ u = req[r].user
  OBVIOUS
<1>1. /\ req[r].pc = "joinAdd" /\ Answer(r) /\ UNCHANGED <<groups, concerts, notifications>>
      /\ g \in DOMAIN groups /\ g \in Groups /\ u \in Users
  BY RequestTypes DEF AddGroupMember, Admitted, IInv, TypeOK
<1>2. \A x \in Reqs : req'[x] = IF x = r THEN Idle ELSE req[x]
  BY <1>1, OnlyOneAnswered
<1>3. \A x \in Reqs : req'[x].pc = "concertCommit" => req'[x] = req[x]
  BY <1>2 DEF Idle
<1>4. CASE role[g][u] # "none"
  <2>1. AnnouncementsKept
    BY <1>1, <1>3, <1>4 DEF AddGroupMember, AnnouncementsKept
  <2> QED BY <2>1, AnnouncedKept
<1>5. CASE role[g][u] = "none"
  <2>1. role' = [role EXCEPT ![g][u] = "member"] /\ JoinedLate(g, u)
    BY <1>5 DEF AddGroupMember
  <2>2. /\ \A h \in Groups : h # g => Members(h)' = Members(h)
        /\ \A h : h \notin Groups => Members(h)' = Members(h)
        /\ Members(g)' = Members(g) \cup {u}
    <3>1. role \in [Groups -> [Users -> Roles]]
      BY DEF IInv, TypeOK
    <3>2. \A h \in Groups : h # g => role'[h] = role[h]
      BY <2>1, <3>1
    <3>3. \A h : h \notin Groups => role'[h] = role[h]
      BY <2>1, <3>1
    <3>4. \A v \in Users : role'[g][v] = IF v = u THEN "member" ELSE role[g][v]
      BY <1>1, <2>1, <3>1
    <3> QED BY <1>1, <3>2, <3>3, <3>4 DEF Members
  <2>3. \A c \in DOMAIN concerts : concerts[c].group_id = g => <<c, u>> \in late'
    BY <2>1 DEF JoinedLate
  <2>4. \A x \in Reqs : Inserted(x) /\ req[x].group = g => <<req[x].concert, u>> \in late'
    BY <2>1 DEF JoinedLate
  <2>5. MembersAnnounced'
    <3> SUFFICES ASSUME NEW c \in DOMAIN concerts,
                        NEW v \in Members(concerts[c].group_id)' \ {concerts[c].created_by}
                 PROVE  \/ Told("concert_new", c, concerts[c].created_by, v)'
                        \/ <<c, v>> \in late'
      BY <1>1 DEF MembersAnnounced, Members, Told, Tell
    <3>1. v \in Members(concerts[c].group_id) \/ (concerts[c].group_id = g /\ v = u)
      <4>1. v \in {m \in Users : role'[concerts[c].group_id][m] # "none"}
        BY <1>1 DEF Members
      <4> QED BY <4>1, <2>2 DEF Members
    <3>2. Told("concert_new", c, concerts[c].created_by, v)
            => Told("concert_new", c, concerts[c].created_by, v)'
      BY <1>1 DEF Told, Tell
    <3> QED BY <3>1, <3>2, <2>3 DEF MembersAnnounced, Grows
  <2>6. Announcing'
    <3>1. \A h \in Groups \ DOMAIN groups' : Members(h)' = {}
      BY <1>1, <2>2 DEF Announcing
    <3>2. ASSUME NEW x \in Reqs, req'[x].pc = "concertCommit",
                 NEW v \in Members(req[x].group)' \ {req'[x].user}
          PROVE  v \in req'[x].rows \/ <<req'[x].concert, v>> \in late'
      <4>1. req'[x] = req[x] /\ Inserted(x)
        BY <3>2, <1>3 DEF Inserted
      <4>2. v \in Members(req[x].group) \/ (req[x].group = g /\ v = u)
        <5>1. v \in {m \in Users : role'[req[x].group][m] # "none"}
          BY <3>2, <4>1 DEF Members
        <5> QED BY <5>1, <2>2 DEF Members
      <4> QED BY <3>2, <4>1, <4>2, <2>4 DEF Announcing, Grows
    <3> QED BY <3>1, <3>2 DEF Announcing, Members
  <2> QED BY <2>5, <2>6
<1> QED BY <1>4, <1>5

LEMMA AnnouncedListGroupMembers ==
  ASSUME IInv, MembersAnnounced, Announcing, NEW r \in Reqs, ListGroupMembers(r), Grows
  PROVE  MembersAnnounced' /\ Announcing'
<1> DEFINE q == [req[r] EXCEPT !.pc = "concertCommit",
                               !.rows = Members(req[r].group) \ {req[r].user}]
<1>1. Goto(r, q) /\ UNCHANGED <<groups, role, concerts, notifications, late>>
  BY DEF ListGroupMembers, Rows, History
<1>2. \A x \in Reqs : req'[x] = IF x = r THEN q ELSE req[x]
  BY <1>1, OnlyOne
<1>3. /\ q.rows = Members(req[r].group) \ {req[r].user}
      /\ q.group = req[r].group /\ q.user = req[r].user
  BY RequestTypes DEF Request
<1> HIDE DEF q
<1>4. MembersAnnounced'
  BY <1>1 DEF MembersAnnounced, Members, Told
<1>5. Announcing'
  BY <1>1, <1>2, <1>3 DEF Announcing, Members
<1> QED BY <1>4, <1>5

LEMMA AnnouncedCommitConcert ==
  ASSUME IInv, MembersAnnounced, Announcing, NEW r \in Reqs, CommitConcert(r), Grows
  PROVE  MembersAnnounced' /\ Announcing'
<1> PICK q : q = req[r]
  OBVIOUS
<1>1. /\ q.pc = "concertCommit" /\ Answer(r) /\ UNCHANGED <<groups, role, late>>
      /\ q.concert \notin DOMAIN concerts
  BY RequestTypes DEF CommitConcert, Admitted, History
<1>2. /\ DOMAIN concerts' = DOMAIN concerts \cup {q.concert}
      /\ \A c \in DOMAIN concerts : concerts'[c] = concerts[c]
      /\ concerts'[q.concert].group_id = q.group
      /\ concerts'[q.concert].created_by = q.user
  BY <1>1 DEF CommitConcert
<1>3. \A g : Members(g)' = Members(g)
  BY <1>1 DEF Members
<1>4. \A u \in q.rows : Told("concert_new", q.concert, q.user, u)'
  BY DEF CommitConcert, Told, Tell
<1>5. ASSUME NEW c \in DOMAIN concerts', NEW h, h = concerts'[c].created_by,
             NEW u \in Members(concerts'[c].group_id) \ {h}
      PROVE  Told("concert_new", c, h, u)' \/ <<c, u>> \in late'
  <2>1. CASE c = q.concert
    BY <2>1, <1>1, <1>2, <1>4, <1>5 DEF Announcing
  <2>2. CASE c \in DOMAIN concerts
    <3>1. Told("concert_new", c, h, u) \/ <<c, u>> \in late
      BY <2>2, <1>2, <1>5 DEF MembersAnnounced, Told, Tell
    <3> QED BY <3>1, <1>1, ToldStays
  <2> QED BY <2>1, <2>2, <1>2
<1>6. MembersAnnounced'
  BY <1>3, <1>5 DEF MembersAnnounced, Told, Tell, Members
<1>7. \A x \in Reqs : req'[x].pc = "concertCommit" => req'[x] = req[x]
  BY <1>1, OnlyOneAnswered DEF Idle
<1>8. Announcing'
  BY <1>1, <1>3, <1>7 DEF Announcing, Members
<1> QED BY <1>6, <1>8

--------------------------------------------------------------------------------
(* Co-attendees are told *)

\* A step that neither writes, nor lists, nor commits an answer of yes.
AnswersKept ==
  UNCHANGED rsvps /\ \A x \in Reqs : SaysYes(x)' => req'[x] = req[x]

LEMMA KeepsAnswers ==
  ASSUME IInv, NEW r \in Reqs,
         \/ CreateGroup(r) \/ CommitGroup(r) \/ Join(r) \/ AddGroupMember(r)
         \/ RegenerateInvite(r) \/ UpdateGroupInviteCode(r)
         \/ Create(r) \/ CreateConcert(r) \/ ListGroupMembers(r) \/ CommitConcert(r)
         \/ Set(r) \/ Abort(r) \/ \E u \in Users : Receive(r, u)
  PROVE  AnswersKept
<1>1. req \in [Reqs -> Request]
  BY DEF IInv, TypeOK
<1>2. UNCHANGED rsvps
  BY DEF CreateGroup, CommitGroup, Join, AddGroupMember, RegenerateInvite,
     UpdateGroupInviteCode, Create, CreateConcert, ListGroupMembers, CommitConcert, Set,
     Abort, Receive, Gate, Rows
<1>3. req'[r].pc # "rsvpList" /\ req'[r].pc # "rsvpCommit"
  <2>1. CASE \E u \in Users : Receive(r, u)
    BY <2>1, NewRequest
  <2>2. Answer(r) => req'[r].pc = "idle"
    BY <1>1 DEF Answer, Goto, Idle
  <2>3. CASE CreateGroup(r)
    <3>1. ASSUME NEW k \in Codes, NEW g \in Groups,
                 Goto(r, [req[r] EXCEPT !.pc = "groupCommit", !.group = g, !.code = k])
          PROVE  req'[r].pc = "groupCommit"
      BY <3>1, <1>1 DEF Goto, Request
    <3> QED BY <2>3, <2>2, <3>1 DEF CreateGroup
  <2>4. CASE Join(r)
    BY <2>4, <2>2, <1>1 DEF Join, Goto, Request
  <2>5. CASE RegenerateInvite(r)
    BY <2>5, <2>2, <1>1 DEF RegenerateInvite, Gate, Goto, Request
  <2>6. CASE Create(r)
    BY <2>6, <2>2, <1>1 DEF Create, Gate, Goto, Request
  <2>7. CASE Set(r)
    BY <2>7, <2>2, <1>1 DEF Set, Gate, Goto, Request
  <2>8. CASE CreateConcert(r)
    BY <2>8, <1>1 DEF CreateConcert, Goto, Request
  <2>9. CASE ListGroupMembers(r)
    BY <2>9, <1>1 DEF ListGroupMembers, Goto, Request
  <2>10. CASE \/ CommitGroup(r) \/ AddGroupMember(r) \/ UpdateGroupInviteCode(r)
             \/ CommitConcert(r) \/ Abort(r)
    BY <2>10, <2>2, <1>1 DEF CommitGroup, AddGroupMember, UpdateGroupInviteCode,
      CommitConcert, Abort
  <2> QED BY <2>1, <2>3, <2>4, <2>5, <2>6, <2>7, <2>8, <2>9, <2>10
<1>4. \A x \in Reqs \ {r} : req'[x] = req[x]
  BY OtherRequests DEF Serve
<1> QED BY <1>2, <1>3, <1>4 DEF AnswersKept, SaysYes

LEMMA AnsweredKept ==
  ASSUME CoAttendeesTold, AnswersSeen, AnswersKept, Grows
  PROVE  CoAttendeesTold' /\ AnswersSeen'
<1>1. \A c \in Concerts : YesResponders(c)' = YesResponders(c)
  BY DEF AnswersKept, YesResponders
<1>2. CoAttendeesTold'
  BY <1>1, InformedStays DEF CoAttendeesTold
<1>3. \A x \in Reqs : SaysYes(x)' => req'[x] = req[x] /\ SaysYes(x)
  BY DEF AnswersKept, SaysYes
<1>4. ASSUME NEW x \in Reqs, NEW y \in Reqs, x # y, SaysYes(x)', SaysYes(y)',
             req'[x].concert = req'[y].concert
      PROVE  <<req'[x].concert, {req'[x].user, req'[y].user}>> \in overlapped'
  BY <1>3, <1>4 DEF AnswersSeen, Grows
<1>5. ASSUME NEW x \in Reqs, req'[x].pc = "rsvpCommit", req'[x].status = "yes",
             NEW v \in YesResponders(req[x].concert)' \ {req'[x].user}
      PROVE  v \in req'[x].rows \/ Informed(req[x].concert, req[x].user, v)'
  <2> PICK q : q = req'[x]
    OBVIOUS
  <2>1. q = req[x]
    BY <1>5 DEF AnswersKept, SaysYes
  <2>2. v \in YesResponders(q.concert) \ {q.user}
    BY <1>5 DEF AnswersKept, YesResponders
  <2>3. v \in q.rows \/ Informed(q.concert, q.user, v)
    BY <1>5, <2>1, <2>2 DEF AnswersSeen, Informed, Told, Tell, YesResponders
  <2>4. v \in q.rows \/ Informed(q.concert, q.user, v)'
    BY <2>3, InformedStays
  <2> QED BY <2>4 DEF Informed, Told, Tell
<1>6. AnswersSeen'
  BY <1>4, <1>5 DEF AnswersSeen, SaysYes, YesResponders, Informed, Told, Tell
<1> QED BY <1>2, <1>6

LEMMA AnsweredUpsert ==
  ASSUME IInv, CoAttendeesTold, AnswersSeen, NEW r \in Reqs, UpsertRSVP(r), Grows
  PROVE  CoAttendeesTold' /\ AnswersSeen'
<1> PICK q : q = req[r]
  OBVIOUS
<1>1. UNCHANGED <<rsvps, notifications>>
  BY DEF UpsertRSVP, Rows
<1>2. PICK s : /\ \A x \in Reqs : req'[x] = IF x = r THEN s ELSE req[x]
               /\ s = [q EXCEPT !.pc = IF q.status = "yes" THEN "rsvpList"
                                       ELSE "rsvpCommit"]
  BY OnlyOne DEF UpsertRSVP
<1>3. /\ s.pc = IF q.status = "yes" THEN "rsvpList" ELSE "rsvpCommit"
      /\ s.status = q.status /\ s.concert = q.concert /\ s.user = q.user
  BY <1>2, RequestTypes DEF Request
<1>4. ASSUME q.status = "yes", NEW x \in Reqs \ {r}, SaysYes(x),
             req[x].concert = q.concert
      PROVE  /\ <<q.concert, {q.user, req[x].user}>> \in overlapped'
             /\ <<q.concert, {req[x].user, q.user}>> \in overlapped'
  BY <1>4 DEF UpsertRSVP
<1>5. \A x \in Reqs \ {r} : SaysYes(x)' <=> SaysYes(x)
  BY <1>2 DEF SaysYes
<1>6. SaysYes(r)' <=> q.status = "yes"
  BY <1>2, <1>3 DEF SaysYes
<1>7. ASSUME NEW x \in Reqs, NEW y \in Reqs, x # y, SaysYes(x)', SaysYes(y)',
             req'[x].concert = req'[y].concert
      PROVE  <<req'[x].concert, {req'[x].user, req'[y].user}>> \in overlapped'
  <2>1. CASE x = r
    <3>1. y \in Reqs \ {r} /\ SaysYes(y) /\ q.status = "yes" /\ req'[y] = req[y]
      BY <2>1, <1>2, <1>5, <1>6, <1>7
    <3>2. req'[x].concert = q.concert /\ req'[x].user = q.user
      BY <2>1, <1>2, <1>3
    <3>3. <<q.concert, {q.user, req[y].user}>> \in overlapped'
      BY <3>1, <3>2, <1>4, <1>7
    <3> QED BY <3>1, <3>2, <3>3
  <2>2. CASE y = r
    <3>1. x \in Reqs \ {r} /\ SaysYes(x) /\ q.status = "yes" /\ req'[x] = req[x]
      BY <2>2, <1>2, <1>5, <1>6, <1>7
    <3>2. req'[y].concert = q.concert /\ req'[y].user = q.user
      BY <2>2, <1>2, <1>3
    <3>3. <<q.concert, {req[x].user, q.user}>> \in overlapped'
      BY <3>1, <3>2, <1>4, <1>7
    <3> QED BY <3>1, <3>2, <3>3, <1>7
  <2>3. CASE x # r /\ y # r
    BY <2>3, <1>2, <1>5, <1>7 DEF AnswersSeen, Grows
  <2> QED BY <2>1, <2>2, <2>3
<1>8. ASSUME NEW x \in Reqs, req'[x].pc = "rsvpCommit", req'[x].status = "yes",
             NEW v \in YesResponders(req[x].concert)' \ {req'[x].user}
      PROVE  v \in req'[x].rows \/ Informed(req[x].concert, req[x].user, v)'
  <2> PICK t : t = req'[x]
    OBVIOUS
  <2>1. t = req[x]
    <3>1. CASE x = r
      <4>1. req'[x].pc = s.pc /\ req'[x].status = s.status
        BY <3>1, <1>2
      <4> QED BY <4>1, <1>3, <1>8
    <3>2. CASE x # r
      BY <3>2, <1>2
    <3> QED BY <3>1, <3>2
  <2>2. v \in YesResponders(t.concert) \ {t.user}
    BY <1>1, <1>8 DEF YesResponders
  <2>3. v \in t.rows \/ Informed(t.concert, t.user, v)
    BY <1>8, <2>1, <2>2 DEF AnswersSeen, Informed, Told, Tell, YesResponders
  <2>4. v \in t.rows \/ Informed(t.concert, t.user, v)'
    BY <2>3, InformedStays
  <2> QED BY <2>4 DEF Informed, Told, Tell
<1>9. AnswersSeen'
  BY <1>7, <1>8 DEF AnswersSeen, SaysYes, YesResponders, Informed, Told, Tell
<1>10. CoAttendeesTold'
  BY <1>1, InformedStays DEF CoAttendeesTold, YesResponders
<1> QED BY <1>9, <1>10

LEMMA AnsweredList ==
  ASSUME IInv, CoAttendeesTold, AnswersSeen, NEW r \in Reqs, ListRSVPsForConcert(r), Grows
  PROVE  CoAttendeesTold' /\ AnswersSeen'
<1> PICK q : q = req[r]
  OBVIOUS
<1>1. UNCHANGED <<rsvps, notifications, overlapped>> /\ q.pc = "rsvpList"
  BY DEF ListRSVPsForConcert, Rows, History
<1>2. PICK s : /\ \A x \in Reqs : req'[x] = IF x = r THEN s ELSE req[x]
               /\ s = [q EXCEPT !.pc = "rsvpCommit",
                                !.rows = YesResponders(q.concert) \ {q.user}]
  BY OnlyOne DEF ListRSVPsForConcert
<1>3. /\ s.pc = "rsvpCommit" /\ s.rows = YesResponders(q.concert) \ {q.user}
      /\ s.status = q.status /\ s.concert = q.concert /\ s.user = q.user
  BY <1>2, RequestTypes DEF Request
<1>4. \A x \in Reqs : /\ SaysYes(x)' <=> SaysYes(x)
                      /\ req'[x].concert = req[x].concert /\ req'[x].user = req[x].user
  <2> SUFFICES ASSUME NEW x \in Reqs
               PROVE  /\ SaysYes(x)' <=> SaysYes(x)
                      /\ req'[x].concert = req[x].concert /\ req'[x].user = req[x].user
    OBVIOUS
  <2>1. CASE x = r
    <3>1. req'[x] = s /\ req[x] = q
      BY <2>1, <1>2
    <3> QED BY <3>1, <1>1, <1>3 DEF SaysYes
  <2>2. CASE x # r
    <3>1. req'[x] = req[x]
      BY <2>2, <1>2
    <3> QED BY <3>1 DEF SaysYes
  <2> QED BY <2>1, <2>2
<1>5. ASSUME NEW x \in Reqs, NEW y \in Reqs, x # y, SaysYes(x)', SaysYes(y)',
             req'[x].concert = req'[y].concert
      PROVE  <<req'[x].concert, {req'[x].user, req'[y].user}>> \in overlapped'
  BY <1>1, <1>4, <1>5 DEF AnswersSeen
<1>6. ASSUME NEW x \in Reqs, req'[x].pc = "rsvpCommit", req'[x].status = "yes",
             NEW v \in YesResponders(req[x].concert)' \ {req'[x].user}
      PROVE  v \in req'[x].rows \/ Informed(req[x].concert, req[x].user, v)'
  <2> PICK t : t = req'[x]
    OBVIOUS
  <2>1. v \in YesResponders(t.concert) \ {t.user}
    BY <1>1, <1>6 DEF YesResponders
  <2>2. CASE x = r
    BY <2>1, <2>2, <1>2, <1>3
  <2>3. CASE x # r
    <3>1. t = req[x]
      BY <1>2, <2>3
    <3>2. v \in t.rows \/ Informed(t.concert, t.user, v)
      BY <1>6, <2>1, <3>1 DEF AnswersSeen, Informed, Told, Tell, YesResponders
    <3>3. v \in t.rows \/ Informed(t.concert, t.user, v)'
      BY <3>2, InformedStays
    <3> QED BY <3>3 DEF Informed, Told, Tell
  <2> QED BY <2>2, <2>3
<1>7. AnswersSeen'
  BY <1>5, <1>6 DEF AnswersSeen, SaysYes, YesResponders, Informed, Told, Tell
<1>8. CoAttendeesTold'
  BY <1>1, InformedStays DEF CoAttendeesTold, YesResponders
<1> QED BY <1>7, <1>8

\* Those it has listed are told; those whose answer it could not see overlapped.
LEMMA AnsweredCommit ==
  ASSUME IInv, CoAttendeesTold, AnswersSeen, NEW r \in Reqs, CommitRSVP(r), Grows
  PROVE  CoAttendeesTold' /\ AnswersSeen'
<1> PICK q : q = req[r]
  OBVIOUS
<1>1. /\ q.pc = "rsvpCommit" /\ Answer(r)
      /\ q.concert \in Concerts /\ q.user \in Users
  BY RequestTypes DEF CommitRSVP, Admitted, IInv, TypeOK
<1>2. \A x \in Reqs : req'[x] = IF x = r THEN Idle ELSE req[x]
  BY <1>1, OnlyOneAnswered
<1>3. \A c \in Concerts, u \in Users :
        rsvps'[c][u] = IF c = q.concert /\ u = q.user THEN q.status ELSE rsvps[c][u]
  BY <1>1 DEF CommitRSVP, IInv, TypeOK
<1>4. \A c \in Concerts : \A u \in YesResponders(c)' :
        u \in YesResponders(c) \/ (c = q.concert /\ u = q.user /\ q.status = "yes")
  BY <1>3 DEF YesResponders
<1>5. \A v \in q.rows : Told("rsvp_changed", q.concert, q.user, v)'
  BY DEF CommitRSVP, Told, Tell
<1>6. ASSUME q.status = "yes", NEW v \in YesResponders(q.concert) \ {q.user}
      PROVE  Informed(q.concert, q.user, v)'
  <2>1. v \in q.rows \/ Informed(q.concert, q.user, v)
    BY <1>1, <1>6 DEF AnswersSeen, Informed, Told, Tell, YesResponders
  <2> QED BY <2>1, <1>5, InformedStays DEF Informed
<1>7. CoAttendeesTold'
  <2> SUFFICES ASSUME NEW c \in Concerts,
                      NEW u \in YesResponders(c)', NEW v \in YesResponders(c)', u # v
               PROVE  Informed(c, u, v)'
    BY DEF CoAttendeesTold
  <2>1. CASE u \in YesResponders(c) /\ v \in YesResponders(c)
    BY <2>1, InformedStays DEF CoAttendeesTold
  <2>2. CASE u \notin YesResponders(c)
    BY <2>2, <1>4, <1>6
  <2>3. CASE v \notin YesResponders(c)
    <3>1. Informed(c, v, u)'
      BY <2>3, <1>4, <1>6
    <3> QED BY <3>1, InformedBoth, PTL
  <2> QED BY <2>1, <2>2, <2>3
<1>8. \A x \in Reqs : SaysYes(x)' => x # r /\ req'[x] = req[x] /\ SaysYes(x)
  BY <1>2 DEF SaysYes, Idle
<1>9. ASSUME NEW x \in Reqs, NEW y \in Reqs, x # y, SaysYes(x)', SaysYes(y)',
             req'[x].concert = req'[y].concert
      PROVE  <<req'[x].concert, {req'[x].user, req'[y].user}>> \in overlapped'
  BY <1>8, <1>9 DEF AnswersSeen, Grows
<1>10. ASSUME NEW x \in Reqs, req'[x].pc = "rsvpCommit", req'[x].status = "yes",
              NEW v \in YesResponders(req[x].concert)' \ {req'[x].user}
       PROVE  v \in req'[x].rows \/ Informed(req[x].concert, req[x].user, v)'
  <2> PICK t : t = req'[x]
    OBVIOUS
  <2>1. t = req[x] /\ x # r /\ SaysYes(x) /\ t.concert \in Concerts
    <3>1. SaysYes(x)'
      BY <1>10 DEF SaysYes
    <3>2. t = req[x] /\ x # r /\ SaysYes(x)
      BY <3>1, <1>8
    <3>3. t.concert \in DOMAIN concerts
      BY <3>2, RequestTypes DEF SaysYes, Admitted
    <3> QED BY <3>2, <3>3 DEF IInv, TypeOK
  <2>2. v \in YesResponders(t.concert)' /\ v # t.user
    BY <1>10 DEF YesResponders
  <2>3. CASE v \in YesResponders(t.concert)
    <3>1. v \in t.rows \/ Informed(t.concert, t.user, v)
      BY <1>10, <2>1, <2>2, <2>3 DEF AnswersSeen, Informed, Told, Tell, YesResponders
    <3>2. v \in t.rows \/ Informed(t.concert, t.user, v)'
      BY <3>1, InformedStays
    <3> QED BY <3>2 DEF Informed, Told, Tell
  <2>4. CASE v \notin YesResponders(t.concert)
    <3>1. t.concert = q.concert /\ v = q.user /\ q.status = "yes"
      BY <2>1, <2>2, <2>4, <1>4
    <3>2. SaysYes(r)
      BY <3>1, <1>1 DEF SaysYes
    <3>3. <<t.concert, {t.user, v}>> \in overlapped
      BY <2>1, <3>1, <3>2 DEF AnswersSeen
    <3>4. Informed(t.concert, t.user, v)'
      BY <3>3 DEF Informed, Grows
    <3> QED BY <3>4 DEF Informed, Told, Tell
  <2> QED BY <2>3, <2>4
<1>11. AnswersSeen'
  BY <1>9, <1>10 DEF AnswersSeen, SaysYes, YesResponders, Informed, Told, Tell
<1> QED BY <1>7, <1>11

--------------------------------------------------------------------------------
LEMMA NoticeInit == Init => NInv
  BY DEF Init, NInv, MembersAnnounced, CoAttendeesTold, Announcing, AnswersSeen, Members,
     YesResponders, SaysYes, Idle

LEMMA NoticeNext == IInv /\ NInv /\ [Next]_vars => NInv'
<1> SUFFICES ASSUME IInv, NInv, [Next]_vars PROVE NInv'
  OBVIOUS
<1>1. CASE UNCHANGED vars
  BY <1>1 DEF vars, NInv, MembersAnnounced, CoAttendeesTold, Announcing, AnswersSeen,
     Members, YesResponders, SaysYes, Informed, Told, Tell
<1>2. ASSUME NEW r \in Reqs, Serve(r) \/ Abort(r) \/ \E u \in Users : Receive(r, u)
      PROVE  NInv'
  <2>1. Grows
    BY <1>2, StepGrows
  <2>2. MembersAnnounced' /\ Announcing'
    BY <1>2, <2>1, AnnouncedKept, KeepsAnnouncements, AnnouncedCommitGroup,
       AnnouncedAddGroupMember, AnnouncedListGroupMembers, AnnouncedCommitConcert
       DEF NInv, Serve
  <2>3. CoAttendeesTold' /\ AnswersSeen'
    BY <1>2, <2>1, AnsweredKept, KeepsAnswers, AnsweredUpsert, AnsweredList,
       AnsweredCommit DEF NInv, Serve
  <2> QED BY <2>2, <2>3 DEF NInv
<1> QED BY <1>1, <1>2 DEF Next

LEMMA AlwaysNInv == Spec => []NInv
  BY NoticeInit, NoticeNext, CoordinationInvariant, PTL DEF Spec

\* Every member who was one when a concert was inserted is told of it, whoever
\* joins and whatever else is committed meanwhile (concerts.go Create).
THEOREM AlwaysAnnounced == Spec => []MembersAnnounced
<1>1. NInv => MembersAnnounced
  BY DEF NInv
<1> QED BY <1>1, AlwaysNInv, PTL

\* Of two members who are coming one has been told of the other, unless their
\* transactions overlapped (rsvps.go Set under READ COMMITTED).
THEOREM AlwaysCoAttendeesTold == Spec => []CoAttendeesTold
<1>1. NInv => CoAttendeesTold
  BY DEF NInv
<1> QED BY <1>1, AlwaysNInv, PTL

================================================================================
