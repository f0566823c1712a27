---------------------------- MODULE RemindersProofs ----------------------------
(***************************************************************************)
(* Theorems about Reminders, for any groups, schedules, numbers of workers *)
(* and windows that WindowAssumption admits.                               *)
(***************************************************************************)
EXTENDS Reminders, TLAPS

LEMMA KeyParts ==
  ASSUME NEW k \in Keys
  PROVE  /\ k[1] \in Types /\ k[2] \in Concerts /\ k[3] \in Users
         /\ Due(k) \in Nat
  BY ScheduleAssumption DEF Keys, Types, Due

LEMMA NoScanType ==
  ASSUME NEW pc \in PCs
  PROVE  NoScan(pc) \in Tick
  BY DEF NoScan, Tick

LEMMA RInit == Init => RInv
<1> SUFFICES ASSUME Init PROVE RInv
  OBVIOUS
<1>1. NoScan("idle") \in Tick
  BY NoScanType DEF PCs
<1>2. TypeOK
  BY <1>1, BoundsAssumption DEF Init, TypeOK
<1>3. RemindersTimely /\ StillThere
  BY DEF Init, RemindersTimely, StillThere
<1>4. \A v \in Workers : ~HoldsLock(v) /\ ScanSound(v)
  BY DEF Init, HoldsLock, ScanSound, NoScan
<1> QED BY <1>2, <1>3, <1>4 DEF Init, RInv

--------------------------------------------------------------------------------
(* Scans *)

\* A worker's tick becomes tick, and nothing else changes.
LEMMA StepOfScan ==
  ASSUME RInv, NEW v \in Workers, NEW tick \in Tick, scan' = [scan EXCEPT ![v] = tick],
         UNCHANGED <<now, members, rsvp, notifications, reminded>>, crashes' \in 0..MaxCrashes,
         ScanSound(v)',
         tick.pc \in {"deadline", "concert", "commit"} =>
           \A x \in Workers \ {v} : ~HoldsLock(x)
  PROVE  RInv'
<1>1. scan \in [Workers -> Tick] /\ TypeOK
  BY DEF RInv, TypeOK
<1>2. scan' \in [Workers -> Tick] /\ \A x \in Workers : scan'[x] = IF x = v THEN tick ELSE scan[x]
  BY <1>1
<1>3. TypeOK'
  BY <1>1, <1>2 DEF TypeOK
<1>4. RemindersTimely' /\ StillThere'
  BY DEF RInv, RemindersTimely, StillThere
<1>5. ASSUME NEW x \in Workers PROVE ScanSound(x)'
  <2>1. CASE x = v
    BY <2>1
  <2>2. CASE x # v
    BY <1>2, <2>2 DEF RInv, ScanSound, HoldsLock
  <2> QED BY <2>1, <2>2
<1>6. \A x, y \in Workers : HoldsLock(x)' /\ HoldsLock(y)' => x = y
  BY <1>2 DEF RInv, HoldsLock
<1>7. \A c \in Concerts, u \in Users : rsvp'[c][u] # "none" => u \in members'[c]
  BY DEF RInv
<1> QED BY <1>3, <1>4, <1>5, <1>6, <1>7 DEF RInv

\* A tick that ends, or goes on without the lock.
LEMMA StepToNoScan ==
  ASSUME RInv, NEW v \in Workers, NEW pc \in {"idle", "send", "prune"},
         scan' = [scan EXCEPT ![v] = NoScan(pc)],
         UNCHANGED <<now, members, rsvp, notifications, reminded>>, crashes' \in 0..MaxCrashes
  PROVE  RInv'
<1>1. scan'[v] = NoScan(pc)
  BY DEF RInv, TypeOK
<1>2. ScanSound(v)'
  BY <1>1 DEF ScanSound, HoldsLock, NoScan
<1>3. NoScan(pc) \in Tick /\ NoScan(pc).pc = pc
  BY NoScanType DEF PCs, NoScan
<1> QED BY <1>2, <1>3, StepOfScan

LEMMA BeginSound ==
  ASSUME RInv, NEW v \in Workers, Begin(v)
  PROVE  RInv'
<1>0. crashes' \in 0..MaxCrashes
  BY DEF RInv, TypeOK, Begin
<1>1. CASE \E x \in Workers : HoldsLock(x)
  BY <1>0, <1>1, StepToNoScan DEF Begin
<1>2. CASE \A x \in Workers : ~HoldsLock(x)
  <2> DEFINE tick == [NoScan("deadline") EXCEPT !.at = now]
  <2>1. scan' = [scan EXCEPT ![v] = tick]
    BY <1>2 DEF Begin
  <2>2. now \in Nat /\ scan \in [Workers -> Tick]
    BY BoundsAssumption DEF RInv, TypeOK
  <2>3. tick \in Tick /\ tick.at = now /\ tick.rows = {} /\ tick.pc = "deadline"
    BY <2>2 DEF NoScan, Tick, PCs
  <2>4. scan'[v] = tick /\ now' = now
    BY <2>1, <2>2 DEF Begin
  <2>5. ScanSound(v)'
    BY <2>2, <2>3, <2>4, WindowAssumption DEF ScanSound, HoldsLock
  <2> QED BY <1>0, <1>2, <2>1, <2>3, <2>5, StepOfScan DEF Begin
<1> QED BY <1>1, <1>2

\* What a scan inserts was not there, so nobody was reminded of it: the row of an
\* earlier reminder would still be there.
LEMMA InsertSound ==
  ASSUME RInv, NEW v \in Workers, HoldsLock(v), NEW due \in SUBSET Keys,
         NEW next \in {"concert", "commit"}, Insert(v, due, next),
         \A k \in due : k[3] \in members[k[2]] /\ InWindow(Due(k), scan[v].at)
  PROVE  RInv'
<1> DEFINE new == due \ DOMAIN notifications
           tick == [scan[v] EXCEPT !.pc = next, !.rows = @ \cup new]
<1>1. /\ scan \in [Workers -> Tick] /\ scan[v] \in Tick /\ now \in Nat
      /\ ScanSound(v)
  BY BoundsAssumption DEF RInv, TypeOK
<1>2. scan' = [scan EXCEPT ![v] = tick]
  BY DEF Insert
<1>3. /\ tick \in Tick /\ tick.pc = next /\ tick.at = scan[v].at
      /\ tick.rows = scan[v].rows \cup new
  BY <1>1 DEF Tick, PCs
<1>4. scan'[v] = tick
  BY <1>1, <1>2
<1>5. ASSUME NEW k \in new PROVE k \notin reminded
  <2>1. Due(k) \in Nat
    BY KeyParts
  <2>2. scan[v].at \in Nat /\ now <= scan[v].at + MaxScan /\ scan[v].at < Due(k)
    BY <1>1 DEF ScanSound, InWindow, Tick
  <2>3. ~(now > Due(k) + MaxScan)
    BY <1>1, <2>1, <2>2, WindowAssumption
  <2> QED BY <2>3 DEF RInv, StillThere
<1>6. ScanSound(v)'
  BY <1>1, <1>3, <1>4, <1>5 DEF ScanSound, HoldsLock, Insert, InWindow, Due
<1>7. \A x \in Workers \ {v} : ~HoldsLock(x)
  BY DEF RInv
<1>8. crashes' \in 0..MaxCrashes
  BY DEF RInv, TypeOK, Insert
<1> QED BY <1>2, <1>3, <1>6, <1>7, <1>8, StepOfScan DEF Insert

LEMMA ScansSound ==
  ASSUME RInv, NEW v \in Workers, ScanDeadlineReminders(v) \/ ScanConcertReminders(v)
  PROVE  RInv'
<1>1. CASE ScanDeadlineReminders(v)
  <2> DEFINE due == {k \in Keys : /\ k[1] = "deadline_soon"
                                  /\ InWindow(Deadline[k[2]], scan[v].at)
                                  /\ k[3] \in members[k[2]]
                                  /\ rsvp[k[2]][k[3]] = "none"}
  <2>1. \A k \in due : k[3] \in members[k[2]] /\ InWindow(Due(k), scan[v].at)
    BY DEF Due
  <2>2. HoldsLock(v) /\ Insert(v, due, "concert")
    BY <1>1 DEF ScanDeadlineReminders, HoldsLock
  <2> QED BY <2>1, <2>2, InsertSound
<1>2. CASE ScanConcertReminders(v)
  <2> DEFINE due == {k \in Keys : /\ k[1] = "concert_soon"
                                  /\ InWindow(Event[k[2]], scan[v].at)
                                  /\ rsvp[k[2]][k[3]] = "yes"}
  <2>1. \A k \in Keys : k[2] \in Concerts /\ k[3] \in Users
    BY KeyParts
  <2>2. \A k \in due : k[3] \in members[k[2]] /\ InWindow(Due(k), scan[v].at)
    BY <2>1 DEF RInv, Due
  <2>3. HoldsLock(v) /\ Insert(v, due, "commit")
    BY <1>2 DEF ScanConcertReminders, HoldsLock
  <2> QED BY <2>2, <2>3, InsertSound
<1> QED BY <1>1, <1>2

--------------------------------------------------------------------------------
(* Commits, and what happens to the rows afterwards *)

LEMMA CommitSound ==
  ASSUME RInv, NEW v \in Workers, Commit(v)
  PROVE  RInv'
<1> DEFINE row == [status |-> "pending", created |-> scan[v].at]
           rows == scan[v].rows
<1>1. /\ TypeOK /\ scan \in [Workers -> Tick] /\ scan[v] \in Tick /\ ScanSound(v)
      /\ HoldsLock(v) /\ rows \subseteq Keys /\ scan[v].at \in Nat
  BY DEF RInv, TypeOK, Commit, HoldsLock, Tick
<1>2. \A x \in Workers \ {v} : ~HoldsLock(x)
  BY <1>1 DEF RInv
<1>3. /\ scan' \in [Workers -> Tick] /\ scan'[v] = NoScan("send")
      /\ \A x \in Workers \ {v} : scan'[x] = scan[x]
  BY <1>1, NoScanType DEF Commit, PCs
<1>4. /\ DOMAIN notifications' = DOMAIN notifications \cup rows
      /\ \A k \in DOMAIN notifications' :
           notifications'[k] = IF k \in rows THEN row ELSE notifications[k]
      /\ notifications' = [k \in DOMAIN notifications \cup rows |->
                             IF k \in rows THEN row ELSE notifications[k]]
      /\ reminded' = reminded \cup rows
      /\ UNCHANGED <<now, members, rsvp, crashes>>
  BY DEF Commit
<1>5. row \in Row
  BY <1>1 DEF Row
<1>6. notifications' \in [DOMAIN notifications' -> Row]
  BY <1>1, <1>4, <1>5 DEF TypeOK
<1>7. TypeOK'
  BY <1>1, <1>3, <1>4, <1>6 DEF TypeOK
<1>8. RemindersTimely'
  <2> SUFFICES ASSUME NEW k \in DOMAIN notifications'
               PROVE  /\ k[3] \in members[k[2]]
                      /\ InWindow(Due(k), notifications'[k].created)
    BY <1>4 DEF RemindersTimely, Due, InWindow
  <2>1. CASE k \in rows
    BY <1>1, <1>4, <2>1 DEF ScanSound
  <2>2. CASE k \notin rows
    BY <1>4, <2>2 DEF RInv, RemindersTimely, Due
  <2> QED BY <2>1, <2>2
<1>9. StillThere'
  BY <1>4 DEF RInv, StillThere, Due
<1>10. ASSUME NEW x \in Workers PROVE ~HoldsLock(x)' /\ ScanSound(x)'
  <2>1. ~HoldsLock(x)'
    BY <1>2, <1>3 DEF HoldsLock, NoScan
  <2>2. scan'[x].rows = {}
    BY <1>2, <1>3 DEF RInv, ScanSound, NoScan
  <2> QED BY <2>1, <2>2 DEF ScanSound
<1>11. \A c \in Concerts, u \in Users : rsvp'[c][u] # "none" => u \in members'[c]
  BY <1>4 DEF RInv
<1> QED BY <1>7, <1>8, <1>9, <1>10, <1>11 DEF RInv

\* The rows of the outbox change, and a tick goes on; none is new, and those that
\* go are older than any reminder of the same could be.
LEMMA StepOfRows ==
  ASSUME RInv, NEW v \in Workers, ~HoldsLock(v), NEW pc \in {"idle", "prune"},
         scan' = [scan EXCEPT ![v] = NoScan(pc)],
         UNCHANGED <<now, members, rsvp, crashes, reminded>>,
         DOMAIN notifications' \subseteq DOMAIN notifications,
         notifications' \in [DOMAIN notifications' -> Row],
         \A k \in DOMAIN notifications' : notifications'[k].created = notifications[k].created,
         \A k \in DOMAIN notifications \ DOMAIN notifications' :
           now > notifications[k].created + Retention
  PROVE  RInv'
<1>1. /\ TypeOK /\ scan \in [Workers -> Tick] /\ now \in Nat
      /\ DOMAIN notifications \subseteq Keys
      /\ \A k \in DOMAIN notifications : notifications[k].created \in Nat
  BY BoundsAssumption DEF RInv, TypeOK, Row
<1>2. /\ scan' \in [Workers -> Tick] /\ scan'[v] = NoScan(pc)
      /\ \A x \in Workers \ {v} : scan'[x] = scan[x]
  BY <1>1, NoScanType DEF PCs
<1>3. TypeOK'
  BY <1>1, <1>2 DEF TypeOK
<1>4. RemindersTimely'
  BY DEF RInv, RemindersTimely
<1>5. StillThere'
  <2> SUFFICES ASSUME NEW k \in reminded, k \notin DOMAIN notifications'
               PROVE  now > Due(k) + MaxScan
    BY DEF StillThere, Due
  <2>1. CASE k \in DOMAIN notifications
    <3>1. InWindow(Due(k), notifications[k].created) /\ Due(k) \in Nat
      BY <1>1, <2>1, KeyParts DEF RInv, RemindersTimely, Due
    <3>2. now > notifications[k].created + Retention
      BY <2>1
    <3>3. notifications[k].created \in Nat
      BY <1>1, <2>1
    <3> QED BY <1>1, <3>1, <3>2, <3>3, WindowAssumption DEF InWindow
  <2>2. CASE k \notin DOMAIN notifications
    BY <2>2 DEF RInv, StillThere
  <2> QED BY <2>1, <2>2
<1>6. \A x \in Workers : HoldsLock(x)' => HoldsLock(x) /\ x # v
  BY <1>2 DEF HoldsLock, NoScan
<1>7. ASSUME NEW x \in Workers PROVE ScanSound(x)'
  <2>1. CASE x = v
    BY <1>2, <2>1 DEF ScanSound, HoldsLock, NoScan
  <2>2. CASE x # v
    BY <1>2, <2>2 DEF RInv, ScanSound, HoldsLock, Due, InWindow
  <2> QED BY <2>1, <2>2
<1>8. \A c \in Concerts, u \in Users : rsvp'[c][u] # "none" => u \in members'[c]
  BY DEF RInv
<1> QED BY <1>3, <1>4, <1>5, <1>6, <1>7, <1>8 DEF RInv

LEMMA SendPendingSound ==
  ASSUME RInv, NEW v \in Workers, SendPending(v)
  PROVE  RInv'
<1>1. PICK S \in SUBSET {k \in DOMAIN notifications : notifications[k].status = "pending"} :
        notifications' = [k \in DOMAIN notifications |->
          IF k \in S THEN [notifications[k] EXCEPT !.status = "settled"] ELSE notifications[k]]
  BY DEF SendPending
<1>2. /\ DOMAIN notifications' = DOMAIN notifications
      /\ notifications' \in [DOMAIN notifications -> Row]
      /\ \A k \in DOMAIN notifications : notifications'[k].created = notifications[k].created
  BY <1>1 DEF RInv, TypeOK, Row
<1>3. PICK pc \in {"prune", "idle"} : scan' = [scan EXCEPT ![v] = NoScan(pc)]
  BY DEF SendPending
<1>4. ~HoldsLock(v) /\ UNCHANGED <<now, members, rsvp, crashes, reminded>>
  BY DEF SendPending, HoldsLock
<1> QED BY <1>2, <1>3, <1>4, StepOfRows

LEMMA PruneSound ==
  ASSUME RInv, NEW v \in Workers, PruneOldNotifications(v)
  PROVE  RInv'
<1> DEFINE kept == {k \in DOMAIN notifications : \/ notifications[k].status = "pending"
                                                 \/ notifications[k].created + Retention >= now}
<1>1. /\ DOMAIN notifications' = kept
      /\ notifications' \in [kept -> Row]
      /\ \A k \in kept : notifications'[k] = notifications[k]
  BY DEF PruneOldNotifications, Restrict, RInv, TypeOK
<1>2. \A k \in DOMAIN notifications \ kept : now > notifications[k].created + Retention
  <2>1. \A k \in DOMAIN notifications : notifications[k].created \in Nat
    BY DEF RInv, TypeOK, Row
  <2>2. now \in Nat /\ Retention \in Nat
    BY BoundsAssumption, WindowAssumption DEF RInv, TypeOK
  <2> QED BY <2>1, <2>2
<1>3. /\ ~HoldsLock(v) /\ scan' = [scan EXCEPT ![v] = NoScan("idle")]
      /\ UNCHANGED <<now, members, rsvp, crashes, reminded>>
  BY DEF PruneOldNotifications, HoldsLock
<1> QED BY <1>1, <1>2, <1>3, StepOfRows

LEMMA CrashSound ==
  ASSUME RInv, NEW v \in Workers, Crash(v)
  PROVE  RInv'
<1>1. crashes' \in 0..MaxCrashes
  BY BoundsAssumption DEF RInv, TypeOK, Crash
<1> QED BY <1>1, StepToNoScan DEF Crash

--------------------------------------------------------------------------------
(* The rest of the system *)

LEMMA AnswerSound ==
  ASSUME RInv, NEW c \in Concerts, NEW u \in Users, UpsertRSVP(c, u)
  PROVE  RInv'
<1>1. PICK s \in {"yes", "no"} : rsvp' = [rsvp EXCEPT ![c][u] = s]
  BY DEF UpsertRSVP
<1>2. rsvp \in [Concerts -> [Users -> {"none", "yes", "no"}]]
  BY DEF RInv, TypeOK
<1>3. rsvp' \in [Concerts -> [Users -> {"none", "yes", "no"}]]
  BY <1>1, <1>2
<1>4. \A d \in Concerts, x \in Users :
        rsvp'[d][x] = IF d = c /\ x = u THEN s ELSE rsvp[d][x]
  BY <1>1, <1>2
<1>5. TypeOK'
  BY <1>3 DEF RInv, TypeOK, UpsertRSVP
<1>6. RemindersTimely' /\ StillThere' /\ \A v \in Workers : ScanSound(v)'
  BY DEF RInv, RemindersTimely, StillThere, ScanSound, HoldsLock, UpsertRSVP
<1>7. \A v, x \in Workers : HoldsLock(v)' /\ HoldsLock(x)' => v = x
  BY DEF RInv, HoldsLock, UpsertRSVP
<1>8. \A d \in Concerts, x \in Users : rsvp'[d][x] # "none" => x \in members'[d]
  BY <1>4 DEF RInv, UpsertRSVP
<1> QED BY <1>5, <1>6, <1>7, <1>8 DEF RInv

LEMMA JoinSound ==
  ASSUME RInv, NEW c \in Concerts, NEW u \in Users, AddGroupMember(c, u)
  PROVE  RInv'
<1>1. members \in [Concerts -> SUBSET Users]
  BY DEF RInv, TypeOK
<1>2. /\ members' \in [Concerts -> SUBSET Users]
      /\ \A d \in Concerts : members[d] \subseteq members'[d]
  BY <1>1 DEF AddGroupMember
<1>3. TypeOK'
  BY <1>2 DEF RInv, TypeOK, AddGroupMember
<1>4. RemindersTimely' /\ StillThere'
  <2>1. \A k \in DOMAIN notifications : k[2] \in Concerts
    BY KeyParts DEF RInv, TypeOK
  <2> QED BY <1>2, <2>1 DEF RInv, RemindersTimely, StillThere, AddGroupMember
<1>5. ASSUME NEW v \in Workers PROVE ScanSound(v)'
  <2>1. \A k \in scan[v].rows : k[2] \in Concerts
    BY KeyParts DEF RInv, TypeOK, Tick
  <2> QED BY <1>2, <2>1 DEF RInv, ScanSound, HoldsLock, AddGroupMember
<1>6. \A v, x \in Workers : HoldsLock(v)' /\ HoldsLock(x)' => v = x
  BY DEF RInv, HoldsLock, AddGroupMember
<1>7. \A d \in Concerts, x \in Users : rsvp'[d][x] # "none" => x \in members'[d]
  BY <1>2 DEF RInv, AddGroupMember
<1> QED BY <1>3, <1>4, <1>5, <1>6, <1>7 DEF RInv

LEMMA PassSound ==
  ASSUME RInv, Pass
  PROVE  RInv'
<1>1. /\ now \in Nat /\ now' = now + 1 /\ now' \in 0..MaxTime
      /\ UNCHANGED <<members, rsvp, notifications, scan, crashes, reminded>>
  BY BoundsAssumption DEF RInv, TypeOK, Pass
<1>2. TypeOK' /\ RemindersTimely'
  BY <1>1 DEF RInv, TypeOK, RemindersTimely
<1>3. StillThere'
  <2>1. \A k \in reminded : Due(k) \in Nat
    BY KeyParts DEF RInv, TypeOK
  <2> QED BY <1>1, <2>1, WindowAssumption DEF RInv, StillThere, Due
<1>4. ASSUME NEW v \in Workers PROVE ScanSound(v)'
  <2>1. scan[v].at \in Nat
    BY DEF RInv, TypeOK, Tick
  <2>2. HoldsLock(v) => now < scan[v].at + MaxScan
    BY DEF Pass
  <2> QED BY <1>1, <2>1, <2>2, WindowAssumption DEF RInv, ScanSound, HoldsLock, Due
<1>5. \A v, x \in Workers : HoldsLock(v)' /\ HoldsLock(x)' => v = x
  BY <1>1 DEF RInv, HoldsLock
<1>6. \A c \in Concerts, u \in Users : rsvp'[c][u] # "none" => u \in members'[c]
  BY <1>1 DEF RInv
<1> QED BY <1>2, <1>3, <1>4, <1>5, <1>6 DEF RInv

LEMMA RNext == RInv /\ [Next]_vars => RInv'
<1>1. ASSUME RInv, UNCHANGED vars PROVE RInv'
  BY <1>1 DEF vars, RInv, TypeOK, RemindersTimely, StillThere, ScanSound, HoldsLock
<1>2. ASSUME RInv, NEW v \in Workers, Work(v) \/ Crash(v) PROVE RInv'
  BY <1>2, BeginSound, ScansSound, CommitSound, SendPendingSound, PruneSound, CrashSound
     DEF Work
<1>3. ASSUME RInv, NEW c \in Concerts, NEW u \in Users, UpsertRSVP(c, u) \/ AddGroupMember(c, u)
      PROVE  RInv'
  BY <1>3, AnswerSound, JoinSound
<1>4. ASSUME RInv, Pass PROVE RInv'
  BY <1>4, PassSound
<1> QED BY <1>1, <1>2, <1>3, <1>4 DEF Next

LEMMA AlwaysRInv == Spec => []RInv
  BY RInit, RNext, PTL DEF Spec

\* Members, answers, rows and scans are well typed.
THEOREM RemindersTypes == Spec => []TypeOK
<1>1. RInv => TypeOK
  BY DEF RInv
<1> QED BY <1>1, AlwaysRInv, PTL

\* A reminder is written in its window and for a member, however long the scan
\* takes that writes it.
THEOREM AlwaysTimely == Spec => []RemindersTimely
<1>1. RInv => RemindersTimely
  BY DEF RInv
<1> QED BY <1>1, AlwaysRInv, PTL

\* Nobody is reminded twice: the row of a reminder is kept for longer than its
\* window and any scan that began in it.
THEOREM AlwaysOnce == Spec => RemindedOnce
<1> DEFINE Fresh == \A v \in Workers :
             scan'[v].pc = "send" /\ scan[v].pc = "commit" => scan[v].rows \cap reminded = {}
<1>1. RInv => Fresh
  BY DEF RInv, ScanSound
<1>2. RInv /\ [Next]_vars => [Fresh]_vars
  BY <1>1
<1> QED BY <1>2, AlwaysRInv, PTL DEF Spec, RemindedOnce

================================================================================
