------------------------------- MODULE Reminders -------------------------------
(***************************************************************************)
(* The reminder scan of the worker (worker.go, Tick and scan) against the  *)
(* clock, the answers of the members and the pruning of old notifications. *)
(*                                                                         *)
(* Every replica scans once a minute, under an advisory lock, in one       *)
(* transaction whose now() is the time it began.  A reminder has a         *)
(* dedup_key, <<type, concert, user>> here; what keeps a member from being *)
(* reminded twice is that the row of the first reminder is still there.    *)
(***************************************************************************)
EXTENDS Naturals, FiniteSets, Functions

CONSTANTS
  Users, Concerts, Workers,
  Deadline,    \* rsvp_deadline of each concert, never changed
  Event,       \* event_at, not before the deadline
  Window,      \* how long before those a reminder is sent: 24 hours
  Retention,   \* how long a settled notification is kept: 30 days
  MaxScan,     \* a scan's transaction is shorter than this
  MaxTime,     \* bound of the model: the clock stops here
  MaxCrashes   \* bound of the model: how often a scan is lost

ASSUME ScheduleAssumption ==
  /\ Deadline \in [Concerts -> Nat] /\ Event \in [Concerts -> Nat]
  /\ \A c \in Concerts : Deadline[c] <= Event[c]
ASSUME BoundsAssumption == MaxTime \in Nat /\ MaxCrashes \in Nat
\* 24 hours and any scan are much shorter than 30 days.
ASSUME WindowAssumption ==
  /\ Window \in Nat /\ Retention \in Nat /\ MaxScan \in Nat
  /\ Window + MaxScan <= Retention

VARIABLES
  now,
  members,        \* the group of each concert
  rsvp,           \* the committed answers
  notifications,  \* a function from the dedup_keys of the rows in the table
  scan,           \* what each worker's tick holds
  crashes,
  reminded        \* history: keys for which a reminder was ever committed

vars == <<now, members, rsvp, notifications, scan, crashes, reminded>>

--------------------------------------------------------------------------------
Types == {"deadline_soon", "concert_soon"}
Keys == Types \X Concerts \X Users
Row == [status : {"pending", "settled"}, created : Nat]

\* "send" stands for sendPending, which Worker models.
PCs == {"idle", "deadline", "concert", "commit", "send", "prune"}
Tick == [pc : PCs, at : Nat, rows : SUBSET Keys]
NoScan(pc) == [pc |-> pc, at |-> 0, rows |-> {}]

\* pg_try_advisory_xact_lock: held until the transaction ends.
HoldsLock(v) == scan[v].pc \in {"deadline", "concert", "commit"}

InWindow(time, at) == at < time /\ time <= at + Window

\* INSERT ... SELECT ... ON CONFLICT (dedup_key) DO NOTHING: keys that are in the
\* table stay as they are.  Rows another transaction has inserted are waited for.
Insert(v, due, next) ==
  /\ \A x \in Workers \ {v} : scan[x].rows \cap due = {}
  /\ scan' = [scan EXCEPT ![v].pc = next,
                          ![v].rows = @ \cup (due \ DOMAIN notifications)]
  /\ UNCHANGED <<now, members, rsvp, notifications, crashes, reminded>>

--------------------------------------------------------------------------------
(* Fault: pg_try_advisory_lock, which is the session's: never released. *)
BeginSessionLock(v) ==
  /\ scan[v].pc = "idle"
  /\ scan' = [scan EXCEPT ![v] =
       IF reminded # {} \/ \E x \in Workers : HoldsLock(x) THEN NoScan("send")
       ELSE [NoScan("deadline") EXCEPT !.at = now]]
  /\ UNCHANGED <<now, members, rsvp, notifications, crashes, reminded>>

\* Whoever does not get the lock goes on to send.
Begin(v) ==
  /\ scan[v].pc = "idle"
  /\ scan' = [scan EXCEPT ![v] =
       IF \E x \in Workers : HoldsLock(x) THEN NoScan("send")
       ELSE [NoScan("deadline") EXCEPT !.at = now]]
  /\ UNCHANGED <<now, members, rsvp, notifications, crashes, reminded>>

\* Fault: a type the CHECK of the column does not know.
ScanDeadlineMistyped(v) ==
  /\ scan[v].pc = "deadline"
  /\ Insert(v, {<<"rsvp_deadline", y[1], y[2]>> : y \in
                  {x \in Concerts \X Users : /\ InWindow(Deadline[x[1]], scan[v].at)
                                             /\ x[2] \in members[x[1]]
                                             /\ rsvp[x[1]][x[2]] = "none"}},
            "concert")

\* Members who have not answered.
ScanDeadlineReminders(v) ==
  /\ scan[v].pc = "deadline"
  /\ Insert(v, {k \in Keys : /\ k[1] = "deadline_soon"
                             /\ InWindow(Deadline[k[2]], scan[v].at)
                             /\ k[3] \in members[k[2]]
                             /\ rsvp[k[2]][k[3]] = "none"},
            "concert")

\* Fault: WHERE event_at <= now() + 24 hours, without event_at > now().
ScanConcertsPast(v) ==
  /\ scan[v].pc = "concert"
  /\ Insert(v, {k \in Keys : /\ k[1] = "concert_soon"
                             /\ Event[k[2]] <= scan[v].at + Window
                             /\ rsvp[k[2]][k[3]] = "yes"},
            "commit")

\* Everyone who has answered yes.
ScanConcertReminders(v) ==
  /\ scan[v].pc = "concert"
  /\ Insert(v, {k \in Keys : /\ k[1] = "concert_soon"
                             /\ InWindow(Event[k[2]], scan[v].at)
                             /\ rsvp[k[2]][k[3]] = "yes"},
            "commit")

Commit(v) ==
  /\ scan[v].pc = "commit"
  /\ notifications' = [k \in DOMAIN notifications \cup scan[v].rows |->
       IF k \in scan[v].rows THEN [status |-> "pending", created |-> scan[v].at]
                             ELSE notifications[k]]
  /\ reminded' = reminded \cup scan[v].rows
  /\ scan' = [scan EXCEPT ![v] = NoScan("send")]
  /\ UNCHANGED <<now, members, rsvp, crashes>>

\* sendPending settles a batch, any part of what is pending, or fails.
SendPending(v) ==
  /\ scan[v].pc = "send"
  /\ \E S \in SUBSET {k \in DOMAIN notifications : notifications[k].status = "pending"} :
       notifications' = [k \in DOMAIN notifications |->
         IF k \in S THEN [notifications[k] EXCEPT !.status = "settled"]
                    ELSE notifications[k]]
  /\ \E next \in {"prune", "idle"} : scan' = [scan EXCEPT ![v] = NoScan(next)]
  /\ UNCHANGED <<now, members, rsvp, crashes, reminded>>

\* Fault: whatever is settled is pruned.
PruneSettled(v) ==
  /\ scan[v].pc = "prune"
  /\ notifications' = Restrict(notifications,
       {k \in DOMAIN notifications : notifications[k].status = "pending"})
  /\ scan' = [scan EXCEPT ![v] = NoScan("idle")]
  /\ UNCHANGED <<now, members, rsvp, crashes, reminded>>

PruneOldNotifications(v) ==
  /\ scan[v].pc = "prune"
  /\ notifications' = Restrict(notifications,
       {k \in DOMAIN notifications : \/ notifications[k].status = "pending"
                                     \/ notifications[k].created + Retention >= now})
  /\ scan' = [scan EXCEPT ![v] = NoScan("idle")]
  /\ UNCHANGED <<now, members, rsvp, crashes, reminded>>

\* The transaction is rolled back and the lock with it; Tick returns the error.
Crash(v) ==
  /\ HoldsLock(v)
  /\ crashes < MaxCrashes
  /\ crashes' = crashes + 1
  /\ scan' = [scan EXCEPT ![v] = NoScan("idle")]
  /\ UNCHANGED <<now, members, rsvp, notifications, reminded>>

--------------------------------------------------------------------------------
(* The rest of the system *)

\* Answers are taken at any time, after the deadline too.
UpsertRSVP(c, u) ==
  /\ u \in members[c]
  /\ \E s \in {"yes", "no"} : rsvp' = [rsvp EXCEPT ![c][u] = s]
  /\ UNCHANGED <<now, members, notifications, scan, crashes, reminded>>

AddGroupMember(c, u) ==
  /\ members' = [members EXCEPT ![c] = @ \cup {u}]
  /\ UNCHANGED <<now, rsvp, notifications, scan, crashes, reminded>>

Pass ==
  /\ now < MaxTime
  /\ \A v \in Workers : HoldsLock(v) => now < scan[v].at + MaxScan
  /\ now' = now + 1
  /\ UNCHANGED <<members, rsvp, notifications, scan, crashes, reminded>>

Work(v) ==
  \/ Begin(v) \/ ScanDeadlineReminders(v) \/ ScanConcertReminders(v) \/ Commit(v)
  \/ SendPending(v) \/ PruneOldNotifications(v)

Init ==
  /\ now = 0
  /\ members \in [Concerts -> SUBSET Users \ {{}}]   \* its creator at least
  /\ rsvp = [c \in Concerts |-> [u \in Users |-> "none"]]
  /\ notifications = [k \in {} |-> 0]
  /\ scan = [v \in Workers |-> NoScan("idle")]
  /\ crashes = 0
  /\ reminded = {}

Next ==
  \/ \E v \in Workers : Work(v) \/ Crash(v)
  \/ \E c \in Concerts, u \in Users : UpsertRSVP(c, u) \/ AddGroupMember(c, u)
  \/ Pass

Spec == Init /\ [][Next]_vars

\* Every replica's ticker keeps firing.  The clock is not fair: a minute is short
\* against a day, so a worker gets to scan while a window is open.
FairSpec == Spec /\ \A v \in Workers : WF_vars(Work(v))

--------------------------------------------------------------------------------
(* Properties *)

TypeOK ==
  /\ now \in 0..MaxTime
  /\ members \in [Concerts -> SUBSET Users]
  /\ rsvp \in [Concerts -> [Users -> {"none", "yes", "no"}]]
  /\ DOMAIN notifications \subseteq Keys
  /\ notifications \in [DOMAIN notifications -> Row]
  /\ scan \in [Workers -> Tick]
  /\ crashes \in 0..MaxCrashes
  /\ reminded \subseteq Keys

\* Nobody is reminded twice of the same thing: not by two replicas, not after a
\* scan was lost, not when the first reminder has been settled and pruned.
RemindedOnce == [][ \A v \in Workers :
  scan'[v].pc = "send" /\ scan[v].pc = "commit" => scan[v].rows \cap reminded = {} ]_vars

\* A reminder is only ever for the time before what it reminds of, and only for a
\* member, however late the scan that wrote it commits.
RemindersTimely ==
  \A k \in DOMAIN notifications :
    /\ k[3] \in members[k[2]]
    /\ InWindow(IF k[1] = "deadline_soon" THEN Deadline[k[2]] ELSE Event[k[2]],
                notifications[k].created)

\* A member who is coming, and one who has not answered, is reminded while the
\* window of the concert, or of its deadline, is open, whichever scans are lost
\* and whoever holds the lock.
EveryoneReminded ==
  \A c \in Concerts, u \in Users :
    /\ (rsvp[c][u] = "yes" /\ InWindow(Event[c], now)) ~>
         \/ <<"concert_soon", c, u>> \in reminded
         \/ rsvp[c][u] # "yes"
         \/ now >= Event[c]
    /\ (u \in members[c] /\ rsvp[c][u] = "none" /\ InWindow(Deadline[c], now)) ~>
         \/ <<"deadline_soon", c, u>> \in reminded
         \/ rsvp[c][u] # "none"
         \/ now >= Deadline[c]

--------------------------------------------------------------------------------
(* The inductive invariant *)

\* When what a reminder is about happens.
Due(k) == IF k[1] = "deadline_soon" THEN Deadline[k[2]] ELSE Event[k[2]]

\* A scan in flight is alone, short, and writes what nobody was ever reminded of.
ScanSound(v) ==
  /\ HoldsLock(v) => scan[v].at <= now /\ now <= scan[v].at + MaxScan
  /\ ~HoldsLock(v) => scan[v].rows = {}
  /\ \A k \in scan[v].rows :
       k[3] \in members[k[2]] /\ InWindow(Due(k), scan[v].at) /\ k \notin reminded

\* The row of a reminder outlives the time in which it could be repeated.
StillThere ==
  \A k \in reminded : k \in DOMAIN notifications \/ now > Due(k) + MaxScan

RInv ==
  /\ TypeOK
  /\ RemindersTimely
  /\ StillThere
  /\ \A v \in Workers : ScanSound(v)
  /\ \A v, x \in Workers : HoldsLock(v) /\ HoldsLock(x) => v = x
  /\ \A c \in Concerts, u \in Users : rsvp[c][u] # "none" => u \in members[c]

================================================================================
