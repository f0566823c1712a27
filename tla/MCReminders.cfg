SPECIFICATION FairSpec
CONSTANTS
  Users = {u1}
  Concerts = {c1}
  Workers = {w1, w2}
  Deadline <- MCDeadline
  Event <- MCEvent
  Window = 2
  Retention = 3
  MaxScan = 1
  MaxTime = 7
  MaxCrashes = 2
INVARIANTS TypeOK RemindersTimely
PROPERTIES RemindedOnce EveryoneReminded
