SPECIFICATION FairSpec
CONSTANTS
  Nil = Nil
  Users = {u1}
  Notifs = {n1, n2}
  Endpoints = {e1, e2}
  SubIds = {s1, s2}
  Workers = {w1, w2}
  Batch = 1
  MaxCrashes = 1
PROPERTIES EveryNotificationSettled
