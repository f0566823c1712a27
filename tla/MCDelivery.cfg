SPECIFICATION DeliverySpec
CONSTANTS
  Nil = Nil
  Users = {u1, u2}
  Notifs = {n1, n2}
  Endpoints = {e1, e2}
  SubIds = {s1, s2}
  Workers = {w1, w2}
  Batch = 2
  MaxCrashes = 1
SYMMETRY MCSymmetry
INVARIANTS TypeOK OneUserPerBrowser SentMeansServed NoNeedlessResend
PROPERTIES OnlyDeadDeleted ImplementsOutbox
