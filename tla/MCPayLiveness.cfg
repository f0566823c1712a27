SPECIFICATION FairSpec
CONSTANTS
  u1 = u1
  u2 = u2
  u3 = u3
  c1 = c1
  paypal = paypal
  Nil = Nil
  Users = {u1, u2}
  Concerts = {c1}
  Members <- MCMembers
  Procs = {p1, p2}
  CollIds = {k1, k2}
  ItemIds = {i1, i2}
  AmountInputs = {5}
  Links = {paypal}
  Ops <- LivenessOps
PROPERTY EveryRequestAnswered
