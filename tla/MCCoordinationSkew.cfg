SPECIFICATION Spec
CONSTANTS
  Users = {u1, u2}
  Groups = {g1}
  Codes = {k1}
  Concerts = {c1}
  Reqs = {r1, r2}
  Nil = Nil
SYMMETRY MCSymmetry
INVARIANTS OneOfTwoTold
