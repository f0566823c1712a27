SPECIFICATION Spec
CONSTANTS
  Users = {u1, u2}
  Groups = {g1, g2}
  Codes = {k1, k2}
  Concerts = {c1}
  Reqs = {r1, r2}
  Nil = Nil
SYMMETRY MCSymmetry
INVARIANTS TypeOK CodesUnique CreatorIsAdmin StaysInGroup MembersAnnounced CoAttendeesTold
PROPERTIES AdminReplacesCode
