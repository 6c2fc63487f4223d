SPECIFICATION Spec
CONSTANTS
  x1 = x1
  x2 = x2
  a = a
  b = b
  z = z
  ph1 = ph1
  em1 = em1
  em2 = em2
  c1 = c1
  c2 = c2
  w1 = w1
  w2 = w2
  NoRequest = NoRequest
  Request = {x1, x2}
  NoContent = NoContent
  Content = {a, b, z}
  Phone = {ph1}
  NoPhone = NoPhone
  Email = {em1, em2}
  NoEmail = NoEmail
  Customer = {c1, c2}
  NoCustomer = NoCustomer
  Worker = {w1, w2}
  MaxSaves = 3
  MaxKills = 1
SYMMETRY Alike
CHECK_DEADLOCK FALSE
INVARIANTS
  ProvenDuplicatesMerge
