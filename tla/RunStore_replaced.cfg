CONSTANTS
  p1 = p1  p2 = p2  v1 = v1  u1 = u1  c1 = c1  c2 = c2  c3 = c3  c4 = c4
  Products = {p1, p2}
  Reviews = {v1}
  Updates = {u1}
  Clients = {c1, c2, c3}
  MaxCrashes = 1
  Torn = Torn
  None = None
SPECIFICATION Spec
CHECK_DEADLOCK FALSE
INVARIANT BindingNeverReplaced
