\* One worker: requests do not overlap, but may die half way.
CONSTANTS
  d1 = d1  d2 = d2  s1 = s1  p1 = p1  t1 = t1
  Codes = {d1, d2, s1, p1}
  CodeKind <- MCKind
  Sold <- MCSold
  Users = {ann, bob}
  NoUser = NoUser
  Tickets = {t1, t2, t3, t4}
  NoTicket = NoTicket
  NoCode = NoCode
  Workers = {w1}
SPECIFICATION Spec
SYMMETRY Symmetry
INVARIANT OneHolderPerCode
INVARIANT OneTicketPerKind
INVARIANT HeldIsActive
PROPERTY ImplementsLifecycle
