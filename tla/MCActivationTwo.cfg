\* Two workers interleave.
CONSTANTS
  d1 = d1  d2 = d2  s1 = s1  p1 = p1  t1 = t1
  Codes = {d1, s1}
  CodeKind <- MCKind
  Sold <- MCSold
  Users = {ann, bob}
  NoUser = NoUser
  Tickets = {t1, t2, t3}
  NoTicket = NoTicket
  NoCode = NoCode
  Workers = {w1, w2}
SPECIFICATION Spec
SYMMETRY Symmetry
INVARIANT TypeOK
INVARIANT HeldWasActivated
