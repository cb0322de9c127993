\* Two users submit one code of a distributor at the same time; no administrator.
CONSTANTS
  d1 = d1  d2 = d2  s1 = s1  p1 = p1  t1 = t1
  Codes = {d1}
  CodeKind <- MCKind
  Sold <- MCSold
  Users = {ann, bob}
  NoUser = NoUser
  Tickets = {t2, t3}
  NoTicket = NoTicket
  NoCode = NoCode
  Workers = {w1, w2}
SPECIFICATION UsersOnlySpec
INVARIANT OneHolderPerCode
CHECK_DEADLOCK FALSE
