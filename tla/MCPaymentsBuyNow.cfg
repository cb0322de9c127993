CONSTANTS
  a1 = a1
  a2 = a2
  b1 = b1
  alice = alice
  NoUser = NoUser
  NoOrder = NoOrder
  NoTicket = NoTicket
  NoCode = NoCode
  Orders = {b1}
  Workers = {w1, w2}
  Codes = {c1, c2, c3, c4}
  MaxNotices = 1
  MaxReturns = 1
  MaxAborts = 1
  Users <- MCUsers
  Tickets <- MCTickets
  OrderOf <- MCOrderOf
  Kind <- MCKind
  Buyer <- MCBuyer
SPECIFICATION Spec
SYMMETRY Symmetry
INVARIANTS TypeOK CodesBeforePaid
