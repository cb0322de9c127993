CONSTANTS
  a1 = a1
  a2 = a2
  b1 = b1
  alice = alice
  NoUser = NoUser
  NoOrder = NoOrder
  NoTicket = NoTicket
  NoCode = NoCode
  Orders = {a1}
  Workers = {w1, w2}
  Codes = {c1}
  MaxNotices = 1
  MaxReturns = 0
  MaxAborts = 0
  Users <- MCUsers
  Tickets <- MCTickets
  OrderOf <- MCOrderOf
  Kind <- MCKind
  Buyer <- MCBuyer
SPECIFICATION Spec
PROPERTY ImplementsLifecycle
