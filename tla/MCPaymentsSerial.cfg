CONSTANTS
  a1 = a1
  a2 = a2
  b1 = b1
  alice = alice
  NoUser = NoUser
  NoOrder = NoOrder
  NoTicket = NoTicket
  NoCode = NoCode
  Orders = {a1, a2}
  Workers = {w1}
  Codes = {c1, c2, c3, c4}
  MaxNotices = 2
  MaxReturns = 0
  MaxAborts = 1
  Users <- MCUsers
  Tickets <- MCTickets
  OrderOf <- MCOrderOf
  Kind <- MCKind
  Buyer <- MCBuyer
SPECIFICATION FairSpec
INVARIANTS OneTicketPerKind HeldIsPaid HeldWasPaid
PROPERTIES ImplementsLifecycle PaymentSettles
