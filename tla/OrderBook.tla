------------------------------ MODULE OrderBook ------------------------------
(***************************************************************************)
(* What every module about orders shares: the rows that exist (orders,     *)
(* their tickets, the users who bought them) and the state machine of      *)
(* Order#payment_state (app/models/order.rb).                              *)
(*                                                                         *)
(* `tickets' and `afterparty_tickets' are two tables with the same columns *)
(* and the same model code; they are one set here, told apart by Kind.     *)
(* Tickets are natural numbers because the code orders rows by primary key.*)
(***************************************************************************)
EXTENDS Integers

CONSTANTS
  Orders,   \* the orders, all created (CreateOrder has run)
  Tickets,  \* the ticket rows, by primary key
  Users,
  NoUser,   \* NULL in tickets.user_id and orders.user_id
  OrderOf,  \* tickets.order_id
  Kind,     \* which of the two ticket tables a row is in
  Buyer     \* orders.user_id: NoUser for an order made on /buy_now

Kinds == {"conference", "party"}

ASSUME OrderBookAssumption ==
  /\ Tickets \subseteq Nat
  /\ NoUser \notin Users
  /\ OrderOf \in [Tickets -> Orders]
  /\ Kind \in [Tickets -> Kinds]
  /\ Buyer \in [Orders -> Users \cup {NoUser}]

PayStates == {"unpaid", "paid", "canceled", "refunded", "declined"}
Events == {"pay", "cancel", "refund", "decline"}

\* `transition [...] => ...' of each event of Order#payment_state.
From == [pay     |-> {"unpaid", "declined"},
         cancel  |-> {"unpaid"},
         refund  |-> {"paid"},
         decline |-> {"unpaid"}]

To == [pay     |-> "paid",
       cancel  |-> "canceled",
       refund  |-> "refunded",
       decline |-> "declined"]

TicketsOf(o) == {t \in Tickets : OrderOf[t] = o}
TicketsOfKind(o, k) == {t \in TicketsOf(o) : Kind[t] = k}

\* Order#from = buy_now: bought by a visitor, codes are sent by mail.
BuyNow(o) == Buyer[o] = NoUser

=============================================================================
