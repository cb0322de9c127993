--------------------------- MODULE OrderLifecycle ---------------------------
(***************************************************************************)
(* The life of orders as app/models/order.rb declares it, with no          *)
(* requests, workers or gateways: an order moves along its declared        *)
(* transitions one whole event at a time, a refund takes every ticket of   *)
(* the order away from its holder in the same step, and a ticket is handed *)
(* only to the buyer of an order that is paid, in exchange for the ticket  *)
(* of that kind the buyer held.  Payments.tla is the implementation.       *)
(***************************************************************************)
EXTENDS OrderBook

VARIABLES
  payState,  \* [Orders -> PayStates]: orders.payment_state
  holder     \* [Tickets -> Users \cup {NoUser}]: tickets.user_id

vars == <<payState, holder>>

Init ==
  /\ payState = [o \in Orders |-> "unpaid"]
  /\ holder = [t \in Tickets |-> NoUser]

\* Every declared event but refund: the state changes and nothing else.
Transition(o, ev) ==
  /\ payState[o] \in From[ev]
  /\ payState' = [payState EXCEPT ![o] = To[ev]]
  /\ UNCHANGED holder

\* after_transition any => :refunded, do: :cancel_tickets
Refund(o) ==
  /\ payState[o] \in From["refund"]
  /\ payState' = [payState EXCEPT ![o] = "refunded"]
  /\ holder' = [t \in Tickets |-> IF OrderOf[t] = o THEN NoUser ELSE holder[t]]

\* The buyer gets a ticket of the paid order and gives back what they held.
HandOver(o) ==
  /\ payState[o] = "paid" /\ ~BuyNow(o)
  /\ \E t \in TicketsOf(o) :
       holder' = [s \in Tickets |->
                    IF s = t THEN Buyer[o]
                    ELSE IF holder[s] = Buyer[o] /\ Kind[s] = Kind[t] THEN NoUser
                    ELSE holder[s]]
  /\ UNCHANGED payState

Next ==
  \E o \in Orders :
    \/ \E ev \in Events \ {"refund"} : Transition(o, ev)
    \/ Refund(o)
    \/ HandOver(o)

Spec == Init /\ [][Next]_vars

=============================================================================
