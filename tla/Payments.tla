------------------------------ MODULE Payments ------------------------------
(***************************************************************************)
(* Paying, declining, canceling and refunding orders.                      *)
(*                                                                         *)
(* The application runs in several unicorn worker processes, each serving  *)
(* one request at a time.  A request first loads the order, then works on  *)
(* that copy: `seen' is the payment_state it read, and state_machine       *)
(* decides by it whether an event may fire, while the UPDATE that follows  *)
(* is by primary key alone.  No lock and no transaction spans a request,   *)
(* so one action here is one database transaction (or one read), and the   *)
(* steps of two workers interleave between them.                           *)
(***************************************************************************)
EXTENDS OrderBook

CONSTANTS
  Codes,          \* the ticket_codes rows that can be created
  Workers,        \* the unicorn worker processes
  NoOrder, NoTicket, NoCode,
  MaxNotices,     \* bound: notifications of one payment the gateways send
  MaxReturns,     \* bound: browser returns to approve of /buy_now orders
  MaxAborts       \* bound: requests that die half way

ASSUME PaymentsAssumption ==
  /\ NoOrder \notin Orders
  /\ NoTicket \notin Tickets
  /\ NoCode \notin Codes
  /\ MaxNotices \in Nat
  /\ MaxReturns \in Nat
  /\ MaxAborts \in Nat

VARIABLES
  payState,    \* orders.payment_state
  paidBy,      \* history: what last made the order paid
  holder,      \* tickets.user_id
  ticketCode,  \* tickets.ticket_code_id
  codeState,   \* ticket_codes.state, "absent" before the row exists
  req,         \* the request each worker serves
  gateway,     \* the payment's status at the payment system
  notices,     \* how often the payment system will still announce the payment
  returns,     \* the browser returns there were so far
  mailed,      \* UserMailer.send_ticket_codes was enqueued
  aborts       \* requests that died half way so far

tables == <<payState, paidBy, holder, ticketCode, codeState>>
outside == <<gateway, notices, returns, mailed, aborts>>
vars == <<tables, req, outside>>

GatewayStatus == {"nonpaid", "paid", "declined", "reverse", "refund"}
CodeStates == {"absent", "new", "active", "canceled"}
PaidBy == {"nothing", "buy_now", "regular", "event"}

\* Where in its handler a request is: the next thing it does.
Places == {"idle",
           "codes",  \* BuyNow: make the next code, or pay when none is left
           "mail",   \* BuyNow: paid, the letter is next
           "pay",    \* RegularOrder: order.pay!
           "find",   \* RegularOrder: read which ticket the buyer holds
           "link",   \* RegularOrder: order.user.ticket = ...
           "query",  \* platidoma: waiting for the status of the payment
           "event"}  \* about to fire `event' on the order

Requests == [at      : Places,
             order   : Orders \cup {NoOrder},
             seen    : PayStates,
             notice  : BOOLEAN,          \* a gateway waits for the answer
             event   : Events,
             uncoded : SUBSET Tickets,   \* tickets the BuyNow loop has yet to visit
             kind    : Kinds,            \* the ticket being linked
             held    : Tickets \cup {NoTicket}]

Idle == [at |-> "idle", order |-> NoOrder, seen |-> "unpaid", notice |-> FALSE,
         event |-> "pay", uncoded |-> {}, kind |-> "conference", held |-> NoTicket]

\* Order.find_by number: a worker takes a request and loads the order.
Load(o, place) == [Idle EXCEPT !.at = place, !.order = o, !.seen = payState[o]]

TypeOK ==
  /\ payState \in [Orders -> PayStates]
  /\ paidBy \in [Orders -> PaidBy]
  /\ holder \in [Tickets -> Users \cup {NoUser}]
  /\ ticketCode \in [Tickets -> Codes \cup {NoCode}]
  /\ codeState \in [Codes -> CodeStates]
  /\ req \in [Workers -> Requests]
  /\ gateway \in [Orders -> GatewayStatus]
  /\ notices \in [Orders -> 0..MaxNotices]
  /\ returns \in 0..MaxReturns
  /\ mailed \in [Orders -> BOOLEAN]
  /\ aborts \in 0..MaxAborts

Init ==
  /\ payState = [o \in Orders |-> "unpaid"]
  /\ paidBy = [o \in Orders |-> "nothing"]
  /\ holder = [t \in Tickets |-> NoUser]
  /\ ticketCode = [t \in Tickets |-> NoCode]
  /\ codeState = [c \in Codes |-> "absent"]
  /\ req = [w \in Workers |-> Idle]
  /\ gateway = [o \in Orders |-> "nonpaid"]
  /\ notices = [o \in Orders |-> MaxNotices]
  /\ returns = 0
  /\ mailed = [o \in Orders |-> FALSE]
  /\ aborts = 0

-----------------------------------------------------------------------------
(* The payment systems (external).                                         *)

GatewayStep(o) ==
  /\ \/ gateway[o] \in {"nonpaid", "declined"} /\ gateway' = [gateway EXCEPT ![o] = "paid"]
     \/ gateway[o] = "nonpaid" /\ gateway' = [gateway EXCEPT ![o] = "declined"]
     \/ /\ gateway[o] = "paid"
        /\ \E s \in {"reverse", "refund"} : gateway' = [gateway EXCEPT ![o] = s]
  /\ UNCHANGED <<tables, req, notices, returns, mailed, aborts>>

-----------------------------------------------------------------------------
(* Requests arriving.                                                      *)

\* Mutant: RegularOrder links the tickets before it pays.
ProcessLinkFirst(o, strategy) ==
  IF strategy = "buy_now" THEN [Load(o, "codes") EXCEPT !.uncoded = TicketsOf(o)]
                          ELSE Load(o, "find")

\* The strategy's first statement, given the order it was called with.
Process(o, strategy) ==
  IF strategy = "buy_now" THEN [Load(o, "codes") EXCEPT !.uncoded = TicketsOf(o)]
                          ELSE Load(o, "pay")

\* Mutant: the gateway is answered before the payment is processed.
AnswerOnReceipt(w, o) ==
  /\ req[w].at = "idle"
  /\ gateway[o] = "paid" /\ notices[o] > 0
  /\ notices' = [notices EXCEPT ![o] = 0]
  /\ req' = [req EXCEPT ![w] = Process(o, IF BuyNow(o) THEN "buy_now" ELSE "regular")]
  /\ UNCHANGED <<tables, gateway, returns, mailed, aborts>>

\* paid_payanyway and payment_aviso: sent until the answer is SUCCESS.
PaidNotification(w, o) ==
  /\ req[w].at = "idle"
  /\ gateway[o] = "paid" /\ notices[o] > 0
  /\ notices' = [notices EXCEPT ![o] = @ - 1]
  /\ req' = [req EXCEPT ![w] =
       [Process(o, IF BuyNow(o) THEN "buy_now" ELSE "regular") EXCEPT !.notice = TRUE]]
  /\ UNCHANGED <<tables, gateway, returns, mailed, aborts>>

\* account/orders#approve of a /buy_now order: whoever's browser comes back, the
\* order is processed as paid, whatever its state and its payment's (a TODO).
ApproveBuyNow(w, o) ==
  /\ req[w].at = "idle"
  /\ BuyNow(o)
  /\ returns < MaxReturns
  /\ returns' = returns + 1
  /\ req' = [req EXCEPT ![w] = Process(o, "buy_now")]
  /\ UNCHANGED <<tables, gateway, notices, mailed, aborts>>

\* account/orders#approve, #cancel, #decline and #update ask platidoma for the
\* status: approve only for account orders, update only for the user's own.
StatusRequest(w, o) ==
  /\ req[w].at = "idle"
  /\ req' = [req EXCEPT ![w] = Load(o, "query")]
  /\ UNCHANGED <<tables, outside>>

\* payments#decline_payanyway, #cancel_payanyway (cancel, decline) and
\* admin/orders#update with payment_state_event (any event).
EventRequest(w, o, ev) ==
  /\ req[w].at = "idle"
  /\ req' = [req EXCEPT ![w] = [Load(o, "event") EXCEPT !.event = ev]]
  /\ UNCHANGED <<tables, outside>>

-----------------------------------------------------------------------------
(* Requests being served.                                                  *)

\* The handler is over.  A gateway that waits for the answer and receives it
\* announces the payment no more; the answer may also be lost.
Finish(w) ==
  /\ req' = [req EXCEPT ![w] = Idle]
  /\ \/ req[w].notice /\ notices' = [notices EXCEPT ![req[w].order] = 0]
     \/ UNCHANGED notices

\* The handler raises, or runs to its end without an answer that matters.
Leave(w) ==
  /\ req' = [req EXCEPT ![w] = Idle]
  /\ UNCHANGED notices

\* Mutant: the transition table is not consulted.
MayAlwaysFire(w, ev) == TRUE

\* event! on the loaded order: allowed by what was seen, written by id.
MayFire(w, ev) == req[w].seen \in From[ev]

\* Mutant: the event's name is written instead of its target state.
WriteEventName(o, ev, how) ==
  /\ payState' = [payState EXCEPT ![o] = ev]
  /\ UNCHANGED paidBy

\* The UPDATE of orders.payment_state.
Write(o, ev, how) ==
  /\ payState' = [payState EXCEPT ![o] = To[ev]]
  /\ paidBy' = IF ev = "pay" THEN [paidBy EXCEPT ![o] = how] ELSE paidBy

\* One turn of the loops of BuyNow#call: TicketCode.create with the ticket,
\* which inserts the code and points the ticket at it, whatever code it had.
CreateCode(w) ==
  /\ req[w].at = "codes"
  /\ \E t \in req[w].uncoded, c \in Codes :
       /\ Kind[t] = "party" => \A s \in req[w].uncoded : Kind[s] = "party"
       /\ codeState[c] = "absent"
       /\ codeState' = [codeState EXCEPT ![c] = "new"]
       /\ ticketCode' = [ticketCode EXCEPT ![t] = c]
       /\ req' = [req EXCEPT ![w].uncoded = @ \ {t}]
  /\ UNCHANGED <<payState, paidBy, holder, outside>>

\* Mutant: order.pay! may run before the loops are over.
PayBeforeCodes(w) ==
  /\ req[w].at = "codes" /\ MayFire(w, "pay")
  /\ Write(req[w].order, "pay", "buy_now")
  /\ req' = [req EXCEPT ![w].at = "mail"]
  /\ UNCHANGED <<holder, ticketCode, codeState, outside>>

\* BuyNow#call: order.pay! after the loops; it raises when not allowed.
PayBuyNow(w) ==
  /\ req[w].at = "codes" /\ req[w].uncoded = {}
  /\ \/ /\ MayFire(w, "pay")
        /\ Write(req[w].order, "pay", "buy_now")
        /\ req' = [req EXCEPT ![w].at = "mail"]
        /\ UNCHANGED notices
     \/ /\ ~MayFire(w, "pay")
        /\ Leave(w)
        /\ UNCHANGED <<payState, paidBy>>
  /\ UNCHANGED <<holder, ticketCode, codeState, gateway, returns, mailed, aborts>>

\* UserMailer.send_ticket_codes(order.id).deliver enqueues the letter.
EnqueueMail(w) ==
  /\ req[w].at = "mail"
  /\ mailed' = [mailed EXCEPT ![req[w].order] = TRUE]
  /\ Finish(w)
  /\ UNCHANGED <<tables, gateway, returns, aborts>>

\* RegularOrder#call: order.pay!
PayRegular(w) ==
  /\ req[w].at = "pay"
  /\ \/ /\ MayFire(w, "pay")
        /\ Write(req[w].order, "pay", "regular")
        /\ req' = [req EXCEPT ![w].at = "find"]
        /\ UNCHANGED notices
     \/ /\ ~MayFire(w, "pay")
        /\ Leave(w)
        /\ UNCHANGED <<payState, paidBy>>
  /\ UNCHANGED <<holder, ticketCode, codeState, gateway, returns, mailed, aborts>>

\* What follows the ticket of a kind: the afterparty ticket, then the answer.
NextKind(w) ==
  \/ /\ req[w].kind = "conference"
     /\ req' = [req EXCEPT ![w] = [@ EXCEPT !.at = "find", !.kind = "party", !.held = NoTicket]]
     /\ UNCHANGED notices
  \/ req[w].kind = "party" /\ Finish(w)

Held(u, k) == {t \in Tickets : holder[t] = u /\ Kind[t] = k}

\* link_ticket_to_user up to the has_one writer: an order without tickets of
\* the kind is skipped, an order without a user raises, else the ticket the
\* user has is loaded (LIMIT 1: any, when there are several).
FindHeld(w) ==
  LET o == req[w].order
      u == Buyer[o]
      held == Held(u, req[w].kind)
  IN
  /\ req[w].at = "find"
  /\ \/ TicketsOfKind(o, req[w].kind) = {} /\ NextKind(w)
     \/ TicketsOfKind(o, req[w].kind) # {} /\ u = NoUser /\ Leave(w)
     \/ /\ TicketsOfKind(o, req[w].kind) # {} /\ u # NoUser
        /\ \E h \in (IF held = {} THEN {NoTicket} ELSE held) :
             req' = [req EXCEPT ![w] = [@ EXCEPT !.at = "link", !.held = h]]
        /\ UNCHANGED notices
  /\ UNCHANGED <<tables, gateway, returns, mailed, aborts>>

\* Mutant: the ticket held before is not released.
HandedInAddition(t, held) == [holder EXCEPT ![t] = Buyer[OrderOf[t]]]

\* tickets.user_id after `user.ticket = t' when the ticket loaded was held.
Handed(t, held) ==
  IF held = t THEN holder
  ELSE [s \in Tickets |-> IF s = t THEN Buyer[OrderOf[t]]
                          ELSE IF s = held THEN NoUser
                          ELSE holder[s]]

\* order.user.ticket = order.tickets.first: in one transaction the loaded
\* ticket loses its user and the order's first ticket gets it.
LinkTicket(w) ==
  LET o == req[w].order IN
  /\ req[w].at = "link"
  /\ \E t \in TicketsOfKind(o, req[w].kind) :
       /\ \A s \in TicketsOfKind(o, req[w].kind) : t <= s
       /\ holder' = Handed(t, req[w].held)
  /\ NextKind(w)
  /\ UNCHANGED <<payState, paidBy, ticketCode, codeState, gateway, returns, mailed, aborts>>

\* update_payment_state, once platidoma has answered.
StatusAnswer(w) ==
  /\ req[w].at = "query"
  /\ LET status == gateway[req[w].order] IN
     \/ status = "nonpaid" /\ req' = [req EXCEPT ![w] = Idle]
     \/ status = "paid" /\ req' = [req EXCEPT ![w].at = "pay"]
     \/ status = "reverse" /\ req' = [req EXCEPT ![w] = [@ EXCEPT !.at = "event", !.event = "cancel"]]
     \/ status = "refund" /\ req' = [req EXCEPT ![w] = [@ EXCEPT !.at = "event", !.event = "refund"]]
     \/ status = "declined" /\ req' = [req EXCEPT ![w] = [@ EXCEPT !.at = "event", !.event = "decline"]]
  /\ UNCHANGED <<tables, outside>>

\* Mutant: the codes are canceled, the tickets keep their users.
CancelCodesOnly(o) ==
  /\ UNCHANGED holder
  /\ codeState' = [c \in Codes |->
       IF \E t \in TicketsOf(o) : ticketCode[t] = c THEN "canceled" ELSE codeState[c]]

\* Order#cancel_tickets: each ticket loses its user, its code is canceled.
CancelTickets(o) ==
  /\ holder' = [t \in Tickets |-> IF OrderOf[t] = o THEN NoUser ELSE holder[t]]
  /\ codeState' = [c \in Codes |->
       IF \E t \in TicketsOf(o) : ticketCode[t] = c THEN "canceled" ELSE codeState[c]]

\* The event fires in one transaction with its after_transition callback, or
\* is refused (false, no exception) because of the state that was seen.
FireEvent(w) ==
  LET o == req[w].order
      ev == req[w].event
  IN
  /\ req[w].at = "event"
  /\ \/ /\ MayFire(w, ev)
        /\ Write(o, ev, "event")
        /\ IF ev = "refund" THEN CancelTickets(o) ELSE UNCHANGED <<holder, codeState>>
     \/ ~MayFire(w, ev) /\ UNCHANGED <<payState, paidBy, holder, codeState>>
  /\ Leave(w)
  /\ UNCHANGED <<ticketCode, gateway, returns, mailed, aborts>>

\* The worker is killed (unicorn's timeout, a deploy) or a statement raises:
\* what was committed stays, the rest of the handler never runs.
Abort(w) ==
  /\ req[w].at # "idle"
  /\ aborts < MaxAborts
  /\ aborts' = aborts + 1
  /\ Leave(w)
  /\ UNCHANGED <<tables, gateway, returns, mailed>>

-----------------------------------------------------------------------------
Arrive(w) ==
  \E o \in Orders :
    \/ PaidNotification(w, o)
    \/ ApproveBuyNow(w, o)
    \/ StatusRequest(w, o)
    \/ \E ev \in Events : EventRequest(w, o, ev)

Serve(w) ==
  \/ CreateCode(w)
  \/ PayBuyNow(w)
  \/ EnqueueMail(w)
  \/ PayRegular(w)
  \/ FindHeld(w)
  \/ LinkTicket(w)
  \/ StatusAnswer(w)
  \/ FireEvent(w)

Next ==
  \/ \E o \in Orders : GatewayStep(o)
  \/ \E w \in Workers : Arrive(w) \/ Serve(w) \/ Abort(w)

Spec == Init /\ [][Next]_vars

\* A worker serves its request to the end unless it is killed, and a
\* notification the gateway keeps sending is taken from unicorn's queue.
Fairness ==
  /\ \A w \in Workers : WF_vars(Serve(w))
  /\ \A o \in Orders : SF_vars(\E w \in Workers : PaidNotification(w, o))

FairSpec == Spec /\ Fairness

-----------------------------------------------------------------------------
(* Properties.                                                             *)

Coded(o) == \A t \in TicketsOf(o) : ticketCode[t] # NoCode

\* BuyNow makes the codes before order.pay!, one transaction each: however two
\* workers, redeliveries and killed requests interleave, a visitor's order that
\* BuyNow made paid has a code on every ticket, and so has every order whose
\* letter was enqueued (its template calls ticket.ticket_code.code).
CodesBeforePaid ==
  \A o \in Orders : paidBy[o] = "buy_now" \/ mailed[o] => Coded(o)

\* RegularOrder links after order.pay!: nobody ever holds a ticket of an order
\* that was never made paid.
HeldWasPaid ==
  \A t \in Tickets : holder[t] # NoUser => paidBy[OrderOf[t]] # "nothing"

\* A user holds at most one ticket of a kind (User has_one :ticket), although
\* the strategies never check (their NOTE), orders of one user overlap, and
\* requests die between pay! and the link.
OneTicketPerKind ==
  \A u \in Users, k \in Kinds : \A s, t \in Held(u, k) : s = t

\* Nobody holds a ticket of an order that is not paid: a refund takes every
\* ticket back, and no late link or cancellation brings one to life again.
HeldIsPaid ==
  \A t \in Tickets : holder[t] # NoUser => payState[OrderOf[t]] = "paid"

\* The requests of the application implement the declared life of an order.
Lifecycle == INSTANCE OrderLifecycle
ImplementsLifecycle == Lifecycle!Spec

\* A payment the gateway took, and keeps announcing, does not leave its order
\* waiting for money: it becomes paid unless it was canceled before.
PaymentSettles ==
  \A o \in Orders :
    gateway[o] = "paid" ~>
      gateway[o] # "paid" \/ payState[o] \in {"paid", "canceled", "refunded"}

\* web/buy_nows/success tells the visitor of a paid order that the letter was
\* sent, and the test of RegularOrder says it 'marks as paid and links tickets
\* to user': who paid gets the letter, or the ticket, unless the money goes back
\* or the order leaves paid, also when a request dies and the gateway, which saw
\* no answer, repeats its notification.
Delivered(o) ==
  IF BuyNow(o) THEN mailed[o] ELSE \E t \in TicketsOf(o) : holder[t] = Buyer[o]

PaidIsDelivered ==
  \A o \in Orders :
    paidBy[o] = (IF BuyNow(o) THEN "buy_now" ELSE "regular") ~>
      Delivered(o) \/ payState[o] # "paid" \/ gateway[o] # "paid"

-----------------------------------------------------------------------------
(* Inductive strengthenings of the properties, for PaymentsProofs.         *)

Serving(w, places) == req[w].at \in places

Assigned == \A w \in Workers : ~Serving(w, {"idle"}) => req[w].order \in Orders

\* Why CodesBeforePaid: the loop has coded every ticket it is done with.
CodesInv ==
  /\ CodesBeforePaid
  /\ \A w \in Workers :
       /\ Serving(w, {"codes"}) =>
            \A t \in TicketsOf(req[w].order) \ req[w].uncoded : ticketCode[t] # NoCode
       /\ Serving(w, {"mail"}) => Coded(req[w].order)

\* Why HeldWasPaid: the linking steps come after order.pay!.
HeldInv ==
  /\ HeldWasPaid
  /\ Assigned
  /\ \A w \in Workers :
       Serving(w, {"find", "link"}) => paidBy[req[w].order] # "nothing"

\* With one worker what a request read is still so when it writes.
Fresh(r) ==
  /\ r.at # "idle" => r.order \in Orders
  /\ r.at \in {"codes", "pay", "query", "event"} => r.seen = payState[r.order]
  /\ r.at \in {"find", "link"} => payState[r.order] = "paid"
  /\ r.at = "link" =>
       /\ Buyer[r.order] # NoUser
       /\ Held(Buyer[r.order], r.kind) = {r.held} \ {NoTicket}

SerialInv ==
  /\ OneTicketPerKind
  /\ HeldIsPaid
  /\ \A w \in Workers : Fresh(req[w])

=============================================================================
