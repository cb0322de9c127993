--------------------------- MODULE PaymentsProofs ---------------------------
(***************************************************************************)
(* Theorems about Payments, for any number of workers, orders and tickets. *)
(***************************************************************************)
EXTENDS Payments, TLAPS

(* Helpers: every request record the handlers build is well typed.         *)

LEMMA IdleType == Idle \in Requests
  BY PaymentsAssumption DEF Idle, Requests, Places, PayStates, Events, Kinds

LEMMA LoadType ==
  ASSUME TypeOK, NEW o \in Orders, NEW p \in Places
  PROVE  Load(o, p) \in Requests
  BY IdleType DEF Load, Idle, Requests, TypeOK

LEMMA ProcessType ==
  ASSUME TypeOK, NEW o \in Orders, NEW s
  PROVE  Process(o, s) \in Requests
  <1>1. "codes" \in Places /\ "pay" \in Places
    BY DEF Places
  <1>2. Load(o, "codes") \in Requests /\ Load(o, "pay") \in Requests
    BY <1>1, LoadType
  <1>3. TicketsOf(o) \in SUBSET Tickets
    BY DEF TicketsOf
  <1>4. [Load(o, "codes") EXCEPT !.uncoded = TicketsOf(o)] \in Requests
    BY <1>2, <1>3 DEF Requests
  <1>. QED
    BY <1>2, <1>4 DEF Process

LEMMA LeaveType ==
  ASSUME TypeOK, NEW w \in Workers, Leave(w)
  PROVE  req' \in [Workers -> Requests] /\ notices' \in [Orders -> 0..MaxNotices]
  BY IdleType DEF Leave, TypeOK

LEMMA FinishType ==
  ASSUME TypeOK, NEW w \in Workers, Finish(w)
  PROVE  req' \in [Workers -> Requests] /\ notices' \in [Orders -> 0..MaxNotices]
  <1>1. 0 \in 0..MaxNotices
    BY PaymentsAssumption
  <1>. QED
    BY <1>1, IdleType DEF Finish, TypeOK

LEMMA NextKindType ==
  ASSUME TypeOK, NEW w \in Workers, NextKind(w)
  PROVE  req' \in [Workers -> Requests] /\ notices' \in [Orders -> 0..MaxNotices]
  <1>1. CASE Finish(w)
    BY <1>1, FinishType
  <1>2. CASE /\ req' = [req EXCEPT ![w] = [@ EXCEPT !.at = "find", !.kind = "party", !.held = NoTicket]]
             /\ UNCHANGED notices
    <2>. DEFINE r == [req[w] EXCEPT !.at = "find", !.kind = "party", !.held = NoTicket]
    <2>1. r \in Requests
      BY DEF TypeOK, Requests, Places, Kinds
    <2>2. req' = [req EXCEPT ![w] = r]
      BY <1>2
    <2>. QED
      BY <1>2, <2>1, <2>2 DEF TypeOK
  <1>. QED
    BY <1>1, <1>2 DEF NextKind

LEMMA WriteType ==
  ASSUME TypeOK, NEW o, NEW ev \in Events, NEW how \in PaidBy, Write(o, ev, how)
  PROVE  payState' \in [Orders -> PayStates] /\ paidBy' \in [Orders -> PaidBy]
  <1>1. To[ev] \in PayStates
    BY DEF Events, To, PayStates
  <1>. QED
    BY <1>1 DEF Write, TypeOK

\* Every variable of a reachable state has its type.
THEOREM TypeCorrect == Spec => []TypeOK
<1>1. Init => TypeOK
  BY IdleType, PaymentsAssumption
  DEF Init, TypeOK, PayStates, PaidBy, CodeStates, GatewayStatus
<1>2. TypeOK /\ [Next]_vars => TypeOK'
  <2> SUFFICES ASSUME TypeOK, [Next]_vars PROVE TypeOK'
    OBVIOUS
  <2> USE DEF tables, outside
  <2>1. ASSUME NEW o \in Orders, GatewayStep(o) PROVE TypeOK'
    BY <2>1 DEF GatewayStep, TypeOK, GatewayStatus
  <2>2. ASSUME NEW w \in Workers, NEW o \in Orders, PaidNotification(w, o) PROVE TypeOK'
    <3>. DEFINE s == IF BuyNow(o) THEN "buy_now" ELSE "regular"
    <3>a. Process(o, s) \in Requests
      BY ProcessType
    <3>1. [Process(o, s) EXCEPT !.notice = TRUE] \in Requests
      BY <3>a DEF Requests
    <3>2. notices' \in [Orders -> 0..MaxNotices]
      BY <2>2, PaymentsAssumption DEF PaidNotification, TypeOK
    <3>. QED
      BY <2>2, <3>1, <3>2 DEF PaidNotification, TypeOK
  <2>3. ASSUME NEW w \in Workers, NEW o \in Orders, ApproveBuyNow(w, o) PROVE TypeOK'
    <3>1. returns' \in 0..MaxReturns
      BY <2>3, PaymentsAssumption DEF ApproveBuyNow, TypeOK
    <3>. QED
      BY <2>3, <3>1, ProcessType DEF ApproveBuyNow, TypeOK
  <2>4. ASSUME NEW w \in Workers, NEW o \in Orders, StatusRequest(w, o) PROVE TypeOK'
    <3>1. Load(o, "query") \in Requests
      BY LoadType DEF Places
    <3>. QED
      BY <2>4, <3>1 DEF StatusRequest, TypeOK
  <2>5. ASSUME NEW w \in Workers, NEW o \in Orders, NEW ev \in Events, EventRequest(w, o, ev)
        PROVE TypeOK'
    <3>1. Load(o, "event") \in Requests
      BY LoadType DEF Places
    <3>2. [Load(o, "event") EXCEPT !.event = ev] \in Requests
      BY <3>1 DEF Requests
    <3>. QED
      BY <2>5, <3>2 DEF EventRequest, TypeOK
  <2>6. ASSUME NEW w \in Workers, CreateCode(w) PROVE TypeOK'
    BY <2>6 DEF CreateCode, TypeOK, Requests, CodeStates
  <2>7. ASSUME NEW w \in Workers, PayBuyNow(w) PROVE TypeOK'
    <3>1. CASE Leave(w) /\ UNCHANGED <<payState, paidBy>>
      BY <2>7, <3>1, LeaveType DEF PayBuyNow, TypeOK
    <3>2. CASE /\ Write(req[w].order, "pay", "buy_now")
               /\ req' = [req EXCEPT ![w] = [req[w] EXCEPT !.at = "mail"]]
               /\ UNCHANGED notices
      <4>1. payState' \in [Orders -> PayStates] /\ paidBy' \in [Orders -> PaidBy]
        BY <3>2, WriteType DEF Events, PaidBy
      <4>2. [req[w] EXCEPT !.at = "mail"] \in Requests
        BY DEF TypeOK, Requests, Places
      <4>3. req' \in [Workers -> Requests]
        BY <3>2, <4>2 DEF TypeOK
      <4>. QED
        BY <2>7, <3>2, <4>1, <4>3 DEF PayBuyNow, TypeOK
    <3>. QED
      BY <2>7, <3>1, <3>2 DEF PayBuyNow
  <2>8. ASSUME NEW w \in Workers, EnqueueMail(w) PROVE TypeOK'
    <3>1. Finish(w)
      BY <2>8 DEF EnqueueMail
    <3>. QED
      BY <2>8, <3>1, FinishType DEF EnqueueMail, TypeOK
  <2>9. ASSUME NEW w \in Workers, PayRegular(w) PROVE TypeOK'
    <3>1. CASE Leave(w) /\ UNCHANGED <<payState, paidBy>>
      BY <2>9, <3>1, LeaveType DEF PayRegular, TypeOK
    <3>2. CASE /\ Write(req[w].order, "pay", "regular")
               /\ req' = [req EXCEPT ![w] = [req[w] EXCEPT !.at = "find"]]
               /\ UNCHANGED notices
      <4>1. payState' \in [Orders -> PayStates] /\ paidBy' \in [Orders -> PaidBy]
        BY <3>2, WriteType DEF Events, PaidBy
      <4>2. [req[w] EXCEPT !.at = "find"] \in Requests
        BY DEF TypeOK, Requests, Places
      <4>3. req' \in [Workers -> Requests]
        BY <3>2, <4>2 DEF TypeOK
      <4>. QED
        BY <2>9, <3>2, <4>1, <4>3 DEF PayRegular, TypeOK
    <3>. QED
      BY <2>9, <3>1, <3>2 DEF PayRegular
  <2>10. ASSUME NEW w \in Workers, FindHeld(w) PROVE TypeOK'
    <3>1. CASE NextKind(w)
      BY <2>10, <3>1, NextKindType DEF FindHeld, TypeOK
    <3>2. CASE Leave(w)
      BY <2>10, <3>2, LeaveType DEF FindHeld, TypeOK
    <3>3. ASSUME NEW h \in Tickets \cup {NoTicket},
                 req' = [req EXCEPT ![w] = [@ EXCEPT !.at = "link", !.held = h]],
                 UNCHANGED notices
          PROVE  TypeOK'
      <4>. DEFINE r == [req[w] EXCEPT !.at = "link", !.held = h]
      <4>1. r \in Requests
        BY DEF TypeOK, Requests, Places
      <4>2. req' = [req EXCEPT ![w] = r]
        BY <3>3
      <4>3. req' \in [Workers -> Requests]
        BY <4>1, <4>2 DEF TypeOK
      <4>. QED
        BY <2>10, <3>3, <4>3 DEF FindHeld, TypeOK
    <3>4. Held(Buyer[req[w].order], req[w].kind) \subseteq Tickets
      BY DEF Held
    <3>. QED
      BY <2>10, <3>1, <3>2, <3>3, <3>4 DEF FindHeld
  <2>11. ASSUME NEW w \in Workers, LinkTicket(w) PROVE TypeOK'
    <3>1. PICK t \in Tickets : holder' = Handed(t, req[w].held)
      BY <2>11 DEF LinkTicket, TicketsOfKind, TicketsOf
    <3>2. Buyer[OrderOf[t]] \in Users \cup {NoUser}
      BY OrderBookAssumption
    <3>3. holder' \in [Tickets -> Users \cup {NoUser}]
      BY <3>1, <3>2 DEF Handed, TypeOK
    <3>4. NextKind(w)
      BY <2>11 DEF LinkTicket
    <3>. QED
      BY <2>11, <3>3, <3>4, NextKindType DEF LinkTicket, TypeOK
  <2>12. ASSUME NEW w \in Workers, StatusAnswer(w) PROVE TypeOK'
    <3>a. \A ev \in Events : [req[w] EXCEPT !.at = "event", !.event = ev] \in Requests
      BY DEF TypeOK, Requests, Places
    <3>b. [req[w] EXCEPT !.at = "pay"] \in Requests
      BY DEF TypeOK, Requests, Places
    <3>c. \E r \in Requests : req' = [req EXCEPT ![w] = r]
      BY <2>12, <3>a, <3>b, IdleType DEF StatusAnswer, Events
    <3>1. req' \in [Workers -> Requests]
      BY <3>c DEF TypeOK
    <3>. QED
      BY <2>12, <3>1 DEF StatusAnswer, TypeOK
  <2>13. ASSUME NEW w \in Workers, FireEvent(w) PROVE TypeOK'
    <3>1. req' \in [Workers -> Requests] /\ notices' \in [Orders -> 0..MaxNotices]
      BY <2>13, LeaveType DEF FireEvent
    <3>2. payState' \in [Orders -> PayStates] /\ paidBy' \in [Orders -> PaidBy]
      <4>1. req[w].event \in Events /\ "event" \in PaidBy
        BY DEF TypeOK, Requests, PaidBy
      <4>2. CASE Write(req[w].order, req[w].event, "event")
        BY <4>1, <4>2, WriteType
      <4>3. CASE UNCHANGED <<payState, paidBy>>
        BY <4>3 DEF TypeOK
      <4>. QED
        BY <2>13, <4>2, <4>3 DEF FireEvent
    <3>3. /\ holder' \in [Tickets -> Users \cup {NoUser}]
          /\ codeState' \in [Codes -> CodeStates]
      BY <2>13 DEF FireEvent, CancelTickets, TypeOK, CodeStates
    <3>. QED
      BY <2>13, <3>1, <3>2, <3>3 DEF FireEvent, TypeOK
  <2>14. ASSUME NEW w \in Workers, Abort(w) PROVE TypeOK'
    <3>1. Leave(w)
      BY <2>14 DEF Abort
    <3>2. aborts' \in 0..MaxAborts
      BY <2>14, PaymentsAssumption DEF Abort, TypeOK
    <3>. QED
      BY <2>14, <3>1, <3>2, LeaveType DEF Abort, TypeOK
  <2>15. CASE UNCHANGED vars
    BY <2>15 DEF vars, TypeOK
  <2>. QED
    BY <2>1, <2>2, <2>3, <2>4, <2>5, <2>6, <2>7, <2>8, <2>9, <2>10, <2>11, <2>12,
       <2>13, <2>14, <2>15 DEF Next, Arrive, Serve
<1>. QED
  BY <1>1, <1>2, PTL DEF Spec

-----------------------------------------------------------------------------
(* Codes before the paid state.                                            *)

\* A ticket that has a code keeps having one (perhaps another).
LEMMA CodesStay ==
  ASSUME TypeOK, [Next]_vars, NEW t \in Tickets, ticketCode[t] # NoCode
  PROVE  ticketCode'[t] # NoCode
<1>1. ASSUME NEW w \in Workers, CreateCode(w) PROVE ticketCode'[t] # NoCode
  BY <1>1, PaymentsAssumption DEF CreateCode, TypeOK
<1>2. CASE UNCHANGED ticketCode
  BY <1>2
<1>. QED
  BY <1>1, <1>2
  DEF Next, Arrive, Serve, vars, tables, outside, GatewayStep, PaidNotification,
      ApproveBuyNow, StatusRequest, EventRequest, PayBuyNow, EnqueueMail, PayRegular,
      FindHeld, LinkTicket, StatusAnswer, FireEvent, Abort

\* A step that leaves paidBy and mailed alone and puts at most one worker in a
\* place that satisfies the invariant, preserves the invariant.
LEMMA CodesInvFrame ==
  ASSUME TypeOK, CodesInv, [Next]_vars,
         UNCHANGED <<paidBy, mailed>>,
         NEW w \in Workers, NEW r \in Requests,
         req' = [req EXCEPT ![w] = r],
         r.at = "codes" => \A t \in TicketsOf(r.order) \ r.uncoded : ticketCode'[t] # NoCode,
         r.at # "mail"
  PROVE  CodesInv'
<1>0. \A t \in Tickets : ticketCode[t] # NoCode => ticketCode'[t] # NoCode
  BY CodesStay
<1>1. \A o : TicketsOf(o) \subseteq Tickets
  BY DEF TicketsOf
<1>2. CodesBeforePaid'
  BY <1>0, <1>1 DEF CodesInv, CodesBeforePaid, Coded
<1>3. ASSUME NEW v \in Workers
      PROVE  /\ Serving(v, {"codes"})' =>
                  \A t \in TicketsOf(req'[v].order) \ req'[v].uncoded : ticketCode'[t] # NoCode
             /\ Serving(v, {"mail"})' =>
                  \A t \in TicketsOf(req'[v].order) : ticketCode'[t] # NoCode
  <2>1. CASE v = w
    BY <2>1 DEF TypeOK, Serving
  <2>2. CASE v # w
    <3>1. req'[v] = req[v]
      BY <2>2 DEF TypeOK
    <3>. QED
      BY <3>1, <1>0, <1>1 DEF CodesInv, Serving, Coded
  <2>. QED
    BY <2>1, <2>2
<1>. QED
  BY <1>2, <1>3 DEF CodesInv, Coded

LEMMA CodesInvStep == TypeOK /\ CodesInv /\ [Next]_vars => CodesInv'
<1> SUFFICES ASSUME TypeOK, CodesInv, [Next]_vars PROVE CodesInv'
  OBVIOUS
<1> USE DEF tables, outside
<1>0. \A t \in Tickets : ticketCode[t] # NoCode => ticketCode'[t] # NoCode
  BY CodesStay
<1>a. \A o : TicketsOf(o) \subseteq Tickets
  BY DEF TicketsOf
<1>1. CASE UNCHANGED <<tables, req, mailed>>
  BY <1>1 DEF CodesInv, CodesBeforePaid, Coded, Serving
<1>2. ASSUME NEW w \in Workers, NEW o \in Orders, NEW r \in Requests,
             UNCHANGED <<tables, mailed>>,
             req' = [req EXCEPT ![w] = r],
             r.at = "codes" => r.order = o /\ r.uncoded = TicketsOf(o),
             r.at # "mail"
      PROVE  CodesInv'
  BY <1>2, CodesInvFrame
<1>3. ASSUME NEW w \in Workers, NEW o \in Orders, NEW strategy, NEW b \in BOOLEAN,
             UNCHANGED <<tables, mailed>>,
             req' = [req EXCEPT ![w] = [Process(o, strategy) EXCEPT !.notice = b]]
      PROVE  CodesInv'
  <2>. DEFINE r == [Process(o, strategy) EXCEPT !.notice = b]
  <2>1. r \in Requests
    BY ProcessType DEF Requests
  <2>2. r.at = "codes" => r.order = o /\ r.uncoded = TicketsOf(o)
    BY DEF Process, Load, Idle
  <2>3. r.at # "mail"
    BY DEF Process, Load, Idle
  <2>4. req' = [req EXCEPT ![w] = r]
    BY <1>3
  <2>. HIDE DEF r
  <2>. QED
    BY <1>2, <1>3, <2>1, <2>2, <2>3, <2>4
<1>4. ASSUME NEW w \in Workers, NEW r \in Requests,
             UNCHANGED <<tables, mailed>>,
             req' = [req EXCEPT ![w] = r], r.at \notin {"codes", "mail"}
      PROVE  CodesInv'
  BY <1>4, CodesInvFrame
<1>5. ASSUME NEW w \in Workers, NEW o \in Orders, PaidNotification(w, o) PROVE CodesInv'
  BY <1>3, <1>5 DEF PaidNotification
<1>6. ASSUME NEW w \in Workers, NEW o \in Orders, ApproveBuyNow(w, o) PROVE CodesInv'
  <2>1. Process(o, "buy_now") \in Requests
    BY ProcessType
  <2>2. /\ Process(o, "buy_now").order = o
        /\ Process(o, "buy_now").at = "codes"
        /\ Process(o, "buy_now").uncoded = TicketsOf(o)
    BY DEF Process, Load, Idle
  <2>. QED
    BY <1>2, <1>6, <2>1, <2>2 DEF ApproveBuyNow
<1>7. ASSUME NEW w \in Workers, NEW o \in Orders, StatusRequest(w, o) PROVE CodesInv'
  <2>1. Load(o, "query") \in Requests /\ Load(o, "query").at = "query"
    BY LoadType DEF Places, Load, Idle
  <2>. QED
    BY <1>4, <1>7, <2>1 DEF StatusRequest
<1>8. ASSUME NEW w \in Workers, NEW o \in Orders, NEW ev \in Events, EventRequest(w, o, ev)
      PROVE  CodesInv'
  <2>. DEFINE r == [Load(o, "event") EXCEPT !.event = ev]
  <2>1. Load(o, "event") \in Requests /\ Load(o, "event").at = "event"
    BY LoadType DEF Places, Load, Idle
  <2>2. r \in Requests /\ r.at = "event"
    BY <2>1 DEF Requests
  <2>. QED
    BY <1>4, <1>8, <2>2 DEF EventRequest
<1>9. ASSUME NEW w \in Workers, CreateCode(w) PROVE CodesInv'
  <2>1. PICK t \in req[w].uncoded, c \in Codes :
          /\ ticketCode' = [ticketCode EXCEPT ![t] = c]
          /\ req' = [req EXCEPT ![w].uncoded = @ \ {t}]
    BY <1>9 DEF CreateCode
  <2>. DEFINE r == [req[w] EXCEPT !.uncoded = @ \ {t}]
  <2>a. r \in Requests /\ r.at = "codes"
    <3>1. req[w] \in Requests /\ req[w].at = "codes"
      BY <1>9 DEF TypeOK, CreateCode
    <3>. QED
      BY <3>1 DEF Requests
  <2>b. req' = [req EXCEPT ![w] = r]
    BY <2>1
  <2>2. r \in Requests /\ req' = [req EXCEPT ![w] = r] /\ r.at = "codes"
    BY <2>a, <2>b
  <2>3. ticketCode'[t] # NoCode
    BY <2>1, PaymentsAssumption DEF TypeOK, Requests
  <2>4. r.order = req[w].order /\ r.uncoded = req[w].uncoded \ {t}
    BY DEF TypeOK, Requests
  <2>5. \A s \in TicketsOf(r.order) \ r.uncoded : ticketCode'[s] # NoCode
    BY <1>9, <1>0, <1>a, <2>3, <2>4 DEF CreateCode, CodesInv, Serving
  <2>6. UNCHANGED <<paidBy, mailed>>
    BY <1>9 DEF CreateCode
  <2>. HIDE DEF r
  <2>. QED
    BY <2>2, <2>5, <2>6, CodesInvFrame
<1>10. ASSUME NEW w \in Workers, Leave(w), UNCHANGED <<paidBy, mailed>> PROVE CodesInv'
  BY <1>10, IdleType, CodesInvFrame DEF Leave, Idle
<1>11. ASSUME NEW w \in Workers, Finish(w), UNCHANGED <<paidBy, mailed>> PROVE CodesInv'
  BY <1>11, IdleType, CodesInvFrame DEF Finish, Idle
<1>12. ASSUME NEW w \in Workers, PayBuyNow(w) PROVE CodesInv'
  <2>1. CASE Leave(w) /\ UNCHANGED paidBy
    BY <1>10, <1>12, <2>1 DEF PayBuyNow
  <2>2. CASE /\ Write(req[w].order, "pay", "buy_now")
             /\ req' = [req EXCEPT ![w].at = "mail"]
    <3>1. Coded(req[w].order)
      BY <1>12 DEF PayBuyNow, CodesInv, Serving, Coded
    <3>2. UNCHANGED <<ticketCode, mailed>>
      BY <1>12 DEF PayBuyNow
    <3>3. \A o \in Orders : o # req[w].order => paidBy'[o] = paidBy[o]
      BY <2>2 DEF Write, TypeOK
    <3>4. CodesBeforePaid'
      BY <3>1, <3>2, <3>3 DEF CodesInv, CodesBeforePaid, Coded
    <3>5. \A v \in Workers : v # w => req'[v] = req[v]
      BY <2>2 DEF TypeOK
    <3>6. req'[w].at = "mail" /\ req'[w].order = req[w].order
      BY <2>2 DEF TypeOK, Requests
    <3>. QED
      BY <3>1, <3>2, <3>4, <3>5, <3>6 DEF CodesInv, Serving, Coded
  <2>. QED
    BY <1>12, <2>1, <2>2 DEF PayBuyNow
<1>13. ASSUME NEW w \in Workers, EnqueueMail(w) PROVE CodesInv'
  <2>1. Coded(req[w].order) /\ UNCHANGED <<ticketCode, paidBy>>
    BY <1>13 DEF EnqueueMail, CodesInv, Serving
  <2>2. mailed' = [mailed EXCEPT ![req[w].order] = TRUE]
    BY <1>13 DEF EnqueueMail
  <2>3. CodesBeforePaid'
    BY <2>1, <2>2 DEF CodesInv, CodesBeforePaid, Coded, TypeOK
  <2>4. req' = [req EXCEPT ![w] = Idle]
    BY <1>13 DEF EnqueueMail, Finish
  <2>5. \A v \in Workers : v # w => req'[v] = req[v]
    BY <2>4 DEF TypeOK
  <2>6. req'[w].at = "idle"
    BY <2>4 DEF TypeOK, Idle
  <2>. QED
    BY <2>1, <2>3, <2>5, <2>6 DEF CodesInv, Serving, Coded
<1>14. ASSUME NEW w \in Workers, PayRegular(w) PROVE CodesInv'
  <2>1. CASE Leave(w) /\ UNCHANGED paidBy
    BY <1>10, <1>14, <2>1 DEF PayRegular
  <2>2. CASE /\ Write(req[w].order, "pay", "regular")
             /\ req' = [req EXCEPT ![w].at = "find"]
    <3>1. UNCHANGED <<ticketCode, mailed>>
      BY <1>14 DEF PayRegular
    <3>2. \A o \in Orders : paidBy'[o] = "buy_now" => paidBy[o] = "buy_now"
      BY <2>2 DEF Write, TypeOK
    <3>3. CodesBeforePaid'
      BY <3>1, <3>2 DEF CodesInv, CodesBeforePaid, Coded
    <3>4. \A v \in Workers : v # w => req'[v] = req[v]
      BY <2>2 DEF TypeOK
    <3>5. req'[w].at = "find"
      BY <2>2 DEF TypeOK, Requests
    <3>. QED
      BY <3>1, <3>3, <3>4, <3>5 DEF CodesInv, Serving, Coded
  <2>. QED
    BY <1>14, <2>1, <2>2 DEF PayRegular
<1>15. ASSUME NEW w \in Workers, NextKind(w), UNCHANGED <<paidBy, mailed>> PROVE CodesInv'
  <2>. DEFINE r == [req[w] EXCEPT !.at = "find", !.kind = "party", !.held = NoTicket]
  <2>1. r \in Requests /\ r.at = "find"
    BY DEF TypeOK, Requests, Places, Kinds
  <2>. HIDE DEF r
  <2>2. CASE req' = [req EXCEPT ![w] = r]
    BY <1>15, <2>1, <2>2, CodesInvFrame
  <2>. QED
    BY <1>11, <1>15, <2>2 DEF NextKind, r
<1>16. ASSUME NEW w \in Workers, FindHeld(w) PROVE CodesInv'
  <2>1. UNCHANGED <<tables, mailed>>
    BY <1>16 DEF FindHeld
  <2>2. ASSUME NEW h \in Tickets \cup {NoTicket},
               req' = [req EXCEPT ![w] = [@ EXCEPT !.at = "link", !.held = h]]
        PROVE  CodesInv'
    <3>. DEFINE r == [req[w] EXCEPT !.at = "link", !.held = h]
    <3>1. r \in Requests /\ r.at = "link"
      BY DEF TypeOK, Requests, Places
    <3>2. req' = [req EXCEPT ![w] = r]
      BY <2>2
    <3>. HIDE DEF r
    <3>. QED
      BY <1>4, <2>1, <3>1, <3>2
  <2>3. Held(Buyer[req[w].order], req[w].kind) \subseteq Tickets
    BY DEF Held
  <2>. QED
    BY <1>10, <1>15, <1>16, <2>1, <2>2, <2>3 DEF FindHeld
<1>17. ASSUME NEW w \in Workers, LinkTicket(w) PROVE CodesInv'
  BY <1>15, <1>17 DEF LinkTicket
<1>18. ASSUME NEW w \in Workers, StatusAnswer(w) PROVE CodesInv'
  <2>1. \A ev \in Events : LET r == [req[w] EXCEPT !.at = "event", !.event = ev]
                          IN  r \in Requests /\ r.at = "event"
    BY DEF TypeOK, Requests, Places
  <2>2. [req[w] EXCEPT !.at = "pay"] \in Requests /\ [req[w] EXCEPT !.at = "pay"].at = "pay"
    BY DEF TypeOK, Requests, Places
  <2>3. \E r \in Requests : req' = [req EXCEPT ![w] = r] /\ r.at \notin {"codes", "mail"}
    BY <1>18, <2>1, <2>2, IdleType DEF StatusAnswer, Events, Idle
  <2>. QED
    BY <1>4, <1>18, <2>3 DEF StatusAnswer
<1>19. ASSUME NEW w \in Workers, FireEvent(w) PROVE CodesInv'
  <2>1. \A o \in Orders : paidBy'[o] = "buy_now" => paidBy[o] = "buy_now"
    BY <1>19 DEF FireEvent, Write, TypeOK
  <2>2. UNCHANGED <<ticketCode, mailed>> /\ req' = [req EXCEPT ![w] = Idle]
    BY <1>19 DEF FireEvent, Leave
  <2>3. CodesBeforePaid'
    BY <2>1, <2>2 DEF CodesInv, CodesBeforePaid, Coded
  <2>4. \A v \in Workers : v # w => req'[v] = req[v]
    BY <2>2 DEF TypeOK
  <2>5. req'[w].at = "idle"
    BY <2>2 DEF TypeOK, Idle
  <2>. QED
    BY <2>2, <2>3, <2>4, <2>5 DEF CodesInv, Serving, Coded
<1>20. ASSUME NEW w \in Workers, Abort(w) PROVE CodesInv'
  BY <1>10, <1>20 DEF Abort
<1>21. CASE \E o \in Orders : GatewayStep(o)
  BY <1>1, <1>21 DEF GatewayStep
<1>22. CASE UNCHANGED vars
  BY <1>1, <1>22 DEF vars
<1>. QED
  BY <1>5, <1>6, <1>7, <1>8, <1>9, <1>12, <1>13, <1>14, <1>16, <1>17, <1>18, <1>19,
     <1>20, <1>21, <1>22 DEF Next, Arrive, Serve

\* However requests interleave, are redelivered or die, and browsers return for
\* orders in any state: an order that BuyNow
\* made paid, or whose letter is enqueued, has a code on every ticket.
THEOREM CodesBeforePaidAlways == Spec => []CodesBeforePaid
<1>1. Init => CodesInv
  BY DEF Init, CodesInv, CodesBeforePaid, Serving, Idle
<1>2. CodesInv => CodesBeforePaid
  BY DEF CodesInv
<1>. QED
  BY <1>1, <1>2, CodesInvStep, TypeCorrect, PTL DEF Spec

-----------------------------------------------------------------------------
(* Nobody holds a ticket of an order that was never made paid.             *)

\* What a step does to the request of a worker: it stays, or the worker is done,
\* or it goes on with the same order, or it takes up an order anew.
LEMMA RequestStep ==
  ASSUME TypeOK, [Next]_vars, NEW v \in Workers
  PROVE  \/ req'[v] = req[v]
         \/ req'[v].at = "idle"
         \/ req'[v].order = req[v].order /\ ~Serving(v, {"idle"})
         \/ req'[v].order \in Orders /\ req'[v].at \in {"codes", "pay", "query", "event"}
<1> USE DEF tables, outside
<1>. DEFINE Good == \/ req'[v] = req[v]
                    \/ req'[v].at = "idle"
                    \/ req'[v].order = req[v].order /\ ~Serving(v, {"idle"})
                    \/ /\ req'[v].order \in Orders
                       /\ req'[v].at \in {"codes", "pay", "query", "event"}
<1>1. ASSUME NEW w \in Workers, NEW o \in Orders, PaidNotification(w, o) PROVE Good
  BY <1>1 DEF PaidNotification, Process, Load, Idle, TypeOK
<1>2. ASSUME NEW w \in Workers, NEW o \in Orders, ApproveBuyNow(w, o) PROVE Good
  BY <1>2 DEF ApproveBuyNow, Process, Load, Idle, TypeOK
<1>3. ASSUME NEW w \in Workers, NEW o \in Orders, StatusRequest(w, o) PROVE Good
  BY <1>3 DEF StatusRequest, Load, Idle, TypeOK
<1>4. ASSUME NEW w \in Workers, NEW o \in Orders, NEW ev \in Events, EventRequest(w, o, ev)
      PROVE  Good
  BY <1>4 DEF EventRequest, Load, Idle, TypeOK
<1>5. ASSUME NEW w \in Workers, Leave(w) PROVE Good
  BY <1>5 DEF Leave, Idle, TypeOK
<1>6. ASSUME NEW w \in Workers, Finish(w) PROVE Good
  BY <1>6 DEF Finish, Idle, TypeOK
<1>7. ASSUME NEW w \in Workers, NEW r \in Requests, r.order = req[w].order,
             req[w].at # "idle", req' = [req EXCEPT ![w] = r]
      PROVE  Good
  BY <1>7 DEF TypeOK, Serving
<1>8. ASSUME NEW w \in Workers, CreateCode(w) PROVE Good
  <2>1. PICK t \in req[w].uncoded : req' = [req EXCEPT ![w].uncoded = @ \ {t}]
    BY <1>8 DEF CreateCode
  <2>. DEFINE r == [req[w] EXCEPT !.uncoded = @ \ {t}]
  <2>2. r \in Requests /\ r.order = req[w].order
    BY DEF TypeOK, Requests
  <2>3. req' = [req EXCEPT ![w] = r]
    BY <2>1
  <2>. HIDE DEF r
  <2>. QED
    BY <1>7, <1>8, <2>2, <2>3 DEF CreateCode
<1>9. ASSUME NEW w \in Workers, PayBuyNow(w) PROVE Good
  <2>. DEFINE r == [req[w] EXCEPT !.at = "mail"]
  <2>1. r \in Requests /\ r.order = req[w].order
    BY DEF TypeOK, Requests, Places
  <2>2. Leave(w) \/ req' = [req EXCEPT ![w] = r]
    BY <1>9 DEF PayBuyNow
  <2>. HIDE DEF r
  <2>. QED
    BY <1>5, <1>7, <1>9, <2>1, <2>2 DEF PayBuyNow
<1>10. ASSUME NEW w \in Workers, EnqueueMail(w) PROVE Good
  BY <1>6, <1>10 DEF EnqueueMail
<1>11. ASSUME NEW w \in Workers, PayRegular(w) PROVE Good
  <2>. DEFINE r == [req[w] EXCEPT !.at = "find"]
  <2>1. r \in Requests /\ r.order = req[w].order
    BY DEF TypeOK, Requests, Places
  <2>2. Leave(w) \/ req' = [req EXCEPT ![w] = r]
    BY <1>11 DEF PayRegular
  <2>. HIDE DEF r
  <2>. QED
    BY <1>5, <1>7, <1>11, <2>1, <2>2 DEF PayRegular
<1>12. ASSUME NEW w \in Workers, NextKind(w), req[w].at # "idle" PROVE Good
  <2>. DEFINE r == [req[w] EXCEPT !.at = "find", !.kind = "party", !.held = NoTicket]
  <2>1. r \in Requests /\ r.order = req[w].order
    BY DEF TypeOK, Requests, Places, Kinds
  <2>2. Finish(w) \/ req' = [req EXCEPT ![w] = r]
    BY <1>12 DEF NextKind
  <2>. HIDE DEF r
  <2>. QED
    BY <1>6, <1>7, <1>12, <2>1, <2>2
<1>13. ASSUME NEW w \in Workers, FindHeld(w) PROVE Good
  <2>1. ASSUME NEW h \in Tickets \cup {NoTicket},
               req' = [req EXCEPT ![w] = [@ EXCEPT !.at = "link", !.held = h]]
        PROVE  Good
    <3>. DEFINE r == [req[w] EXCEPT !.at = "link", !.held = h]
    <3>1. r \in Requests /\ r.order = req[w].order
      BY DEF TypeOK, Requests, Places
    <3>2. req' = [req EXCEPT ![w] = r]
      BY <2>1
    <3>. HIDE DEF r
    <3>. QED
      BY <1>7, <1>13, <3>1, <3>2 DEF FindHeld
  <2>2. Held(Buyer[req[w].order], req[w].kind) \subseteq Tickets
    BY DEF Held
  <2>3. req[w].at # "idle"
    BY <1>13 DEF FindHeld
  <2>. QED
    BY <1>5, <1>12, <1>13, <2>1, <2>2, <2>3 DEF FindHeld
<1>14. ASSUME NEW w \in Workers, LinkTicket(w) PROVE Good
  BY <1>12, <1>14 DEF LinkTicket
<1>15. ASSUME NEW w \in Workers, StatusAnswer(w) PROVE Good
  <2>1. \A ev \in Events : LET r == [req[w] EXCEPT !.at = "event", !.event = ev]
                          IN  r \in Requests /\ r.order = req[w].order
    BY DEF TypeOK, Requests, Places
  <2>2. LET r == [req[w] EXCEPT !.at = "pay"] IN r \in Requests /\ r.order = req[w].order
    BY DEF TypeOK, Requests, Places
  <2>3. CASE req' = [req EXCEPT ![w] = Idle]
    BY <2>3 DEF Idle, TypeOK
  <2>4. \/ req' = [req EXCEPT ![w] = Idle]
        \/ \E r \in Requests : r.order = req[w].order /\ req' = [req EXCEPT ![w] = r]
    BY <1>15, <2>1, <2>2 DEF StatusAnswer, Events
  <2>. QED
    BY <1>7, <1>15, <2>3, <2>4 DEF StatusAnswer
<1>16. ASSUME NEW w \in Workers, FireEvent(w) PROVE Good
  BY <1>5, <1>16 DEF FireEvent
<1>17. ASSUME NEW w \in Workers, Abort(w) PROVE Good
  BY <1>5, <1>17 DEF Abort
<1>18. CASE UNCHANGED req
  BY <1>18
<1>a. CASE \E o \in Orders : GatewayStep(o)
  BY <1>18, <1>a DEF GatewayStep
<1>b. CASE UNCHANGED vars
  BY <1>18, <1>b DEF vars
<1>c. ASSUME NEW w \in Workers, Arrive(w) PROVE Good
  BY <1>1, <1>2, <1>3, <1>4, <1>c DEF Arrive
<1>d. ASSUME NEW w \in Workers, Serve(w) PROVE Good
  BY <1>8, <1>9, <1>10, <1>11, <1>13, <1>14, <1>15, <1>16, <1>d DEF Serve
<1>e. CASE Next
  BY <1>17, <1>a, <1>c, <1>d, <1>e DEF Next
<1>. QED
  BY <1>b, <1>e

LEMMA AssignedStep == TypeOK /\ Assigned /\ [Next]_vars => Assigned'
<1> SUFFICES ASSUME TypeOK, Assigned, [Next]_vars, NEW v \in Workers,
                    req'[v].at # "idle"
             PROVE  req'[v].order \in Orders
  BY DEF Assigned, Serving
<1>1. req[v].at # "idle" => req[v].order \in Orders
  BY DEF Assigned, Serving
<1>2. CASE req'[v] = req[v]
  BY <1>1, <1>2
<1>3. CASE req'[v].order = req[v].order /\ ~Serving(v, {"idle"})
  BY <1>1, <1>3 DEF Serving
<1>. QED
  BY <1>2, <1>3, RequestStep

LEMMA HeldInvStep == TypeOK /\ HeldInv /\ [Next]_vars => HeldInv'
<1> SUFFICES ASSUME TypeOK, HeldInv, [Next]_vars PROVE HeldInv'
  OBVIOUS
<1> USE DEF tables, outside
\* Once made paid, an order stays so in the history.
<1>1. ASSUME NEW o \in Orders, paidBy[o] # "nothing" PROVE paidBy'[o] # "nothing"
  <2>1. CASE UNCHANGED paidBy
    BY <1>1, <2>1
  <2>2. ASSUME NEW p, NEW ev, NEW how \in {"buy_now", "regular", "event"}, Write(p, ev, how)
        PROVE  paidBy'[o] # "nothing"
    BY <1>1, <2>2 DEF Write, TypeOK
  <2>. QED
    BY <2>1, <2>2
    DEF Next, Arrive, Serve, vars, GatewayStep, PaidNotification, ApproveBuyNow,
        StatusRequest, EventRequest, CreateCode, PayBuyNow, EnqueueMail, PayRegular,
        FindHeld, LinkTicket, StatusAnswer, FireEvent, Abort
\* Only a linking request gives a ticket to a user, one of its own order.
<1>2. ASSUME NEW t \in Tickets, holder'[t] # NoUser
      PROVE  paidBy'[OrderOf[t]] # "nothing"
  <2>1. OrderOf[t] \in Orders
    BY OrderBookAssumption
  <2>2. CASE holder[t] # NoUser
    BY <1>1, <2>1, <2>2 DEF HeldInv, HeldWasPaid
  <2>3. CASE holder[t] = NoUser
    <3>1. ASSUME NEW w \in Workers, LinkTicket(w) PROVE paidBy[OrderOf[t]] # "nothing"
      <4>1. PICK s \in TicketsOfKind(req[w].order, req[w].kind) :
              holder' = Handed(s, req[w].held)
        BY <3>1 DEF LinkTicket
      <4>2. t = s
        BY <1>2, <2>3, <4>1 DEF Handed
      <4>3. OrderOf[t] = req[w].order
        BY <4>2, <4>1 DEF TicketsOfKind, TicketsOf
      <4>. QED
        BY <3>1, <4>3 DEF LinkTicket, HeldInv, Serving
    <3>2. CASE UNCHANGED holder
      BY <1>2, <2>3, <3>2
    <3>3. ASSUME NEW w \in Workers, FireEvent(w) PROVE FALSE
      BY <1>2, <2>3, <3>3 DEF FireEvent, CancelTickets
    <3>. QED
      BY <1>1, <2>1, <3>1, <3>2, <3>3
      DEF Next, Arrive, Serve, vars, GatewayStep, PaidNotification, ApproveBuyNow,
          StatusRequest, EventRequest, CreateCode, PayBuyNow, EnqueueMail, PayRegular,
          FindHeld, StatusAnswer, Abort
  <2>. QED
    BY <2>2, <2>3
\* A request gets to the linking steps through order.pay!.
<1>3. ASSUME NEW v \in Workers, req'[v].at \in {"find", "link"}
      PROVE  paidBy'[req'[v].order] # "nothing"
  <2>1. req'[v].order = req[v].order /\ req[v].at # "idle" /\ req[v].order \in Orders
    BY <1>3, RequestStep DEF Serving, HeldInv, Assigned
  <2>2. CASE req[v].at \in {"find", "link"}
    BY <1>1, <2>1, <2>2 DEF HeldInv, Serving
  <2>3. CASE req[v].at \notin {"find", "link"}
    <3>1. ASSUME NEW w \in Workers, PayRegular(w) PROVE paidBy'[req[v].order] # "nothing"
      <4>1. w = v
        BY <1>3, <2>3, <3>1 DEF PayRegular, Leave, Idle, TypeOK
      <4>2. Write(req[w].order, "pay", "regular")
        BY <1>3, <3>1, <4>1 DEF PayRegular, Leave, Idle, TypeOK
      <4>. QED
        BY <2>1, <4>1, <4>2 DEF Write, TypeOK
    <3>2. ASSUME NEW w \in Workers, CreateCode(w) PROVE FALSE
      BY <1>3, <2>3, <3>2 DEF CreateCode, TypeOK, Requests
    <3>3. ASSUME NEW w \in Workers, PayBuyNow(w) PROVE FALSE
      BY <1>3, <2>3, <3>3 DEF PayBuyNow, Leave, Idle, TypeOK, Requests
    <3>4. ASSUME NEW w \in Workers, EnqueueMail(w) PROVE FALSE
      BY <1>3, <2>3, <3>4 DEF EnqueueMail, Finish, Idle, TypeOK
    <3>5. ASSUME NEW w \in Workers, FindHeld(w) PROVE FALSE
      <4>1. w = v
        BY <1>3, <2>3, <3>5 DEF FindHeld, NextKind, Leave, Finish, TypeOK
      <4>. QED
        BY <2>3, <3>5, <4>1 DEF FindHeld
    <3>6. ASSUME NEW w \in Workers, LinkTicket(w) PROVE FALSE
      <4>1. w = v
        BY <1>3, <2>3, <3>6 DEF LinkTicket, NextKind, Finish, TypeOK
      <4>. QED
        BY <2>3, <3>6, <4>1 DEF LinkTicket
    <3>7. ASSUME NEW w \in Workers, StatusAnswer(w) PROVE FALSE
      <4>1. \E r : req' = [req EXCEPT ![w] = r] /\ r.at \notin {"find", "link"}
        <5>1. req[w] \in Requests
          BY DEF TypeOK
        <5>2. \A ev : [req[w] EXCEPT !.at = "event", !.event = ev].at = "event"
          BY <5>1 DEF Requests
        <5>3. [req[w] EXCEPT !.at = "pay"].at = "pay"
          BY <5>1 DEF Requests
        <5>4. Idle.at = "idle"
          BY DEF Idle
        <5>. QED
          BY <3>7, <5>2, <5>3, <5>4 DEF StatusAnswer
      <4>. QED
        BY <1>3, <2>3, <4>1 DEF TypeOK
    <3>8. ASSUME NEW w \in Workers, Leave(w) PROVE FALSE
      BY <1>3, <2>3, <3>8 DEF Leave, Idle, TypeOK
    <3>9. ASSUME NEW w \in Workers, NEW o \in Orders,
                 \/ PaidNotification(w, o) \/ ApproveBuyNow(w, o) \/ StatusRequest(w, o)
                 \/ \E ev \in Events : EventRequest(w, o, ev)
          PROVE  FALSE
      <4>1. ASSUME NEW r, r.at \notin {"find", "link"}, req' = [req EXCEPT ![w] = r]
            PROVE  FALSE
        BY <1>3, <2>3, <4>1 DEF TypeOK
      <4>2. CASE PaidNotification(w, o)
        <5>1. \A s : [Process(o, s) EXCEPT !.notice = TRUE].at \in {"codes", "pay"}
          BY DEF Process, Load, Idle
        <5>. QED
          BY <4>1, <4>2, <5>1 DEF PaidNotification
      <4>3. CASE ApproveBuyNow(w, o)
        <5>1. Process(o, "buy_now").at = "codes"
          BY DEF Process, Load, Idle
        <5>. QED
          BY <4>1, <4>3, <5>1 DEF ApproveBuyNow
      <4>4. CASE StatusRequest(w, o)
        <5>1. Load(o, "query").at = "query"
          BY DEF Load, Idle
        <5>. QED
          BY <4>1, <4>4, <5>1 DEF StatusRequest
      <4>5. ASSUME NEW ev \in Events, EventRequest(w, o, ev) PROVE FALSE
        <5>1. [Load(o, "event") EXCEPT !.event = ev].at = "event"
          BY DEF Load, Idle
        <5>. QED
          BY <4>1, <4>5, <5>1 DEF EventRequest
      <4>. QED
        BY <3>9, <4>2, <4>3, <4>4, <4>5
    <3>10. CASE UNCHANGED req
      BY <1>3, <2>3, <3>10
    <3>. QED
      BY <2>1, <3>1, <3>2, <3>3, <3>4, <3>5, <3>6, <3>7, <3>8, <3>9, <3>10
      DEF Next, Arrive, Serve, vars, GatewayStep, FireEvent, Abort
  <2>. QED
    BY <2>2, <2>3
<1>4. Assigned'
  BY AssignedStep DEF HeldInv
<1>. QED
  BY <1>2, <1>3, <1>4 DEF HeldInv, HeldWasPaid, Serving

\* However requests interleave, are redelivered or die: nobody ever holds a
\* ticket of an order that was never made paid.
THEOREM HeldWasPaidAlways == Spec => []HeldWasPaid
<1>1. Init => HeldInv
  BY DEF Init, HeldInv, HeldWasPaid, Assigned, Serving, Idle
<1>2. HeldInv => HeldWasPaid
  BY DEF HeldInv
<1>. QED
  BY <1>1, <1>2, HeldInvStep, TypeCorrect, PTL DEF Spec

-----------------------------------------------------------------------------
(* Requests that do not overlap: one worker.                               *)

Serial == \A v, w \in Workers : v = w

\* A step that only turns the request of a worker into another fresh one.
LEMMA FreshFrame ==
  ASSUME TypeOK, SerialInv, UNCHANGED <<payState, holder>>,
         NEW w \in Workers, NEW r, Fresh(r), req' = [req EXCEPT ![w] = r]
  PROVE  SerialInv'
<1>1. \A u, k : Held(u, k)' = Held(u, k)
  BY DEF Held
<1>2. OneTicketPerKind' /\ HeldIsPaid'
  BY <1>1 DEF SerialInv, OneTicketPerKind, HeldIsPaid
<1>3. \A q : Fresh(q) => Fresh(q)'
  BY <1>1 DEF Fresh
<1>4. ASSUME NEW v \in Workers PROVE Fresh(req[v])'
  <2>1. req'[v] = r \/ req'[v] = req[v]
    BY DEF TypeOK
  <2>. QED
    BY <1>3, <2>1 DEF SerialInv, Fresh, Held
<1>. QED
  BY <1>2, <1>4 DEF SerialInv

\* A step of the only worker that changes orders or tickets.
LEMMA FreshOnly ==
  ASSUME TypeOK, Serial, NEW w \in Workers, NEW r, Fresh(r)',
         req' = [req EXCEPT ![w] = r],
         OneTicketPerKind', HeldIsPaid'
  PROVE  SerialInv'
<1>1. ASSUME NEW v \in Workers PROVE Fresh(req[v])'
  <2>1. req'[v] = r
    BY DEF TypeOK, Serial
  <2>. QED
    BY <2>1 DEF Fresh, Held
<1>. QED
  BY <1>1 DEF SerialInv

LEMMA IdleFresh == Fresh(Idle)
  BY DEF Fresh, Idle

LEMMA LoadFresh ==
  ASSUME NEW o \in Orders, NEW p \in {"codes", "pay", "query", "event"}
  PROVE  Fresh(Load(o, p))
  BY DEF Fresh, Load, Idle

LEMMA ProcessFresh ==
  ASSUME NEW o \in Orders, NEW s, NEW b \in BOOLEAN
  PROVE  Fresh(Process(o, s)) /\ Fresh([Process(o, s) EXCEPT !.notice = b])
  BY DEF Fresh, Process, Load, Idle

\* An order event other than refund is a Transition of the declared life.
LEMMA WriteIsTransition ==
  ASSUME TypeOK, SerialInv, NEW o \in Orders, NEW ev \in Events \ {"refund"}, NEW how,
         payState[o] \in From[ev], Write(o, ev, how), UNCHANGED holder
  PROVE  Lifecycle!Next /\ OneTicketPerKind' /\ HeldIsPaid'
<1>1. Lifecycle!From = From /\ Lifecycle!To = To /\ Lifecycle!Events = Events
  BY DEF Lifecycle!From, From, Lifecycle!To, To, Lifecycle!Events, Events
<1>2. Lifecycle!Transition(o, ev)
  BY <1>1 DEF Lifecycle!Transition, Write
<1>3. \A u, k : Held(u, k)' = Held(u, k)
  BY DEF Held
<1>4. OneTicketPerKind'
  BY <1>3 DEF SerialInv, OneTicketPerKind
<1>5. payState[o] # "paid"
  BY DEF From, Events
<1>6. HeldIsPaid'
  BY <1>5, OrderBookAssumption DEF SerialInv, HeldIsPaid, Write, TypeOK
<1>. QED
  BY <1>1, <1>2, <1>4, <1>6 DEF Lifecycle!Next

\* cancel_tickets is the declared effect of a refund.
LEMMA CancelIsRefund ==
  ASSUME TypeOK, SerialInv, NEW o \in Orders, NEW how,
         payState[o] \in From["refund"], Write(o, "refund", how), CancelTickets(o)
  PROVE  Lifecycle!Next /\ OneTicketPerKind' /\ HeldIsPaid'
<1>1. Lifecycle!From = From
  BY DEF Lifecycle!From, From
<1>2. Lifecycle!Refund(o)
  BY <1>1 DEF Lifecycle!Refund, Write, CancelTickets, To
<1>3. \A u \in Users : \A k : Held(u, k)' \subseteq Held(u, k)
  BY OrderBookAssumption DEF Held, CancelTickets
<1>4. OneTicketPerKind'
  BY <1>3 DEF SerialInv, OneTicketPerKind
<1>5. HeldIsPaid'
  BY OrderBookAssumption DEF SerialInv, HeldIsPaid, Write, CancelTickets, TypeOK
<1>. QED
  BY <1>2, <1>4, <1>5 DEF Lifecycle!Next

\* The has_one writer hands the ticket over when it read what the buyer holds.
LEMMA LinkIsHandOver ==
  ASSUME TypeOK, SerialInv, NEW w \in Workers, LinkTicket(w)
  PROVE  Lifecycle!Next /\ OneTicketPerKind' /\ HeldIsPaid'
<1>. DEFINE o == req[w].order
            u == Buyer[o]
            k == req[w].kind
            h == req[w].held
<1>1. /\ o \in Orders
      /\ payState[o] = "paid"
      /\ u # NoUser
      /\ Held(u, k) = {h} \ {NoTicket}
  BY DEF LinkTicket, SerialInv, Fresh
<1>2. PICK t \in TicketsOfKind(o, k) : holder' = Handed(t, h)
  BY DEF LinkTicket
<1>3. t \in Tickets /\ OrderOf[t] = o /\ Kind[t] = k
  BY <1>2 DEF TicketsOfKind, TicketsOf
<1>4. u \in Users
  BY <1>1, OrderBookAssumption
<1>5. UNCHANGED payState
  BY DEF LinkTicket
<1>6. \A s \in Tickets : holder[s] = u /\ Kind[s] = k <=> s = h
  BY <1>1, PaymentsAssumption DEF Held
<1>7. holder' = [s \in Tickets |-> IF s = t THEN u
                                   ELSE IF holder[s] = u /\ Kind[s] = Kind[t] THEN NoUser
                                   ELSE holder[s]]
  BY <1>2, <1>3, <1>6 DEF Handed, TypeOK
<1>8. Lifecycle!HandOver(o)
  <2>1. Lifecycle!TicketsOf(o) = TicketsOf(o) /\ Lifecycle!BuyNow(o) = BuyNow(o)
    BY DEF Lifecycle!TicketsOf, TicketsOf, Lifecycle!BuyNow, BuyNow
  <2>2. t \in TicketsOf(o)
    BY <1>2 DEF TicketsOfKind
  <2>. QED
    BY <1>1, <1>5, <1>7, <2>1, <2>2 DEF Lifecycle!HandOver, BuyNow
<1>9. OneTicketPerKind'
  <2>1. ASSUME NEW v \in Users, NEW j \in Kinds, NEW x \in Held(v, j)', NEW y \in Held(v, j)'
        PROVE  x = y
    <3>1. /\ x \in Tickets /\ holder'[x] = v /\ Kind[x] = j
          /\ y \in Tickets /\ holder'[y] = v /\ Kind[y] = j
      BY <2>1 DEF Held
    <3>2. CASE x = t \/ y = t
      BY <1>3, <1>4, <1>7, <3>1, <3>2, OrderBookAssumption
    <3>3. CASE x # t /\ y # t
      <4>1. holder[x] = v /\ holder[y] = v
        BY <1>7, <3>1, <3>3, OrderBookAssumption
      <4>. QED
        BY <3>1, <4>1 DEF SerialInv, OneTicketPerKind, Held
    <3>. QED
      BY <3>2, <3>3
  <2>. QED
    BY <2>1 DEF OneTicketPerKind
<1>10. HeldIsPaid'
  BY <1>1, <1>3, <1>5, <1>7 DEF SerialInv, HeldIsPaid
<1>. QED
  BY <1>1, <1>8, <1>9, <1>10 DEF Lifecycle!Next

\* What follows the link of a kind, in the state after it.
LEMMA NextKindFresh ==
  ASSUME TypeOK, NEW w \in Workers, NextKind(w),
         req[w].order \in Orders, payState'[req[w].order] = "paid"
  PROVE  \E r : Fresh(r)' /\ req' = [req EXCEPT ![w] = r]
<1>1. CASE Finish(w)
  <2>1. Fresh(Idle)'
    BY DEF Fresh, Idle
  <2>. QED
    BY <1>1, <2>1 DEF Finish
<1>2. CASE req' = [req EXCEPT ![w] = [@ EXCEPT !.at = "find", !.kind = "party", !.held = NoTicket]]
  <2>1. PICK r : r = [req[w] EXCEPT !.at = "find", !.kind = "party", !.held = NoTicket]
    OBVIOUS
  <2>2. r.at = "find" /\ r.order = req[w].order
    BY <2>1 DEF TypeOK, Requests
  <2>3. req' = [req EXCEPT ![w] = r]
    BY <1>2, <2>1
  <2>4. Fresh(r)'
    BY <2>2 DEF Fresh
  <2>. QED
    BY <2>3, <2>4
<1>. QED
  BY <1>1, <1>2 DEF NextKind

\* With one worker every step is a step of the declared life, or none.
LEMMA SerialStep ==
  ASSUME Serial, TypeOK, SerialInv, [Next]_vars
  PROVE  SerialInv' /\ (Lifecycle!Next \/ UNCHANGED <<payState, holder>>)
<1> USE DEF tables, outside
<1>. DEFINE Good == SerialInv' /\ (Lifecycle!Next \/ UNCHANGED <<payState, holder>>)
<1>1. ASSUME NEW w \in Workers, NEW r, Fresh(r), req' = [req EXCEPT ![w] = r],
             UNCHANGED <<payState, holder>>
      PROVE  Good
  BY <1>1, FreshFrame
<1>2. ASSUME NEW w \in Workers, NEW r, Fresh(r)', req' = [req EXCEPT ![w] = r],
             Lifecycle!Next, OneTicketPerKind', HeldIsPaid'
      PROVE  Good
  BY <1>2, FreshOnly
<1>3. CASE UNCHANGED <<payState, holder, req>>
  BY <1>3 DEF SerialInv, OneTicketPerKind, HeldIsPaid, Fresh, Held
<1>4. ASSUME NEW w \in Workers, Leave(w) \/ Finish(w), UNCHANGED <<payState, holder>>
      PROVE  Good
  BY <1>1, <1>4, IdleFresh DEF Leave, Finish
<1>5. ASSUME NEW w \in Workers, NEW o \in Orders, PaidNotification(w, o) PROVE Good
  <2>. DEFINE r == [Process(o, IF BuyNow(o) THEN "buy_now" ELSE "regular") EXCEPT !.notice = TRUE]
  <2>1. Fresh(r)
    BY ProcessFresh
  <2>2. req' = [req EXCEPT ![w] = r] /\ UNCHANGED <<payState, holder>>
    BY <1>5 DEF PaidNotification
  <2>. HIDE DEF r
  <2>. QED
    BY <1>1, <2>1, <2>2
<1>6. ASSUME NEW w \in Workers, NEW o \in Orders, ApproveBuyNow(w, o) PROVE Good
  BY <1>1, <1>6, ProcessFresh DEF ApproveBuyNow
<1>7. ASSUME NEW w \in Workers, NEW o \in Orders, StatusRequest(w, o) PROVE Good
  BY <1>1, <1>7, LoadFresh DEF StatusRequest
<1>8. ASSUME NEW w \in Workers, NEW o \in Orders, NEW ev \in Events, EventRequest(w, o, ev)
      PROVE  Good
  <2>. DEFINE r == [Load(o, "event") EXCEPT !.event = ev]
  <2>1. Fresh(r)
    BY DEF Fresh, Load, Idle
  <2>2. req' = [req EXCEPT ![w] = r] /\ UNCHANGED <<payState, holder>>
    BY <1>8 DEF EventRequest
  <2>. HIDE DEF r
  <2>. QED
    BY <1>1, <2>1, <2>2
<1>9. ASSUME NEW w \in Workers, CreateCode(w) PROVE Good
  <2>1. PICK t \in req[w].uncoded : req' = [req EXCEPT ![w].uncoded = @ \ {t}]
    BY <1>9 DEF CreateCode
  <2>. DEFINE r == [req[w] EXCEPT !.uncoded = @ \ {t}]
  <2>2. req[w].at = "codes" /\ UNCHANGED <<payState, holder>>
    BY <1>9 DEF CreateCode
  <2>3. r.at = "codes" /\ r.order = req[w].order /\ r.seen = req[w].seen
    BY <2>2 DEF TypeOK, Requests
  <2>4. req' = [req EXCEPT ![w] = r]
    BY <2>1
  <2>. HIDE DEF r
  <2>5. Fresh(r)
    BY <2>2, <2>3 DEF SerialInv, Fresh
  <2>. QED
    BY <1>1, <2>2, <2>4, <2>5
<1>10. ASSUME NEW w \in Workers, NEW o, NEW how, NEW r, o = req[w].order,
              req[w].at \in {"codes", "pay"}, MayFire(w, "pay"), Write(o, "pay", how),
              UNCHANGED holder, req' = [req EXCEPT ![w] = r],
              r.at \in {"mail", "find"}, r.order = o
       PROVE  Good
  <2>1. o \in Orders /\ payState[o] \in From["pay"]
    BY <1>10 DEF SerialInv, Fresh, MayFire
  <2>2. Lifecycle!Next /\ OneTicketPerKind' /\ HeldIsPaid'
    BY <1>10, <2>1, WriteIsTransition DEF Events
  <2>3. Fresh(r)'
    BY <1>10, <2>1 DEF Fresh, Write, To, TypeOK
  <2>. QED
    BY <1>2, <1>10, <2>2, <2>3
<1>11. ASSUME NEW w \in Workers, PayBuyNow(w) PROVE Good
  <2>. DEFINE r == [req[w] EXCEPT !.at = "mail"]
  <2>1. r.at = "mail" /\ r.order = req[w].order
    BY DEF TypeOK, Requests
  <2>2. \/ Leave(w) /\ UNCHANGED <<payState, holder>>
        \/ /\ MayFire(w, "pay")
           /\ Write(req[w].order, "pay", "buy_now")
           /\ req' = [req EXCEPT ![w] = r]
           /\ UNCHANGED holder
    BY <1>11 DEF PayBuyNow
  <2>3. req[w].at = "codes"
    BY <1>11 DEF PayBuyNow
  <2>. HIDE DEF r
  <2>. QED
    BY <1>4, <1>10, <2>1, <2>2, <2>3
<1>12. ASSUME NEW w \in Workers, EnqueueMail(w) PROVE Good
  BY <1>4, <1>12 DEF EnqueueMail
<1>13. ASSUME NEW w \in Workers, PayRegular(w) PROVE Good
  <2>. DEFINE r == [req[w] EXCEPT !.at = "find"]
  <2>1. r.at = "find" /\ r.order = req[w].order
    BY DEF TypeOK, Requests
  <2>2. \/ Leave(w) /\ UNCHANGED <<payState, holder>>
        \/ /\ MayFire(w, "pay")
           /\ Write(req[w].order, "pay", "regular")
           /\ req' = [req EXCEPT ![w] = r]
           /\ UNCHANGED holder
    BY <1>13 DEF PayRegular
  <2>3. req[w].at = "pay"
    BY <1>13 DEF PayRegular
  <2>. HIDE DEF r
  <2>. QED
    BY <1>4, <1>10, <2>1, <2>2, <2>3
<1>14. ASSUME NEW w \in Workers, FindHeld(w) PROVE Good
  <2>. DEFINE u == Buyer[req[w].order]
              held == Held(u, req[w].kind)
  <2>1. /\ req[w].order \in Orders
        /\ payState[req[w].order] = "paid"
        /\ UNCHANGED <<payState, holder>>
    BY <1>14 DEF FindHeld, SerialInv, Fresh
  <2>2. CASE NextKind(w)
    <3>1. PICK r : Fresh(r)' /\ req' = [req EXCEPT ![w] = r]
      BY <2>1, <2>2, NextKindFresh
    <3>2. Fresh(r)
      BY <2>1, <3>1 DEF Fresh, Held
    <3>. QED
      BY <1>1, <2>1, <3>1, <3>2
  <2>3. CASE Leave(w)
    BY <1>4, <2>1, <2>3
  <2>4. ASSUME u # NoUser,
               NEW h \in (IF held = {} THEN {NoTicket} ELSE held),
               req' = [req EXCEPT ![w] = [@ EXCEPT !.at = "link", !.held = h]]
        PROVE  Good
    <3>. DEFINE r == [req[w] EXCEPT !.at = "link", !.held = h]
    <3>1. /\ r.at = "link" /\ r.order = req[w].order
          /\ r.kind = req[w].kind /\ r.held = h
      BY DEF TypeOK, Requests
    <3>2. held = {h} \ {NoTicket}
      <4>1. CASE held = {}
        BY <2>4, <4>1
      <4>2. CASE held # {}
        <5>1. h \in held /\ h # NoTicket
          BY <2>4, <4>2, PaymentsAssumption DEF Held
        <5>2. u \in Users /\ req[w].kind \in Kinds
          BY <2>1, <2>4, OrderBookAssumption DEF TypeOK, Requests
        <5>3. \A s \in held : s = h
          BY <5>1, <5>2 DEF SerialInv, OneTicketPerKind
        <5>. QED
          BY <5>1, <5>3
      <4>. QED
        BY <4>1, <4>2
    <3>3. req' = [req EXCEPT ![w] = r]
      BY <2>4
    <3>. HIDE DEF r
    <3>4. Fresh(r)
      BY <2>1, <2>4, <3>1, <3>2 DEF Fresh
    <3>. QED
      BY <1>1, <2>1, <3>3, <3>4
  <2>. QED
    BY <1>14, <2>2, <2>3, <2>4 DEF FindHeld
<1>15. ASSUME NEW w \in Workers, LinkTicket(w) PROVE Good
  <2>1. Lifecycle!Next /\ OneTicketPerKind' /\ HeldIsPaid'
    BY <1>15, LinkIsHandOver
  <2>2. req[w].order \in Orders /\ payState'[req[w].order] = "paid" /\ NextKind(w)
    BY <1>15 DEF LinkTicket, SerialInv, Fresh
  <2>3. PICK r : Fresh(r)' /\ req' = [req EXCEPT ![w] = r]
    BY <2>2, NextKindFresh
  <2>. QED
    BY <1>2, <2>1, <2>3
<1>16. ASSUME NEW w \in Workers, StatusAnswer(w) PROVE Good
  <2>1. /\ req[w].order \in Orders /\ req[w].seen = payState[req[w].order]
        /\ UNCHANGED <<payState, holder>>
    BY <1>16 DEF StatusAnswer, SerialInv, Fresh
  <2>2. ASSUME NEW ev \in {"cancel", "refund", "decline"},
               req' = [req EXCEPT ![w] = [@ EXCEPT !.at = "event", !.event = ev]]
        PROVE  Good
    <3>. DEFINE r == [req[w] EXCEPT !.at = "event", !.event = ev]
    <3>1. r.at = "event" /\ r.order = req[w].order /\ r.seen = req[w].seen
      BY DEF TypeOK, Requests
    <3>2. req' = [req EXCEPT ![w] = r]
      BY <2>2
    <3>. HIDE DEF r
    <3>3. Fresh(r)
      BY <2>1, <3>1 DEF Fresh
    <3>. QED
      BY <1>1, <2>1, <3>2, <3>3
  <2>3. CASE req' = [req EXCEPT ![w].at = "pay"]
    <3>. DEFINE r == [req[w] EXCEPT !.at = "pay"]
    <3>1. r.at = "pay" /\ r.order = req[w].order /\ r.seen = req[w].seen
      BY DEF TypeOK, Requests
    <3>2. req' = [req EXCEPT ![w] = r]
      BY <2>3
    <3>. HIDE DEF r
    <3>3. Fresh(r)
      BY <2>1, <3>1 DEF Fresh
    <3>. QED
      BY <1>1, <2>1, <3>2, <3>3
  <2>4. CASE req' = [req EXCEPT ![w] = Idle]
    BY <1>1, <2>1, <2>4, IdleFresh
  <2>. QED
    BY <1>16, <2>2, <2>3, <2>4 DEF StatusAnswer
<1>17. ASSUME NEW w \in Workers, FireEvent(w) PROVE Good
  <2>. DEFINE o == req[w].order
              ev == req[w].event
  <2>1. o \in Orders /\ req[w].seen = payState[o] /\ ev \in Events
    BY <1>17 DEF FireEvent, SerialInv, Fresh, TypeOK, Requests
  <2>2. CASE ~MayFire(w, ev)
    BY <1>4, <1>17, <2>2 DEF FireEvent
  <2>3. CASE MayFire(w, ev)
    <3>1. payState[o] \in From[ev] /\ Write(o, ev, "event")
      BY <1>17, <2>1, <2>3 DEF FireEvent, MayFire
    <3>2. Lifecycle!Next /\ OneTicketPerKind' /\ HeldIsPaid'
      <4>1. CASE ev = "refund"
        <5>1. CancelTickets(o)
          BY <1>17, <2>3, <4>1 DEF FireEvent
        <5>. QED
          BY <2>1, <3>1, <4>1, <5>1, CancelIsRefund
      <4>2. CASE ev # "refund"
        <5>1. UNCHANGED holder
          BY <1>17, <2>3, <4>2 DEF FireEvent
        <5>. QED
          BY <2>1, <3>1, <4>2, <5>1, WriteIsTransition
      <4>. QED
        BY <4>1, <4>2
    <3>3. req' = [req EXCEPT ![w] = Idle]
      BY <1>17 DEF FireEvent, Leave
    <3>4. Fresh(Idle)'
      BY DEF Fresh, Idle
    <3>. QED
      BY <1>2, <3>2, <3>3, <3>4
  <2>. QED
    BY <2>2, <2>3
<1>18. ASSUME NEW w \in Workers, Abort(w) PROVE Good
  BY <1>4, <1>18 DEF Abort
<1>19. CASE \E o \in Orders : GatewayStep(o)
  BY <1>3, <1>19 DEF GatewayStep
<1>20. CASE UNCHANGED vars
  BY <1>3, <1>20 DEF vars
<1>21. ASSUME NEW w \in Workers, Arrive(w) PROVE Good
  BY <1>5, <1>6, <1>7, <1>8, <1>21 DEF Arrive
<1>22. ASSUME NEW w \in Workers, Serve(w) PROVE Good
  BY <1>9, <1>11, <1>12, <1>13, <1>14, <1>15, <1>16, <1>17, <1>22 DEF Serve
<1>23. CASE Next
  BY <1>18, <1>19, <1>21, <1>22, <1>23 DEF Next
<1>. QED
  BY <1>20, <1>23

LEMMA SerialInit ==
  ASSUME Init
  PROVE  SerialInv /\ Lifecycle!Init
<1>1. \A u \in Users : \A k : Held(u, k) = {}
  BY OrderBookAssumption DEF Init, Held
<1>2. OneTicketPerKind /\ HeldIsPaid
  BY <1>1 DEF Init, OneTicketPerKind, HeldIsPaid
<1>3. Lifecycle!Init
  BY DEF Init, Lifecycle!Init
<1>4. \A w \in Workers : req[w] = Idle
  BY DEF Init
<1>. QED
  BY <1>2, <1>3, <1>4, IdleFresh DEF SerialInv

\* Requests that do not overlap keep at most one ticket of a kind per user.
THEOREM OneTicketPerKindSerial == ASSUME Serial PROVE Spec => []OneTicketPerKind
<1>1. SerialInv => OneTicketPerKind
  BY DEF SerialInv
<1>2. TypeOK /\ SerialInv /\ [Next]_vars => SerialInv'
  BY SerialStep
<1>3. Init => SerialInv
  BY SerialInit
<1>. QED
  BY <1>1, <1>2, <1>3, TypeCorrect, PTL DEF Spec

\* Requests that do not overlap leave no ticket with a user unless its order is paid.
THEOREM HeldIsPaidSerial == ASSUME Serial PROVE Spec => []HeldIsPaid
<1>1. SerialInv => HeldIsPaid
  BY DEF SerialInv
<1>2. TypeOK /\ SerialInv /\ [Next]_vars => SerialInv'
  BY SerialStep
<1>3. Init => SerialInv
  BY SerialInit
<1>. QED
  BY <1>1, <1>2, <1>3, TypeCorrect, PTL DEF Spec

\* Requests that do not overlap, even if they die half way, implement the life
\* of orders that the model Order declares.
THEOREM LifecycleImplemented == ASSUME Serial PROVE Spec => ImplementsLifecycle
<1>1. TypeOK /\ SerialInv /\ [Next]_vars => SerialInv'
  BY SerialStep
<1>2. TypeOK /\ SerialInv /\ [Next]_vars => [Lifecycle!Next]_Lifecycle!vars
  BY SerialStep DEF Lifecycle!vars
<1>3. Init => SerialInv /\ Lifecycle!Init
  BY SerialInit
<1>. QED
  BY <1>1, <1>2, <1>3, TypeCorrect, PTL DEF Spec, ImplementsLifecycle, Lifecycle!Spec

=============================================================================
