----------------------------- MODULE Activation -----------------------------
(***************************************************************************)
(* Activation codes: created and deleted by administrators, activated by   *)
(* users and by administrators, canceled with their tickets.               *)
(*                                                                         *)
(* A request reads the code, then what ticket the user has, then (users)   *)
(* whether the code has a ticket, and writes in one transaction at the     *)
(* end.  Nothing is locked and no index is unique, so the reads and the    *)
(* transaction of two workers interleave; what a transaction wrote is seen *)
(* by others when it commits (READ COMMITTED), which is one step here.     *)
(***************************************************************************)
EXTENDS CodeBook, FiniteSets

CONSTANTS
  Tickets,   \* bound: ticket rows that may ever be inserted
  Workers,   \* the unicorn worker processes
  NoTicket, NoCode,
  Sold       \* [subset of Tickets -> Codes]: the tickets of one paid /buy_now
             \* order and the codes BuyNow made for them

ASSUME ActivationAssumption ==
  /\ NoTicket \notin Tickets
  /\ NoCode \notin Codes
  /\ DOMAIN Sold \subseteq Tickets
  /\ \A t \in DOMAIN Sold : Sold[t] \in Codes
  /\ \A s, t \in DOMAIN Sold : Sold[s] = Sold[t] => s = t

VARIABLES
  codeState,   \* ticket_codes.state
  ticketCode,  \* tickets.ticket_code_id; NoCode: the row is not there yet
  holder,      \* tickets.user_id
  refunded,    \* the order of the sold tickets was refunded
  halfDone,    \* history: tickets whose cancel died between its two writes
  req          \* the request each worker serves

tables == <<codeState, ticketCode, holder, refunded>>
vars == <<tables, halfDone, req>>

SoldTickets == DOMAIN Sold
SoldCodes == {Sold[t] : t \in SoldTickets}

\* Where in its handler a request is: the next thing it does.
Places == {"idle",
           "vacant",   \* admin, code page: has the user no ticket?
           "service",  \* admin: TicketCode.can_activate.find_by
           "own",      \* read the user's ticket of the kind
           "find",     \* user: read the ticket of the code
           "commit",   \* user or admin: the transaction
           "cancel",   \* cancel_ticket: cancel the code
           "release",  \* cancel_ticket: save the ticket without its user
           "destroy"}  \* ticket_code.destroy

Requests == [at    : Places,
             admin : BOOLEAN,
             user  : Users \cup {NoUser},
             code  : Codes \cup {NoCode},
             seen  : CodeStates,            \* the state the code was loaded with
             held  : Tickets \cup {NoTicket},  \* the user's ticket, as loaded
             found : Tickets \cup {NoTicket},  \* the code's ticket, as loaded
             mine  : BOOLEAN]                  \* the found ticket was the user's

Idle == [at |-> "idle", admin |-> FALSE, user |-> NoUser, code |-> NoCode,
         seen |-> "absent", held |-> NoTicket, found |-> NoTicket, mine |-> FALSE]

TypeOK ==
  /\ codeState \in [Codes -> CodeStates]
  /\ ticketCode \in [Tickets -> Codes \cup {NoCode}]
  /\ holder \in [Tickets -> Users \cup {NoUser}]
  /\ refunded \in BOOLEAN
  /\ halfDone \in SUBSET Tickets
  /\ req \in [Workers -> Requests]

Init ==
  /\ codeState = [c \in Codes |-> IF c \in SoldCodes THEN "new" ELSE "absent"]
  /\ ticketCode = [t \in Tickets |-> IF t \in SoldTickets THEN Sold[t] ELSE NoCode]
  /\ holder = [t \in Tickets |-> NoUser]
  /\ refunded = FALSE
  /\ halfDone = {}
  /\ req = [w \in Workers |-> Idle]

Held(u, k) ==
  {t \in Tickets : holder[t] = u /\ ticketCode[t] # NoCode /\ CodeKind[ticketCode[t]] = k}

TicketsWith(c) == {t \in Tickets : ticketCode[t] = c}

\* What a has_one or find_by query returns: any matching row, or nil.
OneOf(ts) == IF ts = {} THEN {NoTicket} ELSE ts

Done(w) == req' = [req EXCEPT ![w] = Idle]
GoOn(w, place) == req' = [req EXCEPT ![w].at = place]

-----------------------------------------------------------------------------
(* Administration of codes and orders, each a single transaction.          *)

\* TicketCode.create with the generated attributes.
CreateCode(c) ==
  /\ codeState[c] = "absent"
  /\ codeState' = [codeState EXCEPT ![c] = "new"]
  /\ UNCHANGED <<ticketCode, holder, refunded, halfDone, req>>

\* The refund of the order of the sold tickets: Order#cancel_tickets.
Refund(w) ==
  /\ req[w].at = "idle"
  /\ SoldTickets # {} /\ ~refunded
  /\ refunded' = TRUE
  /\ holder' = [t \in Tickets |-> IF t \in SoldTickets THEN NoUser ELSE holder[t]]
  /\ codeState' = [c \in Codes |-> IF c \in SoldCodes THEN "canceled" ELSE codeState[c]]
  /\ UNCHANGED <<ticketCode, halfDone, req>>

\* ticket_codes#destroy loads the code if its state is new ...
DestroyRequest(w, c) ==
  /\ req[w].at = "idle"
  /\ codeState[c] = "new"
  /\ req' = [req EXCEPT ![w] = [Idle EXCEPT !.at = "destroy", !.code = c]]
  /\ UNCHANGED <<tables, halfDone>>

\* Mutant: tickets.ticket_code_id is no foreign key.
DestroyReferenced(w) ==
  /\ req[w].at = "destroy"
  /\ codeState' = [codeState EXCEPT ![req[w].code] = "destroyed"]
  /\ Done(w)
  /\ UNCHANGED <<ticketCode, holder, refunded, halfDone>>

\* ... and deletes it; the foreign key of the tickets tables may refuse.
DestroyCode(w) ==
  /\ req[w].at = "destroy"
  /\ codeState' = IF TicketsWith(req[w].code) = {}
                  THEN [codeState EXCEPT ![req[w].code] = "destroyed"]
                  ELSE codeState
  /\ Done(w)
  /\ UNCHANGED <<ticketCode, holder, refunded, halfDone>>

-----------------------------------------------------------------------------
(* Activation.                                                             *)

Request(u, c, place) ==
  [Idle EXCEPT !.at = place, !.user = u, !.code = c, !.seen = codeState[c]]

\* account/tickets#activate: the form finds the code and refuses active ones.
Activate(w, u, c) ==
  /\ req[w].at = "idle"
  /\ codeState[c] \in {"new", "canceled"}
  /\ req' = [req EXCEPT ![w] = Request(u, c, "own")]
  /\ UNCHANGED <<tables, halfDone>>

\* admin/users#activate_code: the form asks for a new code.
ActivateForUser(w, u, c) ==
  /\ req[w].at = "idle"
  /\ codeState[c] = "new"
  /\ req' = [req EXCEPT ![w] = [Request(u, c, "service") EXCEPT !.admin = TRUE]]
  /\ UNCHANGED <<tables, halfDone>>

\* admin/ticket_codes#activate, whose form looks at the user only.
ActivateOnCodePage(w, u, c) ==
  /\ req[w].at = "idle"
  /\ codeState[c] \notin {"absent", "destroyed"}
  /\ req' = [req EXCEPT ![w] = [Request(u, c, "vacant") EXCEPT !.admin = TRUE]]
  /\ UNCHANGED <<tables, halfDone>>

\* Admin::TicketCodeActivationType#user_without_ticket
CheckVacant(w) ==
  /\ req[w].at = "vacant"
  /\ IF Held(req[w].user, CodeKind[req[w].code]) = {} THEN GoOn(w, "service") ELSE Done(w)
  /\ UNCHANGED <<tables, halfDone>>

\* AdminTicketActivationService#activate_code: can_activate.find_by, nil raises.
FindNewCode(w) ==
  /\ req[w].at = "service"
  /\ IF codeState[req[w].code] = "new"
     THEN req' = [req EXCEPT ![w] = [@ EXCEPT !.at = "own", !.seen = "new"]]
     ELSE Done(w)
  /\ UNCHANGED <<tables, halfDone>>

\* Mutant: the form does not look at the tickets of the user.
ReadOwnUnchecked(w) ==
  LET held == Held(req[w].user, CodeKind[req[w].code]) IN
  /\ req[w].at = "own"
  /\ \/ ~req[w].admin /\ GoOn(w, "find")
     \/ /\ req[w].admin
        /\ \E h \in OneOf(held) : req' = [req EXCEPT ![w] = [@ EXCEPT !.at = "commit", !.held = h]]
  /\ UNCHANGED <<tables, halfDone>>

\* The user's ticket of the kind: the form refuses when there is one, the
\* administrator's service cancels it later.
ReadOwn(w) ==
  LET held == Held(req[w].user, CodeKind[req[w].code]) IN
  /\ req[w].at = "own"
  /\ \/ ~req[w].admin /\ held # {} /\ Done(w)
     \/ ~req[w].admin /\ held = {} /\ GoOn(w, "find")
     \/ /\ req[w].admin
        /\ \E h \in OneOf(held) : req' = [req EXCEPT ![w] = [@ EXCEPT !.at = "commit", !.held = h]]
  /\ UNCHANGED <<tables, halfDone>>

\* Ticket.find_or_create_by!(ticket_code: code): the find.
FindTicket(w) ==
  /\ req[w].at = "find"
  /\ \E t \in OneOf(TicketsWith(req[w].code)) :
       req' = [req EXCEPT ![w] =
                 [@ EXCEPT !.at = "commit", !.found = t,
                           !.mine = t # NoTicket /\ holder[t] = req[w].user]]
  /\ UNCHANGED <<tables, halfDone>>

\* The row the transaction writes: the one found, or one it inserts.
Rows(found) ==
  IF found # NoTicket THEN {found} ELSE {t \in Tickets : ticketCode[t] = NoCode}

\* Mutant: `activate' for `activate!', whose false is not looked at.
ActivatesAnyway(r) == codeState[r.code] # "destroyed"

\* code.activate! raises, and everything rolls back, unless the code was loaded
\* as new; the ticket of a code deleted meanwhile cannot be inserted.
Activates(r) == r.seen = "new" /\ codeState[r.code] # "destroyed"

\* ActivateTicketCode.call: `user.ticket =' the found or the inserted ticket
\* (the user's own ticket, cached as nil by the form, is not asked for again),
\* then code.activate!
CommitUser(w) ==
  LET r == req[w] IN
  /\ r.at = "commit" /\ ~r.admin
  /\ \/ /\ Activates(r)
        /\ \E t \in Rows(r.found) :
             /\ ticketCode' = [ticketCode EXCEPT ![t] = r.code]
             /\ holder' = IF r.mine THEN holder ELSE [holder EXCEPT ![t] = r.user]
        /\ codeState' = [codeState EXCEPT ![r.code] = "active"]
     \/ ~Activates(r) /\ UNCHANGED <<codeState, ticketCode, holder>>
  /\ Done(w)
  /\ UNCHANGED <<refunded, halfDone>>

\* Mutant: the earlier ticket loses its user, its code stays active.
ReleasedNone(r) == {}

\* The code of the ticket the user had, canceled with it.
Released(r) == IF r.held = NoTicket THEN {} ELSE {ticketCode[r.held]}

\* activate_code: the ticket the user had is canceled with its code, a new row
\* is built (also when the code has a ticket), and the code is activated.
CommitAdmin(w) ==
  LET r == req[w] IN
  /\ r.at = "commit" /\ r.admin
  /\ \/ /\ Activates(r)
        /\ \E t \in Rows(NoTicket) :
             /\ ticketCode' = [ticketCode EXCEPT ![t] = r.code]
             /\ holder' = [s \in Tickets |-> IF s = t THEN r.user
                                             ELSE IF s = r.held THEN NoUser ELSE holder[s]]
        /\ codeState' = [c \in Codes |-> IF c = r.code THEN "active"
                                         ELSE IF c \in Released(r) THEN "canceled"
                                         ELSE codeState[c]]
     \/ ~Activates(r) /\ UNCHANGED <<codeState, ticketCode, holder>>
  /\ Done(w)
  /\ UNCHANGED <<refunded, halfDone>>

-----------------------------------------------------------------------------
(* admin/users#cancel_ticket: Ticket#cancel outside any transaction.       *)

CancelTicket(w, u, k) ==
  /\ req[w].at = "idle"
  /\ \E h \in Held(u, k) :
       req' = [req EXCEPT ![w] = [Idle EXCEPT !.at = "cancel", !.user = u, !.held = h]]
  /\ UNCHANGED <<tables, halfDone>>

\* Mutant: the event's name is written instead of its target state.
CancelCodeName(w) ==
  /\ req[w].at = "cancel"
  /\ codeState' = [codeState EXCEPT ![ticketCode[req[w].held]] = "cancel"]
  /\ GoOn(w, "release")
  /\ UNCHANGED <<ticketCode, holder, refunded, halfDone>>

\* Mutant: the ticket is not saved after its user was set to nil.
CancelCodeOnly(w) ==
  /\ req[w].at = "cancel"
  /\ codeState' = [codeState EXCEPT ![ticketCode[req[w].held]] = "canceled"]
  /\ Done(w)
  /\ UNCHANGED <<ticketCode, holder, refunded, halfDone>>

CancelCode(w) ==
  /\ req[w].at = "cancel"
  /\ codeState' = [codeState EXCEPT ![ticketCode[req[w].held]] = "canceled"]
  /\ GoOn(w, "release")
  /\ UNCHANGED <<ticketCode, holder, refunded, halfDone>>

ReleaseTicket(w) ==
  /\ req[w].at = "release"
  /\ holder' = [holder EXCEPT ![req[w].held] = NoUser]
  /\ Done(w)
  /\ UNCHANGED <<codeState, ticketCode, refunded, halfDone>>

\* The worker is killed, or a statement raises: an open transaction leaves
\* nothing behind, the first of cancel_ticket's two stays.
Abort(w) ==
  /\ req[w].at # "idle"
  /\ halfDone' = halfDone \cup {t \in Tickets : req[w].at = "release" /\ req[w].held = t}
  /\ Done(w)
  /\ UNCHANGED tables

-----------------------------------------------------------------------------
Arrive(w) ==
  \/ Refund(w)
  \/ \E c \in Codes :
       \/ DestroyRequest(w, c)
       \/ \E u \in Users :
            Activate(w, u, c) \/ ActivateForUser(w, u, c) \/ ActivateOnCodePage(w, u, c)
  \/ \E u \in Users, k \in Kinds : CancelTicket(w, u, k)

Serve(w) ==
  \/ CheckVacant(w)
  \/ FindNewCode(w)
  \/ ReadOwn(w)
  \/ FindTicket(w)
  \/ CommitUser(w)
  \/ CommitAdmin(w)
  \/ DestroyCode(w)
  \/ CancelCode(w)
  \/ ReleaseTicket(w)

Next ==
  \/ \E c \in Codes : CreateCode(c)
  \/ \E w \in Workers : Arrive(w) \/ Serve(w) \/ Abort(w)

Spec == Init /\ [][Next]_vars

-----------------------------------------------------------------------------
(* Properties.                                                             *)

\* However two workers interleave, a ticket is held only through a code that
\* was activated with it in one transaction: the code of a held ticket is never
\* back to, or still, new, and it was not deleted from under the ticket.
HeldWasActivated ==
  \A t \in Tickets : holder[t] # NoUser => codeState[ticketCode[t]] \in {"active", "canceled"}

\* 'This code was already activated': no two users hold tickets of one code.
OneHolderPerCode ==
  \A s, t \in Tickets :
    holder[s] # NoUser /\ holder[t] # NoUser /\ ticketCode[s] = ticketCode[t] => s = t

\* 'You already have a ticket': a user holds at most one ticket of a kind.
OneTicketPerKind ==
  \A u \in Users, k \in Kinds : \A s, t \in Held(u, k) : s = t

\* A held ticket's code is active, with two exceptions that the code has: a
\* cancel_ticket that stopped between its writes, and a code of a refunded
\* order that an administrator activated (the ticket then is not the order's).
HeldIsActive ==
  \A t \in Tickets :
    holder[t] # NoUser =>
      \/ codeState[ticketCode[t]] = "active"
      \/ t \in halfDone
      \/ \E w \in Workers : req[w].at = "release" /\ req[w].held = t
      \/ refunded /\ ticketCode[t] \in SoldCodes /\ t \notin SoldTickets

\* TicketCode activates from new only: what was canceled with a refund or by an
\* administrator stays canceled.
CanceledIsFinal ==
  [][\A c \in Codes : codeState[c] = "canceled" => codeState'[c] = "canceled"]_vars

\* The requests implement the declared life of a code.
OwnerOf(c) ==
  LET holding == {t \in TicketsWith(c) : holder[t] # NoUser}
  IN  IF holding = {} THEN NoUser ELSE holder[CHOOSE t \in holding : TRUE]

Lifecycle == INSTANCE CodeLifecycle WITH owner <- [c \in Codes |-> OwnerOf(c)]
ImplementsLifecycle == Lifecycle!Spec

-----------------------------------------------------------------------------
(* Why they hold: the invariants that ActivationProofs proves.             *)

\* The code of a ticket was activated with it.
Used(t) == ticketCode[t] # NoCode /\ codeState[ticketCode[t]] \in {"active", "canceled"}

\* What a request remembers is still true when it writes.
Sound(r) ==
  /\ r.at \notin {"idle", "cancel", "release"} => r.code \in Codes /\ codeState[r.code] # "absent"
  /\ r.at \in {"vacant", "service", "own", "find", "commit"} => r.user # NoUser
  /\ r.found # NoTicket => r.at = "commit" /\ ticketCode[r.found] = r.code
  /\ r.held # NoTicket => r.at \in {"commit", "cancel", "release"} /\ Used(r.held)
  /\ r.at \in {"cancel", "release"} => r.held # NoTicket

UsedInv ==
  /\ \A t \in Tickets :
       ticketCode[t] # NoCode => codeState[ticketCode[t]] \notin {"absent", "destroyed"}
  /\ \A t \in Tickets : holder[t] # NoUser => Used(t)
  /\ \A t \in SoldTickets : ticketCode[t] = Sold[t]
  /\ \A w \in Workers : Sound(req[w])

\* While requests do not overlap, what a request read stays as it was.
Current(r) ==
  /\ r.at \in {"own", "find", "commit"} => codeState[r.code] = r.seen
  /\ r.at = "destroy" => codeState[r.code] = "new"
  /\ r.at = "release" => codeState[ticketCode[r.held]] = "canceled"
  /\ r.at \in {"cancel", "release", "commit"} /\ r.held # NoTicket =>
       r.user # NoUser /\ holder[r.held] = r.user /\ ticketCode[r.held] \in Codes
  /\ r.at \in {"find", "commit"} /\ ~r.admin => Held(r.user, CodeKind[r.code]) = {}
  /\ r.at = "find" => ~r.admin
  /\ r.at = "commit" /\ r.admin => Held(r.user, CodeKind[r.code]) \subseteq {r.held}
  /\ r.at = "commit" /\ r.admin /\ r.held # NoTicket =>
       CodeKind[ticketCode[r.held]] = CodeKind[r.code]
  /\ ~r.mine

SerialInv ==
  /\ OneHolderPerCode
  /\ OneTicketPerKind
  /\ HeldIsActive
  /\ \A w \in Workers : Current(req[w])

=============================================================================
