------------------------------ MODULE CodeBook ------------------------------
(***************************************************************************)
(* What the modules about activation codes share: the ticket_codes rows    *)
(* and their states (app/models/ticket_code.rb).                           *)
(***************************************************************************)
CONSTANTS
  Codes,     \* the ticket_codes rows, those not yet created included
  CodeKind,  \* TicketCode.kind: which kind of ticket a code is good for
  Users,
  NoUser     \* NULL in tickets.user_id

Kinds == {"conference", "party"}

ASSUME CodeBookAssumption ==
  /\ CodeKind \in [Codes -> Kinds]
  /\ NoUser \notin Users

\* TicketCode.state, with the row not yet there, and deleted.
CodeStates == {"absent", "new", "active", "canceled", "destroyed"}

=============================================================================
