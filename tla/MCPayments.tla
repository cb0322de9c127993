----------------------------- MODULE MCPayments -----------------------------
(***************************************************************************)
(* Small instances of Payments for TLC.                                    *)
(*   a1  an account order of alice:  a conference and an afterparty ticket *)
(*   a2  a second order of alice, one conference ticket            *)
(*   b1  a visitor's (/buy_now) order: a conference and an afterparty one  *)
(***************************************************************************)
EXTENDS Payments, TLC

CONSTANTS a1, a2, b1, alice

MCUsers == {alice}
AllTickets == 1..5
AllOrderOf == 1 :> a1 @@ 2 :> a1 @@ 3 :> a2 @@ 4 :> b1 @@ 5 :> b1
AllKind == 1 :> "conference" @@ 2 :> "party" @@ 3 :> "conference"
           @@ 4 :> "conference" @@ 5 :> "party"

\* The rows of the orders an instance has.
MCTickets == {t \in AllTickets : AllOrderOf[t] \in Orders}
MCOrderOf == [t \in MCTickets |-> AllOrderOf[t]]
MCKind == [t \in MCTickets |-> AllKind[t]]
MCBuyer == [o \in Orders |-> IF o = b1 THEN NoUser ELSE alice]

Symmetry == Permutations(Workers) \cup Permutations(Codes)

=============================================================================
