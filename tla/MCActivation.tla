---------------------------- MODULE MCActivation ----------------------------
(***************************************************************************)
(* Small instances of Activation for TLC: codes d1, d2 of a distributor    *)
(* and s1 of a visitor's order (ticket 1), all for the conference, and p1  *)
(* of a distributor for the afterparty.                                    *)
(***************************************************************************)
EXTENDS Activation, TLC

CONSTANTS d1, d2, s1, p1, t1

MCKind == [c \in Codes |-> IF c = p1 THEN "party" ELSE "conference"]
MCSold == IF s1 \in Codes THEN t1 :> s1 ELSE <<>>

\* Users, workers, and the rows that are not sold are interchangeable.
Symmetry ==
  Permutations(Users) \cup Permutations(Workers) \cup Permutations(Tickets \ {t1})

\* The behaviours in which only users submit codes, each one at a time, and
\* nothing else happens: what different users can do to each other without an
\* administrator or a refund.
UsersOnly ==
  \/ \E c \in Codes : CreateCode(c)
  \/ \E w \in Workers :
       \/ Serve(w)
       \/ \E u \in Users, c \in Codes :
            (\A v \in Workers : req[v].user # u) /\ Activate(w, u, c)

UsersOnlySpec == Init /\ [][UsersOnly]_vars

=============================================================================
