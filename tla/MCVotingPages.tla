--------------------------- MODULE MCVotingPages ---------------------------
(***************************************************************************)
(* Two lectures of two sections, the visitor and one other user, two       *)
(* requests in flight.                                                     *)
(***************************************************************************)
EXTENDS VotingPages, TLC

CONSTANTS l1, l2, s1, s2

MCSectionOf == l1 :> s1 @@ l2 :> s2

Symmetry == Permutations(Requests)

=============================================================================
