----------------------------- MODULE MCOrdering -----------------------------
(***************************************************************************)
(* Small instances of Ordering for TLC.                                    *)
(***************************************************************************)
EXTENDS Ordering, TLC

\* A set of one ticket of each kind, every second conference ticket, and a
\* discount on everything that exceeds the price of what people order.
MCCampaigns ==
  {[tickets |-> 1, parties |-> 1, from |-> 0, to |-> 1, amount |-> 490],
   [tickets |-> 2, parties |-> AnyCount, from |-> 1, to |-> 1, amount |-> 1980],
   [tickets |-> AnyCount, parties |-> AnyCount, from |-> 0, to |-> 0, amount |-> 3000]}

MCCoupons == {[discount |-> 33, commission |-> 5], [discount |-> 100, commission |-> 0]}

MCCarts == {<<1, 1>>, <<2, 0>>}

\* Campaigns of every range of three days.
MCRanges == {cp \in
  {[tickets |-> 1, parties |-> AnyCount, from |-> f, to |-> l, amount |-> 100] :
     f \in 0..2, l \in 0..2} : cp.from <= cp.to}
MCOneCoupon == {[discount |-> 33, commission |-> 5]}
MCOneCart == {<<1, 0>>}

Symmetry == Permutations(Workers)

=============================================================================
