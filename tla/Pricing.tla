------------------------------ MODULE Pricing ------------------------------
(***************************************************************************)
(* What an order costs: the price list, campaigns and coupons              *)
(* (app/models/pricelist.rb, campaign.rb, coupon.rb, order.rb).            *)
(*                                                                         *)
(* The prices of the tickets matter only through their sum, `full', and    *)
(* the tickets through how many there are of each kind, t and p.  Prices   *)
(* are whole roubles, so the floats of the code compute exactly what the   *)
(* integers here do.                                                       *)
(***************************************************************************)
EXTENDS Integers

\* Days are told apart by the price changes between them: 0 is any day before
\* 2017-01-01, then January, February, March, April 1 to 8, and from April 9.
Days == 0..5

\* Pricelist.ticket_price and .afterparty_ticket_price
TicketPrice == [d \in Days |->
  CASE d = 0 -> 990 [] d = 1 -> 1330 [] d = 2 -> 2000 [] d = 3 -> 2500
    [] d = 4 -> 3500 [] d = 5 -> 4000]
PartyPrice == [d \in Days |->
  CASE d = 0 -> 2500 [] d \in 1..3 -> 3000 [] d \in 4..5 -> 3500]

\* A campaign's tickets_count and afterparty_tickets_count are positive or nil.
AnyCount == 0

\* The attributes the validations let through; a discount_amount may be negative.
CampaignRows ==
  [tickets : Nat, parties : Nat, from : Days, to : Days, amount : Int]
CouponRows == [discount : 0..100, commission : 0..100]

\* Campaign.in_range, as collision_date uses it.
Overlap(a, b) == a.from <= b.to /\ b.from <= a.to

\* Campaign.suitable_for, for one campaign.
Suitable(cp, t, p, day) ==
  /\ cp.tickets = AnyCount \/ cp.tickets <= t
  /\ cp.parties = AnyCount \/ cp.parties <= p
  /\ day \in cp.from..cp.to

\* How many times a campaign's discount applies: once per ticket, or once per
\* complete set of tickets.
Rate(cp, t, p) ==
  CASE cp.tickets = AnyCount /\ cp.parties = AnyCount -> t + p
    [] cp.tickets # AnyCount /\ cp.parties = AnyCount -> t \div cp.tickets
    [] cp.tickets = AnyCount /\ cp.parties # AnyCount -> p \div cp.parties
    [] OTHER -> LET a == t \div cp.tickets
                    b == p \div cp.parties
                IN  IF a <= b THEN a ELSE b

\* No campaign: campaign_discount_value is 0.
NoCampaign == [tickets |-> AnyCount, parties |-> AnyCount, from |-> 0, to |-> 0, amount |-> 0]

\* Mutant: a discount above the full cost is not dropped.
CampaignDiscountUncapped(cp, full, t, p) == cp.amount * Rate(cp, t, p)

\* Order#campaign_discount_value: a discount above the full cost is none at all.
CampaignDiscount(cp, full, t, p) ==
  LET discount == cp.amount * Rate(cp, t, p)
  IN  IF discount > full THEN 0 ELSE discount

\* (x / 100.0).ceil
CeilPercent(x) == -((-x) \div 100)

\* Coupon#with_discount and #partner_commission; no coupon is 0 and 0.
NoCoupon == [discount |-> 0, commission |-> 0]
WithDiscount(c, sum) == CeilPercent(sum * (100 - c.discount))
PartnerCommission(c, sum) == CeilPercent(sum * c.commission)

\* Order#coupon_discount_value and #partner_commission_value
CouponDiscount(c, cp, full, t, p) ==
  LET sum == full - CampaignDiscount(cp, full, t, p)
  IN  sum - WithDiscount(c, sum)
Commission(c, cp, full, t, p) ==
  PartnerCommission(c, full - CampaignDiscount(cp, full, t, p))

\* Mutant: the coupon's discount is taken off the full price, with no clamp.
CostCouponOnFull(c, cp, full, t, p) ==
  full - CampaignDiscount(cp, full, t, p) - (full - WithDiscount(c, full))

\* Order#recalculate_cost
Cost(c, cp, full, t, p) ==
  LET total == IF full > 0
               THEN full - CampaignDiscount(cp, full, t, p) - CouponDiscount(c, cp, full, t, p)
               ELSE full
  IN  IF total < 0 THEN 0 ELSE total

=============================================================================
