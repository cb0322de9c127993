--------------------------- MODULE OrderingProofs ---------------------------
(***************************************************************************)
(* Theorems about Pricing, for every campaign, coupon and number of        *)
(* tickets, and about Ordering, for any number of orders, campaigns ever   *)
(* created, workers, and terms the forms are filled in with.               *)
(***************************************************************************)
EXTENDS Ordering, TLAPS

-----------------------------------------------------------------------------
(* What an order costs.                                                    *)

LEMMA CeilPercentBound ==
  ASSUME NEW x \in Nat, NEW s \in Nat, x <= 100 * s
  PROVE  CeilPercent(x) \in 0..s
  BY DEF CeilPercent

LEMMA PercentBound ==
  ASSUME NEW s \in Nat, NEW d \in 0..100
  PROVE  s * d \in Nat /\ s * d <= 100 * s
  BY SMT

LEMMA RateType ==
  ASSUME NEW cp \in CampaignRows, NEW t \in Nat, NEW p \in Nat
  PROVE  Rate(cp, t, p) \in Nat
<1>1. ASSUME NEW n \in Nat, NEW m \in Nat \ {0} PROVE n \div m \in Nat
  OBVIOUS
<1>2. cp.tickets \in Nat /\ cp.parties \in Nat
  BY DEF CampaignRows
<1>. QED
  BY <1>1, <1>2 DEF Rate, AnyCount

\* A campaign's discount is a whole number, and never more than the full cost.
LEMMA CampaignDiscountBound ==
  ASSUME NEW cp \in CampaignRows, NEW full \in Nat, NEW t \in Nat, NEW p \in Nat
  PROVE  /\ CampaignDiscount(cp, full, t, p) \in Int
         /\ CampaignDiscount(cp, full, t, p) <= full
<1>1. cp.amount \in Int /\ Rate(cp, t, p) \in Nat
  BY RateType DEF CampaignRows
<1>2. cp.amount * Rate(cp, t, p) \in Int
  BY <1>1
<1>. QED
  BY <1>2 DEF CampaignDiscount

\* What the coupon leaves of a sum.
LEMMA WithDiscountBound ==
  ASSUME NEW c \in CouponRows, NEW s \in Nat
  PROVE  WithDiscount(c, s) \in 0..s
<1>1. 100 - c.discount \in 0..100
  BY DEF CouponRows
<1>2. s * (100 - c.discount) \in Nat /\ s * (100 - c.discount) <= 100 * s
  BY <1>1, PercentBound
<1>. QED
  BY <1>2, CeilPercentBound DEF WithDiscount

\* Whatever campaign and coupon apply to an order whose tickets have a price, its
\* discounts never exceed what it costs in full: recalculate_cost never has to
\* replace a negative total by 0, so the cost is the full price less the two
\* discounts that the coupon report shows.
THEOREM CostIsWhatReportShows ==
  ASSUME NEW c \in CouponRows, NEW cp \in CampaignRows,
         NEW full \in Nat, NEW t \in Nat, NEW p \in Nat,
         full = 0 => t = 0 /\ p = 0
  PROVE  /\ Cost(c, cp, full, t, p) \in Nat
         /\ Cost(c, cp, full, t, p)
              = full - CampaignDiscount(cp, full, t, p) - CouponDiscount(c, cp, full, t, p)
<1>. DEFINE sum == full - CampaignDiscount(cp, full, t, p)
<1>1. sum \in Nat
  BY CampaignDiscountBound
<1>2. CouponDiscount(c, cp, full, t, p) = sum - WithDiscount(c, sum)
  BY DEF CouponDiscount
<1>3. WithDiscount(c, sum) \in 0..sum
  BY <1>1, WithDiscountBound
<1>4. CASE full > 0
  BY <1>1, <1>2, <1>3, <1>4, CampaignDiscountBound DEF Cost
<1>5. CASE full = 0
  <2>1. Rate(cp, t, p) = 0
    <3>1. \A n \in Nat \ {0} : 0 \div n = 0
      OBVIOUS
    <3>. QED
      BY <1>5, <3>1 DEF Rate, AnyCount, CampaignRows
  <2>2. CampaignDiscount(cp, full, t, p) = 0
    BY <1>5, <2>1 DEF CampaignDiscount, CampaignRows
  <2>3. sum = 0
    BY <1>5, <2>2
  <2>. QED
    BY <1>2, <1>3, <1>5, <2>2, <2>3 DEF Cost
<1>. QED
  BY <1>4, <1>5

\* A discount campaign (one whose amount is not negative) never raises the price.
THEOREM CostAtMostFull ==
  ASSUME NEW c \in CouponRows, NEW cp \in CampaignRows,
         NEW full \in Nat, NEW t \in Nat, NEW p \in Nat,
         cp.amount >= 0
  PROVE  Cost(c, cp, full, t, p) <= full
<1>. DEFINE sum == full - CampaignDiscount(cp, full, t, p)
<1>1. CampaignDiscount(cp, full, t, p) \in Nat
  <2>0. cp.amount \in Int
    BY DEF CampaignRows
  <2>1. PICK a \in Nat : a = cp.amount
    BY <2>0
  <2>a. Rate(cp, t, p) \in Nat
    BY RateType
  <2>2. cp.amount * Rate(cp, t, p) \in Nat
    BY <2>1, <2>a
  <2>. QED
    BY <2>2 DEF CampaignDiscount
<1>2. sum \in Nat /\ sum <= full
  BY <1>1, CampaignDiscountBound
<1>3. WithDiscount(c, sum) \in 0..sum
  BY <1>2, WithDiscountBound
<1>. QED
  BY <1>1, <1>2, <1>3 DEF Cost, CouponDiscount

\* A campaign that Campaign.suitable_for finds for an order with tickets gives
\* its discount at least once.
THEOREM SuitableApplies ==
  ASSUME NEW cp \in CampaignRows, NEW t \in Nat, NEW p \in Nat, NEW today \in Days,
         t + p > 0, Suitable(cp, t, p, today)
  PROVE  Rate(cp, t, p) >= 1
<1>1. ASSUME NEW n \in Nat, NEW m \in Nat \ {0}, m <= n PROVE n \div m \in Nat /\ n \div m >= 1
  <2>1. PICK q \in Nat : q = n \div m
    OBVIOUS
  <2>2. PICK r \in 0..(m - 1) : n = m * q + r
    BY <2>1
  <2>3. q = 0 => m * q = 0
    OBVIOUS
  <2>. QED
    BY <1>1, <2>1, <2>2, <2>3
<1>2. /\ cp.tickets \in Nat /\ cp.parties \in Nat
      /\ cp.tickets # 0 => cp.tickets <= t
      /\ cp.parties # 0 => cp.parties <= p
  BY DEF CampaignRows, Suitable, AnyCount
<1>3. /\ cp.tickets # 0 => t \div cp.tickets \in Nat /\ t \div cp.tickets >= 1
      /\ cp.parties # 0 => p \div cp.parties \in Nat /\ p \div cp.parties >= 1
  BY <1>1, <1>2
<1>. QED
  BY <1>2, <1>3 DEF Rate, AnyCount

\* The partner's commission is a whole number, and at most what the order costs
\* before the coupon: it is not computed from what the visitor pays, so a coupon
\* with a large discount may cost more in commission than the order brings in.
THEOREM CommissionWithinCampaignPrice ==
  ASSUME NEW c \in CouponRows, NEW cp \in CampaignRows,
         NEW full \in Nat, NEW t \in Nat, NEW p \in Nat
  PROVE  Commission(c, cp, full, t, p) \in 0..(full - CampaignDiscount(cp, full, t, p))
<1>. DEFINE sum == full - CampaignDiscount(cp, full, t, p)
<1>1. sum \in Nat
  BY CampaignDiscountBound
<1>2. c.commission \in 0..100
  BY DEF CouponRows
<1>3. sum * c.commission \in Nat /\ sum * c.commission <= 100 * sum
  BY <1>1, <1>2, PercentBound
<1>4. CeilPercent(sum * c.commission) \in 0..sum
  BY <1>1, <1>3, CeilPercentBound
<1>. QED
  BY <1>4 DEF Commission, PartnerCommission

\* A campaign discounts whole sets: as many as Rate says do fit the order.
LEMMA RateFits ==
  ASSUME NEW cp \in CampaignRows, NEW t \in Nat, NEW p \in Nat
  PROVE  FitsSets(cp, t, p, Rate(cp, t, p))
<1>1. ASSUME NEW n \in Nat, NEW m \in Nat \ {0}
      PROVE  /\ n \div m \in Nat /\ n \div m <= n
             /\ \A k \in Nat : k <= n \div m => k * m <= n
  <2>1. PICK q \in Nat : q = n \div m
    OBVIOUS
  <2>2. PICK r \in 0..(m - 1) : n = m * q + r
    BY <2>1
  <2>3. m * q >= q /\ m * q = q * m /\ m * q <= n
    BY <2>2
  <2>4. ASSUME NEW k \in Nat, k <= q PROVE k * m <= q * m
    BY <2>4
  <2>5. \A k \in Nat : k * m \in Nat
    OBVIOUS
  <2>. QED
    BY <2>1, <2>2, <2>3, <2>4, <2>5
<1>2. cp.tickets \in Nat /\ cp.parties \in Nat
  BY DEF CampaignRows
<1>3. \A k \in Nat : k * 0 = 0
  OBVIOUS
<1>4. CASE cp.tickets = 0 /\ cp.parties = 0
  BY <1>2, <1>3, <1>4 DEF Rate, AnyCount, FitsSets
<1>5. CASE cp.tickets # 0 /\ cp.parties = 0
  BY <1>1, <1>2, <1>3, <1>5 DEF Rate, AnyCount, FitsSets
<1>6. CASE cp.tickets = 0 /\ cp.parties # 0
  BY <1>1, <1>2, <1>3, <1>6 DEF Rate, AnyCount, FitsSets
<1>7. CASE cp.tickets # 0 /\ cp.parties # 0
  <2>1. /\ t \div cp.tickets \in Nat /\ t \div cp.tickets <= t
        /\ p \div cp.parties \in Nat /\ p \div cp.parties <= p
        /\ \A k \in Nat : k <= t \div cp.tickets => k * cp.tickets <= t
        /\ \A k \in Nat : k <= p \div cp.parties => k * cp.parties <= p
    BY <1>1, <1>2, <1>7
  <2>2. /\ Rate(cp, t, p) \in Nat
        /\ Rate(cp, t, p) <= t \div cp.tickets /\ Rate(cp, t, p) <= p \div cp.parties
    BY <1>7, <2>1 DEF Rate, AnyCount
  <2>. QED
    BY <2>1, <2>2 DEF FitsSets
<1>. QED
  BY <1>2, <1>4, <1>5, <1>6, <1>7

\* The campaign's discount is its amount for some number of whole sets.
LEMMA DiscountIsOfSets ==
  ASSUME NEW cp \in CampaignRows, NEW full \in Nat, NEW t \in Nat, NEW p \in Nat
  PROVE  \E n \in 0..(t + p) :
           FitsSets(cp, t, p, n) /\ CampaignDiscount(cp, full, t, p) = cp.amount * n
<1>1. Rate(cp, t, p) \in Nat /\ FitsSets(cp, t, p, Rate(cp, t, p))
  BY RateType, RateFits
<1>2. Rate(cp, t, p) \in 0..(t + p)
  BY <1>1 DEF FitsSets
<1>3. 0 \in 0..(t + p) /\ FitsSets(cp, t, p, 0) /\ cp.amount * 0 = 0
  BY DEF FitsSets, CampaignRows
<1>4. \/ CampaignDiscount(cp, full, t, p) = cp.amount * Rate(cp, t, p)
      \/ CampaignDiscount(cp, full, t, p) = 0
  BY DEF CampaignDiscount
<1>. QED
  BY <1>1, <1>2, <1>3, <1>4

\* Without a coupon there is no coupon discount.
LEMMA NoCouponNoDiscount ==
  ASSUME NEW cp \in CampaignRows, NEW full \in Nat, NEW t \in Nat, NEW p \in Nat
  PROVE  CouponDiscount(NoCoupon, cp, full, t, p) = 0
<1>. DEFINE sum == full - CampaignDiscount(cp, full, t, p)
<1>1. sum \in Nat
  BY CampaignDiscountBound
<1>2. WithDiscount(NoCoupon, sum) = CeilPercent(sum * 100)
  BY DEF WithDiscount, NoCoupon
<1>3. CeilPercent(sum * 100) = sum
  BY <1>1 DEF CeilPercent
<1>. QED
  BY <1>1, <1>2, <1>3 DEF CouponDiscount

-----------------------------------------------------------------------------
(* Orders, forms and campaigns.                                            *)

CreatePlaces == {"tickets", "parties", "campaign", "price", "count"}

\* How far the request of a worker has come with its order.
Progress(r) ==
  LET row == orders[r.order] IN
  /\ r.order \in DOMAIN orders /\ r.cart \in Carts
  /\ r.at = "tickets" => row.t <= r.cart[1] /\ row.p = 0
  /\ r.at = "parties" => row.t = r.cart[1] /\ row.p <= r.cart[2]
  /\ r.at \in {"campaign", "price"} => <<row.t, row.p>> = r.cart
  /\ r.at # "count" => row.cost = Unpriced /\ row.campaign = NoId

\* What it loaded on the way, and will compute with.
Loaded(r) ==
  LET row == orders[r.order] IN
  /\ r.discount \/ r.coupon = NoCoupon
  /\ r.id = NoId => r.campaign = NoCampaign
  /\ r.at \in {"tickets", "parties", "campaign"} => r.id = NoId
  /\ r.at = "price" /\ r.id # NoId => row.t + row.p = 0 \/ Rate(r.campaign, row.t, row.p) >= 1

Creating ==
  /\ \A w \in Workers : req[w].at \in CreatePlaces => Progress(req[w]) /\ Loaded(req[w])
  /\ \A w, v \in Workers :
       req[w].at \in CreatePlaces /\ req[v].at \in CreatePlaces /\ req[w].order = req[v].order => w = v

\* The tickets of an order have prices of the days since it was created.
Charged(row) ==
  /\ row.since <= day
  /\ row.full >= row.t * TicketPrice[row.since] + row.p * PartyPrice[row.since]
  /\ row.full <= row.t * TicketPrice[day] + row.p * PartyPrice[day]

\* The terms an order refers to exist, and give what it was charged unless
\* they were edited.
Settled(o) ==
  LET row == orders[o] IN
  /\ Priced(o) => <<row.t, row.p>> \in Carts
  /\ row.campaign # NoId => row.campaign \in DOMAIN campaigns
  /\ o \notin edited /\ Priced(o) => row.cost = row.full - ReportedDiscounts(o)
  /\ o \notin edited /\ row.campaign # NoId =>
       row.t + row.p = 0 \/ Rate(campaigns[row.campaign], row.t, row.p) >= 1

OrderingInv ==
  TypeOK /\ Creating /\ \A o \in DOMAIN orders : Charged(orders[o]) /\ Settled(o)

-----------------------------------------------------------------------------
(* Prices, rows and requests.                                              *)

LEMMA Prices ==
  /\ \A d \in Days : TicketPrice[d] \in Nat \ {0} /\ PartyPrice[d] \in Nat \ {0}
  /\ \A c, d \in Days : c <= d => TicketPrice[c] <= TicketPrice[d] /\ PartyPrice[c] <= PartyPrice[d]
  <1>1. \A d \in Days : d \in {0, 1, 2, 3, 4, 5}
    BY DEF Days
  <1>2. /\ TicketPrice[0] = 990 /\ TicketPrice[1] = 1330 /\ TicketPrice[2] = 2000
        /\ TicketPrice[3] = 2500 /\ TicketPrice[4] = 3500 /\ TicketPrice[5] = 4000
    BY DEF TicketPrice, Days
  <1>3. /\ PartyPrice[0] = 2500 /\ PartyPrice[1] = 3000 /\ PartyPrice[2] = 3000
        /\ PartyPrice[3] = 3000 /\ PartyPrice[4] = 3500 /\ PartyPrice[5] = 3500
    BY DEF PartyPrice, Days
  <1>. QED
    BY <1>1, <1>2, <1>3

LEMMA Times ==
  ASSUME NEW n \in Nat, NEW a \in Nat, NEW b \in Nat, a <= b
  PROVE  n * a <= n * b /\ n * a \in Nat
  BY SMT

LEMMA OneMore == \A n, a \in Nat : (n + 1) * a = n * a + a
  OBVIOUS

LEMMA AtLeast == \A n \in Nat, a \in Nat \ {0} : n * a >= n
  OBVIOUS

LEMMA DiscountTypes ==
  ASSUME NEW c \in CouponRows, NEW cp \in CampaignRows,
         NEW full \in Nat, NEW t \in Nat, NEW p \in Nat
  PROVE  CampaignDiscount(cp, full, t, p) \in Int /\ CouponDiscount(c, cp, full, t, p) \in Int
  <1>1. CampaignDiscount(cp, full, t, p) \in Int /\ full - CampaignDiscount(cp, full, t, p) \in Nat
    BY CampaignDiscountBound
  <1>2. WithDiscount(c, full - CampaignDiscount(cp, full, t, p)) \in Int
    BY <1>1, WithDiscountBound
  <1>. QED
    BY <1>1, <1>2 DEF CouponDiscount

LEMMA RowFields ==
  ASSUME TypeOK, NEW o \in DOMAIN orders
  PROVE  /\ o \in Orders /\ orders[o] \in OrderRows
         /\ orders[o].t \in Nat /\ orders[o].p \in Nat /\ orders[o].full \in Nat
         /\ orders[o].since \in Days /\ orders[o].items \in Nat
  <1>1. o \in Orders /\ orders[o] \in OrderRows
    BY DEF TypeOK
  <1>. QED
    BY <1>1 DEF OrderRows

LEMMA RequestFields ==
  ASSUME TypeOK, NEW w \in Workers
  PROVE  /\ req[w] \in Requests /\ req[w].at \in Places /\ req[w].cart \in Nat \X Nat
         /\ req[w].cart[1] \in Nat /\ req[w].cart[2] \in Nat
         /\ req[w].cart = <<req[w].cart[1], req[w].cart[2]>>
         /\ req[w].order \in Orders \cup {NoId} /\ req[w].discount \in BOOLEAN
         /\ req[w].coupon \in CouponRows /\ req[w].id \in CampaignIds \cup {NoId}
         /\ req[w].campaign \in CampaignRows /\ req[w].form \in CampaignRows
  <1>1. req[w] \in Requests
    BY DEF TypeOK
  <1>2. req[w].cart \in Nat \X Nat
    BY <1>1 DEF Requests
  <1>. QED
    BY <1>1, <1>2 DEF Requests

LEMMA RowReplaced ==
  ASSUME TypeOK, NEW o \in DOMAIN orders, NEW row \in OrderRows, orders' = [orders EXCEPT ![o] = row]
  PROVE  /\ DOMAIN orders' = DOMAIN orders /\ orders' \in [DOMAIN orders' -> OrderRows]
         /\ orders'[o] = row /\ \A x \in DOMAIN orders \ {o} : orders'[x] = orders[x]
  BY DEF TypeOK

LEMMA NoneType == NoCampaign \in CampaignRows /\ NoCoupon \in CouponRows /\ Idle \in Requests
  <1>1. NoCampaign \in CampaignRows /\ NoCoupon \in CouponRows
    BY DEF NoCampaign, NoCoupon, CampaignRows, CouponRows, AnyCount, Days
  <1>. QED
    BY <1>1 DEF Idle, Requests, Places

\* A worker goes on with its order, or leaves it; no other works on it.
LEMMA CreatingKept ==
  ASSUME OrderingInv, NEW w \in Workers, NEW q \in Requests, req' = [req EXCEPT ![w] = q],
         q.at \in CreatePlaces => /\ Progress(q)' /\ Loaded(q)'
                                  /\ \A v \in Workers \ {w} :
                                       req[v].at \in CreatePlaces => req[v].order # q.order,
         DOMAIN orders \subseteq DOMAIN orders',
         \A v \in Workers \ {w} :
           req[v].at \in CreatePlaces => orders'[req[v].order] = orders[req[v].order]
  PROVE  Creating' /\ req' \in [Workers -> Requests]
  <1>1. /\ req \in [Workers -> Requests] /\ req'[w] = q
        /\ \A v \in Workers \ {w} : req'[v] = req[v]
    BY DEF OrderingInv, TypeOK
  <1>2. ASSUME NEW v \in Workers, req'[v].at \in CreatePlaces PROVE Progress(req[v])' /\ Loaded(req[v])'
    <2>1. CASE v = w
      BY <1>1, <1>2, <2>1 DEF Progress, Loaded
    <2>2. CASE v # w
      <3>1. req'[v] = req[v] /\ orders'[req[v].order] = orders[req[v].order]
        BY <1>1, <1>2, <2>2
      <3>2. Progress(req[v]) /\ Loaded(req[v])
        BY <1>2, <3>1 DEF OrderingInv, Creating
      <3>. QED
        BY <3>1, <3>2 DEF Progress, Loaded
    <2>. QED
      BY <2>1, <2>2
  <1>3. \A v, u \in Workers : (req[v].at \in CreatePlaces /\ req[u].at \in CreatePlaces
                                 /\ req[v].order = req[u].order)' => v = u
    BY <1>1 DEF OrderingInv, Creating
  <1>. QED
    BY <1>1, <1>2, <1>3 DEF Creating

\* Its order is nobody else's.
LEMMA OwnOrder ==
  ASSUME OrderingInv, NEW w \in Workers, req[w].at \in CreatePlaces
  PROVE  /\ req[w].order \in DOMAIN orders /\ Progress(req[w]) /\ Loaded(req[w])
         /\ \A v \in Workers \ {w} :
              req[v].at \in CreatePlaces =>
                req[v].order # req[w].order /\ req[v].order \in DOMAIN orders
  BY DEF OrderingInv, Creating, Progress

\* An order whose row and terms stay is as right as it was.
LEMMA OrderFramed ==
  ASSUME NEW o, Charged(orders[o]), Settled(o), orders'[o] = orders[o],
         UNCHANGED <<day, campaigns>>, edited \subseteq edited',
         coupon' = coupon \/ ~orders[o].coupon \/ o \in edited'
  PROVE  Charged(orders[o])' /\ Settled(o)'
  <1>1. Charged(orders[o])'
    BY DEF Charged
  <1>2. /\ CampaignOf(o)' = CampaignOf(o)
        /\ coupon' = coupon \/ ~orders[o].coupon => CouponOf(o)' = CouponOf(o)
    BY DEF CampaignOf, CouponOf
  <1>3. o \notin edited' => ReportedDiscounts(o)' = ReportedDiscounts(o)
    BY <1>2 DEF ReportedDiscounts
  <1>4. Settled(o)'
    BY <1>3 DEF Settled, Priced
  <1>. QED
    BY <1>1, <1>4

LEMMA OrderingInitial == Init => OrderingInv
  <1>. SUFFICES ASSUME Init PROVE OrderingInv
    OBVIOUS
  <1>1. DOMAIN orders = {} /\ DOMAIN campaigns = {}
    BY DEF Init
  <1>2. TypeOK
    BY <1>1, NoneType, OrderingAssumption DEF Init, TypeOK, Days
  <1>3. Creating
    BY DEF Init, Creating, CreatePlaces, Idle
  <1>. QED
    BY <1>1, <1>2, <1>3 DEF OrderingInv

\* Steps of a worker that leave the tables alone.
LEMMA RequestOnly ==
  ASSUME OrderingInv, NEW w \in Workers, NEW q \in Requests, req' = [req EXCEPT ![w] = q],
         q.at \notin CreatePlaces, UNCHANGED <<day, campaigns, nextId, coupon, orders, edited>>
  PROVE  OrderingInv'
  <1>1. Creating' /\ req' \in [Workers -> Requests]
    BY CreatingKept
  <1>2. TypeOK'
    BY <1>1 DEF OrderingInv, TypeOK
  <1>3. \A o \in DOMAIN orders' : Charged(orders[o])' /\ Settled(o)'
    BY OrderFramed DEF OrderingInv
  <1>. QED
    BY <1>1, <1>2, <1>3 DEF OrderingInv

-----------------------------------------------------------------------------
(* CreateOrder.                                                            *)

LEMMA CreateOrderStep ==
  ASSUME OrderingInv, NEW w \in Workers, NEW o \in Orders, NEW cart \in Carts,
         NEW discount \in BOOLEAN, CreateOrder(w, o, cart, discount)
  PROVE  OrderingInv'
  <1>. DEFINE row == [t |-> 0, p |-> 0, full |-> 0, cost |-> Unpriced, items |-> 0,
                      campaign |-> NoId, since |-> day, coupon |-> discount /\ o \in AccountOrders]
              q == [Idle EXCEPT !.at = "tickets", !.order = o, !.cart = cart, !.discount = discount,
                                !.coupon = IF discount THEN coupon ELSE NoCoupon]
  <1>. USE DEF OrderingInv
  <1>1. /\ o \notin DOMAIN orders /\ orders' = Put(orders, o, row) /\ req' = [req EXCEPT ![w] = q]
        /\ UNCHANGED <<day, campaigns, nextId, coupon, edited>>
    BY DEF CreateOrder
  <1>2. /\ row \in OrderRows /\ row.t = 0 /\ row.p = 0 /\ row.full = 0 /\ row.cost = Unpriced
        /\ row.campaign = NoId /\ row.since = day
    BY DEF OrderRows, TypeOK
  <1>3. /\ q.at = "tickets" /\ q.order = o /\ q.cart = cart /\ q.discount = discount
        /\ q.coupon = (IF discount THEN coupon ELSE NoCoupon) /\ q.id = NoId /\ q.campaign = NoCampaign
    BY DEF Idle
  <1>4. q \in Requests
    <2>1. cart \in Nat \X Nat /\ (IF discount THEN coupon ELSE NoCoupon) \in CouponRows
      BY OrderingAssumption, NoneType DEF TypeOK
    <2>. QED
      BY <2>1, NoneType DEF Idle, Requests, Places
  <1>. HIDE DEF row, q
  <1>5. /\ DOMAIN orders' = DOMAIN orders \cup {o} /\ orders'[o] = row
        /\ \A x \in DOMAIN orders : orders'[x] = orders[x]
        /\ orders' \in [DOMAIN orders' -> OrderRows]
    BY <1>1, <1>2 DEF Put, TypeOK
  <1>6. PICK r \in Requests : r = q
    BY <1>4
  <1>7. Progress(r)' /\ Loaded(r)'
    <2>1. cart[1] \in Nat /\ cart[2] \in Nat
      BY OrderingAssumption
    <2>. QED
      BY <1>2, <1>3, <1>5, <1>6, <2>1 DEF Progress, Loaded
  <1>8. \A v \in Workers \ {w} : req[v].at \in CreatePlaces =>
          req[v].order # r.order /\ orders'[req[v].order] = orders[req[v].order]
    BY <1>1, <1>3, <1>5, <1>6 DEF Creating, Progress
  <1>9. Creating' /\ req' \in [Workers -> Requests]
    BY <1>1, <1>5, <1>6, <1>7, <1>8, CreatingKept
  <1>10. TypeOK'
    BY <1>1, <1>5, <1>9 DEF TypeOK
  <1>11. ASSUME NEW x \in DOMAIN orders' PROVE Charged(orders[x])' /\ Settled(x)'
    <2>1. CASE x = o
      <3>1. Charged(orders[x])'
        <4>1. day' \in Days
          BY <1>10 DEF TypeOK
        <4>2. 0 * TicketPrice[day'] = 0 /\ 0 * PartyPrice[day'] = 0 /\ day' <= day'
          BY <4>1, Prices DEF Days
        <4>. QED
          BY <1>1, <1>2, <1>5, <2>1, <4>2 DEF Charged
      <3>2. Settled(x)'
        BY <1>2, <1>5, <2>1 DEF Settled, Priced
      <3>. QED
        BY <3>1, <3>2
    <2>2. CASE x # o
      BY <1>1, <1>5, <2>2, OrderFramed
    <2>. QED
      BY <2>1, <2>2
  <1>. QED
    BY <1>9, <1>10, <1>11

\* The order o of w gets another row, as right as the one it had.
LEMMA RowStep ==
  ASSUME OrderingInv, NEW w \in Workers, req[w].at \in CreatePlaces,
         NEW o, o = req[w].order, NEW row \in OrderRows, orders' = [orders EXCEPT ![o] = row],
         NEW q \in Requests, req' = [req EXCEPT ![w] = q],
         q.at \in CreatePlaces => q.order = o /\ Progress(q)' /\ Loaded(q)',
         UNCHANGED <<day, campaigns, nextId, coupon>>,
         edited \subseteq edited', edited' \subseteq edited \cup {o},
         Charged(row), Settled(o)'
  PROVE  OrderingInv'
  <1>. USE DEF OrderingInv
  <1>1. /\ o \in DOMAIN orders
        /\ \A v \in Workers \ {w} :
             req[v].at \in CreatePlaces => req[v].order # o /\ req[v].order \in DOMAIN orders
    BY OwnOrder
  <1>2. /\ DOMAIN orders' = DOMAIN orders /\ orders' \in [DOMAIN orders' -> OrderRows]
        /\ orders'[o] = row /\ \A x \in DOMAIN orders \ {o} : orders'[x] = orders[x]
    BY <1>1, RowReplaced
  <1>3. Creating' /\ req' \in [Workers -> Requests]
    <2>1. /\ DOMAIN orders \subseteq DOMAIN orders'
          /\ \A v \in Workers \ {w} :
               req[v].at \in CreatePlaces => orders'[req[v].order] = orders[req[v].order]
      BY <1>1, <1>2
    <2>2. q.at \in CreatePlaces => /\ Progress(q)' /\ Loaded(q)'
                                   /\ \A v \in Workers \ {w} :
                                        req[v].at \in CreatePlaces => req[v].order # q.order
      BY <1>1
    <2>. QED
      BY <2>1, <2>2, CreatingKept
  <1>4. TypeOK'
    BY <1>1, <1>2, <1>3 DEF TypeOK
  <1>5. ASSUME NEW x \in DOMAIN orders' PROVE Charged(orders[x])' /\ Settled(x)'
    <2>1. CASE x = o
      BY <1>2, <2>1 DEF Charged
    <2>2. CASE x # o
      BY <1>2, <2>2, OrderFramed
    <2>. QED
      BY <2>1, <2>2
  <1>. QED
    BY <1>3, <1>4, <1>5

\* A worker comes to the next place with its order.
LEMMA PlaceStep ==
  ASSUME OrderingInv, NEW w \in Workers, req[w].at \in CreatePlaces,
         NEW q \in Requests, req' = [req EXCEPT ![w] = q],
         q.at \in CreatePlaces => q.order = req[w].order /\ Progress(q) /\ Loaded(q),
         UNCHANGED <<day, campaigns, nextId, coupon, orders, edited>>
  PROVE  OrderingInv'
  <1>1. Creating' /\ req' \in [Workers -> Requests]
    <2>1. \A v \in Workers \ {w} : req[v].at \in CreatePlaces => req[v].order # req[w].order
      BY OwnOrder
    <2>2. q.at \in CreatePlaces => Progress(q)' /\ Loaded(q)'
      BY DEF Progress, Loaded
    <2>. QED
      BY <2>1, <2>2, CreatingKept
  <1>2. TypeOK'
    BY <1>1 DEF OrderingInv, TypeOK
  <1>3. \A o \in DOMAIN orders' : Charged(orders[o])' /\ Settled(o)'
    BY OrderFramed DEF OrderingInv
  <1>. QED
    BY <1>1, <1>2, <1>3 DEF OrderingInv

\* One more ticket, at the price of the day.
LEMMA AddTicketStep ==
  ASSUME OrderingInv, NEW w \in Workers, AddTicket(w)
  PROVE  OrderingInv'
  <1>. PICK o : o = req[w].order
    OBVIOUS
  <1>. DEFINE more == [orders[o] EXCEPT !.t = @ + 1, !.full = @ + TicketPrice[day]]
              on == [req[w] EXCEPT !.at = "parties"]
  <1>1. req[w].at = "tickets" /\ UNCHANGED <<day, campaigns, nextId, coupon, edited>>
    BY DEF AddTicket
  <1>2. /\ req[w].order \in DOMAIN orders /\ Progress(req[w]) /\ Loaded(req[w])
        /\ Charged(orders[req[w].order]) /\ Settled(req[w].order)
    BY <1>1, OwnOrder DEF CreatePlaces, OrderingInv
  <1>3. /\ orders[o] \in OrderRows /\ orders[o].t \in Nat /\ orders[o].p \in Nat
        /\ orders[o].full \in Nat /\ orders[o].since \in Days /\ day \in Days
        /\ req[w] \in Requests /\ req[w].cart = <<req[w].cart[1], req[w].cart[2]>>
        /\ req[w].cart[1] \in Nat /\ req[w].cart[2] \in Nat
    BY <1>2, RowFields, RequestFields DEF OrderingInv, TypeOK
  <1>4. CASE orders[o].t < req[w].cart[1]
    <2>1. orders' = [orders EXCEPT ![o] = more] /\ req' = [req EXCEPT ![w] = req[w]]
      BY <1>4 DEF AddTicket, OrderingInv, TypeOK
    <2>2. TicketPrice[day] \in Nat /\ TicketPrice[orders[o].since] \in Nat /\ PartyPrice[day] \in Nat
      BY <1>3, Prices
    <2>3. /\ more \in OrderRows /\ more.t = orders[o].t + 1 /\ more.p = orders[o].p
          /\ more.full = orders[o].full + TicketPrice[day] /\ more.cost = orders[o].cost
          /\ more.campaign = orders[o].campaign /\ more.since = orders[o].since
      <3>1. orders[o].t + 1 \in Nat /\ orders[o].full + TicketPrice[day] \in Nat
        BY <1>3, <2>2
      <3>. QED
        BY <1>3, <3>1 DEF OrderRows
    <2>. HIDE DEF more
    <2>4. PICK row \in OrderRows : row = more
      BY <2>3
    <2>5. PICK q \in Requests : q = req[w]
      BY <1>3
    <2>6. Charged(row)
      <3>1. orders[o].since <= day /\ TicketPrice[orders[o].since] <= TicketPrice[day]
        BY <1>2, <1>3, Prices DEF Charged
      <3>2. /\ (orders[o].t + 1) * TicketPrice[orders[o].since]
                 = orders[o].t * TicketPrice[orders[o].since] + TicketPrice[orders[o].since]
            /\ (orders[o].t + 1) * TicketPrice[day] = orders[o].t * TicketPrice[day] + TicketPrice[day]
        <4>1. orders[o].t \in Nat /\ TicketPrice[day] \in Nat /\ TicketPrice[orders[o].since] \in Nat
          BY <1>3, <2>2
        <4>. QED
          BY <4>1, OneMore
      <3>3. /\ orders[o].t * TicketPrice[orders[o].since] \in Int
            /\ orders[o].t * TicketPrice[day] \in Int
            /\ orders[o].p * PartyPrice[orders[o].since] \in Int /\ orders[o].p * PartyPrice[day] \in Int
        BY <1>3, <2>2, Prices
      <3>. QED
        BY <1>2, <1>3, <2>2, <2>3, <2>4, <3>1, <3>2, <3>3 DEF Charged
    <2>7. orders'[o] = row
      BY <1>2, <2>1, <2>4, RowReplaced DEF OrderingInv
    <2>8. Settled(o)'
      BY <1>1, <1>2, <2>3, <2>4, <2>7 DEF Settled, Progress, Priced
    <2>9. q.order = o /\ Progress(q)' /\ Loaded(q)'
      <3>1. DOMAIN orders' = DOMAIN orders
        BY <2>1
      <3>. QED
        BY <1>1, <1>2, <1>3, <1>4, <2>3, <2>4, <2>5, <2>7, <3>1 DEF Progress, Loaded
    <2>. QED
      BY <1>1, <2>1, <2>4, <2>5, <2>6, <2>8, <2>9, RowStep DEF CreatePlaces
  <1>5. CASE ~(orders[o].t < req[w].cart[1])
    <2>1. req' = [req EXCEPT ![w] = on] /\ orders' = orders
      BY <1>5 DEF AddTicket, Go
    <2>2. /\ on \in Requests /\ on.at = "parties" /\ on.order = o /\ on.cart = req[w].cart
          /\ on.discount = req[w].discount /\ on.coupon = req[w].coupon /\ on.id = req[w].id
          /\ on.campaign = req[w].campaign
      BY <1>3 DEF Requests, Places
    <2>. HIDE DEF on
    <2>3. Progress(on) /\ Loaded(on)
      BY <1>1, <1>2, <1>3, <1>5, <2>2 DEF Progress, Loaded
    <2>. QED
      BY <1>1, <2>1, <2>2, <2>3, PlaceStep DEF CreatePlaces
  <1>. QED
    BY <1>4, <1>5

\* The same for a ticket to the afterparty.
LEMMA AddPartyTicketStep ==
  ASSUME OrderingInv, NEW w \in Workers, AddPartyTicket(w)
  PROVE  OrderingInv'
  <1>. PICK o : o = req[w].order
    OBVIOUS
  <1>. DEFINE more == [orders[o] EXCEPT !.p = @ + 1, !.full = @ + PartyPrice[day]]
              on == [req[w] EXCEPT !.at = "campaign"]
  <1>1. req[w].at = "parties" /\ UNCHANGED <<day, campaigns, nextId, coupon, edited>>
    BY DEF AddPartyTicket
  <1>2. /\ req[w].order \in DOMAIN orders /\ Progress(req[w]) /\ Loaded(req[w])
        /\ Charged(orders[req[w].order]) /\ Settled(req[w].order)
    BY <1>1, OwnOrder DEF CreatePlaces, OrderingInv
  <1>3. /\ orders[o] \in OrderRows /\ orders[o].t \in Nat /\ orders[o].p \in Nat
        /\ orders[o].full \in Nat /\ orders[o].since \in Days /\ day \in Days
        /\ req[w] \in Requests /\ req[w].cart = <<req[w].cart[1], req[w].cart[2]>>
        /\ req[w].cart[1] \in Nat /\ req[w].cart[2] \in Nat
    BY <1>2, RowFields, RequestFields DEF OrderingInv, TypeOK
  <1>4. CASE orders[o].p < req[w].cart[2]
    <2>1. orders' = [orders EXCEPT ![o] = more] /\ req' = [req EXCEPT ![w] = req[w]]
      BY <1>4 DEF AddPartyTicket, OrderingInv, TypeOK
    <2>2. PartyPrice[day] \in Nat /\ PartyPrice[orders[o].since] \in Nat /\ TicketPrice[day] \in Nat
      BY <1>3, Prices
    <2>3. /\ more \in OrderRows /\ more.t = orders[o].t /\ more.p = orders[o].p + 1
          /\ more.full = orders[o].full + PartyPrice[day] /\ more.cost = orders[o].cost
          /\ more.campaign = orders[o].campaign /\ more.since = orders[o].since
      <3>1. orders[o].p + 1 \in Nat /\ orders[o].full + PartyPrice[day] \in Nat
        BY <1>3, <2>2
      <3>. QED
        BY <1>3, <3>1 DEF OrderRows
    <2>. HIDE DEF more
    <2>4. PICK row \in OrderRows : row = more
      BY <2>3
    <2>5. PICK q \in Requests : q = req[w]
      BY <1>3
    <2>6. Charged(row)
      <3>1. orders[o].since <= day /\ PartyPrice[orders[o].since] <= PartyPrice[day]
        BY <1>2, <1>3, Prices DEF Charged
      <3>2. /\ (orders[o].p + 1) * PartyPrice[orders[o].since]
                 = orders[o].p * PartyPrice[orders[o].since] + PartyPrice[orders[o].since]
            /\ (orders[o].p + 1) * PartyPrice[day] = orders[o].p * PartyPrice[day] + PartyPrice[day]
        <4>1. orders[o].p \in Nat /\ PartyPrice[day] \in Nat /\ PartyPrice[orders[o].since] \in Nat
          BY <1>3, <2>2
        <4>. QED
          BY <4>1, OneMore
      <3>3. /\ orders[o].t * TicketPrice[orders[o].since] \in Int
            /\ orders[o].t * TicketPrice[day] \in Int
            /\ orders[o].p * PartyPrice[orders[o].since] \in Int /\ orders[o].p * PartyPrice[day] \in Int
        BY <1>3, <2>2, Prices
      <3>. QED
        BY <1>2, <1>3, <2>2, <2>3, <2>4, <3>1, <3>2, <3>3 DEF Charged
    <2>7. orders'[o] = row
      BY <1>2, <2>1, <2>4, RowReplaced DEF OrderingInv
    <2>8. Settled(o)'
      BY <1>1, <1>2, <2>3, <2>4, <2>7 DEF Settled, Progress, Priced
    <2>9. q.order = o /\ Progress(q)' /\ Loaded(q)'
      <3>1. DOMAIN orders' = DOMAIN orders
        BY <2>1
      <3>. QED
        BY <1>1, <1>2, <1>3, <1>4, <2>3, <2>4, <2>5, <2>7, <3>1 DEF Progress, Loaded
    <2>. QED
      BY <1>1, <2>1, <2>4, <2>5, <2>6, <2>8, <2>9, RowStep DEF CreatePlaces
  <1>5. CASE ~(orders[o].p < req[w].cart[2])
    <2>1. req' = [req EXCEPT ![w] = on] /\ orders' = orders
      BY <1>5 DEF AddPartyTicket, Go
    <2>2. /\ on \in Requests /\ on.at = "campaign" /\ on.order = o /\ on.cart = req[w].cart
          /\ on.discount = req[w].discount /\ on.coupon = req[w].coupon /\ on.id = req[w].id
          /\ on.campaign = req[w].campaign
      BY <1>3 DEF Requests, Places
    <2>. HIDE DEF on
    <2>3. Progress(on) /\ Loaded(on)
      BY <1>1, <1>2, <1>3, <1>5, <2>2 DEF Progress, Loaded
    <2>. QED
      BY <1>1, <2>1, <2>2, <2>3, PlaceStep DEF CreatePlaces
  <1>. QED
    BY <1>4, <1>5

\* The campaign that is taken gives its discount at least once.
LEMMA FindCampaignStep ==
  ASSUME OrderingInv, NEW w \in Workers, FindCampaign(w)
  PROVE  OrderingInv'
  <1>. PICK o : o = req[w].order
    OBVIOUS
  <1>1. /\ req[w].at = "campaign"
        /\ UNCHANGED <<day, campaigns, nextId, coupon, orders, edited>>
    BY DEF FindCampaign
  <1>2. /\ o \in DOMAIN orders /\ Progress(req[w]) /\ Loaded(req[w]) /\ req[w] \in Requests
        /\ orders[o].t \in Nat /\ orders[o].p \in Nat /\ day \in Days
    BY <1>1, OwnOrder, RowFields, RequestFields DEF CreatePlaces, OrderingInv, TypeOK
  <1>3. CASE Go(w, "price")
    <2>. DEFINE q == [req[w] EXCEPT !.at = "price"]
    <2>1. req' = [req EXCEPT ![w] = q]
      BY <1>3 DEF Go
    <2>2. /\ q \in Requests /\ q.at = "price" /\ q.order = o /\ q.cart = req[w].cart
          /\ q.discount = req[w].discount /\ q.coupon = req[w].coupon /\ q.id = req[w].id
          /\ q.campaign = req[w].campaign
      BY <1>2 DEF Requests, Places
    <2>. HIDE DEF q
    <2>3. Progress(q) /\ Loaded(q)
      BY <1>1, <1>2, <2>2 DEF Progress, Loaded
    <2>. QED
      BY <1>1, <2>1, <2>2, <2>3, PlaceStep DEF CreatePlaces
  <1>4. ASSUME NEW i \in SuitableIds(orders[o].t, orders[o].p),
               req' = [req EXCEPT ![w] = [@ EXCEPT !.at = "price", !.id = i, !.campaign = campaigns[i]]]
        PROVE  OrderingInv'
    <2>. DEFINE q == [req[w] EXCEPT !.at = "price", !.id = i, !.campaign = campaigns[i]]
    <2>1. req' = [req EXCEPT ![w] = q]
      BY <1>4
    <2>2. /\ i \in CampaignIds /\ campaigns[i] \in CampaignRows
          /\ Suitable(campaigns[i], orders[o].t, orders[o].p, day)
      BY OrderingAssumption DEF SuitableIds, OrderingInv, TypeOK, CampaignIds
    <2>3. /\ q \in Requests /\ q.at = "price" /\ q.order = o /\ q.cart = req[w].cart
          /\ q.discount = req[w].discount /\ q.coupon = req[w].coupon /\ q.id = i
          /\ q.campaign = campaigns[i]
      BY <1>2, <2>2 DEF Requests, Places
    <2>4. orders[o].t + orders[o].p = 0 \/ Rate(campaigns[i], orders[o].t, orders[o].p) >= 1
      <3>1. orders[o].t + orders[o].p \in Nat
        BY <1>2
      <3>. QED
        BY <1>2, <2>2, <3>1, SuitableApplies
    <2>5. i # NoId
      BY <2>2, OrderingAssumption DEF CampaignIds
    <2>. HIDE DEF q
    <2>6. Progress(q) /\ Loaded(q)
      BY <1>1, <1>2, <2>3, <2>4, <2>5 DEF Progress, Loaded
    <2>. QED
      BY <1>1, <2>1, <2>3, <2>6, PlaceStep DEF CreatePlaces
  <1>. QED
    BY <1>3, <1>4 DEF FindCampaign

LEMMA Leaves ==
  ASSUME OrderingInv, NEW w \in Workers, Done(w),
         UNCHANGED <<day, campaigns, nextId, coupon, orders, edited>>
  PROVE  OrderingInv'
  <1>1. Idle.at \notin CreatePlaces
    BY DEF Idle, CreatePlaces
  <1>. QED
    BY <1>1, NoneType, RequestOnly DEF Done

\* Only an order without tickets has no full price.
LEMMA FreeIsEmpty ==
  ASSUME NEW row, row.t \in Nat, row.p \in Nat, row.full \in Nat, row.since \in Days, Charged(row)
  PROVE  row.full = 0 => row.t = 0 /\ row.p = 0
  <1>1. /\ TicketPrice[row.since] \in Nat \ {0} /\ PartyPrice[row.since] \in Nat \ {0}
        /\ row.full >= row.t * TicketPrice[row.since] + row.p * PartyPrice[row.since]
    BY Prices DEF Charged
  <1>2. PICK full \in Nat, t \in Nat, p \in Nat, a \in Nat \ {0}, b \in Nat \ {0} :
          /\ full = row.full /\ t = row.t /\ p = row.p
          /\ a = TicketPrice[row.since] /\ b = PartyPrice[row.since]
    BY <1>1
  <1>3. t * a >= t /\ p * b >= p /\ t * a \in Nat /\ p * b \in Nat
    BY AtLeast
  <1>4. PICK x \in Nat, y \in Nat : x = t * a /\ y = p * b
    BY <1>3
  <1>5. x >= t /\ y >= p
    BY <1>3, <1>4
  <1>6. full >= x + y
    BY <1>1, <1>2, <1>4
  <1>7. full = 0 => t = 0 /\ p = 0
    BY <1>5, <1>6
  <1>. QED
    BY <1>2, <1>7

\* The order is charged what its report will show, or counts as edited.
LEMMA PriceOrderStep ==
  ASSUME OrderingInv, NEW w \in Workers, PriceOrder(w)
  PROVE  OrderingInv'
  <1>. PICK o : o = req[w].order
    OBVIOUS
  <1>. PICK r \in Requests : r = req[w]
    BY RequestFields DEF OrderingInv
  <1>1. r.at = "price" /\ UNCHANGED <<day, campaigns, nextId, coupon>>
    BY DEF PriceOrder
  <1>2. /\ o \in DOMAIN orders /\ Progress(r) /\ Loaded(r)
        /\ Charged(orders[o]) /\ Settled(o) /\ r.order = o
        /\ orders[o] \in OrderRows /\ orders[o].t \in Nat /\ orders[o].p \in Nat
        /\ orders[o].full \in Nat /\ orders[o].since \in Days
        /\ r.discount \in BOOLEAN /\ r.coupon \in CouponRows /\ r.campaign \in CampaignRows
        /\ r.id \in CampaignIds \cup {NoId} /\ r.cart \in Nat \X Nat
    BY <1>1, OwnOrder, RowFields, RequestFields DEF CreatePlaces, OrderingInv
  <1>3. CASE r.id = NoId \/ r.id \in DOMAIN campaigns
    <2>. DEFINE cost == Cost(r.coupon, r.campaign, orders[o].full, orders[o].t, orders[o].p)
                priced == [orders[o] EXCEPT !.cost = cost, !.campaign = r.id, !.coupon = r.discount]
                counting == [r EXCEPT !.at = "count"]
    <2>1. /\ orders' = [orders EXCEPT ![o] = priced] /\ req' = [req EXCEPT ![w] = counting]
          /\ edited' = IF \/ r.id # NoId /\ campaigns[r.id] # r.campaign
                          \/ r.discount /\ coupon # r.coupon
                       THEN edited \cup {o} ELSE edited
      BY <1>3 DEF PriceOrder, Go
    <2>2. /\ cost \in Nat
          /\ cost = orders[o].full - CampaignDiscount(r.campaign, orders[o].full, orders[o].t, orders[o].p)
                      - CouponDiscount(r.coupon, r.campaign, orders[o].full, orders[o].t, orders[o].p)
      <3>1. orders[o].full = 0 => orders[o].t = 0 /\ orders[o].p = 0
        BY <1>2, FreeIsEmpty
      <3>2. PICK full \in Nat, t \in Nat, p \in Nat :
              full = orders[o].full /\ t = orders[o].t /\ p = orders[o].p
        BY <1>2
      <3>3. r.coupon \in CouponRows /\ r.campaign \in CampaignRows /\ (full = 0 => t = 0 /\ p = 0)
        BY <1>2, <3>1, <3>2
      <3>4. /\ Cost(r.coupon, r.campaign, full, t, p) \in Nat
            /\ Cost(r.coupon, r.campaign, full, t, p)
                 = full - CampaignDiscount(r.campaign, full, t, p)
                     - CouponDiscount(r.coupon, r.campaign, full, t, p)
        BY <3>3, CostIsWhatReportShows
      <3>. QED
        BY <3>2, <3>4
    <2>. HIDE DEF cost
    <2>3. /\ priced \in OrderRows /\ priced.t = orders[o].t /\ priced.p = orders[o].p
          /\ priced.full = orders[o].full /\ priced.since = orders[o].since
          /\ priced.cost = cost /\ priced.campaign = r.id /\ priced.coupon = r.discount
      BY <1>2, <2>2 DEF OrderRows
    <2>4. counting \in Requests /\ counting.at = "count" /\ counting.order = o
          /\ counting.cart = r.cart /\ counting.discount = r.discount /\ counting.coupon = r.coupon
          /\ counting.id = r.id /\ counting.campaign = r.campaign
      BY <1>2 DEF Requests, Places
    <2>. HIDE DEF priced, counting
    <2>5. PICK row \in OrderRows, q \in Requests : row = priced /\ q = counting
      BY <2>3, <2>4
    <2>6. Charged(row)
      BY <1>2, <2>3, <2>5 DEF Charged
    <2>7. orders'[o] = row /\ DOMAIN orders' = DOMAIN orders
      BY <1>2, <2>1, <2>5, RowReplaced DEF OrderingInv
    <2>8. Progress(q)' /\ Loaded(q)'
      BY <1>1, <1>2, <2>4, <2>5, <2>7 DEF Progress, Loaded
    <2>9. Settled(o)'
      <3>1. <<row.t, row.p>> \in Carts
        BY <1>1, <1>2, <2>3, <2>5 DEF Progress
      <3>2. row.campaign # NoId => row.campaign \in DOMAIN campaigns'
        BY <1>1, <1>3, <2>3, <2>5
      <3>3. ASSUME o \notin edited'
            PROVE  /\ row.cost = row.full - ReportedDiscounts(o)'
                   /\ row.campaign # NoId =>
                        row.t + row.p = 0 \/ Rate(campaigns'[row.campaign], row.t, row.p) >= 1
        <4>1. (r.id = NoId \/ campaigns[r.id] = r.campaign) /\ (~r.discount \/ coupon = r.coupon)
          BY <2>1, <3>3
        <4>2. CampaignOf(o)' = r.campaign
          BY <1>1, <1>2, <2>3, <2>5, <2>7, <4>1 DEF CampaignOf, Loaded
        <4>3. CouponOf(o)' = r.coupon
          BY <1>1, <1>2, <2>3, <2>5, <2>7, <4>1 DEF CouponOf, Loaded
        <4>4. ReportedDiscounts(o)'
                = CampaignDiscount(r.campaign, row.full, row.t, row.p)
                    + CouponDiscount(r.coupon, r.campaign, row.full, row.t, row.p)
          BY <2>7, <4>2, <4>3 DEF ReportedDiscounts
        <4>5. /\ CampaignDiscount(r.campaign, row.full, row.t, row.p) \in Int
              /\ CouponDiscount(r.coupon, r.campaign, row.full, row.t, row.p) \in Int
              /\ row.full \in Int
          <5>1. row.full \in Nat /\ row.t \in Nat /\ row.p \in Nat
            BY <1>2, <2>3, <2>5
          <5>2. r.coupon \in CouponRows /\ r.campaign \in CampaignRows
            BY <1>2
          <5>. QED
            BY <5>1, <5>2, DiscountTypes
        <4>6. row.cost = row.full - ReportedDiscounts(o)'
          BY <2>2, <2>3, <2>5, <4>4, <4>5
        <4>7. row.campaign # NoId =>
                row.t + row.p = 0 \/ Rate(campaigns'[row.campaign], row.t, row.p) >= 1
          BY <1>1, <1>2, <2>3, <2>5, <4>1 DEF Loaded
        <4>. QED
          BY <4>6, <4>7
      <3>. QED
        BY <2>7, <3>1, <3>2, <3>3 DEF Settled, Priced
    <2>10. edited \subseteq edited' /\ edited' \subseteq edited \cup {o}
      BY <2>1
    <2>. QED
      BY <1>1, <2>1, <2>4, <2>5, <2>6, <2>8, <2>9, <2>10, RowStep DEF CreatePlaces
  <1>4. CASE ~(r.id = NoId \/ r.id \in DOMAIN campaigns)
    BY <1>1, <1>4, Leaves DEF PriceOrder
  <1>. QED
    BY <1>3, <1>4

LEMMA CountItemsStep ==
  ASSUME OrderingInv, NEW w \in Workers, CountItems(w)
  PROVE  OrderingInv'
  <1>. PICK o : o = req[w].order
    OBVIOUS
  <1>. DEFINE counted == [orders[o] EXCEPT !.items = orders[o].t + orders[o].p]
  <1>1. /\ req[w].at = "count" /\ orders' = [orders EXCEPT ![o] = counted]
        /\ req' = [req EXCEPT ![w] = Idle] /\ UNCHANGED <<day, campaigns, nextId, coupon, edited>>
    BY DEF CountItems, Done
  <1>2. /\ o \in DOMAIN orders /\ Charged(orders[o]) /\ Settled(o)
        /\ orders[o] \in OrderRows /\ orders[o].t \in Nat /\ orders[o].p \in Nat
    BY <1>1, OwnOrder, RowFields DEF CreatePlaces, OrderingInv
  <1>3. /\ counted \in OrderRows /\ counted.t = orders[o].t /\ counted.p = orders[o].p
        /\ counted.full = orders[o].full /\ counted.since = orders[o].since
        /\ counted.cost = orders[o].cost /\ counted.campaign = orders[o].campaign
        /\ counted.coupon = orders[o].coupon
    <2>1. orders[o].t + orders[o].p \in Nat
      BY <1>2
    <2>. QED
      BY <1>2, <2>1 DEF OrderRows
  <1>. HIDE DEF counted
  <1>4. PICK row \in OrderRows : row = counted
    BY <1>3
  <1>5. orders'[o] = row
    BY <1>1, <1>2, <1>4, RowReplaced DEF OrderingInv
  <1>6. Charged(row)
    BY <1>2, <1>3, <1>4 DEF Charged
  <1>7. Settled(o)'
    <2>1. ReportedDiscounts(o)' = ReportedDiscounts(o)
      BY <1>1, <1>3, <1>4, <1>5 DEF ReportedDiscounts, CampaignOf, CouponOf
    <2>. QED
      BY <1>1, <1>2, <1>3, <1>4, <1>5, <2>1 DEF Settled, Priced
  <1>8. Idle \in Requests /\ Idle.at \notin CreatePlaces
    BY NoneType DEF Idle, CreatePlaces
  <1>. QED
    BY <1>1, <1>4, <1>6, <1>7, <1>8, RowStep DEF CreatePlaces

-----------------------------------------------------------------------------
(* Administration, and time.                                               *)

LEMMA CampaignFormStep ==
  ASSUME OrderingInv, NEW w \in Workers, NEW i \in DOMAIN campaigns \cup {NoId}, NEW cp \in Campaigns,
         CampaignForm(w, i, cp)
  PROVE  OrderingInv'
  <1>. DEFINE loaded == IF i = NoId THEN NoCampaign ELSE campaigns[i]
              q == [Idle EXCEPT !.at = "save", !.id = i, !.form = cp, !.campaign = loaded]
  <1>1. req' = [req EXCEPT ![w] = q] /\ UNCHANGED <<day, campaigns, nextId, coupon, orders, edited>>
    BY DEF CampaignForm
  <1>2. i \in CampaignIds \cup {NoId} /\ cp \in CampaignRows /\ loaded \in CampaignRows
    BY NoneType, OrderingAssumption DEF OrderingInv, TypeOK, CampaignIds
  <1>. HIDE DEF loaded
  <1>3. q \in Requests /\ q.at \notin CreatePlaces
    BY <1>2, NoneType DEF Idle, Requests, Places, CreatePlaces
  <1>. HIDE DEF q
  <1>. QED
    BY <1>1, <1>3, RequestOnly

\* The terms change, but only of orders that count as edited from then on.
LEMMA TermsStep ==
  ASSUME OrderingInv, TypeOK', Creating', UNCHANGED <<day, orders>>, edited \subseteq edited',
         \A o \in DOMAIN orders : orders[o].campaign # NoId =>
           /\ orders[o].campaign \in DOMAIN campaigns'
           /\ o \in edited' \/ campaigns'[orders[o].campaign] = campaigns[orders[o].campaign],
         \A o \in DOMAIN orders : o \in edited' \/ ~orders[o].coupon \/ coupon' = coupon
  PROVE  OrderingInv'
  <1>1. ASSUME NEW o \in DOMAIN orders PROVE Charged(orders[o])' /\ Settled(o)'
    <2>1. Charged(orders[o]) /\ Settled(o)
      BY DEF OrderingInv
    <2>2. o \notin edited' => CampaignOf(o)' = CampaignOf(o) /\ CouponOf(o)' = CouponOf(o)
      BY DEF CampaignOf, CouponOf
    <2>3. o \notin edited' => ReportedDiscounts(o)' = ReportedDiscounts(o)
      BY <2>2 DEF ReportedDiscounts
    <2>. QED
      BY <2>1, <2>3 DEF Charged, Settled, Priced
  <1>. QED
    BY <1>1 DEF OrderingInv

LEMMA MergeType ==
  ASSUME NEW row \in CampaignRows, NEW loaded \in CampaignRows, NEW form \in CampaignRows
  PROVE  Merge(row, loaded, form) \in CampaignRows
  BY DEF Merge, CampaignRows

LEMMA SaveCampaignStep ==
  ASSUME OrderingInv, NEW w \in Workers, SaveCampaign(w)
  PROVE  OrderingInv'
  <1>. USE DEF OrderingInv
  <1>1. Creating' /\ req' \in [Workers -> Requests]
    <2>1. Idle \in Requests /\ Idle.at \notin CreatePlaces /\ req' = [req EXCEPT ![w] = Idle]
          /\ orders' = orders
      BY NoneType DEF SaveCampaign, Done, Idle, CreatePlaces
    <2>. QED
      BY <2>1, CreatingKept
  <1>2. UNCHANGED <<day, coupon, orders>> /\ req[w].form \in CampaignRows
        /\ req[w].campaign \in CampaignRows
    BY RequestFields DEF SaveCampaign
  <1>3. CASE /\ nextId <= MaxCampaigns
             /\ campaigns' = Put(campaigns, nextId, req[w].form)
             /\ nextId' = nextId + 1 /\ UNCHANGED edited
    <2>1. nextId \notin DOMAIN campaigns /\ nextId \in Nat
      BY OrderingAssumption DEF TypeOK
    <2>2. /\ DOMAIN campaigns' = DOMAIN campaigns \cup {nextId}
          /\ \A i \in DOMAIN campaigns : campaigns'[i] = campaigns[i]
          /\ campaigns' \in [DOMAIN campaigns' -> CampaignRows]
      BY <1>2, <1>3, <2>1 DEF Put, TypeOK
    <2>3. TypeOK'
      BY <1>1, <1>2, <1>3, <2>1, <2>2, OrderingAssumption DEF TypeOK
    <2>. QED
      BY <1>1, <1>2, <1>3, <2>2, <2>3, TermsStep DEF Settled
  <1>4. CASE /\ req[w].id \in DOMAIN campaigns
             /\ campaigns' = [campaigns EXCEPT ![req[w].id] = Merge(@, req[w].campaign, req[w].form)]
             /\ edited' = IF campaigns' = campaigns THEN edited ELSE edited \cup PricedWith(req[w].id)
             /\ UNCHANGED nextId
    <2>1. Merge(campaigns[req[w].id], req[w].campaign, req[w].form) \in CampaignRows
      BY <1>2, <1>4, MergeType DEF TypeOK
    <2>2. /\ DOMAIN campaigns' = DOMAIN campaigns
          /\ \A i \in DOMAIN campaigns \ {req[w].id} : campaigns'[i] = campaigns[i]
          /\ campaigns' \in [DOMAIN campaigns' -> CampaignRows]
      BY <1>4, <2>1 DEF TypeOK
    <2>3. TypeOK'
      BY <1>1, <1>2, <1>4, <2>2 DEF TypeOK, PricedWith
    <2>. QED
      BY <1>1, <1>2, <1>4, <2>2, <2>3, TermsStep DEF Settled, PricedWith
  <1>5. CASE UNCHANGED <<campaigns, nextId, edited>>
    BY <1>2, <1>5, Leaves DEF SaveCampaign
  <1>. QED
    BY <1>3, <1>4, <1>5 DEF SaveCampaign

LEMMA DestroyCampaignStep ==
  ASSUME OrderingInv, NEW w \in Workers, NEW i, DestroyCampaign(w, i)
  PROVE  OrderingInv'
  <1>. USE DEF OrderingInv
  <1>1. /\ UNCHANGED <<day, nextId, coupon, orders, edited, req>>
        /\ DOMAIN campaigns' = DOMAIN campaigns \ {i}
        /\ \A j \in DOMAIN campaigns \ {i} : campaigns'[j] = campaigns[j]
        /\ campaigns' \in [DOMAIN campaigns' -> CampaignRows]
    BY DEF DestroyCampaign, TypeOK
  <1>2. TypeOK'
    BY <1>1 DEF TypeOK
  <1>3. Creating'
    BY <1>1 DEF Creating, Progress, Loaded
  <1>4. \A o \in DOMAIN orders : orders[o].campaign # i
    BY DEF DestroyCampaign, PricedWith
  <1>. QED
    BY <1>1, <1>2, <1>3, <1>4, TermsStep DEF Settled

LEMMA EditCouponStep ==
  ASSUME OrderingInv, NEW w \in Workers, NEW c \in Coupons, EditCoupon(w, c)
  PROVE  OrderingInv'
  <1>. USE DEF OrderingInv
  <1>1. /\ UNCHANGED <<day, campaigns, nextId, orders, req>> /\ coupon' \in CouponRows
        /\ edited' = edited \cup {o \in DOMAIN orders : orders[o].coupon}
    BY OrderingAssumption DEF EditCoupon
  <1>2. TypeOK'
    BY <1>1 DEF TypeOK
  <1>3. Creating'
    BY <1>1 DEF Creating, Progress, Loaded
  <1>. QED
    BY <1>1, <1>2, <1>3, TermsStep DEF Settled

\* Prices never fall, so what was charged is still within the price of the day.
LEMMA NextDayStep ==
  ASSUME OrderingInv, NextDay
  PROVE  OrderingInv'
  <1>. USE DEF OrderingInv
  <1>1. /\ UNCHANGED <<campaigns, nextId, coupon, orders, edited, req>>
        /\ day \in Days /\ day' \in Days /\ day <= day'
    BY OrderingAssumption DEF NextDay, TypeOK, Days
  <1>2. TypeOK'
    BY <1>1 DEF TypeOK
  <1>3. Creating'
    BY <1>1 DEF Creating, Progress, Loaded
  <1>4. ASSUME NEW o \in DOMAIN orders PROVE Charged(orders[o])' /\ Settled(o)'
    <2>1. /\ orders[o].t \in Nat /\ orders[o].p \in Nat /\ orders[o].full \in Nat
          /\ orders[o].since \in Days /\ Charged(orders[o]) /\ Settled(o)
      BY RowFields
    <2>2. /\ orders[o].t * TicketPrice[day] <= orders[o].t * TicketPrice[day']
          /\ orders[o].p * PartyPrice[day] <= orders[o].p * PartyPrice[day']
      <3>1. /\ TicketPrice[day] \in Nat /\ TicketPrice[day'] \in Nat
            /\ PartyPrice[day] \in Nat /\ PartyPrice[day'] \in Nat
            /\ TicketPrice[day] <= TicketPrice[day'] /\ PartyPrice[day] <= PartyPrice[day']
        BY <1>1, Prices
      <3>. QED
        BY <2>1, <3>1, Times
    <2>3. /\ orders[o].t * TicketPrice[day] \in Int /\ orders[o].t * TicketPrice[day'] \in Int
          /\ orders[o].p * PartyPrice[day] \in Int /\ orders[o].p * PartyPrice[day'] \in Int
      BY <1>1, <2>1, Prices
    <2>4. orders[o].since <= day' /\ orders'[o] = orders[o]
      BY <1>1, <2>1 DEF Charged, Days
    <2>5. orders[o].full <= orders[o].t * TicketPrice[day'] + orders[o].p * PartyPrice[day']
      BY <2>1, <2>2, <2>3 DEF Charged
    <2>6. Charged(orders[o])'
      BY <2>1, <2>4, <2>5 DEF Charged
    <2>7. Settled(o)'
      BY <1>1, <2>1 DEF Settled, Priced, ReportedDiscounts, CampaignOf, CouponOf
    <2>. QED
      BY <2>6, <2>7
  <1>. QED
    BY <1>1, <1>2, <1>3, <1>4

LEMMA StutterStep ==
  ASSUME OrderingInv, UNCHANGED vars
  PROVE  OrderingInv'
  <1>1. UNCHANGED <<day, campaigns, nextId, coupon, orders, edited, req>>
    BY DEF vars
  <1>2. TypeOK' /\ Creating'
    BY <1>1 DEF OrderingInv, TypeOK, Creating, Progress, Loaded
  <1>. QED
    BY <1>1, <1>2, TermsStep DEF OrderingInv, Settled

LEMMA OrderingStep == OrderingInv /\ [Next]_vars => OrderingInv'
  <1>. SUFFICES ASSUME OrderingInv, [Next]_vars PROVE OrderingInv'
    OBVIOUS
  <1>1. ASSUME NEW w \in Workers, Arrive(w) PROVE OrderingInv'
    BY <1>1, CreateOrderStep, CampaignFormStep, DestroyCampaignStep, EditCouponStep DEF Arrive
  <1>2. ASSUME NEW w \in Workers, Serve(w) PROVE OrderingInv'
    BY <1>2, AddTicketStep, AddPartyTicketStep, FindCampaignStep, PriceOrderStep, CountItemsStep,
       SaveCampaignStep DEF Serve
  <1>3. ASSUME NEW w \in Workers, Abort(w) PROVE OrderingInv'
    BY <1>3, Leaves DEF Abort
  <1>. QED
    BY <1>1, <1>2, <1>3, NextDayStep, StutterStep DEF Next

LEMMA OrderingInvAlways == Spec => []OrderingInv
  <1>. QED
    BY OrderingInitial, OrderingStep, PTL DEF Spec

-----------------------------------------------------------------------------
(* The theorems.                                                           *)

\* Every row, request and history variable has its type in every state.
THEOREM OrderingTypeCorrect == Spec => []TypeOK
  <1>1. OrderingInv => TypeOK
    BY DEF OrderingInv
  <1>. QED
    BY <1>1, OrderingInvAlways, PTL

\* The cost of every order whose terms nobody edited is its full price less the
\* discounts that CouponReport computes again later, however its request, the
\* edits and the days were interleaved.
THEOREM ReportAddsUpAlways == Spec => []ReportAddsUp
  <1>1. OrderingInv => ReportAddsUp
    BY DEF OrderingInv, Settled, ReportAddsUp
  <1>. QED
    BY <1>1, OrderingInvAlways, PTL

\* An order that has a cost has all its tickets, its full price lies between
\* those of the day it was created and of today, and an unedited one without a
\* coupon is discounted for whole sets that it has: no request that died left
\* part of an order with a cost, and no set is counted that is not there.
THEOREM PricedWholeAlways == Spec => []PricedWhole
  <1>1. ASSUME OrderingInv, NEW o \in DOMAIN orders, Priced(o), o \notin edited, ~orders[o].coupon
        PROVE  \E n \in 0..(orders[o].t + orders[o].p) :
                 /\ FitsSets(CampaignOf(o), orders[o].t, orders[o].p, n)
                 /\ orders[o].cost = orders[o].full - CampaignOf(o).amount * n
    <2>1. /\ orders[o].t \in Nat /\ orders[o].p \in Nat /\ orders[o].full \in Nat /\ TypeOK
      BY <1>1, RowFields DEF OrderingInv
    <2>2. CampaignOf(o) \in CampaignRows
      BY <1>1, <2>1, NoneType DEF OrderingInv, Settled, CampaignOf, TypeOK
    <2>3. orders[o].cost = orders[o].full - ReportedDiscounts(o)
      BY <1>1 DEF OrderingInv, Settled
    <2>4. CouponDiscount(CouponOf(o), CampaignOf(o), orders[o].full, orders[o].t, orders[o].p) = 0
      BY <1>1, <2>1, <2>2, NoCouponNoDiscount DEF CouponOf
    <2>5. CampaignDiscount(CampaignOf(o), orders[o].full, orders[o].t, orders[o].p) \in Int
      BY <2>1, <2>2, CampaignDiscountBound
    <2>6. orders[o].cost
            = orders[o].full
                - CampaignDiscount(CampaignOf(o), orders[o].full, orders[o].t, orders[o].p)
      BY <2>3, <2>4, <2>5 DEF ReportedDiscounts
    <2>7. PICK n \in 0..(orders[o].t + orders[o].p) :
            /\ FitsSets(CampaignOf(o), orders[o].t, orders[o].p, n)
            /\ CampaignDiscount(CampaignOf(o), orders[o].full, orders[o].t, orders[o].p)
                 = CampaignOf(o).amount * n
      BY <2>1, <2>2, DiscountIsOfSets
    <2>. QED
      BY <2>6, <2>7
  <1>2. OrderingInv => PricedWhole
    BY <1>1 DEF OrderingInv, Settled, Charged, PricedWhole
  <1>. QED
    BY <1>2, OrderingInvAlways, PTL

\* The campaign of an unedited order exists and gives its discount to it.
THEOREM CampaignAppliesAlways == Spec => []CampaignApplies
  <1>1. OrderingInv => CampaignApplies
    BY DEF OrderingInv, Settled, CampaignApplies
  <1>. QED
    BY <1>1, OrderingInvAlways, PTL

-----------------------------------------------------------------------------
(* Campaigns, when one worker serves everybody.                            *)

OneWorker == \A w, v \in Workers : w = v

\* What the form was checked against is what it is saved to.
FormsFit ==
  \A w \in Workers : req[w].at = "save" =>
    /\ ~Collides(req[w].id, req[w].form)
    /\ req[w].id \in DOMAIN campaigns => campaigns[req[w].id] = req[w].campaign

CampaignInv == OrderingInv /\ CampaignsDisjoint /\ FormsFit

LEMMA MergeFresh ==
  ASSUME NEW row \in CampaignRows, NEW form \in CampaignRows
  PROVE  Merge(row, row, form) = form
  BY DEF Merge, CampaignRows

\* A campaign that collides with no other can be saved in its place.
LEMMA SavedDisjoint ==
  ASSUME CampaignsDisjoint, NEW id, NEW form, ~Collides(id, form),
         NEW i, i = id \/ id \notin DOMAIN campaigns,
         DOMAIN campaigns' = DOMAIN campaigns \cup {i}, campaigns'[i] = form,
         \A j \in DOMAIN campaigns \ {i} : campaigns'[j] = campaigns[j]
  PROVE  CampaignsDisjoint'
  <1>1. \A j \in DOMAIN campaigns \ {i} : ~Overlap(campaigns[j], form) /\ ~Overlap(form, campaigns[j])
    BY DEF Collides, Overlap
  <1>2. ASSUME NEW j \in DOMAIN campaigns', NEW k \in DOMAIN campaigns', j # k,
               Overlap(campaigns'[j], campaigns'[k])
        PROVE  FALSE
    <2>1. CASE j = i
      BY <1>1, <1>2, <2>1
    <2>2. CASE k = i
      BY <1>1, <1>2, <2>2
    <2>3. CASE j # i /\ k # i
      BY <1>2, <2>3 DEF CampaignsDisjoint
    <2>. QED
      BY <2>1, <2>2, <2>3
  <1>. QED
    BY <1>2 DEF CampaignsDisjoint

LEMMA SaveDisjointStep ==
  ASSUME CampaignInv, NEW w \in Workers, SaveCampaign(w)
  PROVE  CampaignsDisjoint'
  <1>1. /\ ~Collides(req[w].id, req[w].form)
        /\ req[w].id \in DOMAIN campaigns => campaigns[req[w].id] = req[w].campaign
        /\ req[w].form \in CampaignRows /\ TypeOK /\ CampaignsDisjoint
    BY RequestFields DEF SaveCampaign, CampaignInv, FormsFit, OrderingInv
  <1>2. CASE req[w].id = NoId /\ campaigns' = Put(campaigns, nextId, req[w].form)
    <2>1. NoId \notin DOMAIN campaigns
      BY <1>1, OrderingAssumption DEF TypeOK
    <2>. QED
      BY <1>1, <1>2, <2>1, SavedDisjoint DEF Put
  <1>3. CASE /\ req[w].id \in DOMAIN campaigns
             /\ campaigns' = [campaigns EXCEPT ![req[w].id] = Merge(@, req[w].campaign, req[w].form)]
    <2>1. Merge(campaigns[req[w].id], req[w].campaign, req[w].form) = req[w].form
      BY <1>1, <1>3, MergeFresh DEF TypeOK
    <2>2. /\ DOMAIN campaigns' = DOMAIN campaigns \cup {req[w].id}
          /\ campaigns'[req[w].id] = req[w].form
          /\ \A j \in DOMAIN campaigns \ {req[w].id} : campaigns'[j] = campaigns[j]
      BY <1>1, <1>3, <2>1 DEF TypeOK
    <2>. QED
      BY <1>1, <2>2, SavedDisjoint
  <1>4. CASE UNCHANGED campaigns
    BY <1>1, <1>4 DEF CampaignsDisjoint
  <1>. QED
    BY <1>2, <1>3, <1>4 DEF SaveCampaign

LEMMA CampaignStep ==
  ASSUME OneWorker, CampaignInv, [Next]_vars
  PROVE  CampaignInv'
  <1>. USE DEF CampaignInv
  <1>1. OrderingInv'
    BY OrderingStep
  <1>2. ASSUME UNCHANGED campaigns,
               \A w \in Workers : req'[w].at = "save" => req'[w] = req[w]
        PROVE  CampaignsDisjoint' /\ FormsFit'
    BY <1>2 DEF CampaignsDisjoint, FormsFit, Collides
  <1>3. ASSUME NEW w \in Workers, Arrive(w) PROVE CampaignsDisjoint' /\ FormsFit'
    <2>1. ASSUME NEW i \in DOMAIN campaigns \cup {NoId}, NEW cp \in Campaigns, CampaignForm(w, i, cp)
          PROVE  CampaignsDisjoint' /\ FormsFit'
      <3>1. UNCHANGED campaigns /\ ~Collides(i, cp)
        BY <2>1 DEF CampaignForm
      <3>2. /\ req'[w].at = "save" /\ req'[w].id = i /\ req'[w].form = cp
            /\ i # NoId => req'[w].campaign = campaigns[i]
        BY <2>1 DEF CampaignForm, Idle, OrderingInv, TypeOK
      <3>3. NoId \notin DOMAIN campaigns
        BY OrderingAssumption DEF OrderingInv, TypeOK
      <3>. QED
        BY <3>1, <3>2, <3>3 DEF OneWorker, CampaignsDisjoint, FormsFit, Collides
    <2>2. ASSUME NEW i \in CampaignIds, DestroyCampaign(w, i) PROVE CampaignsDisjoint' /\ FormsFit'
      <3>1. req[w].at = "idle" /\ UNCHANGED req
        BY <2>2 DEF DestroyCampaign
      <3>2. FormsFit'
        BY <3>1 DEF OneWorker, FormsFit
      <3>3. CampaignsDisjoint'
        BY <2>2 DEF DestroyCampaign, CampaignsDisjoint
      <3>. QED
        BY <3>2, <3>3
    <2>3. ASSUME NEW o \in Orders, NEW cart \in Carts, NEW discount \in BOOLEAN,
                 CreateOrder(w, o, cart, discount)
          PROVE  CampaignsDisjoint' /\ FormsFit'
      <3>1. UNCHANGED campaigns /\ req'[w].at = "tickets" /\ \A v \in Workers \ {w} : req'[v] = req[v]
        BY <2>3 DEF CreateOrder, Idle, OrderingInv, TypeOK
      <3>. QED
        BY <1>2, <3>1
    <2>4. ASSUME NEW c \in Coupons, EditCoupon(w, c) PROVE CampaignsDisjoint' /\ FormsFit'
      BY <1>2, <2>4 DEF EditCoupon
    <2>. QED
      BY <1>3, <2>1, <2>2, <2>3, <2>4 DEF Arrive
  <1>4. ASSUME NEW w \in Workers, SaveCampaign(w) PROVE CampaignsDisjoint' /\ FormsFit'
    <2>1. req'[w].at = "idle"
      BY <1>4 DEF SaveCampaign, Done, Idle, OrderingInv, TypeOK
    <2>2. FormsFit'
      BY <2>1 DEF OneWorker, FormsFit
    <2>. QED
      BY <1>4, <2>2, SaveDisjointStep
  <1>5. ASSUME NEW w \in Workers, NEW place \in Places \ {"save"}, Go(w, place) \/ Done(w)
        PROVE  \A v \in Workers : req'[v].at = "save" => req'[v] = req[v]
    BY <1>5, RequestFields DEF Go, Done, Idle, OrderingInv, TypeOK, Requests
  <1>6. ASSUME NEW w \in Workers, Serve(w) \/ Abort(w), ~SaveCampaign(w)
        PROVE  CampaignsDisjoint' /\ FormsFit'
    <2>1. UNCHANGED campaigns
      BY <1>6 DEF Serve, Abort, AddTicket, AddPartyTicket, FindCampaign, PriceOrder, CountItems
    <2>2. \A v \in Workers : req'[v].at = "save" => req'[v] = req[v]
      <3>1. CASE FindCampaign(w)
        <4>1. CASE Go(w, "price")
          BY <1>5, <4>1 DEF Places
        <4>2. ASSUME NEW i,
                     req' = [req EXCEPT ![w] =
                               [@ EXCEPT !.at = "price", !.id = i, !.campaign = campaigns[i]]]
              PROVE  req'[w].at = "price" /\ \A v \in Workers \ {w} : req'[v] = req[v]
          <5>1. req \in [Workers -> Requests] /\ req[w] \in Requests
            BY DEF OrderingInv, TypeOK
          <5>2. [req[w] EXCEPT !.at = "price", !.id = i, !.campaign = campaigns[i]].at = "price"
            BY <5>1 DEF Requests
          <5>. QED
            BY <4>2, <5>1, <5>2
        <4>. QED
          BY <3>1, <4>1, <4>2 DEF FindCampaign
      <3>2. CASE AddTicket(w) \/ AddPartyTicket(w) \/ PriceOrder(w) \/ CountItems(w) \/ Abort(w)
        BY <1>5, <3>2 DEF AddTicket, AddPartyTicket, PriceOrder, CountItems, Abort, Places
      <3>. QED
        BY <1>6, <3>1, <3>2 DEF Serve
    <2>. QED
      BY <1>2, <2>1, <2>2
  <1>7. ASSUME NextDay \/ UNCHANGED vars PROVE CampaignsDisjoint' /\ FormsFit'
    BY <1>2, <1>7 DEF NextDay, vars
  <1>. QED
    BY <1>1, <1>3, <1>4, <1>6, <1>7 DEF Next

\* With one worker, what the collision check saw is still there when the form
\* is saved: at most one campaign runs at any time.
THEOREM CampaignsDisjointSerial ==
  ASSUME OneWorker
  PROVE  Spec => []CampaignsDisjoint
  <1>1. Init => CampaignInv
    <2>1. Init => DOMAIN campaigns = {} /\ \A w \in Workers : req[w].at = "idle"
      BY DEF Init, Idle
    <2>. QED
      BY <2>1, OrderingInitial DEF CampaignInv, CampaignsDisjoint, FormsFit
  <1>2. CampaignInv /\ [Next]_vars => CampaignInv'
    BY CampaignStep
  <1>3. CampaignInv => CampaignsDisjoint
    BY DEF CampaignInv
  <1>. QED
    BY <1>1, <1>2, <1>3, PTL DEF Spec

=============================================================================
