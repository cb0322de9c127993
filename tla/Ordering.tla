------------------------------ MODULE Ordering ------------------------------
(***************************************************************************)
(* Creating orders while days pass and administrators edit the terms.      *)
(*                                                                         *)
(* CreateOrder.call is no transaction: it commits the order, each ticket   *)
(* at the price of the moment, the cost, and the count one after another,  *)
(* computing with the campaign and the coupon it loaded on the way.  The   *)
(* campaign form checks for collisions in one query and saves in another.  *)
(***************************************************************************)
EXTENDS Pricing

CONSTANTS
  Orders,       \* the orders that may be created
  AccountOrders, \* those of signed-in users, the others are /buy_now orders
  MaxCampaigns, \* bound: campaigns ever created
  Workers,      \* the unicorn worker processes
  NoId,
  Campaigns,    \* bound: what the campaign form is filled in with
  Coupons,      \* bound: what the coupon form is filled in with
  Carts,        \* bound: <<tickets, afterparty tickets>> people order
  LastDay       \* bound: the day the clock stops at

ASSUME OrderingAssumption ==
  /\ MaxCampaigns \in Nat
  /\ AccountOrders \subseteq Orders
  /\ NoId \notin Orders /\ NoId \notin Nat
  /\ Campaigns \subseteq {cp \in CampaignRows : cp.from <= cp.to}  \* correct_date_range
  /\ Coupons \subseteq CouponRows
  /\ Carts \subseteq Nat \X Nat
  /\ LastDay \in Days

VARIABLES
  day,        \* Time.current
  campaigns,  \* the campaigns table: [ids in use -> attributes]
  nextId,     \* the sequence of campaigns.id
  coupon,     \* the attributes of the one coupon there is
  orders,     \* the orders table: [orders created -> attributes]
  edited,     \* history: the terms of an order changed after it was priced
  req         \* the request each worker serves

vars == <<day, campaigns, nextId, coupon, orders, edited, req>>

Unpriced == -1   \* orders.cost is NULL

Places == {"idle",
           "tickets",  \* add_tickets
           "parties",  \* add_afterparty_tickets
           "campaign", \* Campaign.suitable_for
           "price",    \* recalculate_cost!
           "count",    \* recalculate_items_count!
           "save"}     \* the campaign form is valid: save it

CampaignIds == 1..MaxCampaigns

OrderRows == [t : Nat, p : Nat, full : Nat,   \* the ticket rows: counts, sum of prices
              cost : Nat \cup {Unpriced}, items : Nat,
              campaign : CampaignIds \cup {NoId}, coupon : BOOLEAN,
              since : Days]                    \* created_at

Requests == [at       : Places,
             order    : Orders \cup {NoId},
             cart     : Nat \X Nat,
             discount : BOOLEAN,         \* the session has the coupon's code
             coupon   : CouponRows,      \* the coupon and
             id       : CampaignIds \cup {NoId},
             campaign : CampaignRows,    \* the campaign, as loaded
             form     : CampaignRows]    \* what the administrator filled in

Idle == [at |-> "idle", order |-> NoId, cart |-> <<0, 0>>, discount |-> FALSE,
         coupon |-> NoCoupon, id |-> NoId, campaign |-> NoCampaign, form |-> NoCampaign]

TypeOK ==
  /\ day \in Days
  /\ nextId \in 1..(MaxCampaigns + 1)
  /\ DOMAIN campaigns \subseteq 1..(nextId - 1)
  /\ campaigns \in [DOMAIN campaigns -> CampaignRows]
  /\ coupon \in CouponRows
  /\ DOMAIN orders \subseteq Orders
  /\ orders \in [DOMAIN orders -> OrderRows]
  /\ edited \subseteq DOMAIN orders
  /\ req \in [Workers -> Requests]

Init ==
  /\ day = 0
  /\ campaigns = <<>>
  /\ nextId = 1
  /\ coupon \in Coupons
  /\ orders = <<>>
  /\ edited = {}
  /\ req = [w \in Workers |-> Idle]

Go(w, place) == req' = [req EXCEPT ![w].at = place]
Done(w) == req' = [req EXCEPT ![w] = Idle]

Put(f, x, v) == [y \in DOMAIN f \cup {x} |-> IF y = x THEN v ELSE f[y]]

-----------------------------------------------------------------------------
(* CreateOrder.                                                            *)

\* Order.create and current_coupon (only an active one is found); the coupon is
\* saved with `user.orders << order', or else when the order is priced.
CreateOrder(w, o, cart, discount) ==
  /\ req[w].at = "idle" /\ o \notin DOMAIN orders
  /\ orders' = Put(orders, o, [t |-> 0, p |-> 0, full |-> 0, cost |-> Unpriced, items |-> 0,
                               campaign |-> NoId, since |-> day,
                               coupon |-> discount /\ o \in AccountOrders])
  /\ req' = [req EXCEPT ![w] =
               [Idle EXCEPT !.at = "tickets", !.order = o, !.cart = cart, !.discount = discount,
                            !.coupon = IF discount THEN coupon ELSE NoCoupon]]
  /\ UNCHANGED <<day, campaigns, nextId, coupon, edited>>

AddTicket(w) ==
  LET o == req[w].order IN
  /\ req[w].at = "tickets"
  /\ IF orders[o].t < req[w].cart[1]
     THEN /\ orders' = [orders EXCEPT ![o].t = @ + 1, ![o].full = @ + TicketPrice[day]]
          /\ UNCHANGED req
     ELSE Go(w, "parties") /\ UNCHANGED orders
  /\ UNCHANGED <<day, campaigns, nextId, coupon, edited>>

AddPartyTicket(w) ==
  LET o == req[w].order IN
  /\ req[w].at = "parties"
  /\ IF orders[o].p < req[w].cart[2]
     THEN /\ orders' = [orders EXCEPT ![o].p = @ + 1, ![o].full = @ + PartyPrice[day]]
          /\ UNCHANGED req
     ELSE Go(w, "campaign") /\ UNCHANGED orders
  /\ UNCHANGED <<day, campaigns, nextId, coupon, edited>>

SuitableIds(t, p) == {i \in DOMAIN campaigns : Suitable(campaigns[i], t, p, day)}

\* Mutant: any campaign of the day is taken, whatever the order has.
FindCampaignOfDay(w) ==
  /\ req[w].at = "campaign"
  /\ LET ids == {i \in DOMAIN campaigns : day \in campaigns[i].from..campaigns[i].to} IN
     \/ ids = {} /\ Go(w, "price")
     \/ \E i \in ids :
          req' = [req EXCEPT ![w] =
                    [@ EXCEPT !.at = "price", !.id = i, !.campaign = campaigns[i]]]
  /\ UNCHANGED <<day, campaigns, nextId, coupon, orders, edited>>

\* order.campaign = Campaign.suitable_for(...): the first by primary key.
FindCampaign(w) ==
  LET o == req[w].order
      ids == SuitableIds(orders[o].t, orders[o].p)
  IN
  /\ req[w].at = "campaign"
  /\ \/ ids = {} /\ Go(w, "price")
     \/ \E i \in ids :
          /\ \A j \in ids : i <= j
          /\ req' = [req EXCEPT ![w] =
                       [@ EXCEPT !.at = "price", !.id = i, !.campaign = campaigns[i]]]
  /\ UNCHANGED <<day, campaigns, nextId, coupon, orders, edited>>

\* Mutant: the order is priced when its tickets, not its party tickets, are in.
PriceEarly(w) ==
  LET r == req[w]
      row == orders[r.order]
  IN
  /\ r.at \in {"parties", "price"}
  /\ orders' = [orders EXCEPT ![r.order] =
       [@ EXCEPT !.cost = Cost(r.coupon, r.campaign, row.full, row.t, row.p),
                 !.campaign = r.id, !.coupon = r.discount]]
  /\ IF r.at = "price" THEN Go(w, "count") ELSE UNCHANGED req
  /\ UNCHANGED <<day, campaigns, nextId, coupon, edited>>

\* order.recalculate_cost!: the campaign must still be there (foreign key).
PriceOrder(w) ==
  LET r == req[w]
      row == orders[r.order]
  IN
  /\ r.at = "price"
  /\ IF r.id = NoId \/ r.id \in DOMAIN campaigns
     THEN /\ orders' = [orders EXCEPT ![r.order] =
               [@ EXCEPT !.cost = Cost(r.coupon, r.campaign, row.full, row.t, row.p),
                         !.campaign = r.id, !.coupon = r.discount]]
          /\ edited' = IF \/ r.id # NoId /\ campaigns[r.id] # r.campaign
                          \/ r.discount /\ coupon # r.coupon
                       THEN edited \cup {r.order} ELSE edited
          /\ Go(w, "count")
     ELSE Done(w) /\ UNCHANGED <<orders, edited>>
  /\ UNCHANGED <<day, campaigns, nextId, coupon>>

\* order.recalculate_items_count!
CountItems(w) ==
  LET o == req[w].order IN
  /\ req[w].at = "count"
  /\ orders' = [orders EXCEPT ![o].items = orders[o].t + orders[o].p]
  /\ Done(w)
  /\ UNCHANGED <<day, campaigns, nextId, coupon, edited>>

-----------------------------------------------------------------------------
(* Administration, and time.                                               *)

\* Orders priced with the campaign i.
PricedWith(i) == {o \in DOMAIN orders : orders[o].campaign = i}

\* Mutant: only a campaign that starts within the other's range collides.
CollidesStart(i, cp) ==
  \E j \in DOMAIN campaigns \ {i} : cp.from \in campaigns[j].from..campaigns[j].to

\* Campaign#collision_date
Collides(i, cp) == \E j \in DOMAIN campaigns \ {i} : Overlap(campaigns[j], cp)

\* campaigns#create and #update: the campaign is loaded, the form is valid ...
CampaignForm(w, i, cp) ==
  /\ req[w].at = "idle"
  /\ ~Collides(i, cp)
  /\ req' = [req EXCEPT ![w] =
       [Idle EXCEPT !.at = "save", !.id = i, !.form = cp,
                    !.campaign = IF i = NoId THEN NoCampaign ELSE campaigns[i]]]
  /\ UNCHANGED <<day, campaigns, nextId, coupon, orders, edited>>

\* An UPDATE sets the columns that differ from what was loaded (the read-only
\* discount_amount of the edit form is accepted by the controller).
Merge(row, loaded, form) ==
  [f \in DOMAIN row |-> IF form[f] = loaded[f] THEN row[f] ELSE form[f]]

\* ... and saved: an INSERT, or an UPDATE of a row that may be gone.
SaveCampaign(w) ==
  LET r == req[w] IN
  /\ r.at = "save"
  /\ \/ /\ r.id = NoId /\ nextId <= MaxCampaigns
        /\ campaigns' = Put(campaigns, nextId, r.form)
        /\ nextId' = nextId + 1
        /\ UNCHANGED edited
     \/ /\ r.id \in DOMAIN campaigns
        /\ campaigns' = [campaigns EXCEPT ![r.id] = Merge(@, r.campaign, r.form)]
        /\ edited' = IF campaigns' = campaigns THEN edited ELSE edited \cup PricedWith(r.id)
        /\ UNCHANGED nextId
     \/ r.id # NoId /\ r.id \notin DOMAIN campaigns /\ UNCHANGED <<campaigns, nextId, edited>>
  /\ Done(w)
  /\ UNCHANGED <<day, coupon, orders>>

\* campaigns#destroy: refused by the foreign key when an order refers to it.
DestroyCampaign(w, i) ==
  /\ req[w].at = "idle"
  /\ i \in DOMAIN campaigns /\ PricedWith(i) = {}
  /\ campaigns' = [j \in DOMAIN campaigns \ {i} |-> campaigns[j]]
  /\ UNCHANGED <<day, nextId, coupon, orders, edited, req>>

\* coupons#update
EditCoupon(w, c) ==
  /\ req[w].at = "idle"
  /\ c # coupon
  /\ coupon' = c
  /\ edited' = edited \cup {o \in DOMAIN orders : orders[o].coupon}
  /\ UNCHANGED <<day, campaigns, nextId, orders, req>>

NextDay ==
  /\ day < LastDay
  /\ day' = day + 1
  /\ UNCHANGED <<campaigns, nextId, coupon, orders, edited, req>>

\* The worker is killed or a statement raises: committed rows stay.
Abort(w) ==
  /\ req[w].at # "idle"
  /\ Done(w)
  /\ UNCHANGED <<day, campaigns, nextId, coupon, orders, edited>>

Serve(w) ==
  \/ AddTicket(w)
  \/ AddPartyTicket(w)
  \/ FindCampaign(w)
  \/ PriceOrder(w)
  \/ CountItems(w)
  \/ SaveCampaign(w)

Arrive(w) ==
  \/ \E o \in Orders, cart \in Carts, discount \in BOOLEAN : CreateOrder(w, o, cart, discount)
  \/ \E i \in DOMAIN campaigns \cup {NoId}, cp \in Campaigns : CampaignForm(w, i, cp)
  \/ \E i \in CampaignIds : DestroyCampaign(w, i)
  \/ \E c \in Coupons : EditCoupon(w, c)

Next == NextDay \/ \E w \in Workers : Arrive(w) \/ Serve(w) \/ Abort(w)

Spec == Init /\ [][Next]_vars

-----------------------------------------------------------------------------
(* Properties.                                                             *)

Priced(o) == orders[o].cost # Unpriced

\* What CouponReport computes again, from the campaign and coupon as they are.
CampaignOf(o) == IF orders[o].campaign = NoId THEN NoCampaign ELSE campaigns[orders[o].campaign]
CouponOf(o) == IF orders[o].coupon THEN coupon ELSE NoCoupon
ReportedDiscounts(o) ==
  LET row == orders[o] IN
  CampaignDiscount(CampaignOf(o), row.full, row.t, row.p)
    + CouponDiscount(CouponOf(o), CampaignOf(o), row.full, row.t, row.p)

\* The columns of the coupon report add up for every order whose terms were not
\* edited after it was priced: paid = full price - campaign - coupon discount,
\* so recalculate_cost never had to clamp a negative total.
ReportAddsUp ==
  \A o \in DOMAIN orders \ edited :
    Priced(o) => orders[o].cost = orders[o].full - ReportedDiscounts(o)

\* So many of a campaign's sets can be made of t tickets and p party tickets.
FitsSets(cp, t, p, n) == n <= t + p /\ n * cp.tickets <= t /\ n * cp.parties <= p

\* Requests may die anywhere and days pass meanwhile: an order with a cost has
\* every ticket that was ordered; their prices come to no less than on the day
\* the order was created and to no more than today; and while its terms are not
\* edited, an order without a coupon costs that sum less the campaign's amount
\* for a number of whole sets that the order really has.
PricedWhole ==
  \A o \in DOMAIN orders :
    LET row == orders[o]
        cp == CampaignOf(o)
    IN
    Priced(o) =>
      /\ <<row.t, row.p>> \in Carts
      /\ row.full >= row.t * TicketPrice[row.since] + row.p * PartyPrice[row.since]
      /\ row.full <= row.t * TicketPrice[day] + row.p * PartyPrice[day]
      /\ o \notin edited /\ ~row.coupon =>
           \E n \in 0..(row.t + row.p) :
             FitsSets(cp, row.t, row.p, n) /\ row.cost = row.full - cp.amount * n

\* An order is tied only to a campaign that gives it its discount at least once,
\* until an administrator changes the campaign.
CampaignApplies ==
  \A o \in DOMAIN orders \ edited :
    LET row == orders[o] IN
    row.campaign # NoId => row.t + row.p = 0 \/ Rate(campaigns[row.campaign], row.t, row.p) >= 1

\* At most one campaign runs at any time ('date_collision').
CampaignsDisjoint ==
  \A i, j \in DOMAIN campaigns : Overlap(campaigns[i], campaigns[j]) => i = j

=============================================================================
