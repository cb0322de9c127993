\* An order is created while another worker edits the terms and a day passes.
CONSTANTS
  Orders = {o1}
  AccountOrders = {o1}
  MaxCampaigns = 1
  Workers = {w1, w2}
  NoId = NoId
  Campaigns <- MCCampaigns
  Coupons <- MCCoupons
  Carts <- MCCarts
  LastDay = 1
SPECIFICATION Spec
SYMMETRY Symmetry
INVARIANT TypeOK
INVARIANT ReportAddsUp
INVARIANT PricedWhole
INVARIANT CampaignApplies
