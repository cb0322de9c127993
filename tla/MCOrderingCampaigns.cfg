\* Campaigns edited by one administrator at a time, orders using them.
CONSTANTS
  Orders = {o1}
  AccountOrders = {}
  MaxCampaigns = 3
  Workers = {w1}
  NoId = NoId
  Campaigns <- MCRanges
  Coupons <- MCOneCoupon
  Carts <- MCOneCart
  LastDay = 2
SPECIFICATION Spec
INVARIANT CampaignsDisjoint
