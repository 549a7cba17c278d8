SPECIFICATION SellingSpec
CONSTANTS
    Calls = {c1, c2}
    MaxRequests = 3
    MaxAuctions = 3
    MaxMoves = 2
    Horizon = 2
    Plans = {p1, p2}
    FirstPlan = p1
    Limits = {1, 2}
SYMMETRY CallSymmetry
INVARIANTS SellerApproved ListsLoad AuctionQuota
CHECK_DEADLOCK FALSE
