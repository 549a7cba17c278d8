SPECIFICATION Spec
CONSTANTS
  Users = {u1, u2}
  NoUser = NoUser
  Seller = seller
  AuctionType = "LONG"
  StartAt = 0
  EndAt = 2
  MinIncrement = 1
  AntiSnip = 1
  MaxExtension = 2
  Cooldown = 2
  Requests = {r1, r2}
  NoRequest = NoRequest
  Amounts = {1, 2}
  MaxBids = {3}
  AutoUsers = {u2}
  Quota = 3
  TTL = 2
SYMMETRY RequestSymmetry
INVARIANTS TypeOK BidLadder NoSelfOutbid DeadlineAccounted
PROPERTIES NoLostExtension KeepsLedger
