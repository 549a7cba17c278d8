SPECIFICATION Spec
CONSTANTS
  Users = {u1, u2}
  NoUser = NoUser
  Seller = seller
  AuctionType = "SEALED"
  StartAt = 0
  EndAt = 2
  MinIncrement = 0
  AntiSnip = 0
  MaxExtension = 0
  Cooldown = 0
  Requests = {r1, r2, r3}
  NoRequest = NoRequest
  Amounts = {1, 2}
  MaxBids = {3}
  AutoUsers = {}
  Quota = 3
  TTL = 2
SYMMETRY RequestSymmetry
INVARIANTS OneSealedBid LockExclusive
