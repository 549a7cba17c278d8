SPECIFICATION FairSpec
CONSTANTS
  Users = {u1, u2}
  NoUser = NoUser
  Seller = seller
  AuctionType = "LONG"
  StartAt = 0
  EndAt = 2
  MinIncrement = 1
  AntiSnip = 1
  MaxExtension = 0
  Cooldown = 2
  Requests = {r1}
  NoRequest = NoRequest
  Amounts = {1}
  MaxBids = {2, 3}
  AutoUsers = {u1, u2}
  Quota = 3
  TTL = 1
INVARIANTS CooldownKept
PROPERTIES LockFreed CallsEnd
