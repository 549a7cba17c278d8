SPECIFICATION RoomSpec
CONSTANTS
  Users = {u1}
  NoUser = NoUser
  Seller = seller
  AuctionType = "LONG"
  StartAt = 0
  EndAt = 2
  MinIncrement = 1
  AntiSnip = 1
  MaxExtension = 1
  Cooldown = 1
  Requests = {r1, r2}
  NoRequest = NoRequest
  Amounts = {1, 2}
  MaxBids = {3}
  AutoUsers = {}
  Quota = 3
  TTL = 2
  Controls = {c1, c2}
SYMMETRY CallSymmetry
INVARIANTS WinnerRecorded WinnerOnlyWhenEnded
