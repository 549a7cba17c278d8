SPECIFICATION PublicSpec
CONSTANTS
  u1 = u1
  u2 = u2
  u3 = u3
  Users = {u1, u2, u3}
  NoUser = NoUser
  BestBid <- MCBids
  MaxRanks = {1, 2}
  DepositParts = 4
  Calls = {c1, c2}
  MaxCrashes = 1
  StartPrice = 2
  PublicCalls = {p1, p2, p3, p4}
  MaxNotices = 1
SYMMETRY PublicSymmetry
CONSTRAINT FewIncidents
CHECK_DEADLOCK FALSE
INVARIANTS SoldToPayer Settled
PROPERTIES NotOfferedAgain
