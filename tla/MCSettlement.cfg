SPECIFICATION SettleFairSpec
CONSTANTS
  u1 = u1
  u2 = u2
  u3 = u3
  Users = {u1, u2, u3}
  NoUser = NoUser
  BestBid <- MCBids
  MaxRanks = {2, 3}
  DepositParts = 4
  Calls = {c1, c2, c3}
  MaxCrashes = 1
INVARIANTS WinnerLadder OnlyWinnersPay DepositsReturned
PROPERTIES NoComeback DeclinerReplaced
CHECK_DEADLOCK FALSE
