SPECIFICATION WalletSpec
CONSTANTS
  Users = {u1, u2}
  NoUser = NoUser
  Winner = u2
  Calls = {c1, c2, c3}
  Job = job
  Amounts = {2, 4}
  Deposits = {2, 3}
  Unit = 2
  MaxJobs = 2
SYMMETRY CallSymmetry
INVARIANTS MainCovered BooksBalance NeverLockedOut
CHECK_DEADLOCK FALSE
