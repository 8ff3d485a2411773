SPECIFICATION Spec
CONSTANTS
  a = a
  b = b
  fresh = fresh
  rude = rude
  Tags = {fresh, rude}
  Keys = {a, b}
  Missing = Missing
  BadKey = BadKey
  Profane = {rude}
  Reserved = {}
  Wishes <- MCWishes
  Balances <- MCBalances
  Requests = {r1, r2, r3}
  Rent = 3
  Fee = 2
  Exempt = 2
  Validity = 1
  MaxSlot = 3
INVARIANTS TypeOK RefusalsTrue
PROPERTIES AccountsObeyOwners LandsAsAsked NeverFreeAgain CoveredRegistrationsLand
SYMMETRY Symmetry
CHECK_DEADLOCK FALSE
