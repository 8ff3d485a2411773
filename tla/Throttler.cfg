SPECIFICATION Spec
CONSTANTS
  Ttl = 3
  BlockDuration = 3
  Limit = 2
  Empty = Empty
  MaxTime = 12
  MaxFaults = 1
INVARIANT TypeOK
INVARIANT BurstIsBounded
INVARIANT BlockHolds
INVARIANT RefusalIsEarned
INVARIANT IInv
