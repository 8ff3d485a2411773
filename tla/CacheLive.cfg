SPECIFICATION FairSpec
CONSTANTS
  Tag = t1
  Keys = {k1}
  Names = {n1}
  NoName = NoName
  Missing = Missing
  Empty = Empty
  Negative = Negative
  Error = Error
  None = None
  Instances = {a1, a2}
  Requests = {r1, r2}
  Flows = {f1}
  Patches = {p1}
  MaxFaults = 1
  MaxChanges = 3
PROPERTY EventuallyAgrees
PROPERTY EveryRequestIsAnswered
