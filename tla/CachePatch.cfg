SPECIFICATION Spec
CONSTANTS
  Tag = t1
  Keys = {k1, k2}
  Names = {n1}
  NoName = NoName
  Missing = Missing
  Empty = Empty
  Negative = Negative
  Error = Error
  None = None
  Instances = {a1}
  Requests = {r1}
  Flows = {f1}
  Patches = {p1}
  MaxFaults = 0
  MaxChanges = 3
PROPERTY PatchedByOwner
