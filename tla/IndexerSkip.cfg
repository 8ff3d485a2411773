SPECIFICATION Spec
CONSTANTS
  Tags = {t1}
  Profane = {}
  Keys = {k1, k2}
  Missing = Missing
  None = None
  Main = Main
  Crons = {c1}
  MaxSlot = 3
  MaxFaults = 0
PROPERTY SkippedOnlyIfStale
