SPECIFICATION Spec
CONSTANTS
  Tags = {t1, t2}
  Profane = {t2}
  Keys = {k1}
  Missing = Missing
  None = None
  Main = Main
  Crons = {c1}
  MaxSlot = 3
  MaxFaults = 1
SYMMETRY KeySymmetry
INVARIANT SweepsCover
INVARIANT CursorBacked
INVARIANT IInv
PROPERTY MirrorSpec
