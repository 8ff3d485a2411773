SPECIFICATION Spec
CONSTANTS
  alice = alice
  devfreeguy = devfreeguy
  Tags <- MCTags
  BadTags <- MCBadTags
  Example = devfreeguy
  Empty = ""
  MaxRequests = 3
  MaxTimers = 2
  Groups <- MCGroups
  MaxCharts = 4
  None = None
INVARIANTS PlaygroundSettles MenuFollowsPointer DiagramIsNewest
CHECK_DEADLOCK FALSE
