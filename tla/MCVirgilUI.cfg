SPECIFICATION UIFairSpec
CONSTANTS
  v1 = v1 c1 = c1 c2 = c2 c3 = c3 dlq1 = dlq1 dlq2 = dlq2 i1 = i1
  Views = {v1}
  Calls = {c1, c2, c3}
  QueueIds = {dlq1, dlq2}
  NoQueue = NoQueue
  QueueNames <- TwoQueues
  RowIds = {i1}
  Sizes = {0}
  Limit = 1
  Patient = FALSE
  Ordered = TRUE
  Faulty = FALSE
INVARIANTS SizeIsOfCurrentQueue
PROPERTIES EveryHandlerEnds SelectedSizeIsShown
