SPECIFICATION Spec
CONSTANTS
  v1 = v1 c1 = c1 c2 = c2 k1 = k1 k2 = k2 dlq1 = dlq1 dlq2 = dlq2
  p1 = p1 id1 = id1 dead = dead again = again
  Views = {v1}
  Calls = {c1, c2}
  QueueIds = {k1, k2}
  NoQueue = NoQueue
  QueueNames <- TwoKeys
  RowIds <- VirgilIds
  Sizes <- Counts
  Limit = 2
  Patient = TRUE
  Ordered = FALSE
  Faulty = TRUE
  Payloads = {p1}
  Routes = {dead, again}
  MessageIds = {id1}
  NoMessageId = NoMessageId
  AmqpMessageId <- SameId
  Unconvertible = {}
  readName <- MCReadName
  republishTo <- MCRepublishTo
  Arrivals <- Arriving
  Absent = Absent
  MaxMsgs = 2
INVARIANTS UITypeOK
PROPERTIES RemovesOnlyClicked UISpec
SYMMETRY Symmetry
