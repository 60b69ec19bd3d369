SPECIFICATION Spec
CONSTANTS
  w1 = w1 w2 = w2 f1 = f1 f2 = f2 b1 = b1 bX = bX
  dlq = dlq other = other missing = missing app = app
  p1 = p1 p2 = p2 p3 = p3 id1 = id1 dead = dead again = again
  Threads = {w1}
  Binders = {b1}
  KnownBinders = {b1}
  Factories = {f1}
  NoFactory = NoFactory
  Payloads = {p2, p3}
  Routes = {dead, again}
  MessageIds = {id1}
  NoMessageId = NoMessageId
  AmqpMessageId <- MCAmqpMessageId
  Unconvertible = {}
  QueueIds = {dlq}
  ConfiguredQueues = {dlq}
  QueueNames = {dlq, app}
  BrokerQueues = {dlq, app}
  readName <- OneReadName
  readBinderName <- OneBinder
  republishTo <- MCRepublishTo
  Bindings <- ToApplication
  Arrivals <- Arriving
  Limits = {}
  Absent = Absent
  Ops = {"getQueueSize", "republishMessage"}
  Failures = FALSE
  MaxMsgs = 3
INVARIANTS RepublishesOne
