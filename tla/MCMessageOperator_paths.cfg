SPECIFICATION Spec
CONSTANTS
  w1 = w1 w2 = w2 f1 = f1 f2 = f2 b1 = b1 bX = bX
  dlq = dlq other = other missing = missing app = app
  p1 = p1 p2 = p2 p3 = p3 id1 = id1 dead = dead again = again
  Threads = {w1}
  Binders = {b1, bX}
  KnownBinders = {b1}
  Factories = {f1, f2}
  NoFactory = NoFactory
  Payloads = {p1, p2, p3}
  Routes = {dead, again}
  MessageIds = {id1}
  NoMessageId = NoMessageId
  AmqpMessageId <- MCAmqpMessageId
  Unconvertible = {p3}
  QueueIds = {dlq, other, missing, app}
  ConfiguredQueues = {dlq, other, missing}
  QueueNames = {dlq, app, missing}
  BrokerQueues = {dlq, app}
  readName <- ThreeReadNames
  readBinderName <- TwoBinders
  republishTo <- MCRepublishTo
  Bindings <- ToApplication
  Arrivals <- Arriving
  Limits <- MCLimits
  Absent = Absent
  Ops = {"getMessages", "getQueueSize", "dropMessages", "ackCertainMessage", "republishMessage"}
  Failures = FALSE
  MaxMsgs = 2
INVARIANTS ListingIsPrefix IdleHoldsNothing
PROPERTIES DropAllEmptiesQueue
