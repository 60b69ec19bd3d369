SPECIFICATION Spec
CONSTANTS
  w1 = w1 w2 = w2 k1 = k1 k2 = k2 k3 = k3 kX = kX b1 = b1 b2 = b2 bX = bX x1 = x1 x2 = x2
  Threads = {w1, w2}
  QueueIds = {k1, k2, k3, kX}
  ConfiguredQueues = {k1, k2, k3}
  Binders = {b1, b2, bX}
  ConfiguredBinders = {b1, b2}
  Exchanges = {x1, x2}
  exchange <- MCExchange
  readBinderName <- MCReadBinderName
  republishBinderName <- MCRepublishBinderName
  Null = Null
SYMMETRY Symmetry
INVARIANTS TypeOK ExchangeIsOfReadBinder
