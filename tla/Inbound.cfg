SPECIFICATION FairInboundSpec
CONSTANTS
  Batches = {x1}
  BatchSize = 2
  Bindings = {b1, b2}
  MaxAttempts = 3
  MaxCrashes = 1
  DbMayFail = TRUE
CHECK_DEADLOCK FALSE
INVARIANTS
  InboundTypeOK
  BatchInOrder
  OwedIsAtWork
PROPERTIES
  ImplementsDelivery
  BatchHandled
  DeliveryEnds
