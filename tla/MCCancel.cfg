\* One order that is placed and cancelled.
CONSTANTS
  Threads = {main, exiting}
  Shared = Shared
  OrderIds = {order1, order2}
  OfProduct = {order1}
  None = None
  MaxCalls = 2
  MaxErrors = 1

SPECIFICATION Spec

PROPERTY CancellationReturns

CHECK_DEADLOCK FALSE
