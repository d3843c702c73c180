\* The main thread and a failed thread in onExit, two orders of which one is of
\* the product that is cancelled; calls enough for two orders.
CONSTANTS
  Threads = {main, exiting}
  Shared = Shared
  OrderIds = {order1, order2}
  OfProduct = {order1}
  None = None
  MaxCalls = 2
  MaxErrors = 1

SPECIFICATION Spec

INVARIANTS
  TypeOK
  OutcomeIsTrue
  IsolatedIsTrue
  ConnectionInStep
  ClientIdsDistinct

PROPERTY CallsReturn

CHECK_DEADLOCK FALSE
