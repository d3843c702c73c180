\* One batch over the universe that onStart has set.
CONSTANTS
  Products = {btc, eth}
  Capacity = 1
  MaxUpdates = 1
  MaxRefreshes = 0
  MaxBatches = 1
  MaxMessages = 0

SPECIFICATION Spec

INVARIANT QueryFailureIsHandled

CHECK_DEADLOCK FALSE
