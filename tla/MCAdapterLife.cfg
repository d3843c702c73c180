\* One update of the universe and two batches, so that the update can fall before,
\* into and between them; two refreshes of the products, each with another answer,
\* of which any may fail at any product.
CONSTANTS
  Products = {btc, eth}
  Capacity = 1
  MaxUpdates = 1
  MaxRefreshes = 2
  MaxBatches = 2
  MaxMessages = 1

SPECIFICATION Spec

INVARIANTS
  TypeOK
  ExitIsOrderly
  BatchCoversUniverse
  DetailsAreCurrent

PROPERTY FailureEndsProcess

CHECK_DEADLOCK FALSE
