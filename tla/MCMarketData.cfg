\* Two products; two updates of the universe, so that a product can be dropped
\* and taken up again, and two changes of the books in between.
CONSTANTS
  Products = {btc, eth}
  low = low
  high = high
  Quotes <- MCQuotes
  InitialBooks <- MCInitialBooks
  OrderIds = {}
  Absent = Absent
  NoTick = NoTick
  Capacity = 1
  MaxChanges = 2
  MaxUpdates = 2
  MaxErrors = 1

SPECIFICATION Spec

INVARIANTS
  TypeOK
  TrackerCatchesUp
  SubscriptionFollowsUniverse

PROPERTIES
  TicksAreExact
  TrackerSettles

CHECK_DEADLOCK FALSE
