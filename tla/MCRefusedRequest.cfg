\* One universe and one signature that is cut; the books do not move.
CONSTANTS
  Products = {btc, eth}
  low = low
  high = high
  Quotes <- MCQuotes
  InitialBooks <- MCInitialBooks
  OrderIds = {}
  Absent = Absent
  NoTick = NoTick
  Capacity = 1
  MaxChanges = 0
  MaxUpdates = 1
  MaxErrors = 1

SPECIFICATION Spec

INVARIANT TracksSubscribedUniverse

CHECK_DEADLOCK FALSE
