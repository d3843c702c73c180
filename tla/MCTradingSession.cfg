\* Two orders of two units, so that one can be filled in part as a taker and in
\* part as a maker while the other has just been placed; one restart; three
\* calls, so that an order can be placed before, between and after updates of
\* the universe.
CONSTANTS
  Products = {btc}
  Quotes = {}
  OrderIds = {order1, order2, other}
  Absent = Absent
  NoTick = NoTick
  Capacity = 2
  MyOrders = {order1, order2}
  Other = other
  Size = 2
  MaxSessions = 2
  MaxCalls = 3
  MaxFeed = 2
  MaxErrors = 1

SPECIFICATION Spec

INVARIANTS
  TypeOK
  FillsAddUp
  TracksLiveOrders

PROPERTIES
  OrdersGoForward
  DoneIsReported

CHECK_DEADLOCK FALSE
