\* The instance of MCTradingSession.cfg without messages that do not parse.
CONSTANTS
  Products = {btc}
  Quotes = {}
  OrderIds = {order1, order2, other}
  Absent = Absent
  NoTick = NoTick
  Capacity = 2
  MyOrders = {order1, order2}
  Other = other
  Size = 2
  MaxSessions = 2
  MaxCalls = 3
  MaxFeed = 2
  MaxErrors = 0

SPECIFICATION Spec

INVARIANT TransactionIsMine

CHECK_DEADLOCK FALSE
