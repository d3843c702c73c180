\* Ticks of five seconds; two products on a pool of one thread; start at
\* any tick of a minute.  MaxTime leaves room for two to three batches, and
\* MaxDelay for a query that outlasts its minute by three ticks.
CONSTANTS
  Universe = {btc, eth}
  PoolSize = 1
  Minute = 12
  Settle = 2
  Late = 10
  MaxTime = 52
  MaxJitter = 2
  MaxDelay = 3

SPECIFICATION Spec

INVARIANTS
  TypeOK
  OnlySettledBars
  DueAtSettleMark

PROPERTIES
  NoMinuteSkipped
  BarsInOrder
  EveryMinuteAsked

CHECK_DEADLOCK FALSE
