\* The instance of MCBarsScheduler.cfg with no jitter and no delay: what
\* remains is the arithmetic of the first sleeps.
CONSTANTS
  Universe = {btc, eth}
  PoolSize = 1
  Minute = 12
  Settle = 2
  Late = 10
  MaxTime = 52
  MaxJitter = 0
  MaxDelay = 0

SPECIFICATION SafeSpec

INVARIANT WakesInNextMinute
