\* Three producers and a capacity of two, so that a producer can overtake a
\* woken one and two can sleep at once.
CONSTANTS
  Producers = {stream, pool1, pool2}
  Consumers = {main}
  Events = {bar, tick}
  NoEvent = NoEvent
  NoThread = NoThread
  Capacity = 2
  MaxSpurious = 2

SPECIFICATION Spec

INVARIANTS
  TypeOK
  MutualExclusion
  WithinCapacity
  WakeupCredit
  NoLostWakeup

PROPERTIES
  ImplementsFifo
  FifoProgress
