CONSTANTS
  Threads = {t1, t2, t3}
  MaxCount = 2
  Initial = 0
SPECIFICATION Spec
INVARIANTS TypeOK NoLostWakeup
PROPERTIES ImplementsSemaphore TimedCallReturns
