SPECIFICATION Spec
CONSTANTS
  w1 = w1  w2 = w2  g1 = g1  g2 = g2
  Workers <- McWorkers
  Guests <- McGuests
  Threads <- McThreads
  initial_count = 3
  MaxTasks = 3
INVARIANT NoDanglingTask
PROPERTIES ImplementsPool EveryCallReturns
