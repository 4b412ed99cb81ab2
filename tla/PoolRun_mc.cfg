SPECIFICATION RunSpec
CONSTANTS
  w1 = w1  w2 = w2  g1 = g1
  Workers <- McWorkers
  Guests <- McGuests
  Threads <- McThreads
  Callers <- McThreads
  initial_count = 3
  MaxTasks = 2
  PoolSize = 2
INVARIANTS EpisodeInv Exclusive NothingLeft
PROPERTIES ImplementsBarrier CompleteOnReturn RunReturns
