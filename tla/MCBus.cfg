\* Starter, the goroutine of Run, and two loops of the adapter.
SPECIFICATION FairSpec

CONSTANTS
  start = start
  loop1 = loop1
  loop2 = loop2
  Publishers <- MCPublishers
  Starter = start
  Buffers <- MCBuffers
  MaxSeq = 6

\* Nothing is left to do once Run has returned and no loop publishes.
CHECK_DEADLOCK FALSE

INVARIANTS
  SeqIdentifies
  PanicOnlyAtShutdown

PROPERTIES
  EveryPublishReturns
  ImplementsFeed
