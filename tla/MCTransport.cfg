CONSTANTS
  c1 = c1 c2 = c2 c3 = c3 w1 = w1 w2 = w2 None = None
  Calls <- MCCalls
  Silent <- MCSilent
  Workers <- MCWorkers
  MaxSequence = 2
  MaxRetransmits = 0
  CacheSize = 2
  MaxReplays = 0
  ReaderPreempted = TRUE
SPECIFICATION MCSpec
SYMMETRY MCSymmetry
INVARIANTS OwnResponse InflightHasWorker NoConcurrentExecution OrderlyAtMostOnce
