SPECIFICATION FairSpec
CONSTANTS
  Procs = {p1, p2}
  MAX_RUNS = 3
  MAX_PAGES = 2
  Sessions <- MCSessions
INVARIANTS OneWriter ChecksumStored Durable OneEntryPerPage Exact ImageFinished
PROPERTIES Grows EveryProcessEnds
