SPECIFICATION Spec
CONSTANTS
  Procs = {p1, p2}
  MAX_RUNS = 2
  MAX_PAGES = 2
  Sessions <- MCSessions
INVARIANTS EndsWithoutProfile
