SPECIFICATION Spec
CONSTANTS
  PAGES = 11
  PAGE_SIZE = 2
  MIN_PAGE = 1
  LOW = 3
  STACK = 1
  Images <- MCImages
  HostPages = {3, 6}
  Lens = {2, 5}
  Brks <- MCBrks
  ArgLens <- MCArgLens
  Placed = {2, 7}
  Dirtied = {2}
CHECK_DEADLOCK FALSE
INVARIANTS SegmentsLoaded StackLaidOut HeapNotOffered
PROPERTIES NoClobber FailsOnlyWhenFull BrkZeroes MmapReturns
