SPECIFICATION FairSpec
CONSTANTS
  N_IPS = 16
  PAGE_SIZE = 4
  TB_MAX_INSNS = 2
  Mapped <- MCMapped
  Boots <- MCBoots
  L1_SIZE = 3
  TB_POOL = 12
  CODE_POOL = 8
INVARIANTS MapCoherence L1Coherence LinkCoherence ExecuteAssert
PROPERTIES EntriesMarked RunsGuest Responsive
