SPECIFICATION Spec
CONSTANTS
  N_IPS = 16
  PAGE_SIZE = 4
  TB_MAX_INSNS = 2
  Mapped <- MCMapped
  Boots <- LimitBoots
  L1_SIZE = 3
  TB_POOL = 3
  CODE_POOL = 2
INVARIANTS TypeOK
