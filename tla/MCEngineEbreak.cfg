SPECIFICATION Spec
CONSTANTS
  N_IPS = 16
  PAGE_SIZE = 4
  TB_MAX_INSNS = 2
  Mapped <- MCMapped
  Boots <- EbreakBoots
  L1_SIZE = 3
  TB_POOL = 8
  CODE_POOL = 8
INVARIANTS StopsAtEbreak
