SPECIFICATION Spec
CONSTANTS
  N_IPS = 16
  PAGE_SIZE = 4
  TB_MAX_INSNS = 2
  Mapped <- MCMapped
  Boots <- LlvmBoots
  L1_SIZE = 3
  TB_POOL = 12
  CODE_POOL = 8
PROPERTIES CrossPageTargetsMarked
