SPECIFICATION Spec
CONSTANTS
  N_IPS = 1024
  PAGE_SIZE = 256
  TB_MAX_INSNS = 64
  Mapped <- LongMapped
  Codes <- LongCodes
  Profiles <- LongProfiles
INVARIANTS MarksFit
