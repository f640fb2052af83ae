SPECIFICATION FairSpec
CONSTANTS
  N_IPS = 15
  PAGE_SIZE = 5
  TB_MAX_INSNS = 3
  Mapped = {5, 6, 7, 8, 9}
  Codes <- MCCodes
  Profiles <- MCProfiles
INVARIANTS DominatorsCorrect FrontierCorrect SingleEntry MinimalRegions
PROPERTIES Finishes
