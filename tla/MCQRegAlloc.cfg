SPECIFICATION Spec
CONSTANTS
  N_GPR = 2
  WORD = 8
  N_PREGS = 4
  FIXED = {0}
  CALL_CLOBBER = {1, 2}
  RCX = 1
  RSI = 2
  N_LOCALS = 3
  FRAME_SIZE = 3
  Insns <- CheckedInsns
INVARIANTS NoFail P2VCoherent ValuesKept Agrees PreciseState EdgesInMemory
