SPECIFICATION FairSpec
CONSTANTS
  Clients = {c1, c2, c3}
  MAX_CALLS = 2
  NoThread = NoThread
INVARIANTS FrameAlive NoLostWakeup
PROPERTIES Synchronous CallsReturn WorkerExits
