CONSTANTS
  gui = gui
  cli = cli
  tick = tick
  Faces = {gui, cli, tick}
  TickFaces = {tick}
  NoFace = NoFace
  PAGE = 1
  MaxBatch = 2
  MaxId = 3
  MaxCrash = 1
SPECIFICATION FairSpec
INVARIANTS
  NoGap
  ReclaimedIffCarried
PROPERTIES
  RefinesLog
  EveryEventIsWalked
CHECK_DEADLOCK FALSE
