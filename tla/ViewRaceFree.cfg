SPECIFICATION Spec
CONSTANTS
  MAX_USER = 2
  Npc <- MCNoNpc
  WORLD_WIDTH = 2
  WORLD_HEIGHT = 1
  VIEW_RADIUS = 1
  NPC_VIEW_RADIUS = 2
  Home <- MCHome
  Hotspot <- MCHotspot
  MaxRevive = 1
  Worker = {w1, w2}
  Acceptor = acceptor
  Serial = FALSE
  Handlers <- RaceHandlers
INVARIANTS LoneMoveHeals LoneDisconnectClears NobodyStalls
CHECK_DEADLOCK FALSE
SYMMETRY WorkerSymmetry
