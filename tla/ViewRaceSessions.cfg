SPECIFICATION Spec
CONSTANTS
  MAX_USER = 2
  Npc <- MCNoNpc
  WORLD_WIDTH = 3
  WORLD_HEIGHT = 1
  VIEW_RADIUS = 2
  NPC_VIEW_RADIUS = 2
  Home <- MCHome
  Hotspot <- MCHotspot
  MaxRevive = 1
  Worker = {w1}
  Acceptor = acceptor
  Serial = TRUE
  Handlers <- SessionHandlers
PROPERTIES KeepsContract
CHECK_DEADLOCK FALSE
