SPECIFICATION Spec
CONSTANTS
  MAX_USER = 2
  Npc <- MCNpc
  WORLD_WIDTH = 2
  WORLD_HEIGHT = 1
  VIEW_RADIUS = 1
  NPC_VIEW_RADIUS = 2
  Home <- MCHome
  Hotspot <- MCHotspot
  MaxRevive = 1
  Worker = {w1}
  Acceptor = acceptor
  Serial = TRUE
  Handlers <- CombatHandlers
PROPERTIES KeepsContract
CHECK_DEADLOCK FALSE
