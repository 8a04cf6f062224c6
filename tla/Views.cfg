SPECIFICATION Spec
CONSTANTS
  MAX_USER = 2
  Npc <- MCNpc
  WORLD_WIDTH = 3
  WORLD_HEIGHT = 1
  VIEW_RADIUS = 2
  NPC_VIEW_RADIUS = 3
  Home <- MCHome
  Hotspot <- MCHotspot
  MaxRevive = 1
INVARIANTS Paired FreeSlotsClean ListedIsVisible DeadNpcUnlisted
PROPERTIES MoveHeals GhostsOnlyByDeath NpcGhostsOnlyByDeaths
