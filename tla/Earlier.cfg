SPECIFICATION Spec
CONSTANTS
  WORLD_WIDTH = 3
  WORLD_HEIGHT = 1
  VIEW_RADIUS = 1
  NPC_VIEW_RADIUS = 2
  MAX_USER = 1
  MAX_NPC = 1
  Start <- MCStart
  Workers = 2
  MaxPending = 1
  MaxSaves = 2
PROPERTIES UnseenOnlyByReuse Standstill SlotFreed
CHECK_DEADLOCK FALSE
