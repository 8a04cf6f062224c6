SPECIFICATION LifeSpec
CONSTANTS
  MAX_USER = 1
  Npc <- MCNpc
  WORLD_WIDTH = 3
  WORLD_HEIGHT = 1
  VIEW_RADIUS = 1
  NPC_VIEW_RADIUS = 2
  Home <- MCHome
  Hotspot <- MCHotspot
  MaxRevive = 1
  Warlike <- MCWarlike
  Wanderer <- MCWanderer
  Resident <- MCResident
  Region <- MCRegion
  MaxPending = 1
INVARIANTS LifeTypeOK ChainBound AwakeMoves RevivalOwed StrikesAimed
PROPERTIES ParkedForGood FallsAsleep
CHECK_DEADLOCK FALSE
