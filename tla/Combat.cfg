SPECIFICATION Spec
CONSTANTS
  p1 = p1
  n1 = n1
  n2 = n2
  w1 = w1
  w2 = w2
  Player = {p1}
  Npc = {n1, n2}
  Worker = {w1, w2}
  Kind <- MCKind
  Life <- MCLife
  Strength <- MCStrength
  Worth <- MCWorth
  Row <- MCRow
  Register <- MCRegister
  WORD = 8
  MAX_INT = 3
  HpUnit = 1
  ExpUnit = 1
  TopLevel = 2
  StressHp = 7
  MaxRevive = 1
  MaxRewards = 2
SYMMETRY MCSymmetry
INVARIANTS NoWrap RewardedOnce ExpAccounted ExpNotNegative AttackFitsLevel
CHECK_DEADLOCK FALSE
