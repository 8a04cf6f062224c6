------------------------------ MODULE Geometry ------------------------------
(* The map of the Tripple_Accent server: cells, steps, and who is in sight. *)
EXTENDS Integers

CONSTANTS
  WORLD_WIDTH, WORLD_HEIGHT,
  VIEW_RADIUS,      \* how far a player sees
  NPC_VIEW_RADIUS   \* how near a player must be to keep an NPC awake

ASSUME WorldAssumption ==
  /\ WORLD_WIDTH \in Nat \ {0} /\ WORLD_HEIGHT \in Nat \ {0}
  /\ VIEW_RADIUS \in Nat /\ NPC_VIEW_RADIUS \in Nat

World == (0 .. WORLD_WIDTH - 1) \X (0 .. WORLD_HEIGHT - 1)

\* A killed NPC is parked outside the world.
DeadPos == <<500, 500>>

Within(p, q, r) ==
  (p[1] - q[1]) * (p[1] - q[1]) + (p[2] - q[2]) * (p[2] - q[2]) < r * r

is_eyesight(p, q) == Within(p, q, VIEW_RADIUS)

is_npc_eyesight(p, q) == Within(p, q, NPC_VIEW_RADIUS)

\* within one cell
is_near_npc(p, q) ==
  (p[1] - q[1]) * (p[1] - q[1]) + (p[2] - q[2]) * (p[2] - q[2]) <= 1

\* 300 x 300 cells, 10 and 13 cells of sight: nobody is in sight of (500, 500).
ASSUME DeadPosAssumption ==
  \A p \in World : ~ is_eyesight(p, DeadPos) /\ ~ is_npc_eyesight(p, DeadPos)

\* Faulty variant of the next definition: the edges do not stop a step.
Unclamped(p, d) ==
  CASE d = 0 -> <<p[1], p[2] - 1>>
    [] d = 1 -> <<p[1], p[2] + 1>>
    [] d = 2 -> <<p[1] - 1, p[2]>>
    [] d = 3 -> <<p[1] + 1, p[2]>>
    [] OTHER -> p

\* process_packet's and random_move_NPC's clamped step.
Stepped(p, d) ==
  CASE d = 0 -> IF p[2] > 0 THEN <<p[1], p[2] - 1>> ELSE p
    [] d = 1 -> IF p[2] < WORLD_HEIGHT - 1 THEN <<p[1], p[2] + 1>> ELSE p
    [] d = 2 -> IF p[1] > 0 THEN <<p[1] - 1, p[2]>> ELSE p
    [] d = 3 -> IF p[1] < WORLD_WIDTH - 1 THEN <<p[1] + 1, p[2]>> ELSE p
    [] OTHER -> p
=============================================================================
