---------------------------- MODULE CombatProps ----------------------------
(* What the numbers of a fight promise as long as no two workers are busy  *)
(* with the same player or NPC.                                            *)
EXTENDS Combat

Untouched(s) == \A w \in Worker : job[w].player # s

\* Those for whose hit points nothing is promised: two workers met at them,
\* or they were struck with an undefined damage.
Abused == crossed \cup garbled

\* The hit points of an NPC only go down.
NpcUnwrapped == \A n \in Npc : HP[n] > Life[n] => n \in Abused

(* A blow never gives hit points.  HP is unsigned: of two workers that     *)
(* test HP - damage > 0 and then both subtract, the second may go below 0  *)
(* and leave the NPC, or the player, with almost 2^16.  It takes two       *)
(* workers at the same victim at once, or an effect that npc_kind_effect   *)
(* and kind_effect do not define, against the DRAGON.  (A player has more  *)
(* than its level gives as a stress-test dummy too, or when its level has  *)
(* wrapped.)                                                               *)
NoWrap ==
  /\ NpcUnwrapped
  /\ \A s \in Player :
       ~ is_dummy[s] /\ LEVEL[s] \in 1 .. TopLevel /\ HP[s] > FullHp(LEVEL[s])
         => s \in Abused \cup overflown

(* EV_ATTACK does not look at is_die: all that keeps an NPC from being     *)
(* killed and rewarded again is that the dead are off the map.  A second   *)
(* reward takes another worker that is busy with the NPC when it dies: one *)
(* that strikes it too, or one that is about to store its step.            *)
RewardedOnce == \A n \in Npc : credits[n] > 1 => n \in crossed

(* No experience is made or lost: what a player holds and what its levels  *)
(* cost is what it earned less what its deaths took, as long as no second  *)
(* worker is at it meanwhile and no int overflows: is_level_up computes    *)
(* 2^LEVEL * 100, which does from level 25 on.                             *)
ExpAccounted ==
  \A s \in Player \ (crossed \cup overflown) :
    Untouched(s) => EXP[s] + Cost(LEVEL[s]) = balance[s]

(* EXP never falls below 0, which is_level_up would never make up for.     *)
ExpNotNegative == \A s \in Player \ (crossed \cup overflown) : EXP[s] >= 0

(* ATTACK is what the level gives, by the unsigned short it is kept in: it *)
(* is 0 from level 16 on, and damage with it.                              *)
AttackFitsLevel ==
  \A s \in Player \ crossed : Untouched(s) => ATTACK[s] = 2 ^ LEVEL[s] % WORD
=============================================================================
