---------------------------- MODULE NpcLifeProps ----------------------------
(* What the timers, the sleep and the targets of the NPCs promise. *)
EXTENDS NpcLife

Parked(n) == npc_pos[n] = DeadPos

Number(b) == IF b THEN 1 ELSE 0

(* Two EV_MOVE chains of one NPC would move it twice as fast for ever.     *)
(* wakeup_NPC starts one for an NPC that is asleep, so sleep counts as a   *)
(* chain to come: there is one, and one more only for those that wander,   *)
(* whose boot timer of Initialize_NPC does not wake them: a wake-up in the *)
(* first second starts the second chain, which ends with the next sleep.   *)
ChainBound ==
  \A n \in Npc :
    moves[n] + Number(is_sleeping[n] /\ ~ Parked(n)) <= 1 + Number(n \in Wanderer)

(* An NPC that wanders and is awake has an EV_MOVE timer.  One that was    *)
(* awake without a timer would never move again: wakeup_NPC helps only     *)
(* those that sleep.  (It holds for nobody else: a stationary NPC awake    *)
(* and after nobody is left without one by process_event.)                 *)
AwakeMoves == \A n \in Wanderer : ~ is_sleeping[n] => moves[n] > 0

(* A dead NPC has exactly one resurrection under way and a living one      *)
(* none: nobody kills it twice, although EV_ATTACK does not look at        *)
(* is_die, and none is forgotten.                                          *)
RevivalOwed == \A n \in Npc : revivals[n] = Number(is_die[n])

(* EV_NPC_ATTACK indexes clients[] with target_user_id before it tests     *)
(* anything.  Whoever strikes is of type WAR and, past the tests, after    *)
(* somebody: a death takes the target away while strikes are pending, and  *)
(* sleep has to cover the NPC until they are over, its resurrection        *)
(* included.  The exception: a timer EV_ATTACK sets when a player provokes *)
(* an NPC carries the player's id, and the NPC of that number strikes,     *)
(* peaceful or not, at clients[-1] if it is after nobody.                  *)
StrikesAimed ==
  \A n \in Npc \ strayed :
    strikes[n] > 0 =>
      /\ n \in Warlike
      /\ ~ is_die[n] /\ ~ is_sleeping[n] => target_user_id[n] # NoTarget

-----------------------------------------------------------------------------

(* A killed NPC does not come back to the map: its resurrection leaves it  *)
(* at (500, 500), where nobody comes near enough to wake or to move it.    *)
(* (A step of the NPC that another worker was in the middle of when it     *)
(* died does bring it back, see Combat.)                                   *)
ParkedStep == \A n \in Npc : Parked(n) => Parked(n)'

ParkedForGood == [][ParkedStep]_life_vars

(* No registered player is near n, nor is the one it is after in reach.    *)
Deserted(n) ==
  /\ \A i \in Slot : in_use[i] => ~ is_npc_eyesight(pos[i], npc_pos[n])
  /\ ~ InReach(n)

(* An NPC that wanders and is left alone falls asleep and stays asleep.    *)
(* InReach does not ask whether the slot is in use: an NPC whose target    *)
(* logged out next to it goes on striking at the free slot.                *)
FallsAsleep ==
  \A n \in Wanderer : <>[]Deserted(n) => <>[]is_sleeping[n]
=============================================================================
