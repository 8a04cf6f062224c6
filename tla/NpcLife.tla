------------------------------ MODULE NpcLife ------------------------------
(***************************************************************************)
(* The life of the NPCs of the Tripple_Accent server: the EV_MOVE timers   *)
(* that keep an NPC going, the sleep it falls into when nobody is near and *)
(* the wake-up by who comes into sight, the player it is after, its        *)
(* EV_NPC_ATTACK timers, its death and its resurrection.                   *)
(*                                                                         *)
(* The module adds that state to Views: an action is an action of Views,   *)
(* or leaves those variables alone, together with what the same handler    *)
(* does to the NPCs.  What Views leaves open, which NPC moves, strikes or  *)
(* comes back when, is decided here by the timers.                         *)
(*                                                                         *)
(* Abstracted: the delay of a timer (a pending one may be next, whatever   *)
(* its time) and hit points (any hit may kill).  An EV_ATTACK that reaches *)
(* several NPCs is several steps, one per NPC of its loop.                 *)
(***************************************************************************)
EXTENDS Views

CONSTANTS
  Warlike,     \* the NPCs of type WAR; the others are PEACE
  Wanderer,    \* the NPCs with move_type YES_MOVE; the others stay
  Resident,    \* the NPCs with an id above 7650, whose EV_MOVE is ignored
  Region,      \* NPC -> the cells it may be placed in at boot
  MaxPending   \* bound: timers of a kind, or messages, pending for one NPC

ASSUME KindAssumption ==
  /\ Warlike \subseteq Npc /\ Wanderer \subseteq Npc
  /\ Resident \subseteq Npc \ (Warlike \cup Wanderer)

ASSUME RegionAssumption == Region \in [Npc -> SUBSET World]

ASSUME OutsideAssumption == DeadPos \notin World

ASSUME PendingAssumption == MaxPending \in Nat \ {0}

VARIABLES
  target_user_id,  \* NPC -> the slot it is after, or NoTarget
  is_sleeping,     \* NPC -> is it asleep
  moves,           \* NPC -> EV_MOVE timers pending
  strikes,         \* id -> EV_NPC_ATTACK timers pending
  strayed,         \* observer: the ids a player lent to a pending one of them
  revivals,        \* NPC -> EV_NPC_RESURRECTION timers pending
  detects          \* NPC, slot -> EV_PLAYER_MOVE_DETECT messages posted

mind == <<target_user_id, is_sleeping>>
timers == <<moves, strikes, strayed, revivals, detects>>
life_vars == <<vars, mind, timers>>

NoTarget == -1

\* A strike is set with the id of an NPC or, by EV_ATTACK, of a slot.  The
\* ids of NPCs, from 0, are numbers of slots as well.
StrikeId == Npc \cup Slot

LifeTypeOK ==
  /\ TypeOK
  /\ target_user_id \in [Npc -> Slot \cup {NoTarget}]
  /\ is_sleeping \in [Npc -> BOOLEAN]
  /\ moves \in [Npc -> Nat]
  /\ strikes \in [StrikeId -> 0 .. MaxPending]
  /\ strayed \subseteq StrikeId
  /\ revivals \in [Npc -> Nat]
  /\ detects \in [Npc \X Slot -> 0 .. MaxPending]

\* Initialize_NPC: everybody sleeps, yet those that wander have a timer.
LifeInit ==
  /\ Init
  /\ \A n \in Npc : npc_pos[n] \in Region[n]
  /\ target_user_id = [n \in Npc |-> NoTarget]
  /\ is_sleeping = [n \in Npc |-> TRUE]
  /\ moves = [n \in Npc |-> IF n \in Wanderer THEN 1 ELSE 0]
  /\ strikes = [k \in StrikeId |-> 0]
  /\ strayed = {}
  /\ revivals = [n \in Npc |-> 0]
  /\ detects = [k \in Npc \X Slot |-> 0]

(***************************************************************************)
(* What the players do.                                                    *)
(***************************************************************************)
\* Faulty variant of the next definition: is_sleeping is not tested.
WokenAnyway(N) ==
  /\ is_sleeping' = [n \in Npc |-> is_sleeping[n] /\ n \notin N]
  /\ moves' = [n \in Npc |-> IF n \in N THEN moves[n] + 1 ELSE moves[n]]

\* wakeup_NPC for each of N: one that sleeps wakes and gets a timer.
Woken(N) ==
  /\ is_sleeping' = [n \in Npc |-> is_sleeping[n] /\ n \notin N]
  /\ moves' = [n \in Npc |->
                 IF n \in N /\ is_sleeping[n] THEN moves[n] + 1 ELSE moves[n]]

Undisturbed == UNCHANGED <<target_user_id, strikes, strayed, revivals, detects>>

\* Connections, the CCU test: no NPC takes notice.
Unnoticed(A) == A /\ UNCHANGED <<mind, timers>>

LifeAccept == Unnoticed(Accept)

LifeDisconnect(s) == Unnoticed(Disconnect(s))

LifeCcuTest(s, p) == Unnoticed(CcuTest(s, p))

LifeLogin(s, p) == Login(s, p) /\ Woken(NpcsAround(p)) /\ Undisturbed

LifeHotspotTest(s) == HotspotTest(s) /\ Woken(HotspotNpcs(s)) /\ Undisturbed

LifeResurrection(s, h) ==
  /\ Resurrection(s, h)
  /\ Woken(IF in_use[s] THEN NpcsAround(h) ELSE {})
  /\ Undisturbed

\* CS_MOVE wakes the NPCs that are new in the list and posts a message to
\* all that are in sight.
LifeMove(s, d) ==
  LET seen == LiveNpcsAround(Stepped(pos[s], d))
  IN  /\ Move(s, d)
      /\ \A n \in seen : detects[<<n, s>>] < MaxPending
      /\ Woken(seen \ npc_view_list[s])
      /\ detects' = [k \in Npc \X Slot |->
                       IF k[1] \in seen /\ k[2] = s THEN detects[k] + 1 ELSE detects[k]]
      /\ UNCHANGED <<target_user_id, strikes, strayed, revivals>>

\* EV_ATTACK, a blow that n survives.  If n was after nobody it is now after
\* s; a peaceful or stationary one is to strike back.  The timer is set with
\* the id of the player, so it is the NPC of that number that will strike.
Hit(s, n) ==
  LET provoked == target_user_id[n] = NoTarget
      counters == provoked /\ (n \notin Wanderer \/ n \notin Warlike)
  IN  /\ n \in npc_view_list[s]
      /\ is_near_npc(pos[s], npc_pos[n])
      /\ provoked
      /\ target_user_id' = [target_user_id EXCEPT ![n] = s]
      /\ IF counters
           THEN /\ strikes[s] < MaxPending
                /\ strikes' = [strikes EXCEPT ![s] = @ + 1]
                /\ strayed' = strayed \cup {s}
           ELSE UNCHANGED <<strikes, strayed>>
      /\ UNCHANGED <<vars, is_sleeping, moves, revivals, detects>>

\* Faulty variant of the next definition: the dead are not put to sleep.
StillAwake(n) == UNCHANGED is_sleeping

LaidToSleep(n) == is_sleeping' = [is_sleeping EXCEPT ![n] = TRUE]

\* Faulty variant of the next definition: the timer is forgotten.
RevivalForgotten(n) == UNCHANGED revivals

RevivalSet(n) == revivals' = [revivals EXCEPT ![n] = @ + 1]

\* EV_ATTACK, the blow that kills n.
LifeKill(s, n) ==
  /\ KillNpc(s, n)
  /\ LaidToSleep(n)
  /\ target_user_id' = [target_user_id EXCEPT ![n] = NoTarget]
  /\ RevivalSet(n)
  /\ UNCHANGED <<moves, strikes, strayed, detects>>

(***************************************************************************)
(* EV_MOVE.  A chain of timers goes on as long as the handler sets the     *)
(* next one.                                                               *)
(***************************************************************************)
\* Faulty variant of the next definition: in_use is not looked at.
AnybodyNear(n) == \E i \in Slot : is_npc_eyesight(pos[i], npc_pos[n])

SomebodyNear(n) ==
  \E i \in Slot : in_use[i] /\ is_npc_eyesight(pos[i], npc_pos[n])

\* Is the player n is after, or who was in that slot, within a cell?
InReach(n) ==
  /\ target_user_id[n] # NoTarget
  /\ is_near_npc(pos[target_user_id[n]], npc_pos[n])

Due(n) == moves[n] > 0

Active(n) == n \notin Resident /\ ~ is_die[n]

Attacking(n) == Active(n) /\ n \in Warlike /\ InReach(n)

\* Faulty variant of the next definition: only those after somebody step.
Chasing(n) ==
  /\ Active(n) /\ ~ Attacking(n) /\ SomebodyNear(n)
  /\ n \in Warlike /\ target_user_id[n] # NoTarget

Strolling(n) ==
  /\ Active(n) /\ ~ Attacking(n) /\ SomebodyNear(n)
  /\ n \in Wanderer \/ (n \in Warlike /\ target_user_id[n] # NoTarget)

ChainEnds(n) == moves' = [moves EXCEPT ![n] = @ - 1]

\* The player is next to it: strike in a second, and look again.
MoveStrike(n) ==
  /\ Due(n) /\ Attacking(n)
  /\ strikes[n] < MaxPending
  /\ strikes' = [strikes EXCEPT ![n] = @ + 1]
  /\ UNCHANGED <<vars, mind, moves, strayed, revivals, detects>>

\* A step, and the next timer.
MoveStroll(n, d) ==
  /\ Due(n) /\ Strolling(n)
  /\ random_move_NPC(n, d)
  /\ UNCHANGED <<mind, timers>>

\* Nobody is near: sleep.
MoveSleep(n) ==
  /\ Due(n) /\ Active(n) /\ ~ Attacking(n) /\ ~ SomebodyNear(n)
  /\ LaidToSleep(n)
  /\ ChainEnds(n)
  /\ UNCHANGED <<vars, target_user_id, strikes, strayed, revivals, detects>>

\* Dead, a resident, or somebody is near but it neither wanders nor is
\* after anybody: the chain ends and the NPC stays as it is.
MoveNothing(n) ==
  /\ Due(n)
  /\ ~ Active(n) \/ (~ Attacking(n) /\ ~ Strolling(n) /\ SomebodyNear(n))
  /\ ChainEnds(n)
  /\ UNCHANGED <<vars, mind, strikes, strayed, revivals, detects>>

EvMove(n) ==
  \/ MoveStrike(n)
  \/ \E d \in 0 .. 3 : MoveStroll(n, d)
  \/ MoveSleep(n)
  \/ MoveNothing(n)

(***************************************************************************)
(* The other events.                                                       *)
(***************************************************************************)
\* EV_PLAYER_MOVE_DETECT
Detect(n, s) ==
  /\ detects[<<n, s>>] > 0
  /\ detects' = [detects EXCEPT ![<<n, s>>] = @ - 1]
  /\ target_user_id' =
       [target_user_id EXCEPT ![n] = IF n \in Warlike /\ @ = NoTarget THEN s ELSE @]
  /\ UNCHANGED <<vars, is_sleeping, moves, strikes, strayed, revivals>>

Struck(k) ==
  /\ strikes[k] > 0
  /\ strikes' = [strikes EXCEPT ![k] = @ - 1]
  /\ strayed' = IF strikes'[k] = 0 THEN strayed \ {k} ELSE strayed
  /\ UNCHANGED <<mind, moves, revivals, detects>>

\* EV_NPC_ATTACK without a death: the target is a dummy, out of reach or
\* survives, the NPC is dead or asleep; or the worker is lost on the closed
\* socket of a free slot; or, for an id that is no NPC or an NPC that is
\* after nobody, memory outside of npcs[] or clients[] is read.
StrikeBlank(k) == Struck(k) /\ UNCHANGED vars

\* EV_NPC_ATTACK, the blow that kills the player.
StrikeDeath(k) ==
  /\ k \in Npc
  /\ Struck(k)
  /\ ~ is_die[k] /\ ~ is_sleeping[k] /\ InReach(k)
  /\ Death(target_user_id[k])

Strike(k) == StrikeBlank(k) \/ StrikeDeath(k)

\* Faulty variant of the next definition: back where it may be at boot.
Respawned(n) ==
  /\ npc_pos' \in {[npc_pos EXCEPT ![n] = p] : p \in Region[n]}
  /\ is_die' = [is_die EXCEPT ![n] = FALSE]
  /\ UNCHANGED <<player_vars, npc_view_list, npc_screen>>

\* monster_ai.lua does not compile, so load_npc_info does nothing: the flag
\* is all that changes.
Resurrected(n) ==
  /\ is_die' = [is_die EXCEPT ![n] = FALSE]
  /\ UNCHANGED <<player_vars, npc_view_list, npc_screen, npc_pos>>

\* EV_NPC_RESURRECTION
Revive(n) ==
  /\ revivals[n] > 0
  /\ revivals' = [revivals EXCEPT ![n] = @ - 1]
  /\ Resurrected(n)
  /\ LaidToSleep(n)
  /\ target_user_id' = [target_user_id EXCEPT ![n] = NoTarget]
  /\ UNCHANGED <<moves, strikes, strayed, detects>>

-----------------------------------------------------------------------------

LifeNext ==
  \/ LifeAccept
  \/ \E s \in Slot :
       \/ LifeDisconnect(s)
       \/ \E p \in World : LifeLogin(s, p)
       \/ \E d \in 0 .. 4 : LifeMove(s, d)
       \/ \E p \in World : LifeCcuTest(s, p)
       \/ LifeHotspotTest(s)
       \/ \E h \in Home : LifeResurrection(s, h)
       \/ \E n \in Npc : Hit(s, n) \/ LifeKill(s, n)
  \/ \E n \in Npc :
       \/ EvMove(n)
       \/ \E s \in Slot : Detect(n, s)
       \/ Revive(n)
  \/ \E k \in StrikeId : Strike(k)

\* The timer thread posts what is due and the workers take what is posted.
Fairness == \A n \in Npc : WF_life_vars(EvMove(n)) /\ WF_life_vars(Revive(n))

LifeSpec == LifeInit /\ [][LifeNext]_life_vars /\ Fairness
=============================================================================
