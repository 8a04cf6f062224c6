------------------------------- MODULE Chains -------------------------------
(***************************************************************************)
(* The EV_MOVE chain of one NPC that wanders, as the workers run it:       *)
(* NpcLife taken apart.  wakeup_NPC tests is_sleeping and clears it in two *)
(* steps; EV_MOVE looks at one client after the other and writes           *)
(* is_sleeping when it has seen all; nothing of this is under a lock.      *)
(*                                                                         *)
(* Abstracted: positions to how near a player is, as a player sees less    *)
(* far (VIEW_RADIUS) than it keeps an NPC awake (NPC_VIEW_RADIUS); the     *)
(* steps of changing a list (ViewRace has them); delays of timers; when it *)
(* strikes instead of strolling.  Deaths, the stress test and clients that *)
(* have not logged in are in NpcLife only.                                 *)
(***************************************************************************)
EXTENDS Integers, FiniteSets

CONSTANTS
  Players,   \* the clients are 1 .. Players, in the order of the loop
  Worker,
  MaxRaces   \* bound: no packets once so many chains came of a stale test

ASSUME ChainsAssumption ==
  /\ Players \in Nat \ {0} /\ MaxRaces \in Nat \ {0}
  /\ IsFiniteSet(Worker)

VARIABLES
  is_sleeping,
  moves,       \* EV_MOVE timers pending
  zone,        \* player -> Far, Near (keeps the NPC awake) or InSight (sees it)
  listed,      \* the players with the NPC in npc_view_list
  job,         \* worker -> where it is, in whose packet, at which client
  races,       \* observer: how often is_sleeping was cleared on a stale test
  excused      \* observer: whom the NPC may sleep in front of

vars == <<is_sleeping, moves, zone, listed, job, races, excused>>

Player == 1 .. Players

Far == 0
Near == 1
InSight == 2
Zone == {Far, Near, InSight}

Places == {"idle", "test", "clear", "push", "look", "doze", "stroll", "again"}

Idle == [at |-> "idle", who |-> 0, i |-> 0]

\* On the way to wakeup_NPC, in a packet of s or, for 0, another event; in
\* EV_MOVE at client i.
Waking(s) == [at |-> "test", who |-> s, i |-> 0]

Looking(i) == [at |-> "look", who |-> 0, i |-> i]

TypeOK ==
  /\ is_sleeping \in BOOLEAN
  /\ moves \in Nat /\ races \in Nat
  /\ zone \in [Player -> Zone]
  /\ listed \subseteq Player /\ excused \subseteq Player
  /\ job \in [Worker -> [at : Places, who : 0 .. Players, i : 0 .. Players]]

\* Initialize_NPC: asleep, and yet with a timer.
Init ==
  /\ is_sleeping = TRUE
  /\ moves = 1
  /\ zone = [s \in Player |-> Far]
  /\ listed = {}
  /\ job = [w \in Worker |-> Idle]
  /\ races = 0
  /\ excused = {}

Goto(w, place) == job' = [job EXCEPT ![w].at = place]

Finish(w) == job' = [job EXCEPT ![w] = Idle]

\* Some EV_MOVE has looked past s.
LookedPast(s) ==
  \E w \in Worker : job[w].at = "doze" \/ (job[w].at = "look" /\ job[w].i > s)

\* Who comes near, in the zones z, when it is too late for that EV_MOVE.
Late(z) == {s \in Player : zone[s] = Far /\ z[s] # Far /\ LookedPast(s)}

(***************************************************************************)
(* The packets of a player.                                                *)
(***************************************************************************)
\* w is free to take something of a player.
Free(w) == job[w].at = "idle" /\ races < MaxRaces

\* Faulty variant of the next definition: only who was far is new.
NewIfFar(s, z) == zone[s] = Far /\ z = InSight

\* CS_MOVE wakes whom it enters in the list.
NewInList(s, z) == s \notin listed /\ z = InSight

\* CS_MOVE: a cell further, and the list is exact again.  A player has one
\* receive at a time.
Walk(w, s, z) ==
  /\ Free(w)
  /\ \A v \in Worker : job[v].who # s
  /\ z - zone[s] \in {-1, 0, 1}
  /\ zone' = [zone EXCEPT ![s] = z]
  /\ listed' = IF z = InSight THEN listed \cup {s} ELSE listed \ {s}
  /\ excused' = IF z = Far THEN excused \ {s} ELSE excused \cup Late(zone')
  /\ job' = IF NewInList(s, z) THEN [job EXCEPT ![w] = Waking(s)] ELSE job
  /\ UNCHANGED <<is_sleeping, moves, races>>

\* CS_LOGIN, CS_HOTSPOT_TEST, EV_RESURRECTION: to any place, where all NPCs
\* are woken; the list keeps who was in it.
Jump(w, s, z) ==
  /\ Free(w)
  /\ zone' = [zone EXCEPT ![s] = z]
  /\ IF z = InSight
       THEN /\ listed' = listed \cup {s}
            /\ excused' = excused \cup Late(zone')
            /\ job' = [job EXCEPT ![w] = Waking(0)]
       ELSE /\ excused' = excused \cup Late(zone') \cup (listed \cap {s})
            /\ UNCHANGED <<listed, job>>
  /\ UNCHANGED <<is_sleeping, moves, races>>

\* disconnect_client
Leave(w, s) ==
  /\ Free(w)
  /\ zone' = [zone EXCEPT ![s] = Far]
  /\ listed' = listed \ {s}
  /\ excused' = excused \ {s}
  /\ UNCHANGED <<is_sleeping, moves, job, races>>

(***************************************************************************)
(* wakeup_NPC                                                              *)
(***************************************************************************)
Test(w) ==
  /\ job[w].at = "test"
  /\ IF is_sleeping THEN Goto(w, "clear") ELSE Finish(w)
  /\ UNCHANGED <<is_sleeping, moves, zone, listed, races, excused>>

Clear(w) ==
  /\ job[w].at = "clear"
  /\ is_sleeping' = FALSE
  /\ races' = IF is_sleeping THEN races ELSE races + 1
  /\ Goto(w, "push")
  /\ UNCHANGED <<moves, zone, listed, excused>>

Push(w) ==
  /\ job[w].at = "push"
  /\ moves' = moves + 1
  /\ Finish(w)
  /\ UNCHANGED <<is_sleeping, zone, listed, races, excused>>

(***************************************************************************)
(* EV_MOVE                                                                 *)
(***************************************************************************)
\* Next to the player it is after, if any, it strikes and just goes on.
Take(w) ==
  /\ job[w].at = "idle"
  /\ moves > 0
  /\ moves' = moves - 1
  /\ job' = [job EXCEPT ![w] = Looking(1)] \/ Goto(w, "again")
  /\ UNCHANGED <<is_sleeping, zone, listed, races, excused>>

\* Faulty variant of the next definition: it takes being seen to stay awake.
NearInSight(s) == zone[s] = InSight

\* is_npc_eyesight
IsNear(s) == zone[s] # Far

MoreClients(i) == i < Players

Look(w) ==
  /\ job[w].at = "look"
  /\ IF IsNear(job[w].i) THEN Goto(w, "stroll")
     ELSE IF MoreClients(job[w].i) THEN job' = [job EXCEPT ![w].i = @ + 1]
     ELSE Goto(w, "doze")
  /\ UNCHANGED <<is_sleeping, moves, zone, listed, races, excused>>

Doze(w) ==
  /\ job[w].at = "doze"
  /\ is_sleeping' = TRUE
  /\ Finish(w)
  /\ UNCHANGED <<moves, zone, listed, races, excused>>

\* random_move_NPC enters who sees the NPC now, and erases who did before.
ListedAfter(z) ==
  {s \in Player : z[s] = InSight \/ (s \in listed /\ zone[s] # InSight)}

\* random_move_NPC, a cell.
Stroll(w) ==
  /\ job[w].at = "stroll"
  /\ zone' \in {z \in [Player -> Zone] : \A s \in Player : z[s] - zone[s] \in {-1, 0, 1}}
  /\ listed' = ListedAfter(zone')
  /\ excused' = excused \cup Late(zone')
  /\ Goto(w, "again")
  /\ UNCHANGED <<is_sleeping, moves, races>>

\* Faulty variant of the next definition: the next timer is forgotten.
NotAgain == moves

\* add_timer
Again == moves + 1

StrollOn(w) ==
  /\ job[w].at = "again"
  /\ moves' = Again
  /\ Finish(w)
  /\ UNCHANGED <<is_sleeping, zone, listed, races, excused>>

-----------------------------------------------------------------------------

Proceed(w) ==
  \/ Test(w) \/ Clear(w) \/ Push(w)
  \/ Look(w) \/ Doze(w) \/ Stroll(w) \/ StrollOn(w)

Next ==
  \E w \in Worker :
    \/ \E s \in Player :
         \/ \E z \in Zone : Walk(w, s, z) \/ Jump(w, s, z)
         \/ Leave(w, s)
    \/ Take(w)
    \/ Proceed(w)

\* Workers are threads that go on.  A timer that is due is posted to the
\* completion port, which hands out completions in the order of posting:
\* packets may come in between, but not for ever.
Fairness ==
  /\ \A w \in Worker : WF_vars(Proceed(w))
  /\ SF_vars(\E w \in Worker : Take(w))

Spec == Init /\ [][Next]_vars /\ Fairness
=============================================================================
