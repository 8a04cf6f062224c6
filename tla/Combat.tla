------------------------------- MODULE Combat -------------------------------
(***************************************************************************)
(* The numbers of a fight on the Tripple_Accent server: hit points, damage,*)
(* experience and levels, which the workers read and write without a lock. *)
(*                                                                         *)
(* A worker runs EV_ATTACK (a player strikes at the NPCs of its list one   *)
(* after the other), EV_NPC_ATTACK, EV_RESURRECTION, a stress test or, of  *)
(* EV_MOVE, the step by which an NPC changes its place.  A test and the    *)
(* change it guards are two steps, and `x -= d' is a load and a store: two *)
(* workers may act on one test and may lose an update.                     *)
(*                                                                         *)
(* Abstracted: who is near whom (an attack meets any NPCs on the map in    *)
(* any order; nobody is near one that is parked), when timers are set      *)
(* (NpcLife), gold (added where EXP is, never read) and equip_effect, 1.0  *)
(* as long as nobody sets an item.  The writes by which an NPC dies are    *)
(* one step.  A player is here from the end of its login to the end of its *)
(* connection.                                                             *)
(***************************************************************************)
EXTENDS Integers, FiniteSets

CONSTANTS
  Player, Npc, Worker,
  Kind,        \* player or NPC -> "FAIRY", "ANGEL", "DEVIL" or any other
  Life,        \* NPC -> its HP at boot
  Strength,    \* NPC -> its ATTACK
  Worth,       \* NPC -> the EXP it is worth
  Row,         \* what a login may load: records of LEVEL, EXP, HP and ATTACK
  Register,    \* what a function that falls off its end may return
  WORD,        \* HP, LEVEL and ATTACK are kept modulo WORD (2^16)
  MAX_INT,     \* the largest C int (2^31 - 1)
  HpUnit,      \* cal_hp gives HpUnit * l * (l + 1) for level l (75)
  ExpUnit,     \* a level l ends at 2^l * ExpUnit (100)
  TopLevel,    \* the last level cal_hp knows (10)
  StressHp,    \* the HP of a stress-test dummy (9999)
  MaxRevive,   \* bound: EV_RESURRECTION timers pending for one player
  MaxRewards   \* bound: how often the death of one NPC is rewarded

NoOne == "no one"

\* Damage, a double, is kept exactly: in units of 1 / Fine.
Fine == 2 ^ Cardinality(Npc)

ASSUME NumberAssumption ==
  /\ WORD \in Nat \ {0} /\ HpUnit \in Nat \ {0} /\ ExpUnit \in Nat \ {0}
  /\ TopLevel \in Nat \ {0} /\ MaxRevive \in Nat \ {0} /\ MaxRewards \in Nat
  /\ MAX_INT \in Nat
  /\ HpUnit * TopLevel * (TopLevel + 1) < WORD
  /\ StressHp \in 0 .. WORD - 1 /\ Register \subseteq Int
  /\ Player \cap Npc = {} /\ NoOne \notin Player \cup Npc
  /\ IsFiniteSet(Npc)
  /\ {Life, Strength, Worth} \subseteq [Npc -> 0 .. WORD - 1]

(* The level at which an unsigned short wraps costs more than an int holds *)
(* (2^65535 * 100).                                                        *)
ASSUME WidthAssumption == MAX_INT < 2 ^ (WORD - 1) * ExpUnit

FullHp(l) == HpUnit * l * (l + 1)

(* The rows the database holds are those of players nothing out of the     *)
(* ordinary befell: insert_user_data makes them and DB_EVT_UPDATE saves    *)
(* them.                                                                   *)
ASSUME RowAssumption ==
  /\ Row \subseteq [LEVEL : 1 .. WORD - 1, EXP : 0 .. MAX_INT,
                    HP : 0 .. WORD - 1, ATTACK : 0 .. WORD - 1]
  /\ \A row \in Row : /\ row.LEVEL <= TopLevel => row.HP <= FullHp(row.LEVEL)
                      /\ row.ATTACK = 2 ^ row.LEVEL % WORD

VARIABLES
  HP,          \* player or NPC -> HP
  LEVEL,       \* player -> LEVEL
  ATTACK,      \* player -> ATTACK
  EXP,         \* player -> EXP
  is_dummy,    \* player -> did it send a stress test
  is_die,      \* NPC -> is it dead
  away,        \* the NPCs that are parked at (500, 500), off the map
  reviving,    \* player -> EV_RESURRECTION timers pending
  job,         \* worker -> where it is in which handler, and its locals
  crossed,     \* observer: whom two workers were busy with at once
  garbled,     \* observer: who was struck with an undefined damage
  overflown,   \* observer: the players with whom an int overflowed
  credits,     \* observer: NPC -> how often its death was rewarded
  balance      \* observer: player -> EXP earned less what its deaths took

purse == <<LEVEL, ATTACK, EXP, overflown, balance>>
body == <<is_die, away, credits>>
vars == <<HP, is_dummy, reviving, job, crossed, garbled, purse, body>>

Word == 0 .. WORD - 1

CInt == - MAX_INT - 1 .. MAX_INT

\* What an int makes of e.
Wrapped(e) == ((e + MAX_INT + 1) % (2 * (MAX_INT + 1))) - (MAX_INT + 1)

Idle == [at |-> "idle", player |-> NoOne, npc |-> NoOne, todo |-> {}, dmg |-> 0,
         undefined |-> FALSE, reg |-> 0, max_exp |-> 0]

\* Whom a job reads and writes: its player, and the NPC it strikes or moves.
Busy(j) ==
  ({j.player} \cup (IF j.at \in {"hit", "hit_store", "slay", "step"} THEN {j.npc} ELSE {}))
    \ {NoOne}

TypeOK ==
  /\ HP \in [Player \cup Npc -> Word]
  /\ LEVEL \in [Player -> Word] /\ ATTACK \in [Player -> Word]
  /\ EXP \in [Player -> CInt]
  /\ is_dummy \in [Player -> BOOLEAN]
  /\ is_die \in [Npc -> BOOLEAN] /\ away \subseteq Npc
  /\ reviving \in [Player -> 0 .. MaxRevive]
  /\ \A w \in Worker : Busy(job[w]) \subseteq Player \cup Npc

-----------------------------------------------------------------------------

\* kind_effect and npc_kind_effect fall off their end for the DRAGON, and
\* for a player of no kind.
Defined(a, b) == {a, b} \subseteq {"FAIRY", "ANGEL", "DEVIL"}

\* What they return, in halves; if undefined, what the register holds.
Effect(a, b) ==
  IF ~ Defined(a, b) THEN Register
  ELSE IF a = b THEN {2}
  ELSE IF <<a, b>> \in {<<"FAIRY", "ANGEL">>, <<"ANGEL", "DEVIL">>, <<"DEVIL", "FAIRY">>}
    THEN {4}
  ELSE {1}

\* Division of a C int rounds towards 0, and so does (int).
Quotient(e, d) == IF e >= 0 THEN e \div d ELSE - (- e \div d)

Halved(e) == Quotient(e, 2)

Points(dmg) == Quotient(dmg, Fine)

\* Faulty variant of the next definition: is the NPC alive before the blow?
SurvivesBefore(hp, dmg) == hp > 0

\* `HP - (int)damage > 0'
Survives(hp, dmg) == hp - Points(dmg) > 0

\* `HP -= (int)damage', in an unsigned short
Less(hp, dmg) == (hp - Points(dmg)) % WORD

\* cal_hp falls off its end above TopLevel.
cal_hp(l) ==
  IF l \in 1 .. TopLevel THEN {FullHp(l)} ELSE {r % WORD : r \in Register}

\* `(int)pow(2.0, LEVEL) * 100', which no int holds from level 25 on
Price(l) == 2 ^ l * ExpUnit

MaxExp(l) == Wrapped(Price(l))

\* Faulty variant of the next definition: the level before the rise.
AttackBefore(l) == 2 ^ (l - 1) % WORD

AttackOf(l) == 2 ^ l % WORD

-----------------------------------------------------------------------------

\* What level l has cost so far, from level 1.
Cost(l) == (2 ^ l - 2) * ExpUnit

Init ==
  /\ \E row \in [Player -> Row] :
       /\ LEVEL = [s \in Player |-> row[s].LEVEL]
       /\ EXP = [s \in Player |-> row[s].EXP]
       /\ HP = [x \in Player \cup Npc |-> IF x \in Npc THEN Life[x] ELSE row[x].HP]
       /\ ATTACK = [s \in Player |-> row[s].ATTACK]
       /\ balance = [s \in Player |-> row[s].EXP + Cost(row[s].LEVEL)]
  /\ is_dummy = [s \in Player |-> FALSE]
  /\ is_die = [n \in Npc |-> FALSE]
  /\ away = {}
  /\ reviving = [s \in Player |-> 0]
  /\ job = [w \in Worker |-> Idle]
  /\ crossed = {} /\ garbled = {} /\ overflown = {}
  /\ credits = [n \in Npc |-> 0]

\* Worker w goes on with j, and the observer notes who meets whom.
Continue(w, j) ==
  /\ job' = [job EXCEPT ![w] = j]
  /\ crossed' = crossed \cup UNION {Busy(j) \cap Busy(job[v]) : v \in Worker \ {w}}

Goto(w, place) == Continue(w, [job[w] EXCEPT !.at = place, !.reg = 0])

\* Back to the loop over the NPCs.
NextNpc(w) ==
  Continue(w, [job[w] EXCEPT !.at = "aim", !.npc = NoOne, !.reg = 0, !.max_exp = 0])

\* The observer stops booking when two workers met or an int overflowed.
Book(s, e) ==
  balance' = [balance EXCEPT ![s] = IF s \in crossed \cup overflown THEN 0 ELSE @ + e]

\* `EXP = e', and the observer looks whether e is an int.
StoreExp(s, e) ==
  /\ EXP' = [EXP EXCEPT ![s] = Wrapped(e)]
  /\ overflown' = IF e \in CInt THEN overflown ELSE overflown \cup {s}

\* The observer notes a blow whose damage is undefined.
Struck(x, undefined) == garbled' = IF undefined THEN garbled \cup {x} ELSE garbled

\* A handler of one step changes the numbers of s.
Meanwhile(s) ==
  crossed' = crossed \cup ({s} \cap UNION {Busy(job[w]) : w \in Worker})

\* The read of `x op= e': the value waits in a register.
Load(w, from, value, to) ==
  /\ job[w].at = from
  /\ Continue(w, [job[w] EXCEPT !.at = to, !.reg = value])
  /\ UNCHANGED <<HP, is_dummy, reviving, garbled, purse, body>>

(***************************************************************************)
(* EV_ATTACK                                                               *)
(***************************************************************************)
\* The list is copied, the dead with the others, and the damage read.
StartAttack(w, s) ==
  /\ job[w].at = "idle"
  /\ Continue(w, [Idle EXCEPT !.at = "aim", !.player = s, !.todo = Npc,
                              !.dmg = ATTACK[s] * Fine])
  /\ UNCHANGED <<HP, is_dummy, reviving, garbled, purse, body>>

\* The next NPC of the list that is near; whether it is dead is not asked.
\* Damage is multiplied once more.
Aim(w) ==
  LET j == job[w]
  IN  /\ j.at = "aim"
      /\ \E n \in j.todo \ away : \E e \in Effect(Kind[j.player], Kind[n]) :
           LET dmg == (j.dmg * e) \div 2
               undefined == j.undefined \/ ~ Defined(Kind[j.player], Kind[n])
           IN  /\ Continue(w, [j EXCEPT !.at = IF Survives(HP[n], dmg) THEN "hit" ELSE "slay",
                                        !.npc = n, !.todo = @ \ {n}, !.dmg = dmg,
                                        !.undefined = undefined])
               /\ Struck(n, undefined)
      /\ UNCHANGED <<HP, is_dummy, reviving, purse, body>>

\* The others of the list are not near.
AttackOver(w) ==
  /\ job[w].at = "aim"
  /\ Continue(w, Idle)
  /\ UNCHANGED <<HP, is_dummy, reviving, garbled, purse, body>>

HitLoad(w) == Load(w, "hit", HP[job[w].npc], "hit_store")

\* The first blow at an NPC that is peaceful or does not move ends the event.
HitStore(w) ==
  LET j == job[w]
  IN  /\ j.at = "hit_store"
      /\ HP' = [HP EXCEPT ![j.npc] = Less(j.reg, j.dmg)]
      /\ NextNpc(w) \/ Continue(w, Idle)
      /\ UNCHANGED <<is_dummy, reviving, garbled, purse, body>>

\* Faulty variant of the next definition: the dead stay where they are.
LeftStanding(n) == is_die' = [is_die EXCEPT ![n] = TRUE] /\ UNCHANGED away

Parked(n) == is_die' = [is_die EXCEPT ![n] = TRUE] /\ away' = away \cup {n}

Slay(w) ==
  LET n == job[w].npc
  IN  /\ job[w].at = "slay"
      /\ credits[n] < MaxRewards
      /\ HP' = [HP EXCEPT ![n] = 0]
      /\ Parked(n)
      /\ credits' = [credits EXCEPT ![n] = @ + 1]
      /\ Goto(w, "gain")
      /\ UNCHANGED <<is_dummy, reviving, garbled, purse>>

GainLoad(w) == Load(w, "gain", EXP[job[w].player], "gain_store")

GainStore(w) ==
  LET j == job[w]
  IN  /\ j.at = "gain_store"
      /\ StoreExp(j.player, j.reg + Worth[j.npc])
      /\ Book(j.player, Worth[j.npc])
      /\ Goto(w, "level")
      /\ UNCHANGED <<HP, LEVEL, ATTACK, is_dummy, reviving, garbled, body>>

(***************************************************************************)
(* is_level_up                                                             *)
(***************************************************************************)
\* Faulty variant of the next definition: what is left is not looked at.
AlwaysEnough(e, max) == TRUE

Enough(e, max) == e >= max

LevelTest(w) ==
  LET j == job[w]
      max == MaxExp(LEVEL[j.player])
  IN  /\ j.at = "level"
      /\ IF Enough(EXP[j.player], max)
           THEN Continue(w, [j EXCEPT !.at = "pay", !.max_exp = max])
           ELSE NextNpc(w)
      /\ overflown' = IF Price(LEVEL[j.player]) \in CInt THEN overflown
                      ELSE overflown \cup {j.player}
      /\ UNCHANGED <<HP, LEVEL, ATTACK, EXP, balance, is_dummy, reviving, garbled, body>>

PayLoad(w) == Load(w, "pay", EXP[job[w].player], "pay_store")

\* Faulty variant of the next definition: a new level starts at 0.
Emptied(e, max) == 0

Paid(e, max) == e - max

PayStore(w) ==
  LET j == job[w]
  IN  /\ j.at = "pay_store"
      /\ StoreExp(j.player, Paid(j.reg, j.max_exp))
      /\ Goto(w, "rise")
      /\ UNCHANGED <<HP, LEVEL, ATTACK, balance, is_dummy, reviving, garbled, body>>

RiseLoad(w) == Load(w, "rise", LEVEL[job[w].player], "rise_store")

RiseStore(w) ==
  LET j == job[w]
  IN  /\ j.at = "rise_store"
      /\ LEVEL' = [LEVEL EXCEPT ![j.player] = (j.reg + 1) % WORD]
      /\ Goto(w, "heal")
      /\ UNCHANGED <<HP, ATTACK, EXP, overflown, balance, is_dummy, reviving, garbled, body>>

Heal(w) ==
  LET s == job[w].player
  IN  /\ job[w].at = "heal"
      /\ HP' \in {[HP EXCEPT ![s] = h] : h \in cal_hp(LEVEL[s])}
      /\ Goto(w, "arm")
      /\ UNCHANGED <<is_dummy, reviving, garbled, purse, body>>

Arm(w) ==
  LET s == job[w].player
  IN  /\ job[w].at = "arm"
      /\ ATTACK' = [ATTACK EXCEPT ![s] = AttackOf(LEVEL[s])]
      /\ NextNpc(w)
      /\ UNCHANGED <<HP, LEVEL, EXP, overflown, balance, is_dummy, reviving, garbled, body>>

(***************************************************************************)
(* EV_NPC_ATTACK: the target is near, whether it is dead is not asked.     *)
(***************************************************************************)
StartStrike(w, n, s) ==
  LET undefined == ~ Defined(Kind[n], Kind[s])
  IN  /\ job[w].at = "idle"
      /\ ~ is_dummy[s] /\ ~ is_die[n] /\ n \notin away
      /\ \E e \in Effect(Kind[n], Kind[s]) :
           LET dmg == (Strength[n] * Fine * e) \div 2
           IN  Continue(w, [Idle EXCEPT !.at = IF Survives(HP[s], dmg) THEN "wound" ELSE "fall",
                                        !.player = s, !.dmg = dmg, !.undefined = undefined])
      /\ Struck(s, undefined)
      /\ UNCHANGED <<HP, is_dummy, reviving, purse, body>>

WoundLoad(w) == Load(w, "wound", HP[job[w].player], "wound_store")

WoundStore(w) ==
  LET j == job[w]
  IN  /\ j.at = "wound_store"
      /\ HP' = [HP EXCEPT ![j.player] = Less(j.reg, j.dmg)]
      /\ Continue(w, Idle)
      /\ UNCHANGED <<is_dummy, reviving, garbled, purse, body>>

Fall(w) ==
  /\ job[w].at = "fall"
  /\ HP' = [HP EXCEPT ![job[w].player] = 0]
  /\ Goto(w, "halve")
  /\ UNCHANGED <<is_dummy, reviving, garbled, purse, body>>

HalveLoad(w) == Load(w, "halve", EXP[job[w].player], "halve_store")

HalveStore(w) ==
  LET j == job[w]
  IN  /\ j.at = "halve_store"
      /\ StoreExp(j.player, Halved(j.reg))
      /\ Book(j.player, Halved(j.reg) - j.reg)
      /\ Goto(w, "mourn")
      /\ UNCHANGED <<HP, LEVEL, ATTACK, is_dummy, reviving, garbled, body>>

Mourn(w) ==
  /\ job[w].at = "mourn"
  /\ reviving[job[w].player] < MaxRevive
  /\ reviving' = [reviving EXCEPT ![job[w].player] = @ + 1]
  /\ Continue(w, Idle)
  /\ UNCHANGED <<HP, is_dummy, garbled, purse, body>>

(***************************************************************************)
(* EV_RESURRECTION, CS_CCU_TEST and CS_HOTSPOT_TEST, the part of them that *)
(* changes a number.                                                       *)
(***************************************************************************)
Resurrection(s) ==
  /\ reviving[s] > 0
  /\ reviving' = [reviving EXCEPT ![s] = @ - 1]
  /\ HP' \in {[HP EXCEPT ![s] = h] : h \in cal_hp(LEVEL[s])}
  /\ Meanwhile(s)
  /\ UNCHANGED <<is_dummy, job, garbled, purse, body>>

StressTest(s) ==
  /\ is_dummy' = [is_dummy EXCEPT ![s] = TRUE]
  /\ HP' = [HP EXCEPT ![s] = StressHp]
  /\ Meanwhile(s)
  /\ UNCHANGED <<reviving, job, garbled, purse, body>>

(***************************************************************************)
(* The step of an NPC, EV_MOVE: random_move_NPC reads where it is, goes    *)
(* through all the clients and writes where it will be.  The dead and the  *)
(* parked take none; one that dies between the two is back on the map.     *)
(***************************************************************************)
StepLoad(w, n) ==
  /\ job[w].at = "idle"
  /\ ~ is_die[n] /\ n \notin away
  /\ Continue(w, [Idle EXCEPT !.at = "step", !.npc = n])
  /\ UNCHANGED <<HP, is_dummy, reviving, garbled, purse, body>>

StepStore(w) ==
  /\ job[w].at = "step"
  /\ away' = away \ {job[w].npc}
  /\ Continue(w, Idle)
  /\ UNCHANGED <<HP, is_dummy, reviving, garbled, purse, is_die, credits>>

\* EV_NPC_RESURRECTION leaves HP and place as they are (NpcLife).
NpcResurrection(n) ==
  /\ is_die[n]
  /\ is_die' = [is_die EXCEPT ![n] = FALSE]
  /\ UNCHANGED <<HP, is_dummy, reviving, job, crossed, garbled, purse, away, credits>>

-----------------------------------------------------------------------------

Proceed(w) ==
  \/ Aim(w) \/ AttackOver(w) \/ HitLoad(w) \/ HitStore(w)
  \/ Slay(w) \/ GainLoad(w) \/ GainStore(w)
  \/ LevelTest(w) \/ PayLoad(w) \/ PayStore(w) \/ RiseLoad(w) \/ RiseStore(w)
  \/ Heal(w) \/ Arm(w)
  \/ WoundLoad(w) \/ WoundStore(w) \/ Fall(w) \/ HalveLoad(w) \/ HalveStore(w) \/ Mourn(w)
  \/ StepStore(w)

Next ==
  \/ \E w \in Worker :
       \/ \E s \in Player :
            \/ StartAttack(w, s)
            \/ \E n \in Npc : StartStrike(w, n, s)
       \/ \E n \in Npc : StepLoad(w, n)
       \/ Proceed(w)
  \/ \E s \in Player : Resurrection(s) \/ StressTest(s)
  \/ \E n \in Npc : NpcResurrection(n)

Spec == Init /\ [][Next]_vars
=============================================================================
