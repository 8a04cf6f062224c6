---------------------------- MODULE CombatProofs ----------------------------
(***************************************************************************)
(* What a fight keeps without locks, for any number of players, NPCs and   *)
(* workers: whoever only one worker is busy with at a time.                *)
(***************************************************************************)
EXTENDS CombatProps, FiniteSetTheorems, TLAPS

(***************************************************************************)
(* The inductive invariant.                                                *)
(***************************************************************************)
Places ==
  {"idle", "aim", "hit", "hit_store", "slay", "gain", "gain_store", "level", "pay",
   "pay_store", "rise", "rise_store", "heal", "arm", "wound", "wound_store", "fall",
   "halve", "halve_store", "mourn", "step"}

Fields ==
  [at : Places, player : Player \cup {NoOne}, npc : Npc \cup {NoOne}, todo : SUBSET Npc,
   dmg : Int, undefined : BOOLEAN, reg : Int, max_exp : Int]

Job ==
  {j \in Fields :
     /\ IF j.at \in {"idle", "step"} THEN j.player = NoOne ELSE j.player \in Player
     /\ j.at \in {"hit", "hit_store", "slay", "gain", "gain_store", "step"} => j.npc \in Npc
     /\ ~ j.undefined => j.dmg \in Nat}

Numbers ==
  /\ HP \in [Player \cup Npc -> Word]
  /\ LEVEL \in [Player -> Word] /\ ATTACK \in [Player -> Word]
  /\ EXP \in [Player -> CInt]
  /\ is_dummy \in [Player -> BOOLEAN]
  /\ is_die \in [Npc -> BOOLEAN] /\ away \subseteq Npc
  /\ reviving \in [Player -> 0 .. MaxRevive]
  /\ credits \in [Npc -> Nat] /\ balance \in [Player -> Int]

TypeInv == Numbers /\ job \in [Worker -> Job]

\* Two workers that are busy with the same have crossed.
Exclusive ==
  \A v, w \in Worker : v # w => Busy(job[v]) \cap Busy(job[w]) \subseteq crossed

\* Nobody has been rewarded for the NPC that a worker strikes at or moves.
Aimed(j) ==
  j.at \in {"hit", "hit_store", "slay", "step"} /\ j.npc \notin crossed =>
    credits[j.npc] = 0

Victim(j) == IF j.at \in {"hit", "hit_store"} THEN j.npc ELSE j.player

\* What a worker knows of whom it strikes: the blow it is about to store
\* does not kill, and an undefined one has been noted.
Weighed(j) ==
  j.at \in {"hit", "hit_store", "wound", "wound_store"} =>
    /\ j.undefined => Victim(j) \in garbled
    /\ Victim(j) \notin crossed =>
         /\ j.at \in {"hit", "wound"} => Survives(HP[Victim(j)], j.dmg)
         /\ j.at \in {"hit_store", "wound_store"} =>
              j.reg = HP[Victim(j)] /\ Survives(j.reg, j.dmg)

Climbs(j) == j.at \in {"rise", "rise_store"}

\* What it knows of the experience and the level of its player.
Scored(j) ==
  j.at \notin {"idle", "step"} /\ j.player \notin crossed \cup overflown =>
    /\ j.at \in {"gain_store", "pay_store", "halve_store"} => j.reg = EXP[j.player]
    /\ j.at \in {"pay", "pay_store"} =>
         j.max_exp = Price(LEVEL[j.player]) /\ EXP[j.player] >= j.max_exp
    /\ j.at \in {"pay", "pay_store"} \/ Climbs(j) => Price(LEVEL[j.player]) \in CInt
    /\ j.at = "rise_store" => j.reg = LEVEL[j.player]

Climbing(s) == \E w \in Worker : job[w].player = s /\ Climbs(job[w])

\* A level that is paid for and not yet risen to is on the account.
Solvent(s) ==
  s \notin crossed \cup overflown =>
    /\ EXP[s] >= 0 /\ LEVEL[s] >= 1
    /\ EXP[s] + Cost(LEVEL[s]) + (IF Climbing(s) THEN Price(LEVEL[s]) ELSE 0) = balance[s]

Arms(j) == j.at \in {"heal", "arm"}

Arming(s) == \E w \in Worker : job[w].player = s /\ Arms(job[w])

\* The attack is that of the level, but between a rise and its `arm'.
Armed(s) == s \notin crossed /\ ~ Arming(s) => ATTACK[s] = AttackOf(LEVEL[s])

\* The hit points of a player do not exceed those of its level.
Whole(s) ==
  s \notin Abused \cup overflown /\ ~ is_dummy[s] /\ LEVEL[s] \in 1 .. TopLevel =>
    HP[s] <= FullHp(LEVEL[s])

\* An NPC that was rewarded for is off the map.
Spared(n) ==
  /\ n \notin crossed => credits[n] <= 1 /\ (credits[n] = 1 => n \in away)
  /\ n \notin Abused => HP[n] <= Life[n]

Knows(j) == Aimed(j) /\ Weighed(j) /\ Scored(j)
Sound(s) == Solvent(s) /\ Armed(s) /\ Whole(s)

FightInv ==
  /\ TypeInv
  /\ Exclusive
  /\ \A w \in Worker : Knows(job[w])
  /\ \A s \in Player : Sound(s)
  /\ \A n \in Npc : Spared(n)

-----------------------------------------------------------------------------

(***************************************************************************)
(* Arithmetic.                                                             *)
(***************************************************************************)
(* 2^n counts the subsets of 1 .. n.                                       *)
LEMMA PowerCounts ==
  ASSUME NEW n \in Nat
  PROVE  /\ IsFiniteSet(SUBSET (1 .. n))
         /\ Cardinality(SUBSET (1 .. n)) = 2 ^ n
         /\ 2 ^ n \in Nat \ {0}
<1>1. IsFiniteSet(1 .. n) /\ Cardinality(1 .. n) = n
  <2>1. n \in Int /\ 1 \in Int /\ (n < 1 => n = 0)
    OBVIOUS
  <2>2. IsFiniteSet(1 .. n) /\ Cardinality(1 .. n) = IF 1 > n THEN 0 ELSE n - 1 + 1
    BY <2>1, FS_Interval
  <2> QED
    BY <2>1, <2>2
<1>2. IsFiniteSet(SUBSET (1 .. n)) /\ Cardinality(SUBSET (1 .. n)) = 2 ^ n
  BY <1>1, FS_SUBSET
<1>3. Cardinality(SUBSET (1 .. n)) \in Nat
  BY <1>2, FS_CardinalityType
<1>4. Cardinality(SUBSET (1 .. n)) # 0
  <2>1. {} \in SUBSET (1 .. n)
    OBVIOUS
  <2> QED
    BY <1>2, <2>1, FS_EmptySet
<1> QED
  BY <1>2, <1>3, <1>4

(* A subset of 1 .. n + 1 is one of 1 .. n, with n + 1 or without it.      *)
LEMMA PowerDoubles ==
  ASSUME NEW n \in Nat
  PROVE  2 ^ (n + 1) = 2 * 2 ^ n
<1> DEFINE S == SUBSET (1 .. n)
           T == {X \cup {n + 1} : X \in S}
           f == [X \in S |-> X \cup {n + 1}]
<1>1. IsFiniteSet(S) /\ Cardinality(S) = 2 ^ n /\ 2 ^ n \in Nat
  BY PowerCounts
<1>2. Cardinality(SUBSET (1 .. (n + 1))) = 2 ^ (n + 1)
  <2>1. n + 1 \in Nat
    OBVIOUS
  <2> QED
    BY <2>1, PowerCounts
<1>3. n + 1 \notin 1 .. n /\ 1 .. (n + 1) = (1 .. n) \cup {n + 1}
  OBVIOUS
<1>4. SUBSET (1 .. (n + 1)) = S \cup T
  <2>1. ASSUME NEW X \in SUBSET (1 .. (n + 1))
        PROVE  X \in S \cup T
    <3>1. X \ {n + 1} \in S
      BY <1>3
    <3>2. CASE n + 1 \in X
      <4>1. X = (X \ {n + 1}) \cup {n + 1}
        BY <3>2
      <4> QED
        BY <3>1, <4>1
    <3>3. CASE n + 1 \notin X
      <4>1. X = X \ {n + 1}
        BY <3>3
      <4> QED
        BY <3>1, <4>1
    <3> QED
      BY <3>2, <3>3
  <2>2. ASSUME NEW X \in S \cup T
        PROVE  X \in SUBSET (1 .. (n + 1))
    BY <1>3
  <2> QED
    BY <2>1, <2>2
<1>5. S \cap T = {}
  BY <1>3
<1>6. IsFiniteSet(T) /\ Cardinality(T) = Cardinality(S)
  <2>1. f \in Bijection(S, T)
    <3>1. f \in [S -> T]
      <4> HIDE DEF S
      <4> QED
        OBVIOUS
    <3>2. ASSUME NEW X \in S, NEW Y \in S, f[X] = f[Y]
          PROVE  X = Y
      <4>1. X = f[X] \ {n + 1} /\ Y = f[Y] \ {n + 1}
        BY <1>3
      <4> QED
        BY <3>2, <4>1
    <3>3. \A t \in T : \E X \in S : f[X] = t
      <4> HIDE DEF S
      <4> QED
        OBVIOUS
    <3> HIDE DEF S, T, f
    <3> QED
      BY <3>1, <3>2, <3>3 DEF Bijection, Injection, Surjection, IsInjective
  <2> QED
    BY <1>1, <2>1, FS_Bijection DEF ExistsBijection
<1> HIDE DEF S, T
<1>7. Cardinality(S \cup T) = Cardinality(S) + Cardinality(T) - 0
  BY <1>1, <1>5, <1>6, FS_Union, FS_EmptySet
<1>8. Cardinality(S) + Cardinality(S) = 2 * Cardinality(S)
  BY <1>1, FS_CardinalityType
<1>9. Cardinality(S) + Cardinality(S) - 0 = Cardinality(S) + Cardinality(S)
  BY <1>1, FS_CardinalityType
<1>10. 2 ^ (n + 1) = 2 * Cardinality(S)
  BY <1>2, <1>4, <1>6, <1>7, <1>8, <1>9, Zenon
<1> QED
  BY <1>1, <1>10, Zenon

LEMMA Constants ==
  /\ WORD \in Nat \ {0} /\ HpUnit \in Nat \ {0} /\ ExpUnit \in Nat \ {0}
  /\ TopLevel \in Nat \ {0} /\ MaxRevive \in Nat \ {0} /\ Fine \in Nat \ {0}
  /\ MAX_INT \in Nat /\ StressHp \in Word /\ Register \subseteq Int
  /\ Player \cap Npc = {} /\ NoOne \notin Player /\ NoOne \notin Npc
  /\ Life \in [Npc -> Word] /\ Strength \in [Npc -> Word] /\ Worth \in [Npc -> Word]
<1>1. Cardinality(Npc) \in Nat
  BY NumberAssumption, FS_CardinalityType
<1>2. Fine \in Nat \ {0}
  BY <1>1, PowerCounts DEF Fine
<1> QED
  BY <1>2, NumberAssumption DEF Word

LEMMA SmallMod ==
  ASSUME NEW a \in Nat, NEW w \in Nat \ {0}, a < w
  PROVE  a % w = a
<1>1. a = w * (a \div w) + (a % w) /\ a % w \in 0 .. w - 1 /\ a \div w \in Int
  OBVIOUS
<1>2. a \div w = 0
  BY <1>1
<1> QED
  BY <1>1, <1>2

(* An int keeps what it can hold.                                          *)
LEMMA Wraps ==
  ASSUME NEW e \in Int
  PROVE  Wrapped(e) \in CInt /\ (e \in CInt => Wrapped(e) = e)
<1> DEFINE w == 2 * (MAX_INT + 1)
           a == e + MAX_INT + 1
<1>1. w \in Nat \ {0} /\ a \in Int /\ MAX_INT \in Nat
  BY Constants
<1>2. Wrapped(e) = (a % w) - (MAX_INT + 1)
  BY DEF Wrapped
<1>3. w = 2 * (MAX_INT + 1) /\ a = e + MAX_INT + 1
  OBVIOUS
<1> HIDE DEF w, a
<1>4. a % w \in 0 .. w - 1
  BY <1>1
<1>5. e \in CInt => a \in Nat /\ a < w
  BY <1>1, <1>3 DEF CInt
<1>6. e \in CInt => a % w = a
  BY <1>1, <1>5, SmallMod
<1> QED
  BY <1>1, <1>2, <1>3, <1>4, <1>6 DEF CInt

(* A blow that is survived leaves less, and does not wrap around.          *)
LEMMA BlowLess ==
  ASSUME NEW hp \in Int, NEW dmg \in Int
  PROVE  /\ Less(hp, dmg) \in Word
         /\ hp \in Word /\ dmg \in Nat /\ Survives(hp, dmg) => Less(hp, dmg) <= hp
<1>1. Fine \in Nat \ {0} /\ WORD \in Nat \ {0}
  BY Constants
<1>2. Points(dmg) \in Int /\ (dmg \in Nat => Points(dmg) \in Nat)
  <2>1. dmg \div Fine \in Int /\ (- dmg) \div Fine \in Int
    BY <1>1
  <2>2. dmg \in Nat => dmg \div Fine \in Nat
    BY <1>1
  <2> QED
    BY <2>1, <2>2 DEF Points, Quotient
<1>3. Less(hp, dmg) \in Word
  BY <1>1, <1>2 DEF Less, Word
<1>4. ASSUME hp \in Word, dmg \in Nat, Survives(hp, dmg) PROVE Less(hp, dmg) <= hp
  <2>1. hp - Points(dmg) \in Nat /\ hp - Points(dmg) < WORD /\ hp - Points(dmg) <= hp
    BY <1>1, <1>2, <1>4 DEF Survives, Word
  <2> QED
    BY <1>1, <2>1, SmallMod DEF Less
<1> QED
  BY <1>3, <1>4

LEMMA HealTyped ==
  ASSUME NEW l \in Word
  PROVE  cal_hp(l) \subseteq Word
<1>1. ASSUME l \in 1 .. TopLevel
      PROVE  FullHp(l) \in Word
  <2>1. l \in Nat /\ TopLevel \in Nat /\ HpUnit \in Nat /\ WORD \in Nat
    BY <1>1, Constants
  <2>2. l * (l + 1) \in Nat /\ l * (l + 1) <= TopLevel * (TopLevel + 1)
    BY <1>1, <2>1
  <2>3. HpUnit * (l * (l + 1)) <= HpUnit * (TopLevel * (TopLevel + 1))
    BY <2>1, <2>2
  <2>4. /\ HpUnit * l * (l + 1) = HpUnit * (l * (l + 1))
        /\ HpUnit * TopLevel * (TopLevel + 1) = HpUnit * (TopLevel * (TopLevel + 1))
    BY <2>1
  <2> QED
    BY <2>1, <2>2, <2>3, <2>4, NumberAssumption DEF Word, FullHp
<1>2. \A r \in Register : r % WORD \in Word
  BY Constants DEF Word
<1> QED
  BY <1>1, <1>2 DEF cal_hp

(* Hit points grow with the level.                                         *)
LEMMA FullHpGrows ==
  ASSUME NEW l \in Nat
  PROVE  FullHp(l) \in Nat /\ FullHp(l) <= FullHp(l + 1)
<1>1. HpUnit \in Nat
  BY Constants
<1>2. l * (l + 1) \in Nat /\ (l + 1) * (l + 2) \in Nat /\ l * (l + 1) <= (l + 1) * (l + 2)
  OBVIOUS
<1>3. HpUnit * (l * (l + 1)) <= HpUnit * ((l + 1) * (l + 2)) /\ HpUnit * (l * (l + 1)) \in Nat
  BY <1>1, <1>2
<1>4. /\ HpUnit * l * (l + 1) = HpUnit * (l * (l + 1))
      /\ HpUnit * (l + 1) * ((l + 1) + 1) = HpUnit * ((l + 1) * (l + 2))
  BY <1>1
<1> QED
  BY <1>3, <1>4 DEF FullHp

(* What a level costs is what the next one costs more in all.              *)
LEMMA LevelCost ==
  ASSUME NEW l \in Nat
  PROVE  /\ Price(l) \in Nat /\ Cost(l) \in Int /\ MaxExp(l) \in CInt
         /\ Cost(l + 1) = Cost(l) + Price(l)
         /\ AttackOf(l) \in Word
<1>1. PICK p \in Nat : p = 2 ^ l
  BY PowerCounts
<1>2. 2 ^ (l + 1) = 2 * p
  BY <1>1, PowerDoubles
<1>3. ExpUnit \in Nat /\ WORD \in Nat \ {0}
  BY Constants
<1>4. Price(l) = p * ExpUnit /\ Cost(l) = (p - 2) * ExpUnit /\ Cost(l + 1) = (2 * p - 2) * ExpUnit
  BY <1>1, <1>2 DEF Price, Cost
<1>5. (2 * p - 2) * ExpUnit = (p - 2) * ExpUnit + p * ExpUnit
  BY <1>3
<1>6. Price(l) \in Nat /\ Cost(l) \in Int /\ Cost(l + 1) = Cost(l) + Price(l)
  BY <1>3, <1>4, <1>5
<1>7. MaxExp(l) \in CInt
  BY <1>6, Wraps DEF MaxExp
<1>8. AttackOf(l) \in Word
  BY <1>1, <1>3 DEF AttackOf, Word
<1> QED
  BY <1>6, <1>7, <1>8

(* A level whose price is an int is not the one that wraps.                *)
LEMMA LevelFits ==
  ASSUME NEW l \in Word, Price(l) \in CInt
  PROVE  l + 1 \in Word /\ (l + 1) % WORD = l + 1
<1>1. l \in Nat /\ WORD \in Nat \ {0} /\ l <= WORD - 1
  BY Constants DEF Word
<1>2. l # WORD - 1
  <2>1. Price(l) <= MAX_INT
    BY Constants DEF CInt
  <2>2. PICK p \in Nat : p = Price(WORD - 1)
    BY <1>1, LevelCost
  <2>3. MAX_INT < p
    BY <2>2, WidthAssumption DEF Price
  <2> QED
    BY <2>1, <2>2, <2>3, Constants
<1>3. l + 1 \in Word /\ l + 1 \in Nat /\ l + 1 < WORD
  BY <1>1, <1>2 DEF Word
<1> QED
  BY <1>1, <1>3, SmallMod

LEMMA EffectTyped ==
  ASSUME NEW a, NEW b, NEW e \in Effect(a, b), NEW d \in Int
  PROVE  /\ (d * e) \div 2 \in Int
         /\ Defined(a, b) /\ d \in Nat => (d * e) \div 2 \in Nat
<1>1. e \in Int /\ (Defined(a, b) => e \in {1, 2, 4})
  BY Constants DEF Effect
<1>2. d * e \in Int
  BY <1>1
<1>3. (d * e) \div 2 \in Int
  BY <1>2
<1>4. ASSUME Defined(a, b), d \in Nat PROVE (d * e) \div 2 \in Nat
  BY <1>1, <1>4
<1> QED
  BY <1>3, <1>4

LEMMA HalvedFacts ==
  ASSUME NEW e \in CInt
  PROVE  Halved(e) \in CInt /\ (e >= 0 => Halved(e) >= 0)
<1>1. MAX_INT \in Nat /\ e \in Int
  BY Constants DEF CInt
<1> QED
  BY <1>1 DEF Halved, Quotient, CInt

-----------------------------------------------------------------------------

(***************************************************************************)
(* What a step of one worker leaves alone.                                 *)
(***************************************************************************)
LEMMA IdleJob == Idle \in Job /\ Idle.at = "idle" /\ Busy(Idle) = {}
  BY DEF Idle, Job, Fields, Places, Busy

LEMMA InitInv == Init => FightInv
<1> SUFFICES ASSUME Init PROVE FightInv
  OBVIOUS
<1>1. PICK row \in [Player -> Row] :
        /\ LEVEL = [s \in Player |-> row[s].LEVEL]
        /\ EXP = [s \in Player |-> row[s].EXP]
        /\ HP = [x \in Player \cup Npc |-> IF x \in Npc THEN Life[x] ELSE row[x].HP]
        /\ ATTACK = [s \in Player |-> row[s].ATTACK]
        /\ balance = [s \in Player |-> row[s].EXP + Cost(row[s].LEVEL)]
  BY DEF Init
<1>2. ASSUME NEW s \in Player
      PROVE  /\ row[s].LEVEL \in Word /\ row[s].LEVEL >= 1
             /\ row[s].EXP \in CInt /\ row[s].EXP >= 0
             /\ row[s].HP \in Word /\ row[s].ATTACK \in Word
             /\ row[s].LEVEL <= TopLevel => row[s].HP <= FullHp(row[s].LEVEL)
             /\ row[s].ATTACK = AttackOf(row[s].LEVEL)
             /\ row[s].EXP + Cost(row[s].LEVEL) \in Int
  <2>1. row[s] \in Row /\ row[s] \in [LEVEL : 1 .. WORD - 1, EXP : 0 .. MAX_INT,
                                      HP : 0 .. WORD - 1, ATTACK : 0 .. WORD - 1]
    BY RowAssumption
  <2>2. row[s].LEVEL \in Word /\ row[s].LEVEL >= 1 /\ row[s].LEVEL \in Nat
    BY <2>1, Constants DEF Word
  <2>3. row[s].EXP \in CInt /\ row[s].EXP >= 0 /\ row[s].EXP \in Int
    BY <2>1, Constants DEF CInt
  <2>4. Cost(row[s].LEVEL) \in Int
    BY <2>2, LevelCost
  <2> QED
    BY <2>1, <2>2, <2>3, <2>4, RowAssumption DEF Word, AttackOf
<1>3. TypeInv
  <2>1. /\ HP \in [Player \cup Npc -> Word] /\ LEVEL \in [Player -> Word]
        /\ ATTACK \in [Player -> Word] /\ EXP \in [Player -> CInt]
        /\ balance \in [Player -> Int]
    BY <1>1, <1>2, Constants
  <2> QED
    BY <2>1, IdleJob, Constants DEF Init, TypeInv, Numbers
<1>4. Exclusive /\ \A w \in Worker : Knows(job[w])
  BY IdleJob DEF Init, Exclusive, Knows, Aimed, Weighed, Scored, Climbs
<1>5. ASSUME NEW s \in Player PROVE Sound(s)
  <2>1. LEVEL[s] = row[s].LEVEL /\ EXP[s] = row[s].EXP /\ ATTACK[s] = row[s].ATTACK
    BY <1>1
  <2>2. HP[s] = row[s].HP
    BY <1>1, Constants
  <2>3. ~ Climbing(s)
    BY IdleJob DEF Init, Climbing, Climbs
  <2>4. balance[s] = row[s].EXP + Cost(row[s].LEVEL)
    BY <1>1
  <2>5. EXP[s] + Cost(LEVEL[s]) + 0 = balance[s]
    BY <1>2, <2>1, <2>4, LevelCost, Constants DEF Word, CInt
  <2>6. Solvent(s)
    BY <1>2, <2>1, <2>3, <2>5 DEF Solvent
  <2> QED
    BY <1>2, <2>1, <2>2, <2>6 DEF Sound, Armed, Whole
<1>6. ASSUME NEW n \in Npc PROVE Spared(n)
  BY <1>1, Constants DEF Init, Spared, Word
<1> QED
  BY <1>3, <1>4, <1>5, <1>6 DEF FightInv

\* What the observers noted stays noted.
Noted == garbled \subseteq garbled' /\ overflown \subseteq overflown'

\* A step of worker w disturbs nobody it is not busy with.
Frame(w) ==
  /\ \A x \in (Player \cup Npc) \ Busy(job[w]) : HP'[x] = HP[x]
  /\ \A s \in Player \ Busy(job[w]) :
       /\ EXP'[s] = EXP[s] /\ LEVEL'[s] = LEVEL[s] /\ ATTACK'[s] = ATTACK[s]
       /\ balance'[s] = balance[s]
  /\ \A n \in Npc \ Busy(job[w]) : credits'[n] = credits[n] /\ (n \in away => n \in away')
  /\ is_dummy' = is_dummy
  /\ Noted

(* The turn of worker w: where it is now, and what it and the others knew.  *)
LEMMA Turn ==
  ASSUME FightInv, NEW w \in Worker, NEW j \in Job, Continue(w, j)
  PROVE  /\ job' = [job EXCEPT ![w] = j] /\ job' \in [Worker -> Job] /\ job'[w] = j
         /\ \A v \in Worker \ {w} : job'[v] = job[v] /\ job[v] \in Job
         /\ crossed \subseteq crossed'
         /\ job[w] \in Job /\ Knows(job[w])
  BY DEF Continue, FightInv, TypeInv

(* The others go on knowing what they know, and keep apart.                *)
LEMMA OthersKnow ==
  ASSUME FightInv, NEW w \in Worker, NEW j \in Job, Continue(w, j), Frame(w)
  PROVE  Exclusive' /\ \A v \in Worker \ {w} : Knows(job[v])'
<1>1. crossed' = crossed \cup UNION {Busy(j) \cap Busy(job[v]) : v \in Worker \ {w}}
  BY DEF Continue
<1>2. /\ job'[w] = j /\ crossed \subseteq crossed'
      /\ \A v \in Worker \ {w} : job'[v] = job[v] /\ job[v] \in Job
  BY Turn
<1>3. Exclusive'
  <2> SUFFICES ASSUME NEW u \in Worker, NEW v \in Worker, u # v,
                      NEW x \in Busy(job'[u]) \cap Busy(job'[v])
               PROVE  x \in crossed'
    BY DEF Exclusive, Busy
  <2>1. CASE u = w
    BY <1>1, <1>2, <2>1
  <2>2. CASE v = w
    BY <1>1, <1>2, <2>2
  <2>3. CASE u # w /\ v # w
    BY <1>2, <2>3 DEF FightInv, Exclusive
  <2> QED
    BY <2>1, <2>2, <2>3
<1>4. ASSUME NEW v \in Worker \ {w}
      PROVE  Knows(job[v])'
  <2>1. job'[v] = job[v] /\ job[v] \in Job /\ Knows(job[v])
    BY <1>2 DEF FightInv
  <2>2. \A x \in Busy(job[v]) : x \notin crossed' => x \notin Busy(job[w]) /\ x \notin crossed
    BY <1>2 DEF FightInv, Exclusive
  <2>3. Aimed(job[v])'
    <3>1. SUFFICES ASSUME job[v].at \in {"hit", "hit_store", "slay", "step"},
                          job[v].npc \notin crossed'
                   PROVE  credits'[job[v].npc] = 0
      BY <2>1 DEF Aimed
    <3>2. job[v].npc \in Npc /\ job[v].npc \in Busy(job[v])
      BY <2>1, <3>1, Constants DEF Job, Busy
    <3> QED
      BY <2>1, <2>2, <3>1, <3>2 DEF Frame, Knows, Aimed
  <2>4. Weighed(job[v])'
    <3>1. SUFFICES ASSUME job[v].at \in {"hit", "hit_store", "wound", "wound_store"}
                   PROVE  /\ job[v].undefined => Victim(job[v]) \in garbled'
                          /\ Victim(job[v]) \notin crossed' =>
                               /\ Victim(job[v]) \notin crossed
                               /\ HP'[Victim(job[v])] = HP[Victim(job[v])]
      BY <2>1 DEF Knows, Weighed, Victim, Survives
    <3>2. /\ Victim(job[v]) \in Player \cup Npc /\ Victim(job[v]) \in Busy(job[v])
      BY <2>1, <3>1, Constants DEF Job, Busy, Victim
    <3> QED
      BY <2>1, <2>2, <3>1, <3>2 DEF Frame, Noted, Knows, Weighed
  <2>5. Scored(job[v])'
    <3>1. SUFFICES ASSUME job[v].at \notin {"idle", "step"},
                          job[v].player \notin crossed' \cup overflown'
                   PROVE  /\ job[v].player \notin crossed \cup overflown
                          /\ EXP'[job[v].player] = EXP[job[v].player]
                          /\ LEVEL'[job[v].player] = LEVEL[job[v].player]
      BY <2>1 DEF Knows, Scored, Climbs, Price
    <3>2. job[v].player \in Player /\ job[v].player \in Busy(job[v])
      BY <2>1, <3>1, Constants DEF Job, Busy
    <3> QED
      BY <2>2, <3>1, <3>2 DEF Frame, Noted
  <2> QED
    BY <2>3, <2>4, <2>5 DEF Knows
<1> QED
  BY <1>3, <1>4

-----------------------------------------------------------------------------
(* Whether a player is at its level-up, as long as w does not begin or end *)
(* one.                                                                    *)
LEMMA SameWay ==
  ASSUME FightInv, NEW w \in Worker, NEW j \in Job, Continue(w, j), NEW s \in Player
  PROVE  /\ (j.player = s /\ Climbs(j) <=> job[w].player = s /\ Climbs(job[w])) =>
              (Climbing(s)' <=> Climbing(s))
         /\ (j.player = s /\ Arms(j) <=> job[w].player = s /\ Arms(job[w])) =>
              (Arming(s)' <=> Arming(s))
<1>1. job'[w] = j /\ \A v \in Worker \ {w} : job'[v] = job[v]
  BY Turn
<1>2. ASSUME j.player = s /\ Climbs(j) <=> job[w].player = s /\ Climbs(job[w])
      PROVE  Climbing(s)' <=> Climbing(s)
  BY <1>1, <1>2 DEF Climbing, Climbs
<1>3. ASSUME j.player = s /\ Arms(j) <=> job[w].player = s /\ Arms(job[w])
      PROVE  Arming(s)' <=> Arming(s)
  BY <1>1, <1>3 DEF Arming, Arms
<1> QED
  BY <1>2, <1>3

(* Whether w's own player is, which no other worker is busy with.          *)
LEMMA OwnWay ==
  ASSUME FightInv, NEW w \in Worker, NEW j \in Job, Continue(w, j),
         NEW s \in Player, job[w].player = s, s \notin crossed'
  PROVE  /\ Climbing(s) <=> Climbs(job[w])
         /\ Climbing(s)' <=> j.player = s /\ Climbs(j)
         /\ Arming(s) <=> Arms(job[w])
         /\ Arming(s)' <=> j.player = s /\ Arms(j)
<1>1. /\ job'[w] = j /\ crossed \subseteq crossed'
      /\ \A v \in Worker \ {w} : job'[v] = job[v]
  BY Turn
<1>2. \A v \in Worker \ {w} : job[v].player # s
  BY <1>1, Constants DEF FightInv, Exclusive, Busy
<1> QED
  BY <1>1, <1>2 DEF Climbing, Climbs, Arming, Arms

LEMMA SolventKept ==
  ASSUME FightInv, NEW w \in Worker, NEW j \in Job, Continue(w, j), NEW s \in Player,
         EXP'[s] = EXP[s], LEVEL'[s] = LEVEL[s], balance'[s] = balance[s], Noted,
         j.player = s /\ Climbs(j) <=> job[w].player = s /\ Climbs(job[w])
  PROVE  Solvent(s)'
<1>1. Solvent(s) /\ crossed \subseteq crossed'
  BY Turn DEF FightInv, Sound
<1>2. Climbing(s)' <=> Climbing(s)
  BY SameWay
<1> QED
  BY <1>1, <1>2 DEF Solvent, Noted, Price, Cost

LEMMA ArmedKept ==
  ASSUME FightInv, NEW w \in Worker, NEW j \in Job, Continue(w, j), NEW s \in Player,
         LEVEL'[s] = LEVEL[s], ATTACK'[s] = ATTACK[s],
         j.player = s /\ Arms(j) <=> job[w].player = s /\ Arms(job[w])
  PROVE  Armed(s)'
<1>1. Armed(s) /\ crossed \subseteq crossed'
  BY Turn DEF FightInv, Sound
<1>2. Arming(s)' <=> Arming(s)
  BY SameWay
<1> QED
  BY <1>1, <1>2 DEF Armed, AttackOf

LEMMA WholeKept ==
  ASSUME FightInv, NEW s \in Player, HP'[s] = HP[s], LEVEL'[s] = LEVEL[s],
         is_dummy' = is_dummy, Noted, crossed \subseteq crossed'
  PROVE  Whole(s)'
  BY DEF FightInv, Sound, Whole, Noted, Abused, FullHp

LEMMA SparedKept ==
  ASSUME FightInv, NEW n \in Npc, HP'[n] = HP[n], credits'[n] = credits[n],
         n \in away => n \in away', Noted, crossed \subseteq crossed'
  PROVE  Spared(n)'
  BY DEF FightInv, Spared, Noted, Abused

(* A step of w keeps the invariant if it does so for whom w is busy with.  *)
LEMMA OwnStep ==
  ASSUME FightInv, NEW w \in Worker, NEW j \in Job, Continue(w, j), Frame(w),
         Numbers', Knows(job[w])',
         Climbs(j) \/ Arms(j) => j.player = job[w].player,
         \A s \in Player : job[w].player = s => Sound(s)',
         \A n \in Npc \cap Busy(job[w]) : Spared(n)'
  PROVE  FightInv'
<1>1. job' \in [Worker -> Job] /\ crossed \subseteq crossed' /\ job[w] \in Job
  BY Turn
<1>2. ASSUME NEW s \in Player, job[w].player # s
      PROVE  Sound(s)'
  <2>1. s \notin Busy(job[w])
    BY <1>1, <1>2, Constants DEF Busy, Job
  <2>2. /\ HP'[s] = HP[s] /\ EXP'[s] = EXP[s] /\ LEVEL'[s] = LEVEL[s]
        /\ ATTACK'[s] = ATTACK[s] /\ balance'[s] = balance[s]
        /\ is_dummy' = is_dummy /\ Noted
    BY <2>1 DEF Frame
  <2>3. Solvent(s)' /\ Armed(s)' /\ Whole(s)'
    BY <1>1, <1>2, <2>2, SolventKept, ArmedKept, WholeKept
  <2> QED
    BY <2>3 DEF Sound
<1>3. ASSUME NEW n \in Npc, n \notin Busy(job[w])
      PROVE  Spared(n)'
  BY <1>1, <1>3, SparedKept DEF Frame
<1> QED
  BY <1>1, <1>2, <1>3, OthersKnow DEF FightInv, TypeInv

\* The numbers nobody but the observers sees change.
Still == UNCHANGED <<HP, LEVEL, ATTACK, EXP, balance, is_dummy, is_die, away, reviving, credits>>

(* A step that only changes what w remembers.                              *)
LEMMA QuietStep ==
  ASSUME FightInv, NEW w \in Worker, NEW j \in Job, Continue(w, j), Still, Noted,
         Knows(job[w])',
         ~ Arms(job[w]) /\ ~ Arms(j),
         Climbs(j) <=> Climbs(job[w]),
         Climbs(j) => j.player = job[w].player
  PROVE  FightInv'
<1>1. Frame(w) /\ Numbers'
  BY DEF Still, Frame, Numbers, FightInv, TypeInv
<1>2. crossed \subseteq crossed'
  BY Turn
<1>3. ASSUME NEW s \in Player PROVE Sound(s)'
  BY <1>2, SolventKept, ArmedKept, WholeKept DEF Still, Sound
<1>4. ASSUME NEW n \in Npc PROVE Spared(n)'
  BY <1>2, SparedKept DEF Still
<1> QED
  BY <1>1, <1>3, <1>4, OwnStep

(* A step that writes numbers of whom w is busy with.                      *)
LEMMA WriteStep ==
  ASSUME FightInv, NEW w \in Worker, NEW j \in Job, Continue(w, j), Frame(w), Numbers',
         j.at \in {"idle", "aim", "gain", "level", "rise", "heal", "arm", "halve", "mourn"},
         NEW s \in Player, job[w].player = s, j.player \in {s, NoOne},
         Scored(job[w])', Sound(s)',
         \A n \in Npc \cap Busy(job[w]) : Spared(n)'
  PROVE  FightInv'
<1>1. job'[w] = j
  BY Turn
<1>2. Knows(job[w])'
  BY <1>1 DEF Knows, Aimed, Weighed
<1>3. Climbs(j) \/ Arms(j) => j.player = job[w].player
  BY Constants DEF Climbs, Arms, Job
<1> QED
  BY <1>2, <1>3, OwnStep

(* The player of a job, and the NPC it strikes at.                         *)
LEMMA Own ==
  ASSUME FightInv, NEW w \in Worker
  PROVE  /\ job[w] \in Job /\ job[w] \in Fields
         /\ job[w].at \notin {"idle", "step"}
              => job[w].player \in Player /\ job[w].player \in Busy(job[w])
         /\ job[w].at \in {"idle", "step"} => job[w].player = NoOne
         /\ job[w].at \in {"hit", "hit_store", "slay", "gain", "gain_store", "step"}
              => job[w].npc \in Npc
         /\ job[w].at \in {"hit", "hit_store", "slay"}
              => Busy(job[w]) = {job[w].player, job[w].npc}
         /\ job[w].at = "step" => Busy(job[w]) = {job[w].npc}
         /\ job[w].at \notin {"hit", "hit_store", "slay", "step", "idle"}
              => Busy(job[w]) = {job[w].player} /\ Npc \cap Busy(job[w]) = {}
         /\ job[w].reg \in Int /\ job[w].max_exp \in Int /\ job[w].dmg \in Int
         /\ job[w].undefined \in BOOLEAN /\ (~ job[w].undefined => job[w].dmg \in Nat)
<1>1. job[w] \in Job /\ job[w] \in Fields
  BY DEF FightInv, TypeInv, Job
<1>2. /\ job[w].at \notin {"idle", "step"} => job[w].player \in Player
      /\ job[w].at \in {"idle", "step"} => job[w].player = NoOne
      /\ job[w].at \in {"hit", "hit_store", "slay", "gain", "gain_store", "step"}
           => job[w].npc \in Npc
      /\ job[w].reg \in Int /\ job[w].max_exp \in Int /\ job[w].dmg \in Int
      /\ job[w].undefined \in BOOLEAN /\ (~ job[w].undefined => job[w].dmg \in Nat)
  BY <1>1 DEF Job, Fields
<1> QED
  BY <1>1, <1>2, Constants DEF Busy

\* What the worker goes on with.
Loaded(w, value, to) == [job[w] EXCEPT !.at = to, !.reg = value]

Looping(w) == [job[w] EXCEPT !.at = "aim", !.npc = NoOne, !.reg = 0, !.max_exp = 0]

Moved(w, place) == [job[w] EXCEPT !.at = place, !.reg = 0]

LEMMA LoopingJob ==
  ASSUME FightInv, NEW w \in Worker, job[w].at \notin {"idle", "step"}
  PROVE  Looping(w) \in Job /\ Looping(w).at = "aim" /\ Looping(w).player = job[w].player
<1> DEFINE j == Looping(w)
<1>1. job[w].player \in Player /\ job[w] \in Job /\ job[w] \in Fields
  BY Own
<1>2. "aim" \in Places
  BY DEF Places
<1>3. j \in Fields
  <2>1. NoOne \in Npc \cup {NoOne} /\ 0 \in Int
    OBVIOUS
  <2> HIDE DEF Places
  <2> QED
    BY <1>1, <1>2, <2>1 DEF Looping, Fields
<1>4. /\ j.at = "aim" /\ j.player = job[w].player
      /\ j.undefined = job[w].undefined /\ j.dmg = job[w].dmg
  BY <1>1 DEF Looping, Fields
<1> QED
  BY <1>1, <1>3, <1>4 DEF Job

LEMMA LoadedJob ==
  ASSUME FightInv, NEW w \in Worker, job[w].at \notin {"idle", "step"},
         NEW value \in Int, NEW to \in Places, to \notin {"idle", "step", "hit", "slay", "gain"},
         to = "hit_store" => job[w].at = "hit",
         to = "gain_store" => job[w].at = "gain"
  PROVE  LET j == Loaded(w, value, to)
         IN  /\ j \in Job /\ j.at = to /\ j.reg = value /\ j.npc = job[w].npc
             /\ j.player = job[w].player /\ j.dmg = job[w].dmg
             /\ j.max_exp = job[w].max_exp /\ j.undefined = job[w].undefined
<1> DEFINE j == Loaded(w, value, to)
<1>1. job[w].player \in Player /\ job[w] \in Job /\ job[w] \in Fields
  BY Own
<1>2. j \in Fields
  <2> HIDE DEF Places
  <2> QED
    BY <1>1 DEF Loaded, Fields
<1>3. /\ j.at = to /\ j.reg = value /\ j.npc = job[w].npc
      /\ j.player = job[w].player /\ j.dmg = job[w].dmg
      /\ j.max_exp = job[w].max_exp /\ j.undefined = job[w].undefined
  BY <1>1 DEF Loaded, Fields
<1> HIDE DEF j
<1>4. j \in Job
  BY <1>1, <1>2, <1>3 DEF Job
<1> QED
  BY <1>3, <1>4 DEF j

LEMMA MovedJob ==
  ASSUME FightInv, NEW w \in Worker, job[w].at \notin {"idle", "step"},
         NEW place \in Places,
         place \notin {"idle", "step", "hit", "hit_store", "slay", "gain_store"},
         place = "gain" => job[w].at = "slay"
  PROVE  /\ Moved(w, place) \in Job /\ Moved(w, place).at = place
         /\ Moved(w, place).player = job[w].player
<1> DEFINE j == Moved(w, place)
<1>1. job[w].player \in Player /\ job[w] \in Job /\ job[w] \in Fields
  BY Own
<1>2. j \in Fields
  <2>1. 0 \in Int
    OBVIOUS
  <2> HIDE DEF Places
  <2> QED
    BY <1>1, <2>1 DEF Moved, Fields
<1>3. /\ j.at = place /\ j.player = job[w].player /\ j.npc = job[w].npc
      /\ j.undefined = job[w].undefined /\ j.dmg = job[w].dmg
  BY <1>1 DEF Moved, Fields
<1> HIDE DEF j
<1>4. j \in Job
  BY <1>1, <1>2, <1>3 DEF Job
<1> QED
  BY <1>3, <1>4 DEF j

-----------------------------------------------------------------------------
(***************************************************************************)
(* The steps that only change what a worker remembers.                     *)
(***************************************************************************)
LEMMA StartAttackStep ==
  ASSUME FightInv, NEW w \in Worker, NEW s \in Player, StartAttack(w, s)
  PROVE  FightInv'
<1> DEFINE j == [Idle EXCEPT !.at = "aim", !.player = s, !.todo = Npc,
                             !.dmg = ATTACK[s] * Fine]
<1>1. ATTACK[s] * Fine \in Nat
  <2>1. ATTACK[s] \in Nat
    BY Constants DEF FightInv, TypeInv, Numbers, Word
  <2> QED
    BY <2>1, Constants
<1>2. j \in Job /\ j.at = "aim"
  <2>1. Idle \in Job /\ Idle.undefined = FALSE
    BY IdleJob DEF Idle
  <2>2. "aim" \in Places
    BY DEF Places
  <2>3. PICK d \in Nat : d = ATTACK[s] * Fine
    BY <1>1
  <2>4. j = [Idle EXCEPT !.at = "aim", !.player = s, !.todo = Npc, !.dmg = d]
    BY <2>3
  <2>5. Npc \in SUBSET Npc /\ d \in Int
    OBVIOUS
  <2>6. j \in Fields /\ j.at = "aim" /\ j.player = s /\ j.dmg = d /\ j.undefined = FALSE
    <3> HIDE DEF Places, Idle, j
    <3> QED
      BY <2>1, <2>2, <2>4, <2>5 DEF Job, Fields
  <2> QED
    BY <2>3, <2>6 DEF Job
<1>3. Continue(w, j) /\ Still /\ Noted /\ job[w].at = "idle"
  BY DEF StartAttack, Still, Noted, purse, body
<1> HIDE DEF j
<1>4. Knows(job[w])'
  BY <1>2, <1>3, Turn DEF Knows, Aimed, Weighed, Scored, Climbs
<1> QED
  BY <1>2, <1>3, <1>4, QuietStep DEF Arms, Climbs

LEMMA AimStep ==
  ASSUME FightInv, NEW w \in Worker, Aim(w)
  PROVE  FightInv'
<1> DEFINE D(e) == (job[w].dmg * e) \div 2
           U(n) == job[w].undefined \/ ~ Defined(Kind[job[w].player], Kind[n])
           J(n, e) == [job[w] EXCEPT !.at = IF Survives(HP[n], D(e)) THEN "hit" ELSE "slay",
                                     !.npc = n, !.todo = @ \ {n}, !.dmg = D(e),
                                     !.undefined = U(n)]
<1>1. PICK n \in job[w].todo \ away :
        \E e \in Effect(Kind[job[w].player], Kind[n]) : Continue(w, J(n, e)) /\ Struck(n, U(n))
  BY DEF Aim
<1>2. PICK e \in Effect(Kind[job[w].player], Kind[n]) :
        Continue(w, J(n, e)) /\ Struck(n, U(n))
  BY <1>1
<1>3. job[w].at = "aim" /\ job[w] \in Job /\ job[w] \in Fields /\ job[w].player \in Player
  BY Own DEF Aim
<1>4. n \in Npc /\ n \notin away
  BY <1>1, <1>3 DEF Fields
<1>5. PICK d \in Int : d = D(e) /\ (~ U(n) => d \in Nat)
  BY <1>2, Own, EffectTyped
<1>6. PICK u \in BOOLEAN : u = U(n) /\ (~ u => d \in Nat)
  BY <1>3, <1>5 DEF Fields
<1>7. PICK j : j = J(n, e)
  OBVIOUS
<1>8. /\ j \in Job /\ j.npc = n /\ j.dmg = d /\ j.undefined = u
      /\ j.at \in {"hit", "slay"} /\ (j.at = "hit" => Survives(HP[n], d))
      /\ j.player = job[w].player
  <2>1. j = [job[w] EXCEPT !.at = IF Survives(HP[n], d) THEN "hit" ELSE "slay",
                           !.npc = n, !.todo = job[w].todo \ {n}, !.dmg = d,
                           !.undefined = u]
    BY <1>3, <1>5, <1>6, <1>7 DEF Fields
  <2>2. "hit" \in Places /\ "slay" \in Places
    BY DEF Places
  <2>3. job[w].todo \ {n} \in SUBSET Npc
    BY <1>3 DEF Fields
  <2>4. PICK place \in {"hit", "slay"} :
          place = (IF Survives(HP[n], d) THEN "hit" ELSE "slay")
    OBVIOUS
  <2>5. /\ j \in Fields
        /\ j.npc = n /\ j.dmg = d /\ j.undefined = u /\ j.at = place
        /\ j.player = job[w].player
    <3> HIDE DEF Places
    <3> QED
      BY <1>3, <1>4, <2>1, <2>2, <2>3, <2>4 DEF Fields
  <2> QED
    BY <1>3, <1>4, <1>6, <2>4, <2>5 DEF Job
<1>9. Continue(w, j) /\ Still /\ Noted /\ (u => n \in garbled')
  BY <1>2, <1>6, <1>7 DEF Aim, Still, Noted, Struck, purse, body
<1> HIDE DEF D, U, J
<1>10. Aimed(job[w])'
  <2>1. n \notin crossed' => credits'[n] = 0
    BY <1>4, <1>8, <1>9, Turn DEF FightInv, Spared, TypeInv, Numbers, Still
  <2> QED
    BY <1>8, <1>9, <2>1, Turn DEF Aimed
<1>11. Weighed(job[w])' /\ Scored(job[w])'
  BY <1>8, <1>9, Turn DEF Weighed, Victim, Scored, Climbs, Survives, Still
<1> QED
  BY <1>3, <1>8, <1>9, <1>10, <1>11, QuietStep DEF Arms, Climbs, Knows

LEMMA IdleStep ==
  ASSUME FightInv, NEW w \in Worker, Continue(w, Idle), Still, Noted,
         ~ Arms(job[w]), ~ Climbs(job[w])
  PROVE  FightInv'
<1>1. Knows(job[w])'
  BY IdleJob, Turn DEF Knows, Aimed, Weighed, Scored, Climbs
<1> QED
  BY <1>1, IdleJob, QuietStep DEF Arms, Climbs

LEMMA AttackOverStep ==
  ASSUME FightInv, NEW w \in Worker, AttackOver(w)
  PROVE  FightInv'
  BY IdleStep DEF AttackOver, Still, Noted, Arms, Climbs, purse, body

(* A load is remembered.                                                   *)
LEMMA LoadStep ==
  ASSUME FightInv, NEW w \in Worker, NEW value \in Int, NEW from, NEW to \in Places,
         Load(w, from, value, to),
         <<from, to>> \in {<<"hit", "hit_store">>, <<"gain", "gain_store">>,
                           <<"pay", "pay_store">>, <<"rise", "rise_store">>,
                           <<"wound", "wound_store">>, <<"halve", "halve_store">>},
         to = "hit_store" => value = HP[job[w].npc],
         to = "wound_store" => value = HP[job[w].player],
         to = "rise_store" => value = LEVEL[job[w].player],
         to \in {"gain_store", "pay_store", "halve_store"} => value = EXP[job[w].player]
  PROVE  FightInv'
<1>1. job[w].at = from
  BY DEF Load
<1>2. PICK j \in Job :
        /\ j = Loaded(w, value, to) /\ j.at = to /\ j.reg = value /\ j.npc = job[w].npc
        /\ j.player = job[w].player /\ j.dmg = job[w].dmg
        /\ j.max_exp = job[w].max_exp /\ j.undefined = job[w].undefined
  BY <1>1, LoadedJob
<1>3. Continue(w, j) /\ Still /\ Noted
  BY <1>2 DEF Load, Loaded, Still, Noted, purse, body
<1>4. job'[w] = j /\ crossed \subseteq crossed' /\ Knows(job[w])
  BY <1>3, Turn
<1>5. Aimed(job[w])'
  BY <1>1, <1>2, <1>3, <1>4 DEF Knows, Aimed, Still
<1>6. Weighed(job[w])'
  BY <1>1, <1>2, <1>3, <1>4 DEF Knows, Weighed, Victim, Survives, Still, Noted
<1>7. Scored(job[w])'
  <2>1. Price(LEVEL'[job[w].player]) = Price(LEVEL[job[w].player])
    BY <1>3 DEF Still
  <2> QED
    BY <1>1, <1>2, <1>3, <1>4, <2>1 DEF Knows, Scored, Climbs, Still, Noted
<1> QED
  BY <1>1, <1>2, <1>3, <1>5, <1>6, <1>7, QuietStep DEF Knows, Arms, Climbs

LEMMA LoadSteps ==
  ASSUME FightInv, NEW w \in Worker,
         \/ HitLoad(w) \/ GainLoad(w) \/ PayLoad(w) \/ RiseLoad(w)
         \/ WoundLoad(w) \/ HalveLoad(w)
  PROVE  FightInv'
<1>1. job[w] \in Job /\ Numbers
  BY DEF FightInv, TypeInv
<1>2. CASE HitLoad(w)
  <2>1. job[w].at = "hit" /\ HP[job[w].npc] \in Int
    BY <1>1, <1>2, Constants DEF HitLoad, Load, Job, Numbers, Word
  <2> QED
    BY <1>2, <2>1, LoadStep DEF HitLoad, Places
<1>3. CASE GainLoad(w)
  <2>1. job[w].at = "gain" /\ EXP[job[w].player] \in Int
    BY <1>1, <1>3, Constants DEF GainLoad, Load, Job, Numbers, CInt
  <2> QED
    BY <1>3, <2>1, LoadStep DEF GainLoad, Places
<1>4. CASE PayLoad(w)
  <2>1. job[w].at = "pay" /\ EXP[job[w].player] \in Int
    BY <1>1, <1>4, Constants DEF PayLoad, Load, Job, Numbers, CInt
  <2> QED
    BY <1>4, <2>1, LoadStep DEF PayLoad, Places
<1>5. CASE RiseLoad(w)
  <2>1. job[w].at = "rise" /\ LEVEL[job[w].player] \in Int
    BY <1>1, <1>5, Constants DEF RiseLoad, Load, Job, Numbers, Word
  <2> QED
    BY <1>5, <2>1, LoadStep DEF RiseLoad, Places
<1>6. CASE WoundLoad(w)
  <2>1. job[w].at = "wound" /\ HP[job[w].player] \in Int
    BY <1>1, <1>6, Constants DEF WoundLoad, Load, Job, Numbers, Word
  <2> QED
    BY <1>6, <2>1, LoadStep DEF WoundLoad, Places
<1>7. CASE HalveLoad(w)
  <2>1. job[w].at = "halve" /\ EXP[job[w].player] \in Int
    BY <1>1, <1>7, Constants DEF HalveLoad, Load, Job, Numbers, CInt
  <2> QED
    BY <1>7, <2>1, LoadStep DEF HalveLoad, Places
<1> QED
  BY <1>2, <1>3, <1>4, <1>5, <1>6, <1>7

(* The test of a level-up: what it takes is compared, and remembered.      *)
LEMMA LevelTestStep ==
  ASSUME FightInv, NEW w \in Worker, LevelTest(w)
  PROVE  FightInv'
<1> DEFINE l == LEVEL[job[w].player]
           max == MaxExp(l)
           k == [job[w] EXCEPT !.at = "pay", !.max_exp = max]
<1>1. /\ job[w].at = "level" /\ Still /\ Noted
      /\ Price(l) \notin CInt => job[w].player \in overflown'
  BY DEF LevelTest, Still, Noted, body
<1>2. job[w].player \in Player /\ job[w] \in Fields /\ job[w] \in Job
  BY <1>1, Own
<1>3. l \in Nat /\ EXP[job[w].player] \in Int
  BY <1>2, Constants DEF FightInv, TypeInv, Numbers, Word, CInt
<1>4. /\ max \in Int /\ (Price(l) \in CInt => max = Price(l))
  BY <1>3, LevelCost, Wraps DEF MaxExp, CInt
<1> HIDE DEF max
<1>5. CASE Enough(EXP[job[w].player], max) /\ Continue(w, k)
  <2>1. PICK j : j = k
    OBVIOUS
  <2>2. /\ j \in Job /\ j.at = "pay" /\ j.player = job[w].player /\ j.max_exp = max
    <3>1. "pay" \in Places
      BY DEF Places
    <3>2. j \in Fields
      <4> HIDE DEF Places, l
      <4> QED
        BY <1>2, <1>4, <2>1, <3>1 DEF Fields
    <3>3. /\ j.at = "pay" /\ j.player = job[w].player /\ j.max_exp = max
          /\ j.undefined = job[w].undefined /\ j.dmg = job[w].dmg
      BY <1>2, <2>1 DEF Fields
    <3> QED
      BY <1>2, <3>2, <3>3 DEF Job
  <2>3. Continue(w, j) /\ EXP[job[w].player] >= max
    BY <1>5, <2>1 DEF Enough
  <2>4. job'[w] = j
    BY <2>2, <2>3, Turn
  <2>5. Aimed(job[w])' /\ Weighed(job[w])'
    BY <2>2, <2>4 DEF Aimed, Weighed
  <2>6. Scored(job[w])'
    <3>1. LEVEL' = LEVEL /\ EXP' = EXP
      BY <1>1 DEF Still
    <3>2. SUFFICES ASSUME job[w].player \notin overflown'
                   PROVE  max = Price(l) /\ Price(l) \in CInt
      BY <2>2, <2>3, <2>4, <3>1 DEF Scored, Climbs, Price
    <3> QED
      BY <1>1, <1>4, <3>2
  <2> QED
    BY <1>1, <2>2, <2>3, <2>5, <2>6, QuietStep DEF Knows, Arms, Climbs
<1>6. CASE NextNpc(w)
  <2>1. Continue(w, Looping(w)) /\ Looping(w) \in Job /\ Looping(w).at = "aim"
    BY <1>1, <1>6, LoopingJob DEF NextNpc, Looping
  <2>2. Knows(job[w])'
    BY <2>1, Turn DEF Knows, Aimed, Weighed, Scored, Climbs
  <2> QED
    BY <1>1, <2>1, <2>2, QuietStep DEF Arms, Climbs
<1> QED
  BY <1>5, <1>6 DEF LevelTest, max

LEMMA StartStrikeStep ==
  ASSUME FightInv, NEW w \in Worker, NEW n \in Npc, NEW s \in Player, StartStrike(w, n, s)
  PROVE  FightInv'
<1> DEFINE D(e) == (Strength[n] * Fine * e) \div 2
           U == ~ Defined(Kind[n], Kind[s])
           J(e) == [Idle EXCEPT !.at = IF Survives(HP[s], D(e)) THEN "wound" ELSE "fall",
                                !.player = s, !.dmg = D(e), !.undefined = U]
<1>1. PICK e \in Effect(Kind[n], Kind[s]) : Continue(w, J(e))
  BY DEF StartStrike
<1>2. PICK d \in Int : d = D(e) /\ (~ U => d \in Nat)
  <2>1. Strength[n] * Fine \in Nat /\ Strength[n] * Fine \in Int
    <3>1. Strength[n] \in Nat
      BY Constants DEF Word
    <3> QED
      BY <3>1, Constants
  <2> QED
    BY <1>1, <2>1, EffectTyped
<1>3. PICK u \in BOOLEAN : u = U
  OBVIOUS
<1>4. PICK place \in {"wound", "fall"} :
        place = (IF Survives(HP[s], d) THEN "wound" ELSE "fall")
  OBVIOUS
<1>5. PICK j : j = J(e)
  OBVIOUS
<1>6. /\ j \in Job /\ j.at = place /\ j.player = s /\ j.dmg = d /\ j.undefined = u
  <2>1. j = [Idle EXCEPT !.at = place, !.player = s, !.dmg = d, !.undefined = u]
    BY <1>2, <1>3, <1>4, <1>5 DEF Idle
  <2>2. Idle \in Fields /\ {"wound", "fall"} \subseteq Places
    BY IdleJob DEF Places, Job
  <2>3. /\ j \in Fields /\ j.at = place /\ j.player = s /\ j.dmg = d /\ j.undefined = u
    <3> HIDE DEF Places, Idle
    <3> QED
      BY <2>1, <2>2 DEF Fields
  <2> QED
    BY <1>2, <1>3, <2>3 DEF Job
<1>7. /\ Continue(w, j) /\ Still /\ Noted /\ (u => s \in garbled') /\ job[w].at = "idle"
  BY <1>1, <1>3, <1>5 DEF StartStrike, Still, Noted, Struck, purse, body
<1> HIDE DEF D, U, J
<1>8. Knows(job[w])'
  BY <1>4, <1>6, <1>7, Turn DEF Knows, Aimed, Weighed, Victim, Scored, Climbs, Survives, Still
<1> QED
  BY <1>6, <1>7, <1>8, QuietStep DEF Arms, Climbs

LEMMA StepLoadStep ==
  ASSUME FightInv, NEW w \in Worker, NEW n \in Npc, StepLoad(w, n)
  PROVE  FightInv'
<1> DEFINE j == [Idle EXCEPT !.at = "step", !.npc = n]
<1>1. j \in Job /\ j.at = "step" /\ j.npc = n
  <2>1. Idle \in Job /\ Idle.undefined = FALSE /\ Idle.player = NoOne
    BY IdleJob DEF Idle
  <2>2. "step" \in Places
    BY DEF Places
  <2> QED
    BY <2>1, <2>2 DEF Job, Fields
<1>2. Continue(w, j) /\ Still /\ Noted /\ job[w].at = "idle" /\ n \notin away
  BY DEF StepLoad, Still, Noted, purse, body
<1> HIDE DEF j
<1>3. n \notin crossed' => credits'[n] = 0
  BY <1>1, <1>2, Turn DEF FightInv, Spared, TypeInv, Numbers, Still
<1>4. Knows(job[w])'
  BY <1>1, <1>2, <1>3, Turn DEF Knows, Aimed, Weighed, Scored, Climbs
<1> QED
  BY <1>1, <1>2, <1>4, QuietStep DEF Arms, Climbs

-----------------------------------------------------------------------------
(***************************************************************************)
(* The steps that write hit points.                                        *)
(***************************************************************************)
LEMMA HpStep ==
  ASSUME FightInv, NEW w \in Worker, NEW j \in Job, Continue(w, j),
         NEW s \in Player, job[w].player = s, j.player \in {s, NoOne},
         job[w].at \notin {"idle", "step"},
         HP' \in [Player \cup Npc -> Word],
         \A x \in (Player \cup Npc) \ Busy(job[w]) : HP'[x] = HP[x],
         UNCHANGED <<LEVEL, ATTACK, EXP, balance, is_dummy, is_die, away, reviving, credits>>,
         Noted,
         j.at \in {"idle", "aim", "arm", "halve"},
         ~ Climbs(job[w]), Arms(j) <=> Arms(job[w]),
         Whole(s)',
         \A n \in Npc \cap Busy(job[w]) : Spared(n)'
  PROVE  FightInv'
<1>1. Frame(w) /\ Numbers'
  BY DEF Frame, FightInv, TypeInv, Numbers
<1>2. ~ Climbs(j) /\ (Arms(j) => j.player = s)
  BY Constants DEF Climbs, Arms, Job
<1>3. Solvent(s)' /\ Armed(s)'
  BY <1>2, SolventKept, ArmedKept
<1>4. Scored(job[w])'
  BY Turn DEF Scored, Climbs
<1> QED
  BY <1>1, <1>3, <1>4, WriteStep DEF Sound

(* A blow that is stored does not give hit points, unless it is undefined.  *)
LEMMA BlowStored ==
  ASSUME FightInv, NEW w \in Worker, job[w].at \in {"hit_store", "wound_store"},
         NEW x \in Player \cup Npc, x = Victim(job[w]), x \notin Abused
  PROVE  Less(job[w].reg, job[w].dmg) <= HP[x]
<1>1. /\ job[w].reg = HP[x] /\ Survives(job[w].reg, job[w].dmg)
      /\ ~ job[w].undefined
  BY DEF FightInv, Knows, Weighed, Abused
<1>2. job[w].dmg \in Nat /\ HP[x] \in Word
  BY <1>1, Own DEF FightInv, TypeInv, Numbers
<1>3. job[w].reg \in Int /\ job[w].reg \in Word /\ job[w].dmg \in Int
  BY <1>1, <1>2, Own
<1> QED
  BY <1>1, <1>2, <1>3, BlowLess

LEMMA HitStoreStep ==
  ASSUME FightInv, NEW w \in Worker, HitStore(w)
  PROVE  FightInv'
<1>1. job[w].at = "hit_store" /\ Noted
  BY DEF HitStore, Noted, purse
<1>2. PICK s \in Player : job[w].player = s
  BY <1>1, Own
<1>3. PICK j \in Job : Continue(w, j) /\ j.at \in {"aim", "idle"} /\ j.player \in {s, NoOne}
  BY <1>1, <1>2, LoopingJob, IdleJob DEF HitStore, NextNpc, Looping, Idle
<1>4. PICK n \in Npc : job[w].npc = n /\ Busy(job[w]) = {s, n}
  BY <1>1, <1>2, Own
<1>5. PICK h \in Word : h = Less(job[w].reg, job[w].dmg)
  BY Own, BlowLess
<1>6. /\ HP \in [Player \cup Npc -> Word] /\ n \in Player \cup Npc
      /\ HP' = [HP EXCEPT ![n] = h] /\ s # n
  BY <1>4, <1>5, Constants DEF HitStore, FightInv, TypeInv, Numbers
<1>7. crossed \subseteq crossed'
  BY <1>3, Turn
<1>8. /\ UNCHANGED <<LEVEL, ATTACK, EXP, balance, is_dummy, is_die, away, reviving, credits>>
  BY DEF HitStore, purse, body
<1>9. Spared(n)'
  <2>1. Spared(n)
    BY DEF FightInv
  <2>2. ASSUME n \notin Abused' PROVE HP'[n] <= Life[n]
    <3>1. n \notin Abused /\ HP[n] <= Life[n]
      BY <1>1, <1>7, <2>1, <2>2 DEF Abused, Noted, Spared
    <3>2. h <= HP[n]
      BY <1>1, <1>4, <1>5, <1>6, <3>1, BlowStored DEF Victim
    <3>3. HP[n] \in Word /\ Life[n] \in Word /\ HP'[n] = h
      BY <1>6, Constants
    <3> QED
      BY <3>1, <3>2, <3>3, Constants DEF Word
  <2> QED
    BY <1>7, <1>8, <2>1, <2>2 DEF Spared
<1>10. Whole(s)'
  BY <1>1, <1>6, <1>7, <1>8, WholeKept
<1> QED
  BY <1>1, <1>2, <1>3, <1>4, <1>6, <1>8, <1>9, <1>10, Constants, HpStep DEF Climbs, Arms

LEMMA WoundStoreStep ==
  ASSUME FightInv, NEW w \in Worker, WoundStore(w)
  PROVE  FightInv'
<1>1. Continue(w, Idle) /\ job[w].at = "wound_store" /\ Noted
  BY DEF WoundStore, Noted, purse
<1>2. PICK s \in Player :
        job[w].player = s /\ Busy(job[w]) = {s} /\ Npc \cap Busy(job[w]) = {}
  BY <1>1, Own
<1>3. PICK h \in Word : h = Less(job[w].reg, job[w].dmg)
  BY Own, BlowLess
<1>4. HP \in [Player \cup Npc -> Word] /\ HP' = [HP EXCEPT ![s] = h]
  BY <1>2, <1>3 DEF WoundStore, FightInv, TypeInv, Numbers
<1>5. UNCHANGED <<LEVEL, ATTACK, EXP, balance, is_dummy, is_die, away, reviving, credits>>
  BY DEF WoundStore, purse, body
<1>6. Whole(s)'
  <2> SUFFICES ASSUME s \notin Abused' \cup overflown', ~ is_dummy[s],
                      LEVEL[s] \in 1 .. TopLevel
               PROVE  HP'[s] <= FullHp(LEVEL[s])
    BY <1>5 DEF Whole, FullHp
  <2>1. s \notin Abused \cup overflown
    BY <1>1, Turn, IdleJob DEF Abused, Noted
  <2>2. HP[s] <= FullHp(LEVEL[s])
    BY <2>1 DEF FightInv, Sound, Whole
  <2>3. h <= HP[s]
    BY <1>1, <1>2, <1>3, <2>1, BlowStored DEF Victim
  <2>4. HP[s] \in Word /\ HP'[s] = h /\ FullHp(LEVEL[s]) \in Nat
    BY <1>4, Constants, FullHpGrows
  <2> QED
    BY <2>2, <2>3, <2>4, Constants DEF Word
<1> QED
  BY <1>1, <1>2, <1>4, <1>5, <1>6, IdleJob, HpStep DEF Climbs, Arms, Idle

LEMMA FallStep ==
  ASSUME FightInv, NEW w \in Worker, Fall(w)
  PROVE  FightInv'
<1> DEFINE j == Moved(w, "halve")
<1>1. Continue(w, j) /\ job[w].at = "fall" /\ Noted
  BY DEF Fall, Goto, Moved, Noted, purse
<1>2. PICK s \in Player :
        job[w].player = s /\ Busy(job[w]) = {s} /\ Npc \cap Busy(job[w]) = {}
  BY <1>1, Own
<1>3. 0 \in Word /\ "halve" \in Places
  BY Constants DEF Word, Places
<1>4. HP \in [Player \cup Npc -> Word] /\ HP' = [HP EXCEPT ![s] = 0]
  BY <1>2 DEF Fall, FightInv, TypeInv, Numbers
<1>5. UNCHANGED <<LEVEL, ATTACK, EXP, balance, is_dummy, is_die, away, reviving, credits>>
  BY DEF Fall, purse, body
<1>6. Whole(s)'
  BY <1>4, <1>5, Constants, FullHpGrows DEF Whole
<1>7. j \in Job /\ j.at = "halve" /\ j.player = s
  BY <1>1, <1>2, <1>3, MovedJob
<1> HIDE DEF j
<1> QED
  BY <1>1, <1>2, <1>3, <1>4, <1>5, <1>6, <1>7, HpStep DEF Climbs, Arms

LEMMA HealStep ==
  ASSUME FightInv, NEW w \in Worker, Heal(w)
  PROVE  FightInv'
<1> DEFINE j == Moved(w, "arm")
<1>1. Continue(w, j) /\ job[w].at = "heal" /\ Noted
  BY DEF Heal, Goto, Moved, Noted, purse
<1>2. PICK s \in Player :
        job[w].player = s /\ Busy(job[w]) = {s} /\ Npc \cap Busy(job[w]) = {}
  BY <1>1, Own
<1>3. LEVEL[s] \in Word /\ "arm" \in Places
  BY DEF FightInv, TypeInv, Numbers, Places
<1>4. PICK h \in Word : h \in cal_hp(LEVEL[s]) /\ HP' = [HP EXCEPT ![s] = h]
  BY <1>2, <1>3, HealTyped DEF Heal
<1>5. HP \in [Player \cup Npc -> Word]
  BY DEF FightInv, TypeInv, Numbers
<1>6. UNCHANGED <<LEVEL, ATTACK, EXP, balance, is_dummy, is_die, away, reviving, credits>>
  BY DEF Heal, purse, body
<1>7. Whole(s)'
  <2>1. LEVEL[s] \in 1 .. TopLevel => HP'[s] = FullHp(LEVEL[s]) /\ FullHp(LEVEL[s]) \in Nat
    BY <1>4, <1>5, Constants, FullHpGrows DEF cal_hp
  <2> QED
    BY <1>6, <2>1 DEF Whole, FullHp
<1>8. j \in Job /\ j.at = "arm" /\ j.player = s
  BY <1>1, <1>2, <1>3, MovedJob
<1> HIDE DEF j
<1> QED
  BY <1>1, <1>2, <1>4, <1>5, <1>6, <1>7, <1>8, HpStep DEF Climbs, Arms

(***************************************************************************)
(* The steps that write experience.                                        *)
(***************************************************************************)
LEMMA ExpStep ==
  ASSUME FightInv, NEW w \in Worker, NEW j \in Job, Continue(w, j),
         job[w].at \in {"gain_store", "pay_store", "halve_store"},
         NEW s \in Player, job[w].player = s, j.player = s,
         NEW e \in Int, StoreExp(s, e),
         balance' \in [Player -> Int],
         \A p \in Player \ {s} : balance'[p] = balance[p],
         UNCHANGED <<HP, LEVEL, ATTACK, is_dummy, is_die, away, reviving, credits, garbled>>,
         j.at \in {"level", "rise", "mourn"},
         Scored(job[w])',
         s \notin crossed' \cup overflown' /\ EXP'[s] = e =>
           /\ e >= 0
           /\ e + Cost(LEVEL[s]) + (IF Climbs(j) THEN Price(LEVEL[s]) ELSE 0) = balance'[s]
  PROVE  FightInv'
<1>1. Busy(job[w]) = {s} /\ Npc \cap Busy(job[w]) = {}
  BY Own
<1>2. /\ EXP \in [Player -> CInt] /\ EXP' = [EXP EXCEPT ![s] = Wrapped(e)]
      /\ Wrapped(e) \in CInt /\ (e \in CInt => Wrapped(e) = e)
      /\ e \notin CInt => s \in overflown'
      /\ Noted
  BY Wraps DEF StoreExp, FightInv, TypeInv, Numbers, Noted
<1>3. Frame(w) /\ Numbers'
  BY <1>1, <1>2 DEF Frame, FightInv, TypeInv, Numbers
<1>4. Solvent(s)'
  <2> SUFFICES ASSUME s \notin crossed' \cup overflown'
               PROVE  /\ EXP'[s] >= 0 /\ LEVEL[s] >= 1
                      /\ EXP'[s] + Cost(LEVEL[s])
                           + (IF Climbing(s)' THEN Price(LEVEL[s]) ELSE 0) = balance'[s]
    BY DEF Solvent, Cost, Price
  <2>1. EXP'[s] = e
    BY <1>2
  <2>2. LEVEL[s] >= 1
    BY <1>2, Turn DEF FightInv, Sound, Solvent, Noted
  <2>3. Climbing(s)' <=> Climbs(j)
    BY OwnWay
  <2> QED
    BY <2>1, <2>2, <2>3
<1>5. Armed(s)'
  BY ArmedKept DEF Arms
<1>6. Whole(s)'
  BY <1>2, Turn, WholeKept
<1> QED
  BY <1>1, <1>3, <1>4, <1>5, <1>6, WriteStep DEF Sound

\* What is booked for a player that one worker is busy with.
LEMMA Booked ==
  ASSUME FightInv, NEW w \in Worker, NEW s \in Player, job[w].player = s,
         job[w].at \in {"gain_store", "halve_store"},
         NEW e \in Int, Book(s, e)
  PROVE  /\ balance' \in [Player -> Int]
         /\ \A p \in Player \ {s} : balance'[p] = balance[p]
         /\ s \notin crossed \cup overflown =>
              /\ balance'[s] = balance[s] + e /\ job[w].reg = EXP[s] /\ EXP[s] >= 0
              /\ s \notin crossed' /\ (\E j \in Job : Continue(w, j)) =>
                   EXP[s] + Cost(LEVEL[s]) = balance[s]
<1>1. balance \in [Player -> Int]
  BY DEF FightInv, TypeInv, Numbers
<1>2. balance' = [balance EXCEPT ![s] = IF s \in crossed \cup overflown THEN 0
                                        ELSE balance[s] + e]
  BY <1>1 DEF Book
<1>3. balance' \in [Player -> Int] /\ \A p \in Player \ {s} : balance'[p] = balance[p]
  <2>1. (IF s \in crossed \cup overflown THEN 0 ELSE balance[s] + e) \in Int
    BY <1>1
  <2> QED
    BY <1>1, <1>2, <2>1
<1>4. ASSUME s \notin crossed \cup overflown
      PROVE  balance'[s] = balance[s] + e /\ job[w].reg = EXP[s] /\ EXP[s] >= 0
  BY <1>1, <1>2, <1>4 DEF FightInv, Knows, Scored, Sound, Solvent
<1>5. ASSUME s \notin crossed \cup overflown, s \notin crossed', NEW j \in Job, Continue(w, j)
      PROVE  EXP[s] + Cost(LEVEL[s]) = balance[s]
  <2>1. ~ Climbing(s)
    BY <1>5, OwnWay DEF Climbs
  <2>2. EXP[s] + Cost(LEVEL[s]) + 0 = balance[s]
    BY <1>5, <2>1 DEF FightInv, Sound, Solvent
  <2>3. EXP[s] \in Int /\ Cost(LEVEL[s]) \in Int
    BY LevelCost, Constants DEF FightInv, TypeInv, Numbers, Word, CInt
  <2> QED
    BY <2>2, <2>3
<1> QED
  BY <1>3, <1>4, <1>5

LEMMA GainStoreStep ==
  ASSUME FightInv, NEW w \in Worker, GainStore(w)
  PROVE  FightInv'
<1> DEFINE j == Moved(w, "level")
<1>1. Continue(w, j) /\ job[w].at = "gain_store"
  BY DEF GainStore, Goto, Moved
<1>2. PICK s \in Player : job[w].player = s
  BY <1>1, Own
<1>3. j \in Job /\ j.at = "level" /\ j.player = s
  BY <1>1, <1>2, MovedJob DEF Places
<1>4. PICK worth \in Int : worth = Worth[job[w].npc] /\ worth >= 0
  BY <1>1, Own, Constants DEF Word
<1>5. PICK e \in Int : e = job[w].reg + worth
  BY Own
<1>6. StoreExp(s, e) /\ Book(s, worth)
  BY <1>2, <1>4, <1>5 DEF GainStore
<1> HIDE DEF j
<1>7. Scored(job[w])'
  BY <1>1, <1>3, Turn DEF Scored, Climbs
<1>8. /\ EXP[s] \in Int /\ Cost(LEVEL[s]) \in Int
  BY LevelCost, Constants DEF FightInv, TypeInv, Numbers, Word, CInt
<1>9. /\ balance' \in [Player -> Int]
      /\ \A p \in Player \ {s} : balance'[p] = balance[p]
  BY <1>1, <1>2, <1>6, Booked
<1>10. ASSUME s \notin crossed' \cup overflown'
       PROVE  e >= 0 /\ e + Cost(LEVEL[s]) + (IF Climbs(j) THEN Price(LEVEL[s]) ELSE 0)
                          = balance'[s]
  <2>1. s \notin crossed \cup overflown
    BY <1>1, <1>3, <1>6, <1>10, Turn DEF StoreExp
  <2>2. /\ balance'[s] = balance[s] + worth /\ e = EXP[s] + worth /\ EXP[s] >= 0
        /\ EXP[s] + Cost(LEVEL[s]) = balance[s]
    BY <1>1, <1>2, <1>3, <1>5, <1>6, <1>10, <2>1, Booked
  <2>3. ~ Climbs(j)
    BY <1>3 DEF Climbs
  <2> QED
    BY <1>4, <1>8, <2>2, <2>3
<1>11. UNCHANGED <<HP, LEVEL, ATTACK, is_dummy, is_die, away, reviving, credits, garbled>>
  BY DEF GainStore, body
<1> QED
  BY <1>1, <1>2, <1>3, <1>6, <1>7, <1>9, <1>10, <1>11, ExpStep

LEMMA HalveStoreStep ==
  ASSUME FightInv, NEW w \in Worker, HalveStore(w)
  PROVE  FightInv'
<1> DEFINE j == Moved(w, "mourn")
<1>1. Continue(w, j) /\ job[w].at = "halve_store"
  BY DEF HalveStore, Goto, Moved
<1>2. PICK s \in Player : job[w].player = s
  BY <1>1, Own
<1>3. j \in Job /\ j.at = "mourn" /\ j.player = s
  BY <1>1, <1>2, MovedJob DEF Places
<1>4. PICK reg \in Int : reg = job[w].reg
  BY Own
<1>5. PICK e \in Int : e = Halved(reg)
  BY <1>4 DEF Halved, Quotient
<1>6. PICK d \in Int : d = e - reg /\ StoreExp(s, e) /\ Book(s, d)
  BY <1>2, <1>4, <1>5 DEF HalveStore
<1> HIDE DEF j
<1>7. Scored(job[w])'
  BY <1>1, <1>3, Turn DEF Scored, Climbs
<1>8. /\ EXP[s] \in Int /\ EXP[s] \in CInt /\ Cost(LEVEL[s]) \in Int
  BY LevelCost, Constants DEF FightInv, TypeInv, Numbers, Word, CInt
<1>9. /\ balance' \in [Player -> Int]
      /\ \A p \in Player \ {s} : balance'[p] = balance[p]
  BY <1>1, <1>2, <1>6, Booked
<1>10. ASSUME s \notin crossed' \cup overflown'
       PROVE  e >= 0 /\ e + Cost(LEVEL[s]) + (IF Climbs(j) THEN Price(LEVEL[s]) ELSE 0)
                          = balance'[s]
  <2>1. s \notin crossed \cup overflown
    BY <1>1, <1>3, <1>6, <1>10, Turn DEF StoreExp
  <2>2. /\ balance'[s] = balance[s] + d /\ reg = EXP[s] /\ EXP[s] >= 0
        /\ EXP[s] + Cost(LEVEL[s]) = balance[s]
    BY <1>1, <1>2, <1>3, <1>4, <1>6, <1>10, <2>1, Booked
  <2>3. ~ Climbs(j)
    BY <1>3 DEF Climbs
  <2>4. e >= 0
    BY <1>5, <1>8, <2>2, HalvedFacts
  <2> QED
    BY <1>6, <1>8, <2>2, <2>3, <2>4
<1>11. UNCHANGED <<HP, LEVEL, ATTACK, is_dummy, is_die, away, reviving, credits, garbled>>
  BY DEF HalveStore, body
<1> QED
  BY <1>1, <1>2, <1>3, <1>6, <1>7, <1>9, <1>10, <1>11, ExpStep

LEMMA PayStoreStep ==
  ASSUME FightInv, NEW w \in Worker, PayStore(w)
  PROVE  FightInv'
<1> DEFINE j == Moved(w, "rise")
<1>1. Continue(w, j) /\ job[w].at = "pay_store"
  BY DEF PayStore, Goto, Moved
<1>2. PICK s \in Player : job[w].player = s
  BY <1>1, Own
<1>3. j \in Job /\ j.at = "rise" /\ j.player = s
  BY <1>1, <1>2, MovedJob DEF Places
<1>4. PICK e \in Int : e = job[w].reg - job[w].max_exp
  BY Own
<1>5. StoreExp(s, e)
  BY <1>2, <1>4 DEF PayStore, Paid
<1> HIDE DEF j
<1>6. UNCHANGED <<HP, LEVEL, ATTACK, is_dummy, is_die, away, reviving, credits, garbled, balance>>
  BY DEF PayStore, body
<1>7. ASSUME s \notin crossed' \cup overflown'
      PROVE  /\ s \notin crossed \cup overflown
             /\ e = EXP[s] - Price(LEVEL[s]) /\ EXP[s] >= Price(LEVEL[s])
             /\ Price(LEVEL[s]) \in CInt
  <2>1. s \notin crossed \cup overflown
    BY <1>1, <1>3, <1>5, <1>7, Turn DEF StoreExp
  <2> QED
    BY <1>1, <1>2, <1>4, <2>1 DEF FightInv, Knows, Scored
<1>8. Scored(job[w])'
  <2>1. job'[w] = j
    BY <1>1, <1>3, Turn
  <2> QED
    BY <1>3, <1>6, <1>7, <2>1 DEF Scored, Climbs, Price
<1>9. balance \in [Player -> Int]
  BY DEF FightInv, TypeInv, Numbers
<1>10. /\ EXP[s] \in Int /\ Cost(LEVEL[s]) \in Int /\ Price(LEVEL[s]) \in Int
  BY LevelCost, Constants DEF FightInv, TypeInv, Numbers, Word, CInt
<1>11. ASSUME s \notin crossed' \cup overflown'
       PROVE  e >= 0 /\ e + Cost(LEVEL[s]) + (IF Climbs(j) THEN Price(LEVEL[s]) ELSE 0)
                          = balance'[s]
  <2>1. ~ Climbing(s)
    BY <1>1, <1>2, <1>3, <1>11, OwnWay DEF Climbs
  <2>2. EXP[s] + Cost(LEVEL[s]) + 0 = balance[s]
    BY <1>7, <1>11, <2>1 DEF FightInv, Sound, Solvent
  <2>3. Climbs(j)
    BY <1>3 DEF Climbs
  <2> QED
    BY <1>6, <1>7, <1>10, <1>11, <2>2, <2>3
<1> QED
  BY <1>1, <1>2, <1>3, <1>5, <1>6, <1>8, <1>9, <1>11, ExpStep

-----------------------------------------------------------------------------
(***************************************************************************)
(* The steps that write the level, the attack and the timers.              *)
(***************************************************************************)
LEMMA RiseStoreStep ==
  ASSUME FightInv, NEW w \in Worker, RiseStore(w)
  PROVE  FightInv'
<1> DEFINE j == Moved(w, "heal")
<1>1. Continue(w, j) /\ job[w].at = "rise_store" /\ Noted
  BY DEF RiseStore, Goto, Moved, Noted
<1>2. PICK s \in Player :
        job[w].player = s /\ Busy(job[w]) = {s} /\ Npc \cap Busy(job[w]) = {}
  BY <1>1, Own
<1>3. j \in Job /\ j.at = "heal" /\ j.player = s
  BY <1>1, <1>2, MovedJob DEF Places
<1> HIDE DEF j
<1>4. PICK l \in Word : l = (job[w].reg + 1) % WORD
  BY Own, Constants DEF Word
<1>5. LEVEL \in [Player -> Word] /\ LEVEL' = [LEVEL EXCEPT ![s] = l]
  BY <1>2, <1>4 DEF RiseStore, FightInv, TypeInv, Numbers
<1>6. UNCHANGED <<HP, ATTACK, EXP, overflown, balance, is_dummy, reviving, is_die, away, credits>>
  BY DEF RiseStore, body
<1>7. Frame(w) /\ Numbers'
  BY <1>1, <1>2, <1>5, <1>6 DEF Frame, FightInv, TypeInv, Numbers
<1>8. LEVEL[s] \in Nat /\ HP[s] \in Nat /\ EXP[s] \in Int
  BY Constants DEF FightInv, TypeInv, Numbers, Word, CInt
<1>9. ASSUME s \notin crossed' \cup overflown'
      PROVE  l = LEVEL[s] + 1 /\ Solvent(s) /\ s \notin crossed \cup overflown
  <2>1. s \notin crossed \cup overflown
    BY <1>1, <1>3, <1>9, Turn DEF Noted
  <2>2. job[w].reg = LEVEL[s] /\ Price(LEVEL[s]) \in CInt
    BY <1>1, <1>2, <2>1 DEF FightInv, Knows, Scored, Climbs
  <2> QED
    BY <1>4, <1>5, <2>1, <2>2, LevelFits DEF FightInv, Sound
<1>10. Solvent(s)'
  <2> SUFFICES ASSUME s \notin crossed' \cup overflown'
               PROVE  /\ EXP[s] >= 0 /\ l >= 1
                      /\ EXP[s] + Cost(l) + (IF Climbing(s)' THEN Price(l) ELSE 0) = balance[s]
    BY <1>5, <1>6 DEF Solvent, Cost, Price
  <2>1. Climbing(s) /\ ~ Climbing(s)'
    BY <1>1, <1>2, <1>3, OwnWay DEF Climbs
  <2>2. EXP[s] >= 0 /\ EXP[s] + Cost(LEVEL[s]) + Price(LEVEL[s]) = balance[s]
    BY <1>9, <2>1 DEF Solvent
  <2>3. /\ Cost(LEVEL[s] + 1) = Cost(LEVEL[s]) + Price(LEVEL[s])
        /\ Cost(LEVEL[s]) \in Int /\ Price(LEVEL[s]) \in Nat
    BY <1>8, LevelCost
  <2> QED
    BY <1>8, <1>9, <2>1, <2>2, <2>3
<1>11. Armed(s)'
  <2>1. s \notin crossed' => Arming(s)'
    BY <1>1, <1>2, <1>3, OwnWay DEF Arms
  <2> QED
    BY <2>1 DEF Armed
<1>12. Whole(s)'
  <2> SUFFICES ASSUME s \notin Abused' \cup overflown', ~ is_dummy[s], l \in 1 .. TopLevel
               PROVE  HP[s] <= FullHp(l)
    BY <1>5, <1>6 DEF Whole, FullHp
  <2>1. s \notin Abused \cup overflown /\ l = LEVEL[s] + 1 /\ LEVEL[s] >= 1
    BY <1>1, <1>9 DEF Abused, Noted, Solvent
  <2>2. LEVEL[s] \in 1 .. TopLevel
    BY <1>8, <2>1, Constants
  <2>3. HP[s] <= FullHp(LEVEL[s])
    BY <2>1, <2>2 DEF FightInv, Sound, Whole
  <2>4. FullHp(LEVEL[s]) \in Nat /\ FullHp(LEVEL[s]) <= FullHp(l) /\ FullHp(l) \in Nat
    BY <1>8, <2>1, FullHpGrows
  <2> QED
    BY <1>8, <2>3, <2>4
<1>13. Scored(job[w])'
  BY <1>1, <1>3, Turn DEF Scored, Climbs
<1> QED
  BY <1>1, <1>2, <1>3, <1>7, <1>10, <1>11, <1>12, <1>13, WriteStep DEF Sound

LEMMA ArmStep ==
  ASSUME FightInv, NEW w \in Worker, Arm(w)
  PROVE  FightInv'
<1>1. job[w].at = "arm" /\ Noted
  BY DEF Arm, Noted
<1>2. PICK s \in Player :
        job[w].player = s /\ Busy(job[w]) = {s} /\ Npc \cap Busy(job[w]) = {}
  BY <1>1, Own
<1>3. PICK j \in Job : Continue(w, j) /\ j.at = "aim" /\ j.player = s
  BY <1>1, <1>2, LoopingJob DEF Arm, NextNpc, Looping
<1>4. LEVEL[s] \in Nat /\ AttackOf(LEVEL[s]) \in Word
  BY LevelCost, Constants DEF FightInv, TypeInv, Numbers, Word
<1>5. ATTACK \in [Player -> Word] /\ ATTACK' = [ATTACK EXCEPT ![s] = AttackOf(LEVEL[s])]
  BY <1>2 DEF FightInv, TypeInv, Numbers, Arm
<1>6. UNCHANGED <<HP, LEVEL, EXP, overflown, balance, is_dummy, reviving, is_die, away, credits>>
  BY DEF Arm, body
<1>7. Frame(w) /\ Numbers'
  BY <1>1, <1>2, <1>4, <1>5, <1>6 DEF Frame, FightInv, TypeInv, Numbers
<1>8. Solvent(s)'
  BY <1>1, <1>3, <1>6, SolventKept DEF Climbs
<1>9. Armed(s)'
  BY <1>5, <1>6 DEF Armed, AttackOf
<1>10. Whole(s)'
  BY <1>1, <1>3, <1>6, Turn, WholeKept
<1>11. Scored(job[w])'
  BY <1>3, Turn DEF Scored, Climbs
<1> QED
  BY <1>2, <1>3, <1>7, <1>8, <1>9, <1>10, <1>11, WriteStep DEF Sound

LEMMA MournStep ==
  ASSUME FightInv, NEW w \in Worker, Mourn(w)
  PROVE  FightInv'
<1>1. Continue(w, Idle) /\ job[w].at = "mourn" /\ Noted
  BY DEF Mourn, Noted, purse
<1>2. PICK s \in Player :
        job[w].player = s /\ Busy(job[w]) = {s} /\ Npc \cap Busy(job[w]) = {}
  BY <1>1, Own
<1>3. /\ reviving[s] \in 0 .. MaxRevive - 1 /\ reviving \in [Player -> 0 .. MaxRevive]
      /\ reviving' = [reviving EXCEPT ![s] = reviving[s] + 1] /\ MaxRevive \in Nat
  BY <1>2, Constants DEF Mourn, FightInv, TypeInv, Numbers
<1>4. reviving' \in [Player -> 0 .. MaxRevive]
  BY <1>3
<1>5. UNCHANGED <<HP, LEVEL, ATTACK, EXP, overflown, balance, is_dummy, is_die, away, credits>>
  BY DEF Mourn, purse, body
<1>6. Frame(w) /\ Numbers'
  BY <1>1, <1>4, <1>5 DEF Frame, FightInv, TypeInv, Numbers
<1>7. Idle \in Job /\ Idle.at = "idle" /\ Idle.player = NoOne
  BY IdleJob DEF Idle
<1>8. Sound(s)' /\ Scored(job[w])'
  <2>1. Solvent(s)' /\ Armed(s)'
    BY <1>1, <1>5, <1>7, SolventKept, ArmedKept DEF Climbs, Arms
  <2>2. Whole(s)'
    BY <1>1, <1>5, <1>7, Turn, WholeKept
  <2>3. Scored(job[w])'
    BY <1>1, <1>7, Turn DEF Scored, Climbs
  <2> QED
    BY <2>1, <2>2, <2>3 DEF Sound
<1> QED
  BY <1>1, <1>2, <1>6, <1>7, <1>8, WriteStep

(***************************************************************************)
(* The steps that take an NPC off the map and back onto it.                *)
(***************************************************************************)
(* Who kills is the first, unless two workers met at the NPC.              *)
LEMMA SlayStep ==
  ASSUME FightInv, NEW w \in Worker, Slay(w)
  PROVE  FightInv'
<1> DEFINE j == Moved(w, "gain")
<1>1. Continue(w, j) /\ job[w].at = "slay" /\ Noted
  BY DEF Slay, Goto, Moved, Noted, purse
<1>2. PICK s \in Player : job[w].player = s
  BY <1>1, Own
<1>3. PICK n \in Npc : job[w].npc = n /\ Busy(job[w]) = {s, n} /\ s # n
  BY <1>1, <1>2, Own, Constants
<1>4. j \in Job /\ j.at = "gain" /\ j.player = s
  BY <1>1, <1>2, MovedJob DEF Places
<1> HIDE DEF j
<1>5. /\ HP' = [HP EXCEPT ![n] = 0] /\ HP \in [Player \cup Npc -> Word] /\ 0 \in Word
      /\ is_die' = [is_die EXCEPT ![n] = TRUE] /\ is_die \in [Npc -> BOOLEAN]
      /\ away' = away \cup {n} /\ away \subseteq Npc
      /\ credits' = [credits EXCEPT ![n] = credits[n] + 1] /\ credits \in [Npc -> Nat]
      /\ UNCHANGED <<LEVEL, ATTACK, EXP, balance, is_dummy, reviving>>
  BY <1>3, Constants DEF Slay, Parked, FightInv, TypeInv, Numbers, Word, purse
<1>6. Frame(w) /\ Numbers'
  BY <1>1, <1>3, <1>5 DEF Frame, FightInv, TypeInv, Numbers
<1>7. crossed \subseteq crossed' /\ Aimed(job[w])
  BY <1>1, <1>4, Turn DEF Knows
<1>8. Spared(n)'
  <2>1. n \notin crossed' => credits'[n] = 1
    BY <1>1, <1>3, <1>5, <1>7 DEF Aimed
  <2>2. HP'[n] = 0
    BY <1>5
  <2>3. Life[n] \in Nat
    BY Constants DEF Word
  <2> QED
    BY <1>5, <2>1, <2>2, <2>3 DEF Spared
<1>9. Sound(s)'
  <2>1. Solvent(s)' /\ Armed(s)'
    BY <1>1, <1>4, <1>5, SolventKept, ArmedKept DEF Climbs, Arms
  <2>2. Whole(s)'
    BY <1>1, <1>3, <1>5, <1>7, WholeKept
  <2> QED
    BY <2>1, <2>2 DEF Sound
<1>10. Scored(job[w])'
  BY <1>1, <1>4, Turn DEF Scored, Climbs
<1> QED
  BY <1>1, <1>2, <1>3, <1>4, <1>6, <1>8, <1>9, <1>10, Constants, WriteStep

LEMMA StepStoreStep ==
  ASSUME FightInv, NEW w \in Worker, StepStore(w)
  PROVE  FightInv'
<1>1. Continue(w, Idle) /\ job[w].at = "step" /\ Noted
  BY DEF StepStore, Noted, purse
<1>2. PICK n \in Npc : job[w].npc = n /\ Busy(job[w]) = {n} /\ job[w].player = NoOne
  BY <1>1, Own
<1>3. /\ away' = away \ {n}
      /\ UNCHANGED <<HP, LEVEL, ATTACK, EXP, balance, is_dummy, is_die, reviving, credits>>
  BY <1>2 DEF StepStore, purse
<1>4. Frame(w) /\ Numbers'
  BY <1>1, <1>2, <1>3 DEF Frame, FightInv, TypeInv, Numbers
<1>5. Spared(n)'
  <2>1. crossed \subseteq crossed' /\ Aimed(job[w]) /\ Spared(n)
    BY <1>1, IdleJob, Turn DEF Knows, FightInv
  <2> QED
    BY <1>1, <1>2, <1>3, <2>1 DEF Aimed, Spared, Abused, Noted
<1>6. Knows(job[w])'
  BY <1>1, IdleJob, Turn DEF Knows, Aimed, Weighed, Scored, Climbs
<1>7. \A s \in Player : job[w].player # s
  BY <1>2, Constants
<1> QED
  BY <1>1, <1>2, <1>4, <1>5, <1>6, <1>7, IdleJob, OwnStep DEF Climbs, Arms

(***************************************************************************)
(* The handlers of one step: they may meet a worker.                       *)
(***************************************************************************)
LEMMA AtOnce ==
  ASSUME FightInv, NEW s \in Player, NEW h \in Word, HP' = [HP EXCEPT ![s] = h],
         Meanwhile(s), is_dummy' \in [Player -> BOOLEAN],
         \A p \in Player \ {s} : is_dummy'[p] = is_dummy[p],
         reviving' \in [Player -> 0 .. MaxRevive],
         UNCHANGED <<job, garbled, purse, body>>,
         Whole(s)'
  PROVE  FightInv'
<1>1. /\ UNCHANGED <<LEVEL, ATTACK, EXP, overflown, balance, is_die, away, credits, job, garbled>>
      /\ crossed \subseteq crossed'
      /\ \A w \in Worker : s \in Busy(job[w]) => s \in crossed'
  BY DEF Meanwhile, purse, body
<1>2. /\ HP \in [Player \cup Npc -> Word] /\ HP' \in [Player \cup Npc -> Word]
      /\ HP'[s] = h /\ \A x \in (Player \cup Npc) \ {s} : HP'[x] = HP[x]
  BY DEF FightInv, TypeInv, Numbers
<1>3. TypeInv'
  BY <1>1, <1>2 DEF FightInv, TypeInv, Numbers
<1>4. Exclusive'
  BY <1>1 DEF FightInv, Exclusive, Busy
<1>5. ASSUME NEW w \in Worker PROVE Knows(job[w])'
  <2>1. job[w] \in Job /\ Knows(job[w]) /\ job'[w] = job[w]
    BY <1>1 DEF FightInv, TypeInv
  <2>2. Aimed(job[w])'
    BY <1>1, <2>1 DEF Knows, Aimed
  <2>3. Weighed(job[w])'
    <3> SUFFICES ASSUME job[w].at \in {"hit", "hit_store", "wound", "wound_store"}
                 PROVE  Victim(job[w]) \notin crossed' =>
                          /\ Victim(job[w]) \notin crossed
                          /\ HP'[Victim(job[w])] = HP[Victim(job[w])]
      BY <1>1, <2>1 DEF Knows, Weighed, Victim, Survives
    <3>1. Victim(job[w]) \in Player \cup Npc /\ Victim(job[w]) \in Busy(job[w])
      BY <2>1, Constants DEF Job, Busy, Victim
    <3> QED
      BY <1>1, <1>2, <3>1
  <2>4. Scored(job[w])'
    BY <1>1, <2>1 DEF Knows, Scored, Climbs, Price
  <2> QED
    BY <2>2, <2>3, <2>4 DEF Knows
<1>6. ASSUME NEW p \in Player PROVE Sound(p)'
  <2>1. Solvent(p) /\ Armed(p) /\ Whole(p)
    BY DEF FightInv, Sound
  <2>2. Solvent(p)'
    BY <1>1, <2>1 DEF Solvent, Climbing, Climbs, Cost, Price
  <2>3. Armed(p)'
    BY <1>1, <2>1 DEF Armed, Arming, Arms, AttackOf
  <2>4. Whole(p)'
    BY <1>1, <1>2, <2>1 DEF Whole, Abused, FullHp
  <2> QED
    BY <2>2, <2>3, <2>4 DEF Sound
<1>7. ASSUME NEW n \in Npc PROVE Spared(n)'
  <2>1. HP'[n] = HP[n]
    BY <1>2, Constants
  <2> QED
    BY <1>1, <2>1, SparedKept DEF Noted
<1> QED
  BY <1>3, <1>4, <1>5, <1>6, <1>7 DEF FightInv

LEMMA ResurrectionStep ==
  ASSUME FightInv, NEW s \in Player, Resurrection(s)
  PROVE  FightInv'
<1>1. LEVEL[s] \in Word
  BY DEF FightInv, TypeInv, Numbers
<1>2. PICK h \in Word : h \in cal_hp(LEVEL[s]) /\ HP' = [HP EXCEPT ![s] = h]
  BY <1>1, HealTyped DEF Resurrection
<1>3. reviving' \in [Player -> 0 .. MaxRevive]
  <2>1. /\ reviving[s] \in 1 .. MaxRevive /\ reviving \in [Player -> 0 .. MaxRevive]
        /\ reviving' = [reviving EXCEPT ![s] = reviving[s] - 1] /\ MaxRevive \in Nat
    BY Constants DEF Resurrection, FightInv, TypeInv, Numbers
  <2> QED
    BY <2>1
<1>4. HP'[s] = h /\ LEVEL' = LEVEL
  BY <1>2 DEF Resurrection, FightInv, TypeInv, Numbers, purse
<1>5. Whole(s)'
  <2>1. LEVEL[s] \in 1 .. TopLevel => h = FullHp(LEVEL[s]) /\ FullHp(LEVEL[s]) \in Nat
    BY <1>2, Constants, FullHpGrows DEF cal_hp
  <2> QED
    BY <1>4, <2>1 DEF Whole, FullHp
<1> QED
  BY <1>2, <1>3, <1>5, AtOnce DEF Resurrection, FightInv, TypeInv, Numbers

LEMMA StressTestStep ==
  ASSUME FightInv, NEW s \in Player, StressTest(s)
  PROVE  FightInv'
<1>1. /\ is_dummy \in [Player -> BOOLEAN] /\ is_dummy' = [is_dummy EXCEPT ![s] = TRUE]
      /\ reviving' \in [Player -> 0 .. MaxRevive]
  BY DEF StressTest, FightInv, TypeInv, Numbers
<1>2. Whole(s)'
  BY <1>1 DEF Whole
<1> QED
  BY <1>1, <1>2, Constants, AtOnce DEF StressTest

(* Who is dead matters to nothing that the invariant says.                 *)
LEMMA UnnumberedStep ==
  ASSUME FightInv, is_die' \in [Npc -> BOOLEAN],
         UNCHANGED <<HP, is_dummy, reviving, job, crossed, garbled, purse, away, credits>>
  PROVE  FightInv'
<1>1. TypeInv'
  BY DEF purse, FightInv, TypeInv, Numbers
<1>2. Exclusive'
  BY DEF FightInv, Exclusive, Busy
<1>3. \A w \in Worker : Knows(job[w])'
  BY DEF purse, FightInv, Knows, Aimed, Weighed, Victim, Scored, Climbs, Survives, Price
<1>4. ASSUME NEW s \in Player PROVE Sound(s)'
  <2>1. Solvent(s) /\ Armed(s) /\ Whole(s)
    BY DEF FightInv, Sound
  <2>2. Solvent(s)'
    BY <2>1 DEF purse, Solvent, Climbing, Climbs, Cost, Price
  <2>3. Armed(s)' /\ Whole(s)'
    BY <2>1 DEF purse, Armed, Arming, Arms, AttackOf, Whole, Abused, FullHp
  <2> QED
    BY <2>2, <2>3 DEF Sound
<1>5. \A n \in Npc : Spared(n)'
  BY DEF FightInv, Spared, Abused
<1> QED
  BY <1>1, <1>2, <1>3, <1>4, <1>5 DEF FightInv

LEMMA NpcResurrectionStep ==
  ASSUME FightInv, NEW n \in Npc, NpcResurrection(n)
  PROVE  FightInv'
<1>1. is_die' \in [Npc -> BOOLEAN]
  BY DEF NpcResurrection, FightInv, TypeInv, Numbers
<1> QED
  BY <1>1, UnnumberedStep DEF NpcResurrection

LEMMA StutterStep ==
  ASSUME FightInv, UNCHANGED vars
  PROVE  FightInv'
<1>1. is_die' \in [Npc -> BOOLEAN]
  BY DEF vars, body, FightInv, TypeInv, Numbers
<1> QED
  BY <1>1, UnnumberedStep DEF vars, body

-----------------------------------------------------------------------------

(***************************************************************************)
(* The theorems.                                                           *)
(***************************************************************************)

(* Every step keeps the invariant.                                         *)
LEMMA FightNext ==
  ASSUME FightInv, [Next]_vars
  PROVE  FightInv'
<1>1. ASSUME NEW w \in Worker, NEW s \in Player, StartAttack(w, s)
      PROVE  FightInv'
  BY <1>1, StartAttackStep
<1>2. ASSUME NEW w \in Worker, NEW s \in Player, NEW n \in Npc, StartStrike(w, n, s)
      PROVE  FightInv'
  BY <1>2, StartStrikeStep
<1>3. ASSUME NEW w \in Worker, NEW n \in Npc, StepLoad(w, n)
      PROVE  FightInv'
  BY <1>3, StepLoadStep
<1>4. ASSUME NEW w \in Worker, Proceed(w)
      PROVE  FightInv'
  BY <1>4, AimStep, AttackOverStep, LoadSteps, HitStoreStep, SlayStep, GainStoreStep,
     LevelTestStep, PayStoreStep, RiseStoreStep, HealStep, ArmStep, WoundStoreStep,
     FallStep, HalveStoreStep, MournStep, StepStoreStep DEF Proceed
<1>5. ASSUME NEW s \in Player, Resurrection(s) \/ StressTest(s)
      PROVE  FightInv'
  BY <1>5, ResurrectionStep, StressTestStep
<1>6. ASSUME NEW n \in Npc, NpcResurrection(n)
      PROVE  FightInv'
  BY <1>6, NpcResurrectionStep
<1>7. CASE UNCHANGED vars
  BY <1>7, StutterStep
<1> QED
  BY <1>1, <1>2, <1>3, <1>4, <1>5, <1>6, <1>7 DEF Next

(* The invariant holds in every reachable state.                           *)
THEOREM FightInductive == Spec => []FightInv
<1>1. Init => FightInv
  BY InitInv
<1>2. FightInv /\ [Next]_vars => FightInv'
  BY FightNext
<1> QED
  BY <1>1, <1>2, PTL DEF Spec

(* The numbers stay in their fields, and the workers with players and NPCs.*)
THEOREM NumbersTyped == Spec => []TypeOK
<1>1. FightInv => TypeOK
  <2> SUFFICES ASSUME FightInv PROVE TypeOK
    OBVIOUS
  <2>1. ASSUME NEW w \in Worker PROVE Busy(job[w]) \subseteq Player \cup Npc
    <3>1. job[w] \in Job /\ job[w] \in Fields
      BY Own
    <3> QED
      BY <3>1 DEF Job, Fields, Busy
  <2> QED
    BY <2>1 DEF FightInv, TypeInv, Numbers, TypeOK
<1> QED
  BY <1>1, FightInductive, PTL

(* A blow gives hit points to nobody, as long as its damage is defined and *)
(* one worker at a time is busy with the victim.                           *)
THEOREM NobodyUnwraps == Spec => []NoWrap
<1>1. FightInv => NoWrap
  <2> SUFFICES ASSUME FightInv PROVE NoWrap
    OBVIOUS
  <2>1. NpcUnwrapped
    <3> SUFFICES ASSUME NEW n \in Npc, n \notin Abused PROVE ~ (HP[n] > Life[n])
      BY DEF NpcUnwrapped
    <3>1. HP[n] <= Life[n] /\ HP[n] \in Word /\ Life[n] \in Word
      BY Constants DEF FightInv, Spared, TypeInv, Numbers
    <3> QED
      BY <3>1, Constants DEF Word
  <2>2. ASSUME NEW s \in Player, ~ is_dummy[s], LEVEL[s] \in 1 .. TopLevel,
               s \notin Abused \cup overflown
        PROVE  ~ (HP[s] > FullHp(LEVEL[s]))
    <3>1. HP[s] <= FullHp(LEVEL[s]) /\ HP[s] \in Word /\ FullHp(LEVEL[s]) \in Nat
      BY <2>2, Constants, FullHpGrows DEF FightInv, Sound, Whole, TypeInv, Numbers
    <3> QED
      BY <3>1, Constants DEF Word
  <2> QED
    BY <2>1, <2>2 DEF NoWrap
<1> QED
  BY <1>1, FightInductive, PTL

(* A death is rewarded once, unless another worker strikes at the NPC or   *)
(* moves it meanwhile.                                                     *)
THEOREM DeathsRewardedOnce == Spec => []RewardedOnce
<1>1. FightInv => RewardedOnce
  <2> SUFFICES ASSUME FightInv, NEW n \in Npc, n \notin crossed PROVE ~ (credits[n] > 1)
    BY DEF RewardedOnce
  <2>1. credits[n] \in Nat /\ credits[n] <= 1
    BY DEF FightInv, TypeInv, Numbers, Spared
  <2> QED
    BY <2>1
<1> QED
  BY <1>1, FightInductive, PTL

(* What a player served by one worker at a time holds and what its levels  *)
(* cost is what it was given less what its deaths took.                    *)
THEOREM ExperienceKept == Spec => []ExpAccounted
<1>1. FightInv => ExpAccounted
  <2> SUFFICES ASSUME FightInv, NEW s \in Player, s \notin crossed \cup overflown,
                      Untouched(s)
               PROVE  EXP[s] + Cost(LEVEL[s]) = balance[s]
    BY DEF ExpAccounted
  <2>1. ~ Climbing(s)
    BY DEF Untouched, Climbing
  <2>2. EXP[s] + Cost(LEVEL[s]) + 0 = balance[s]
    BY <2>1 DEF FightInv, Sound, Solvent
  <2>3. EXP[s] \in Int /\ Cost(LEVEL[s]) \in Int
    BY LevelCost, Constants DEF FightInv, TypeInv, Numbers, Word, CInt
  <2> QED
    BY <2>2, <2>3
<1> QED
  BY <1>1, FightInductive, PTL

(* Nobody who is served by one worker at a time ever owes experience, as   *)
(* long as no int overflows.                                               *)
THEOREM NobodyOwes == Spec => []ExpNotNegative
<1>1. FightInv => ExpNotNegative
  BY DEF FightInv, Sound, Solvent, ExpNotNegative
<1> QED
  BY <1>1, FightInductive, PTL

(* Between level-ups the attack is that of the level.                      *)
THEOREM AttackIsOfLevel == Spec => []AttackFitsLevel
<1>1. FightInv => AttackFitsLevel
  BY DEF FightInv, Sound, Armed, Arming, AttackFitsLevel, Untouched, AttackOf
<1> QED
  BY <1>1, FightInductive, PTL
=============================================================================
