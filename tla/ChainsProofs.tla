---------------------------- MODULE ChainsProofs ----------------------------
(***************************************************************************)
(* The chains are counted, and sleep in front of a player is excused, for  *)
(* any number of players and workers.                                      *)
(***************************************************************************)
EXTENDS ChainsProps, FiniteSetTheorems, TLAPS

(***************************************************************************)
(* The inductive invariant.                                                *)
(***************************************************************************)
\* An EV_MOVE looks at a client there is.
Indexed == \A w \in Worker : job[w].at = "look" => job[w].i \in Player

\* Whom an EV_MOVE has looked past is near only if it came too late.
Passed == \A s \in Player : LookedPast(s) /\ zone[s] # Far => s \in excused

\* Who has the NPC in its list and does not see it has jumped.
Stale == \A s \in listed : zone[s] # InSight => s \in excused

ChainInv == TypeOK /\ ChainsCounted /\ Indexed /\ Passed /\ Stale /\ SleptThrough

RunPlaces == {"push", "look", "doze", "stroll", "again"}

Job == [at : Places, who : 0 .. Players, i : 0 .. Players]

-----------------------------------------------------------------------------

LEMMA Jobs ==
  /\ Idle \in Job /\ Idle.at = "idle"
  /\ \A s \in 0 .. Players : Waking(s) \in Job /\ Waking(s).at = "test"
  /\ Looking(1) \in Job /\ Looking(1).at = "look" /\ Looking(1).i = 1 /\ 1 \in Player
  BY ChainsAssumption DEF Idle, Waking, Looking, Job, Places, Player

(* The workers that hold a chain, when one of them goes on.                *)
LEMMA RunningCount ==
  ASSUME TypeOK, NEW w \in Worker, NEW j, job' = [job EXCEPT ![w] = j]
  PROVE  /\ Cardinality(Running) \in Nat /\ Cardinality(Running') \in Nat
         /\ w \in Running => Cardinality(Running) >= 1
         /\ w \in Running <=> job[w].at \in RunPlaces
         /\ (w \in Running <=> j.at \in RunPlaces) => Cardinality(Running') = Cardinality(Running)
         /\ w \notin Running /\ j.at \in RunPlaces
              => Cardinality(Running') = Cardinality(Running) + 1
         /\ w \in Running /\ j.at \notin RunPlaces
              => Cardinality(Running') = Cardinality(Running) - 1
<1>1. /\ \A v \in Worker : v \in Running <=> job[v].at \in RunPlaces
      /\ \A v \in Worker \ {w} : v \in Running' <=> v \in Running
      /\ w \in Running' <=> j.at \in RunPlaces
      /\ Running \subseteq Worker /\ Running' \subseteq Worker
  BY DEF Running, RunPlaces, TypeOK
<1>2. /\ IsFiniteSet(Running) /\ IsFiniteSet(Running')
      /\ Cardinality(Running) \in Nat /\ Cardinality(Running') \in Nat
  BY <1>1, ChainsAssumption, FS_Subset, FS_CardinalityType
<1>3. (w \in Running <=> j.at \in RunPlaces) => Running' = Running
  BY <1>1
<1>4. ASSUME w \notin Running, j.at \in RunPlaces
      PROVE  Cardinality(Running') = Cardinality(Running) + 1
  <2>1. Running' = Running \cup {w}
    BY <1>1, <1>4
  <2> QED
    BY <1>2, <1>4, <2>1, FS_AddElement
<1>5. ASSUME w \in Running, j.at \notin RunPlaces
      PROVE  Cardinality(Running') = Cardinality(Running) - 1
  <2>1. Running' = Running \ {w}
    BY <1>1, <1>5
  <2> QED
    BY <1>2, <1>5, <2>1, FS_RemoveElement
<1>6. ASSUME w \in Running
      PROVE  Cardinality(Running) >= 1
  <2>1. Cardinality(Running) # 0
    BY <1>2, <1>6, FS_EmptySet
  <2> QED
    BY <1>2, <2>1
<1> QED
  BY <1>1, <1>2, <1>3, <1>4, <1>5, <1>6

LEMMA InitInv == Init => ChainInv
<1> SUFFICES ASSUME Init PROVE ChainInv
  OBVIOUS
<1>1. TypeOK
  BY Jobs DEF Init, TypeOK, Zone, Job
<1>2. Running = {}
  BY Jobs DEF Init, Running
<1>3. ChainsCounted
  BY <1>2, FS_EmptySet DEF Init, ChainsCounted, ChainCount, Number
<1>4. Indexed /\ Passed /\ Stale
  BY Jobs DEF Init, Indexed, Passed, Stale
<1>5. SleptThrough
  BY DEF Init, SleptThrough, InSight, Far
<1> QED
  BY <1>1, <1>3, <1>4, <1>5 DEF ChainInv

LEMMA GotoJob ==
  ASSUME TypeOK, NEW w \in Worker, NEW place \in Places, Goto(w, place)
  PROVE  \E j \in Job : /\ job' = [job EXCEPT ![w] = j]
                        /\ j.at = place /\ j.i = job[w].i
<1> DEFINE j == [job[w] EXCEPT !.at = place]
<1>1. job[w] \in Job
  BY DEF TypeOK, Job
<1>2. j \in Job /\ j.at = place /\ j.i = job[w].i
  BY <1>1 DEF Job
<1>3. job' = [job EXCEPT ![w] = j]
  BY DEF Goto
<1> QED
  BY <1>2, <1>3

(* A packet of s: the worker that takes it holds no chain, before or after.*)
LEMMA PacketStep ==
  ASSUME ChainInv, NEW w \in Worker, NEW s \in Player, NEW z \in Zone,
         NEW j \in Job, job' = [job EXCEPT ![w] = j],
         job[w].at = "idle", j.at \in {"idle", "test"},
         zone' = [zone EXCEPT ![s] = z],
         UNCHANGED <<is_sleeping, moves, races>>,
         listed' \subseteq Player, listed' \ {s} = listed \ {s},
         excused' \subseteq Player, excused \ {s} \subseteq excused',
         z # Far /\ LookedPast(s) => s \in excused',
         s \in listed' /\ z # InSight => s \in excused',
         z = InSight => j.at = "test" \/ (FastAsleep => s \in excused')
  PROVE  ChainInv'
<1>1. TypeOK /\ ChainsCounted /\ Indexed /\ Passed /\ Stale /\ SleptThrough
  BY DEF ChainInv
<1>2. TypeOK'
  BY <1>1 DEF TypeOK, Job
<1>3. /\ \A v \in Worker : v = w \/ job'[v] = job[v]
      /\ job'[w] = j
      /\ \A p \in Player : p = s \/ zone'[p] = zone[p]
      /\ zone'[s] = z
  BY <1>1 DEF TypeOK
<1>4. j.at \notin RunPlaces /\ job[w].at \notin RunPlaces
  BY DEF RunPlaces
<1>5. Cardinality(Running') = Cardinality(Running)
  BY <1>1, <1>4, RunningCount
<1>6. ChainsCounted'
  BY <1>1, <1>5 DEF ChainsCounted, ChainCount, Number
<1>7. Indexed'
  BY <1>1, <1>3 DEF Indexed
<1>8. \A p \in Player : LookedPast(p)' => LookedPast(p)
  BY <1>3 DEF LookedPast
<1>9. Passed' /\ Stale'
  BY <1>1, <1>3, <1>8 DEF Passed, Stale
<1>10. SleptThrough'
  <2> SUFFICES ASSUME FastAsleep', NEW p \in Player, zone'[p] = InSight
               PROVE  p \in excused'
    BY DEF SleptThrough
  <2>1. FastAsleep /\ j.at # "test"
    BY <1>3, <1>4 DEF FastAsleep, Running
  <2> QED
    BY <1>1, <1>3, <2>1 DEF SleptThrough
<1> QED
  BY <1>2, <1>6, <1>7, <1>9, <1>10 DEF ChainInv

LEMMA WalkStep ==
  ASSUME ChainInv, NEW w \in Worker, NEW s \in Player, NEW z \in Zone, Walk(w, s, z)
  PROVE  ChainInv'
<1>1. TypeOK /\ Passed /\ Stale /\ SleptThrough /\ job[w].at = "idle"
  BY DEF ChainInv, Walk, Free
<1>2. PICK j \in Job : /\ job' = [job EXCEPT ![w] = j] /\ j.at \in {"idle", "test"}
                       /\ NewInList(s, z) => j.at = "test"
  <2>1. CASE NewInList(s, z)
    <3>1. Waking(s) \in Job /\ Waking(s).at = "test"
      BY Jobs, ChainsAssumption DEF Player
    <3> QED
      BY <2>1, <3>1 DEF Walk
  <2>2. CASE ~ NewInList(s, z)
    <3>1. job[w] \in Job /\ job' = [job EXCEPT ![w] = job[w]]
      BY <1>1, <2>2 DEF Walk, TypeOK, Job
    <3> QED
      BY <1>1, <2>2, <3>1
  <2> QED
    BY <2>1, <2>2
<1>3. /\ zone' = [zone EXCEPT ![s] = z] /\ zone'[s] = z
      /\ UNCHANGED <<is_sleeping, moves, races>>
      /\ listed' = IF z = InSight THEN listed \cup {s} ELSE listed \ {s}
      /\ excused' = IF z = Far THEN excused \ {s} ELSE excused \cup Late(zone')
  BY <1>1 DEF Walk, TypeOK
<1>4. listed' \subseteq Player /\ listed' \ {s} = listed \ {s}
  BY <1>1, <1>3 DEF TypeOK
<1>5. excused' \subseteq Player /\ excused \ {s} \subseteq excused'
  BY <1>1, <1>3 DEF TypeOK, Late
<1>6. z # Far /\ LookedPast(s) => s \in excused'
  BY <1>1, <1>3 DEF Passed, Late
<1>7. s \in listed' /\ z # InSight => s \in excused'
  BY <1>3
<1>8. z = InSight => j.at = "test" \/ (FastAsleep => s \in excused')
  <2> SUFFICES ASSUME z = InSight, ~ NewInList(s, z), FastAsleep
               PROVE  s \in excused
    BY <1>2, <1>3 DEF InSight, Far
  <2>1. s \in listed
    BY DEF NewInList
  <2> QED
    BY <1>1, <2>1 DEF Stale, SleptThrough
<1> QED
  BY <1>1, <1>2, <1>3, <1>4, <1>5, <1>6, <1>7, <1>8, PacketStep

LEMMA JumpStep ==
  ASSUME ChainInv, NEW w \in Worker, NEW s \in Player, NEW z \in Zone, Jump(w, s, z)
  PROVE  ChainInv'
<1>1. TypeOK /\ Passed /\ Stale /\ SleptThrough /\ job[w].at = "idle"
  BY DEF ChainInv, Jump, Free
<1>2. PICK j \in Job : /\ job' = [job EXCEPT ![w] = j] /\ j.at \in {"idle", "test"}
                       /\ z = InSight => j.at = "test"
  <2>1. CASE z = InSight
    BY <2>1, Jobs, ChainsAssumption DEF Jump
  <2>2. CASE z # InSight
    <3>1. job[w] \in Job /\ job' = [job EXCEPT ![w] = job[w]]
      BY <1>1, <2>2 DEF Jump, TypeOK, Job
    <3> QED
      BY <1>1, <2>2, <3>1
  <2> QED
    BY <2>1, <2>2
<1>3. /\ zone' = [zone EXCEPT ![s] = z] /\ zone'[s] = z
      /\ UNCHANGED <<is_sleeping, moves, races>>
      /\ z = InSight => listed' = listed \cup {s}
      /\ z # InSight => listed' = listed /\ (s \in listed => s \in excused')
      /\ excused \cup Late(zone') \subseteq excused'
      /\ excused' \subseteq excused \cup Late(zone') \cup {s}
  BY <1>1 DEF Jump, TypeOK
<1>4. listed' \subseteq Player /\ listed' \ {s} = listed \ {s}
  BY <1>1, <1>3 DEF TypeOK
<1>5. excused' \subseteq Player /\ excused \ {s} \subseteq excused'
  BY <1>1, <1>3 DEF TypeOK, Late
<1>6. z # Far /\ LookedPast(s) => s \in excused'
  BY <1>1, <1>3 DEF Passed, Late
<1> QED
  BY <1>1, <1>2, <1>3, <1>4, <1>5, <1>6, PacketStep

LEMMA LeaveStep ==
  ASSUME ChainInv, NEW w \in Worker, NEW s \in Player, Leave(w, s)
  PROVE  ChainInv'
<1>1. TypeOK /\ job[w].at = "idle" /\ Far \in Zone /\ Far # InSight
  BY DEF ChainInv, Leave, Free, Zone, Far, InSight
<1>2. job[w] \in Job /\ job' = [job EXCEPT ![w] = job[w]]
  BY <1>1 DEF Leave, TypeOK, Job
<1>3. /\ listed' \subseteq Player /\ listed' \ {s} = listed \ {s} /\ s \notin listed'
      /\ excused' \subseteq Player /\ excused \ {s} \subseteq excused'
  BY <1>1 DEF Leave, TypeOK
<1> QED
  BY <1>1, <1>2, <1>3, PacketStep DEF Leave

(* A step of a worker in wakeup_NPC or in EV_MOVE, but for the stroll.     *)
LEMMA WorkStep ==
  ASSUME ChainInv, NEW w \in Worker, NEW j \in Job, job' = [job EXCEPT ![w] = j],
         UNCHANGED <<zone, listed, excused>>,
         is_sleeping' \in BOOLEAN, moves' \in Nat, races' \in Nat,
         ChainsCounted',
         j.at = "look" => j.i \in Player,
         \A s \in Player : j.at = "doze" \/ (j.at = "look" /\ j.i > s)
                             => zone[s] = Far \/ s \in excused,
         FastAsleep' =>
           \/ FastAsleep
           \/ \A s \in Player : zone[s] = InSight => s \in excused
  PROVE  ChainInv'
<1>1. TypeOK /\ Indexed /\ Passed /\ Stale /\ SleptThrough
  BY DEF ChainInv
<1>2. TypeOK'
  BY <1>1 DEF TypeOK, Job
<1>3. job'[w] = j /\ \A v \in Worker : v = w \/ job'[v] = job[v]
  BY <1>1 DEF TypeOK
<1>4. Indexed' /\ Stale'
  BY <1>1, <1>3 DEF Indexed, Stale
<1>5. Passed'
  BY <1>1, <1>3 DEF Passed, LookedPast
<1>6. SleptThrough'
  BY <1>1 DEF SleptThrough
<1> QED
  BY <1>2, <1>4, <1>5, <1>6 DEF ChainInv

LEMMA TestStep ==
  ASSUME ChainInv, NEW w \in Worker, Test(w)
  PROVE  ChainInv'
<1>1. TypeOK /\ ChainsCounted /\ job[w].at = "test"
  BY DEF ChainInv, Test
<1>2. PICK j \in Job : /\ job' = [job EXCEPT ![w] = j]
                       /\ j.at = IF is_sleeping THEN "clear" ELSE "idle"
  <2>1. "clear" \in Places
    BY DEF Places
  <2> QED
    BY <1>1, <2>1, GotoJob, Jobs DEF Test, Finish
<1>3. UNCHANGED <<is_sleeping, moves, zone, listed, races, excused>>
  BY DEF Test
<1>4. ChainsCounted'
  BY <1>1, <1>2, <1>3, RunningCount DEF RunPlaces, ChainsCounted, ChainCount, Number
<1>5. ~ FastAsleep'
  BY <1>1, <1>2, <1>3 DEF FastAsleep, TypeOK
<1> QED
  BY <1>1, <1>2, <1>3, <1>4, <1>5, WorkStep DEF TypeOK

LEMMA ClearStep ==
  ASSUME ChainInv, NEW w \in Worker, Clear(w)
  PROVE  ChainInv'
<1>1. TypeOK /\ ChainsCounted /\ job[w].at = "clear"
  BY DEF ChainInv, Clear
<1>2. PICK j \in Job : job' = [job EXCEPT ![w] = j] /\ j.at = "push"
  <2>1. "push" \in Places
    BY DEF Places
  <2> QED
    BY <1>1, <2>1, GotoJob DEF Clear
<1>3. /\ is_sleeping' = FALSE /\ UNCHANGED <<moves, zone, listed, excused>>
      /\ races' = IF is_sleeping THEN races ELSE races + 1
  BY DEF Clear
<1>4. /\ Cardinality(Running) \in Nat
      /\ Cardinality(Running') = Cardinality(Running) + 1
  BY <1>1, <1>2, RunningCount DEF RunPlaces
<1>5. moves \in Nat /\ races \in Nat /\ races' \in Nat
  BY <1>1, <1>3 DEF TypeOK
<1>6. ChainsCounted'
  BY <1>1, <1>3, <1>4, <1>5 DEF ChainsCounted, ChainCount, Number
<1>7. ~ FastAsleep'
  BY <1>3 DEF FastAsleep
<1> QED
  BY <1>2, <1>3, <1>5, <1>6, <1>7, WorkStep

(* A timer is set by who holds a chain.                                    *)
LEMMA AddTimerStep ==
  ASSUME ChainInv, NEW w \in Worker, job[w].at \in RunPlaces,
         moves' = moves + 1, Finish(w),
         UNCHANGED <<is_sleeping, zone, listed, races, excused>>
  PROVE  ChainInv'
<1>1. TypeOK /\ ChainsCounted
  BY DEF ChainInv
<1>2. job' = [job EXCEPT ![w] = Idle] /\ Idle \in Job /\ Idle.at = "idle"
  BY Jobs DEF Finish
<1>3. /\ Cardinality(Running) \in Nat
      /\ Cardinality(Running') = Cardinality(Running) - 1
  BY <1>1, <1>2, RunningCount DEF RunPlaces
<1>4. moves \in Nat /\ races \in Nat /\ moves' \in Nat /\ moves' # 0 /\ is_sleeping \in BOOLEAN
  BY <1>1 DEF TypeOK
<1>5. ChainsCounted'
  BY <1>1, <1>3, <1>4 DEF ChainsCounted, ChainCount, Number
<1>6. ~ FastAsleep'
  BY <1>4 DEF FastAsleep
<1> QED
  BY <1>2, <1>4, <1>5, <1>6, WorkStep

LEMMA TakeStep ==
  ASSUME ChainInv, NEW w \in Worker, Take(w)
  PROVE  ChainInv'
<1>1. TypeOK /\ ChainsCounted /\ job[w].at = "idle"
  BY DEF ChainInv, Take
<1>2. PICK j \in Job : /\ job' = [job EXCEPT ![w] = j]
                       /\ j.at = "again" \/ (j.at = "look" /\ j.i = 1 /\ 1 \in Player)
  <2>1. "again" \in Places
    BY DEF Places
  <2> QED
    BY <1>1, <2>1, GotoJob, Jobs DEF Take
<1>3. /\ Cardinality(Running) \in Nat
      /\ Cardinality(Running') = Cardinality(Running) + 1
      /\ j.at \in RunPlaces
  BY <1>1, <1>2, RunningCount DEF RunPlaces
<1>4. /\ moves \in Nat /\ races \in Nat /\ moves' \in Nat /\ moves' = moves - 1
      /\ is_sleeping \in BOOLEAN
      /\ UNCHANGED <<is_sleeping, zone, listed, races, excused>>
  BY <1>1 DEF TypeOK, Take
<1>5. ChainsCounted'
  BY <1>1, <1>3, <1>4 DEF ChainsCounted, ChainCount, Number
<1>6. ~ FastAsleep'
  BY <1>1, <1>2, <1>3 DEF FastAsleep, Running, RunPlaces, TypeOK
<1>7. \A s \in Player : ~ (j.at = "doze" \/ (j.at = "look" /\ j.i > s))
  BY <1>2 DEF Player
<1> QED
  BY <1>2, <1>4, <1>5, <1>6, <1>7, WorkStep

LEMMA LookStep ==
  ASSUME ChainInv, NEW w \in Worker, Look(w)
  PROVE  ChainInv'
<1>1. /\ TypeOK /\ ChainsCounted /\ Passed /\ job[w].at = "look" /\ job[w].i \in Player
      /\ \A s \in Player : job[w].i > s => zone[s] = Far \/ s \in excused
  BY DEF ChainInv, Look, Indexed, Passed, LookedPast
<1> DEFINE k == job[w].i
<1>2. UNCHANGED <<is_sleeping, moves, zone, listed, races, excused>>
  BY DEF Look
<1>3. PICK j \in Job :
        /\ job' = [job EXCEPT ![w] = j]
        /\ \/ j.at = "stroll"
           \/ zone[k] = Far /\ k < Players /\ j.at = "look" /\ j.i = k + 1
           \/ zone[k] = Far /\ ~ (k < Players) /\ j.at = "doze"
  <2>1. CASE IsNear(k)
    BY <1>1, <2>1, GotoJob DEF Look, Places
  <2>2. CASE ~ IsNear(k) /\ k < Players
    <3> DEFINE j == [job[w] EXCEPT !.i = k + 1]
    <3>1. job[w] \in Job /\ k + 1 \in 0 .. Players
      BY <1>1, <2>2, ChainsAssumption DEF TypeOK, Job, Player
    <3>2. j \in Job /\ j.at = "look" /\ j.i = k + 1
      BY <1>1, <3>1 DEF Job
    <3>3. job' = [job EXCEPT ![w] = j]
      BY <2>2 DEF Look, MoreClients
    <3> QED
      BY <2>2, <3>2, <3>3 DEF IsNear
  <2>3. CASE ~ IsNear(k) /\ ~ (k < Players)
    BY <1>1, <2>3, GotoJob DEF Look, Places, MoreClients, IsNear
  <2> QED
    BY <2>1, <2>2, <2>3
<1>4. Cardinality(Running') = Cardinality(Running) /\ j.at \in RunPlaces
  BY <1>1, <1>3, RunningCount DEF RunPlaces
<1>5. ChainsCounted'
  BY <1>1, <1>2, <1>4 DEF ChainsCounted, ChainCount, Number
<1>6. ~ FastAsleep'
  BY <1>1, <1>3, <1>4 DEF FastAsleep, Running, RunPlaces, TypeOK
<1>7. \A s \in Player : j.at = "doze" \/ (j.at = "look" /\ j.i > s)
                          => zone[s] = Far \/ s \in excused
  BY <1>1, <1>3, ChainsAssumption DEF Player
<1>8. j.at = "look" => j.i \in Player
  BY <1>1, <1>3, ChainsAssumption DEF Player
<1> QED
  BY <1>1, <1>2, <1>3, <1>5, <1>6, <1>7, <1>8, WorkStep DEF TypeOK

LEMMA DozeStep ==
  ASSUME ChainInv, NEW w \in Worker, Doze(w)
  PROVE  ChainInv'
<1>1. TypeOK /\ ChainsCounted /\ Passed /\ job[w].at = "doze"
  BY DEF ChainInv, Doze
<1>2. job' = [job EXCEPT ![w] = Idle] /\ Idle \in Job /\ Idle.at = "idle"
  BY Jobs DEF Doze, Finish
<1>3. /\ Cardinality(Running) \in Nat
      /\ Cardinality(Running') \in Nat
      /\ Cardinality(Running') = Cardinality(Running) - 1
  BY <1>1, <1>2, RunningCount DEF RunPlaces
<1>4. /\ moves \in Nat /\ races \in Nat /\ is_sleeping' = TRUE
      /\ UNCHANGED <<moves, zone, listed, races, excused>>
  BY <1>1 DEF TypeOK, Doze
<1>5. ChainsCounted'
  BY <1>1, <1>3, <1>4 DEF ChainsCounted, ChainCount, Number
<1>6. \A s \in Player : zone[s] = InSight => s \in excused
  BY <1>1 DEF Passed, LookedPast, InSight, Far
<1> QED
  BY <1>2, <1>4, <1>5, <1>6, WorkStep

LEMMA StrollStep ==
  ASSUME ChainInv, NEW w \in Worker, Stroll(w)
  PROVE  ChainInv'
<1>1. TypeOK /\ ChainsCounted /\ Indexed /\ Passed /\ Stale /\ job[w].at = "stroll"
  BY DEF ChainInv, Stroll
<1>2. PICK j \in Job : job' = [job EXCEPT ![w] = j] /\ j.at = "again"
  <2>1. "again" \in Places
    BY DEF Places
  <2> QED
    BY <1>1, <2>1, GotoJob DEF Stroll
<1>3. /\ zone' \in [Player -> Zone]
      /\ listed' = ListedAfter(zone') /\ excused' = excused \cup Late(zone')
      /\ UNCHANGED <<is_sleeping, moves, races>>
  BY DEF Stroll
<1>4. TypeOK'
  BY <1>1, <1>2, <1>3 DEF TypeOK, Job, ListedAfter, Late
<1>5. Cardinality(Running') = Cardinality(Running) /\ j.at \in RunPlaces
  BY <1>1, <1>2, RunningCount DEF RunPlaces
<1>6. ChainsCounted'
  BY <1>1, <1>3, <1>5 DEF ChainsCounted, ChainCount, Number
<1>7. job'[w] = j /\ \A v \in Worker : v = w \/ job'[v] = job[v]
  BY <1>1, <1>2 DEF TypeOK
<1>8. Indexed'
  BY <1>1, <1>2, <1>7 DEF Indexed
<1>9. Passed'
  <2>1. \A s \in Player : LookedPast(s)' => LookedPast(s)
    BY <1>2, <1>7 DEF LookedPast
  <2> QED
    BY <1>1, <1>3, <2>1 DEF Passed, Late
<1>10. Stale'
  BY <1>1, <1>3 DEF Stale, ListedAfter
<1>11. SleptThrough'
  BY <1>5, <1>7 DEF SleptThrough, FastAsleep, Running, RunPlaces
<1> QED
  BY <1>4, <1>6, <1>8, <1>9, <1>10, <1>11 DEF ChainInv

LEMMA StutterStep ==
  ASSUME ChainInv, UNCHANGED vars
  PROVE  ChainInv'
<1>1. TypeOK' /\ Indexed' /\ Passed' /\ Stale'
  BY DEF vars, ChainInv, TypeOK, Indexed, Passed, Stale, LookedPast
<1>2. ChainsCounted'
  BY DEF vars, ChainInv, ChainsCounted, ChainCount, Number, Running
<1>3. SleptThrough'
  BY DEF vars, ChainInv, SleptThrough, FastAsleep, Running
<1> QED
  BY <1>1, <1>2, <1>3 DEF ChainInv

-----------------------------------------------------------------------------

(***************************************************************************)
(* The theorems.                                                           *)
(***************************************************************************)

(* The invariant holds in every reachable state.                           *)
THEOREM ChainsInductive == Spec => []ChainInv
<1>1. Init => ChainInv
  BY InitInv
<1>2. ChainInv /\ [Next]_vars => ChainInv'
  <2> SUFFICES ASSUME ChainInv, [Next]_vars PROVE ChainInv'
    OBVIOUS
  <2>1. ASSUME NEW w \in Worker, NEW s \in Player, NEW z \in Zone,
               Walk(w, s, z) \/ Jump(w, s, z)
        PROVE  ChainInv'
    BY <2>1, WalkStep, JumpStep
  <2>2. ASSUME NEW w \in Worker, NEW s \in Player, Leave(w, s)
        PROVE  ChainInv'
    BY <2>2, LeaveStep
  <2>3. ASSUME NEW w \in Worker, Push(w) \/ StrollOn(w)
        PROVE  ChainInv'
    BY <2>3, AddTimerStep DEF Push, StrollOn, Again, RunPlaces
  <2>4. ASSUME NEW w \in Worker, Take(w)
        PROVE  ChainInv'
    BY <2>4, TakeStep
  <2>5. ASSUME NEW w \in Worker, Proceed(w)
        PROVE  ChainInv'
    BY <2>3, <2>5, TestStep, ClearStep, LookStep, DozeStep, StrollStep DEF Proceed
  <2>6. CASE UNCHANGED vars
    BY <2>6, StutterStep
  <2> QED
    BY <2>1, <2>2, <2>4, <2>5, <2>6 DEF Next
<1> QED
  BY <1>1, <1>2, PTL DEF Spec

(* Types.                                                                  *)
THEOREM ChainsTyped == Spec => []TypeOK
<1>1. ChainInv => TypeOK
  BY DEF ChainInv
<1> QED
  BY <1>1, ChainsInductive, PTL

(* At least one chain, and at most two and one per stale test.             *)
THEOREM ChainsAreCounted == Spec => []ChainsCounted
<1>1. ChainInv => ChainsCounted
  BY DEF ChainInv
<1> QED
  BY <1>1, ChainsInductive, PTL

(* The NPC sleeps in front of nobody but who came too late or jumped.      *)
THEOREM SleepIsExcused == Spec => []SleptThrough
<1>1. ChainInv => SleptThrough
  BY DEF ChainInv
<1> QED
  BY <1>1, ChainsInductive, PTL
=============================================================================
