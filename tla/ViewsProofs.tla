---------------------------- MODULE ViewsProofs ----------------------------
(***************************************************************************)
(* Proofs, for any number of slots and NPCs of any kind and any world,     *)
(* that the invariants of ViewsProps hold; and that NpcLife implements     *)
(* Views and keeps the invariants of NpcLifeProps.                         *)
(***************************************************************************)
EXTENDS ViewsProps, NpcLifeProps, TLAPS

(* A clamped step stays in the world. *)
LEMMA SteppedInWorld ==
  ASSUME NEW p \in World, NEW d
  PROVE  Stepped(p, d) \in World
BY WorldAssumption DEF Stepped, World

(* The loops over the clients keep the lists sets of ids. *)
LEMMA LoopType ==
  ASSUME NEW S, NEW f \in [Slot -> SUBSET S], NEW I, NEW x \in S
  PROVE  /\ Joined(f, I, x) \in [Slot -> SUBSET S]
         /\ Parted(f, I, x) \in [Slot -> SUBSET S]
BY DEF Joined, Parted

LEMMA TypeStep ==
  ASSUME TypeOK, [Next]_vars
  PROVE  TypeOK'
<1> USE DEF TypeOK
<1>1. CASE Accept
  BY <1>1 DEF Accept
<1>2. ASSUME NEW s \in Slot, Disconnect(s)
      PROVE  TypeOK'
  <2> DEFINE aware == Aware({i \in Slot \ {s} : in_use[i]}, s)
  <2>1. /\ Parted(view_list, aware, s) \in [Slot -> SUBSET Slot]
        /\ Parted(screen, aware, s) \in [Slot -> SUBSET Slot]
    BY LoopType
  <2> QED
    BY <1>2, <2>1 DEF Disconnect
<1>3. ASSUME NEW s \in Slot, NEW p \in World, Appear(s, p)
      PROVE  /\ pos' \in [Slot -> World]
             /\ view_list' \in [Slot -> SUBSET Slot]
             /\ screen' \in [Slot -> SUBSET Slot]
             /\ npc_view_list' \in [Slot -> SUBSET Npc]
             /\ npc_screen' \in [Slot -> SUBSET Npc]
  <2> DEFINE around == Around(s, p)
  <2>1. around \subseteq Slot /\ NpcsAround(p) \subseteq Npc
    BY DEF Around, NpcsAround
  <2>2. /\ Joined(view_list, around, s) \in [Slot -> SUBSET Slot]
        /\ Joined(screen, around, s) \in [Slot -> SUBSET Slot]
    BY LoopType
  <2> HIDE DEF around
  <2> QED
    BY <1>3, <2>1, <2>2 DEF Appear, around
<1>4. ASSUME NEW s \in Slot, NEW p \in World, Login(s, p)
      PROVE  TypeOK'
  BY <1>3, <1>4 DEF Login
<1>5. ASSUME NEW s \in Slot, NEW d \in 0 .. 4, Move(s, d)
      PROVE  TypeOK'
  <2> DEFINE p == Stepped(pos[s], d)
             old == view_list[s]
             new == Around(s, p)
             old_npc == npc_view_list[s]
             new_npc == LiveNpcsAround(p)
  <2>1. p \in World /\ new \subseteq Slot /\ new_npc \subseteq Npc
    BY SteppedInWorld DEF Around, LiveNpcsAround
  <2>2. Parted(Joined(view_list, new, s), old \ new, s) \in [Slot -> SUBSET Slot]
    BY LoopType
  <2>3. Parted(Joined(screen, new \ Aware(new, s), s), Aware(old \ new, s), s)
          \in [Slot -> SUBSET Slot]
    BY LoopType
  <2>4. /\ pos' \in [Slot -> World]
        /\ view_list' \in [Slot -> SUBSET Slot]
        /\ npc_view_list' \in [Slot -> SUBSET Npc]
    BY <1>5, <2>1, <2>2 DEF Move
  <2>5. screen' \in [Slot -> SUBSET Slot]
    BY <1>5, <2>1, <2>3 DEF Move, Redrawn
  <2>6. npc_screen' \in [Slot -> SUBSET Npc]
    BY <1>5, <2>1 DEF Move, Redrawn
  <2> QED
    BY <1>5, <2>4, <2>5, <2>6 DEF Move
<1>6. ASSUME NEW s \in Slot, NEW p \in World, Dummy(s, p)
      PROVE  /\ pos' \in [Slot -> World]
             /\ view_list' \in [Slot -> SUBSET Slot]
             /\ screen' \in [Slot -> SUBSET Slot]
             /\ is_dummy' \in [Slot -> BOOLEAN]
             /\ in_use' \in [Slot -> BOOLEAN]
  <2>1. /\ Joined(view_list, Around(s, p), s) \in [Slot -> SUBSET Slot]
        /\ Joined(screen, Around(s, p), s) \in [Slot -> SUBSET Slot]
    BY LoopType
  <2> QED
    BY <1>6, <2>1 DEF Dummy
<1>7. ASSUME NEW s \in Slot, HotspotTest(s) \/ \E p \in World : CcuTest(s, p)
      PROVE  TypeOK'
  <2>1. HotspotNpcs(s) \subseteq Npc
    BY DEF HotspotNpcs, NpcsAround
  <2>2. CASE HotspotTest(s)
    BY <1>6, <2>1, <2>2, PlaceAssumption DEF HotspotTest
  <2>3. CASE \E p \in World : CcuTest(s, p)
    BY <1>6, <2>3 DEF CcuTest, npc_vars
  <2> QED
    BY <1>7, <2>2, <2>3
<1>8. ASSUME NEW s \in Slot, Death(s)
      PROVE  TypeOK'
  <2> DEFINE aware == Aware(view_list[s], s)
  <2>1. /\ Parted(view_list, aware, s) \in [Slot -> SUBSET Slot]
        /\ Parted(screen, aware, s) \in [Slot -> SUBSET Slot]
    BY LoopType
  <2> QED
    BY <1>8, <2>1, SizeAssumption DEF Death
<1>9. ASSUME NEW s \in Slot, NEW h \in Home, Resurrection(s, h)
      PROVE  TypeOK'
  BY <1>3, <1>9, PlaceAssumption, SizeAssumption DEF Resurrection, Vanish
<1>10. ASSUME NEW s \in Slot, NEW n \in Npc, KillNpc(s, n)
       PROVE  TypeOK'
  <2>1. Parted(npc_view_list, {i \in Slot : in_use[i]}, n) \in [Slot -> SUBSET Npc]
    BY LoopType
  <2> QED
    BY <1>10, <2>1 DEF KillNpc, player_vars
<1>11. ASSUME NEW n \in Npc, NEW d \in 0 .. 3, random_move_NPC(n, d)
       PROVE  TypeOK'
  <2>1. npc_pos[n] \in World
    BY <1>11, DeadPosAssumption DEF random_move_NPC
  <2>2. Stepped(npc_pos[n], d) \in World
    BY <2>1, SteppedInWorld
  <2>3. npc_pos' \in [Npc -> World \cup {DeadPos}]
    BY <1>11, <2>2 DEF random_move_NPC
  <2>4. npc_view_list' \in [Slot -> SUBSET Npc]
    BY <1>11, LoopType DEF random_move_NPC
  <2>5. npc_screen' \in [Slot -> SUBSET Npc]
    BY <1>11, LoopType DEF random_move_NPC
  <2> QED
    BY <1>11, <2>3, <2>4, <2>5 DEF random_move_NPC, player_vars
<1>12. ASSUME NEW n \in Npc, NpcResurrection(n)
       PROVE  TypeOK'
  BY <1>12 DEF NpcResurrection, player_vars
<1>13. CASE UNCHANGED vars
  BY <1>13 DEF vars, player_vars, npc_vars
<1> QED
  BY <1>1, <1>2, <1>4, <1>5, <1>7, <1>8, <1>9, <1>10, <1>11, <1>12, <1>13 DEF Next

(* Type correctness: list entries are slots and NPC ids, players never     *)
(* leave the world and NPCs only for the place the dead are parked at.     *)
THEOREM TypeCorrect == Spec => []TypeOK
<1>1. Init => TypeOK
  <2> SUFFICES ASSUME Init PROVE TypeOK
    OBVIOUS
  <2>1. <<0, 0>> \in World
    BY WorldAssumption DEF World
  <2> QED
    BY <2>1, SizeAssumption DEF Init, TypeOK
<1>2. TypeOK /\ [Next]_vars => TypeOK'
  BY TypeStep
<1> QED
  BY <1>1, <1>2, PTL DEF Spec

LEMMA ListStep ==
  ASSUME TypeOK, ListInv, [Next]_vars
  PROVE  ListInv'
<1> USE DEF TypeOK, ListInv, Paired, FreeSlotsClean, NotOwnViewer
<1>1. CASE Accept
  BY <1>1 DEF Accept
<1>2. ASSUME NEW s \in Slot, Disconnect(s)
      PROVE  ListInv'
  BY <1>2, SMTT(30) DEF Disconnect, Joined, Parted, Aware, Around
<1>3. ASSUME NEW s \in Slot, NEW p \in World, Login(s, p)
      PROVE  ListInv'
  BY <1>3 DEF Login, Appear, Joined, Parted, Aware, Around
<1>4. ASSUME NEW s \in Slot, NEW d \in 0 .. 4, Move(s, d)
      PROVE  ListInv'
  BY <1>4 DEF Move, Joined, Parted, Aware, Around
<1>5. ASSUME NEW s \in Slot, NEW p \in World, CcuTest(s, p)
      PROVE  ListInv'
  BY <1>5 DEF CcuTest, Dummy, npc_vars, Joined, Parted, Aware, Around
<1>6. ASSUME NEW s \in Slot, HotspotTest(s)
      PROVE  ListInv'
  BY <1>6 DEF HotspotTest, Dummy, Joined, Parted, Aware, Around
<1>7. ASSUME NEW s \in Slot, Death(s)
      PROVE  ListInv'
  BY <1>7 DEF Death, Joined, Parted, Aware, Around
<1>8. ASSUME NEW s \in Slot, NEW h \in Home, Resurrection(s, h)
      PROVE  ListInv'
  <2>1. CASE in_use[s]
    <3>1. Appear(s, h) /\ UNCHANGED <<in_use, is_dummy, npc_pos, is_die>>
      BY <1>8, <2>1 DEF Resurrection
    <3> QED
      BY <2>1, <3>1, PlaceAssumption DEF Appear, Joined, Parted, Aware, Around
  <2>2. CASE ~ in_use[s]
    BY <1>8, <2>2 DEF Resurrection, Vanish, Joined, Parted, Aware, Around
  <2> QED
    BY <2>1, <2>2
<1>9. ASSUME NEW s \in Slot, NEW n \in Npc, KillNpc(s, n)
      PROVE  ListInv'
  BY <1>9 DEF KillNpc, player_vars, Joined, Parted, Aware, Around
<1>10. ASSUME NEW n \in Npc, NEW d \in 0 .. 3, random_move_NPC(n, d)
      PROVE  ListInv'
  BY <1>10 DEF random_move_NPC, player_vars, Joined, Parted, Aware, Around
<1>11. ASSUME NEW n \in Npc, NpcResurrection(n)
      PROVE  ListInv'
  BY <1>11 DEF NpcResurrection, player_vars, Joined, Parted, Aware, Around
<1>12. CASE UNCHANGED vars
  BY <1>12 DEF vars, player_vars, npc_vars
<1> QED
  BY <1>1, <1>2, <1>3, <1>4, <1>5, <1>6, <1>7, <1>8, <1>9, <1>10, <1>11, <1>12 DEF Next

(* Puts and removes keep every listed object displayed. *)
LEMMA VisibleStep ==
  ASSUME TypeOK, ListInv, ListedIsVisible, [Next]_vars
  PROVE  ListedIsVisible'
<1> USE DEF TypeOK, ListInv, NotOwnViewer, ListedIsVisible, Joined, Parted, Aware, Around
<1>1. CASE Accept
  BY <1>1 DEF Accept
<1>2. ASSUME NEW s \in Slot, Disconnect(s)
      PROVE  ListedIsVisible'
  BY <1>2 DEF Disconnect
<1>3. ASSUME NEW s \in Slot, NEW p \in World, Login(s, p)
      PROVE  ListedIsVisible'
  BY <1>3 DEF Login, Appear
<1>4. ASSUME NEW s \in Slot, NEW d \in 0 .. 4, Move(s, d)
      PROVE  ListedIsVisible'
  BY <1>4 DEF Move, Redrawn
<1>5. ASSUME NEW s \in Slot, NEW p \in World, CcuTest(s, p)
      PROVE  ListedIsVisible'
  BY <1>5 DEF CcuTest, Dummy, npc_vars
<1>6. ASSUME NEW s \in Slot, HotspotTest(s)
      PROVE  ListedIsVisible'
  BY <1>6 DEF HotspotTest, Dummy
<1>7. ASSUME NEW s \in Slot, Death(s)
      PROVE  ListedIsVisible'
  BY <1>7 DEF Death
<1>8. ASSUME NEW s \in Slot, NEW h \in Home, Resurrection(s, h)
      PROVE  ListedIsVisible'
  <2>1. CASE in_use[s]
    <3>1. Appear(s, h) /\ UNCHANGED <<in_use, is_dummy, npc_pos, is_die>>
      BY <1>8, <2>1 DEF Resurrection
    <3> QED
      BY <2>1, <3>1, PlaceAssumption DEF Appear
  <2>2. CASE ~ in_use[s]
    BY <1>8, <2>2 DEF Resurrection, Vanish
  <2> QED
    BY <2>1, <2>2
<1>9. ASSUME NEW s \in Slot, NEW n \in Npc, KillNpc(s, n)
      PROVE  ListedIsVisible'
  <2>1. in_use[s]
    BY <1>9 DEF KillNpc, FreeSlotsClean
  <2> QED
    BY <1>9, <2>1 DEF KillNpc, player_vars
<1>10. ASSUME NEW n \in Npc, NEW d \in 0 .. 3, random_move_NPC(n, d)
      PROVE  ListedIsVisible'
  BY <1>10 DEF random_move_NPC, player_vars
<1>11. ASSUME NEW n \in Npc, NpcResurrection(n)
      PROVE  ListedIsVisible'
  BY <1>11 DEF NpcResurrection, player_vars
<1>12. CASE UNCHANGED vars
  BY <1>12 DEF vars, player_vars, npc_vars
<1> QED
  BY <1>1, <1>2, <1>3, <1>4, <1>5, <1>6, <1>7, <1>8, <1>9, <1>10, <1>11, <1>12 DEF Next

(* No handler enters a dead NPC in a list: the only ones that do not look at *)
(* is_die look at the position instead, and the dead are out of sight.       *)

(* A dead NPC is where it was parked. *)
DeadParked == \A n \in Npc : is_die[n] => npc_pos[n] = DeadPos

DeadInv == DeadParked /\ DeadNpcUnlisted

LEMMA DeadStep ==
  ASSUME TypeOK, FreeSlotsClean, DeadInv, [Next]_vars
  PROVE  DeadInv'
<1> USE DEF TypeOK, FreeSlotsClean, DeadInv, DeadParked, DeadNpcUnlisted
<1>1. CASE Accept
  BY <1>1 DEF Accept
<1>2. ASSUME NEW s \in Slot, Disconnect(s)
      PROVE  DeadInv'
  BY <1>2 DEF Disconnect
<1>3. ASSUME NEW s \in Slot, NEW p \in World, Login(s, p)
      PROVE  DeadInv'
  BY <1>3, DeadPosAssumption DEF Login, Appear, NpcsAround
<1>4. ASSUME NEW s \in Slot, NEW d \in 0 .. 4, Move(s, d)
      PROVE  DeadInv'
  BY <1>4 DEF Move, LiveNpcsAround
<1>5. ASSUME NEW s \in Slot, NEW p \in World, CcuTest(s, p)
      PROVE  DeadInv'
  BY <1>5 DEF CcuTest, Dummy, npc_vars
<1>6. ASSUME NEW s \in Slot, HotspotTest(s)
      PROVE  DeadInv'
  BY <1>6, DeadPosAssumption, PlaceAssumption DEF HotspotTest, Dummy, HotspotNpcs, NpcsAround
<1>7. ASSUME NEW s \in Slot, Death(s)
      PROVE  DeadInv'
  BY <1>7 DEF Death
<1>8. ASSUME NEW s \in Slot, NEW h \in Home, Resurrection(s, h)
      PROVE  DeadInv'
  BY <1>8, DeadPosAssumption, PlaceAssumption DEF Resurrection, Vanish, Appear, NpcsAround
<1>9. ASSUME NEW s \in Slot, NEW n \in Npc, KillNpc(s, n)
      PROVE  DeadInv'
  BY <1>9 DEF KillNpc, player_vars, Parted
<1>10. ASSUME NEW n \in Npc, NEW d \in 0 .. 3, random_move_NPC(n, d)
      PROVE  DeadInv'
  BY <1>10 DEF random_move_NPC, player_vars, Joined, Parted
<1>11. ASSUME NEW n \in Npc, NpcResurrection(n)
      PROVE  DeadInv'
  BY <1>11 DEF NpcResurrection, player_vars
<1>12. CASE UNCHANGED vars
  BY <1>12 DEF vars, player_vars, npc_vars
<1> QED
  BY <1>1, <1>2, <1>3, <1>4, <1>5, <1>6, <1>7, <1>8, <1>9, <1>10, <1>11, <1>12 DEF Next

(* Every handler but the death of s takes off the screen of s what it takes *)
(* off its list.                                                           *)
LEMMA GhostProof ==
  ASSUME TypeOK, ListInv, ListedIsVisible, [Next]_vars
  PROVE  [GhostStep]_vars
<1> USE DEF TypeOK, ListInv, Paired, FreeSlotsClean, NotOwnViewer, ListedIsVisible, GhostStep, Ghosts, Joined, Parted, Aware, Around
<1>1. CASE Accept
  BY <1>1 DEF Accept
<1>2. ASSUME NEW s \in Slot, Disconnect(s)
      PROVE  [GhostStep]_vars
  BY <1>2 DEF Disconnect
<1>3. ASSUME NEW s \in Slot, NEW p \in World, Login(s, p)
      PROVE  [GhostStep]_vars
  BY <1>3 DEF Login, Appear
<1>4. ASSUME NEW s \in Slot, NEW d \in 0 .. 4, Move(s, d)
      PROVE  [GhostStep]_vars
  BY <1>4 DEF Move, Redrawn
<1>5. ASSUME NEW s \in Slot, NEW p \in World, CcuTest(s, p)
      PROVE  [GhostStep]_vars
  BY <1>5 DEF CcuTest, Dummy, npc_vars
<1>6. ASSUME NEW s \in Slot, HotspotTest(s)
      PROVE  [GhostStep]_vars
  BY <1>6 DEF HotspotTest, Dummy
<1>7. ASSUME NEW s \in Slot, Death(s)
      PROVE  [GhostStep]_vars
  <2>1. ASSUME NEW t \in Slot \ {s}
        PROVE  Ghosts(t)' \subseteq Ghosts(t)
    BY <1>7 DEF Death
  <2> QED
    BY <1>7, <2>1
<1>8. ASSUME NEW s \in Slot, NEW h \in Home, Resurrection(s, h)
      PROVE  [GhostStep]_vars
  <2>1. CASE in_use[s]
    <3>1. Appear(s, h) /\ UNCHANGED <<in_use, is_dummy, npc_pos, is_die>>
      BY <1>8, <2>1 DEF Resurrection
    <3> QED
      BY <2>1, <3>1, PlaceAssumption DEF Appear
  <2>2. CASE ~ in_use[s]
    BY <1>8, <2>2 DEF Resurrection, Vanish
  <2> QED
    BY <2>1, <2>2
<1>9. ASSUME NEW s \in Slot, NEW n \in Npc, KillNpc(s, n)
      PROVE  [GhostStep]_vars
  BY <1>9 DEF KillNpc, player_vars
<1>10. ASSUME NEW n \in Npc, NEW d \in 0 .. 3, random_move_NPC(n, d)
      PROVE  [GhostStep]_vars
  BY <1>10 DEF random_move_NPC, player_vars
<1>11. ASSUME NEW n \in Npc, NpcResurrection(n)
      PROVE  [GhostStep]_vars
  BY <1>11 DEF NpcResurrection, player_vars
<1>12. CASE UNCHANGED vars
  BY <1>12 DEF vars, player_vars, npc_vars
<1> QED
  BY <1>1, <1>2, <1>3, <1>4, <1>5, <1>6, <1>7, <1>8, <1>9, <1>10, <1>11, <1>12 DEF Next

(* Every handler but the death of s or of an NPC takes off the screen of s  *)
(* the NPCs it takes off its list.                                          *)
LEMMA NpcGhostProof ==
  ASSUME TypeOK, ListedIsVisible, [Next]_vars
  PROVE  [NpcGhostStep]_vars
<1> USE DEF TypeOK, ListedIsVisible, NpcGhosts
<1> SUFFICES ASSUME Next
             PROVE  NpcGhostStep
  BY DEF vars, npc_vars, NpcGhostStep
<1>1. ASSUME \A s \in Slot : NpcGhosts(s)' \subseteq NpcGhosts(s)
      PROVE  NpcGhostStep
  BY <1>1 DEF NpcGhostStep
<1>2. CASE Accept
  BY <1>1, <1>2 DEF Accept
<1>3. ASSUME NEW s \in Slot, Disconnect(s)
      PROVE  NpcGhostStep
  BY <1>1, <1>3 DEF Disconnect
<1>4. ASSUME NEW s \in Slot, NEW p \in World, Login(s, p)
      PROVE  NpcGhostStep
  BY <1>1, <1>4 DEF Login, Appear
<1>5. ASSUME NEW s \in Slot, NEW d \in 0 .. 4, Move(s, d)
      PROVE  NpcGhostStep
  BY <1>1, <1>5 DEF Move, Redrawn
<1>6. ASSUME NEW s \in Slot, NEW p \in World, CcuTest(s, p)
      PROVE  NpcGhostStep
  BY <1>1, <1>6 DEF CcuTest, Dummy, npc_vars
<1>7. ASSUME NEW s \in Slot, HotspotTest(s)
      PROVE  NpcGhostStep
  BY <1>1, <1>7 DEF HotspotTest, Dummy
<1>8. ASSUME NEW s \in Slot, Death(s)
      PROVE  NpcGhostStep
  <2>1. ASSUME NEW t \in Slot \ {s}
        PROVE  NpcGhosts(t)' \subseteq NpcGhosts(t)
    BY <1>8 DEF Death
  <2> QED
    BY <1>8, <2>1 DEF NpcGhostStep
<1>9. ASSUME NEW s \in Slot, NEW h \in Home, Resurrection(s, h)
      PROVE  NpcGhostStep
  BY <1>1, <1>9 DEF Resurrection, Vanish, Appear
<1>10. ASSUME NEW s \in Slot, NEW n \in Npc, KillNpc(s, n)
       PROVE  NpcGhostStep
  <2>1. NpcGhosts(s)' \subseteq NpcGhosts(s)
    BY <1>10 DEF KillNpc, Parted
  <2>2. ASSUME NEW t \in Slot \ {s}
        PROVE  NpcGhosts(t)' \subseteq NpcGhosts(t) \cup {n}
    BY <1>10 DEF KillNpc, Parted
  <2> QED
    BY <1>10, <2>1, <2>2 DEF NpcGhostStep
<1>11. ASSUME NEW n \in Npc, NEW d \in 0 .. 3, random_move_NPC(n, d)
       PROVE  NpcGhostStep
  BY <1>1, <1>11 DEF random_move_NPC, player_vars, Joined, Parted
<1>12. ASSUME NEW n \in Npc, NpcResurrection(n)
       PROVE  NpcGhostStep
  BY <1>1, <1>12 DEF NpcResurrection, player_vars
<1> QED
  BY <1>2, <1>3, <1>4, <1>5, <1>6, <1>7, <1>8, <1>9, <1>10, <1>11, <1>12 DEF Next

LEMMA MoveProof ==
  ASSUME TypeOK, ListInv, ListedIsVisible
  PROVE  MoveHealsStep
<1> SUFFICES ASSUME NEW s \in Slot, NEW d \in 0 .. 4, Move(s, d)
             PROVE  ExactAfter(s)
  BY DEF MoveHealsStep
<1> DEFINE p == Stepped(pos[s], d)
           new == Around(s, p)
           old == view_list[s]
<1> USE DEF TypeOK
<1>1. pos'[s] = p
  BY DEF Move
<1>2. view_list'[s] = new
  BY DEF Move, Parted, Joined
<1>3. npc_view_list'[s] = LiveNpcsAround(p)
  BY DEF Move
<1>4. \A i \in new : s \in view_list'[i]
  BY DEF Move, Parted, Joined, Around
<1>5. \A i \in new : s \in screen'[i]
  BY DEF Move, Redrawn, Parted, Joined, Aware, Around, ListedIsVisible
<1>6. \A i \in new : i \in screen'[s]
  BY DEF Move, Redrawn, Parted, Joined, Around, ListedIsVisible
<1>7. ASSUME ~ is_dummy[s], NEW i \in Slot, s \in view_list'[i]
      PROVE  i \in new
  BY <1>7 DEF Move, Parted, Joined, Around, ListInv, Paired, NotOwnViewer
<1> QED
  BY <1>1, <1>2, <1>3, <1>4, <1>5, <1>6, <1>7
     DEF ExactAfter, Around, LiveNpcsAround

-----------------------------------------------------------------------------

(* All that the proofs need to know of a state, as one inductive invariant. *)
IInv == TypeOK /\ ListInv /\ ListedIsVisible /\ DeadInv

THEOREM Inductive == Spec => []IInv
<1>1. Init => IInv
  BY SizeAssumption, WorldAssumption
     DEF Init, IInv, TypeOK, ListInv, Paired, FreeSlotsClean, NotOwnViewer,
         ListedIsVisible, DeadInv, DeadParked, DeadNpcUnlisted, World
<1>2. IInv /\ [Next]_vars => IInv'
  BY TypeStep, ListStep, VisibleStep, DeadStep DEF IInv, ListInv
<1> QED
  BY <1>1, <1>2, PTL DEF Spec

(* For any number of clients, every player but a stress-test dummy is      *)
(* listed back by those it lists.                                          *)
THEOREM ListsPaired == Spec => []Paired
<1>1. IInv => Paired
  BY DEF IInv, ListInv
<1> QED
  BY <1>1, Inductive, PTL

(* No list mentions a free slot, so no list leaks into the next session.   *)
THEOREM FreeSlotsAreClean == Spec => []FreeSlotsClean
<1>1. IInv => FreeSlotsClean
  BY DEF IInv, ListInv
<1> QED
  BY <1>1, Inductive, PTL

(* Whatever is listed is displayed. *)
THEOREM ListedVisible == Spec => []ListedIsVisible
<1>1. IInv => ListedIsVisible
  BY DEF IInv
<1> QED
  BY <1>1, Inductive, PTL

(* No list holds a dead NPC. *)
THEOREM DeadUnlisted == Spec => []DeadNpcUnlisted
<1>1. IInv => DeadNpcUnlisted
  BY DEF IInv, DeadInv
<1> QED
  BY <1>1, Inductive, PTL

(* One move of a client makes its lists, and those of the others, exact.   *)
THEOREM MovesHeal == Spec => MoveHeals
<1>1. IInv => [MoveHealsStep]_vars
  BY MoveProof DEF IInv
<1> QED
  BY <1>1, Inductive, PTL DEF MoveHeals

(* Nothing but a death leaves a player displayed and no longer listed.     *)
THEOREM NoOtherGhosts == Spec => GhostsOnlyByDeath
<1>1. IInv /\ [Next]_vars => [GhostStep]_vars
  BY GhostProof DEF IInv
<1> QED
  BY <1>1, Inductive, PTL DEF GhostsOnlyByDeath, Spec

(* An NPC displayed and no longer listed comes from the death of the        *)
(* player or from the NPC having been killed by somebody else.              *)
THEOREM NoOtherNpcGhosts == Spec => NpcGhostsOnlyByDeaths
<1>1. IInv /\ [Next]_vars => [NpcGhostStep]_vars
  BY NpcGhostProof DEF IInv
<1> QED
  BY <1>1, Inductive, PTL DEF NpcGhostsOnlyByDeaths, Spec

-----------------------------------------------------------------------------
(* Timers, sleep and targets of the NPCs. *)

(* Every step is a step of Views or leaves its variables alone. *)
LEMMA LifeStepIsViewsStep ==
  ASSUME LifeTypeOK, [LifeNext]_life_vars
  PROVE  [Next]_vars
<1>1. CASE LifeAccept
  BY <1>1 DEF LifeAccept, Unnoticed, Next
<1>2. ASSUME NEW s \in Slot, \/ LifeDisconnect(s) \/ LifeHotspotTest(s)
                             \/ \E p \in World : LifeLogin(s, p) \/ LifeCcuTest(s, p)
                             \/ \E d \in 0 .. 4 : LifeMove(s, d)
                             \/ \E h \in Home : LifeResurrection(s, h)
                             \/ \E n \in Npc : LifeKill(s, n)
      PROVE  Next
  BY <1>2 DEF LifeDisconnect, LifeHotspotTest, LifeLogin, LifeCcuTest, LifeMove,
              LifeResurrection, LifeKill, Unnoticed, Next
<1>3. ASSUME NEW s \in Slot, NEW n \in Npc, Hit(s, n) \/ Detect(n, s)
      PROVE  UNCHANGED vars
  BY <1>3 DEF Hit, Detect
<1>4. ASSUME NEW n \in Npc, EvMove(n)
      PROVE  [Next]_vars
  <2>1. CASE \E d \in 0 .. 3 : MoveStroll(n, d)
    BY <2>1 DEF MoveStroll, Next
  <2>2. CASE MoveStrike(n) \/ MoveSleep(n) \/ MoveNothing(n)
    BY <2>2 DEF MoveStrike, MoveSleep, MoveNothing
  <2> QED
    BY <1>4, <2>1, <2>2 DEF EvMove
<1>5. ASSUME NEW k \in StrikeId, Strike(k)
      PROVE  [Next]_vars
  <2>1. CASE StrikeBlank(k)
    BY <2>1 DEF StrikeBlank
  <2>2. CASE StrikeDeath(k)
    <3>1. target_user_id[k] \in Slot
      BY <2>2 DEF StrikeDeath, InReach, LifeTypeOK
    <3> QED
      BY <2>2, <3>1 DEF StrikeDeath, Next
  <2> QED
    BY <1>5, <2>1, <2>2 DEF Strike
<1>6. ASSUME NEW n \in Npc, Revive(n)
      PROVE  [Next]_vars
  <2>1. CASE is_die[n]
    BY <1>6, <2>1 DEF Revive, Resurrected, NpcResurrection, Next
  <2>2. CASE ~ is_die[n]
    <3>1. is_die' = is_die
      BY <1>6, <2>2 DEF Revive, Resurrected, LifeTypeOK, TypeOK
    <3> QED
      BY <1>6, <3>1 DEF Revive, Resurrected, vars, npc_vars
  <2> QED
    BY <2>1, <2>2
<1>7. CASE UNCHANGED life_vars
  BY <1>7 DEF life_vars
<1> QED
  BY <1>1, <1>2, <1>3, <1>4, <1>5, <1>6, <1>7 DEF LifeNext

LEMMA WokenType ==
  ASSUME LifeTypeOK, NEW N, Woken(N)
  PROVE  is_sleeping' \in [Npc -> BOOLEAN] /\ moves' \in [Npc -> Nat]
BY DEF Woken, LifeTypeOK

LEMMA LifeTypeStep ==
  ASSUME LifeTypeOK, [LifeNext]_life_vars
  PROVE  LifeTypeOK'
<1>0. TypeOK'
  BY LifeStepIsViewsStep, TypeStep DEF LifeTypeOK
<1> USE DEF LifeTypeOK
<1> USE <1>0
<1>1. CASE LifeAccept
  BY <1>1 DEF LifeAccept, Unnoticed, mind, timers
<1>2. ASSUME NEW s \in Slot, \/ LifeDisconnect(s)
                             \/ \E p \in World : LifeCcuTest(s, p)
      PROVE  LifeTypeOK'
  BY <1>2 DEF LifeDisconnect, LifeCcuTest, Unnoticed, mind, timers
<1>3. ASSUME NEW s \in Slot, \/ LifeHotspotTest(s)
                             \/ \E p \in World : LifeLogin(s, p)
                             \/ \E h \in Home : LifeResurrection(s, h)
      PROVE  LifeTypeOK'
  <2>1. Undisturbed /\ \E N : Woken(N)
    BY <1>3 DEF LifeHotspotTest, LifeLogin, LifeResurrection
  <2> QED
    BY <2>1, WokenType DEF Undisturbed
<1>4. ASSUME NEW s \in Slot, NEW d \in 0 .. 4, LifeMove(s, d)
      PROVE  LifeTypeOK'
  <2> DEFINE seen == LiveNpcsAround(Stepped(pos[s], d))
  <2>1. Woken(seen \ npc_view_list[s])
    BY <1>4 DEF LifeMove
  <2>2. ASSUME NEW k \in Npc \X Slot, k[1] \in seen /\ k[2] = s
        PROVE  detects[k] + 1 \in 0 .. MaxPending
    <3>1. k = <<k[1], s>>
      BY <2>2
    <3>2. detects[<<k[1], s>>] < MaxPending
      BY <1>4, <2>2 DEF LifeMove
    <3> QED
      BY <3>1, <3>2, PendingAssumption
  <2>3. detects' \in [Npc \X Slot -> 0 .. MaxPending]
    BY <1>4, <2>2 DEF LifeMove
  <2> QED
    BY <1>4, <2>1, <2>3, WokenType DEF LifeMove
<1>5. ASSUME NEW s \in Slot, NEW n \in Npc, Hit(s, n)
      PROVE  LifeTypeOK'
  BY <1>5, PendingAssumption DEF Hit, vars, StrikeId
<1>6. ASSUME NEW s \in Slot, NEW n \in Npc, LifeKill(s, n)
      PROVE  LifeTypeOK'
  BY <1>6 DEF LifeKill, LaidToSleep, RevivalSet
<1>7. ASSUME NEW n \in Npc, EvMove(n)
      PROVE  LifeTypeOK'
  <2>1. CASE MoveStrike(n)
    BY <2>1, PendingAssumption DEF MoveStrike, mind, StrikeId
  <2>2. CASE \E d \in 0 .. 3 : MoveStroll(n, d)
    BY <2>2 DEF MoveStroll, mind, timers
  <2>3. CASE MoveSleep(n)
    BY <2>3 DEF MoveSleep, LaidToSleep, ChainEnds, Due
  <2>4. CASE MoveNothing(n)
    BY <2>4 DEF MoveNothing, ChainEnds, Due, mind
  <2> QED
    BY <1>7, <2>1, <2>2, <2>3, <2>4 DEF EvMove
<1>8. ASSUME NEW s \in Slot, NEW n \in Npc, Detect(n, s)
      PROVE  LifeTypeOK'
  BY <1>8, PendingAssumption DEF Detect
<1>9. ASSUME NEW k \in StrikeId, Strike(k)
      PROVE  LifeTypeOK'
  BY <1>9, PendingAssumption DEF Strike, StrikeBlank, StrikeDeath, Struck, mind
<1>10. ASSUME NEW n \in Npc, Revive(n)
      PROVE  LifeTypeOK'
  BY <1>10 DEF Revive, LaidToSleep
<1>11. CASE UNCHANGED life_vars
  BY <1>11 DEF life_vars, mind, timers
<1> QED
  BY <1>1, <1>2, <1>3, <1>4, <1>5, <1>6, <1>7, <1>8, <1>9, <1>10, <1>11 DEF LifeNext

(* The type invariant. *)
THEOREM LifeTypeCorrect == LifeSpec => []LifeTypeOK
<1>1. LifeInit => LifeTypeOK
  <2>1. Init => TypeOK
    BY SizeAssumption, WorldAssumption DEF Init, TypeOK, World
  <2> QED
    BY <2>1, PendingAssumption DEF LifeInit, LifeTypeOK, StrikeId
<1> QED
  BY <1>1, LifeTypeStep, PTL DEF LifeSpec

(* NpcLife only decides when the handlers of Views run: all that is proved *)
(* of the view lists holds with the timers and targets of the NPCs.        *)
THEOREM ImplementsViews == LifeSpec => Spec
<1>1. LifeInit => Init
  BY DEF LifeInit
<1>2. LifeTypeOK /\ [LifeNext]_life_vars => [Next]_vars
  BY LifeStepIsViewsStep
<1> QED
  BY <1>1, <1>2, LifeTypeCorrect, PTL DEF LifeSpec, Spec

-----------------------------------------------------------------------------

(* No handler moves an NPC away from where the dead are parked: what moves *)
(* it asks for a player near it, and nobody in the world is.               *)
LEMMA ParkedStays ==
  ASSUME LifeTypeOK, [LifeNext]_life_vars
  PROVE  ParkedStep
<1> SUFFICES ASSUME NEW n \in Npc, Parked(n)
             PROVE  Parked(n)'
  BY DEF ParkedStep
<1> USE DEF Parked
<1>1. [Next]_vars
  BY LifeStepIsViewsStep
<1>2. CASE Accept \/ \E s \in Slot : Disconnect(s) \/ HotspotTest(s) \/ Death(s)
  BY <1>2 DEF Accept, Disconnect, HotspotTest, Death
<1>3. CASE \E s \in Slot : \/ \E p \in World : Login(s, p) \/ CcuTest(s, p)
                           \/ \E d \in 0 .. 4 : Move(s, d)
                           \/ \E h \in Home : Resurrection(s, h)
  BY <1>3 DEF Login, CcuTest, Move, Resurrection, npc_vars
<1>4. CASE \E s \in Slot, m \in Npc : KillNpc(s, m)
  BY <1>4 DEF KillNpc, LifeTypeOK, TypeOK
<1>5. CASE \E m \in Npc : \E d \in 0 .. 3 : random_move_NPC(m, d)
  <2> PICK m \in Npc : \E d \in 0 .. 3 : random_move_NPC(m, d)
    BY <1>5
  <2>1. m # n
    BY DeadPosAssumption DEF random_move_NPC, LifeTypeOK, TypeOK
  <2> QED
    BY <2>1 DEF random_move_NPC, LifeTypeOK, TypeOK
<1>6. CASE \E m \in Npc : NpcResurrection(m)
  BY <1>6 DEF NpcResurrection
<1>7. CASE UNCHANGED vars
  BY <1>7 DEF vars, npc_vars
<1> QED
  BY <1>1, <1>2, <1>3, <1>4, <1>5, <1>6, <1>7 DEF Next

(* A killed NPC never comes back to the map, for any world and any NPCs.   *)
THEOREM StaysParked == LifeSpec => ParkedForGood
<1>1. LifeTypeOK /\ [LifeNext]_life_vars => [ParkedStep]_life_vars
  BY ParkedStays
<1> QED
  BY <1>1, LifeTypeCorrect, PTL DEF LifeSpec, ParkedForGood

(* The invariants of Views hold of NpcLife, which implements it. *)
LEMMA ViewsHold == LifeSpec => [](IInv /\ LifeTypeOK)
  BY ImplementsViews, Inductive, LifeTypeCorrect, PTL

-----------------------------------------------------------------------------

(* What the invariants of NpcLifeProps rest on.  A parked NPC sleeps: so   *)
(* its chain is not counted, and no strike of it gets past the first test. *)
ParkedAsleep == \A n \in Npc : Parked(n) => is_sleeping[n]

(* StrikesAimed without the flags: only death takes a target away. *)
Aimed ==
  \A n \in Npc \ strayed :
    strikes[n] > 0 => n \in Warlike /\ (~ Parked(n) => target_user_id[n] # NoTarget)

LifeInv ==
  /\ ParkedAsleep
  /\ RevivalOwed
  /\ ChainBound
  /\ AwakeMoves
  /\ Aimed

(* A wake-up of NPCs that are not parked. *)
LEMMA WokenStep ==
  ASSUME LifeTypeOK, LifeInv, NEW N, \A n \in N \cap Npc : ~ Parked(n),
         Woken(N), UNCHANGED <<npc_pos, is_die, target_user_id, strikes, strayed, revivals>>
  PROVE  LifeInv'
<1> USE DEF LifeInv, LifeTypeOK, Woken, Parked
<1>1. ParkedAsleep'
  BY DEF ParkedAsleep
<1>2. RevivalOwed'
  BY DEF RevivalOwed, Number
<1>3. ASSUME NEW n \in Npc
      PROVE  moves'[n] + Number(is_sleeping'[n] /\ ~ Parked(n)')
               <= moves[n] + Number(is_sleeping[n] /\ ~ Parked(n))
  <2>1. CASE n \in N /\ is_sleeping[n]
    <3>1. ~ is_sleeping'[n] /\ moves'[n] = moves[n] + 1 /\ ~ Parked(n)
      BY <2>1
    <3>2. /\ Number(is_sleeping'[n] /\ ~ Parked(n)') = 0
          /\ Number(is_sleeping[n] /\ ~ Parked(n)) = 1
      BY <2>1, <3>1 DEF Number
    <3> QED
      BY <3>1, <3>2
  <2>2. CASE ~ (n \in N /\ is_sleeping[n])
    BY <2>2 DEF Number
  <2> QED
    BY <2>1, <2>2
<1>4. ChainBound'
  <2> SUFFICES ASSUME NEW n \in Npc
               PROVE  moves'[n] + Number(is_sleeping'[n] /\ ~ Parked(n)')
                        <= 1 + Number(n \in Wanderer)
    BY DEF ChainBound
  <2>1. moves[n] + Number(is_sleeping[n] /\ ~ Parked(n)) <= 1 + Number(n \in Wanderer)
    BY DEF ChainBound
  <2> QED
    BY <1>3, <2>1 DEF Number
<1>5. AwakeMoves'
  BY KindAssumption DEF AwakeMoves
<1>6. Aimed'
  BY DEF Aimed
<1> QED
  BY <1>1, <1>2, <1>4, <1>5, <1>6

(* The handlers that wake what is in sight of a place of the world.        *)
LEMMA ArrivalStep ==
  ASSUME LifeTypeOK, LifeInv, NEW s \in Slot,
         \/ LifeHotspotTest(s)
         \/ \E p \in World : LifeLogin(s, p)
         \/ \E d \in 0 .. 4 : LifeMove(s, d)
         \/ \E h \in Home : LifeResurrection(s, h)
  PROVE  LifeInv'
<1>1. ASSUME NEW p \in World, NEW n \in Npc, n \in NpcsAround(p)
      PROVE  ~ Parked(n)
  BY <1>1, DeadPosAssumption DEF NpcsAround, Parked
<1>2. CASE LifeHotspotTest(s)
  BY <1>1, <1>2, WokenStep, PlaceAssumption
     DEF LifeHotspotTest, HotspotTest, HotspotNpcs, Undisturbed
<1>3. CASE \E p \in World : LifeLogin(s, p)
  BY <1>1, <1>3, WokenStep DEF LifeLogin, Login, Undisturbed
<1>4. CASE \E d \in 0 .. 4 : LifeMove(s, d)
  <2> PICK d \in 0 .. 4 : LifeMove(s, d)
    BY <1>4
  <2> DEFINE p == Stepped(pos[s], d)
             N == LiveNpcsAround(p) \ npc_view_list[s]
  <2>1. p \in World
    BY SteppedInWorld DEF LifeTypeOK, TypeOK
  <2>2. \A n \in N \cap Npc : ~ Parked(n)
    BY <1>1, <2>1 DEF LiveNpcsAround, NpcsAround
  <2>3. /\ Woken(N)
        /\ UNCHANGED <<npc_pos, is_die, target_user_id, strikes, strayed, revivals>>
    BY DEF LifeMove, Move
  <2> QED
    BY <2>2, <2>3, WokenStep
<1>5. CASE \E h \in Home : LifeResurrection(s, h)
  BY <1>1, <1>5, WokenStep, PlaceAssumption DEF LifeResurrection, Resurrection, Undisturbed
<1> QED
  BY <1>2, <1>3, <1>4, <1>5

LEMMA LifeInvStep ==
  ASSUME IInv, LifeTypeOK, LifeInv, [LifeNext]_life_vars
  PROVE  LifeInv'
<1> USE DEF LifeInv, LifeTypeOK, TypeOK
<1>0. ASSUME UNCHANGED <<npc_pos, is_die, mind, moves, strikes, strayed, revivals>>
      PROVE  LifeInv'
  BY <1>0 DEF mind, ParkedAsleep, RevivalOwed, ChainBound, AwakeMoves, Aimed,
              Parked, Number
<1>1. CASE LifeAccept
  BY <1>0, <1>1 DEF LifeAccept, Accept, Unnoticed, timers
<1>2. ASSUME NEW s \in Slot, LifeDisconnect(s) \/ \E p \in World : LifeCcuTest(s, p)
      PROVE  LifeInv'
  BY <1>0, <1>2 DEF LifeDisconnect, Disconnect, LifeCcuTest, CcuTest, Unnoticed, timers,
                    npc_vars
<1>3. ASSUME NEW s \in Slot,
             \/ LifeHotspotTest(s)
             \/ \E p \in World : LifeLogin(s, p)
             \/ \E d \in 0 .. 4 : LifeMove(s, d)
             \/ \E h \in Home : LifeResurrection(s, h)
      PROVE  LifeInv'
  BY <1>3, ArrivalStep
<1>4. ASSUME NEW s \in Slot, NEW n \in Npc, Hit(s, n)
      PROVE  LifeInv'
  <2>1. UNCHANGED <<npc_pos, is_die, is_sleeping, moves, revivals>>
    BY <1>4 DEF Hit, vars, npc_vars
  <2>2. ParkedAsleep' /\ RevivalOwed' /\ ChainBound' /\ AwakeMoves'
    BY <2>1 DEF ParkedAsleep, RevivalOwed, ChainBound, AwakeMoves, Parked, Number
  <2>3. /\ \A m \in Npc \ strayed' : strikes'[m] = strikes[m]
        /\ strayed \subseteq strayed'
    BY <1>4 DEF Hit, StrikeId
  <2>4. \A m \in Npc : target_user_id[m] # NoTarget => target_user_id'[m] # NoTarget
    BY <1>4 DEF Hit
  <2> QED
    BY <2>1, <2>2, <2>3, <2>4 DEF Aimed, Parked
<1>5. ASSUME NEW s \in Slot, NEW n \in Npc, LifeKill(s, n)
      PROVE  LifeInv'
  <2> USE DEF Parked
  <2>1. ~ is_die[n]
    BY <1>5 DEF LifeKill, KillNpc, IInv, DeadInv, DeadNpcUnlisted
  <2>2. /\ npc_pos' = [npc_pos EXCEPT ![n] = DeadPos]
        /\ is_die' = [is_die EXCEPT ![n] = TRUE]
        /\ is_sleeping' = [is_sleeping EXCEPT ![n] = TRUE]
        /\ revivals' = [revivals EXCEPT ![n] = @ + 1]
        /\ target_user_id' = [target_user_id EXCEPT ![n] = NoTarget]
        /\ UNCHANGED <<moves, strikes, strayed>>
    BY <1>5 DEF LifeKill, KillNpc, LaidToSleep, RevivalSet
  <2>3. ParkedAsleep'
    BY <2>2 DEF ParkedAsleep
  <2>4. RevivalOwed'
    BY <2>1, <2>2 DEF RevivalOwed, Number
  <2>5. ChainBound'
    BY <2>2 DEF ChainBound, Number
  <2>6. AwakeMoves'
    BY <2>2 DEF AwakeMoves
  <2>7. Aimed'
    BY <2>2 DEF Aimed
  <2> QED
    BY <2>3, <2>4, <2>5, <2>6, <2>7
<1>6. ASSUME NEW n \in Npc, EvMove(n)
      PROVE  LifeInv'
  <2>1. CASE MoveStrike(n)
    <3>1. /\ UNCHANGED <<npc_pos, is_die, is_sleeping, target_user_id, moves, revivals>>
          /\ \A m \in StrikeId : m # n => strikes'[m] = strikes[m]
          /\ n \in Warlike /\ target_user_id[n] # NoTarget
          /\ strayed' = strayed
      BY <2>1 DEF MoveStrike, Attacking, InReach, mind, vars, npc_vars
    <3>2. ParkedAsleep' /\ RevivalOwed' /\ ChainBound' /\ AwakeMoves'
      BY <3>1 DEF ParkedAsleep, RevivalOwed, ChainBound, AwakeMoves, Parked, Number
    <3> QED
      BY <3>1, <3>2 DEF Aimed, Parked, StrikeId
  <2>2. CASE \E d \in 0 .. 3 : MoveStroll(n, d)
    <3>1. /\ UNCHANGED <<is_die, is_sleeping, target_user_id, moves, strikes, strayed, revivals>>
          /\ \A m \in Npc : Parked(m)' <=> Parked(m)
      <4> PICK d \in 0 .. 3 : random_move_NPC(n, d) /\ UNCHANGED <<mind, timers>>
        BY <2>2 DEF MoveStroll
      <4>1. npc_pos[n] \in World
        BY DeadPosAssumption DEF random_move_NPC
      <4>2. Stepped(npc_pos[n], d) \in World
        BY <4>1, SteppedInWorld
      <4>3. ~ Parked(n) /\ npc_pos'[n] # DeadPos
        BY <4>1, <4>2, OutsideAssumption DEF random_move_NPC, Parked
      <4> QED
        BY <4>3 DEF random_move_NPC, Parked, mind, timers
    <3> QED
      BY <3>1 DEF ParkedAsleep, RevivalOwed, ChainBound, AwakeMoves, Aimed,
                  Number
  <2>3. CASE MoveSleep(n)
    <3>1. /\ UNCHANGED <<npc_pos, is_die, target_user_id, strikes, strayed, revivals>>
          /\ is_sleeping' = [is_sleeping EXCEPT ![n] = TRUE]
          /\ moves' = [moves EXCEPT ![n] = @ - 1]
      BY <2>3 DEF MoveSleep, LaidToSleep, ChainEnds, vars, npc_vars
    <3>2. moves[n] > 0
      BY <2>3 DEF MoveSleep, Due
    <3>3. ParkedAsleep' /\ RevivalOwed' /\ AwakeMoves'
      BY <3>1 DEF ParkedAsleep, RevivalOwed, AwakeMoves, Parked, Number
    <3>4. ChainBound'
      BY <3>1, <3>2 DEF ChainBound, Parked, Number
    <3>5. Aimed'
      BY <3>1 DEF Aimed, Parked
    <3> QED
      BY <3>3, <3>4, <3>5
  <2>4. CASE MoveNothing(n)
    <3>1. /\ UNCHANGED <<npc_pos, is_die, is_sleeping, target_user_id, strikes, strayed, revivals>>
          /\ moves' = [moves EXCEPT ![n] = @ - 1]
      BY <2>4 DEF MoveNothing, ChainEnds, mind, vars, npc_vars
    <3>2. moves[n] > 0
      BY <2>4 DEF MoveNothing, Due
    <3>3. n \in Wanderer => is_sleeping[n]
      <4>1. n \in Wanderer => is_die[n]
        BY <2>4, KindAssumption DEF MoveNothing, Active, Strolling, Attacking
      <4> QED
        BY <4>1 DEF IInv, DeadInv, DeadParked, ParkedAsleep, Parked
    <3>4. ParkedAsleep' /\ RevivalOwed' /\ Aimed'
      BY <3>1 DEF ParkedAsleep, RevivalOwed, Aimed, Parked, Number
    <3>5. ChainBound'
      BY <3>1, <3>2 DEF ChainBound, Parked, Number
    <3>6. AwakeMoves'
      BY <3>1, <3>3, KindAssumption DEF AwakeMoves
    <3> QED
      BY <3>4, <3>5, <3>6
  <2> QED
    BY <1>6, <2>1, <2>2, <2>3, <2>4 DEF EvMove
<1>7. ASSUME NEW s \in Slot, NEW n \in Npc, Detect(n, s)
      PROVE  LifeInv'
  <2>1. UNCHANGED <<npc_pos, is_die, is_sleeping, moves, strikes, strayed, revivals>>
    BY <1>7 DEF Detect, vars, npc_vars
  <2>2. \A m \in Npc : target_user_id[m] # NoTarget => target_user_id'[m] # NoTarget
    BY <1>7 DEF Detect
  <2> QED
    BY <2>1, <2>2 DEF ParkedAsleep, RevivalOwed, ChainBound, AwakeMoves, Aimed,
                      Parked, Number
<1>8. ASSUME NEW k \in StrikeId, Strike(k)
      PROVE  LifeInv'
  <2>1. /\ UNCHANGED <<npc_pos, is_die, is_sleeping, target_user_id, moves, revivals>>
        /\ \A m \in StrikeId \ strayed' : strikes'[m] > 0 => strikes[m] > 0 /\ m \notin strayed
    BY <1>8 DEF Strike, StrikeBlank, StrikeDeath, Death, Struck, mind, vars, npc_vars
  <2> QED
    BY <2>1 DEF ParkedAsleep, RevivalOwed, ChainBound, AwakeMoves, Aimed,
                Parked, Number, StrikeId
<1>9. ASSUME NEW n \in Npc, Revive(n)
      PROVE  LifeInv'
  <2>1. is_die[n] /\ revivals[n] = 1
    BY <1>9 DEF Revive, RevivalOwed, Number
  <2>2. Parked(n)
    BY <2>1 DEF IInv, DeadInv, DeadParked, Parked
  <2>3. /\ npc_pos' = npc_pos
        /\ is_die' = [is_die EXCEPT ![n] = FALSE]
        /\ is_sleeping' = [is_sleeping EXCEPT ![n] = TRUE]
        /\ revivals' = [revivals EXCEPT ![n] = @ - 1]
        /\ target_user_id' = [target_user_id EXCEPT ![n] = NoTarget]
        /\ UNCHANGED <<moves, strikes, strayed>>
    BY <1>9 DEF Revive, Resurrected, LaidToSleep
  <2>4. ParkedAsleep' /\ AwakeMoves'
    BY <2>3 DEF ParkedAsleep, AwakeMoves, Parked
  <2>5. RevivalOwed'
    BY <2>1, <2>3 DEF RevivalOwed, Number
  <2>6. ChainBound'
    BY <2>2, <2>3 DEF ChainBound, Parked, Number
  <2>7. Aimed'
    BY <2>2, <2>3 DEF Aimed, Parked
  <2> QED
    BY <2>4, <2>5, <2>6, <2>7
<1>10. CASE UNCHANGED life_vars
  BY <1>0, <1>10 DEF life_vars, vars, npc_vars, timers
<1> QED
  BY <1>1, <1>2, <1>3, <1>4, <1>5, <1>6, <1>7, <1>8, <1>9, <1>10 DEF LifeNext

THEOREM LifeInductive == LifeSpec => []LifeInv
<1>1. LifeInit => LifeInv
  <2> SUFFICES ASSUME LifeInit
               PROVE  LifeInv
    OBVIOUS
  <2>1. \A n \in Npc : ~ Parked(n)
    BY OutsideAssumption DEF LifeInit, Init, Parked
  <2>2. ParkedAsleep /\ RevivalOwed /\ Aimed
    BY <2>1 DEF LifeInit, Init, ParkedAsleep, RevivalOwed, Aimed,
                StrikeId, Number
  <2>3. ChainBound
    BY <2>1 DEF LifeInit, ChainBound, Number
  <2>4. AwakeMoves
    BY KindAssumption DEF LifeInit, AwakeMoves
  <2> QED
    BY <2>2, <2>3, <2>4 DEF LifeInv
<1>2. IInv /\ LifeTypeOK /\ LifeInv /\ [LifeNext]_life_vars => LifeInv'
  BY LifeInvStep
<1> QED
  BY <1>1, <1>2, ViewsHold, PTL DEF LifeSpec

(* No NPC has more EV_MOVE chains than its boot timer and its wake-up.     *)
THEOREM ChainsBounded == LifeSpec => []ChainBound
  BY LifeInductive, PTL DEF LifeInv

(* A wandering NPC that is awake has its timer.                            *)
THEOREM WanderersMove == LifeSpec => []AwakeMoves
  BY LifeInductive, PTL DEF LifeInv

(* One resurrection is under way for each dead NPC, none for the living.   *)
THEOREM RevivalsOwed == LifeSpec => []RevivalOwed
  BY LifeInductive, PTL DEF LifeInv

(* Who strikes is of type WAR and past its tests after somebody, except by  *)
(* a timer that carries the id of the player who provoked another NPC.     *)
THEOREM StrikesAreAimed == LifeSpec => []StrikesAimed
<1>1. LifeTypeOK /\ LifeInv => StrikesAimed
  BY DEF LifeInv, LifeTypeOK, ParkedAsleep, Aimed, StrikesAimed
<1> QED
  BY <1>1, LifeInductive, LifeTypeCorrect, PTL
=============================================================================
