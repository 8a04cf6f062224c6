----------------------------- MODULE NpcLifeMC -----------------------------
(* A hostile NPC that wanders, whose id is also the number of the slot, and *)
(* a peaceful one that stays.                                               *)
EXTENDS NpcLifeProps

MCHome == {<<0, 0>>}
MCHotspot == <<0, 0>>
MCNpc == {0, 1}
MCWarlike == {0}
MCWanderer == {0}
MCResident == {}
MCRegion == [n \in MCNpc |-> IF n = 1 THEN {<<0, 0>>} ELSE {<<2, 0>>}]
=============================================================================
