----------------------------- MODULE ViewRaceMC -----------------------------
(* Worlds for TLC: two cells that do not see each other, or a corridor of   *)
(* three whose ends do not see each other.                                  *)
EXTENDS ViewRaceProps, TLC

MCHome == {<<0, 0>>}
MCHotspot == <<0, 0>>
MCNpc == {100}
MCNoNpc == {}
CombatHandlers ==
  {"accept", "move", "login", "death", "resurrection", "kill", "npc_move",
   "npc_resurrection", "hotspot"}
SessionHandlers == {"accept", "move", "ccu", "hotspot", "disconnect", "drop", "login"}
RaceHandlers == {"accept", "login", "move", "disconnect"}
WorkerSymmetry == Permutations(Worker)
=============================================================================
