----------------------------- MODULE EarlierMC -----------------------------
(* One slot, used by one connection after another, and one NPC in a        *)
(* corridor of three cells.                                                *)
EXTENDS EarlierProps

MCStart == <<0, 0>>
=============================================================================
