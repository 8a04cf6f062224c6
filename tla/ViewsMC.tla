------------------------------ MODULE ViewsMC ------------------------------
(* A corridor of three cells seen one cell far for TLC: the ends do not see *)
(* each other, the middle sees both.                                        *)
EXTENDS ViewsProps

MCHome == {<<0, 0>>}
MCHotspot == <<1, 0>>
MCNpc == {100}
MCNoNpc == {}
============================================================================
