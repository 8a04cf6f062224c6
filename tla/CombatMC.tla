----------------------------- MODULE CombatMC -----------------------------
(* A player of little experience and one blow from its next level, an NPC  *)
(* that two blows kill and the DRAGON.                                     *)
EXTENDS CombatProps, TLC

CONSTANTS p1, n1, n2, w1, w2

MCKind == (p1 :> "ANGEL") @@ (n1 :> "ANGEL") @@ (n2 :> "DRAGON")
MCLife == (n1 :> 3) @@ (n2 :> 1)
MCStrength == (n1 :> 4) @@ (n2 :> 1)
MCWorth == (n1 :> 1) @@ (n2 :> 3)
MCRow == {[LEVEL |-> 1, EXP |-> e, HP |-> 2, ATTACK |-> 2] : e \in {0, 2}}
MCRegister == {-8}

MCSymmetry == Permutations({w1, w2})
=============================================================================
