---------------------------- MODULE ChainsProps ----------------------------
(* What sleep and wake-up promise when the workers get in each other's way. *)
EXTENDS Chains

\* The workers that hold a chain: they will set a timer, or put to sleep.
Running == {w \in Worker : job[w].at \in {"push", "look", "doze", "stroll", "again"}}

Number(b) == IF b THEN 1 ELSE 0

\* Sleep is a chain to come.
ChainCount == moves + Cardinality(Running) + Number(is_sleeping)

(* The NPC never has fewer chains than one, so that it is never awake and  *)
(* without an EV_MOVE, whatever wakes it or puts it to sleep at once; and  *)
(* never more than the two that Initialize_NPC may give it and one for     *)
(* each time two workers acted on one test of is_sleeping.  Those stay:    *)
(* nothing but sleep ends a chain.                                         *)
ChainsCounted == ChainCount \in 1 .. 2 + races

\* Asleep, without a chain, and nobody is about to wake it.
FastAsleep ==
  /\ is_sleeping /\ moves = 0 /\ Running = {}
  /\ \A w \in Worker : job[w].at \notin {"test", "clear"}

(* The NPC sleeps in front of a player who sees it in two cases only: the  *)
(* player came near when an EV_MOVE had looked past it and was still to    *)
(* write is_sleeping, or had jumped off with the NPC in its list, so that  *)
(* its return is nothing new.                                              *)
SleptThrough ==
  FastAsleep => \A s \in Player : zone[s] = InSight => s \in excused

(* As long as somebody is there whom it noticed, the NPC goes on strolling. *)
KeepsStrolling ==
  \A s \in Player :
    <>[](zone[s] = InSight /\ s \notin excused) => []<>(\E w \in Worker : job[w].at = "again")
=============================================================================
