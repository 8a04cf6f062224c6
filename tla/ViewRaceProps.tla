--------------------------- MODULE ViewRaceProps ---------------------------
(* What the interleaved handlers of ViewRace keep of the contract of Views. *)
EXTENDS ViewRace

\* While a handler runs, the contract sees the state it started from, and
\* for ever when its thread is stuck.
Contract == INSTANCE Views WITH
  in_use <- base[1],
  is_dummy <- base[2],
  pos <- [s \in Slot |-> base[3][s]],
  npc_pos <- [n \in Npc |-> base[3][n]],
  view_list <- [s \in Slot |-> base[4][s] \cap Slot],
  npc_view_list <- [s \in Slot |-> base[4][s] \cap Npc],
  screen <- [s \in Slot |-> base[5][s] \cap Slot],
  npc_screen <- [s \in Slot |-> base[5][s] \cap Npc],
  reviving <- base[6],
  is_die <- base[7]

(* Run one at a time, the handlers do what Views says of them: every       *)
(* operation of the code, in its order, adds up to the atomic action.      *)
KeepsContract == Contract!Spec

(* A handler on its own: no other thread was in the middle of one when it  *)
(* started, and none has started since.                                    *)
Alone(w, kind) == w \in alone /\ job[w][1] = kind

(* Whatever the interleavings of the past have left in the lists, one      *)
(* CS_MOVE of s that runs without interference makes its lists exact and   *)
(* enters s in the lists of the players it sees: the lists heal.           *)
LoneMoveHeals ==
  \A w \in Worker :
    Alone(w, "move") /\ Doing(w, {"recv"}) =>
      LET s == job[w][2]
          seen == {x \in (Slot \ {s}) \cup Npc : Sighted(s, x)}
      IN  list[s] = seen /\ \A i \in seen \cap Slot : s \in list[i]

(* Whatever the interleavings of the past have left, a disconnect of s     *)
(* that runs without interference leaves nobody registered with s in its   *)
(* list.                                                                   *)
LoneDisconnectClears ==
  \A w \in Worker :
    Alone(w, "disconnect") /\ Doing(w, {"free"}) =>
      \A i \in Slot : in_use[i] => job[w][2] \notin list[i]

(* As long as nobody was disconnected, nobody sends to a closed socket:    *)
(* do_accept publishes in_use, which the loops over the clients read       *)
(* without a lock, only when the socket is there.                          *)
NobodyStalls == calm => \A w \in Thread : ~ Stuck(w)
============================================================================
