--------------------------- MODULE SessionsProps ---------------------------
(* What sessions keep across the reuse of slots, and what they lose. *)
EXTENDS Sessions

(* A connection belongs to a registered slot: a free slot has no open      *)
(* connection, which do_accept would lose, and a registered slot that no   *)
(* stress test marked has one, so the loops over the registered slots send *)
(* to open sockets.                                                        *)
Registered ==
  \A s \in Slot : /\ ~ in_use[s] => ~ open[s]
                  /\ in_use[s] /\ ~ is_dummy[s] => open[s]

(* Until a worker is lost, a player whose connection is over is saved: a   *)
(* free slot still marked as logged in has a save under way.               *)
SaveOwed ==
  \A s \in Slot :
    stuck = 0 /\ ~ in_use[s] /\ is_login[s] /\ ~ is_dummy[s]
      => db_evts["SAVE"][s] > 0

(* Until a worker is lost, a client that asks to log in is answered or     *)
(* disconnected, whatever happened on its slot before, unless the slot has *)
(* been marked as a dummy, which no new connection undoes.                 *)
LoginAnswered ==
  \A s \in Slot : s \in waiting ~> s \notin waiting \/ is_dummy[s] \/ stuck > 0

(* Until a worker is lost, the slot of a client that has left is freed.    *)
SlotFreed ==
  \A s \in Slot :
    open[s] /\ gone[s] ~> ~ (open[s] /\ gone[s]) \/ stuck > 0

(* "Client information saved" (server_main.cpp:2009): what is saved in the *)
(* row of an account is what that account had.                             *)
OwnRow == \A a \in Account : row[a] = a
=============================================================================
