---------------------------- MODULE EarlierProps ----------------------------
(* What the sessions, the NPC lists and the timer of module Earlier keep. *)
EXTENDS Earlier

\* The NPCs a client is told about without ever having been told to show them.
Unseen(s) == npc_viewlist[s] \ npc_screen[s]

(* Handlers put on the screen whatever they enter in the NPCs' list, but   *)
(* do_accept leaves in it what the previous client of the slot was told    *)
(* about: such an NPC is taken for known when it comes in sight, and is    *)
(* never shown.  No other step makes an NPC unseen, but that a worker is   *)
(* lost on the packet about one, and then the client has left already.     *)
UnseenStep ==
  \A s \in Slot :
    \/ Unseen(s)' \subseteq Unseen(s)
    \/ do_accept /\ ~ in_use[s]
    \/ Hang /\ gone[s]

UnseenOnlyByReuse == [][UnseenStep]_vars

\* An event of the timer queue is overdue.
Overdue == \E n \in Npc : late[n] > 0

(* An event is only posted while it is early, and the events queued later  *)
(* are never earlier: from the moment one is overdue, however it came to   *)
(* that (a slow boot, a stalled thread), the NPCs take the steps already   *)
(* posted and then stand still for ever, whoever is near.                  *)
Standstill ==
  <>Overdue => <>[][npc_pos' = npc_pos]_npc_pos

(* Until a thread is lost, the slot of a client that has left is freed:    *)
(* not by the end of the connection, which only asks for a save and, as it *)
(* is received again and again, for another and another, but by the first  *)
(* save that is over.                                                      *)
SlotFreed ==
  \A s \in Slot :
    open[s] /\ gone[s] ~> ~ (open[s] /\ gone[s]) \/ stuck > 0 \/ ~ accepting
=============================================================================
