----------------------------- MODULE ViewsProps -----------------------------
(* What the view lists of module Views promise. *)
EXTENDS Views

(* A player that lists another is listed back, unless the other one is a   *)
(* stress-test dummy: CS_CCU_TEST and CS_HOTSPOT_TEST enter the dummy in   *)
(* the lists around it and nobody in its own.  Every handler that walks    *)
(* only one of the two lists (disconnect_client, CS_MOVE, the death of a   *)
(* player) relies on this.                                                 *)
Paired ==
  \A i, j \in Slot : j \in view_list[i] /\ i \notin view_list[j] => is_dummy[j]

(* A free slot is referred to by nobody and refers to nobody: the next     *)
(* connection do_accept puts there starts with no trace of the last one,   *)
(* and no loop over a list sends to a closed socket.                       *)
FreeSlotsClean ==
  \A s \in Slot : ~ in_use[s] =>
    /\ view_list[s] = {} /\ npc_view_list[s] = {}
    /\ \A i \in Slot : s \notin view_list[i]

(* A player or NPC in a list is on the screen: position packets are only   *)
(* sent for objects the client was told to display before.  It is the      *)
(* direction that puts and removes keep; the converse fails, see ghosts.   *)
ListedIsVisible ==
  \A s \in Slot : /\ view_list[s] \subseteq screen[s]
                  /\ npc_view_list[s] \subseteq npc_screen[s]

(* A dead NPC is in no list, although the loops of login, resurrection and *)
(* the hotspot test do not look at is_die: they are saved by the position  *)
(* the NPC is parked at.                                                   *)
DeadNpcUnlisted ==
  \A n \in Npc : is_die[n] => \A s \in Slot : n \notin npc_view_list[s]

(* Nobody is in its own list: no client is sent its own moves twice.       *)
NotOwnViewer == \A s \in Slot : s \notin view_list[s]

(* The three facts about the player lists, inductive together. *)
ListInv ==
  /\ Paired
  /\ FreeSlotsClean
  /\ NotOwnViewer

-----------------------------------------------------------------------------

(* Whatever the lists held before, one CS_MOVE of s makes them exact: s    *)
(* lists the registered players and live NPCs in sight and no others, all  *)
(* of those players list s, both sides display each other, and unless s is *)
(* a dummy nobody out of its sight lists it.                               *)
ExactAfter(s) ==
  LET seen == {i \in Slot \ {s} : in_use[i] /\ is_eyesight(pos[i], pos'[s])}
  IN  /\ view_list'[s] = seen
      /\ npc_view_list'[s] =
           {n \in Npc : is_eyesight(pos'[s], npc_pos[n]) /\ ~ is_die[n]}
      /\ \A i \in seen : s \in view_list'[i] /\ s \in screen'[i] /\ i \in screen'[s]
      /\ ~ is_dummy[s] => \A i \in Slot : s \in view_list'[i] => i \in seen

MoveHealsStep == \A s \in Slot, d \in 0 .. 4 : Move(s, d) => ExactAfter(s)

MoveHeals == [][MoveHealsStep]_vars

\* The players a client displays and is no longer told about.
Ghosts(s) == screen[s] \ (view_list[s] \cup {s})

(* Only the death of a player leaves ghosts on a screen, and only on its   *)
(* own: EV_NPC_ATTACK clears the lists of the dead without remove packets  *)
(* for what they held.  Every other handler takes off the screens whoever  *)
(* it takes off the lists.                                                 *)
GhostStep == \A s \in Slot : Ghosts(s)' \subseteq Ghosts(s) \/ Death(s)

GhostsOnlyByDeath == [][GhostStep]_vars

\* The NPCs a client displays and is no longer told about.
NpcGhosts(s) == npc_screen[s] \ npc_view_list[s]

(* Every other loop over the clients pairs the change of a list with the   *)
(* packet about it; the death of an NPC takes the NPC off all lists and    *)
(* off the screen of its killer only.  So a client comes to display NPCs   *)
(* it is no longer told about in two ways: it dies, or somebody else kills *)
(* an NPC, and then it is that NPC and no other.                           *)
NpcGhostStep ==
  \A s \in Slot :
    \/ NpcGhosts(s)' \subseteq NpcGhosts(s)
    \/ Death(s)
    \/ \E t \in Slot \ {s}, n \in Npc :
         KillNpc(t, n) /\ NpcGhosts(s)' \subseteq NpcGhosts(s) \cup {n}

NpcGhostsOnlyByDeaths == [][NpcGhostStep]_vars
=============================================================================
