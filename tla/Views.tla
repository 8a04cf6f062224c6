------------------------------- MODULE Views -------------------------------
(***************************************************************************)
(* Who sees whom on the Tripple_Accent server.                             *)
(*                                                                         *)
(* Every client slot keeps a view_list of player ids and an npc_view_list  *)
(* of NPC ids; put and remove packets are meant to make the screen of the  *)
(* client show exactly what its lists hold.  Here every handler of a       *)
(* completion (a received packet, a timer or a DB event, the end of a      *)
(* connection) is one atomic step: the module is the contract of each      *)
(* handler, and ViewRace shows that the code, run one handler at a time,   *)
(* keeps it.  (Where handlers overlap it may not be kept: a step of an NPC *)
(* is decided from a place it may have left by the time it is written, see *)
(* ViewRace and Combat.)  Every packet sent is displayed; that a worker is *)
(* lost on a closed socket matters here where it ends a handler halfway.   *)
(*                                                                         *)
(* Abstracted: hit points (any hit may kill), what NPCs decide (any live   *)
(* NPC somebody is near may step), login data (any stored position), the   *)
(* chat and status packets, which change no list and no visibility.        *)
(***************************************************************************)
EXTENDS Geometry

CONSTANTS
  MAX_USER,       \* number of client slots
  Npc,            \* ids of the NPCs
  Home,           \* where the kinds FAIRY, DEVIL and ANGEL start
  Hotspot,        \* where the hotspot test puts its clients
  MaxRevive       \* bound: resurrection events pending for one slot

Slot == 0 .. MAX_USER - 1

ASSUME SizeAssumption ==
  /\ MAX_USER \in Nat \ {0}
  /\ MaxRevive \in Nat
  /\ Npc \subseteq Nat

ASSUME PlaceAssumption == Home \subseteq World /\ Hotspot \in World

VARIABLES
  in_use,         \* slot -> is a connection registered in it
  is_dummy,       \* slot -> a stress-test packet marked it (never unmarked)
  pos,            \* slot -> x, y
  view_list,      \* slot -> players it is told about
  npc_view_list,  \* slot -> NPCs it is told about
  screen,         \* slot -> players its client displays
  npc_screen,     \* slot -> NPCs its client displays
  reviving,       \* slot -> pending EV_RESURRECTION events
  npc_pos,        \* NPC -> x, y
  is_die          \* NPC -> is it dead

player_vars == <<in_use, is_dummy, pos, view_list, screen, reviving>>
npc_vars == <<npc_view_list, npc_screen, npc_pos, is_die>>
vars == <<player_vars, npc_vars>>

TypeOK ==
  /\ in_use \in [Slot -> BOOLEAN]
  /\ is_dummy \in [Slot -> BOOLEAN]
  /\ pos \in [Slot -> World]
  /\ view_list \in [Slot -> SUBSET Slot]
  /\ npc_view_list \in [Slot -> SUBSET Npc]
  /\ screen \in [Slot -> SUBSET Slot]
  /\ npc_screen \in [Slot -> SUBSET Npc]
  /\ reviving \in [Slot -> 0 .. MaxRevive]
  /\ npc_pos \in [Npc -> World \cup {DeadPos}]
  /\ is_die \in [Npc -> BOOLEAN]

Init ==
  /\ in_use = [s \in Slot |-> FALSE]
  /\ is_dummy = [s \in Slot |-> FALSE]
  /\ pos = [s \in Slot |-> <<0, 0>>]
  /\ view_list = [s \in Slot |-> {}]
  /\ npc_view_list = [s \in Slot |-> {}]
  /\ screen = [s \in Slot |-> {}]
  /\ npc_screen = [s \in Slot |-> {}]
  /\ reviving = [s \in Slot |-> 0]
  /\ npc_pos \in [Npc -> World]
  /\ is_die = [n \in Npc |-> FALSE]

(***************************************************************************)
(* Helpers.  Joined and Parted add or drop one id in the sets of several   *)
(* slots: the loops that lock one client after another.                    *)
(***************************************************************************)
\* Faulty variants of the next two definitions: the lists stay as they were.
NotJoined(f, I, x) == f

NotParted(f, I, x) == f

Joined(f, I, x) == [i \in Slot |-> IF i \in I THEN f[i] \cup {x} ELSE f[i]]

Parted(f, I, x) == [i \in Slot |-> IF i \in I THEN f[i] \ {x} ELSE f[i]]

\* Faulty variant of the next definition: in_use is not looked at.
AroundAnyone(s, p) == {i \in Slot \ {s} : is_eyesight(pos[i], p)}

\* The other registered slots that see position p (logged in or not).
Around(s, p) == {i \in Slot \ {s} : in_use[i] /\ is_eyesight(pos[i], p)}

\* Faulty variants of the next definition: everybody is told, nobody is.
AllAware(I, s) == I

NoneAware(I, s) == {}

\* The slots, s included or not, that have s in their list.
Aware(I, s) == {i \in I : s \in view_list[i]}

\* Faulty variant of the next definition: nothing is taken off.
Overdrawn(shown, gone, come) == shown \cup come

\* A screen after the remove packets for gone and the put packets for come.
Redrawn(shown, gone, come) == (shown \ gone) \cup come

LiveNpcsAround(p) == {n \in Npc : is_eyesight(p, npc_pos[n]) /\ ~ is_die[n]}

NpcsAround(p) == {n \in Npc : is_eyesight(p, npc_pos[n])}

(***************************************************************************)
(* Connections.                                                            *)
(***************************************************************************)

\* do_accept: the lowest free slot, its lists cleared.  x, y and is_dummy
\* keep what the previous owner left.
Accept ==
  \E s \in Slot :
    /\ ~ in_use[s]
    /\ \A i \in Slot : i < s => in_use[i]
    /\ in_use' = [in_use EXCEPT ![s] = TRUE]
    /\ view_list' = [view_list EXCEPT ![s] = {}]
    /\ npc_view_list' = [npc_view_list EXCEPT ![s] = {}]
    /\ screen' = [screen EXCEPT ![s] = {}]
    /\ npc_screen' = [npc_screen EXCEPT ![s] = {}]
    /\ UNCHANGED <<is_dummy, pos, reviving, npc_pos, is_die>>

\* disconnect_client: everybody who lists s drops it and is told so.
Disconnect(s) ==
  LET aware == Aware({i \in Slot \ {s} : in_use[i]}, s)
  IN  /\ in_use[s]
      /\ view_list' = [Parted(view_list, aware, s) EXCEPT ![s] = {}]
      /\ screen' = [Parted(screen, aware, s) EXCEPT ![s] = {}]
      /\ in_use' = [in_use EXCEPT ![s] = FALSE]
      /\ npc_view_list' = [npc_view_list EXCEPT ![s] = {}]
      /\ npc_screen' = [npc_screen EXCEPT ![s] = {}]
      /\ UNCHANGED <<is_dummy, pos, reviving, npc_pos, is_die>>

\* The mutual introduction shared by login and resurrection: s is put on
\* its own screen and, at its new position, on those of everybody around.
Appear(s, p) ==
  LET around == Around(s, p)
      npcs   == NpcsAround(p)
  IN  /\ pos' = [pos EXCEPT ![s] = p]
      /\ view_list' = [Joined(view_list, around, s) EXCEPT ![s] = @ \cup around]
      /\ screen' = [Joined(screen, around, s) EXCEPT ![s] = @ \cup around \cup {s}]
      /\ npc_view_list' = [npc_view_list EXCEPT ![s] = @ \cup npcs]
      /\ npc_screen' = [npc_screen EXCEPT ![s] = @ \cup npcs]

\* DB_EVT_SEARCH answered with a position; skipped for a dummy slot.
Login(s, p) ==
  /\ in_use[s]
  /\ ~ is_dummy[s]
  /\ Appear(s, p)
  /\ UNCHANGED <<in_use, is_dummy, reviving, npc_pos, is_die>>

(***************************************************************************)
(* Packets.                                                                *)
(***************************************************************************)

\* CS_MOVE
Move(s, d) ==
  LET p       == Stepped(pos[s], d)
      old     == view_list[s]
      new     == Around(s, p)
      old_npc == npc_view_list[s]
      new_npc == LiveNpcsAround(p)
  IN  /\ in_use[s]
      /\ pos' = [pos EXCEPT ![s] = p]
      /\ view_list' =
           [Parted(Joined(view_list, new, s), old \ new, s) EXCEPT ![s] = new]
      /\ screen' =
           [Parted(Joined(screen, new \ Aware(new, s), s),
                   Aware(old \ new, s), s)
              EXCEPT ![s] = Redrawn(@, old \ new, new \ old)]
      /\ npc_view_list' = [npc_view_list EXCEPT ![s] = new_npc]
      /\ npc_screen' =
           [npc_screen EXCEPT ![s] =
              Redrawn(@, old_npc \ new_npc, new_npc \ old_npc)]
      /\ UNCHANGED <<in_use, is_dummy, reviving, npc_pos, is_die>>

\* A stress test makes a dummy of the slot, even one freed since the packet
\* came; others list the dummy, it lists nobody.
Dummy(s, p) ==
  /\ pos' = [pos EXCEPT ![s] = p]
  /\ is_dummy' = [is_dummy EXCEPT ![s] = TRUE]
  /\ in_use' = [in_use EXCEPT ![s] = TRUE]
  /\ view_list' = Joined(view_list, Around(s, p), s)
  /\ screen' = Joined(screen, Around(s, p), s)

\* CS_CCU_TEST: a dummy at a random place.
CcuTest(s, p) == Dummy(s, p) /\ UNCHANGED <<reviving, npc_vars>>

\* The NPCs the hotspot test of s reaches: for a freed slot the first, on
\* whose packet the worker is lost.
HotspotNpcs(s) ==
  {n \in NpcsAround(Hotspot) : in_use[s] \/ \A m \in NpcsAround(Hotspot) : n <= m}

\* CS_HOTSPOT_TEST: a dummy at a fixed place, with NPCs around.
HotspotTest(s) ==
  /\ Dummy(s, Hotspot)
  /\ npc_view_list' = [npc_view_list EXCEPT ![s] = @ \cup HotspotNpcs(s)]
  /\ npc_screen' = [npc_screen EXCEPT ![s] = @ \cup HotspotNpcs(s)]
  /\ UNCHANGED <<reviving, npc_pos, is_die>>

(***************************************************************************)
(* Combat.                                                                 *)
(***************************************************************************)

\* EV_NPC_ATTACK, the blow that kills: those s lists drop it; then s loses
\* its lists, but is sent a remove packet only for itself.  in_use is not
\* asked, but for a free slot the first packet is the end of the worker.
Death(s) ==
  LET aware == Aware(view_list[s], s)
  IN  /\ in_use[s]
      /\ ~ is_dummy[s]
      /\ \E n \in Npc : ~ is_die[n] /\ is_near_npc(pos[s], npc_pos[n])
      /\ reviving[s] < MaxRevive
      /\ view_list' = [Parted(view_list, aware, s) EXCEPT ![s] = {}]
      /\ screen' = [Parted(screen, aware, s) EXCEPT ![s] = @ \ {s}]
      /\ npc_view_list' = [npc_view_list EXCEPT ![s] = {}]
      /\ reviving' = [reviving EXCEPT ![s] = @ + 1]
      /\ UNCHANGED <<in_use, is_dummy, pos, npc_screen, npc_pos, is_die>>

\* The worker puts s, which nobody owns, at h and is lost on the first packet.
Vanish(s, h) ==
  /\ pos' = [pos EXCEPT ![s] = h]
  /\ UNCHANGED <<view_list, screen, npc_view_list, npc_screen>>

\* EV_RESURRECTION: the slot, whoever owns it by now, goes home.
Resurrection(s, h) ==
  /\ reviving[s] > 0
  /\ reviving' = [reviving EXCEPT ![s] = @ - 1]
  /\ IF in_use[s] THEN Appear(s, h) ELSE Vanish(s, h)
  /\ UNCHANGED <<in_use, is_dummy, npc_pos, is_die>>

\* EV_ATTACK, the blow that kills NPC n: every list drops it, but only the
\* attacker is sent the remove packet.
KillNpc(s, n) ==
  /\ n \in npc_view_list[s]
  /\ is_near_npc(pos[s], npc_pos[n])
  /\ is_die' = [is_die EXCEPT ![n] = TRUE]
  /\ npc_pos' = [npc_pos EXCEPT ![n] = DeadPos]
  /\ npc_view_list' = Parted(npc_view_list, {i \in Slot : in_use[i]}, n)
  /\ npc_screen' = [npc_screen EXCEPT ![s] = @ \ {n}]
  /\ UNCHANGED player_vars

\* EV_MOVE: an NPC with a player near takes a random step.
random_move_NPC(n, d) ==
  LET p   == Stepped(npc_pos[n], d)
      old == {i \in Slot : in_use[i] /\ is_eyesight(pos[i], npc_pos[n])}
      new == {i \in Slot : in_use[i] /\ is_eyesight(pos[i], p)}
      aware == {i \in Slot : n \in npc_view_list[i]}
  IN  /\ ~ is_die[n]
      /\ \E i \in Slot : in_use[i] /\ is_npc_eyesight(pos[i], npc_pos[n])
      /\ npc_pos' = [npc_pos EXCEPT ![n] = p]
      /\ npc_view_list' = Parted(Joined(npc_view_list, new, n), old \ new, n)
      /\ npc_screen' = Parted(Joined(npc_screen, new \ aware, n),
                              (old \ new) \cap aware, n)
      /\ UNCHANGED <<player_vars, is_die>>

\* EV_NPC_RESURRECTION: the flag only; the NPC stays where it was parked.
NpcResurrection(n) ==
  /\ is_die[n]
  /\ is_die' = [is_die EXCEPT ![n] = FALSE]
  /\ UNCHANGED <<player_vars, npc_view_list, npc_screen, npc_pos>>

Next ==
  \/ Accept
  \/ \E s \in Slot :
       \/ Disconnect(s)
       \/ \E p \in World : Login(s, p)
       \/ \E d \in 0 .. 4 : Move(s, d)
       \/ \E p \in World : CcuTest(s, p)
       \/ HotspotTest(s)
       \/ Death(s)
       \/ \E h \in Home : Resurrection(s, h)
       \/ \E n \in Npc : KillNpc(s, n)
  \/ \E n \in Npc :
       \/ \E d \in 0 .. 3 : random_move_NPC(n, d)
       \/ NpcResurrection(n)

Spec == Init /\ [][Next]_vars
============================================================================
