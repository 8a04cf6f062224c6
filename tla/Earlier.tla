------------------------------ MODULE Earlier ------------------------------
(***************************************************************************)
(* The earlier server, 2019_WT_SERVER: how a connection ends, and how its  *)
(* NPCs are driven.                                                        *)
(*                                                                         *)
(* It differs from the later server in four ways.  A logged in client is   *)
(* not disconnected when it leaves: disconnect_client only asks for a      *)
(* save, and the end of the save disconnects the slot.  A receive of no    *)
(* bytes is not the end of the handler: the worker receives again.  The    *)
(* timer thread posts the events that are not due yet and waits before one *)
(* that is overdue.  And do_accept clears the players' list of a slot, not *)
(* the NPCs' one.                                                          *)
(*                                                                         *)
(* A handler is one step; one that never comes back stops at one of its    *)
(* sends or at its do_recv.  The db_queue, its thread and the completion    *)
(* port form a bag, as in Sessions.  Left out: the lists of players (the   *)
(* later server's, see Views), the bytes of a packet (ServerAssembly), the *)
(* rows of the DB (any stored position), and slot -1, which do_accept      *)
(* takes when all slots are in use.                                        *)
(***************************************************************************)
EXTENDS Geometry

CONSTANTS
  MAX_USER,   \* number of client slots
  MAX_NPC,    \* number of NPCs
  Start,      \* where do_accept puts a client
  Workers,    \* number of worker threads
  MaxPending, \* bound: receives, completions and searches under way for one slot
  MaxSaves    \* bound: saves under way for one slot

Slot == 0 .. MAX_USER - 1

Npc == 0 .. MAX_NPC - 1

ASSUME EarlierAssumption ==
  /\ MAX_USER \in Nat \ {0} /\ MAX_NPC \in Nat
  /\ Workers \in Nat \ {0}
  /\ MaxPending \in Nat \ {0} /\ MaxSaves \in Nat \ {0}
  /\ Start \in World

VARIABLES
  in_use, is_login_ok,  \* as in SOCKETINFO
  pos,           \* slot -> x, y
  npc_viewlist,  \* slot -> the NPCs it is told about
  npc_screen,    \* slot -> the NPCs its client displays
  open,          \* slot -> is its socket an open connection
  gone,          \* slot -> has the client of that connection left
  recvs,         \* slot -> receives outstanding on that connection
  packet,        \* slot -> was a packet received that no worker has taken
  ends,          \* slot -> ends of connection not taken yet
  aborts,        \* slot -> aborted receives not taken yet
  searches,      \* slot -> its DB_EVT_SEARCH events under way
  saves,         \* slot -> its DB_EVT_SAVE events under way
  detects,       \* NPCs and slots with an EVT_PLAYER_MOVE_DETECT under way
  npc_pos,       \* NPC -> x, y
  is_sleeping,   \* NPC -> as in NPCINFO
  fresh,         \* NPC -> its events in the timer queue that are not due
  late,          \* NPC -> its events in the timer queue that are overdue
  moves,         \* NPC -> its EVT_MOVE completions not taken yet
  accepting,     \* is the accept thread there
  stuck          \* worker threads lost

session == <<in_use, is_login_ok, open, gone, recvs, packet, ends, aborts,
             searches, saves>>
lists == <<npc_viewlist, npc_screen, detects>>
timers == <<is_sleeping, fresh, late, moves>>
threads == <<accepting, stuck>>
vars == <<session, pos, lists, npc_pos, timers, threads>>

TypeOK ==
  /\ in_use \in [Slot -> BOOLEAN] /\ is_login_ok \in [Slot -> BOOLEAN]
  /\ pos \in [Slot -> World]
  /\ npc_viewlist \in [Slot -> SUBSET Npc] /\ npc_screen \in [Slot -> SUBSET Npc]
  /\ open \in [Slot -> BOOLEAN] /\ gone \in [Slot -> BOOLEAN]
  /\ recvs \in [Slot -> 0 .. MaxPending] /\ packet \in [Slot -> BOOLEAN]
  /\ ends \in [Slot -> 0 .. MaxPending] /\ aborts \in [Slot -> 0 .. MaxPending]
  /\ searches \in [Slot -> 0 .. MaxPending] /\ saves \in [Slot -> 0 .. MaxSaves]
  /\ detects \in SUBSET (Npc \X Slot)
  /\ npc_pos \in [Npc -> World] /\ is_sleeping \in [Npc -> BOOLEAN]
  /\ fresh \in [Npc -> 0 .. 2] /\ late \in [Npc -> 0 .. 2] /\ moves \in [Npc -> 0 .. 2]
  /\ accepting \in BOOLEAN /\ stuck \in 0 .. Workers

\* Every NPC sleeps, and has a timer all the same.
Init ==
  /\ in_use = [s \in Slot |-> FALSE]
  /\ is_login_ok = [s \in Slot |-> FALSE]
  /\ pos = [s \in Slot |-> Start]
  /\ npc_viewlist = [s \in Slot |-> {}]
  /\ npc_screen = [s \in Slot |-> {}]
  /\ open = [s \in Slot |-> FALSE]
  /\ gone = [s \in Slot |-> FALSE]
  /\ recvs = [s \in Slot |-> 0]
  /\ packet = [s \in Slot |-> FALSE]
  /\ ends = [s \in Slot |-> 0]
  /\ aborts = [s \in Slot |-> 0]
  /\ searches = [s \in Slot |-> 0]
  /\ saves = [s \in Slot |-> 0]
  /\ detects = {}
  /\ npc_pos \in [Npc -> World]
  /\ is_sleeping = [n \in Npc |-> TRUE]
  /\ fresh = [n \in Npc |-> 1]
  /\ late = [n \in Npc |-> 0]
  /\ moves = [n \in Npc |-> 0]
  /\ accepting = TRUE
  /\ stuck = 0

(***************************************************************************)
(* What the handlers share.                                                *)
(***************************************************************************)
Up(f, x) == [f EXCEPT ![x] = @ + 1]

Down(f, x) == [f EXCEPT ![x] = @ - 1]

Working == stuck < Workers

Hang == stuck' = stuck + 1

\* A send or a receive on slot s may fail: then the thread stays there.
MayFail(s) == ~ open[s] \/ gone[s]

\* do_recv of a worker, at the end of EVT_RECV.
do_recv(s, still_open) ==
  \/ still_open /\ recvs[s] < MaxPending
     /\ recvs' = Up(recvs, s) /\ UNCHANGED stuck
  \/ (~ still_open \/ gone[s]) /\ Hang /\ UNCHANGED recvs

is_player_npc_eyesight(p, q) == Within(p, q, VIEW_RADIUS)

NpcsAround(p) == {n \in Npc : is_player_npc_eyesight(p, npc_pos[n])}

\* The slots whose player keeps an NPC at q awake.
NearSlots(q) == {i \in Slot : in_use[i] /\ is_npc_eyesight(pos[i], q)}

\* wakeup_NPC for the NPCs of N
wakeup_NPC(N) ==
  /\ is_sleeping' = [n \in Npc |-> is_sleeping[n] /\ n \notin N]
  /\ fresh' = [n \in Npc |-> IF n \in N /\ is_sleeping[n] THEN fresh[n] + 1 ELSE fresh[n]]

\* Faulty variant of the next definition: the player stays logged in.
StillLoggedIn(s) == is_login_ok[s]

\* What DB_EVT_SAVE leaves of the login before it disconnects.
LoggedInAfterSave(s) == FALSE

\* Nothing of the slot changes but that a save is queued.
AskForSave(s, pending) ==
  /\ pending[s] < MaxSaves
  /\ saves' = Up(pending, s)

\* The socket is closed, which aborts its receives, and the slot is free.
Release(s, aborted) ==
  /\ open' = [open EXCEPT ![s] = FALSE]
  /\ in_use' = [in_use EXCEPT ![s] = FALSE]
  /\ aborted[s] + recvs[s] <= MaxPending
  /\ aborts' = [aborted EXCEPT ![s] = @ + recvs[s]]

(***************************************************************************)
(* Connections.                                                            *)
(***************************************************************************)

\* do_accept: neither the NPCs' list nor the login is cleared.  If the
\* client has been cut off already, do_recv stops the accept thread.
do_accept ==
  \E s \in Slot :
    /\ accepting
    /\ ~ in_use[s] /\ \A i \in Slot : i < s => in_use[i]
    /\ pos' = [pos EXCEPT ![s] = Start]
    /\ npc_screen' = [npc_screen EXCEPT ![s] = {}]
    /\ in_use' = [in_use EXCEPT ![s] = TRUE]
    /\ open' = [open EXCEPT ![s] = TRUE]
    /\ \/ /\ gone' = [gone EXCEPT ![s] = FALSE]
          /\ recvs' = [recvs EXCEPT ![s] = 1]
          /\ UNCHANGED accepting
       \/ /\ gone' = [gone EXCEPT ![s] = TRUE]
          /\ recvs' = [recvs EXCEPT ![s] = 0]
          /\ accepting' = FALSE
    /\ UNCHANGED <<is_login_ok, packet, ends, aborts, searches, saves, npc_viewlist,
                   detects, npc_pos, timers, stuck>>

\* A packet of the client completes a receive.
Arrive(s) ==
  /\ open[s] /\ ~ gone[s] /\ recvs[s] > 0 /\ ~ packet[s]
  /\ packet' = [packet EXCEPT ![s] = TRUE]
  /\ recvs' = Down(recvs, s)
  /\ UNCHANGED <<in_use, is_login_ok, open, gone, ends, aborts, searches, saves, pos,
                 lists, npc_pos, timers, threads>>

\* The client has left: a receive, and every later one, completes at once.
Leave(s) ==
  /\ open[s] /\ recvs[s] > 0 /\ ends[s] < MaxPending
  /\ gone' = [gone EXCEPT ![s] = TRUE]
  /\ recvs' = Down(recvs, s)
  /\ ends' = Up(ends, s)
  /\ UNCHANGED <<in_use, is_login_ok, open, packet, aborts, searches, saves, pos,
                 lists, npc_pos, timers, threads>>

(***************************************************************************)
(* process_packet.                                                         *)
(***************************************************************************)
Taken(s) ==
  /\ Working
  /\ packet[s]
  /\ packet' = [packet EXCEPT ![s] = FALSE]

\* Whatever a client that is not logged in sends is its id.
RequestLogin(s) ==
  /\ Taken(s)
  /\ ~ is_login_ok[s]
  /\ searches[s] < MaxPending
  /\ searches' = Up(searches, s)
  /\ do_recv(s, open[s])
  /\ UNCHANGED <<in_use, is_login_ok, open, gone, ends, aborts, saves, pos,
                 lists, npc_pos, timers, accepting>>

\* Faulty variant of the next definition: nothing is put on the screen.
NotPut(shown, erased, entered) == shown \ erased

\* A screen after the remove packets for erased and the put packets for entered.
Redrawn(shown, erased, entered) == (shown \ erased) \cup entered

\* NPCs are erased from the list of s and entered in it, each with its packet,
\* and those that are new are woken; all but the one in unsent.
Shown(s, erased, entered, unsent) ==
  /\ npc_viewlist' = [npc_viewlist EXCEPT ![s] = (@ \ erased) \cup entered]
  /\ npc_screen' =
       [npc_screen EXCEPT ![s] = Redrawn(@, erased \ unsent, entered \ unsent)]
  /\ wakeup_NPC(entered \ unsent)

\* The same, until the worker is lost on a packet: the first one, which is
\* about s itself, or that of an NPC already erased or entered.
CutShort(s, left, come) ==
  /\ MayFail(s)
  /\ Hang
  /\ \/ UNCHANGED <<npc_viewlist, npc_screen, is_sleeping, fresh>>
     \/ /\ open[s]
        /\ \E erased \in SUBSET left, entered \in SUBSET come :
             /\ entered # {} => erased = left
             /\ \E n \in IF entered = {} THEN erased ELSE entered :
                  Shown(s, erased, entered, {n})

Move(s, d) ==
  LET p == Stepped(pos[s], d)
      old_npc_vl == npc_viewlist[s]
      new_npc_vl == NpcsAround(p)
  IN  /\ Taken(s)
      /\ is_login_ok[s]
      /\ pos' = [pos EXCEPT ![s] = p]
      /\ \/ /\ open[s]
            /\ Shown(s, old_npc_vl \ new_npc_vl, new_npc_vl \ old_npc_vl, {})
            /\ detects' = detects \cup (new_npc_vl \X {s})
            /\ do_recv(s, TRUE)
         \/ /\ CutShort(s, old_npc_vl \ new_npc_vl, new_npc_vl \ old_npc_vl)
            /\ UNCHANGED <<recvs, detects>>
      /\ UNCHANGED <<in_use, is_login_ok, open, gone, ends, aborts, searches, saves,
                     npc_pos, late, moves, accepting>>

\* EVT_PLAYER_MOVE_DETECT: the NPC may say hello, whoever owns the slot.
Detect(n, s) ==
  /\ Working
  /\ <<n, s>> \in detects
  /\ detects' = detects \ {<<n, s>>}
  /\ \/ UNCHANGED stuck
     \/ MayFail(s) /\ Hang
  /\ UNCHANGED <<session, pos, npc_viewlist, npc_screen, npc_pos, timers, accepting>>

(***************************************************************************)
(* The end of a connection.                                                *)
(***************************************************************************)

\* A receive of no bytes.  The worker goes on to do_recv: on the socket of
\* a player to be saved that completes at once, on a closed one it fails.
TakeEof(s) ==
  /\ Working
  /\ ends[s] > 0
  /\ ends' = Down(ends, s)
  /\ \/ /\ is_login_ok[s]
        /\ AskForSave(s, saves)
        /\ do_recv(s, open[s])
        /\ UNCHANGED <<in_use, open, aborts>>
     \/ /\ ~ is_login_ok[s]
        /\ Release(s, aborts)
        /\ recvs' = [recvs EXCEPT ![s] = 0]
        /\ Hang
        /\ UNCHANGED saves
  /\ UNCHANGED <<is_login_ok, gone, packet, searches, pos, lists, npc_pos,
                 timers, accepting>>

\* disconnect_client of a worker that does not receive again.
disconnect_client(s, pending, aborted, logged_in) ==
  /\ is_login_ok' = [is_login_ok EXCEPT ![s] = logged_in]
  /\ \/ /\ logged_in
        /\ AskForSave(s, pending)
        /\ aborts' = aborted
        /\ UNCHANGED <<in_use, open, recvs>>
     \/ /\ ~ logged_in
        /\ Release(s, aborted)
        /\ recvs' = [recvs EXCEPT ![s] = 0]
        /\ saves' = pending
  /\ UNCHANGED <<gone, packet, pos, lists, npc_pos, timers, threads>>

\* Error 64: the client was cut off.
TakeReset(s) ==
  /\ Working
  /\ ends[s] > 0
  /\ ends' = Down(ends, s)
  /\ disconnect_client(s, saves, aborts, is_login_ok[s])
  /\ UNCHANGED searches

\* A receive that the closing of its socket aborted: error 64, for whoever
\* owns the slot by now, or another error, which err_display shows for ever.
TakeAbort(s) ==
  /\ Working
  /\ aborts[s] > 0
  /\ \/ disconnect_client(s, saves, Down(aborts, s), is_login_ok[s])
        /\ UNCHANGED <<ends, searches>>
     \/ /\ aborts' = Down(aborts, s)
        /\ Hang
        /\ UNCHANGED <<in_use, is_login_ok, open, gone, recvs, packet, ends,
                       searches, saves, pos, lists, npc_pos, timers, accepting>>

(***************************************************************************)
(* process_db_event.                                                       *)
(***************************************************************************)

\* search_user_id found a row, with a position, or fell off its end.
LoggedIn(s) ==
  /\ Working
  /\ searches[s] > 0
  /\ searches' = Down(searches, s)
  /\ \/ is_login_ok' = [is_login_ok EXCEPT ![s] = TRUE]
        /\ \E p \in World : pos' = [pos EXCEPT ![s] = p]
     \/ UNCHANGED <<is_login_ok, pos>>
  /\ \/ open[s] /\ Shown(s, {}, NpcsAround(pos'[s]), {}) /\ UNCHANGED stuck
     \/ CutShort(s, {}, NpcsAround(pos'[s]))
  /\ UNCHANGED <<in_use, open, gone, recvs, packet, ends, aborts, saves,
                 detects, npc_pos, late, moves, accepting>>

\* search_user_id found no row, or fell off its end.
Refused(s) ==
  /\ Working
  /\ searches[s] > 0
  /\ searches' = Down(searches, s)
  /\ disconnect_client(s, saves, aborts, is_login_ok[s])
  /\ UNCHANGED ends

\* DB_EVT_SAVE disconnects the slot, whoever owns it by now.
DbSave(s) ==
  /\ Working
  /\ saves[s] > 0
  /\ disconnect_client(s, Down(saves, s), aborts, LoggedInAfterSave(s))
  /\ UNCHANGED <<ends, searches>>

(***************************************************************************)
(* NPCs and their timer.                                                   *)
(***************************************************************************)

\* EVT_MOVE with nobody near: the NPC sleeps, and this timer ends.
Sleep(n) ==
  /\ Working
  /\ moves[n] > 0
  /\ NearSlots(npc_pos[n]) = {}
  /\ moves' = Down(moves, n)
  /\ is_sleeping' = [is_sleeping EXCEPT ![n] = TRUE]
  /\ UNCHANGED <<session, pos, lists, npc_pos, fresh, late, threads>>

\* n joins the lists, or the screens, of the slots met and leaves those of
\* the slots parted from.
Informed(f, n, met, parted) ==
  [i \in Slot |-> IF i \in met THEN f[i] \cup {n}
                  ELSE IF i \in parted THEN f[i] \ {n} ELSE f[i]]

\* EVT_MOVE with somebody near.  If the packet to a slot i whose client has
\* left fails, the worker is lost, and with it the timer.
move_npc(n, d) ==
  LET p == Stepped(npc_pos[n], d)
      old_vl == NearSlots(npc_pos[n])
      new_vl == NearSlots(p)
      unaware == {i \in new_vl \ old_vl : n \notin npc_viewlist[i]}
      aware == {i \in old_vl \ new_vl : n \in npc_viewlist[i]}
  IN  /\ Working
      /\ moves[n] > 0
      /\ old_vl # {}
      /\ moves' = Down(moves, n)
      /\ npc_pos' = [npc_pos EXCEPT ![n] = p]
      /\ \/ /\ fresh' = Up(fresh, n)
            /\ npc_viewlist' = Informed(npc_viewlist, n, unaware, aware)
            /\ npc_screen' = Informed(npc_screen, n, unaware, aware)
            /\ UNCHANGED stuck
         \/ /\ \E met \in SUBSET unaware, parted \in SUBSET aware :
                 /\ parted # {} => met = unaware
                 /\ npc_viewlist' = Informed(npc_viewlist, n, met, parted)
                 /\ \E i \in IF parted = {} THEN met \cup (new_vl \ unaware) ELSE parted :
                      /\ gone[i]
                      /\ npc_screen' = Informed(npc_screen, n, met \ {i}, parted \ {i})
            /\ Hang
            /\ UNCHANGED fresh
      /\ UNCHANGED <<session, pos, detects, is_sleeping, late, accepting>>

\* Faulty variant of the next definition: the test the right way round.
WhenDue(n) == late[n] > 0

\* do_timer takes the earliest event, an overdue one if there is any, and
\* posts it if it is not due yet: before one that is overdue it waits.
Posts(n) == fresh[n] > 0 /\ \A m \in Npc : late[m] = 0

do_timer(n) ==
  /\ Posts(n)
  /\ IF late[n] > 0
       THEN late' = Down(late, n) /\ UNCHANGED fresh
       ELSE fresh' = Down(fresh, n) /\ UNCHANGED late
  /\ moves' = Up(moves, n)
  /\ UNCHANGED <<session, pos, lists, npc_pos, is_sleeping, threads>>

\* A second has passed since an event was queued.
TimePasses(n) ==
  /\ fresh[n] > 0
  /\ fresh' = Down(fresh, n)
  /\ late' = Up(late, n)
  /\ UNCHANGED <<session, pos, lists, npc_pos, is_sleeping, moves, threads>>

Packets(s) == RequestLogin(s) \/ \E d \in 0 .. 4 : Move(s, d)

Ends(s) == TakeEof(s) \/ TakeReset(s)

DbSearch(s) == LoggedIn(s) \/ Refused(s)

Next ==
  \/ do_accept
  \/ \E s \in Slot :
       \/ Arrive(s)
       \/ Leave(s)
       \/ Packets(s)
       \/ Ends(s)
       \/ TakeAbort(s)
       \/ DbSearch(s)
       \/ DbSave(s)
       \/ \E n \in Npc : Detect(n, s)
  \/ \E n \in Npc :
       \/ Sleep(n)
       \/ \E d \in 0 .. 3 : move_npc(n, d)
       \/ do_timer(n)
       \/ TimePasses(n)

\* As long as one is left, the workers take every completion, and a client
\* that has left completes its receives.
Fairness ==
  \A s \in Slot :
    /\ WF_vars(Packets(s))
    /\ WF_vars(Ends(s))
    /\ WF_vars(TakeAbort(s))
    /\ WF_vars(DbSearch(s))
    /\ WF_vars(DbSave(s))
    /\ WF_vars(gone[s] /\ Leave(s))

Spec == Init /\ [][Next]_vars /\ Fairness
=============================================================================
