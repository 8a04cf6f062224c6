------------------------------ MODULE ViewRace ------------------------------
(***************************************************************************)
(* The handlers of module Views as the threads of the server run them: one *)
(* step per critical section of a v_lock, per unlocked look at another     *)
(* slot and per WSASend.  The worker threads and the accept thread         *)
(* interleave between any two steps, and a thread that sends or receives   *)
(* on a closed socket spins for ever (error_display, while (true)).        *)
(*                                                                         *)
(* A thread runs a program: a sequence of operations, each with the slot i *)
(* whose list or socket it touches and the player or NPC o it is about.    *)
(* A handler starts by composing its program; a loop over the slots is one *)
(* operation per slot, in order, a loop over an unordered_set one per      *)
(* element, in any order.                                                  *)
(*                                                                         *)
(* DB events are left out (module Sessions has them): a login starts on a  *)
(* registered slot, and so does a disconnect the server decides on.        *)
(***************************************************************************)
EXTENDS Geometry, Sequences, SequencesExt

CONSTANTS
  MAX_USER, Npc, Home, Hotspot, MaxRevive,   \* as in Views
  Worker,     \* the worker threads
  Acceptor,   \* the accept thread
  Serial,     \* TRUE: a handler starts only when no other is running
  Handlers    \* bound: the handlers the environment starts

Slot == 0 .. MAX_USER - 1

ASSUME SizeAssumption ==
  /\ MAX_USER \in Nat \ {0}
  /\ MaxRevive \in Nat
  /\ IsFiniteSet(Npc)

ASSUME PlaceAssumption == Home \subseteq World /\ Hotspot \in World

\* One set stands for the two lists of a client: the ids are kept apart.
ASSUME IdAssumption == Npc \cap Slot = {}

ASSUME ThreadAssumption == Acceptor \notin Worker /\ Serial \in BOOLEAN

VARIABLES
  in_use, is_dummy, reviving, is_die,   \* as in Views
  at,       \* player or NPC -> x, y
  list,     \* slot -> view_list and npc_view_list together
  shown,    \* slot -> what the client at the other end displays
  open,     \* slot -> is clients[].socket an open connection
  armed,    \* slot -> is a WSARecv of that connection outstanding
  late,     \* slots a receive was aborted on, its completion not yet taken
  todo,     \* thread -> what is left of the program of its handler
  old, new, \* thread -> the handler's local sets of that name
  job,      \* observer: thread -> kind and subject of its last handler
  alone,    \* observer: the threads whose handler overlaps no other so far
  calm,     \* observer: no socket was closed so far
  base      \* observer: what they shared when all threads were last idle

shared == <<in_use, is_dummy, at, list, shown, reviving, is_die>>
sockets == <<open, armed, late>>
locals == <<old, new>>
observers == <<job, alone>>
vars == <<shared, sockets, todo, locals, observers, calm, base>>

Thread == Worker \cup {Acceptor}

(***************************************************************************)
(* Programs.                                                               *)
(***************************************************************************)
Op(op, i, o) == [op |-> op, i |-> i, o |-> o]

Hung == <<Op("hung", 0, 0)>>

\* A loop over the ids in q: op on each of their slots about o, or on slot i
\* about each of them.
OnEach(op, q, o) == [k \in DOMAIN q |-> Op(op, q[k], o)]

AboutEach(op, i, q) == [k \in DOMAIN q |-> Op(op, i, q[k])]

Slots == [k \in 1 .. MAX_USER |-> k - 1]

Npcs == SetToSeq(Npc)

\* Faulty variant of the next definition: `if (i == new_id) continue' is lost.
EverySlot(s) == Slots

Others(s) == [k \in 1 .. MAX_USER - 1 |-> IF k <= s THEN k - 1 ELSE k]

\* send_system_chat_packet to every registered slot
Chats(o) == OnEach("chat", Slots, o)

\* Faulty variant of the next definition: the NPCs are forgotten.
NoNotices(s) == <<>>

Notices(s) == AboutEach("notice", s, Npcs)

Shows(s) == OnEach("show", Others(s), s)

\* The three loops of a login and of a resurrection: s enters the lists
\* around it, then the players around it and the NPCs enter its own.
Introductions(s) ==
  Shows(s) \o AboutEach("find", s, Others(s)) \o Notices(s)

\* Faulty variant of the next definition: the others are not told.
SilentTeardown(s) ==
  <<Op("close", s, s), Op("free", s, s), Op("clear", s, s)>>

\* disconnect_client
Teardown(s) ==
  OnEach("leave", Others(s), s)
    \o <<Op("close", s, s), Op("free", s, s), Op("clear", s, s)>>

\* Faulty variant of the next definition: in_use is published first.
HastyAdmission(s) ==
  <<Op("use", s, s), Op("socket", s, s), Op("clear", s, s), Op("recv", s, s)>>

\* What do_accept does with the slot it has found
Admission(s) ==
  <<Op("socket", s, s), Op("clear", s, s), Op("use", s, s), Op("recv", s, s)>>

\* The loops of CS_MOVE over those it still sees, newly sees and has lost
Redrawing(s, kept, met, lost, npc_met, npc_lost) ==
  <<Op("tell", s, s)>>
    \o OnEach("meet", kept, s)
    \o AboutEach("greet", s, met)
    \o AboutEach("part", s, lost)
    \o AboutEach("see", s, npc_met)
    \o AboutEach("lose", s, npc_lost)

NoJob == <<"none", 0>>

\* What the operations are about.
Id == Slot \cup Npc

\* Operations that insert o in the list of i, or look whether to: o is not i.
Inserting == {"scan", "show", "find", "notice", "see", "greet", "meet"}

Kind ==
  {"step", "scan", "plan", "before", "after", "npc_plan", "mourn", "revive",
   "show", "find", "notice", "leave", "chat", "drop", "see", "greet", "meet",
   "lose", "part", "forget", "erase", "clear", "put", "remove", "tell", "recv",
   "socket", "close", "use", "free", "hung"}

Operation ==
  [op : {"step"}, i : Id, o : World] \cup [op : {"npc_plan"}, i : Npc, o : Npc]
    \cup {c \in [op : Kind, i : Slot, o : Id] :
            /\ c.op \notin {"step", "npc_plan"}
            /\ c.op \in Inserting => c.i # c.o
            /\ c.op \in {"show", "find", "greet", "part"} => c.o \in Slot}

(***************************************************************************)
(* Threads.                                                                *)
(***************************************************************************)
TypeOK ==
  /\ in_use \in [Slot -> BOOLEAN]
  /\ is_dummy \in [Slot -> BOOLEAN]
  /\ reviving \in [Slot -> 0 .. MaxRevive]
  /\ is_die \in [Npc -> BOOLEAN]
  /\ at \in [Id -> World \cup {DeadPos}]
  /\ \A s \in Slot : at[s] \in World
  /\ list \in [Slot -> SUBSET Id]
  /\ shown \in [Slot -> SUBSET Id]
  /\ open \in [Slot -> BOOLEAN]
  /\ armed \in [Slot -> BOOLEAN]
  /\ late \subseteq Slot
  /\ todo \in [Thread -> Seq(Operation)]
  /\ old \in [Thread -> SUBSET Id]
  /\ new \in [Thread -> SUBSET Id]
  /\ job \in [Thread -> (Handlers \cup {"none"}) \X Id]
  /\ alone \subseteq Thread
  /\ calm \in BOOLEAN

Idle(w) == todo[w] = <<>>

Stuck(w) == ~ Idle(w) /\ Head(todo[w]).op = "hung"

AllIdle == \A w \in Thread : Idle(w)

Init ==
  /\ in_use = [s \in Slot |-> FALSE]
  /\ is_dummy = [s \in Slot |-> FALSE]
  /\ reviving = [s \in Slot |-> 0]
  /\ is_die = [n \in Npc |-> FALSE]
  /\ \E home \in [Npc -> World] :
       at = [x \in Slot \cup Npc |-> IF x \in Npc THEN home[x] ELSE <<0, 0>>]
  /\ list = [s \in Slot |-> {}]
  /\ shown = [s \in Slot |-> {}]
  /\ open = [s \in Slot |-> FALSE]
  /\ armed = [s \in Slot |-> FALSE]
  /\ late = {}
  /\ todo = [w \in Thread |-> <<>>]
  /\ old = [w \in Thread |-> {}]
  /\ new = [w \in Thread |-> {}]
  /\ job = [w \in Thread |-> NoJob]
  /\ alone = {}
  /\ calm = TRUE
  /\ base = shared

MayStart(w, kind) ==
  /\ Idle(w)
  /\ Serial => AllIdle
  /\ kind \in Handlers

\* The thread takes a completion, or a connection, and starts its handler.
Start(w, kind, x, seen, program) ==
  /\ MayStart(w, kind)
  /\ todo' = [todo EXCEPT ![w] = program]
  /\ old' = [old EXCEPT ![w] = seen]
  /\ new' = [new EXCEPT ![w] = {}]
  /\ job' = [job EXCEPT ![w] = <<kind, x>>]
  /\ alone' = IF \A v \in Thread : Idle(v) \/ Stuck(v) THEN {w} ELSE {}

\* A receive completes on the connection of slot s.
Received(s) ==
  /\ open[s] /\ armed[s]
  /\ armed' = [armed EXCEPT ![s] = FALSE]
  /\ UNCHANGED <<open, late>>

-----------------------------------------------------------------------------

\* CS_MOVE: x, y and the two lists are copied before anything is written.
StartMove(w, s, d) ==
  /\ Received(s)
  /\ Start(w, "move", s, list[s],
       <<Op("step", s, Stepped(at[s], d))>>
         \o AboutEach("scan", s, Others(s) \o Npcs)
         \o <<Op("plan", s, s)>>)
  /\ UNCHANGED shared

\* CS_CCU_TEST and CS_HOTSPOT_TEST
StartDummy(w, kind, s, p, loops) ==
  /\ Received(s)
  /\ Start(w, kind, s, {}, loops \o <<Op("recv", s, s)>>)
  /\ at' = [at EXCEPT ![s] = p]
  /\ is_dummy' = [is_dummy EXCEPT ![s] = TRUE]
  /\ in_use' = [in_use EXCEPT ![s] = TRUE]
  /\ UNCHANGED <<list, shown, reviving, is_die>>

StartCcuTest(w, s, p) == StartDummy(w, "ccu", s, p, Shows(s))

StartHotspotTest(w, s) ==
  StartDummy(w, "hotspot", s, Hotspot, Shows(s) \o Notices(s))

\* A receive of no bytes: the client is gone.
StartEof(w, s) ==
  /\ Received(s)
  /\ Start(w, "disconnect", s, {}, Teardown(s))
  /\ UNCHANGED shared

\* The server ends a connection: refused login, saved logout.
StartDrop(w, s) ==
  /\ in_use[s] /\ "drop" \in Handlers
  /\ Start(w, "disconnect", s, {}, Teardown(s))
  /\ UNCHANGED <<shared, sockets>>

\* A receive the server aborted by closing the socket.  Error 64 runs
\* disconnect_client on the slot, whoever owns it by now; any other error is
\* displayed for ever.
StartLate(w, s) ==
  /\ s \in late
  /\ late' = late \ {s}
  /\ \E program \in {Teardown(s), Hung} : Start(w, "disconnect", s, {}, program)
  /\ UNCHANGED <<shared, open, armed>>

\* DB_EVT_SEARCH that found or made the account, stored at p
StartLogin(w, s, p) ==
  /\ in_use[s] /\ ~ is_dummy[s]
  /\ Start(w, "login", s, {},
       <<Op("tell", s, s), Op("put", s, s)>> \o Introductions(s) \o Chats(s))
  /\ at' = [at EXCEPT ![s] = p]
  /\ UNCHANGED <<in_use, is_dummy, list, shown, reviving, is_die, sockets>>

\* EV_NPC_ATTACK, the blow that kills s; nobody asks whether s is in use.
StartDeath(w, s) ==
  /\ ~ is_dummy[s]
  /\ \E n \in Npc : ~ is_die[n] /\ is_near_npc(at[s], at[n])
  /\ reviving[s] < MaxRevive
  /\ Start(w, "death", s, {},
       <<Op("tell", s, s)>> \o Chats(s) \o <<Op("mourn", s, s)>>)
  /\ UNCHANGED <<shared, sockets>>

\* EV_RESURRECTION
StartResurrection(w, s, h) ==
  /\ reviving[s] > 0
  /\ Start(w, "resurrection", s, {},
       <<Op("put", s, s)>> \o Introductions(s) \o Chats(s))
  /\ reviving' = [reviving EXCEPT ![s] = @ - 1]
  /\ at' = [at EXCEPT ![s] = h]
  /\ UNCHANGED <<in_use, is_dummy, list, shown, is_die, sockets>>

\* EV_ATTACK, the blow that kills NPC n
StartKill(w, s, n) ==
  /\ n \in list[s]
  /\ is_near_npc(at[s], at[n])
  /\ Start(w, "kill", s, {},
       Chats(s) \o <<Op("tell", s, s), Op("tell", s, n)>>
         \o OnEach("drop", Slots, n) \o <<Op("remove", s, n)>>)
  /\ is_die' = [is_die EXCEPT ![n] = TRUE]
  /\ at' = [at EXCEPT ![n] = DeadPos]
  /\ UNCHANGED <<in_use, is_dummy, list, shown, reviving, sockets>>

\* EV_MOVE of an NPC with a player near: random_move_NPC
StartNpcMove(w, n, d) ==
  /\ ~ is_die[n]
  /\ \E i \in Slot : in_use[i] /\ is_npc_eyesight(at[i], at[n])
  /\ Start(w, "npc_move", n, {},
       OnEach("before", Slots, n)
         \o <<Op("step", n, Stepped(at[n], d))>>
         \o OnEach("after", Slots, n)
         \o <<Op("npc_plan", n, n)>>)
  /\ UNCHANGED <<shared, sockets>>

\* EV_NPC_RESURRECTION: over at once, in the middle of what the others do
NpcResurrection(w, n) ==
  /\ MayStart(w, "npc_resurrection")
  /\ is_die[n]
  /\ is_die' = [is_die EXCEPT ![n] = FALSE]
  /\ alone' = {}
  /\ UNCHANGED <<in_use, is_dummy, at, list, shown, reviving, sockets,
                 todo, locals, job>>

\* do_accept: the lowest slot not in use gets the new socket.
StartAccept ==
  \E s \in Slot :
    /\ ~ in_use[s] /\ \A i \in Slot : i < s => in_use[i]
    /\ Start(Acceptor, "accept", s, {}, Admission(s))
    /\ UNCHANGED <<shared, sockets>>

(***************************************************************************)
(* Operations.                                                             *)
(***************************************************************************)
Doing(w, ops) == ~ Idle(w) /\ Head(todo[w]).op \in ops

\* The next operation is done; some more come before the rest.
Then(w, more) ==
  LET rest == more \o Tail(todo[w])
  IN  /\ todo' = [todo EXCEPT ![w] = rest]
      /\ job' = [job EXCEPT ![w] = IF rest = <<>> THEN NoJob ELSE @]
      /\ alone' = IF rest = <<>> THEN alone \ {w} ELSE alone

Step(w) ==
  LET c == Head(todo[w])
  IN  /\ Doing(w, {"step"})
      /\ at' = [at EXCEPT ![c.i] = c.o]
      /\ Then(w, <<>>)
      /\ UNCHANGED <<in_use, is_dummy, list, shown, reviving, is_die, sockets, locals>>

\* Is c.o registered (or alive) and in sight of c.i?
Sighted(i, o) ==
  /\ IF o \in Slot THEN in_use[o] ELSE ~ is_die[o]
  /\ is_eyesight(at[i], at[o])

\* The loops of CS_MOVE that fill new_vl and new_npc_vl.
Scan(w) ==
  LET c == Head(todo[w])
  IN  /\ Doing(w, {"scan"})
      /\ new' = [new EXCEPT ![w] = IF Sighted(c.i, c.o) THEN @ \cup {c.o} ELSE @]
      /\ Then(w, <<>>)
      /\ UNCHANGED <<shared, sockets, old>>

\* The loops of random_move_NPC that fill old_vl and new_vl.
NpcScan(w) ==
  LET c == Head(todo[w])
      near == in_use[c.i] /\ is_eyesight(at[c.i], at[c.o])
  IN  /\ Doing(w, {"before", "after"})
      /\ old' = [old EXCEPT ![w] = IF near /\ c.op = "before" THEN @ \cup {c.i} ELSE @]
      /\ new' = [new EXCEPT ![w] = IF near /\ c.op = "after" THEN @ \cup {c.i} ELSE @]
      /\ Then(w, <<>>)
      /\ UNCHANGED <<shared, sockets>>

\* CS_MOVE has its four sets: still seen, newly seen, lost, and the NPCs.
Plan(w) ==
  LET s == Head(todo[w]).i
  IN  /\ Doing(w, {"plan"})
      /\ \E kept \in SetToSeqs(old[w] \cap new[w] \cap Slot),
            met  \in SetToSeqs((new[w] \ old[w]) \cap Slot),
            lost \in SetToSeqs((old[w] \ new[w]) \cap Slot),
            npc_met  \in SetToSeqs((new[w] \ old[w]) \cap Npc),
            npc_lost \in SetToSeqs((old[w] \ new[w]) \cap Npc) :
           Then(w, Redrawing(s, kept, met, lost, npc_met, npc_lost)
                     \o <<Op("recv", s, s)>>)
      /\ old' = [old EXCEPT ![w] = {}]
      /\ new' = [new EXCEPT ![w] = {}]
      /\ UNCHANGED <<shared, sockets>>

NpcPlan(w) ==
  LET n == Head(todo[w]).i
  IN  /\ Doing(w, {"npc_plan"})
      /\ \E now \in SetToSeqs(new[w]), gone \in SetToSeqs(old[w] \ new[w]) :
           Then(w, OnEach("meet", now, n)
                     \o OnEach("forget", gone, n))
      /\ old' = [old EXCEPT ![w] = {}]
      /\ new' = [new EXCEPT ![w] = {}]
      /\ UNCHANGED <<shared, sockets>>

\* The player is dead: those it lists are to forget it, then it loses its
\* lists and its own figure.
Mourn(w) ==
  LET s == Head(todo[w]).i
  IN  /\ Doing(w, {"mourn"})
      /\ \E q \in SetToSeqs(list[s] \cap Slot) :
           Then(w, OnEach("forget", q, s)
                     \o <<Op("clear", s, s), Op("remove", s, s), Op("revive", s, s)>>)
      /\ UNCHANGED <<shared, sockets, locals>>

Revive(w) ==
  LET s == Head(todo[w]).i
  IN  /\ Doing(w, {"revive"})
      /\ reviving' = [reviving EXCEPT ![s] = IF @ < MaxRevive THEN @ + 1 ELSE @]
      /\ Then(w, <<>>)
      /\ UNCHANGED <<in_use, is_dummy, at, list, shown, is_die, sockets, locals>>

\* The unlocked tests the loops over all slots or NPCs make.
Look(w) ==
  LET c == Head(todo[w])
      sight == is_eyesight(at[c.i], at[c.o])
      If(test, op) == Then(w, IF test THEN <<Op(op, c.i, c.o)>> ELSE <<>>)
  IN  /\ \/ Doing(w, {"show"}) /\ If(in_use[c.i] /\ sight, "see")
         \/ Doing(w, {"find"}) /\ If(in_use[c.o] /\ sight, "see")
         \/ Doing(w, {"notice"}) /\ If(sight, "see")
         \/ Doing(w, {"leave"}) /\ If(in_use[c.i], "forget")
         \/ Doing(w, {"chat"}) /\ If(in_use[c.i], "tell")
         \/ Doing(w, {"drop"}) /\ If(in_use[c.i], "erase")
      /\ UNCHANGED <<shared, sockets, locals>>

Listing(i, S) == list' = [list EXCEPT ![i] = S]

\* Faulty variant of the next definition: nothing is inserted.
Ignored(S, o) == S

Entered(S, o) == S \cup {o}

\* Insert, whatever the list holds, and send a put packet.
See(w) ==
  LET c == Head(todo[w])
  IN  /\ Doing(w, {"see", "greet"})
      /\ Listing(c.i, Entered(list[c.i], c.o))
      /\ Then(w, <<Op("put", c.i, c.o)>>
                   \o IF c.op = "greet" THEN <<Op("meet", c.o, c.i)>> ELSE <<>>)
      /\ UNCHANGED <<in_use, is_dummy, at, shown, reviving, is_die, sockets, locals>>

\* Insert if absent: a put packet for who is new, else a position packet.
Meet(w) ==
  LET c == Head(todo[w])
  IN  /\ Doing(w, {"meet"})
      /\ Listing(c.i, Entered(list[c.i], c.o))
      /\ Then(w, <<Op(IF c.o \in list[c.i] THEN "tell" ELSE "put", c.i, c.o)>>)
      /\ UNCHANGED <<in_use, is_dummy, at, shown, reviving, is_die, sockets, locals>>

\* Erase, whatever the list holds, and send a remove packet.
Lose(w) ==
  LET c == Head(todo[w])
  IN  /\ Doing(w, {"lose", "part"})
      /\ Listing(c.i, list[c.i] \ {c.o})
      /\ Then(w, <<Op("remove", c.i, c.o)>>
                   \o IF c.op = "part" THEN <<Op("forget", c.o, c.i)>> ELSE <<>>)
      /\ UNCHANGED <<in_use, is_dummy, at, shown, reviving, is_die, sockets, locals>>

\* Erase if present, and send a remove packet only then.
Forget(w) ==
  LET c == Head(todo[w])
  IN  /\ Doing(w, {"forget"})
      /\ Listing(c.i, list[c.i] \ {c.o})
      /\ Then(w, IF c.o \in list[c.i] THEN <<Op("remove", c.i, c.o)>> ELSE <<>>)
      /\ UNCHANGED <<in_use, is_dummy, at, shown, reviving, is_die, sockets, locals>>

\* Erase and send nothing.
Erase(w) ==
  LET c == Head(todo[w])
  IN  /\ Doing(w, {"erase"})
      /\ Listing(c.i, list[c.i] \ {c.o})
      /\ Then(w, <<>>)
      /\ UNCHANGED <<in_use, is_dummy, at, shown, reviving, is_die, sockets, locals>>

Clear(w) ==
  /\ Doing(w, {"clear"})
  /\ Listing(Head(todo[w]).i, {})
  /\ Then(w, <<>>)
  /\ UNCHANGED <<in_use, is_dummy, at, shown, reviving, is_die, sockets, locals>>

\* send_packet, and what the client makes of it.  A closed socket stops the
\* thread.
Send(w) ==
  LET c == Head(todo[w])
      display == CASE c.op = "put" -> shown[c.i] \cup {c.o}
                   [] c.op = "remove" -> shown[c.i] \ {c.o}
                   [] c.op = "tell" -> shown[c.i]
  IN  /\ Doing(w, {"put", "remove", "tell"})
      /\ IF open[c.i]
           THEN /\ shown' = [shown EXCEPT ![c.i] = display]
                /\ Then(w, <<>>)
           ELSE /\ todo' = [todo EXCEPT ![w] = Hung]
                /\ UNCHANGED <<shown, observers>>
      /\ UNCHANGED <<in_use, is_dummy, at, list, reviving, is_die, sockets, locals>>

\* do_recv: the next WSARecv, or the end of the thread.
Recv(w) ==
  LET s == Head(todo[w]).i
  IN  /\ Doing(w, {"recv"})
      /\ IF open[s]
           THEN /\ armed' = [armed EXCEPT ![s] = TRUE]
                /\ Then(w, <<>>)
           ELSE /\ todo' = [todo EXCEPT ![w] = Hung]
                /\ UNCHANGED <<armed, observers>>
      /\ UNCHANGED <<shared, open, late, locals>>

\* The slot gets the accepted socket, and a client with an empty screen.
Connect(w) ==
  LET s == Head(todo[w]).i
  IN  /\ Doing(w, {"socket"})
      /\ open' = [open EXCEPT ![s] = TRUE]
      /\ shown' = [shown EXCEPT ![s] = {}]
      /\ Then(w, <<>>)
      /\ UNCHANGED <<in_use, is_dummy, at, list, reviving, is_die, armed, late, locals>>

\* closesocket aborts the outstanding receive.
Close(w) ==
  LET s == Head(todo[w]).i
  IN  /\ Doing(w, {"close"})
      /\ open' = [open EXCEPT ![s] = FALSE]
      /\ armed' = [armed EXCEPT ![s] = FALSE]
      /\ late' = IF armed[s] THEN late \cup {s} ELSE late
      /\ shown' = [shown EXCEPT ![s] = {}]
      /\ Then(w, <<>>)
      /\ UNCHANGED <<in_use, is_dummy, at, list, reviving, is_die, locals>>

\* in_use, written by the end of disconnect_client and of do_accept
Register(w) ==
  LET c == Head(todo[w])
  IN  /\ Doing(w, {"use", "free"})
      /\ in_use' = [in_use EXCEPT ![c.i] = (c.op = "use")]
      /\ Then(w, <<>>)
      /\ UNCHANGED <<is_dummy, at, list, shown, reviving, is_die, sockets, locals>>

-----------------------------------------------------------------------------

Operate(w) ==
  \/ Step(w) \/ Scan(w) \/ NpcScan(w) \/ Plan(w) \/ NpcPlan(w)
  \/ Mourn(w) \/ Revive(w) \/ Look(w)
  \/ See(w) \/ Meet(w) \/ Lose(w) \/ Forget(w) \/ Erase(w) \/ Clear(w)
  \/ Send(w) \/ Recv(w) \/ Connect(w) \/ Close(w) \/ Register(w)

Take(w) ==
  \/ \E s \in Slot :
       \/ \E d \in 0 .. 4 : StartMove(w, s, d)
       \/ \E p \in World : StartCcuTest(w, s, p)
       \/ StartHotspotTest(w, s)
       \/ StartEof(w, s)
       \/ StartDrop(w, s)
       \/ StartLate(w, s)
       \/ \E p \in World : StartLogin(w, s, p)
       \/ StartDeath(w, s)
       \/ \E h \in Home : StartResurrection(w, s, h)
       \/ \E n \in Npc : StartKill(w, s, n)
  \/ \E n \in Npc :
       \/ \E d \in 0 .. 3 : StartNpcMove(w, n, d)
       \/ NpcResurrection(w, n)

Next ==
  /\ \/ StartAccept
     \/ \E w \in Worker : Take(w)
     \/ \E w \in Thread : Operate(w)
  /\ calm' = (calm /\ \A s \in Slot : open[s] => open'[s])
  /\ base' = IF Serial /\ AllIdle' THEN shared' ELSE base

Spec == Init /\ [][Next]_vars
=============================================================================
