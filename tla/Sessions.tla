------------------------------ MODULE Sessions ------------------------------
(***************************************************************************)
(* Slots, connections and accounts of the Tripple_Accent server.           *)
(*                                                                         *)
(* A completion carries only the number of a slot: whoever owns the slot   *)
(* when a worker thread takes the completion is the one it acts on.  The   *)
(* module follows the completions a slot can have under way (the packets   *)
(* of a receive, an end of connection, receives and sends that failed, DB  *)
(* events) across the reuse of the slot, what is loaded from and saved to  *)
(* the DB, and the worker threads lost for ever in error_display or in     *)
(* while (true).                                                           *)
(*                                                                         *)
(* The handler of a packet or an event is one step.  The db_queue, the DB  *)
(* thread that posts from it and the completion port form one bag of DB    *)
(* events: the workers take completions in order but run them side by      *)
(* side.  View lists are left out, so a handler that sends to players      *)
(* around may address any of them, and any open connection may have sends  *)
(* under way.  Left out of what a slot holds are x, y and kind, which      *)
(* search_user_id writes before it knows its outcome.                      *)
(***************************************************************************)
EXTENDS Integers, Sequences

CONSTANTS
  MAX_USER,   \* number of client slots
  Account,    \* the ids clients log in with
  Nobody,     \* no account
  Workers,    \* number of worker threads
  Requests,   \* bound: the types of the packets clients send
  MaxBatch,   \* bound: packets in one receive
  MaxPending  \* bound: completions of one kind under way for one slot

ASSUME SizeAssumption ==
  /\ MAX_USER \in Nat \ {0} /\ Workers \in Nat \ {0}
  /\ MaxBatch \in Nat \ {0} /\ MaxPending \in Nat \ {0}
  /\ Requests \subseteq {"LOGIN", "LOGOUT", "MOVE", "ATTACK", "CCU_TEST"}
  /\ Nobody \notin Account

VARIABLES
  in_use, is_login, is_dummy,  \* as in SOCKETINFO
  login_id,   \* slot -> the account a CS_LOGIN named
  stats,      \* slot -> the account whose level and gold it holds
  open,       \* slot -> is its socket an open connection
  gone,       \* slot -> has the client of that connection left
  recvs,      \* slot -> receives outstanding on that connection
  packets,    \* slot -> the packets of a receive not handled yet
  eofs,       \* slot -> ends of connection not taken yet
  aborts,     \* slot -> receives and sends that failed, not taken yet
  db_evts,    \* type of DB event -> slot -> how many are under way
  row,        \* account -> whose level and gold its DB row holds
  waiting,    \* slots whose client has asked to log in, without an answer
  stuck       \* worker threads lost

connection == <<open, gone, recvs, packets, eofs, aborts, waiting>>
session == <<in_use, is_login, is_dummy, login_id, stats>>
vars == <<connection, session, db_evts, row, stuck>>

Slot == 0 .. MAX_USER - 1

DbEvent == {"SEARCH", "SAVE", "UPDATE"}

Packet ==
  {[type |-> t, id |-> Nobody] : t \in {"MOVE", "ATTACK", "LOGOUT", "CCU_TEST"}}
    \cup [type : {"LOGIN"}, id : Account]

\* What may be received at once.
Batch == UNION {[1 .. n -> {k \in Packet : k.type \in Requests}] : n \in 1 .. MaxBatch}

TypeOK ==
  /\ in_use \in [Slot -> BOOLEAN]
  /\ is_login \in [Slot -> BOOLEAN]
  /\ is_dummy \in [Slot -> BOOLEAN]
  /\ login_id \in [Slot -> Account \cup {Nobody}]
  /\ stats \in [Slot -> Account \cup {Nobody}]
  /\ open \in [Slot -> BOOLEAN]
  /\ gone \in [Slot -> BOOLEAN]
  /\ recvs \in [Slot -> 0 .. MaxPending]
  /\ packets \in [Slot -> Seq(Packet)]
  /\ eofs \in [Slot -> 0 .. MaxPending]
  /\ aborts \in [Slot -> 0 .. MaxPending]
  /\ db_evts \in [DbEvent -> [Slot -> 0 .. MaxPending]]
  /\ row \in [Account -> Account \cup {Nobody}]
  /\ waiting \in SUBSET Slot
  /\ stuck \in 0 .. Workers

Init ==
  /\ in_use = [s \in Slot |-> FALSE]
  /\ is_login = [s \in Slot |-> FALSE]
  /\ is_dummy = [s \in Slot |-> FALSE]
  /\ login_id = [s \in Slot |-> Nobody]
  /\ stats = [s \in Slot |-> Nobody]
  /\ open = [s \in Slot |-> FALSE]
  /\ gone = [s \in Slot |-> FALSE]
  /\ recvs = [s \in Slot |-> 0]
  /\ packets = [s \in Slot |-> <<>>]
  /\ eofs = [s \in Slot |-> 0]
  /\ aborts = [s \in Slot |-> 0]
  /\ db_evts = [t \in DbEvent |-> [s \in Slot |-> 0]]
  /\ row = [a \in Account |-> a]
  /\ waiting = {}
  /\ stuck = 0

(***************************************************************************)
(* What the threads do for the handlers.                                   *)
(***************************************************************************)
Up(f, x) == [f EXCEPT ![x] = @ + 1]

Down(f, x) == [f EXCEPT ![x] = @ - 1]

\* A worker thread is there to take a completion.
Working == stuck < Workers

\* error_display, while (true)
Hang == stuck' = stuck + 1

\* WSASend to slot i fails if its socket is closed, and may fail if the
\* client at the other end has left: either way the thread hangs.
MayHang(S) == \E i \in S : ~ open[i] \/ gone[i]

MustHang(s) == ~ open[s]

Others(s) == {i \in Slot \ {s} : in_use[i]}

\* do_recv, the last thing done with what was received
do_recv(s) ==
  IF open[s] THEN recvs' = Up(recvs, s) /\ recvs[s] < MaxPending /\ UNCHANGED stuck
             ELSE Hang /\ UNCHANGED recvs

\* Faulty variants of the next definition: the event is lost, or queued twice.
Lost(evts, t, s) == evts

QueuedTwice(evts, t, s) == [evts EXCEPT ![t][s] = @ + 2]

\* add_db_evt
Queued(evts, t, s) == [evts EXCEPT ![t][s] = @ + 1]

\* Faulty variant of the next definition: nothing is saved.
NothingToSave(evts, s, logged_in) == evts

\* A logged in player who is disconnected is to be saved.
ToSave(evts, s, logged_in) == IF logged_in THEN Queued(evts, "SAVE", s) ELSE evts

\* Faulty variants of the two next definitions: the socket, the slot leaks.
StillOpen(s) == open

StillInUse(s) == in_use

Closed(s) == [open EXCEPT ![s] = FALSE]

Freed(s) == [in_use EXCEPT ![s] = FALSE]

\* How many operations closesocket may make fail.
Failing(s) == IF open[s] THEN recvs[s] .. MaxPending ELSE {recvs[s]}

\* disconnect_client, with what was already taken of the DB events and of
\* the failures, and the login flag as its caller left it.  It asks for a
\* save, tells the others, then closes the socket and frees the slot; a send
\* to one of the others may be the end of it.  The receives under way on the
\* socket fail, and any of the sends.
disconnect_client(s, evts, aborted, logged_in) ==
  LET wanted == ToSave(evts, s, logged_in)
  IN  /\ wanted["SAVE"][s] <= MaxPending
      /\ db_evts' = wanted
      /\ is_login' = [is_login EXCEPT ![s] = logged_in]
      /\ \/ /\ open' = Closed(s)
            /\ in_use' = Freed(s)
            /\ recvs' = [recvs EXCEPT ![s] = 0]
            /\ \E n \in Failing(s) :
                 /\ aborted[s] + n <= MaxPending
                 /\ aborts' = [aborted EXCEPT ![s] = @ + n]
            /\ waiting' = waiting \ {s}
            /\ UNCHANGED stuck
         \/ /\ MayHang(Others(s))
            /\ Hang
            /\ aborts' = aborted
            /\ UNCHANGED <<open, in_use, recvs, waiting>>
      /\ UNCHANGED <<gone, is_dummy, login_id, stats>>

(***************************************************************************)
(* The accept thread and the clients.                                      *)
(***************************************************************************)

\* do_accept: is_login, is_dummy, login_id and the stats stay as they were.
do_accept ==
  \E s \in Slot :
    /\ ~ in_use[s] /\ \A i \in Slot : i < s => in_use[i]
    /\ in_use' = [in_use EXCEPT ![s] = TRUE]
    /\ open' = [open EXCEPT ![s] = TRUE]
    /\ gone' = [gone EXCEPT ![s] = FALSE]
    /\ recvs' = [recvs EXCEPT ![s] = 1]
    /\ UNCHANGED <<packets, eofs, aborts, waiting, is_login, is_dummy, login_id,
                   stats, db_evts, row, stuck>>

\* Packets of the client complete a receive.
Arrive(s, batch) ==
  /\ open[s] /\ ~ gone[s] /\ recvs[s] > 0
  /\ packets[s] = <<>>
  /\ packets' = [packets EXCEPT ![s] = batch]
  /\ recvs' = Down(recvs, s)
  /\ UNCHANGED <<open, gone, eofs, aborts, waiting, session, db_evts, row, stuck>>

\* The client leaves: a receive completes with no bytes, or it fails.
Leave(s) ==
  /\ open[s] /\ recvs[s] > 0
  /\ gone' = [gone EXCEPT ![s] = TRUE]
  /\ recvs' = Down(recvs, s)
  /\ \/ eofs[s] < MaxPending /\ eofs' = Up(eofs, s) /\ UNCHANGED aborts
     \/ aborts[s] < MaxPending /\ aborts' = Up(aborts, s) /\ UNCHANGED eofs
  /\ UNCHANGED <<open, packets, waiting, session, db_evts, row, stuck>>

\* A send under way to a client that has left fails.
SendFails(s) ==
  /\ open[s] /\ gone[s]
  /\ aborts[s] < MaxPending
  /\ aborts' = Up(aborts, s)
  /\ UNCHANGED <<open, gone, recvs, packets, eofs, waiting, session, db_evts, row, stuck>>

(***************************************************************************)
(* Worker threads: packets.                                                *)
(***************************************************************************)

\* A worker handles the next packet received on slot s.
Handled(s, type) ==
  /\ Working
  /\ packets[s] # <<>> /\ Head(packets[s]).type = type

\* The worker goes on to the next packet; after the last it receives again.
GoOn(s) ==
  /\ packets' = [packets EXCEPT ![s] = Tail(@)]
  /\ IF Tail(packets[s]) = <<>> THEN do_recv(s) ELSE UNCHANGED <<recvs, stuck>>

\* The worker is lost, and the rest of what it received with it.
BreakOff(s) ==
  /\ Hang
  /\ packets' = [packets EXCEPT ![s] = <<>>]
  /\ UNCHANGED recvs

CsLogin(s) ==
  /\ Handled(s, "LOGIN")
  /\ db_evts["SEARCH"][s] < MaxPending
  /\ login_id' = [login_id EXCEPT ![s] = Head(packets[s]).id]
  /\ db_evts' = Queued(db_evts, "SEARCH", s)
  /\ waiting' = IF open[s] THEN waiting \cup {s} ELSE waiting
  /\ GoOn(s)
  /\ UNCHANGED <<in_use, is_login, is_dummy, stats, open, gone, eofs, aborts, row>>

CsLogout(s) ==
  /\ Handled(s, "LOGOUT")
  /\ db_evts["SAVE"][s] < MaxPending
  /\ db_evts' = IF is_login[s] THEN Queued(db_evts, "SAVE", s) ELSE db_evts
  /\ GoOn(s)
  /\ UNCHANGED <<session, open, gone, eofs, aborts, waiting, row>>

\* CS_MOVE answers the client first, then the players around it.
CsMove(s) ==
  /\ Handled(s, "MOVE")
  /\ \/ open[s] /\ GoOn(s)
     \/ MayHang({s} \cup Others(s)) /\ BreakOff(s)
  /\ UNCHANGED <<session, open, gone, eofs, aborts, waiting, db_evts, row>>

\* CS_ATTACK: the attack itself is a timer event.
CsAttack(s) ==
  /\ Handled(s, "ATTACK")
  /\ GoOn(s)
  /\ UNCHANGED <<session, open, gone, eofs, aborts, waiting, db_evts, row>>

\* CS_CCU_TEST and CS_HOTSPOT_TEST register the slot themselves.
CsTest(s) ==
  /\ Handled(s, "CCU_TEST")
  /\ is_dummy' = [is_dummy EXCEPT ![s] = TRUE]
  /\ is_login' = [is_login EXCEPT ![s] = TRUE]
  /\ in_use' = [in_use EXCEPT ![s] = TRUE]
  /\ GoOn(s) \/ (MayHang({s} \cup Others(s)) /\ BreakOff(s))
  /\ UNCHANGED <<login_id, stats, open, gone, eofs, aborts, waiting, db_evts, row>>

(***************************************************************************)
(* Worker threads: ends of connections.                                    *)
(***************************************************************************)
TakeEof(s) ==
  /\ Working
  /\ eofs[s] > 0
  /\ eofs' = Down(eofs, s)
  /\ disconnect_client(s, db_evts, aborts, is_login[s])
  /\ UNCHANGED <<packets, row>>

\* A receive or a send that failed: error 64 disconnects whoever owns the
\* slot by now, any other error is displayed for ever.
TakeAbort(s) ==
  /\ Working
  /\ aborts[s] > 0
  /\ \/ disconnect_client(s, db_evts, Down(aborts, s), is_login[s])
     \/ /\ Hang
        /\ aborts' = Down(aborts, s)
        /\ UNCHANGED <<session, open, gone, recvs, waiting, db_evts>>
  /\ UNCHANGED <<packets, eofs, row>>

(***************************************************************************)
(* Worker threads: DB events.                                              *)
(***************************************************************************)
TakenEvent(t, s) == Working /\ db_evts[t][s] > 0

Dequeued(t, s) == [db_evts EXCEPT ![t][s] = @ - 1]

\* search_user_id that finds the row of the login_id, or makes it
search_user_id(s) ==
  /\ stats' = [stats EXCEPT ![s] = row[login_id[s]]]
  /\ is_login' = [is_login EXCEPT ![s] = TRUE]

\* search_user_id refuses another kind of player, and returns anything when
\* the DB fails.
DbSearch(s) ==
  LET rest == Dequeued("SEARCH", s)
      answer == \/ /\ ~ MustHang(s)
                   /\ waiting' = waiting \ {s}
                   /\ UNCHANGED stuck
                \/ /\ MayHang({s} \cup Others(s))
                   /\ Hang
                   /\ UNCHANGED waiting
  IN  /\ TakenEvent("SEARCH", s)
      /\ ~ is_dummy[s]
      /\ \/ \* found
            /\ search_user_id(s)
            /\ answer
            /\ db_evts' = rest
            /\ UNCHANGED <<in_use, is_dummy, login_id, open, gone, recvs, aborts>>
         \/ \* the DB failed, TRUE by accident
            /\ answer
            /\ db_evts' = rest
            /\ UNCHANGED <<session, open, gone, recvs, aborts>>
         \/ \* refused, or the DB failed
            /\ ~ MustHang(s)
            /\ disconnect_client(s, rest, aborts, is_login[s])
         \/ \* refused, but the client cannot be told
            /\ MayHang({s})
            /\ Hang
            /\ db_evts' = rest
            /\ UNCHANGED <<session, open, gone, recvs, aborts, waiting>>
      /\ UNCHANGED <<packets, eofs, row>>

\* Writes the row of the login_id of the slot, if the DB works.
save_user_data(s) ==
  row' \in {row} \cup
    {[row EXCEPT ![a] = stats[s]] : a \in {login_id[s]} \cap Account}

DbSave(s) ==
  /\ TakenEvent("SAVE", s)
  /\ ~ is_dummy[s]
  /\ save_user_data(s)
  /\ disconnect_client(s, Dequeued("SAVE", s), aborts, FALSE)
  /\ UNCHANGED <<packets, eofs>>

DbUpdate(s) ==
  /\ TakenEvent("UPDATE", s)
  /\ ~ is_dummy[s]
  /\ save_user_data(s)
  /\ db_evts' = Dequeued("UPDATE", s)
  /\ UNCHANGED <<session, connection, stuck>>

\* A DB event of a slot marked as a dummy is thrown away.
DbIgnored(t, s) ==
  /\ TakenEvent(t, s)
  /\ is_dummy[s]
  /\ db_evts' = Dequeued(t, s)
  /\ UNCHANGED <<session, connection, row, stuck>>

\* A level up (EV_ATTACK) or a resurrection asks for an update, for whoever
\* owns the slot by now, before it sends anything.
Earn(s) ==
  /\ Working
  /\ "ATTACK" \in Requests
  /\ in_use[s] \/ login_id[s] # Nobody
  /\ db_evts["UPDATE"][s] < MaxPending
  /\ db_evts' = Queued(db_evts, "UPDATE", s)
  /\ \/ open[s] /\ UNCHANGED stuck
     \/ MayHang({s} \cup Others(s)) /\ Hang
  /\ UNCHANGED <<session, connection, row>>

Packets(s) == CsLogin(s) \/ CsLogout(s) \/ CsMove(s) \/ CsAttack(s) \/ CsTest(s)

DbEvents(s) ==
  \/ DbSearch(s) \/ DbSave(s) \/ DbUpdate(s)
  \/ \E t \in DbEvent : DbIgnored(t, s)

Next ==
  \/ do_accept
  \/ \E s \in Slot :
       \/ \E batch \in Batch : Arrive(s, batch)
       \/ Leave(s)
       \/ SendFails(s)
       \/ Packets(s)
       \/ TakeEof(s)
       \/ TakeAbort(s)
       \/ DbEvents(s)
       \/ Earn(s)

\* As long as one is left, the workers take every completion.
Fairness ==
  \A s \in Slot :
    /\ WF_vars(Packets(s))
    /\ WF_vars(TakeEof(s))
    /\ WF_vars(TakeAbort(s))
    /\ WF_vars(DbSearch(s))
    /\ WF_vars(DbSave(s))
    /\ WF_vars(DbUpdate(s))
    /\ \A t \in DbEvent : WF_vars(DbIgnored(t, s))

Spec == Init /\ [][Next]_vars /\ Fairness
=============================================================================
