--------------------------- MODULE SessionsProofs ---------------------------
(***************************************************************************)
(* What module Sessions keeps for any number of slots, accounts and worker *)
(* threads, and for any bound on the completions under way.                *)
(***************************************************************************)
EXTENDS SessionsProps, TLAPS

USE SizeAssumption

(* A login in the DB queue is for somebody: CS_LOGIN stores the id before  *)
(* it queues the event, and nothing takes it away again.                   *)
Named == \A s \in Slot : db_evts["SEARCH"][s] > 0 => login_id[s] \in Account

(* Queued and ToSave add to the bag of DB events and to nothing else. *)
LEMMA QueuedType ==
  ASSUME NEW evts \in [DbEvent -> [Slot -> 0 .. MaxPending]],
         NEW t \in DbEvent, NEW s \in Slot,
         evts[t][s] < MaxPending
  PROVE  Queued(evts, t, s) \in [DbEvent -> [Slot -> 0 .. MaxPending]]
  BY DEF Queued

(* disconnect_client keeps the types, if what it is given has them. *)
LEMMA DisconnectType ==
  ASSUME TypeOK, Working,
         NEW s \in Slot, NEW evts \in [DbEvent -> [Slot -> 0 .. MaxPending]],
         NEW aborted \in [Slot -> 0 .. MaxPending], NEW logged_in \in BOOLEAN,
         disconnect_client(s, evts, aborted, logged_in)
  PROVE  /\ db_evts' \in [DbEvent -> [Slot -> 0 .. MaxPending]]
         /\ is_login' \in [Slot -> BOOLEAN]
         /\ in_use' \in [Slot -> BOOLEAN]
         /\ open' \in [Slot -> BOOLEAN]
         /\ recvs' \in [Slot -> 0 .. MaxPending]
         /\ aborts' \in [Slot -> 0 .. MaxPending]
         /\ waiting' \in SUBSET Slot
         /\ stuck' \in 0 .. Workers
         /\ UNCHANGED <<gone, is_dummy, login_id, stats>>
<1>1. db_evts' \in [DbEvent -> [Slot -> 0 .. MaxPending]]
  <2>1. CASE logged_in
    <3>1. evts["SAVE"][s] < MaxPending
      BY <2>1 DEF disconnect_client, ToSave, Queued, DbEvent
    <3> QED
      BY <2>1, <3>1, QueuedType DEF disconnect_client, ToSave, DbEvent
  <2>2. CASE ~ logged_in
    BY <2>2 DEF disconnect_client, ToSave
  <2> QED
    BY <2>1, <2>2
<1>2. is_login' \in [Slot -> BOOLEAN]
  BY DEF disconnect_client, TypeOK
<1>3. CASE Hang /\ aborts' = aborted /\ UNCHANGED <<open, in_use, recvs, waiting>>
  BY <1>1, <1>2, <1>3 DEF disconnect_client, TypeOK, Working, Hang
<1>4. CASE /\ open' = Closed(s)
           /\ in_use' = Freed(s)
           /\ recvs' = [recvs EXCEPT ![s] = 0]
           /\ \E n \in Failing(s) :
                /\ aborted[s] + n <= MaxPending
                /\ aborts' = [aborted EXCEPT ![s] = @ + n]
           /\ waiting' = waiting \ {s}
           /\ UNCHANGED stuck
  <2>1. Failing(s) \subseteq 0 .. MaxPending
    BY DEF Failing, TypeOK
  <2>2. aborts' \in [Slot -> 0 .. MaxPending]
    BY <1>4, <2>1
  <2> QED
    BY <1>1, <1>2, <1>4, <2>2 DEF disconnect_client, TypeOK, Closed, Freed
<1> QED
  BY <1>3, <1>4 DEF disconnect_client

(* So do the handlers that end with it. *)
LEMMA EndType ==
  ASSUME TypeOK, Working,
         NEW s \in Slot, NEW evts \in [DbEvent -> [Slot -> 0 .. MaxPending]],
         NEW aborted \in [Slot -> 0 .. MaxPending], NEW logged_in \in BOOLEAN,
         disconnect_client(s, evts, aborted, logged_in),
         eofs' \in [Slot -> 0 .. MaxPending],
         row' \in [Account -> Account \cup {Nobody}],
         packets' = packets
  PROVE  TypeOK'
<1>1. /\ gone \in [Slot -> BOOLEAN] /\ is_dummy \in [Slot -> BOOLEAN]
      /\ login_id \in [Slot -> Account \cup {Nobody}]
      /\ stats \in [Slot -> Account \cup {Nobody}]
      /\ packets \in [Slot -> Seq(Packet)]
  BY DEF TypeOK
<1>2. /\ db_evts' \in [DbEvent -> [Slot -> 0 .. MaxPending]]
      /\ is_login' \in [Slot -> BOOLEAN]
      /\ in_use' \in [Slot -> BOOLEAN]
      /\ open' \in [Slot -> BOOLEAN]
      /\ recvs' \in [Slot -> 0 .. MaxPending]
      /\ aborts' \in [Slot -> 0 .. MaxPending]
      /\ waiting' \in SUBSET Slot
      /\ stuck' \in 0 .. Workers
      /\ UNCHANGED <<gone, is_dummy, login_id, stats>>
  BY DisconnectType
<1> QED
  BY <1>1, <1>2 DEF TypeOK

(* An event that is there can be taken from the bag. *)
LEMMA DequeuedType ==
  ASSUME TypeOK, NEW t \in DbEvent, NEW s \in Slot, TakenEvent(t, s)
  PROVE  Dequeued(t, s) \in [DbEvent -> [Slot -> 0 .. MaxPending]]
  BY DEF TypeOK, TakenEvent, Dequeued

(* One step per handler: the types hold after it. *)
LEMMA TypeStep ==
  ASSUME TypeOK, Named, [Next]_vars
  PROVE  TypeOK'
<1> USE DEF session, connection
<1>1. CASE do_accept
  BY <1>1 DEF do_accept, TypeOK
<1>2. ASSUME NEW s \in Slot, NEW batch \in Batch, Arrive(s, batch)
      PROVE  TypeOK'
  <2>1. batch \in Seq(Packet)
    BY DEF Batch
  <2> QED
    BY <1>2, <2>1 DEF Arrive, TypeOK, Down
<1>3. ASSUME NEW s \in Slot, Leave(s) \/ SendFails(s)
      PROVE  TypeOK'
  <2>1. /\ eofs[s] < MaxPending => Up(eofs, s) \in [Slot -> 0 .. MaxPending]
        /\ aborts[s] < MaxPending => Up(aborts, s) \in [Slot -> 0 .. MaxPending]
        /\ recvs[s] > 0 => Down(recvs, s) \in [Slot -> 0 .. MaxPending]
    BY DEF TypeOK, Up, Down
  <2>2. CASE Leave(s)
    <3>1. eofs' \in [Slot -> 0 .. MaxPending] /\ aborts' \in [Slot -> 0 .. MaxPending]
      BY <2>1, <2>2 DEF Leave, TypeOK
    <3> QED
      BY <2>1, <2>2, <3>1 DEF Leave, TypeOK
  <2>3. CASE SendFails(s)
    BY <2>1, <2>3 DEF SendFails, TypeOK
  <2> QED
    BY <1>3, <2>2, <2>3
<1>4. ASSUME NEW s \in Slot, Working, packets[s] # <<>>, GoOn(s) \/ BreakOff(s)
      PROVE  /\ packets' \in [Slot -> Seq(Packet)]
             /\ recvs' \in [Slot -> 0 .. MaxPending]
             /\ stuck' \in 0 .. Workers
  <2>1. Tail(packets[s]) \in Seq(Packet)
    BY <1>4 DEF TypeOK
  <2>2. packets' \in [Slot -> Seq(Packet)]
    <3>1. packets \in [Slot -> Seq(Packet)] /\ <<>> \in Seq(Packet)
      BY DEF TypeOK
    <3>2. PICK b \in Seq(Packet) : packets' = [packets EXCEPT ![s] = b]
      BY <1>4, <2>1, <3>1 DEF GoOn, BreakOff
    <3> QED
      BY <3>1, <3>2
  <2>3. recvs' \in [Slot -> 0 .. MaxPending] /\ stuck' \in 0 .. Workers
    <3>1. /\ recvs \in [Slot -> 0 .. MaxPending] /\ stuck \in 0 .. Workers
          /\ stuck < Workers
      BY <1>4 DEF TypeOK, Working
    <3>2. \/ recvs' = Up(recvs, s) /\ recvs[s] < MaxPending /\ stuck' = stuck
          \/ recvs' = recvs /\ (stuck' = stuck \/ stuck' = stuck + 1)
      BY <1>4 DEF GoOn, BreakOff, do_recv, Hang
    <3> QED
      BY <3>1, <3>2 DEF Up
  <2> QED
    BY <2>2, <2>3
<1>5. ASSUME NEW s \in Slot, NEW type, Handled(s, type)
      PROVE  /\ Working /\ packets[s] # <<>>
             /\ Head(packets[s]) \in Packet /\ Head(packets[s]).type = type
  BY <1>5 DEF Handled, TypeOK
<1>6. ASSUME Working, Hang
      PROVE  stuck' \in 0 .. Workers
  BY <1>6 DEF Working, Hang, TypeOK
<1>7. ASSUME NEW s \in Slot, CsLogin(s)
      PROVE  TypeOK'
  <2>1. Queued(db_evts, "SEARCH", s) \in [DbEvent -> [Slot -> 0 .. MaxPending]]
    BY <1>7, QueuedType DEF CsLogin, DbEvent, TypeOK
  <2>2. Head(packets[s]).id \in Account
    BY <1>5, <1>7 DEF CsLogin, Packet
  <2> QED
    BY <1>4, <1>5, <1>7, <2>1, <2>2 DEF CsLogin, TypeOK
<1>8. ASSUME NEW s \in Slot, CsLogout(s)
      PROVE  TypeOK'
  <2>1. Queued(db_evts, "SAVE", s) \in [DbEvent -> [Slot -> 0 .. MaxPending]]
    BY <1>8, QueuedType DEF CsLogout, DbEvent, TypeOK
  <2> QED
    BY <1>4, <1>5, <1>8, <2>1 DEF CsLogout, TypeOK
<1>9. ASSUME NEW s \in Slot, CsMove(s) \/ CsAttack(s)
      PROVE  TypeOK'
  BY <1>4, <1>5, <1>6, <1>9 DEF CsMove, CsAttack, TypeOK
<1>10. ASSUME NEW s \in Slot, CsTest(s)
       PROVE  TypeOK'
  BY <1>4, <1>5, <1>6, <1>10 DEF CsTest, TypeOK
<1>11. ASSUME NEW s \in Slot, TakeEof(s)
       PROVE  TypeOK'
  <2>1. eofs' \in [Slot -> 0 .. MaxPending]
    BY <1>11 DEF TakeEof, Down, TypeOK
  <2>2. /\ db_evts \in [DbEvent -> [Slot -> 0 .. MaxPending]]
        /\ aborts \in [Slot -> 0 .. MaxPending]
        /\ is_login[s] \in BOOLEAN
        /\ Working
    BY <1>11 DEF TakeEof, TypeOK
  <2>3. disconnect_client(s, db_evts, aborts, is_login[s])
    BY <1>11 DEF TakeEof
  <2>4. packets' = packets /\ row' \in [Account -> Account \cup {Nobody}]
    BY <1>11 DEF TakeEof, TypeOK
  <2> QED
    BY <2>1, <2>2, <2>3, <2>4, EndType
<1>12. ASSUME NEW s \in Slot, TakeAbort(s)
       PROVE  TypeOK'
  <2>1. Down(aborts, s) \in [Slot -> 0 .. MaxPending]
    BY <1>12 DEF TakeAbort, Down, TypeOK
  <2>2. CASE disconnect_client(s, db_evts, Down(aborts, s), is_login[s])
    <3>1. /\ packets' = packets /\ row' \in [Account -> Account \cup {Nobody}]
          /\ eofs' \in [Slot -> 0 .. MaxPending]
          /\ db_evts \in [DbEvent -> [Slot -> 0 .. MaxPending]]
          /\ is_login[s] \in BOOLEAN /\ Working
      BY <1>12 DEF TakeAbort, TypeOK
    <3> QED
      BY <2>1, <2>2, <3>1, EndType
  <2>3. CASE Hang /\ aborts' = Down(aborts, s)
             /\ UNCHANGED <<session, open, gone, recvs, waiting, db_evts>>
    BY <1>6, <1>12, <2>1, <2>3 DEF TakeAbort, TypeOK
  <2> QED
    BY <1>12, <2>2, <2>3 DEF TakeAbort
<1>13. ASSUME NEW s \in Slot, DbSearch(s)
       PROVE  TypeOK'
  <2> DEFINE rest == Dequeued("SEARCH", s)
  <2>1. Working /\ rest \in [DbEvent -> [Slot -> 0 .. MaxPending]]
    BY <1>13, DequeuedType DEF DbSearch, search_user_id, TakenEvent, DbEvent
  <2>2. stats' \in [Slot -> Account \cup {Nobody}]
    <3>1. row[login_id[s]] \in Account \cup {Nobody}
      BY <1>13 DEF DbSearch, search_user_id, TakenEvent, Named, TypeOK
    <3> QED
      BY <1>13, <3>1 DEF DbSearch, search_user_id, disconnect_client, TypeOK
  <2> HIDE DEF rest
  <2>3. CASE disconnect_client(s, rest, aborts, is_login[s])
    <3>1. /\ packets' = packets /\ row' \in [Account -> Account \cup {Nobody}]
          /\ eofs' \in [Slot -> 0 .. MaxPending]
          /\ aborts \in [Slot -> 0 .. MaxPending]
          /\ is_login[s] \in BOOLEAN
      BY <1>13 DEF DbSearch, TypeOK
    <3> QED
      BY <2>1, <2>3, <3>1, EndType
  <2>4. CASE ~ disconnect_client(s, rest, aborts, is_login[s])
    <3>1. /\ db_evts' = rest
          /\ is_login' \in [Slot -> BOOLEAN]
          /\ waiting' \in SUBSET Slot
          /\ Hang \/ UNCHANGED stuck
          /\ UNCHANGED <<in_use, is_dummy, login_id, open, gone, recvs, aborts,
                         packets, eofs, row>>
      BY <1>13, <2>4 DEF DbSearch, search_user_id, TypeOK, rest
    <3> QED
      BY <1>6, <2>1, <2>2, <3>1 DEF TypeOK
  <2> QED
    BY <2>3, <2>4
<1>14. ASSUME NEW s \in Slot, save_user_data(s)
       PROVE  row' \in [Account -> Account \cup {Nobody}]
  <2>1. /\ row \in [Account -> Account \cup {Nobody}]
        /\ stats[s] \in Account \cup {Nobody}
    BY DEF TypeOK
  <2> QED
    BY <1>14, <2>1 DEF save_user_data
<1>15. ASSUME NEW s \in Slot, DbSave(s)
       PROVE  TypeOK'
  <2>1. Working /\ Dequeued("SAVE", s) \in [DbEvent -> [Slot -> 0 .. MaxPending]]
    BY <1>15, DequeuedType DEF DbSave, TakenEvent, DbEvent
  <2> QED
    <3>1. /\ packets' = packets /\ eofs' \in [Slot -> 0 .. MaxPending]
          /\ aborts \in [Slot -> 0 .. MaxPending]
          /\ disconnect_client(s, Dequeued("SAVE", s), aborts, FALSE)
      BY <1>15 DEF DbSave, TypeOK
    <3>2. row' \in [Account -> Account \cup {Nobody}]
      BY <1>14, <1>15 DEF DbSave
    <3> QED
      BY <2>1, <3>1, <3>2, EndType
<1>16. ASSUME NEW s \in Slot, DbUpdate(s)
       PROVE  TypeOK'
  <2>1. Dequeued("UPDATE", s) \in [DbEvent -> [Slot -> 0 .. MaxPending]]
    BY <1>16, DequeuedType DEF DbUpdate, DbEvent
  <2> QED
    BY <1>14, <1>16, <2>1 DEF DbUpdate, TypeOK
<1>17. ASSUME NEW s \in Slot, NEW t \in DbEvent, DbIgnored(t, s)
       PROVE  TypeOK'
  BY <1>17, DequeuedType DEF DbIgnored, TypeOK
<1>18. ASSUME NEW s \in Slot, Earn(s)
       PROVE  TypeOK'
  <2>1. Queued(db_evts, "UPDATE", s) \in [DbEvent -> [Slot -> 0 .. MaxPending]]
    BY <1>18, QueuedType DEF Earn, DbEvent, TypeOK
  <2> QED
    BY <1>6, <1>18, <2>1 DEF Earn, TypeOK
<1>19. CASE UNCHANGED vars
  BY <1>19 DEF vars, TypeOK
<1> QED
  BY <1>1, <1>2, <1>3, <1>7, <1>8, <1>9, <1>10, <1>11, <1>12, <1>13, <1>15,
     <1>16, <1>17, <1>18, <1>19 DEF Next, Packets, DbEvents

(* What becomes of the count of one event in the bag. *)
LEMMA Counts ==
  ASSUME NEW evts \in [DbEvent -> [Slot -> 0 .. MaxPending]],
         NEW t \in DbEvent, NEW s \in Slot, NEW u \in DbEvent, NEW r \in Slot
  PROVE  Queued(evts, t, s)[u][r] =
           IF u = t /\ r = s THEN evts[t][s] + 1 ELSE evts[u][r]
  BY DEF Queued

LEMMA CountsDown ==
  ASSUME TypeOK,
         NEW t \in DbEvent, NEW s \in Slot, NEW u \in DbEvent, NEW r \in Slot
  PROVE  Dequeued(t, s)[u][r] =
           IF u = t /\ r = s THEN db_evts[t][s] - 1 ELSE db_evts[u][r]
  BY DEF Dequeued, TypeOK

(* A disconnect forgets no event, and owes no logged in player a save. *)
LEMMA DisconnectCounts ==
  ASSUME NEW evts \in [DbEvent -> [Slot -> 0 .. MaxPending]],
         NEW s \in Slot, NEW aborted, NEW logged_in \in BOOLEAN,
         disconnect_client(s, evts, aborted, logged_in)
  PROVE  /\ \A r \in Slot : db_evts'["SEARCH"][r] = evts["SEARCH"][r]
         /\ \A r \in Slot : db_evts'["SAVE"][r] >= evts["SAVE"][r]
         /\ logged_in => db_evts'["SAVE"][s] > 0
<1>1. "SEARCH" \in DbEvent /\ "SAVE" \in DbEvent
  BY DEF DbEvent
<1>2. \A r \in Slot : evts["SAVE"][r] \in 0 .. MaxPending
  BY <1>1
<1>3. CASE logged_in
  <2>1. db_evts' = Queued(evts, "SAVE", s)
    BY <1>3 DEF disconnect_client, ToSave
  <2>2. \A r \in Slot :
          /\ db_evts'["SEARCH"][r] = evts["SEARCH"][r]
          /\ db_evts'["SAVE"][r] =
               IF r = s THEN evts["SAVE"][s] + 1 ELSE evts["SAVE"][r]
    BY <1>1, <2>1, Counts
  <2> QED
    BY <1>2, <2>2
<1>4. CASE ~ logged_in
  BY <1>2, <1>4 DEF disconnect_client, ToSave
<1> QED
  BY <1>3, <1>4

(* Only CS_LOGIN makes searches, and it names whom to search for. *)
LEMMA NamedStep ==
  ASSUME TypeOK, Named, [Next]_vars
  PROVE  Named'
<1> USE DEF session, connection
<1>1. "SEARCH" \in DbEvent /\ "SAVE" \in DbEvent /\ "UPDATE" \in DbEvent
  BY DEF DbEvent
<1>2. /\ db_evts \in [DbEvent -> [Slot -> 0 .. MaxPending]]
      /\ \A r \in Slot : db_evts["SEARCH"][r] \in 0 .. MaxPending
      /\ is_login \in [Slot -> BOOLEAN]
  BY <1>1 DEF TypeOK
<1>3. CASE /\ login_id' = login_id
           /\ \A r \in Slot : db_evts'["SEARCH"][r] <= db_evts["SEARCH"][r]
  BY <1>2, <1>3, TypeStep, <1>1 DEF Named, TypeOK
<1>4. ASSUME NEW t \in DbEvent, NEW s \in Slot
      PROVE  /\ Dequeued(t, s) \in [DbEvent -> [Slot -> Int]]
             /\ \A r \in Slot : Dequeued(t, s)["SEARCH"][r] <= db_evts["SEARCH"][r]
  BY <1>1, <1>2, CountsDown DEF Dequeued
<1>5. ASSUME NEW s \in Slot, CsLogin(s)
      PROVE  Named'
  <2>1. Head(packets[s]).id \in Account
    <3>1. Head(packets[s]) \in Packet /\ Head(packets[s]).type = "LOGIN"
      BY <1>5 DEF CsLogin, Handled, TypeOK
    <3> QED
      BY <3>1 DEF Packet
  <2>2. \A r \in Slot \ {s} : db_evts'["SEARCH"][r] = db_evts["SEARCH"][r]
    BY <1>1, <1>2, <1>5, Counts DEF CsLogin
  <2> QED
    BY <1>5, <2>1, <2>2 DEF CsLogin, Named, TypeOK
<1>6. ASSUME NEW s \in Slot, CsLogout(s) \/ Earn(s)
      PROVE  Named'
  <2>1. \A r \in Slot : db_evts'["SEARCH"][r] = db_evts["SEARCH"][r]
    <3>1. CASE db_evts' = db_evts
      BY <3>1
    <3>2. CASE \E t \in {"SAVE", "UPDATE"} : db_evts' = Queued(db_evts, t, s)
      BY <1>1, <1>2, <3>2, Counts
    <3> QED
      BY <1>6, <3>1, <3>2 DEF CsLogout, Earn
  <2> QED
    BY <1>2, <1>3, <1>6, <2>1 DEF CsLogout, Earn
<1>7. ASSUME NEW s \in Slot, TakeEof(s) \/ TakeAbort(s)
      PROVE  Named'
  <2>1. \A r \in Slot : db_evts'["SEARCH"][r] = db_evts["SEARCH"][r]
    BY <1>1, <1>2, <1>7, DisconnectCounts DEF TakeEof, TakeAbort
  <2> QED
    BY <1>2, <1>3, <1>7, <2>1 DEF TakeEof, TakeAbort, disconnect_client
<1>8. ASSUME NEW s \in Slot, DbSearch(s)
      PROVE  Named'
  <2> DEFINE rest == Dequeued("SEARCH", s)
  <2>1. rest \in [DbEvent -> [Slot -> 0 .. MaxPending]]
    BY <1>1, <1>8, DequeuedType DEF DbSearch, search_user_id
  <2>2. \A r \in Slot : rest["SEARCH"][r] <= db_evts["SEARCH"][r]
    BY <1>1, <1>4
  <2> HIDE DEF rest
  <2>3. CASE disconnect_client(s, rest, aborts, is_login[s])
    <3>1. login_id' = login_id
      BY <2>3 DEF disconnect_client
    <3>2. \A r \in Slot : db_evts'["SEARCH"][r] = rest["SEARCH"][r]
      BY <1>2, <2>1, <2>3, DisconnectCounts
    <3> QED
      BY <1>3, <2>2, <3>1, <3>2
  <2>4. CASE ~ disconnect_client(s, rest, aborts, is_login[s])
    <3>1. db_evts' = rest /\ login_id' = login_id
      BY <1>8, <2>4 DEF DbSearch, search_user_id, rest
    <3> QED
      BY <1>3, <2>2, <3>1
  <2> QED
    BY <2>3, <2>4
<1>9. ASSUME NEW s \in Slot, DbSave(s)
      PROVE  Named'
  <2> DEFINE rest == Dequeued("SAVE", s)
  <2>1. rest \in [DbEvent -> [Slot -> 0 .. MaxPending]]
    BY <1>1, <1>9, DequeuedType DEF DbSave
  <2>2. \A r \in Slot : rest["SEARCH"][r] <= db_evts["SEARCH"][r]
    BY <1>1, <1>4
  <2>3. disconnect_client(s, rest, aborts, FALSE)
    BY <1>9 DEF DbSave
  <2> HIDE DEF rest
  <2>4. \A r \in Slot : db_evts'["SEARCH"][r] = rest["SEARCH"][r]
    BY <2>1, <2>3, DisconnectCounts
  <2> QED
    BY <1>3, <2>2, <2>3, <2>4 DEF disconnect_client
<1>10. ASSUME NEW s \in Slot, DbUpdate(s)
       PROVE  Named'
  BY <1>1, <1>3, <1>4, <1>10 DEF DbUpdate
<1>11. ASSUME NEW s \in Slot, NEW t \in DbEvent, DbIgnored(t, s)
       PROVE  Named'
  BY <1>3, <1>4, <1>11 DEF DbIgnored
<1>12. CASE \/ do_accept
            \/ \E s \in Slot :
                 \/ \E batch \in Batch : Arrive(s, batch)
                 \/ Leave(s) \/ SendFails(s) \/ CsMove(s) \/ CsAttack(s) \/ CsTest(s)
            \/ UNCHANGED vars
  <2>1. UNCHANGED <<db_evts, login_id>>
    BY <1>12 DEF do_accept, Arrive, Leave, SendFails, CsMove, CsAttack, CsTest, vars
  <2> QED
    BY <1>2, <1>3, <2>1
<1> QED
  BY <1>5, <1>6, <1>7, <1>8, <1>9, <1>10, <1>11, <1>12 DEF Next, Packets, DbEvents

(* disconnect_client either closes and frees the slot or loses a worker    *)
(* and leaves it alone.                                                    *)
LEMMA DisconnectFrees ==
  ASSUME TypeOK, Working, NEW s \in Slot, NEW evts, NEW aborted, NEW logged_in,
         disconnect_client(s, evts, aborted, logged_in)
  PROVE  /\ is_dummy' = is_dummy
         /\ is_login' = [is_login EXCEPT ![s] = logged_in]
         /\ \/ /\ stuck' = stuck
               /\ \A r \in Slot : /\ in_use'[r] = (r # s /\ in_use[r])
                                  /\ open'[r] = (r # s /\ open[r])
            \/ /\ stuck' > 0
               /\ in_use' = in_use /\ open' = open
<1>1. CASE Hang /\ UNCHANGED <<open, in_use, recvs, waiting>>
  BY <1>1 DEF disconnect_client, Hang, TypeOK
<1>2. CASE open' = Closed(s) /\ in_use' = Freed(s) /\ UNCHANGED stuck
  BY <1>2 DEF disconnect_client, Closed, Freed, TypeOK
<1> QED
  BY <1>1, <1>2 DEF disconnect_client

(* Only do_accept opens a connection and only disconnect_client ends one;  *)
(* both write in_use too.                                                  *)
LEMMA RegisteredStep ==
  ASSUME TypeOK, Registered, [Next]_vars
  PROVE  Registered'
<1> USE DEF session, connection
<1>1. CASE do_accept
  BY <1>1 DEF do_accept, Registered, TypeOK
<1>2. ASSUME NEW s \in Slot, NEW evts, NEW aborted, NEW logged_in, Working,
             disconnect_client(s, evts, aborted, logged_in)
      PROVE  Registered'
  BY <1>2, DisconnectFrees DEF Registered
<1>3. ASSUME NEW s \in Slot, TakeEof(s) \/ TakeAbort(s) \/ DbSearch(s) \/ DbSave(s)
      PROVE  Registered'
  <2>1. CASE \E evts, aborted, logged_in :
               disconnect_client(s, evts, aborted, logged_in)
    BY <1>2, <1>3, <2>1 DEF TakeEof, TakeAbort, DbSearch, search_user_id, DbSave, TakenEvent
  <2>2. CASE UNCHANGED <<in_use, open, is_dummy>>
    BY <2>2 DEF Registered
  <2> QED
    BY <1>3, <2>1, <2>2 DEF TakeEof, TakeAbort, DbSearch, search_user_id, DbSave
<1>4. ASSUME NEW s \in Slot, CsTest(s)
      PROVE  Registered'
  BY <1>4 DEF CsTest, Registered, TypeOK
<1>5. CASE UNCHANGED <<in_use, open, is_dummy>>
  BY <1>5 DEF Registered
<1>6. ASSUME NEW s \in Slot,
             \/ \E batch \in Batch : Arrive(s, batch)
             \/ Leave(s) \/ SendFails(s) \/ CsLogin(s) \/ CsLogout(s) \/ CsMove(s) \/ CsAttack(s)
             \/ DbUpdate(s) \/ Earn(s)
             \/ \E t \in DbEvent : DbIgnored(t, s)
      PROVE  Registered'
  BY <1>5, <1>6 DEF Arrive, Leave, SendFails, CsLogin, CsLogout, CsMove, CsAttack, DbUpdate,
                    DbIgnored, Earn
<1>7. CASE UNCHANGED vars
  BY <1>5, <1>7 DEF vars
<1> QED
  BY <1>1, <1>3, <1>4, <1>6, <1>7 DEF Next, Packets, DbEvents

(* A slot becomes free and stays marked as logged in only in               *)
(* disconnect_client, which asks for a save; a save is taken only together *)
(* with the mark; a login on a free slot costs the worker, since its       *)
(* answer goes to a closed socket.                                         *)
LEMMA SaveOwedStep ==
  ASSUME TypeOK, Registered, SaveOwed, [Next]_vars
  PROVE  SaveOwed'
<1> USE DEF session, connection
<1> DEFINE StillSaved(r) == db_evts["SAVE"][r] > 0 => db_evts'["SAVE"][r] > 0
<1>1. "SEARCH" \in DbEvent /\ "SAVE" \in DbEvent /\ "UPDATE" \in DbEvent
  BY DEF DbEvent
<1>2. /\ db_evts \in [DbEvent -> [Slot -> 0 .. MaxPending]]
      /\ \A r \in Slot : db_evts["SAVE"][r] \in 0 .. MaxPending
      /\ is_login \in [Slot -> BOOLEAN]
      /\ in_use \in [Slot -> BOOLEAN]
      /\ is_dummy \in [Slot -> BOOLEAN]
      /\ stuck \in 0 .. Workers
  BY <1>1 DEF TypeOK
<1>3. ASSUME stuck > 0 => stuck' > 0,
             UNCHANGED <<in_use, is_login, is_dummy>>,
             \A r \in Slot : StillSaved(r)
      PROVE  SaveOwed'
  BY <1>2, <1>3 DEF SaveOwed
<1>4. ASSUME Hang
      PROVE  SaveOwed'
  BY <1>2, <1>4 DEF SaveOwed, Hang
<1>5. ASSUME NEW s \in Slot, GoOn(s) \/ BreakOff(s)
      PROVE  stuck > 0 => stuck' > 0
  BY <1>2, <1>5 DEF GoOn, BreakOff, do_recv, Hang
<1>6. ASSUME NEW t \in DbEvent, NEW s \in Slot, NEW r \in Slot,
              db_evts["SAVE"][r] > 0
       PROVE  Queued(db_evts, t, s)["SAVE"][r] > 0
  <2>1. Queued(db_evts, t, s)["SAVE"][r] =
          IF "SAVE" = t /\ r = s THEN db_evts[t][s] + 1 ELSE db_evts["SAVE"][r]
    BY <1>1, <1>2, Counts
  <2> QED
    BY <1>2, <1>6, <2>1
<1>7. ASSUME NEW s \in Slot, NEW evts \in [DbEvent -> [Slot -> 0 .. MaxPending]],
             NEW aborted, Working,
             \A r \in Slot : evts["SAVE"][r] = db_evts["SAVE"][r],
             disconnect_client(s, evts, aborted, is_login[s])
      PROVE  SaveOwed'
  <2>1. CASE stuck' > 0
    BY <2>1 DEF SaveOwed
  <2>2. CASE /\ stuck' = stuck
             /\ \A r \in Slot : in_use'[r] = (r # s /\ in_use[r])
    <3>1. \A r \in Slot : db_evts'["SAVE"][r] >= evts["SAVE"][r]
      BY <1>2, <1>7, DisconnectCounts
    <3>2. is_login[s] => db_evts'["SAVE"][s] > 0
      BY <1>2, <1>7, DisconnectCounts
    <3>3. /\ \A r \in Slot : is_login'[r] = is_login[r]
          /\ is_dummy' = is_dummy
      BY <1>2, <1>7, DisconnectFrees
    <3>4. \A r \in Slot : db_evts'["SAVE"][r] \in Int
      <4>1. db_evts' = ToSave(evts, s, is_login[s])
        BY <1>7 DEF disconnect_client
      <4> QED
        BY <1>1, <1>7, <4>1, Counts DEF ToSave
    <3> QED
      BY <1>2, <1>7, <2>2, <3>1, <3>2, <3>3, <3>4 DEF SaveOwed
  <2> QED
    BY <1>7, <2>1, <2>2, DisconnectFrees
<1>8. CASE do_accept
  BY <1>2, <1>8 DEF do_accept, SaveOwed
<1>9. ASSUME NEW s \in Slot,
             CsLogin(s) \/ CsLogout(s) \/ CsMove(s) \/ CsAttack(s)
      PROVE  SaveOwed'
  <2>1. \A r \in Slot : StillSaved(r)
    BY <1>1, <1>9, <1>6 DEF CsLogin, CsLogout, CsMove, CsAttack
  <2> QED
    BY <1>3, <1>4, <1>5, <1>9, <2>1 DEF CsLogin, CsLogout, CsMove, CsAttack
<1>10. ASSUME NEW s \in Slot, CsTest(s)
      PROVE  SaveOwed'
  BY <1>2, <1>4, <1>5, <1>10 DEF CsTest, SaveOwed
<1>11. ASSUME NEW s \in Slot, TakeEof(s)
       PROVE  SaveOwed'
  BY <1>2, <1>7, <1>11 DEF TakeEof
<1>12. ASSUME NEW s \in Slot, TakeAbort(s)
       PROVE  SaveOwed'
  BY <1>2, <1>4, <1>7, <1>12 DEF TakeAbort
<1>13. ASSUME NEW s \in Slot, DbSearch(s)
       PROVE  SaveOwed'
  <2> DEFINE rest == Dequeued("SEARCH", s)
  <2>1. Working /\ rest \in [DbEvent -> [Slot -> 0 .. MaxPending]]
    BY <1>1, <1>13, DequeuedType DEF DbSearch, search_user_id, TakenEvent
  <2>2. \A r \in Slot : rest["SAVE"][r] = db_evts["SAVE"][r]
    BY <1>1, CountsDown
  <2> HIDE DEF rest
  <2>3. CASE disconnect_client(s, rest, aborts, is_login[s])
    BY <1>7, <2>1, <2>2, <2>3
  <2>4. CASE Hang
    BY <1>4, <2>4
  <2>5. CASE /\ ~ MustHang(s) /\ UNCHANGED stuck
             /\ db_evts' = rest
             /\ is_login' = [is_login EXCEPT ![s] = TRUE] \/ UNCHANGED is_login
             /\ UNCHANGED <<in_use, is_dummy>>
    <3>1. in_use[s]
      BY <2>5 DEF MustHang, Registered
    <3> QED
      BY <1>2, <2>2, <2>5, <3>1 DEF SaveOwed
  <2> QED
    BY <1>13, <2>3, <2>4, <2>5 DEF DbSearch, search_user_id, rest
<1>14. ASSUME NEW s \in Slot, DbSave(s)
       PROVE  SaveOwed'
  <2> DEFINE rest == Dequeued("SAVE", s)
  <2>1. Working /\ rest \in [DbEvent -> [Slot -> 0 .. MaxPending]]
    BY <1>1, <1>14, DequeuedType DEF DbSave, TakenEvent
  <2>2. \A r \in Slot \ {s} : rest["SAVE"][r] = db_evts["SAVE"][r]
    BY <1>1, CountsDown
  <2>3. disconnect_client(s, rest, aborts, FALSE)
    BY <1>14 DEF DbSave
  <2> HIDE DEF rest
  <2>4. db_evts' = rest
    BY <2>3 DEF disconnect_client, ToSave
  <2>5. is_dummy' = is_dummy /\ is_login' = [is_login EXCEPT ![s] = FALSE]
    BY <2>3 DEF disconnect_client
  <2>6. CASE stuck' > 0
    BY <2>6 DEF SaveOwed
  <2>7. CASE /\ stuck' = stuck
             /\ \A r \in Slot : in_use'[r] = (r # s /\ in_use[r])
    BY <1>2, <2>2, <2>4, <2>5, <2>7 DEF SaveOwed
  <2> QED
    BY <2>1, <2>3, <2>6, <2>7, DisconnectFrees
<1>15. ASSUME NEW s \in Slot, DbUpdate(s)
       PROVE  SaveOwed'
  <2>1. \A r \in Slot : StillSaved(r)
    BY <1>1, <1>15, CountsDown DEF DbUpdate
  <2> QED
    BY <1>3, <1>15, <2>1 DEF DbUpdate
<1>16. ASSUME NEW s \in Slot, NEW t \in DbEvent, DbIgnored(t, s)
       PROVE  SaveOwed'
  <2>1. \A r \in Slot \ {s} : db_evts'["SAVE"][r] = db_evts["SAVE"][r]
    BY <1>1, <1>16, CountsDown DEF DbIgnored
  <2> QED
    BY <1>2, <1>16, <2>1 DEF DbIgnored, SaveOwed
<1>17. ASSUME NEW s \in Slot, Earn(s)
       PROVE  SaveOwed'
  <2>1. \A r \in Slot : StillSaved(r)
    BY <1>1, <1>17, <1>6 DEF Earn
  <2> QED
    BY <1>3, <1>4, <1>17, <2>1 DEF Earn
<1>18. CASE \/ \E s \in Slot : Leave(s) \/ SendFails(s) \/ \E batch \in Batch : Arrive(s, batch)
            \/ UNCHANGED vars
  BY <1>3, <1>18 DEF Arrive, Leave, SendFails, vars
<1> QED
  BY <1>8, <1>9, <1>10, <1>11, <1>12, <1>13, <1>14, <1>15, <1>16, <1>17, <1>18
     DEF Next, Packets, DbEvents

-----------------------------------------------------------------------------

(* The four facts, inductive together. *)
IInv == TypeOK /\ Named /\ Registered /\ SaveOwed

LEMMA Inductive == Spec => []IInv
<1>1. Init => IInv
  BY DEF Init, IInv, TypeOK, Named, Registered, SaveOwed, DbEvent
<1>2. IInv /\ [Next]_vars => IInv'
  BY TypeStep, NamedStep, RegisteredStep, SaveOwedStep DEF IInv
<1> QED
  BY <1>1, <1>2, PTL DEF Spec

(* The fields of the slots, the connections and the DB keep their types,   *)
(* and no kind of completion is under way more often than MaxPending says. *)
THEOREM TypeCorrect == Spec => []TypeOK
<1>1. IInv => TypeOK
  BY DEF IInv
<1> QED
  BY <1>1, Inductive, PTL

(* do_accept and disconnect_client: a free slot has no open connection and *)
(* a registered slot that is no dummy has one, for any number of slots.    *)
THEOREM SlotsRegistered == Spec => []Registered
<1>1. IInv => Registered
  BY DEF IInv
<1> QED
  BY <1>1, Inductive, PTL

(* disconnect_client and DB_EVT_SAVE: until a worker is lost, no player    *)
(* who was logged in leaves a slot without a save under way.               *)
THEOREM SavesOwed == Spec => []SaveOwed
<1>1. IInv => SaveOwed
  BY DEF IInv
<1> QED
  BY <1>1, Inductive, PTL
=============================================================================
