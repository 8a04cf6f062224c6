--------------------------- MODULE EarlierProofs ---------------------------
(* Proofs, for any number of slots, NPCs and workers, of the type of the   *)
(* state of Earlier, of what makes NPCs unseen, and that an overdue event  *)
(* stays in the timer queue.                                               *)
EXTENDS EarlierProps, TLAPS

Number(b) == IF b THEN 1 ELSE 0

(* No NPC has more than two timers: the one of the boot, and the one of    *)
(* the last wake-up, which sleep stands for while it is to come.           *)
Chains ==
  \A n \in Npc : fresh[n] + late[n] + moves[n] + Number(is_sleeping[n]) <= 2

IInv == TypeOK /\ Chains

(* A clamped step stays in the world. *)
LEMMA SteppedInWorld ==
  ASSUME NEW p \in World, NEW d
  PROVE  Stepped(p, d) \in World
BY WorldAssumption DEF Stepped, World

(* do_recv keeps the types of what it changes. *)
LEMMA RecvType ==
  ASSUME TypeOK, NEW s \in Slot, NEW b, do_recv(s, b), Working
  PROVE  recvs' \in [Slot -> 0 .. MaxPending] /\ stuck' \in 0 .. Workers
BY EarlierAssumption DEF TypeOK, do_recv, Up, Hang, Working

(* A lost worker was there. *)
LEMMA HangType ==
  ASSUME TypeOK, Working, Hang
  PROVE  stuck' \in 0 .. Workers
BY EarlierAssumption DEF TypeOK, Hang, Working

(* disconnect_client keeps the types, whatever its caller has taken. *)
LEMMA DisconnectType ==
  ASSUME TypeOK, NEW s \in Slot, NEW b \in BOOLEAN,
         NEW pending \in [Slot -> 0 .. MaxSaves],
         NEW aborted \in [Slot -> 0 .. MaxPending],
         disconnect_client(s, pending, aborted, b),
         ends' \in [Slot -> 0 .. MaxPending], searches' \in [Slot -> 0 .. MaxPending]
  PROVE  TypeOK'
<1> USE DEF TypeOK
<1>1. /\ is_login_ok' \in [Slot -> BOOLEAN] /\ in_use' \in [Slot -> BOOLEAN]
      /\ open' \in [Slot -> BOOLEAN]
  BY DEF disconnect_client, Release
<1>2. /\ recvs' \in [Slot -> 0 .. MaxPending] /\ aborts' \in [Slot -> 0 .. MaxPending]
      /\ saves' \in [Slot -> 0 .. MaxSaves]
  BY EarlierAssumption, SMTT(30) DEF disconnect_client, Release, AskForSave, Up
<1> QED
  BY <1>1, <1>2 DEF disconnect_client, lists, timers, threads

(* disconnect_client leaves the lists and the timers alone. *)
LEMMA DisconnectFrame ==
  ASSUME NEW s, NEW pending, NEW aborted, NEW b,
         disconnect_client(s, pending, aborted, b)
  PROVE  UNCHANGED lists /\ UNCHANGED timers
BY DEF disconnect_client

(* A wake-up starts a timer for an NPC that slept, and for no other. *)
LEMMA WakeUp ==
  ASSUME IInv, NEW N, wakeup_NPC(N), UNCHANGED late, UNCHANGED moves
  PROVE  /\ fresh' \in [Npc -> 0 .. 2] /\ is_sleeping' \in [Npc -> BOOLEAN]
         /\ Chains'
<1>1. is_sleeping' \in [Npc -> BOOLEAN]
  BY DEF wakeup_NPC
<1>2. ASSUME NEW n \in Npc
      PROVE  /\ fresh'[n] \in 0 .. 2
             /\ fresh'[n] + late[n] + moves[n] + Number(is_sleeping'[n]) <= 2
  <2>1. CASE n \in N /\ is_sleeping[n]
    <3>1. fresh'[n] = fresh[n] + 1 /\ ~ is_sleeping'[n]
      BY <2>1 DEF wakeup_NPC, IInv, TypeOK
    <3> QED
      BY <2>1, <3>1 DEF IInv, TypeOK, Chains, Number
  <2>2. CASE ~ (n \in N /\ is_sleeping[n])
    <3>1. fresh'[n] = fresh[n] /\ is_sleeping'[n] = is_sleeping[n]
      BY <2>2 DEF wakeup_NPC, IInv, TypeOK
    <3> QED
      BY <3>1 DEF IInv, TypeOK, Chains
  <2> QED
    BY <2>1, <2>2
<1>3. fresh' \in [Npc -> 0 .. 2]
  BY <1>2 DEF wakeup_NPC
<1> QED
  BY <1>1, <1>2, <1>3 DEF Chains

(* What the handlers show keeps the types, whatever was not sent. *)
LEMMA ShownType ==
  ASSUME IInv, NEW s \in Slot, NEW erased, NEW entered \in SUBSET Npc, NEW unsent,
         Shown(s, erased, entered, unsent), UNCHANGED late, UNCHANGED moves
  PROVE  /\ npc_viewlist' \in [Slot -> SUBSET Npc]
         /\ npc_screen' \in [Slot -> SUBSET Npc]
         /\ fresh' \in [Npc -> 0 .. 2] /\ is_sleeping' \in [Npc -> BOOLEAN]
         /\ Chains'
<1>1. npc_viewlist' \in [Slot -> SUBSET Npc] /\ npc_screen' \in [Slot -> SUBSET Npc]
  BY DEF Shown, Redrawn, IInv, TypeOK
<1> QED
  BY <1>1, WakeUp DEF Shown

(* So does a handler that is cut short. *)
LEMMA CutShortType ==
  ASSUME IInv, NEW s \in Slot, NEW left, NEW come \in SUBSET Npc,
         CutShort(s, left, come), Working, UNCHANGED late, UNCHANGED moves
  PROVE  /\ npc_viewlist' \in [Slot -> SUBSET Npc]
         /\ npc_screen' \in [Slot -> SUBSET Npc]
         /\ fresh' \in [Npc -> 0 .. 2] /\ is_sleeping' \in [Npc -> BOOLEAN]
         /\ stuck' \in 0 .. Workers
         /\ Chains'
<1>1. stuck' \in 0 .. Workers
  BY HangType DEF CutShort, IInv
<1>2. CASE UNCHANGED <<npc_viewlist, npc_screen, is_sleeping, fresh>>
  BY <1>1, <1>2 DEF IInv, TypeOK, Chains
<1>3. CASE \E erased \in SUBSET left, entered \in SUBSET come : \E n :
             Shown(s, erased, entered, {n})
  <2>1. PICK erased \in SUBSET left, entered \in SUBSET come :
               \E n : Shown(s, erased, entered, {n})
    BY <1>3
  <2> QED
    BY <1>1, <2>1, ShownType
<1> QED
  BY <1>2, <1>3 DEF CutShort

(* Whatever is shown is seen; a handler cut short has lost a worker on a   *)
(* client that has left.                                                   *)
LEMMA ShownSeen ==
  ASSUME TypeOK, NEW t \in Slot, NEW erased, NEW entered, Shown(t, erased, entered, {}),
         NEW s \in Slot
  PROVE  Unseen(s)' \subseteq Unseen(s)
BY DEF Shown, Redrawn, Unseen, TypeOK

LEMMA CutShortSeen ==
  ASSUME TypeOK, NEW t \in Slot, NEW left, NEW come, CutShort(t, left, come),
         NEW s \in Slot
  PROVE  Unseen(s)' \subseteq Unseen(s) \/ (Hang /\ gone[s])
<1>1. CASE UNCHANGED <<npc_viewlist, npc_screen, is_sleeping, fresh>>
  BY <1>1 DEF Unseen
<1>2. CASE open[t] /\ \E erased, entered, n : Shown(t, erased, entered, {n})
  <2>1. Hang /\ gone[t]
    BY <1>2 DEF CutShort, MayFail
  <2>2. s # t => npc_viewlist'[s] = npc_viewlist[s] /\ npc_screen'[s] = npc_screen[s]
    BY <1>2 DEF Shown, TypeOK
  <2> QED
    BY <2>1, <2>2 DEF Unseen
<1> QED
  BY <1>1, <1>2 DEF CutShort

LEMMA TypeStep ==
  ASSUME IInv, [Next]_vars
  PROVE  IInv'
<1> USE DEF IInv
<1>0. ASSUME UNCHANGED timers, TypeOK'
      PROVE  IInv'
  BY <1>0 DEF Chains, timers
<1>1. CASE do_accept
  <2>1. PICK s \in Slot :
          /\ pos' = [pos EXCEPT ![s] = Start]
          /\ npc_screen' = [npc_screen EXCEPT ![s] = {}]
          /\ in_use' = [in_use EXCEPT ![s] = TRUE]
          /\ open' = [open EXCEPT ![s] = TRUE]
          /\ \/ /\ gone' = [gone EXCEPT ![s] = FALSE]
                /\ recvs' = [recvs EXCEPT ![s] = 1]
                /\ UNCHANGED accepting
             \/ /\ gone' = [gone EXCEPT ![s] = TRUE]
                /\ recvs' = [recvs EXCEPT ![s] = 0]
                /\ accepting' = FALSE
          /\ UNCHANGED <<is_login_ok, packet, ends, aborts, searches, saves,
                         npc_viewlist, detects, npc_pos, timers, stuck>>
    BY <1>1 DEF do_accept
  <2>2. /\ in_use' \in [Slot -> BOOLEAN] /\ open' \in [Slot -> BOOLEAN]
        /\ gone' \in [Slot -> BOOLEAN] /\ pos' \in [Slot -> World]
        /\ npc_screen' \in [Slot -> SUBSET Npc]
    BY <2>1, EarlierAssumption DEF TypeOK
  <2>3. recvs' \in [Slot -> 0 .. MaxPending] /\ accepting' \in BOOLEAN
    <3>1. accepting' = accepting \/ accepting' = FALSE
      BY <2>1
    <3>2. recvs' = [recvs EXCEPT ![s] = 1] \/ recvs' = [recvs EXCEPT ![s] = 0]
      BY <2>1
    <3>3. recvs' \in [Slot -> 0 .. MaxPending]
      BY <3>2, EarlierAssumption DEF TypeOK
    <3> QED
      BY <3>1, <3>3 DEF TypeOK
  <2>4. TypeOK'
    BY <2>1, <2>2, <2>3 DEF TypeOK, timers
  <2> QED
    BY <1>0, <2>1, <2>4
<1>2. ASSUME NEW s \in Slot, Arrive(s)
      PROVE  IInv'
  <2>1. recvs' \in [Slot -> 0 .. MaxPending] /\ packet' \in [Slot -> BOOLEAN]
    BY <1>2, EarlierAssumption DEF Arrive, Down, TypeOK
  <2>2. TypeOK' /\ UNCHANGED timers
    BY <1>2, <2>1 DEF Arrive, TypeOK, lists, timers, threads
  <2> QED
    BY <1>0, <2>2
<1>3. ASSUME NEW s \in Slot, Leave(s)
      PROVE  IInv'
  <2>1. /\ recvs' \in [Slot -> 0 .. MaxPending] /\ ends' \in [Slot -> 0 .. MaxPending]
        /\ gone' \in [Slot -> BOOLEAN]
    BY <1>3, EarlierAssumption DEF Leave, Up, Down, TypeOK
  <2>2. TypeOK' /\ UNCHANGED timers
    BY <1>3, <2>1 DEF Leave, TypeOK, lists, timers, threads
  <2> QED
    BY <1>0, <2>2
<1>4. ASSUME NEW s \in Slot, RequestLogin(s)
      PROVE  IInv'
  <2>1. recvs' \in [Slot -> 0 .. MaxPending] /\ stuck' \in 0 .. Workers
    BY <1>4, RecvType DEF RequestLogin, Taken
  <2>2. searches' \in [Slot -> 0 .. MaxPending] /\ packet' \in [Slot -> BOOLEAN]
    BY <1>4, EarlierAssumption DEF RequestLogin, Taken, Up, TypeOK
  <2>3. TypeOK' /\ UNCHANGED timers
    BY <1>4, <2>1, <2>2 DEF RequestLogin, TypeOK, lists, timers
  <2> QED
    BY <1>0, <2>3
<1>5. ASSUME NEW s \in Slot, NEW d \in 0 .. 4, Move(s, d)
      PROVE  IInv'
  <2> DEFINE p == Stepped(pos[s], d)
             new == NpcsAround(p)
             old == npc_viewlist[s]
  <2>1. p \in World /\ new \subseteq Npc
    BY SteppedInWorld DEF TypeOK, NpcsAround
  <2>2. pos' \in [Slot -> World] /\ packet' \in [Slot -> BOOLEAN] /\ Working
    BY <1>5, <2>1 DEF Move, Taken, TypeOK
  <2>3. UNCHANGED late /\ UNCHANGED moves
    BY <1>5 DEF Move
  <2>4. CASE /\ Shown(s, old \ new, new \ old, {})
             /\ detects' = detects \cup (new \X {s})
             /\ do_recv(s, TRUE)
    <3>1. recvs' \in [Slot -> 0 .. MaxPending] /\ stuck' \in 0 .. Workers
      BY <2>2, <2>4, RecvType
    <3>2. detects' \in SUBSET (Npc \X Slot)
      BY <2>1, <2>4 DEF TypeOK
    <3>3. new \ old \in SUBSET Npc
      BY <2>1
    <3> HIDE DEF new, old, p
    <3>4. /\ npc_viewlist' \in [Slot -> SUBSET Npc] /\ npc_screen' \in [Slot -> SUBSET Npc]
          /\ fresh' \in [Npc -> 0 .. 2] /\ is_sleeping' \in [Npc -> BOOLEAN]
          /\ Chains'
      BY <2>3, <2>4, <3>3, ShownType
    <3>5. TypeOK'
      BY <1>5, <2>2, <2>3, <3>1, <3>2, <3>4 DEF Move, TypeOK
    <3> QED
      BY <3>4, <3>5
  <2>5. CASE CutShort(s, old \ new, new \ old) /\ UNCHANGED <<recvs, detects>>
    <3>1. new \ old \in SUBSET Npc
      BY <2>1
    <3> HIDE DEF new, old, p
    <3>2. /\ npc_viewlist' \in [Slot -> SUBSET Npc] /\ npc_screen' \in [Slot -> SUBSET Npc]
          /\ fresh' \in [Npc -> 0 .. 2] /\ is_sleeping' \in [Npc -> BOOLEAN]
          /\ stuck' \in 0 .. Workers
          /\ Chains'
      BY <2>2, <2>3, <2>5, <3>1, CutShortType
    <3>3. TypeOK'
      BY <1>5, <2>2, <2>3, <2>5, <3>2 DEF Move, TypeOK
    <3> QED
      BY <3>2, <3>3
  <2> QED
    BY <1>5, <2>4, <2>5 DEF Move
<1>6. ASSUME NEW s \in Slot, NEW n \in Npc, Detect(n, s)
      PROVE  IInv'
  <2>1. detects' \in SUBSET (Npc \X Slot) /\ stuck' \in 0 .. Workers
    BY <1>6, HangType DEF Detect, TypeOK
  <2>2. TypeOK' /\ UNCHANGED timers
    BY <1>6, <2>1 DEF Detect, TypeOK, session, timers
  <2> QED
    BY <1>0, <2>2
<1>7. ASSUME NEW s \in Slot, TakeEof(s)
      PROVE  IInv'
  <2>1. stuck' \in 0 .. Workers
    BY <1>7, HangType, RecvType DEF TakeEof
  <2>2. recvs' \in [Slot -> 0 .. MaxPending]
    BY <1>7, RecvType, EarlierAssumption DEF TakeEof, TypeOK
  <2>3. /\ ends' \in [Slot -> 0 .. MaxPending] /\ saves' \in [Slot -> 0 .. MaxSaves]
        /\ aborts' \in [Slot -> 0 .. MaxPending]
    BY <1>7, EarlierAssumption DEF TakeEof, AskForSave, Release, Up, Down, TypeOK
  <2>4. in_use' \in [Slot -> BOOLEAN] /\ open' \in [Slot -> BOOLEAN]
    BY <1>7 DEF TakeEof, Release, TypeOK
  <2>5. TypeOK' /\ UNCHANGED timers
    BY <1>7, <2>1, <2>2, <2>3, <2>4 DEF TakeEof, TypeOK, lists, timers
  <2> QED
    BY <1>0, <2>5
<1>8. ASSUME NEW s \in Slot, TakeReset(s)
      PROVE  IInv'
  <2>1. ends' \in [Slot -> 0 .. MaxPending] /\ searches' \in [Slot -> 0 .. MaxPending]
    BY <1>8, EarlierAssumption DEF TakeReset, Down, TypeOK
  <2>2. TypeOK'
    BY <1>8, <2>1, DisconnectType DEF TakeReset, TypeOK
  <2> QED
    BY <1>0, <1>8, <2>2, DisconnectFrame DEF TakeReset
<1>9. ASSUME NEW s \in Slot, TakeAbort(s)
      PROVE  IInv'
  <2> DEFINE aborted == Down(aborts, s)
  <2>1. aborted \in [Slot -> 0 .. MaxPending]
    BY <1>9, EarlierAssumption DEF TakeAbort, Down, TypeOK
  <2>2. CASE disconnect_client(s, saves, aborted, is_login_ok[s]) /\ UNCHANGED <<ends, searches>>
    <3>1. TypeOK'
      BY <2>1, <2>2, DisconnectType DEF TypeOK
    <3> QED
      BY <1>0, <2>2, <3>1, DisconnectFrame
  <2>3. CASE /\ aborts' = aborted
             /\ Hang
             /\ UNCHANGED <<in_use, is_login_ok, open, gone, recvs, packet, ends,
                            searches, saves, pos, lists, npc_pos, timers, accepting>>
    <3>1. stuck' \in 0 .. Workers
      BY <1>9, <2>3, HangType DEF TakeAbort
    <3>2. TypeOK'
      BY <2>1, <2>3, <3>1 DEF TypeOK, lists, timers
    <3> QED
      BY <1>0, <2>3, <3>2
  <2> QED
    BY <1>9, <2>2, <2>3 DEF TakeAbort
<1>10. ASSUME NEW s \in Slot, LoggedIn(s)
       PROVE  IInv'
  <2> DEFINE npcs == NpcsAround(pos'[s])
  <2>1. npcs \subseteq Npc
    BY DEF NpcsAround
  <2>2. /\ is_login_ok' \in [Slot -> BOOLEAN]
        /\ searches' \in [Slot -> 0 .. MaxPending] /\ Working
    <3>1. /\ Working /\ searches[s] > 0 /\ searches' = Down(searches, s)
          /\ is_login_ok' = [is_login_ok EXCEPT ![s] = TRUE] \/ UNCHANGED is_login_ok
      BY <1>10 DEF LoggedIn
    <3>2. is_login_ok' \in [Slot -> BOOLEAN]
      BY <3>1 DEF TypeOK
    <3>3. searches' \in [Slot -> 0 .. MaxPending]
      BY <3>1, EarlierAssumption DEF Down, TypeOK
    <3> QED
      BY <3>1, <3>2, <3>3
  <2>5. pos' \in [Slot -> World]
    <3>1. pos' = pos \/ \E p \in World : pos' = [pos EXCEPT ![s] = p]
      BY <1>10 DEF LoggedIn
    <3> QED
      BY <3>1 DEF TypeOK
  <2>6. UNCHANGED late /\ UNCHANGED moves
    BY <1>10 DEF LoggedIn
  <2>3. /\ npc_viewlist' \in [Slot -> SUBSET Npc] /\ npc_screen' \in [Slot -> SUBSET Npc]
        /\ fresh' \in [Npc -> 0 .. 2] /\ is_sleeping' \in [Npc -> BOOLEAN]
        /\ stuck' \in 0 .. Workers
        /\ Chains'
    <3>1. npcs \in SUBSET Npc
      BY <2>1
    <3>2. \/ Shown(s, {}, npcs, {}) /\ UNCHANGED stuck
          \/ CutShort(s, {}, npcs)
      BY <1>10 DEF LoggedIn
    <3> HIDE DEF npcs
    <3>3. CASE Shown(s, {}, npcs, {}) /\ UNCHANGED stuck
      BY <2>6, <3>1, <3>3, ShownType DEF TypeOK
    <3>4. CASE CutShort(s, {}, npcs)
      BY <2>2, <2>6, <3>1, <3>4, CutShortType
    <3> QED
      BY <3>2, <3>3, <3>4
  <2>4. TypeOK'
    BY <1>10, <2>2, <2>3, <2>5, <2>6 DEF LoggedIn, TypeOK
  <2> QED
    BY <2>3, <2>4
<1>11. ASSUME NEW s \in Slot, Refused(s)
       PROVE  IInv'
  <2>1. searches' \in [Slot -> 0 .. MaxPending] /\ ends' \in [Slot -> 0 .. MaxPending]
    BY <1>11, EarlierAssumption DEF Refused, Down, TypeOK
  <2>2. TypeOK'
    BY <1>11, <2>1, DisconnectType DEF Refused, TypeOK
  <2> QED
    BY <1>0, <1>11, <2>2, DisconnectFrame DEF Refused
<1>12. ASSUME NEW s \in Slot, DbSave(s)
       PROVE  IInv'
  <2>1. Down(saves, s) \in [Slot -> 0 .. MaxSaves]
    BY <1>12, EarlierAssumption DEF DbSave, Down, TypeOK
  <2>2. TypeOK'
    BY <1>12, <2>1, DisconnectType DEF DbSave, LoggedInAfterSave, TypeOK
  <2> QED
    BY <1>0, <1>12, <2>2, DisconnectFrame DEF DbSave
<1>13. ASSUME NEW n \in Npc, Sleep(n)
       PROVE  IInv'
  <2>1. moves' \in [Npc -> 0 .. 2] /\ is_sleeping' \in [Npc -> BOOLEAN]
    BY <1>13 DEF Sleep, Down, TypeOK
  <2>2. TypeOK'
    BY <1>13, <2>1 DEF Sleep, TypeOK, session, lists, threads
  <2>3. Chains'
    BY <1>13 DEF Sleep, Down, TypeOK, Chains, Number
  <2> QED
    BY <2>2, <2>3
<1>14. ASSUME NEW n \in Npc, NEW d \in 0 .. 3, move_npc(n, d)
       PROVE  IInv'
  <2>1. npc_pos' \in [Npc -> World]
    BY <1>14, SteppedInWorld DEF move_npc, TypeOK
  <2>2. npc_viewlist' \in [Slot -> SUBSET Npc] /\ npc_screen' \in [Slot -> SUBSET Npc]
    <3>1. ASSUME NEW f \in [Slot -> SUBSET Npc], NEW met, NEW parted
          PROVE  Informed(f, n, met, parted) \in [Slot -> SUBSET Npc]
      BY DEF Informed
    <3>2. /\ \E met, parted : npc_viewlist' = Informed(npc_viewlist, n, met, parted)
          /\ \E met, parted : npc_screen' = Informed(npc_screen, n, met, parted)
      BY <1>14 DEF move_npc
    <3> QED
      BY <3>1, <3>2 DEF TypeOK
  <2>3. stuck' \in 0 .. Workers
    BY <1>14, HangType DEF move_npc, TypeOK
  <2>4. UNCHANGED <<session, pos, detects, is_sleeping, late, accepting>>
    BY <1>14 DEF move_npc
  <2>5. /\ moves[n] > 0
        /\ moves' = Down(moves, n)
        /\ fresh' = Up(fresh, n) \/ fresh' = fresh
    BY <1>14 DEF move_npc
  <2>6. /\ fresh' \in [Npc -> 0 .. 2] /\ moves' \in [Npc -> 0 .. 2]
        /\ Chains'
    <3>1. \A m \in Npc : Number(is_sleeping[m]) \in 0 .. 1
      BY DEF Number
    <3> QED
      BY <2>4, <2>5, <3>1 DEF Up, Down, TypeOK, Chains
  <2>7. TypeOK'
    BY <2>1, <2>2, <2>3, <2>4, <2>6 DEF TypeOK, session
  <2> QED
    BY <2>6, <2>7
<1>15. ASSUME NEW n \in Npc, do_timer(n) \/ TimePasses(n)
       PROVE  IInv'
  <2>1. \A m \in Npc : Number(is_sleeping[m]) \in 0 .. 1
    BY DEF Number
  <2>2. /\ UNCHANGED is_sleeping
        /\ \/ fresh[n] > 0 /\ fresh' = Down(fresh, n) /\ moves' = Up(moves, n) /\ UNCHANGED late
           \/ late[n] > 0 /\ late' = Down(late, n) /\ moves' = Up(moves, n) /\ UNCHANGED fresh
           \/ fresh[n] > 0 /\ fresh' = Down(fresh, n) /\ late' = Up(late, n) /\ UNCHANGED moves
    BY <1>15 DEF do_timer, TimePasses, Posts, TypeOK
  <2>3. /\ fresh' \in [Npc -> 0 .. 2] /\ late' \in [Npc -> 0 .. 2]
        /\ moves' \in [Npc -> 0 .. 2]
        /\ Chains'
    BY <2>1, <2>2, SMTT(30) DEF Up, Down, TypeOK, Chains
  <2>4. TypeOK'
    BY <1>15, <2>3 DEF do_timer, TimePasses, TypeOK, session, lists, threads
  <2> QED
    BY <2>3, <2>4
<1>16. CASE UNCHANGED vars
  BY <1>16 DEF vars, session, lists, timers, threads, TypeOK, Chains
<1> QED
  BY <1>1, <1>2, <1>3, <1>4, <1>5, <1>6, <1>7, <1>8, <1>9, <1>10, <1>11, <1>12,
     <1>13, <1>14, <1>15, <1>16 DEF Next, Packets, Ends, DbSearch

-----------------------------------------------------------------------------

(* The type invariant, with the bound on the timers of an NPC. *)
THEOREM EarlierInductive == Spec => []IInv
<1>1. Init => IInv
  BY EarlierAssumption DEF Init, IInv, TypeOK, Chains, Number
<1>2. IInv /\ [Next]_vars => IInv'
  BY TypeStep
<1> QED
  BY <1>1, <1>2, PTL DEF Spec

(* The variables have their types, in particular no NPC ever has more than *)
(* two timers, although nothing in the code counts them.                   *)
THEOREM EarlierTypeCorrect == Spec => []TypeOK
<1>1. IInv => TypeOK
  BY DEF IInv
<1> QED
  BY <1>1, EarlierInductive, PTL

(* Whatever handler enters an NPC in a list shows it to the client, unless *)
(* it is lost on that packet, the client having left: else only the reuse  *)
(* of a slot makes a listed NPC unseen.                                    *)
THEOREM UnseenByReuse == Spec => UnseenOnlyByReuse
<1>1. IInv /\ [Next]_vars => [UnseenStep]_vars
  <2> SUFFICES ASSUME IInv, Next
               PROVE  UnseenStep
    OBVIOUS
  <2> SUFFICES ASSUME NEW s \in Slot, ~ (do_accept /\ ~ in_use[s])
               PROVE  Unseen(s)' \subseteq Unseen(s) \/ (Hang /\ gone[s])
    BY DEF UnseenStep
  <2> USE DEF IInv
  <2>1. CASE do_accept
    BY <2>1 DEF do_accept, Unseen, TypeOK
  <2>2. ASSUME UNCHANGED npc_viewlist, UNCHANGED npc_screen
        PROVE  Unseen(s)' \subseteq Unseen(s)
    BY <2>2 DEF Unseen
  <2>3. ASSUME NEW t \in Slot, NEW d \in 0 .. 4, Move(t, d)
        PROVE  Unseen(s)' \subseteq Unseen(s) \/ (Hang /\ gone[s])
    <3>1. PICK left, come : Shown(t, left, come, {}) \/ CutShort(t, left, come)
      BY <2>3 DEF Move
    <3> QED
      BY <3>1, ShownSeen, CutShortSeen
  <2>4. ASSUME NEW t \in Slot, LoggedIn(t)
        PROVE  Unseen(s)' \subseteq Unseen(s) \/ (Hang /\ gone[s])
    <3>1. PICK come : Shown(t, {}, come, {}) \/ CutShort(t, {}, come)
      BY <2>4 DEF LoggedIn
    <3> QED
      BY <3>1, ShownSeen, CutShortSeen
  <2>5. ASSUME NEW n \in Npc, NEW d \in 0 .. 3, move_npc(n, d)
        PROVE  Unseen(s)' \subseteq Unseen(s) \/ (Hang /\ gone[s])
    <3>1. CASE \E met, parted :
                 /\ npc_viewlist' = Informed(npc_viewlist, n, met, parted)
                 /\ npc_screen' = Informed(npc_screen, n, met, parted)
      BY <3>1 DEF Informed, Unseen, TypeOK
    <3>2. CASE Hang /\ \E met, parted, i :
                 /\ gone[i]
                 /\ npc_viewlist' = Informed(npc_viewlist, n, met, parted)
                 /\ npc_screen' = Informed(npc_screen, n, met \ {i}, parted \ {i})
      <4>1. PICK met, parted, i :
                   /\ gone[i]
                   /\ npc_viewlist' = Informed(npc_viewlist, n, met, parted)
                   /\ npc_screen' = Informed(npc_screen, n, met \ {i}, parted \ {i})
        BY <3>2
      <4>2. CASE s = i
        BY <3>2, <4>1, <4>2
      <4>3. CASE s # i
        BY <4>1, <4>3 DEF Informed, Unseen, TypeOK
      <4> QED
        BY <4>2, <4>3
    <3> QED
      BY <2>5, <3>1, <3>2 DEF move_npc
  <2>6. ASSUME NEW t \in Slot,
               \/ Arrive(t) \/ Leave(t) \/ RequestLogin(t) \/ TakeEof(t)
               \/ TakeReset(t) \/ TakeAbort(t) \/ Refused(t) \/ DbSave(t)
               \/ \E n \in Npc : Detect(n, t)
        PROVE  UNCHANGED npc_viewlist /\ UNCHANGED npc_screen
    BY <2>6, DisconnectFrame
       DEF Arrive, Leave, RequestLogin, TakeEof, TakeReset, TakeAbort, Refused,
           DbSave, Detect, lists
  <2>7. ASSUME NEW n \in Npc, Sleep(n) \/ do_timer(n) \/ TimePasses(n)
        PROVE  UNCHANGED npc_viewlist /\ UNCHANGED npc_screen
    BY <2>7 DEF Sleep, do_timer, TimePasses, lists
  <2> QED
    BY <2>1, <2>2, <2>3, <2>4, <2>5, <2>6, <2>7 DEF Next, Packets, Ends, DbSearch
<1> QED
  BY <1>1, EarlierInductive, PTL DEF UnseenOnlyByReuse, Spec

(* The timer thread never gets past an overdue event: the safety half of   *)
(* Standstill.                                                             *)
THEOREM OverdueForGood == Spec => [][Overdue => Overdue']_vars
<1>1. IInv /\ [Next]_vars => [Overdue => Overdue']_vars
  <2> SUFFICES ASSUME IInv, Next, Overdue
               PROVE  Overdue'
    OBVIOUS
  <2> USE DEF Overdue
  <2>1. ASSUME UNCHANGED late
        PROVE  Overdue'
    BY <2>1
  <2>2. CASE do_accept
    BY <2>1, <2>2 DEF do_accept, timers
  <2>3. ASSUME NEW s \in Slot,
               \/ Arrive(s) \/ Leave(s) \/ Packets(s) \/ TakeEof(s)
               \/ LoggedIn(s) \/ \E n \in Npc : Detect(n, s)
        PROVE  UNCHANGED late
    BY <2>3 DEF Arrive, Leave, Packets, RequestLogin, Move, TakeEof, LoggedIn,
                Detect, timers
  <2>4. ASSUME NEW s \in Slot,
               TakeReset(s) \/ TakeAbort(s) \/ Refused(s) \/ DbSave(s)
        PROVE  UNCHANGED late
    BY <2>4, DisconnectFrame DEF TakeReset, TakeAbort, Refused, DbSave, timers
  <2>5. ASSUME NEW n \in Npc, Sleep(n) \/ \E d \in 0 .. 3 : move_npc(n, d)
        PROVE  UNCHANGED late
    BY <2>5 DEF Sleep, move_npc
  <2>6. ASSUME NEW n \in Npc, do_timer(n)
        PROVE  Overdue'
    BY <2>6 DEF do_timer, Posts, IInv, TypeOK
  <2>7. ASSUME NEW n \in Npc, TimePasses(n)
        PROVE  Overdue'
    BY <2>7 DEF TimePasses, Up, IInv, TypeOK
  <2> QED
    BY <2>1, <2>2, <2>3, <2>4, <2>5, <2>6, <2>7 DEF Next, Ends, DbSearch
<1> QED
  BY <1>1, EarlierInductive, PTL DEF Spec
=============================================================================
