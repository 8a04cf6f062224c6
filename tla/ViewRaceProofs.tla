--------------------------- MODULE ViewRaceProofs ---------------------------
(***************************************************************************)
(* Healing, clearing and no stall, for any number of slots, NPCs and       *)
(* workers, any world, and any interleaving of the threads.                *)
(***************************************************************************)
EXTENDS ViewRaceProps, SequenceTheorems, FiniteSetTheorems, TLAPS

\* What is left of the program of a handler, as a set.
Pending(w) == Range(todo[w])

Asks(w, op, i, o) == Op(op, i, o) \in Pending(w)

-----------------------------------------------------------------------------
(* Programs. *)

(* The loop over the other slots. *)
LEMMA OthersProgram ==
  ASSUME NEW s \in Slot
  PROVE  /\ Others(s) \in Seq(Slot \ {s})
         /\ \A i : i \in Range(Others(s)) <=> i \in Slot \ {s}
<1>1. Others(s) \in [1 .. MAX_USER - 1 -> Slot \ {s}]
  BY SizeAssumption DEF Others, Slot
<1>2. Others(s) \in Seq(Slot \ {s})
  BY <1>1, SizeAssumption
<1>3. ASSUME NEW i \in Slot \ {s}
      PROVE  i \in Range(Others(s))
  <2>1. CASE i < s
    <3>1. i + 1 \in 1 .. MAX_USER - 1 /\ Others(s)[i + 1] = i
      BY <2>1, SizeAssumption DEF Others, Slot
    <3> QED
      BY <1>1, <3>1 DEF Range
  <2>2. CASE i > s
    <3>1. i \in 1 .. MAX_USER - 1 /\ Others(s)[i] = i
      BY <2>2, SizeAssumption DEF Others, Slot
    <3> QED
      BY <1>1, <3>1 DEF Range
  <2> QED
    BY <2>1, <2>2 DEF Slot
<1> QED
  BY <1>1, <1>2, <1>3 DEF Range

LEMMA SlotsProgram == Slots \in Seq(Slot) /\ \A i : i \in Range(Slots) <=> i \in Slot
<1>1. Slots \in [1 .. MAX_USER -> Slot]
  BY SizeAssumption DEF Slots, Slot
<1>2. ASSUME NEW i \in Slot
      PROVE  i \in Range(Slots)
  <2>1. i + 1 \in 1 .. MAX_USER /\ Slots[i + 1] = i
    BY SizeAssumption DEF Slots, Slot
  <2> QED
    BY <1>1, <2>1 DEF Range
<1> QED
  BY <1>1, <1>2, SizeAssumption DEF Range

(* The loop over the NPCs. *)
LEMMA NpcsProgram == Npcs \in Seq(Npc) /\ \A n : n \in Range(Npcs) <=> n \in Npc
<1>1. Cardinality(Npc) \in Nat /\ IsFiniteSet(Npc) /\ ExistsBijection(1 .. Cardinality(Npc), Npc)
  BY FS_CardinalityType, SizeAssumption
<1>2. Npcs \in [1 .. Cardinality(Npc) -> Npc] /\ IsInjective(Npcs)
  BY <1>1 DEF Npcs, SetToSeq, ExistsBijection, Bijection, Injection, Surjection, IsInjective
<1>3. Npcs \in Injection(1 .. Cardinality(Npc), Npc)
  BY <1>2 DEF Injection, IsInjective
<1>4. Cardinality(1 .. Cardinality(Npc)) = Cardinality(Npc)
  BY <1>1, FS_Interval
<1>5. Npcs \in Surjection(1 .. Cardinality(Npc), Npc)
  BY <1>1, <1>3, <1>4, FS_Injection
<1> QED
  BY <1>1, <1>2, <1>5 DEF Surjection, Range

(* A loop over a set, in any order. *)
LEMMA AnyOrder ==
  ASSUME NEW S, IsFiniteSet(S), NEW q \in SetToSeqs(S)
  PROVE  q \in Seq(S) /\ Range(q) = S
<1> DEFINE D == 1 .. Cardinality(S)
<1>1. Cardinality(S) \in Nat
  BY FS_CardinalityType
<1>2. q \in [D -> S] /\ \A i, j \in D : i # j => q[i] # q[j]
  BY DEF SetToSeqs
<1>3. q \in Injection(D, S)
  BY <1>2 DEF Injection, IsInjective
<1>4. Cardinality(D) = Cardinality(S)
  BY <1>1, FS_Interval
<1>5. q \in Surjection(D, S)
  BY <1>3, <1>4, FS_Injection
<1> QED
  BY <1>1, <1>2, <1>5 DEF Surjection, Range

(* A loop puts one operation per element into the program. *)
LEMMA LoopRange ==
  ASSUME NEW q, NEW op, NEW x
  PROVE  /\ \A c : c \in Range(OnEach(op, q, x)) <=> \E i \in Range(q) : c = Op(op, i, x)
         /\ \A c : c \in Range(AboutEach(op, x, q)) <=> \E o \in Range(q) : c = Op(op, x, o)
BY DEF OnEach, AboutEach, Range

LEMMA LoopType ==
  ASSUME NEW S, NEW q \in Seq(S), NEW op, NEW x
  PROVE  /\ (\A i \in S : Op(op, i, x) \in Operation) => OnEach(op, q, x) \in Seq(Operation)
         /\ (\A o \in S : Op(op, x, o) \in Operation) => AboutEach(op, x, q) \in Seq(Operation)
<1>1. q \in [1 .. Len(q) -> S] /\ Len(q) \in Nat
  BY LenProperties
<1> QED
  BY <1>1 DEF OnEach, AboutEach

LEMMA OthersLoop ==
  ASSUME NEW s \in Slot, NEW op, NEW x
  PROVE  /\ \A c : c \in Range(OnEach(op, Others(s), x)) <=>
              \E i \in Slot \ {s} : c = Op(op, i, x)
         /\ \A c : c \in Range(AboutEach(op, x, Others(s))) <=>
              \E i \in Slot \ {s} : c = Op(op, x, i)
         /\ (\A i \in Slot \ {s} : Op(op, i, x) \in Operation)
              => OnEach(op, Others(s), x) \in Seq(Operation)
         /\ (\A o \in Slot \ {s} : Op(op, x, o) \in Operation)
              => AboutEach(op, x, Others(s)) \in Seq(Operation)
<1>1. \A i : i \in Range(Others(s)) <=> i \in Slot \ {s}
  BY OthersProgram
<1>2. /\ \A c : c \in Range(OnEach(op, Others(s), x)) <=>
           \E i \in Range(Others(s)) : c = Op(op, i, x)
      /\ \A c : c \in Range(AboutEach(op, x, Others(s))) <=>
           \E i \in Range(Others(s)) : c = Op(op, x, i)
  BY LoopRange
<1>3. Others(s) \in Seq(Slot \ {s})
  BY OthersProgram
<1>4. /\ (\A i \in Slot \ {s} : Op(op, i, x) \in Operation)
           => OnEach(op, Others(s), x) \in Seq(Operation)
      /\ (\A o \in Slot \ {s} : Op(op, x, o) \in Operation)
           => AboutEach(op, x, Others(s)) \in Seq(Operation)
  BY <1>3, LoopType
<1> QED
  BY <1>1, <1>2, <1>4

(* One piece of a program after the other. *)
LEMMA Joint ==
  ASSUME NEW p \in Seq(Operation), NEW q \in Seq(Operation)
  PROVE  /\ p \o q \in Seq(Operation)
         /\ \A c : c \in Range(p \o q) <=> c \in Range(p) \/ c \in Range(q)
<1>1. Range(p \o q) = Range(p) \cup Range(q)
  BY RangeConcatenation
<1> QED
  BY <1>1, ConcatProperties

LEMMA Ops ==
  /\ \A i \in Slot, o \in Id :
       /\ Op("chat", i, o) \in Operation
       /\ Op("drop", i, o) \in Operation
       /\ Op("erase", i, o) \in Operation
       /\ Op("tell", i, o) \in Operation
       /\ Op("put", i, o) \in Operation
       /\ Op("remove", i, o) \in Operation
       /\ Op("leave", i, o) \in Operation
       /\ Op("forget", i, o) \in Operation
       /\ Op("lose", i, o) \in Operation
       /\ Op("before", i, o) \in Operation
       /\ Op("after", i, o) \in Operation
       /\ Op("close", i, o) \in Operation
       /\ Op("free", i, o) \in Operation
       /\ Op("clear", i, o) \in Operation
       /\ Op("socket", i, o) \in Operation
       /\ Op("use", i, o) \in Operation
       /\ Op("recv", i, o) \in Operation
       /\ Op("mourn", i, o) \in Operation
       /\ Op("revive", i, o) \in Operation
       /\ Op("plan", i, o) \in Operation
       /\ Op("hung", i, o) \in Operation
  /\ \A i \in Slot, o \in Id : i # o =>
       /\ Op("scan", i, o) \in Operation
       /\ Op("notice", i, o) \in Operation
       /\ Op("see", i, o) \in Operation
       /\ Op("meet", i, o) \in Operation
  /\ \A i \in Slot, o \in Slot : i # o =>
       /\ Op("show", i, o) \in Operation
       /\ Op("find", i, o) \in Operation
       /\ Op("greet", i, o) \in Operation
  /\ \A i \in Slot, o \in Slot : Op("part", i, o) \in Operation
  /\ \A i \in Id, o \in World : Op("step", i, o) \in Operation
  /\ \A n \in Npc : Op("npc_plan", n, n) \in Operation
BY DEF Op, Operation, Kind, Inserting, Id

LEMMA ChatsType ==
  ASSUME NEW o \in Id
  PROVE  /\ Chats(o) \in Seq(Operation)
         /\ \A c : c \in Range(Chats(o)) <=> \E i \in Slot : c = Op("chat", i, o)
<1>1. \A i \in Slot : Op("chat", i, o) \in Operation
  BY Ops
<1> QED
  BY <1>1, SlotsProgram, LoopType, LoopRange DEF Chats

LEMMA NoticesType ==
  ASSUME NEW s \in Slot
  PROVE  /\ Notices(s) \in Seq(Operation)
         /\ \A c : c \in Range(Notices(s)) <=> \E n \in Npc : c = Op("notice", s, n)
<1>1. \A n \in Npc : Op("notice", s, n) \in Operation
  BY Ops, IdAssumption DEF Id
<1> QED
  BY <1>1, NpcsProgram, LoopType, LoopRange DEF Notices

LEMMA ShowsType ==
  ASSUME NEW s \in Slot
  PROVE  /\ Shows(s) \in Seq(Operation)
         /\ \A c : c \in Range(Shows(s)) <=> \E i \in Slot \ {s} : c = Op("show", i, s)
<1>1. \A i \in Slot \ {s} : Op("show", i, s) \in Operation
  BY Ops DEF Id
<1> QED
  BY <1>1, OthersLoop DEF Shows

LEMMA IntroductionsType ==
  ASSUME NEW s \in Slot
  PROVE  /\ Introductions(s) \in Seq(Operation)
         /\ \A c : c \in Range(Introductions(s)) <=>
              \/ \E i \in Slot \ {s} : c = Op("show", i, s)
              \/ \E i \in Slot \ {s} : c = Op("find", s, i)
              \/ \E n \in Npc : c = Op("notice", s, n)
<1> DEFINE finds == AboutEach("find", s, Others(s))
<1>1. /\ finds \in Seq(Operation)
      /\ \A c : c \in Range(finds) <=> \E i \in Slot \ {s} : c = Op("find", s, i)
  <2>1. \A i \in Slot \ {s} : Op("find", s, i) \in Operation
    BY Ops DEF Id
  <2> QED
    BY <2>1, OthersLoop
<1> HIDE DEF finds
<1>2. Introductions(s) = Shows(s) \o finds \o Notices(s)
  BY DEF Introductions, finds
<1>3. Shows(s) \in Seq(Operation) /\ Notices(s) \in Seq(Operation)
  BY ShowsType, NoticesType
<1>4. /\ Shows(s) \o finds \in Seq(Operation)
      /\ \A c : c \in Range(Shows(s) \o finds) <=>
           c \in Range(Shows(s)) \/ c \in Range(finds)
  BY <1>1, <1>3, Joint
<1>5. /\ Introductions(s) \in Seq(Operation)
      /\ \A c : c \in Range(Introductions(s)) <=>
           c \in Range(Shows(s) \o finds) \/ c \in Range(Notices(s))
  BY <1>2, <1>3, <1>4, Joint
<1>6. /\ \A c : c \in Range(Shows(s)) <=> \E i \in Slot \ {s} : c = Op("show", i, s)
      /\ \A c : c \in Range(Notices(s)) <=> \E n \in Npc : c = Op("notice", s, n)
  BY ShowsType, NoticesType
<1> QED
  BY <1>1, <1>4, <1>5, <1>6, Zenon

LEMMA TeardownType ==
  ASSUME NEW s \in Slot
  PROVE  /\ Teardown(s) \in Seq(Operation)
         /\ \A c : c \in Range(Teardown(s)) <=>
              \/ \E i \in Slot \ {s} : c = Op("leave", i, s)
              \/ c \in {Op("close", s, s), Op("free", s, s), Op("clear", s, s)}
<1> DEFINE leaves == OnEach("leave", Others(s), s)
           ends == <<Op("close", s, s), Op("free", s, s), Op("clear", s, s)>>
<1>1. s \in Id
  BY DEF Id
<1>2. /\ leaves \in Seq(Operation)
      /\ \A c : c \in Range(leaves) <=> \E i \in Slot \ {s} : c = Op("leave", i, s)
  <2>1. \A i \in Slot \ {s} : Op("leave", i, s) \in Operation
    BY <1>1, Ops
  <2> QED
    BY <2>1, OthersLoop
<1>3. ends \in Seq(Operation)
  BY <1>1, Ops
<1>4. Range(ends) = {Op("close", s, s), Op("free", s, s), Op("clear", s, s)}
  BY DEF Range
<1> HIDE DEF leaves, ends
<1>5. Teardown(s) = leaves \o ends
  BY DEF Teardown, leaves, ends
<1>6. /\ Teardown(s) \in Seq(Operation)
      /\ Range(Teardown(s)) = Range(leaves) \cup Range(ends)
  BY <1>2, <1>3, <1>5, RangeConcatenation, ConcatProperties
<1> QED
  BY <1>2, <1>4, <1>6

LEMMA AdmissionType ==
  ASSUME NEW s \in Slot
  PROVE  /\ Admission(s) \in Seq(Operation)
         /\ Range(Admission(s)) =
              {Op("socket", s, s), Op("clear", s, s), Op("use", s, s), Op("recv", s, s)}
<1>1. Admission(s) \in Seq(Operation)
  BY Ops DEF Admission, Id
<1> QED
  BY <1>1 DEF Admission, Range

(* The first operation and the rest. *)
LEMMA Queue ==
  ASSUME NEW q \in Seq(Operation), q # <<>>
  PROVE  /\ Head(q) \in Operation
         /\ Tail(q) \in Seq(Operation)
         /\ \A c : c \in Range(q) <=> c = Head(q) \/ c \in Range(Tail(q))
<1>1. Len(q) \in Nat \ {0} /\ DOMAIN q = 1 .. Len(q) /\ Head(q) = q[1]
  BY LenProperties, EmptySeq
<1>2. /\ Head(q) \in Operation
      /\ Tail(q) \in Seq(Operation)
      /\ Len(Tail(q)) = Len(q) - 1
      /\ \A k \in 1 .. Len(Tail(q)) : Tail(q)[k] = q[k + 1]
  BY HeadTailProperties
<1>3. DOMAIN Tail(q) = 1 .. Len(q) - 1
  BY <1>2, LenProperties
<1>4. ASSUME NEW c \in Range(q)
      PROVE  c = Head(q) \/ c \in Range(Tail(q))
  <2>1. PICK k \in 1 .. Len(q) : c = q[k]
    BY <1>1 DEF Range
  <2>2. CASE k = 1
    BY <1>1, <2>1, <2>2
  <2>3. CASE k # 1
    <3>1. k - 1 \in 1 .. Len(q) - 1 /\ Tail(q)[k - 1] = c
      BY <1>1, <1>2, <2>1, <2>3
    <3> QED
      BY <1>3, <3>1 DEF Range
  <2> QED
    BY <2>2, <2>3
<1>5. Head(q) \in Range(q)
  BY <1>1 DEF Range
<1>6. ASSUME NEW c \in Range(Tail(q))
      PROVE  c \in Range(q)
  <2>1. PICK k \in 1 .. Len(q) - 1 : c = Tail(q)[k]
    BY <1>3 DEF Range
  <2>2. k + 1 \in 1 .. Len(q) /\ q[k + 1] = c
    BY <1>1, <1>2, <2>1
  <2> QED
    BY <1>1, <2>2 DEF Range
<1> QED
  BY <1>2, <1>4, <1>5, <1>6

(* The program of CS_MOVE *)
LEMMA MoveType ==
  ASSUME NEW s \in Slot, NEW p \in World
  PROVE  LET q == <<Op("step", s, p)>> \o AboutEach("scan", s, Others(s) \o Npcs)
                    \o <<Op("plan", s, s)>>
         IN  /\ q \in Seq(Operation)
             /\ \A c : c \in Range(q) <=>
                  \/ c = Op("step", s, p)
                  \/ \E x \in Id \ {s} : c = Op("scan", s, x)
                  \/ c = Op("plan", s, s)
<1> DEFINE scanned == Others(s) \o Npcs
           scans == AboutEach("scan", s, scanned)
           first == <<Op("step", s, p)>>
           last == <<Op("plan", s, s)>>
<1>1. s \in Id /\ s \notin Npc
  BY IdAssumption DEF Id
<1>2. Others(s) \in Seq(Id \ {s}) /\ Npcs \in Seq(Id \ {s})
  <2>1. Slot \ {s} \subseteq Id \ {s} /\ Npc \subseteq Id \ {s}
    BY <1>1 DEF Id
  <2> QED
    BY <2>1, OthersProgram, NpcsProgram, SeqMonotonic
<1>3. scanned \in Seq(Id \ {s}) /\ Range(scanned) = Range(Others(s)) \cup Range(Npcs)
  BY <1>2, ConcatProperties, RangeConcatenation
<1>4. \A x : x \in Range(scanned) <=> x \in Id \ {s}
  BY <1>1, <1>3, OthersProgram, NpcsProgram DEF Id
<1>5. \A x \in Id \ {s} : Op("scan", s, x) \in Operation
  BY Ops
<1> HIDE DEF scanned
<1>6. scans \in Seq(Operation)
  BY <1>3, <1>5, LoopType
<1>7. \A c : c \in Range(scans) <=> \E x \in Range(scanned) : c = Op("scan", s, x)
  BY LoopRange
<1>8. Op("step", s, p) \in Operation /\ Op("plan", s, s) \in Operation
  BY <1>1, Ops
<1>9. first \in Seq(Operation) /\ last \in Seq(Operation)
  BY <1>8
<1>10. /\ \A c : c \in Range(first) <=> c = Op("step", s, p)
       /\ \A c : c \in Range(last) <=> c = Op("plan", s, s)
  BY DEF Range
<1> HIDE DEF scans, first, last
<1>11. /\ first \o scans \in Seq(Operation)
       /\ \A c : c \in Range(first \o scans) <=> c \in Range(first) \/ c \in Range(scans)
  BY <1>6, <1>9, Joint
<1>12. /\ first \o scans \o last \in Seq(Operation)
       /\ \A c : c \in Range(first \o scans \o last) <=>
            c \in Range(first \o scans) \/ c \in Range(last)
  BY <1>9, <1>11, Joint
<1>13. \A c : c \in Range(first \o scans \o last) <=>
         \/ c = Op("step", s, p)
         \/ \E x \in Id \ {s} : c = Op("scan", s, x)
         \/ c = Op("plan", s, s)
  BY <1>4, <1>7, <1>10, <1>11, <1>12
<1> QED
  BY <1>12, <1>13 DEF first, scans, last, scanned

LEMMA SomeOrder ==
  ASSUME NEW S, S \subseteq Slot \/ S \subseteq Npc, NEW q \in SetToSeqs(S)
  PROVE  q \in Seq(S) /\ \A x : x \in Range(q) <=> x \in S
<1>1. IsFiniteSet(Slot) /\ IsFiniteSet(Npc)
  BY SizeAssumption, FS_Interval DEF Slot
<1>2. IsFiniteSet(S)
  BY <1>1, FS_Subset
<1> QED
  BY <1>2, AnyOrder

\* q tells s that it moved and redraws it for K, M and L, and N and X for it.
Redraw(q, s, K, M, L, N, X) ==
  /\ q \in Seq(Operation)
  /\ \A c : c \in Range(q) <=>
       \/ c = Op("tell", s, s)
       \/ \E i \in K : c = Op("meet", i, s)
       \/ \E i \in M : c = Op("greet", s, i)
       \/ \E i \in L : c = Op("part", s, i)
       \/ \E n \in N : c = Op("see", s, n)
       \/ \E n \in X : c = Op("lose", s, n)

(* What CS_MOVE does with its sets, before the next receive. *)
LEMMA PlanType ==
  ASSUME NEW s \in Slot,
         NEW K \in SUBSET Slot, NEW M \in SUBSET Slot, NEW L \in SUBSET Slot,
         NEW N \in SUBSET Npc, NEW X \in SUBSET Npc, s \notin K, s \notin M,
         NEW kept \in SetToSeqs(K), NEW met \in SetToSeqs(M), NEW lost \in SetToSeqs(L),
         NEW npc_met \in SetToSeqs(N), NEW npc_lost \in SetToSeqs(X)
  PROVE  Redraw(Redrawing(s, kept, met, lost, npc_met, npc_lost), s, K, M, L, N, X)
<1> DEFINE q0 == <<Op("tell", s, s)>>
           p1 == OnEach("meet", kept, s)
           p2 == AboutEach("greet", s, met)
           p3 == AboutEach("part", s, lost)
           p4 == AboutEach("see", s, npc_met)
           p5 == AboutEach("lose", s, npc_lost)
           q1 == q0 \o p1
           q2 == q1 \o p2
           q3 == q2 \o p3
           q4 == q3 \o p4
           q5 == q4 \o p5
<1>1. s \in Id /\ s \notin Npc /\ Slot \subseteq Id /\ Npc \subseteq Id
  BY IdAssumption DEF Id
<1>2. /\ Op("tell", s, s) \in Operation
      /\ \A i \in K : Op("meet", i, s) \in Operation
      /\ \A i \in M : Op("greet", s, i) \in Operation
      /\ \A i \in L : Op("part", s, i) \in Operation
      /\ \A n \in N : Op("see", s, n) \in Operation
      /\ \A n \in X : Op("lose", s, n) \in Operation
  <2>1. \A i \in K : i \in Slot /\ i # s
    BY DEF Slot
  <2>2. \A i \in M : i \in Slot /\ s # i
    BY DEF Slot
  <2>3. \A n \in N : n \in Id /\ s # n
    BY <1>1
  <2> QED
    BY <1>1, <2>1, <2>2, <2>3, Ops
<1>3. /\ kept \in Seq(K) /\ \A x : x \in Range(kept) <=> x \in K
      /\ met \in Seq(M) /\ \A x : x \in Range(met) <=> x \in M
      /\ lost \in Seq(L) /\ \A x : x \in Range(lost) <=> x \in L
      /\ npc_met \in Seq(N) /\ \A x : x \in Range(npc_met) <=> x \in N
      /\ npc_lost \in Seq(X) /\ \A x : x \in Range(npc_lost) <=> x \in X
  BY SomeOrder
<1>4. /\ p1 \in Seq(Operation) /\ p2 \in Seq(Operation) /\ p3 \in Seq(Operation)
      /\ p4 \in Seq(Operation) /\ p5 \in Seq(Operation)
  BY <1>2, <1>3, LoopType
<1>5. /\ \A c : c \in Range(p1) <=> \E i \in Range(kept) : c = Op("meet", i, s)
      /\ \A c : c \in Range(p2) <=> \E i \in Range(met) : c = Op("greet", s, i)
      /\ \A c : c \in Range(p3) <=> \E i \in Range(lost) : c = Op("part", s, i)
      /\ \A c : c \in Range(p4) <=> \E i \in Range(npc_met) : c = Op("see", s, i)
      /\ \A c : c \in Range(p5) <=> \E i \in Range(npc_lost) : c = Op("lose", s, i)
  BY LoopRange
<1>6. /\ \A c : c \in Range(p1) <=> \E i \in K : c = Op("meet", i, s)
      /\ \A c : c \in Range(p2) <=> \E i \in M : c = Op("greet", s, i)
      /\ \A c : c \in Range(p3) <=> \E i \in L : c = Op("part", s, i)
      /\ \A c : c \in Range(p4) <=> \E i \in N : c = Op("see", s, i)
      /\ \A c : c \in Range(p5) <=> \E i \in X : c = Op("lose", s, i)
  BY <1>3, <1>5
<1>7. q0 \in Seq(Operation) /\ \A c : c \in Range(q0) <=> c = Op("tell", s, s)
  BY <1>2 DEF Range
<1> HIDE DEF q0, p1, p2, p3, p4, p5
<1>8. q1 \in Seq(Operation) /\ \A c : c \in Range(q1) <=> c \in Range(q0) \/ c \in Range(p1)
  BY <1>4, <1>7, Joint
<1> HIDE DEF q1
<1>9. q2 \in Seq(Operation) /\ \A c : c \in Range(q2) <=> c \in Range(q1) \/ c \in Range(p2)
  BY <1>4, <1>8, Joint
<1> HIDE DEF q2
<1>10. q3 \in Seq(Operation) /\ \A c : c \in Range(q3) <=> c \in Range(q2) \/ c \in Range(p3)
  BY <1>4, <1>9, Joint
<1> HIDE DEF q3
<1>11. q4 \in Seq(Operation) /\ \A c : c \in Range(q4) <=> c \in Range(q3) \/ c \in Range(p4)
  BY <1>4, <1>10, Joint
<1> HIDE DEF q4
<1>12. q5 \in Seq(Operation) /\ \A c : c \in Range(q5) <=> c \in Range(q4) \/ c \in Range(p5)
  BY <1>4, <1>11, Joint
<1>13. \A c : c \in Range(q5) <=>
         \/ c = Op("tell", s, s)
         \/ \E i \in K : c = Op("meet", i, s)
         \/ \E i \in M : c = Op("greet", s, i)
         \/ \E i \in L : c = Op("part", s, i)
         \/ \E n \in N : c = Op("see", s, n)
         \/ \E n \in X : c = Op("lose", s, n)
  BY <1>6, <1>7, <1>8, <1>9, <1>10, <1>11, <1>12
<1>14. Redraw(q5, s, K, M, L, N, X)
  BY <1>12, <1>13 DEF Redraw
<1> QED
  BY <1>14 DEF Redrawing, q5, q4, q3, q2, q1, q0, p1, p2, p3, p4, p5

LEMMA Fields ==
  ASSUME NEW c \in Operation
  PROVE  /\ c = Op(c.op, c.i, c.o)
         /\ c.op \notin {"step", "npc_plan"} =>
              /\ c.i \in Slot /\ c.o \in Id
              /\ c.op \in Inserting => c.i # c.o
              /\ c.op \in {"show", "find", "greet", "part"} => c.o \in Slot
         /\ c.op = "step" => c.i \in Id /\ c.o \in World
         /\ c.op = "npc_plan" => c.i \in Npc /\ c.o \in Npc
BY DEF Operation, Op

-----------------------------------------------------------------------------
(* Steps. *)

\* What the sets of a handler hold while it fills and reads them.
LocalInv ==
  \A w \in Thread : \A c \in Pending(w) :
    /\ c.op \in {"scan", "plan"} =>
         job[w][1] = "move" /\ c.i = job[w][2] /\ c.i \notin new[w]
    /\ c.op \in {"before", "after", "npc_plan"} =>
         job[w][1] = "npc_move" /\ old[w] \cup new[w] \subseteq Slot

(* A thread in the middle of a handler. *)
LEMMA Busy ==
  ASSUME TypeOK, NEW w \in Thread, NEW ops, Doing(w, ops)
  PROVE  /\ todo[w] \in Seq(Operation) /\ todo[w] # <<>> /\ ~ Idle(w)
         /\ Head(todo[w]) \in Operation /\ Head(todo[w]) \in Pending(w)
         /\ Head(todo[w]).op \in ops
<1>1. todo[w] \in Seq(Operation) /\ todo[w] # <<>>
  BY DEF TypeOK, Doing, Idle
<1> QED
  BY <1>1, Queue DEF Doing, Pending

(* One operation done, more before the rest. *)
LEMMA ThenType ==
  ASSUME TypeOK, NEW w \in Thread, ~ Idle(w), NEW more \in Seq(Operation), Then(w, more)
  PROVE  /\ todo' \in [Thread -> Seq(Operation)]
         /\ job' \in [Thread -> (Handlers \cup {"none"}) \X Id]
         /\ alone' \subseteq alone
         /\ \A v \in Thread \ {w} : todo'[v] = todo[v] /\ job'[v] = job[v]
         /\ \A v \in Thread \ {w} : v \in alone' <=> v \in alone
         /\ todo'[w] = more \o Tail(todo[w])
         /\ \A c \in Pending(w)' : c \in Range(more) \/ c \in Pending(w)
         /\ \A c \in Range(more) : c \in Pending(w)'
         /\ \A c \in Pending(w) : c = Head(todo[w]) \/ c \in Pending(w)'
         /\ \/ job'[w] = job[w]
            \/ job'[w] = NoJob /\ Pending(w)' = {} /\ w \notin alone'
         /\ Pending(w)' # {} => (w \in alone' <=> w \in alone)
<1> DEFINE rest == more \o Tail(todo[w])
<1>1. todo[w] \in Seq(Operation) /\ todo[w] # <<>>
  BY DEF TypeOK, Idle
<1>2. /\ Tail(todo[w]) \in Seq(Operation)
      /\ \A c : c \in Range(todo[w]) <=> c = Head(todo[w]) \/ c \in Range(Tail(todo[w]))
  BY <1>1, Queue
<1>3. /\ rest \in Seq(Operation)
      /\ \A c : c \in Range(rest) <=> c \in Range(more) \/ c \in Range(Tail(todo[w]))
  BY <1>2, Joint
<1>4. /\ todo' = [todo EXCEPT ![w] = rest]
      /\ job' = [job EXCEPT ![w] = IF rest = <<>> THEN NoJob ELSE @]
      /\ alone' = IF rest = <<>> THEN alone \ {w} ELSE alone
  BY DEF Then
<1> HIDE DEF rest
<1>5. NoJob \in (Handlers \cup {"none"}) \X Id
  BY SizeAssumption DEF NoJob, Id, Slot
<1>6. /\ todo' \in [Thread -> Seq(Operation)] /\ todo'[w] = rest
      /\ job' \in [Thread -> (Handlers \cup {"none"}) \X Id]
      /\ \A v \in Thread \ {w} : todo'[v] = todo[v] /\ job'[v] = job[v]
  <2>1. todo \in [Thread -> Seq(Operation)] /\ job \in [Thread -> (Handlers \cup {"none"}) \X Id]
    BY DEF TypeOK
  <2>2. job[w] \in (Handlers \cup {"none"}) \X Id
    BY <2>1
  <2>3. (IF rest = <<>> THEN NoJob ELSE job[w]) \in (Handlers \cup {"none"}) \X Id
    BY <1>5, <2>2
  <2> QED
    BY <1>3, <1>4, <2>1, <2>3
<1>7. /\ Pending(w)' = Range(rest)
      /\ Pending(w) = Range(todo[w])
  BY <1>6 DEF Pending
<1>8. rest = <<>> <=> Range(rest) = {}
  <2>1. Range(<<>>) = {}
    BY DEF Range
  <2>2. CASE rest # <<>>
    BY <1>3, <2>2, Queue
  <2> QED
    BY <2>1, <2>2
<1>9. job'[w] = IF rest = <<>> THEN NoJob ELSE job[w]
  BY <1>4 DEF TypeOK
<1>10. /\ alone' \subseteq alone
       /\ \A v \in Thread \ {w} : v \in alone' <=> v \in alone
       /\ rest = <<>> => w \notin alone'
       /\ rest # <<>> => (w \in alone' <=> w \in alone)
  BY <1>4
<1>11. todo'[w] = more \o Tail(todo[w])
  BY <1>6 DEF rest
<1> QED
  BY <1>2, <1>3, <1>6, <1>7, <1>8, <1>9, <1>10, <1>11

(* A send or a receive on a closed socket. *)
LEMMA HungType ==
  ASSUME TypeOK, NEW w \in Thread, todo' = [todo EXCEPT ![w] = Hung]
  PROVE  /\ todo' \in [Thread -> Seq(Operation)]
         /\ todo'[w] = Hung /\ Stuck(w)'
         /\ \A v \in Thread \ {w} : todo'[v] = todo[v]
         /\ \A c : c \in Pending(w)' <=> c = Op("hung", 0, 0)
<1>1. Op("hung", 0, 0) \in Operation
  BY Ops, SizeAssumption DEF Id, Slot
<1>2. Hung \in Seq(Operation)
  BY <1>1 DEF Hung
<1>3. /\ todo' \in [Thread -> Seq(Operation)] /\ todo'[w] = Hung
      /\ \A v \in Thread \ {w} : todo'[v] = todo[v]
  BY <1>2 DEF TypeOK
<1>4. Hung # <<>> /\ Head(Hung).op = "hung"
  BY DEF Hung, Op
<1>5. \A c : c \in Range(Hung) <=> c = Op("hung", 0, 0)
  BY DEF Hung, Range
<1> QED
  BY <1>3, <1>4, <1>5 DEF Stuck, Idle, Pending

(* A handler begins. *)
LEMMA StartType ==
  ASSUME TypeOK, NEW w \in Thread, NEW kind, NEW x \in Id,
         NEW seen \in SUBSET Id, NEW program \in Seq(Operation),
         Start(w, kind, x, seen, program)
  PROVE  /\ todo' \in [Thread -> Seq(Operation)]
         /\ old' \in [Thread -> SUBSET Id] /\ new' \in [Thread -> SUBSET Id]
         /\ job' \in [Thread -> (Handlers \cup {"none"}) \X Id]
         /\ alone' \subseteq {w}
         /\ \A v \in Thread \ {w} :
              todo'[v] = todo[v] /\ job'[v] = job[v] /\ old'[v] = old[v] /\ new'[v] = new[v]
         /\ todo'[w] = program /\ job'[w] = <<kind, x>> /\ old'[w] = seen /\ new'[w] = {}
         /\ Pending(w) = {}
         /\ \A c : c \in Pending(w)' <=> c \in Range(program)
<1>1. Range(<<>>) = {}
  BY DEF Range
<1> QED
  BY <1>1 DEF Start, MayStart, Idle, TypeOK, Pending

LEMMA Singles ==
  /\ \A c \in Operation : <<c>> \in Seq(Operation) /\ \A d : d \in Range(<<c>>) <=> d = c
  /\ <<>> \in Seq(Operation) /\ \A d : d \notin Range(<<>>)
BY DEF Range

Collecting == {"scan", "plan", "before", "after", "npc_plan"}

LEMMA LocalStep ==
  ASSUME TypeOK, LocalInv, NEW w \in Thread, ~ Idle(w), NEW more \in Seq(Operation),
         Then(w, more), \A c \in Range(more) : c.op \notin Collecting,
         \A v \in Thread : old'[v] \subseteq old[v] /\ new'[v] \subseteq new[v]
  PROVE  LocalInv'
<1> SUFFICES ASSUME NEW v \in Thread, NEW c \in Pending(v)'
             PROVE  /\ c.op \in {"scan", "plan"} =>
                         job'[v][1] = "move" /\ c.i = job'[v][2] /\ c.i \notin new'[v]
                    /\ c.op \in {"before", "after", "npc_plan"} =>
                         job'[v][1] = "npc_move" /\ old'[v] \cup new'[v] \subseteq Slot
  BY DEF LocalInv
<1>1. CASE v # w
  <2>1. c \in Pending(v) /\ job'[v] = job[v]
    BY <1>1, ThenType DEF Pending
  <2> QED
    BY <2>1 DEF LocalInv
<1>2. CASE v = w /\ c.op \in Collecting
  <2>1. c \in Pending(w) /\ job'[w] = job[w]
    BY <1>2, ThenType
  <2> QED
    BY <1>2, <2>1 DEF LocalInv
<1>3. CASE v = w /\ c.op \notin Collecting
  BY <1>3 DEF Collecting
<1> QED
  BY <1>1, <1>2, <1>3

LEMMA HungLocal ==
  ASSUME TypeOK, LocalInv, NEW w \in Thread, todo' = [todo EXCEPT ![w] = Hung],
         UNCHANGED <<observers, locals>>
  PROVE  LocalInv'
<1>1. /\ \A c : c \in Pending(w)' <=> c = Op("hung", 0, 0)
      /\ \A v \in Thread \ {w} : todo'[v] = todo[v]
  BY HungType
<1>2. \A v \in Thread : \A c \in Pending(v)' : c \in Pending(v) \/ c.op = "hung"
  BY <1>1 DEF Pending, Op
<1> QED
  BY <1>2 DEF LocalInv, observers, locals

LEMMA PlanProgram ==
  ASSUME TypeOK, LocalInv, NEW w \in Thread, Plan(w)
  PROVE  LET s == Head(todo[w]).i
         IN  \E front \in Seq(Operation) :
               /\ Then(w, front \o <<Op("recv", s, s)>>)
               /\ \A c : c \in Range(front) <=>
                    \/ c = Op("tell", s, s)
                    \/ \E i \in old[w] \cap new[w] \cap Slot : c = Op("meet", i, s)
                    \/ \E i \in (new[w] \ old[w]) \cap Slot : c = Op("greet", s, i)
                    \/ \E i \in (old[w] \ new[w]) \cap Slot : c = Op("part", s, i)
                    \/ \E n \in (new[w] \ old[w]) \cap Npc : c = Op("see", s, n)
                    \/ \E n \in (old[w] \ new[w]) \cap Npc : c = Op("lose", s, n)
<1> DEFINE s == Head(todo[w]).i
           K == old[w] \cap new[w] \cap Slot
           M == (new[w] \ old[w]) \cap Slot
           L == (old[w] \ new[w]) \cap Slot
           N == (new[w] \ old[w]) \cap Npc
           X == (old[w] \ new[w]) \cap Npc
<1>1. PICK kept \in SetToSeqs(K), met \in SetToSeqs(M), lost \in SetToSeqs(L),
           npc_met \in SetToSeqs(N), npc_lost \in SetToSeqs(X) :
         Then(w, Redrawing(s, kept, met, lost, npc_met, npc_lost) \o <<Op("recv", s, s)>>)
  BY DEF Plan
<1> DEFINE front == Redrawing(s, kept, met, lost, npc_met, npc_lost)
<1>2. s \in Slot /\ s \notin new[w]
  <2>1. Doing(w, {"plan"})
    BY DEF Plan
  <2>2. Head(todo[w]) \in Operation /\ Head(todo[w]) \in Pending(w) /\ Head(todo[w]).op = "plan"
    BY <2>1, Busy
  <2> QED
    BY <2>2, Fields DEF LocalInv
<1>3. /\ K \in SUBSET Slot /\ M \in SUBSET Slot /\ L \in SUBSET Slot
      /\ N \in SUBSET Npc /\ X \in SUBSET Npc
      /\ s \notin K /\ s \notin M
  BY <1>2
<1>4. Then(w, front \o <<Op("recv", s, s)>>)
  BY <1>1
<1> HIDE DEF s, K, M, L, N, X
<1>5. /\ front \in Seq(Operation)
      /\ \A c : c \in Range(front) <=>
           \/ c = Op("tell", s, s)
           \/ \E i \in K : c = Op("meet", i, s)
           \/ \E i \in M : c = Op("greet", s, i)
           \/ \E i \in L : c = Op("part", s, i)
           \/ \E n \in N : c = Op("see", s, n)
           \/ \E n \in X : c = Op("lose", s, n)
  <2>1. Redraw(front, s, K, M, L, N, X)
    BY <1>1, <1>2, <1>3, PlanType
  <2> HIDE DEF front
  <2> QED
    BY <2>1 DEF Redraw
<1> HIDE DEF front
<1>6. \E q \in Seq(Operation) :
        /\ Then(w, q \o <<Op("recv", s, s)>>)
        /\ \A c : c \in Range(q) <=>
             \/ c = Op("tell", s, s)
             \/ \E i \in K : c = Op("meet", i, s)
             \/ \E i \in M : c = Op("greet", s, i)
             \/ \E i \in L : c = Op("part", s, i)
             \/ \E n \in N : c = Op("see", s, n)
             \/ \E n \in X : c = Op("lose", s, n)
  <2>1. front \in Seq(Operation)
    BY <1>5
  <2> WITNESS front \in Seq(Operation)
  <2> QED
    BY <1>4, <1>5
<1> QED
  BY <1>6 DEF s, K, M, L, N, X

(* The operations keep the types. *)
LEMMA OperateType ==
  ASSUME TypeOK, LocalInv, NEW w \in Thread, Operate(w), calm' \in BOOLEAN
  PROVE  TypeOK' /\ LocalInv'
<1> DEFINE c == Head(todo[w])
<1>1. ASSUME NEW ops, Doing(w, ops)
      PROVE  /\ ~ Idle(w) /\ c \in Operation /\ c \in Pending(w) /\ c.op \in ops
             /\ c = Op(c.op, c.i, c.o)
  BY <1>1, Busy, Fields
<1>2. ASSUME NEW ops, Doing(w, ops), "step" \notin ops, "npc_plan" \notin ops
      PROVE  /\ c.i \in Slot /\ c.o \in Id /\ c.i \in Id
             /\ c.op \in Inserting => c.i # c.o
             /\ c.op \in {"show", "find", "greet", "part"} => c.o \in Slot
  BY <1>1, <1>2, Fields DEF Id
<1>3. ASSUME ~ Idle(w), NEW more \in Seq(Operation), Then(w, more)
      PROVE  /\ todo' \in [Thread -> Seq(Operation)]
             /\ job' \in [Thread -> (Handlers \cup {"none"}) \X Id]
             /\ alone' \subseteq Thread
  BY <1>3, ThenType DEF TypeOK
<1> HIDE DEF c
<1>4. CASE Step(w)
  <2>1. c.op = "step" /\ ~ Idle(w) /\ c.i \in Id /\ c.o \in World
    <3>1. Doing(w, {"step"})
      BY <1>4 DEF Step
    <3>2. c.op = "step" /\ ~ Idle(w) /\ c \in Operation
      BY <1>1, <3>1
    <3> QED
      BY <3>2, Fields
  <2>2. at' = [at EXCEPT ![c.i] = c.o] /\ Then(w, <<>>)
    BY <1>4 DEF Step, c
  <2>3. at' \in [Id -> World \cup {DeadPos}] /\ \A s \in Slot : at'[s] \in World
    BY <2>1, <2>2 DEF TypeOK, Id
  <2>4. LocalInv'
    BY <1>4, <2>1, <2>2, Singles, LocalStep DEF Step, locals
  <2>5. TypeOK'
    BY <1>3, <1>4, <2>1, <2>2, <2>3, Singles DEF Step, sockets, locals, TypeOK
  <2> QED
    BY <2>4, <2>5
<1>5. CASE Scan(w)
  <2>1. Doing(w, {"scan"}) /\ Then(w, <<>>)
    BY <1>5 DEF Scan
  <2>2. /\ c.op = "scan" /\ c.i \in Slot /\ c.o \in Id /\ c.i # c.o /\ ~ Idle(w)
        /\ c \in Pending(w)
    BY <1>1, <1>2, <2>1 DEF Inserting
  <2>3. new' = [new EXCEPT ![w] = IF Sighted(c.i, c.o) THEN @ \cup {c.o} ELSE @]
    BY <1>5 DEF Scan, c
  <2>4. new' \in [Thread -> SUBSET Id]
    BY <2>2, <2>3 DEF TypeOK
  <2>5. TypeOK'
    BY <1>3, <1>5, <2>1, <2>2, <2>4, Singles DEF Scan, shared, sockets, TypeOK
  <2>6. ASSUME NEW v \in Thread, NEW d \in Pending(v)'
        PROVE  /\ d.op \in {"scan", "plan"} =>
                    job'[v][1] = "move" /\ d.i = job'[v][2] /\ d.i \notin new'[v]
               /\ d.op \in {"before", "after", "npc_plan"} =>
                    job'[v][1] = "npc_move" /\ old'[v] \cup new'[v] \subseteq Slot
    <3>1. d \in Pending(v) /\ job'[v] = job[v]
      <4>1. CASE v = w
        BY <2>1, <2>2, <4>1, Singles, ThenType
      <4>2. CASE v # w
        BY <2>1, <2>2, <4>2, Singles, ThenType DEF Pending
      <4> QED
        BY <4>1, <4>2
    <3>2. CASE v # w
      BY <1>5, <2>3, <3>1, <3>2 DEF Scan, LocalInv, TypeOK
    <3>3. CASE v = w
      <4>1. job[w][1] = "move" /\ c.i = job[w][2]
        BY <2>2 DEF LocalInv
      <4>2. new'[w] \subseteq new[w] \cup {c.o}
        BY <2>3 DEF TypeOK
      <4> QED
        BY <2>2, <3>1, <3>3, <4>1, <4>2 DEF LocalInv
    <3> QED
      BY <3>2, <3>3
  <2>7. LocalInv'
    BY <2>6 DEF LocalInv
  <2> QED
    BY <2>5, <2>7
<1>6. CASE NpcScan(w)
  <2>1. Doing(w, {"before", "after"}) /\ Then(w, <<>>)
    BY <1>6 DEF NpcScan
  <2>2. c.op \in {"before", "after"} /\ c.i \in Slot /\ ~ Idle(w) /\ c \in Pending(w)
    BY <1>1, <1>2, <2>1
  <2>3. \E a, b \in BOOLEAN :
          /\ old' = [old EXCEPT ![w] = IF a THEN @ \cup {c.i} ELSE @]
          /\ new' = [new EXCEPT ![w] = IF b THEN @ \cup {c.i} ELSE @]
    BY <1>6 DEF NpcScan, c
  <2>4. old' \in [Thread -> SUBSET Id] /\ new' \in [Thread -> SUBSET Id]
    BY <2>2, <2>3 DEF TypeOK, Id
  <2>5. TypeOK'
    BY <1>3, <1>6, <2>1, <2>2, <2>4, Singles DEF NpcScan, shared, sockets, TypeOK
  <2>6. ASSUME NEW v \in Thread, NEW d \in Pending(v)'
        PROVE  /\ d.op \in {"scan", "plan"} =>
                    job'[v][1] = "move" /\ d.i = job'[v][2] /\ d.i \notin new'[v]
               /\ d.op \in {"before", "after", "npc_plan"} =>
                    job'[v][1] = "npc_move" /\ old'[v] \cup new'[v] \subseteq Slot
    <3>1. d \in Pending(v) /\ job'[v] = job[v]
      <4>1. CASE v = w
        BY <2>1, <2>2, <4>1, Singles, ThenType
      <4>2. CASE v # w
        BY <2>1, <2>2, <4>2, Singles, ThenType DEF Pending
      <4> QED
        BY <4>1, <4>2
    <3>2. CASE v # w
      BY <2>3, <3>1, <3>2 DEF LocalInv, TypeOK
    <3>3. CASE v = w
      <4>1. job[w][1] = "npc_move" /\ old[w] \cup new[w] \subseteq Slot
        BY <2>2 DEF LocalInv
      <4>2. old'[w] \subseteq old[w] \cup {c.i} /\ new'[w] \subseteq new[w] \cup {c.i}
        BY <2>3 DEF TypeOK
      <4> QED
        BY <2>2, <3>1, <3>3, <4>1, <4>2 DEF LocalInv
    <3> QED
      BY <3>2, <3>3
  <2>7. LocalInv'
    BY <2>6 DEF LocalInv
  <2> QED
    BY <2>5, <2>7
<1>7. CASE Plan(w)
  <2> DEFINE s == c.i
  <2>1. PICK front \in Seq(Operation) :
          /\ Then(w, front \o <<Op("recv", s, s)>>)
          /\ \A d \in Range(front) : d.op \in {"tell", "meet", "greet", "part", "see", "lose"}
    BY <1>7, PlanProgram DEF Op, c
  <2> DEFINE more == front \o <<Op("recv", s, s)>>
  <2>2. s \in Slot /\ s \in Id /\ ~ Idle(w)
    BY <1>1, <1>2, <1>7 DEF Plan
  <2>3. Op("recv", s, s) \in Operation
    BY <2>2, Ops
  <2>4. <<Op("recv", s, s)>> \in Seq(Operation)
    BY <2>3
  <2>5. /\ more \in Seq(Operation)
        /\ \A d : d \in Range(more) <=> d \in Range(front) \/ d \in Range(<<Op("recv", s, s)>>)
    BY <2>4, Joint
  <2>6. \A d \in Range(more) : d.op \notin Collecting
    BY <2>1, <2>3, <2>5, Singles DEF Collecting, Op
  <2>7. Then(w, more)
    BY <2>1
  <2> HIDE DEF more
  <2>8. old' = [old EXCEPT ![w] = {}] /\ new' = [new EXCEPT ![w] = {}]
    BY <1>7 DEF Plan
  <2>9. LocalInv'
    BY <2>2, <2>5, <2>6, <2>7, <2>8, LocalStep DEF TypeOK
  <2>10. TypeOK'
    BY <1>3, <1>7, <2>2, <2>5, <2>7, <2>8 DEF Plan, shared, sockets, TypeOK
  <2> QED
    BY <2>9, <2>10
<1>8. CASE NpcPlan(w)
  <2> DEFINE n == c.i
  <2>1. Doing(w, {"npc_plan"})
    BY <1>8 DEF NpcPlan
  <2>2. c.op = "npc_plan" /\ n \in Npc /\ n \in Id /\ ~ Idle(w) /\ c \in Pending(w)
    BY <1>1, <2>1, Fields DEF Id
  <2>3. new[w] \subseteq Slot /\ old[w] \subseteq Slot
    BY <2>2 DEF LocalInv
  <2>4. PICK now \in SetToSeqs(new[w]), gone \in SetToSeqs(old[w] \ new[w]) :
           Then(w, OnEach("meet", now, n) \o OnEach("forget", gone, n))
    BY <1>8 DEF NpcPlan, c
  <2> DEFINE meets == OnEach("meet", now, n)
             forgets == OnEach("forget", gone, n)
             more == meets \o forgets
  <2>5. /\ now \in Seq(new[w]) /\ \A x : x \in Range(now) <=> x \in new[w]
        /\ gone \in Seq(old[w] \ new[w]) /\ \A x : x \in Range(gone) <=> x \in old[w] \ new[w]
    BY <2>3, SomeOrder
  <2>6. /\ \A i \in new[w] : Op("meet", i, n) \in Operation
        /\ \A i \in old[w] \ new[w] : Op("forget", i, n) \in Operation
    BY <2>2, <2>3, Ops, IdAssumption
  <2>7. meets \in Seq(Operation) /\ forgets \in Seq(Operation)
    BY <2>5, <2>6, LoopType
  <2>8. /\ \A d : d \in Range(meets) <=> \E i \in Range(now) : d = Op("meet", i, n)
        /\ \A d : d \in Range(forgets) <=> \E i \in Range(gone) : d = Op("forget", i, n)
    BY LoopRange
  <2>9. Then(w, more)
    BY <2>4
  <2> HIDE DEF meets, forgets
  <2>10. /\ more \in Seq(Operation)
         /\ \A d : d \in Range(more) <=> d \in Range(meets) \/ d \in Range(forgets)
    BY <2>7, Joint
  <2>11. \A d \in Range(more) : d.op \notin Collecting
    BY <2>8, <2>10 DEF Collecting, Op
  <2> HIDE DEF more
  <2>12. old' = [old EXCEPT ![w] = {}] /\ new' = [new EXCEPT ![w] = {}]
    BY <1>8 DEF NpcPlan
  <2>13. LocalInv'
    BY <2>2, <2>9, <2>10, <2>11, <2>12, LocalStep DEF TypeOK
  <2>14. TypeOK'
    BY <1>3, <1>8, <2>2, <2>9, <2>10, <2>12 DEF NpcPlan, shared, sockets, TypeOK
  <2> QED
    BY <2>13, <2>14
<1>9. ASSUME ~ Idle(w), NEW more \in Seq(Operation), Then(w, more),
             \A d \in Range(more) : d.op \notin Collecting, UNCHANGED locals
      PROVE  /\ LocalInv'
             /\ old' \in [Thread -> SUBSET Id] /\ new' \in [Thread -> SUBSET Id]
  BY <1>9, LocalStep DEF locals, TypeOK
<1>10. CASE Mourn(w)
  <2> DEFINE s == c.i
  <2>1. Doing(w, {"mourn"})
    BY <1>10 DEF Mourn
  <2>2. s \in Slot /\ s \in Id /\ ~ Idle(w)
    BY <1>1, <1>2, <2>1
  <2>3. PICK q \in SetToSeqs(list[s] \cap Slot) :
          Then(w, OnEach("forget", q, s)
                    \o <<Op("clear", s, s), Op("remove", s, s), Op("revive", s, s)>>)
    BY <1>10 DEF Mourn, c
  <2> DEFINE forgets == OnEach("forget", q, s)
             ends == <<Op("clear", s, s), Op("remove", s, s), Op("revive", s, s)>>
             more == forgets \o ends
  <2>4. q \in Seq(list[s] \cap Slot)
    BY SomeOrder
  <2>5. \A i \in list[s] \cap Slot : Op("forget", i, s) \in Operation
    BY <2>2, Ops
  <2>6. forgets \in Seq(Operation) /\ \A d \in Range(forgets) : d.op = "forget"
    BY <2>4, <2>5, LoopType, LoopRange DEF Op
  <2>7. ends \in Seq(Operation)
    BY <2>2, Ops
  <2>8. \A d \in Range(ends) : d.op \in {"clear", "remove", "revive"}
    BY DEF Range, Op
  <2>9. Then(w, more)
    BY <2>3
  <2> HIDE DEF forgets, ends
  <2>10. more \in Seq(Operation) /\ \A d \in Range(more) : d.op \notin Collecting
    BY <2>6, <2>7, <2>8, Joint DEF Collecting
  <2> HIDE DEF more
  <2>11. LocalInv'
    BY <1>9, <1>10, <2>2, <2>9, <2>10 DEF Mourn
  <2>12. TypeOK'
    BY <1>3, <1>10, <2>2, <2>9, <2>10 DEF Mourn, shared, sockets, locals, TypeOK
  <2> QED
    BY <2>11, <2>12
<1>11. CASE Revive(w)
  <2>1. Doing(w, {"revive"}) /\ Then(w, <<>>)
    BY <1>11 DEF Revive
  <2>2. c.i \in Slot /\ ~ Idle(w)
    BY <1>1, <1>2, <2>1
  <2>3. reviving' = [reviving EXCEPT ![c.i] = IF @ < MaxRevive THEN @ + 1 ELSE @]
    BY <1>11 DEF Revive, c
  <2>4. reviving' \in [Slot -> 0 .. MaxRevive]
    BY <2>2, <2>3, SizeAssumption DEF TypeOK
  <2>5. LocalInv'
    BY <1>9, <1>11, <2>1, <2>2, Singles DEF Revive
  <2>6. TypeOK'
    BY <1>3, <1>11, <2>1, <2>2, <2>4, Singles DEF Revive, sockets, locals, TypeOK
  <2> QED
    BY <2>5, <2>6
<1>12. CASE Look(w)
  <2>1. ~ Idle(w) /\ c.i \in Slot /\ c.o \in Id
    <3>1. PICK ops \in {{"show"}, {"find"}, {"notice"}, {"leave"}, {"chat"}, {"drop"}} :
             Doing(w, ops)
      BY <1>12 DEF Look
    <3>2. "step" \notin ops /\ "npc_plan" \notin ops
      OBVIOUS
    <3> QED
      BY <1>1, <1>2, <3>1, <3>2
  <2>2. ASSUME NEW op, NEW test \in BOOLEAN, Op(op, c.i, c.o) \in Operation,
               op \notin Collecting,
               Then(w, IF test THEN <<Op(op, c.i, c.o)>> ELSE <<>>)
        PROVE  TypeOK' /\ LocalInv'
    <3> DEFINE more == IF test THEN <<Op(op, c.i, c.o)>> ELSE <<>>
    <3>2. more \in Seq(Operation) /\ \A d \in Range(more) : d = Op(op, c.i, c.o)
      BY <2>2, Singles
    <3>3. \A d \in Range(more) : d.op \notin Collecting
      BY <2>2, <3>2 DEF Op
    <3>4. Then(w, more)
      BY <2>2
    <3> HIDE DEF more
    <3>5. LocalInv'
      BY <1>9, <1>12, <2>1, <3>2, <3>3, <3>4 DEF Look
    <3>6. TypeOK'
      BY <1>3, <1>12, <2>1, <3>2, <3>4 DEF Look, shared, sockets, locals, TypeOK
    <3> QED
      BY <3>5, <3>6
  <2> DEFINE sight == is_eyesight(at[c.i], at[c.o])
             If(test, op) == Then(w, IF test THEN <<Op(op, c.i, c.o)>> ELSE <<>>)
  <2>3. \/ Doing(w, {"show"}) /\ If(in_use[c.i] /\ sight, "see")
        \/ Doing(w, {"find"}) /\ If(in_use[c.o] /\ sight, "see")
        \/ Doing(w, {"notice"}) /\ If(sight, "see")
        \/ Doing(w, {"leave"}) /\ If(in_use[c.i], "forget")
        \/ Doing(w, {"chat"}) /\ If(in_use[c.i], "tell")
        \/ Doing(w, {"drop"}) /\ If(in_use[c.i], "erase")
    BY <1>12 DEF Look, c
  <2>4. Op("forget", c.i, c.o) \in Operation /\ Op("tell", c.i, c.o) \in Operation
        /\ Op("erase", c.i, c.o) \in Operation
    BY <2>1, Ops
  <2>5. "see" \notin Collecting /\ "forget" \notin Collecting
        /\ "tell" \notin Collecting /\ "erase" \notin Collecting
    BY DEF Collecting
  <2>6. sight \in BOOLEAN
    BY DEF is_eyesight, Within
  <2>7. Doing(w, {"show"}) \/ Doing(w, {"find"}) \/ Doing(w, {"notice"})
          => Op("see", c.i, c.o) \in Operation
    <3>1. ASSUME NEW ops \in {{"show"}, {"find"}, {"notice"}}, Doing(w, ops)
          PROVE  Op("see", c.i, c.o) \in Operation
      <4>1. "step" \notin ops /\ "npc_plan" \notin ops /\ ops \subseteq Inserting
        BY DEF Inserting
      <4>2. c.i # c.o
        BY <1>1, <1>2, <3>1, <4>1
      <4> QED
        BY <2>1, <4>2, Ops
    <3> QED
      BY <3>1
  <2>8. (in_use[c.i] /\ sight) \in BOOLEAN /\ (in_use[c.o] /\ sight) \in BOOLEAN
        /\ in_use[c.i] \in BOOLEAN
    BY <2>1 DEF TypeOK
  <2> HIDE DEF sight
  <2> QED
    BY <2>2, <2>3, <2>4, <2>5, <2>6, <2>7, <2>8, Zenon
<1>13. CASE See(w)
  <2>1. Doing(w, {"see", "greet"})
    BY <1>13 DEF See
  <2>2. /\ c.i \in Slot /\ c.o \in Id /\ c.i \in Id /\ ~ Idle(w) /\ c.i # c.o
        /\ c.op = "greet" => c.o \in Slot
    BY <1>1, <1>2, <2>1 DEF Inserting
  <2> DEFINE last == IF c.op = "greet" THEN <<Op("meet", c.o, c.i)>> ELSE <<>>
             more == <<Op("put", c.i, c.o)>> \o last
  <2>3. /\ Op("put", c.i, c.o) \in Operation
        /\ c.op = "greet" => Op("meet", c.o, c.i) \in Operation
    BY <2>2, Ops
  <2>4. last \in Seq(Operation) /\ \A d \in Range(last) : d.op = "meet"
    BY <2>3, Singles DEF Op
  <2>5. /\ <<Op("put", c.i, c.o)>> \in Seq(Operation)
        /\ \A d \in Range(<<Op("put", c.i, c.o)>>) : d.op = "put"
    BY <2>3, Singles DEF Op
  <2>6. Then(w, more) /\ list' = [list EXCEPT ![c.i] = list[c.i] \cup {c.o}]
    BY <1>13 DEF See, Listing, Entered, c
  <2> HIDE DEF last
  <2>7. more \in Seq(Operation) /\ \A d \in Range(more) : d.op \notin Collecting
    BY <2>4, <2>5, Joint DEF Collecting
  <2> HIDE DEF more
  <2>8. list' \in [Slot -> SUBSET Id]
    BY <2>2, <2>6 DEF TypeOK
  <2>9. LocalInv'
    BY <1>9, <1>13, <2>2, <2>6, <2>7 DEF See
  <2>10. TypeOK'
    BY <1>3, <1>13, <2>2, <2>6, <2>7, <2>8 DEF See, sockets, locals, TypeOK
  <2> QED
    BY <2>9, <2>10
<1>14. CASE Meet(w)
  <2>1. Doing(w, {"meet"})
    BY <1>14 DEF Meet
  <2>2. c.i \in Slot /\ c.o \in Id /\ ~ Idle(w)
    BY <1>1, <1>2, <2>1
  <2>3. PICK op \in {"tell", "put"} : Then(w, <<Op(op, c.i, c.o)>>)
    BY <1>14 DEF Meet, c
  <2>4. list' = [list EXCEPT ![c.i] = list[c.i] \cup {c.o}]
    BY <1>14 DEF Meet, Listing, Entered, c
  <2>5. Op(op, c.i, c.o) \in Operation
    BY <2>2, Ops
  <2>6. /\ <<Op(op, c.i, c.o)>> \in Seq(Operation)
        /\ \A d \in Range(<<Op(op, c.i, c.o)>>) : d.op \notin Collecting
    BY <2>5, Singles DEF Op, Collecting
  <2>7. list' \in [Slot -> SUBSET Id]
    BY <2>2, <2>4 DEF TypeOK
  <2>8. LocalInv'
    BY <1>9, <1>14, <2>2, <2>3, <2>6 DEF Meet
  <2>9. TypeOK'
    BY <1>3, <1>14, <2>2, <2>3, <2>6, <2>7 DEF Meet, sockets, locals, TypeOK
  <2> QED
    BY <2>8, <2>9
<1>15. CASE Lose(w)
  <2>1. Doing(w, {"lose", "part"})
    BY <1>15 DEF Lose
  <2>2. /\ c.i \in Slot /\ c.o \in Id /\ c.i \in Id /\ ~ Idle(w)
        /\ c.op = "part" => c.o \in Slot
    BY <1>1, <1>2, <2>1
  <2> DEFINE last == IF c.op = "part" THEN <<Op("forget", c.o, c.i)>> ELSE <<>>
             more == <<Op("remove", c.i, c.o)>> \o last
  <2>3. /\ Op("remove", c.i, c.o) \in Operation
        /\ c.op = "part" => Op("forget", c.o, c.i) \in Operation
    BY <2>2, Ops
  <2>4. last \in Seq(Operation) /\ \A d \in Range(last) : d.op = "forget"
    BY <2>3, Singles DEF Op
  <2>5. /\ <<Op("remove", c.i, c.o)>> \in Seq(Operation)
        /\ \A d \in Range(<<Op("remove", c.i, c.o)>>) : d.op = "remove"
    BY <2>3, Singles DEF Op
  <2>6. Then(w, more) /\ list' = [list EXCEPT ![c.i] = list[c.i] \ {c.o}]
    BY <1>15 DEF Lose, Listing, c
  <2> HIDE DEF last
  <2>7. more \in Seq(Operation) /\ \A d \in Range(more) : d.op \notin Collecting
    BY <2>4, <2>5, Joint DEF Collecting
  <2> HIDE DEF more
  <2>8. list' \in [Slot -> SUBSET Id]
    BY <2>2, <2>6 DEF TypeOK
  <2>9. LocalInv'
    BY <1>9, <1>15, <2>2, <2>6, <2>7 DEF Lose
  <2>10. TypeOK'
    BY <1>3, <1>15, <2>2, <2>6, <2>7, <2>8 DEF Lose, sockets, locals, TypeOK
  <2> QED
    BY <2>9, <2>10
<1>16. CASE Forget(w)
  <2>1. Doing(w, {"forget"})
    BY <1>16 DEF Forget
  <2>2. c.i \in Slot /\ c.o \in Id /\ ~ Idle(w)
    BY <1>1, <1>2, <2>1
  <2> DEFINE more == IF c.o \in list[c.i] THEN <<Op("remove", c.i, c.o)>> ELSE <<>>
  <2>3. Then(w, more) /\ list' = [list EXCEPT ![c.i] = list[c.i] \ {c.o}]
    BY <1>16 DEF Forget, Listing, c
  <2>4. Op("remove", c.i, c.o) \in Operation
    BY <2>2, Ops
  <2>5. more \in Seq(Operation) /\ \A d \in Range(more) : d.op \notin Collecting
    BY <2>4, Singles DEF Op, Collecting
  <2> HIDE DEF more
  <2>6. list' \in [Slot -> SUBSET Id]
    BY <2>2, <2>3 DEF TypeOK
  <2>7. LocalInv'
    BY <1>9, <1>16, <2>2, <2>3, <2>5 DEF Forget
  <2>8. TypeOK'
    BY <1>3, <1>16, <2>2, <2>3, <2>5, <2>6 DEF Forget, sockets, locals, TypeOK
  <2> QED
    BY <2>7, <2>8
<1>17. CASE Erase(w)
  <2>1. Doing(w, {"erase"}) /\ Then(w, <<>>)
    BY <1>17 DEF Erase
  <2>2. c.i \in Slot /\ c.o \in Id /\ ~ Idle(w)
    BY <1>1, <1>2, <2>1
  <2>3. list' = [list EXCEPT ![c.i] = list[c.i] \ {c.o}]
    BY <1>17 DEF Erase, Listing, c
  <2>4. list' \in [Slot -> SUBSET Id]
    BY <2>2, <2>3 DEF TypeOK
  <2>5. LocalInv'
    BY <1>9, <1>17, <2>1, <2>2, Singles DEF Erase
  <2>6. TypeOK'
    BY <1>3, <1>17, <2>1, <2>2, <2>4, Singles DEF Erase, sockets, locals, TypeOK
  <2> QED
    BY <2>5, <2>6
<1>18. CASE Clear(w)
  <2>1. Doing(w, {"clear"}) /\ Then(w, <<>>)
    BY <1>18 DEF Clear
  <2>2. c.i \in Slot /\ c.o \in Id /\ ~ Idle(w)
    BY <1>1, <1>2, <2>1
  <2>3. list' = [list EXCEPT ![c.i] = {}]
    BY <1>18 DEF Clear, Listing, c
  <2>4. list' \in [Slot -> SUBSET Id]
    BY <2>2, <2>3 DEF TypeOK
  <2>5. LocalInv'
    BY <1>9, <1>18, <2>1, <2>2, Singles DEF Clear
  <2>6. TypeOK'
    BY <1>3, <1>18, <2>1, <2>2, <2>4, Singles DEF Clear, sockets, locals, TypeOK
  <2> QED
    BY <2>5, <2>6
<1>19. CASE Send(w)
  <2>1. Doing(w, {"put", "remove", "tell"})
    BY <1>19 DEF Send
  <2>2. c.i \in Slot /\ c.o \in Id /\ ~ Idle(w)
    BY <1>1, <1>2, <2>1
  <2>3. CASE open[c.i]
    <3>1. /\ Then(w, <<>>)
          /\ shown' = [shown EXCEPT ![c.i] =
               CASE c.op = "put" -> shown[c.i] \cup {c.o}
                 [] c.op = "remove" -> shown[c.i] \ {c.o}
                 [] c.op = "tell" -> shown[c.i]]
      BY <1>19, <2>3 DEF Send, c
    <3>2. c.op = "put" \/ c.op = "remove" \/ c.op = "tell"
      BY <1>1, <2>1
    <3>3. shown' \in [Slot -> SUBSET Id]
      BY <2>2, <3>1, <3>2 DEF TypeOK
    <3>4. LocalInv'
      BY <1>9, <1>19, <2>2, <3>1, Singles DEF Send
    <3>5. TypeOK'
      BY <1>3, <1>19, <2>2, <3>1, <3>3, Singles DEF Send, sockets, locals, TypeOK
    <3> QED
      BY <3>4, <3>5
  <2>4. CASE ~ open[c.i]
    <3>1. todo' = [todo EXCEPT ![w] = Hung] /\ UNCHANGED <<shown, observers, locals>>
      BY <1>19, <2>4 DEF Send, c
    <3>2. LocalInv'
      BY <3>1, HungLocal
    <3>3. TypeOK'
      BY <1>19, <3>1, HungType DEF Send, sockets, locals, observers, TypeOK
    <3> QED
      BY <3>2, <3>3
  <2> QED
    BY <2>3, <2>4
<1>20. CASE Recv(w)
  <2>1. Doing(w, {"recv"})
    BY <1>20 DEF Recv
  <2>2. c.i \in Slot /\ ~ Idle(w)
    BY <1>1, <1>2, <2>1
  <2>3. CASE open[c.i]
    <3>1. Then(w, <<>>) /\ armed' = [armed EXCEPT ![c.i] = TRUE]
      BY <1>20, <2>3 DEF Recv, c
    <3>2. armed' \in [Slot -> BOOLEAN]
      BY <2>2, <3>1 DEF TypeOK
    <3>3. LocalInv'
      BY <1>9, <1>20, <2>2, <3>1, Singles DEF Recv
    <3>4. TypeOK'
      BY <1>3, <1>20, <2>2, <3>1, <3>2, Singles DEF Recv, shared, locals, TypeOK
    <3> QED
      BY <3>3, <3>4
  <2>4. CASE ~ open[c.i]
    <3>1. todo' = [todo EXCEPT ![w] = Hung] /\ UNCHANGED <<armed, observers, locals>>
      BY <1>20, <2>4 DEF Recv, c
    <3>2. LocalInv'
      BY <3>1, HungLocal
    <3>3. TypeOK'
      BY <1>20, <3>1, HungType DEF Recv, shared, locals, observers, TypeOK
    <3> QED
      BY <3>2, <3>3
  <2> QED
    BY <2>3, <2>4
<1>21. CASE Connect(w)
  <2>1. Doing(w, {"socket"}) /\ Then(w, <<>>)
    BY <1>21 DEF Connect
  <2>2. c.i \in Slot /\ ~ Idle(w)
    BY <1>1, <1>2, <2>1
  <2>3. open' = [open EXCEPT ![c.i] = TRUE] /\ shown' = [shown EXCEPT ![c.i] = {}]
    BY <1>21 DEF Connect, c
  <2>4. open' \in [Slot -> BOOLEAN] /\ shown' \in [Slot -> SUBSET Id]
    BY <2>2, <2>3 DEF TypeOK
  <2>5. LocalInv'
    BY <1>9, <1>21, <2>1, <2>2, Singles DEF Connect
  <2>6. TypeOK'
    BY <1>3, <1>21, <2>1, <2>2, <2>4, Singles DEF Connect, locals, TypeOK
  <2> QED
    BY <2>5, <2>6
<1>22. CASE Close(w)
  <2>1. Doing(w, {"close"}) /\ Then(w, <<>>)
    BY <1>22 DEF Close
  <2>2. c.i \in Slot /\ ~ Idle(w)
    BY <1>1, <1>2, <2>1
  <2>3. /\ open' = [open EXCEPT ![c.i] = FALSE]
        /\ armed' = [armed EXCEPT ![c.i] = FALSE]
        /\ late' = IF armed[c.i] THEN late \cup {c.i} ELSE late
        /\ shown' = [shown EXCEPT ![c.i] = {}]
    BY <1>22 DEF Close, c
  <2>4. /\ open' \in [Slot -> BOOLEAN] /\ shown' \in [Slot -> SUBSET Id]
        /\ armed' \in [Slot -> BOOLEAN] /\ late' \subseteq Slot
    BY <2>2, <2>3 DEF TypeOK
  <2>5. LocalInv'
    BY <1>9, <1>22, <2>1, <2>2, Singles DEF Close
  <2>6. TypeOK'
    BY <1>3, <1>22, <2>1, <2>2, <2>4, Singles DEF Close, locals, TypeOK
  <2> QED
    BY <2>5, <2>6
<1>23. CASE Register(w)
  <2>1. Doing(w, {"use", "free"}) /\ Then(w, <<>>)
    BY <1>23 DEF Register
  <2>2. c.i \in Slot /\ ~ Idle(w)
    BY <1>1, <1>2, <2>1
  <2>3. in_use' = [in_use EXCEPT ![c.i] = (c.op = "use")]
    BY <1>23 DEF Register, c
  <2>4. in_use' \in [Slot -> BOOLEAN]
    BY <2>2, <2>3 DEF TypeOK
  <2>5. LocalInv'
    BY <1>9, <1>23, <2>1, <2>2, Singles DEF Register
  <2>6. TypeOK'
    BY <1>3, <1>23, <2>1, <2>2, <2>4, Singles DEF Register, sockets, locals, TypeOK
  <2> QED
    BY <2>5, <2>6
<1> QED
  BY <1>4, <1>5, <1>6, <1>7, <1>8, <1>10, <1>11, <1>12, <1>13, <1>14, <1>15, <1>16,
     <1>17, <1>18, <1>19, <1>20, <1>21, <1>22, <1>23 DEF Operate

LEMMA Joint3 ==
  ASSUME NEW p \in Seq(Operation), NEW q \in Seq(Operation), NEW r \in Seq(Operation)
  PROVE  /\ p \o q \o r \in Seq(Operation)
         /\ \A c : c \in Range(p \o q \o r) <=> c \in Range(p) \/ c \in Range(q) \/ c \in Range(r)
<1>1. /\ p \o q \in Seq(Operation)
      /\ \A c : c \in Range(p \o q) <=> c \in Range(p) \/ c \in Range(q)
  BY Joint
<1> DEFINE pq == p \o q
<1> HIDE DEF pq
<1>2. /\ pq \o r \in Seq(Operation)
      /\ \A c : c \in Range(pq \o r) <=> c \in Range(pq) \/ c \in Range(r)
  BY <1>1, Joint DEF pq
<1> QED
  BY <1>1, <1>2 DEF pq

LEMMA Pairs ==
  ASSUME NEW c \in Operation, NEW d \in Operation
  PROVE  <<c, d>> \in Seq(Operation) /\ \A e : e \in Range(<<c, d>>) <=> e = c \/ e = d
BY DEF Range

(* The programs of the other handlers *)
LEMMA DummyType ==
  ASSUME NEW s \in Slot
  PROVE  /\ Shows(s) \o <<Op("recv", s, s)>> \in Seq(Operation)
         /\ \A c \in Range(Shows(s) \o <<Op("recv", s, s)>>) :
              c = Op("recv", s, s) \/ \E i \in Slot \ {s} : c = Op("show", i, s)
         /\ Shows(s) \o Notices(s) \o <<Op("recv", s, s)>> \in Seq(Operation)
         /\ \A c \in Range(Shows(s) \o Notices(s) \o <<Op("recv", s, s)>>) :
              \/ c = Op("recv", s, s)
              \/ \E i \in Slot \ {s} : c = Op("show", i, s)
              \/ \E n \in Npc : c = Op("notice", s, n)
<1> DEFINE last == <<Op("recv", s, s)>>
<1>1. Op("recv", s, s) \in Operation
  BY Ops DEF Id
<1>2. last \in Seq(Operation) /\ \A c : c \in Range(last) <=> c = Op("recv", s, s)
  BY <1>1, Singles
<1>3. Shows(s) \in Seq(Operation) /\ Notices(s) \in Seq(Operation)
  BY ShowsType, NoticesType
<1> HIDE DEF last
<1>4. /\ Shows(s) \o last \in Seq(Operation)
      /\ \A c : c \in Range(Shows(s) \o last) <=> c \in Range(Shows(s)) \/ c \in Range(last)
  BY <1>2, <1>3, Joint
<1>5. /\ Shows(s) \o Notices(s) \o last \in Seq(Operation)
      /\ \A c : c \in Range(Shows(s) \o Notices(s) \o last) <=>
           c \in Range(Shows(s)) \/ c \in Range(Notices(s)) \/ c \in Range(last)
  BY <1>2, <1>3, Joint3
<1>6. /\ \A c : c \in Range(Shows(s)) <=> \E i \in Slot \ {s} : c = Op("show", i, s)
      /\ \A c : c \in Range(Notices(s)) <=> \E n \in Npc : c = Op("notice", s, n)
  BY ShowsType, NoticesType
<1>7. /\ \A c \in Range(Shows(s) \o last) :
           c = Op("recv", s, s) \/ \E i \in Slot \ {s} : c = Op("show", i, s)
      /\ \A c \in Range(Shows(s) \o Notices(s) \o last) :
           \/ c = Op("recv", s, s)
           \/ \E i \in Slot \ {s} : c = Op("show", i, s)
           \/ \E n \in Npc : c = Op("notice", s, n)
  BY <1>2, <1>4, <1>5, <1>6, Zenon
<1> QED
  BY <1>4, <1>5, <1>7 DEF last

LEMMA EntranceType ==
  ASSUME NEW s \in Slot, NEW q \in Seq(Operation),
         \A c \in Range(q) : c = Op("tell", s, s) \/ c = Op("put", s, s)
  PROVE  /\ q \o Introductions(s) \o Chats(s) \in Seq(Operation)
         /\ \A c \in Range(q \o Introductions(s) \o Chats(s)) :
              \/ c = Op("tell", s, s) \/ c = Op("put", s, s)
              \/ \E i \in Slot \ {s} : c = Op("show", i, s)
              \/ \E i \in Slot \ {s} : c = Op("find", s, i)
              \/ \E n \in Npc : c = Op("notice", s, n)
              \/ \E i \in Slot : c = Op("chat", i, s)
<1>1. s \in Id
  BY DEF Id
<1>2. Introductions(s) \in Seq(Operation) /\ Chats(s) \in Seq(Operation)
  BY <1>1, IntroductionsType, ChatsType
<1>3. /\ \A c : c \in Range(Introductions(s)) <=>
              \/ \E i \in Slot \ {s} : c = Op("show", i, s)
              \/ \E i \in Slot \ {s} : c = Op("find", s, i)
              \/ \E n \in Npc : c = Op("notice", s, n)
      /\ \A c : c \in Range(Chats(s)) <=> \E i \in Slot : c = Op("chat", i, s)
  BY <1>1, IntroductionsType, ChatsType
<1>4. /\ q \o Introductions(s) \o Chats(s) \in Seq(Operation)
      /\ \A c : c \in Range(q \o Introductions(s) \o Chats(s)) <=>
           c \in Range(q) \/ c \in Range(Introductions(s)) \/ c \in Range(Chats(s))
  BY <1>2, Joint3
<1> QED
  BY <1>3, <1>4, Zenon

LEMMA DeathType ==
  ASSUME NEW s \in Slot
  PROVE  LET q == <<Op("tell", s, s)>> \o Chats(s) \o <<Op("mourn", s, s)>>
         IN  /\ q \in Seq(Operation)
             /\ \A c \in Range(q) : c.op \in {"tell", "chat", "mourn"}
<1> DEFINE first == <<Op("tell", s, s)>>
           last == <<Op("mourn", s, s)>>
<1>1. s \in Id
  BY DEF Id
<1>2. Op("tell", s, s) \in Operation /\ Op("mourn", s, s) \in Operation
  BY <1>1, Ops
<1>3. /\ first \in Seq(Operation) /\ \A c : c \in Range(first) <=> c = Op("tell", s, s)
      /\ last \in Seq(Operation) /\ \A c : c \in Range(last) <=> c = Op("mourn", s, s)
  BY <1>2, Singles
<1>4. Chats(s) \in Seq(Operation) /\ \A c \in Range(Chats(s)) : c.op = "chat"
  BY <1>1, ChatsType DEF Op
<1> HIDE DEF first, last
<1>5. /\ first \o Chats(s) \o last \in Seq(Operation)
      /\ \A c : c \in Range(first \o Chats(s) \o last) <=>
           c \in Range(first) \/ c \in Range(Chats(s)) \/ c \in Range(last)
  BY <1>3, <1>4, Joint3
<1>6. \A c \in Range(first \o Chats(s) \o last) : c.op \in {"tell", "chat", "mourn"}
  BY <1>3, <1>4, <1>5 DEF Op
<1> QED
  BY <1>5, <1>6 DEF first, last

LEMMA KillType ==
  ASSUME NEW s \in Slot, NEW n \in Npc
  PROVE  LET q == Chats(s) \o <<Op("tell", s, s), Op("tell", s, n)>>
                    \o OnEach("drop", Slots, n) \o <<Op("remove", s, n)>>
         IN  /\ q \in Seq(Operation)
             /\ \A c \in Range(q) :
                  \/ \E i \in Slot : c = Op("chat", i, s)
                  \/ c = Op("tell", s, s) \/ c = Op("tell", s, n)
                  \/ \E i \in Slot : c = Op("drop", i, n)
                  \/ c = Op("remove", s, n)
<1> DEFINE tells == <<Op("tell", s, s), Op("tell", s, n)>>
           drops == OnEach("drop", Slots, n)
           last == <<Op("remove", s, n)>>
<1>1. s \in Id /\ n \in Id
  BY DEF Id
<1>2. /\ Op("tell", s, s) \in Operation /\ Op("tell", s, n) \in Operation
      /\ Op("remove", s, n) \in Operation
      /\ \A i \in Slot : Op("drop", i, n) \in Operation
  BY <1>1, Ops
<1>3. /\ tells \in Seq(Operation)
      /\ \A c : c \in Range(tells) <=> c = Op("tell", s, s) \/ c = Op("tell", s, n)
  BY <1>2, Pairs
<1>4. last \in Seq(Operation) /\ \A c : c \in Range(last) <=> c = Op("remove", s, n)
  BY <1>2, Singles
<1>5. /\ drops \in Seq(Operation)
      /\ \A c : c \in Range(drops) <=> \E i \in Slot : c = Op("drop", i, n)
  BY <1>2, SlotsProgram, LoopType, LoopRange
<1>6. /\ Chats(s) \in Seq(Operation)
      /\ \A c : c \in Range(Chats(s)) <=> \E i \in Slot : c = Op("chat", i, s)
  BY <1>1, ChatsType
<1> HIDE DEF tells, drops, last
<1> DEFINE q == Chats(s) \o tells \o drops
<1>7. /\ q \in Seq(Operation)
      /\ \A c : c \in Range(q) <=> c \in Range(Chats(s)) \/ c \in Range(tells) \/ c \in Range(drops)
  BY <1>3, <1>5, <1>6, Joint3
<1> HIDE DEF q
<1>8. /\ q \o last \in Seq(Operation)
      /\ \A c : c \in Range(q \o last) <=> c \in Range(q) \/ c \in Range(last)
  BY <1>4, <1>7, Joint
<1>9. \A c \in Range(q \o last) :
        \/ \E i \in Slot : c = Op("chat", i, s)
        \/ c = Op("tell", s, s) \/ c = Op("tell", s, n)
        \/ \E i \in Slot : c = Op("drop", i, n)
        \/ c = Op("remove", s, n)
  BY <1>3, <1>4, <1>5, <1>6, <1>7, <1>8, Zenon
<1> QED
  BY <1>8, <1>9 DEF q, tells, drops, last

LEMMA NpcMoveType ==
  ASSUME NEW n \in Npc, NEW p \in World
  PROVE  LET q == OnEach("before", Slots, n) \o <<Op("step", n, p)>>
                    \o OnEach("after", Slots, n) \o <<Op("npc_plan", n, n)>>
         IN  /\ q \in Seq(Operation)
             /\ \A c \in Range(q) :
                  \/ \E i \in Slot : c = Op("before", i, n)
                  \/ c = Op("step", n, p)
                  \/ \E i \in Slot : c = Op("after", i, n)
                  \/ c = Op("npc_plan", n, n)
<1> DEFINE befores == OnEach("before", Slots, n)
           step == <<Op("step", n, p)>>
           afters == OnEach("after", Slots, n)
           last == <<Op("npc_plan", n, n)>>
<1>1. n \in Id
  BY DEF Id
<1>2. /\ Op("step", n, p) \in Operation /\ Op("npc_plan", n, n) \in Operation
      /\ \A i \in Slot : Op("before", i, n) \in Operation
      /\ \A i \in Slot : Op("after", i, n) \in Operation
  BY <1>1, Ops
<1>3. /\ step \in Seq(Operation) /\ \A c : c \in Range(step) <=> c = Op("step", n, p)
      /\ last \in Seq(Operation) /\ \A c : c \in Range(last) <=> c = Op("npc_plan", n, n)
  BY <1>2, Singles
<1>4. /\ befores \in Seq(Operation)
      /\ \A c : c \in Range(befores) <=> \E i \in Slot : c = Op("before", i, n)
      /\ afters \in Seq(Operation)
      /\ \A c : c \in Range(afters) <=> \E i \in Slot : c = Op("after", i, n)
  BY <1>2, SlotsProgram, LoopType, LoopRange
<1> HIDE DEF befores, step, afters, last
<1> DEFINE q == befores \o step \o afters
<1>5. /\ q \in Seq(Operation)
      /\ \A c : c \in Range(q) <=> c \in Range(befores) \/ c \in Range(step) \/ c \in Range(afters)
  BY <1>3, <1>4, Joint3
<1> HIDE DEF q
<1>6. /\ q \o last \in Seq(Operation)
      /\ \A c : c \in Range(q \o last) <=> c \in Range(q) \/ c \in Range(last)
  BY <1>3, <1>5, Joint
<1>7. \A c \in Range(q \o last) :
        \/ \E i \in Slot : c = Op("before", i, n)
        \/ c = Op("step", n, p)
        \/ \E i \in Slot : c = Op("after", i, n)
        \/ c = Op("npc_plan", n, n)
  BY <1>3, <1>4, <1>5, <1>6, Zenon
<1> QED
  BY <1>6, <1>7 DEF q, befores, step, afters, last

LEMMA SteppedInWorld ==
  ASSUME NEW p \in World, NEW d
  PROVE  Stepped(p, d) \in World
BY WorldAssumption DEF Stepped, World

\* Only CS_MOVE and random_move_NPC collect sets.
Fine(kind, x, seen, program) ==
  \A c \in Range(program) :
    /\ c.op \in {"scan", "plan"} => kind = "move" /\ c.i = x
    /\ c.op \in {"before", "after", "npc_plan"} => kind = "npc_move" /\ seen = {}

LEMMA BeginType ==
  ASSUME TypeOK, LocalInv, NEW w \in Thread, NEW kind, NEW x \in Id,
         NEW seen \in SUBSET Id, NEW program \in Seq(Operation),
         Start(w, kind, x, seen, program), Fine(kind, x, seen, program)
  PROVE  /\ LocalInv'
         /\ todo' \in [Thread -> Seq(Operation)]
         /\ old' \in [Thread -> SUBSET Id] /\ new' \in [Thread -> SUBSET Id]
         /\ job' \in [Thread -> (Handlers \cup {"none"}) \X Id]
         /\ alone' \subseteq Thread
<1>1. /\ todo' \in [Thread -> Seq(Operation)]
      /\ old' \in [Thread -> SUBSET Id] /\ new' \in [Thread -> SUBSET Id]
      /\ job' \in [Thread -> (Handlers \cup {"none"}) \X Id]
      /\ alone' \subseteq {w}
      /\ \A v \in Thread \ {w} :
           todo'[v] = todo[v] /\ job'[v] = job[v] /\ old'[v] = old[v] /\ new'[v] = new[v]
      /\ job'[w] = <<kind, x>> /\ old'[w] = seen /\ new'[w] = {}
      /\ \A c : c \in Pending(w)' <=> c \in Range(program)
  <2>1. todo' \in [Thread -> Seq(Operation)]
    BY StartType
  <2>2. alone' \subseteq {w}
    BY StartType
  <2>3. \A c : c \in Pending(w)' <=> c \in Range(program)
    BY StartType
  <2>4. /\ old' \in [Thread -> SUBSET Id] /\ new' \in [Thread -> SUBSET Id]
        /\ job' \in [Thread -> (Handlers \cup {"none"}) \X Id]
    BY StartType
  <2>5. \A v \in Thread \ {w} :
          todo'[v] = todo[v] /\ job'[v] = job[v] /\ old'[v] = old[v] /\ new'[v] = new[v]
    BY StartType
  <2>6. job'[w] = <<kind, x>> /\ old'[w] = seen /\ new'[w] = {}
    BY DEF Start, TypeOK
  <2> QED
    BY <2>1, <2>2, <2>3, <2>4, <2>5, <2>6
<1>2. \A v \in Thread \ {w} : Pending(v)' = Pending(v)
  BY <1>1 DEF Pending
<1>3. ASSUME NEW v \in Thread, NEW c \in Pending(v)'
      PROVE  /\ c.op \in {"scan", "plan"} =>
                  job'[v][1] = "move" /\ c.i = job'[v][2] /\ c.i \notin new'[v]
             /\ c.op \in {"before", "after", "npc_plan"} =>
                  job'[v][1] = "npc_move" /\ old'[v] \cup new'[v] \subseteq Slot
  <2>1. CASE v # w
    <3>1. /\ c \in Pending(v) /\ job'[v] = job[v]
          /\ old'[v] = old[v] /\ new'[v] = new[v]
      BY <1>1, <1>2, <2>1
    <3> QED
      BY <3>1 DEF LocalInv
  <2>2. CASE v = w
    <3>1. c \in Range(program)
      BY <1>1, <2>2
    <3> QED
      BY <1>1, <2>2, <3>1 DEF Fine
  <2> QED
    BY <2>1, <2>2
<1>4. LocalInv'
  BY <1>3 DEF LocalInv
<1> QED
  BY <1>1, <1>4

LEMMA TakeType ==
  ASSUME TypeOK, LocalInv, NEW w \in Worker, Take(w), calm' \in BOOLEAN
  PROVE  TypeOK' /\ LocalInv'
<1>1. w \in Thread /\ Slot \subseteq Id /\ Npc \subseteq Id
  BY DEF Thread, Id
<1>2. ASSUME NEW kind, NEW x \in Id, NEW seen \in SUBSET Id, NEW program \in Seq(Operation),
             Start(w, kind, x, seen, program), Fine(kind, x, seen, program),
             in_use' \in [Slot -> BOOLEAN], is_dummy' \in [Slot -> BOOLEAN],
             reviving' \in [Slot -> 0 .. MaxRevive], is_die' \in [Npc -> BOOLEAN],
             at' \in [Id -> World \cup {DeadPos}], \A s \in Slot : at'[s] \in World,
             UNCHANGED <<list, shown, open>>,
             armed' \in [Slot -> BOOLEAN], late' \subseteq Slot
      PROVE  TypeOK' /\ LocalInv'
  <2>1. /\ LocalInv'
        /\ todo' \in [Thread -> Seq(Operation)]
        /\ old' \in [Thread -> SUBSET Id] /\ new' \in [Thread -> SUBSET Id]
        /\ job' \in [Thread -> (Handlers \cup {"none"}) \X Id]
        /\ alone' \subseteq Thread
    <3>1. LocalInv'
      BY <1>1, <1>2, BeginType
    <3>2. todo' \in [Thread -> Seq(Operation)]
      BY <1>1, <1>2, BeginType
    <3>3. old' \in [Thread -> SUBSET Id] /\ new' \in [Thread -> SUBSET Id]
      BY <1>1, <1>2, BeginType
    <3>4. job' \in [Thread -> (Handlers \cup {"none"}) \X Id] /\ alone' \subseteq Thread
      BY <1>1, <1>2, BeginType
    <3> QED
      BY <3>1, <3>2, <3>3, <3>4
  <2> QED
    BY <1>2, <2>1 DEF TypeOK
<1>3. ASSUME NEW kind, NEW x \in Id, NEW seen, NEW program, \A c \in Range(program) : c.op \notin Collecting
      PROVE  Fine(kind, x, seen, program)
  BY <1>3 DEF Collecting, Fine
<1>4. ASSUME NEW s \in Slot, Received(s)
      PROVE  armed' \in [Slot -> BOOLEAN] /\ late' \subseteq Slot /\ open' = open
  BY <1>4 DEF Received, TypeOK
<1>5. ASSUME UNCHANGED shared
      PROVE  /\ in_use' \in [Slot -> BOOLEAN] /\ is_dummy' \in [Slot -> BOOLEAN]
             /\ reviving' \in [Slot -> 0 .. MaxRevive] /\ is_die' \in [Npc -> BOOLEAN]
             /\ at' \in [Id -> World \cup {DeadPos}] /\ \A s \in Slot : at'[s] \in World
             /\ UNCHANGED <<list, shown>>
  BY <1>5 DEF shared, TypeOK
<1>6. ASSUME NEW s \in Slot, NEW p \in World, at' = [at EXCEPT ![s] = p]
      PROVE  at' \in [Id -> World \cup {DeadPos}] /\ \A i \in Slot : at'[i] \in World
  BY <1>1, <1>6 DEF TypeOK
<1>7. ASSUME NEW s \in Slot
      PROVE  /\ Teardown(s) \in Seq(Operation) /\ Hung \in Seq(Operation)
             /\ \A c \in Range(Teardown(s)) : c.op \notin Collecting
             /\ \A c \in Range(Hung) : c.op \notin Collecting
  <2>1. Op("hung", 0, 0) \in Operation
    BY Ops, SizeAssumption DEF Id, Slot
  <2> QED
    BY <2>1, Singles, TeardownType DEF Hung, Collecting, Op
<1>8. ASSUME NEW s \in Slot, NEW d \in 0 .. 4, StartMove(w, s, d)
      PROVE  TypeOK' /\ LocalInv'
  <2> DEFINE q == <<Op("step", s, Stepped(at[s], d))>> \o AboutEach("scan", s, Others(s) \o Npcs)
                    \o <<Op("plan", s, s)>>
  <2>1. Stepped(at[s], d) \in World
    BY SteppedInWorld DEF TypeOK
  <2>2. /\ q \in Seq(Operation)
        /\ \A c : c \in Range(q) <=>
             \/ c = Op("step", s, Stepped(at[s], d))
             \/ \E x \in Id \ {s} : c = Op("scan", s, x)
             \/ c = Op("plan", s, s)
    BY <2>1, MoveType
  <2>3. Received(s) /\ Start(w, "move", s, list[s], q) /\ UNCHANGED shared
    BY <1>8 DEF StartMove
  <2> HIDE DEF q
  <2>4. Fine("move", s, list[s], q)
    BY <2>2 DEF Fine, Op
  <2>5. list[s] \in SUBSET Id
    BY DEF TypeOK
  <2> QED
    BY <1>1, <1>2, <1>4, <1>5, <2>2, <2>3, <2>4, <2>5
<1>9. ASSUME NEW s \in Slot, NEW p \in World, NEW kind, NEW loops, StartDummy(w, kind, s, p, loops),
             loops \o <<Op("recv", s, s)>> \in Seq(Operation),
             \A c \in Range(loops \o <<Op("recv", s, s)>>) : c.op \notin Collecting
      PROVE  TypeOK' /\ LocalInv'
  <2> DEFINE q == loops \o <<Op("recv", s, s)>>
  <2>1. /\ Received(s) /\ Start(w, kind, s, {}, q)
        /\ at' = [at EXCEPT ![s] = p]
        /\ is_dummy' = [is_dummy EXCEPT ![s] = TRUE]
        /\ in_use' = [in_use EXCEPT ![s] = TRUE]
        /\ UNCHANGED <<list, shown, reviving, is_die>>
    BY <1>9 DEF StartDummy
  <2>2. q \in Seq(Operation) /\ \A c \in Range(q) : c.op \notin Collecting
    BY <1>9
  <2> HIDE DEF q
  <2>3. Fine(kind, s, {}, q)
    BY <1>1, <1>3, <2>2
  <2>4. /\ in_use' \in [Slot -> BOOLEAN] /\ is_dummy' \in [Slot -> BOOLEAN]
        /\ reviving' \in [Slot -> 0 .. MaxRevive] /\ is_die' \in [Npc -> BOOLEAN]
    BY <2>1 DEF TypeOK
  <2> QED
    BY <1>1, <1>2, <1>4, <1>6, <2>1, <2>2, <2>3, <2>4
<1>10. ASSUME NEW s \in Slot, NEW p \in World, StartCcuTest(w, s, p)
       PROVE  TypeOK' /\ LocalInv'
  <2>1. \A c \in Range(Shows(s) \o <<Op("recv", s, s)>>) : c.op \notin Collecting
    BY DummyType DEF Collecting, Op
  <2> QED
    BY <1>9, <1>10, <2>1, DummyType DEF StartCcuTest
<1>11. ASSUME NEW s \in Slot, StartHotspotTest(w, s)
       PROVE  TypeOK' /\ LocalInv'
  <2>1. \A c \in Range(Shows(s) \o Notices(s) \o <<Op("recv", s, s)>>) : c.op \notin Collecting
    BY DummyType DEF Collecting, Op
  <2> QED
    BY <1>9, <1>11, <2>1, DummyType, PlaceAssumption DEF StartHotspotTest
<1>12. ASSUME NEW s \in Slot, NEW program \in {Teardown(s), Hung}, Start(w, "disconnect", s, {}, program),
              UNCHANGED shared, armed' \in [Slot -> BOOLEAN], late' \subseteq Slot, open' = open
       PROVE  TypeOK' /\ LocalInv'
  <2>1. program \in Seq(Operation) /\ \A c \in Range(program) : c.op \notin Collecting
    BY <1>7
  <2>2. Fine("disconnect", s, {}, program)
    BY <1>1, <1>3, <2>1
  <2> QED
    BY <1>1, <1>2, <1>5, <1>12, <2>1, <2>2
<1>13. ASSUME NEW s \in Slot, StartEof(w, s) \/ StartDrop(w, s) \/ StartLate(w, s)
       PROVE  TypeOK' /\ LocalInv'
  <2>1. CASE StartEof(w, s)
    BY <1>4, <1>12, <2>1 DEF StartEof
  <2>2. CASE StartDrop(w, s)
    <3>1. armed' \in [Slot -> BOOLEAN] /\ late' \subseteq Slot /\ open' = open
      BY <2>2 DEF StartDrop, sockets, TypeOK
    <3> QED
      BY <1>12, <2>2, <3>1 DEF StartDrop
  <2>3. CASE StartLate(w, s)
    <3>1. armed' \in [Slot -> BOOLEAN] /\ late' \subseteq Slot /\ open' = open
      BY <2>3 DEF StartLate, TypeOK
    <3> QED
      BY <1>12, <2>3, <3>1 DEF StartLate
  <2> QED
    BY <1>13, <2>1, <2>2, <2>3
<1>14. ASSUME UNCHANGED sockets
       PROVE  armed' \in [Slot -> BOOLEAN] /\ late' \subseteq Slot /\ open' = open
  BY <1>14 DEF sockets, TypeOK
<1>15. ASSUME NEW s \in Slot, NEW p \in World, StartLogin(w, s, p)
       PROVE  TypeOK' /\ LocalInv'
  <2> DEFINE first == <<Op("tell", s, s), Op("put", s, s)>>
             q == first \o Introductions(s) \o Chats(s)
  <2>1. Op("tell", s, s) \in Operation /\ Op("put", s, s) \in Operation
    BY <1>1, Ops
  <2>2. /\ first \in Seq(Operation)
        /\ \A c : c \in Range(first) <=> c = Op("tell", s, s) \/ c = Op("put", s, s)
    BY <2>1, Pairs
  <2>3. Start(w, "login", s, {}, q)
    BY <1>15 DEF StartLogin
  <2> HIDE DEF first
  <2>4. q \in Seq(Operation) /\ \A c \in Range(q) : c.op \notin Collecting
    BY <2>2, EntranceType DEF Collecting, Op
  <2> HIDE DEF q
  <2>5. Fine("login", s, {}, q)
    BY <1>1, <1>3, <2>4
  <2>6. at' \in [Id -> World \cup {DeadPos}] /\ \A i \in Slot : at'[i] \in World
    BY <1>6, <1>15 DEF StartLogin
  <2>7. /\ in_use' \in [Slot -> BOOLEAN] /\ is_dummy' \in [Slot -> BOOLEAN]
        /\ reviving' \in [Slot -> 0 .. MaxRevive] /\ is_die' \in [Npc -> BOOLEAN]
        /\ UNCHANGED <<list, shown, sockets>>
    BY <1>15 DEF StartLogin, TypeOK
  <2> QED
    BY <1>1, <1>2, <1>14, <2>3, <2>4, <2>5, <2>6, <2>7
<1>16. ASSUME NEW s \in Slot, StartDeath(w, s)
       PROVE  TypeOK' /\ LocalInv'
  <2> DEFINE q == <<Op("tell", s, s)>> \o Chats(s) \o <<Op("mourn", s, s)>>
  <2>1. q \in Seq(Operation) /\ \A c \in Range(q) : c.op \notin Collecting
    BY DeathType DEF Collecting
  <2>2. Start(w, "death", s, {}, q) /\ UNCHANGED <<shared, sockets>>
    BY <1>16 DEF StartDeath
  <2> HIDE DEF q
  <2>3. Fine("death", s, {}, q)
    BY <1>1, <1>3, <2>1
  <2> QED
    BY <1>1, <1>2, <1>5, <1>14, <2>1, <2>2, <2>3
<1>17. ASSUME NEW s \in Slot, NEW h \in Home, StartResurrection(w, s, h)
       PROVE  TypeOK' /\ LocalInv'
  <2> DEFINE first == <<Op("put", s, s)>>
             q == first \o Introductions(s) \o Chats(s)
  <2>1. Op("put", s, s) \in Operation
    BY <1>1, Ops
  <2>2. first \in Seq(Operation) /\ \A c : c \in Range(first) <=> c = Op("put", s, s)
    BY <2>1, Singles
  <2>3. Start(w, "resurrection", s, {}, q)
    BY <1>17 DEF StartResurrection
  <2> HIDE DEF first
  <2>4. q \in Seq(Operation) /\ \A c \in Range(q) : c.op \notin Collecting
    BY <2>2, EntranceType DEF Collecting, Op
  <2> HIDE DEF q
  <2>5. Fine("resurrection", s, {}, q)
    BY <1>1, <1>3, <2>4
  <2>6. at' \in [Id -> World \cup {DeadPos}] /\ \A i \in Slot : at'[i] \in World
    BY <1>6, <1>17, PlaceAssumption DEF StartResurrection
  <2>7. reviving' \in [Slot -> 0 .. MaxRevive]
    BY <1>17, SizeAssumption DEF StartResurrection, TypeOK
  <2>8. /\ in_use' \in [Slot -> BOOLEAN] /\ is_dummy' \in [Slot -> BOOLEAN]
        /\ is_die' \in [Npc -> BOOLEAN] /\ UNCHANGED <<list, shown, sockets>>
    BY <1>17 DEF StartResurrection, TypeOK
  <2> QED
    BY <1>1, <1>2, <1>14, <2>3, <2>4, <2>5, <2>6, <2>7, <2>8
<1>18. ASSUME NEW s \in Slot, NEW n \in Npc, StartKill(w, s, n)
       PROVE  TypeOK' /\ LocalInv'
  <2> DEFINE q == Chats(s) \o <<Op("tell", s, s), Op("tell", s, n)>>
                    \o OnEach("drop", Slots, n) \o <<Op("remove", s, n)>>
  <2>1. q \in Seq(Operation) /\ \A c \in Range(q) : c.op \notin Collecting
    BY KillType DEF Collecting, Op
  <2>2. Start(w, "kill", s, {}, q)
    BY <1>18 DEF StartKill
  <2> HIDE DEF q
  <2>3. Fine("kill", s, {}, q)
    BY <1>1, <1>3, <2>1
  <2>4. at' \in [Id -> World \cup {DeadPos}] /\ \A i \in Slot : at'[i] \in World
    BY <1>1, <1>18, IdAssumption DEF StartKill, TypeOK
  <2>5. /\ in_use' \in [Slot -> BOOLEAN] /\ is_dummy' \in [Slot -> BOOLEAN]
        /\ reviving' \in [Slot -> 0 .. MaxRevive] /\ is_die' \in [Npc -> BOOLEAN]
        /\ UNCHANGED <<list, shown, sockets>>
    BY <1>18 DEF StartKill, TypeOK
  <2> QED
    BY <1>1, <1>2, <1>14, <2>1, <2>2, <2>3, <2>4, <2>5
<1>19. ASSUME NEW n \in Npc, NEW d \in 0 .. 3, StartNpcMove(w, n, d)
       PROVE  TypeOK' /\ LocalInv'
  <2> DEFINE p == Stepped(at[n], d)
             q == OnEach("before", Slots, n) \o <<Op("step", n, p)>>
                    \o OnEach("after", Slots, n) \o <<Op("npc_plan", n, n)>>
  <2>1. at[n] \in World
    <3>1. PICK i \in Slot : is_npc_eyesight(at[i], at[n])
      BY <1>19 DEF StartNpcMove
    <3>2. at[i] \in World /\ at[n] \in World \cup {DeadPos}
      BY <1>1 DEF TypeOK
    <3> QED
      BY <3>1, <3>2, DeadPosAssumption
  <2>2. p \in World
    BY <2>1, SteppedInWorld
  <2>3. Start(w, "npc_move", n, {}, q) /\ UNCHANGED <<shared, sockets>>
    BY <1>19 DEF StartNpcMove
  <2> HIDE DEF p
  <2>4. /\ q \in Seq(Operation)
        /\ \A c \in Range(q) :
             \/ \E i \in Slot : c = Op("before", i, n)
             \/ c = Op("step", n, p)
             \/ \E i \in Slot : c = Op("after", i, n)
             \/ c = Op("npc_plan", n, n)
    BY <2>2, NpcMoveType
  <2> HIDE DEF q
  <2>5. Fine("npc_move", n, {}, q)
    BY <2>4 DEF Fine, Op
  <2> QED
    BY <1>1, <1>2, <1>5, <1>14, <2>3, <2>4, <2>5
<1>20. ASSUME NEW n \in Npc, NpcResurrection(w, n)
       PROVE  TypeOK' /\ LocalInv'
  BY <1>20 DEF NpcResurrection, sockets, locals, TypeOK, LocalInv, Pending
<1> QED
  BY <1>8, <1>10, <1>11, <1>13, <1>15, <1>16, <1>17, <1>18, <1>19, <1>20 DEF Take

LEMMA AcceptType ==
  ASSUME TypeOK, LocalInv, StartAccept, calm' \in BOOLEAN
  PROVE  TypeOK' /\ LocalInv'
<1>1. PICK s \in Slot : Start(Acceptor, "accept", s, {}, Admission(s)) /\ UNCHANGED <<shared, sockets>>
  BY DEF StartAccept
<1>2. Acceptor \in Thread /\ s \in Id
  BY DEF Thread, Id
<1>3. /\ Admission(s) \in Seq(Operation)
      /\ \A c \in Range(Admission(s)) : c.op \notin Collecting
  BY AdmissionType DEF Collecting, Op
<1>4. /\ LocalInv'
      /\ todo' \in [Thread -> Seq(Operation)]
      /\ old' \in [Thread -> SUBSET Id] /\ new' \in [Thread -> SUBSET Id]
      /\ job' \in [Thread -> (Handlers \cup {"none"}) \X Id]
      /\ alone' \subseteq Thread
  <2>1. Fine("accept", s, {}, Admission(s))
    BY <1>3 DEF Collecting, Fine
  <2>2. {} \in SUBSET Id
    OBVIOUS
  <2>3. LocalInv'
    BY <1>1, <1>2, <1>3, <2>1, <2>2, BeginType
  <2>4. todo' \in [Thread -> Seq(Operation)]
    BY <1>1, <1>2, <1>3, <2>1, <2>2, BeginType
  <2>5. old' \in [Thread -> SUBSET Id] /\ new' \in [Thread -> SUBSET Id]
    BY <1>1, <1>2, <1>3, <2>1, <2>2, BeginType
  <2>6. job' \in [Thread -> (Handlers \cup {"none"}) \X Id] /\ alone' \subseteq Thread
    BY <1>1, <1>2, <1>3, <2>1, <2>2, BeginType
  <2> QED
    BY <2>3, <2>4, <2>5, <2>6
<1> QED
  BY <1>1, <1>4 DEF TypeOK, shared, sockets

LEMMA NextType ==
  ASSUME TypeOK, LocalInv, [Next]_vars
  PROVE  TypeOK' /\ LocalInv'
<1>1. CASE UNCHANGED vars
  BY <1>1 DEF vars, shared, sockets, locals, observers, TypeOK, LocalInv, Pending
<1>2. CASE Next
  <2>1. calm' \in BOOLEAN
    BY <1>2 DEF Next, TypeOK
  <2>2. CASE StartAccept
    BY <2>1, <2>2, AcceptType
  <2>3. CASE \E w \in Worker : Take(w)
    BY <2>1, <2>3, TakeType
  <2>4. CASE \E w \in Thread : Operate(w)
    BY <2>1, <2>4, OperateType
  <2> QED
    BY <1>2, <2>2, <2>3, <2>4 DEF Next
<1> QED
  BY <1>1, <1>2

LEMMA InitType == Init => TypeOK /\ LocalInv
<1> SUFFICES ASSUME Init
             PROVE  TypeOK /\ LocalInv
  OBVIOUS
<1>1. PICK home \in [Npc -> World] :
         at = [x \in Slot \cup Npc |-> IF x \in Npc THEN home[x] ELSE <<0, 0>>]
  BY DEF Init
<1>2. <<0, 0>> \in World
  BY WorldAssumption DEF World
<1>3. at \in [Id -> World \cup {DeadPos}] /\ \A s \in Slot : at[s] \in World
  BY <1>1, <1>2, IdAssumption DEF Id
<1>4. NoJob \in (Handlers \cup {"none"}) \X Id
  BY SizeAssumption DEF NoJob, Id, Slot
<1>5. todo \in [Thread -> Seq(Operation)] /\ \A w \in Thread : \A c : c \notin Pending(w)
  BY Singles DEF Init, Pending
<1>6. LocalInv
  BY <1>5 DEF LocalInv
<1>7. TypeOK
  BY <1>3, <1>4, <1>5, SizeAssumption DEF Init, TypeOK
<1> QED
  BY <1>6, <1>7

(* The variables of the model keep their types. *)
THEOREM TypeCorrect == Spec => [](TypeOK /\ LocalInv)
<1>1. Init => TypeOK /\ LocalInv
  BY InitType
<1>2. TypeOK /\ LocalInv /\ [Next]_vars => TypeOK' /\ LocalInv'
  BY NextType
<1> QED
  BY <1>1, <1>2, PTL DEF Spec

-----------------------------------------------------------------------------
(* A thread on its own. *)

LEMMA OpNames ==
  ASSUME NEW w
  PROVE  /\ Step(w) => Doing(w, {"step"})
         /\ Scan(w) => Doing(w, {"scan"})
         /\ NpcScan(w) => Doing(w, {"before", "after"})
         /\ Plan(w) => Doing(w, {"plan"})
         /\ NpcPlan(w) => Doing(w, {"npc_plan"})
         /\ Mourn(w) => Doing(w, {"mourn"})
         /\ Revive(w) => Doing(w, {"revive"})
         /\ Look(w) => Doing(w, {"show", "find", "notice", "leave", "chat", "drop"})
         /\ See(w) => Doing(w, {"see", "greet"})
         /\ Meet(w) => Doing(w, {"meet"})
         /\ Lose(w) => Doing(w, {"lose", "part"})
         /\ Forget(w) => Doing(w, {"forget"})
         /\ Erase(w) => Doing(w, {"erase"})
         /\ Clear(w) => Doing(w, {"clear"})
         /\ Send(w) => Doing(w, {"put", "remove", "tell"})
         /\ Recv(w) => Doing(w, {"recv"})
         /\ Connect(w) => Doing(w, {"socket"})
         /\ Close(w) => Doing(w, {"close"})
         /\ Register(w) => Doing(w, {"use", "free"})
<1>1. Look(w) => Doing(w, {"show", "find", "notice", "leave", "chat", "drop"})
  BY DEF Look, Doing
<1>2. /\ Step(w) => Doing(w, {"step"})
      /\ Scan(w) => Doing(w, {"scan"})
      /\ NpcScan(w) => Doing(w, {"before", "after"})
      /\ Plan(w) => Doing(w, {"plan"})
      /\ NpcPlan(w) => Doing(w, {"npc_plan"})
      /\ Mourn(w) => Doing(w, {"mourn"})
      /\ Revive(w) => Doing(w, {"revive"})
  BY DEF Step, Scan, NpcScan, Plan, NpcPlan, Mourn, Revive
<1>3. /\ See(w) => Doing(w, {"see", "greet"})
      /\ Meet(w) => Doing(w, {"meet"})
      /\ Lose(w) => Doing(w, {"lose", "part"})
      /\ Forget(w) => Doing(w, {"forget"})
      /\ Erase(w) => Doing(w, {"erase"})
      /\ Clear(w) => Doing(w, {"clear"})
  BY DEF See, Meet, Lose, Forget, Erase, Clear
<1>4. /\ Send(w) => Doing(w, {"put", "remove", "tell"})
      /\ Recv(w) => Doing(w, {"recv"})
      /\ Connect(w) => Doing(w, {"socket"})
      /\ Close(w) => Doing(w, {"close"})
      /\ Register(w) => Doing(w, {"use", "free"})
  BY DEF Send, Recv, Connect, Close, Register
<1> QED
  BY <1>1, <1>2, <1>3, <1>4

(* One operation of w: then more of its program, or nothing ever again. *)
LEMMA OperateFrame ==
  ASSUME TypeOK, LocalInv, NEW w \in Thread, Operate(w)
  PROVE  /\ ~ Idle(w) /\ ~ Stuck(w)
         /\ alone' \subseteq alone
         /\ \A v \in Thread \ {w} : todo'[v] = todo[v] /\ job'[v] = job[v]
         /\ ~ Stuck(w)' => job'[w] = job[w] \/ job'[w] = NoJob
<1>1. ASSUME NEW ops, Doing(w, ops), "hung" \notin ops
      PROVE  ~ Idle(w) /\ ~ Stuck(w)
  BY <1>1 DEF Doing, Stuck
<1>2. ~ Idle(w) /\ ~ Stuck(w)
  <2>1. /\ "hung" \notin {"step"} /\ "hung" \notin {"scan"} /\ "hung" \notin {"before", "after"}
        /\ "hung" \notin {"plan"} /\ "hung" \notin {"npc_plan"} /\ "hung" \notin {"mourn"}
        /\ "hung" \notin {"revive"} /\ "hung" \notin {"meet"} /\ "hung" \notin {"see", "greet"}
        /\ "hung" \notin {"show", "find", "notice", "leave", "chat", "drop"}
        /\ "hung" \notin {"lose", "part"} /\ "hung" \notin {"forget"} /\ "hung" \notin {"erase"}
        /\ "hung" \notin {"clear"} /\ "hung" \notin {"put", "remove", "tell"}
        /\ "hung" \notin {"recv"} /\ "hung" \notin {"socket"} /\ "hung" \notin {"close"}
        /\ "hung" \notin {"use", "free"}
    OBVIOUS
  <2> QED
    BY <1>1, <2>1, OpNames, Zenon DEF Operate
<1>3. ASSUME NEW more, Then(w, more)
      PROVE  /\ alone' \subseteq alone
             /\ \A v \in Thread \ {w} : todo'[v] = todo[v] /\ job'[v] = job[v]
             /\ job'[w] = job[w] \/ job'[w] = NoJob
  BY <1>3 DEF Then, TypeOK
<1>4. ASSUME todo' = [todo EXCEPT ![w] = Hung], UNCHANGED observers
      PROVE  /\ alone' \subseteq alone
             /\ \A v \in Thread \ {w} : todo'[v] = todo[v] /\ job'[v] = job[v]
             /\ Stuck(w)'
  BY <1>4, HungType DEF observers
<1>5. \/ \E more : Then(w, more)
      \/ todo' = [todo EXCEPT ![w] = Hung] /\ UNCHANGED observers
  <2>1. CASE Step(w) \/ Scan(w) \/ NpcScan(w) \/ Plan(w) \/ NpcPlan(w) \/ Mourn(w) \/ Revive(w)
    BY <2>1 DEF Step, Scan, NpcScan, Plan, NpcPlan, Mourn, Revive
  <2>2. CASE Look(w)
    BY <2>2 DEF Look
  <2>3. CASE See(w) \/ Meet(w) \/ Lose(w) \/ Forget(w) \/ Erase(w) \/ Clear(w)
    BY <2>3 DEF See, Meet, Lose, Forget, Erase, Clear
  <2>4. CASE Send(w)
    BY <2>4 DEF Send, observers
  <2>5. CASE Recv(w)
    BY <2>5 DEF Recv, observers
  <2>6. CASE Connect(w) \/ Close(w) \/ Register(w)
    BY <2>6 DEF Connect, Close, Register
  <2> QED
    BY <2>1, <2>2, <2>3, <2>4, <2>5, <2>6 DEF Operate
<1> QED
  BY <1>2, <1>3, <1>4, <1>5

\* No other thread is in the middle of its handler.
AloneInv == \A w \in alone : \A v \in Thread \ {w} : Idle(v) \/ Stuck(v)

LEMMA OnlyOne ==
  ASSUME TypeOK, LocalInv, AloneInv, NEW w \in Thread, Operate(w)
  PROVE  /\ AloneInv'
         /\ \A v \in alone' : v = w /\ v \in alone
<1>1. \A v \in alone' : v = w /\ v \in alone
  BY OperateFrame DEF AloneInv
<1>2. \A v \in Thread \ {w} : todo'[v] = todo[v]
  BY OperateFrame
<1> QED
  BY <1>1, <1>2 DEF AloneInv, Idle, Stuck

LEMMA AloneBegins ==
  ASSUME TypeOK, NEW w \in Thread, NEW kind, NEW x, NEW seen, NEW program,
         Start(w, kind, x, seen, program)
  PROVE  /\ AloneInv' /\ alone' \subseteq {w}
         /\ job'[w] = <<kind, x>> /\ todo'[w] = program
<1>1. \A v \in Thread \ {w} : todo'[v] = todo[v]
  BY DEF Start, TypeOK
<1>2. alone' = IF \A v \in Thread : Idle(v) \/ Stuck(v) THEN {w} ELSE {}
  BY DEF Start
<1>3. job'[w] = <<kind, x>> /\ todo'[w] = program
  BY DEF Start, TypeOK
<1> QED
  BY <1>1, <1>2, <1>3 DEF AloneInv, Idle, Stuck

(* What a thread on its own starts with. *)
LEMMA TakeFrame ==
  ASSUME TypeOK, NEW w \in Thread, (w \in Worker /\ Take(w)) \/ (w = Acceptor /\ StartAccept)
  PROVE  /\ AloneInv' /\ alone' \subseteq {w}
         /\ w \in alone' /\ job'[w][1] = "disconnect" =>
              \E s \in Slot : /\ job'[w] = <<"disconnect", s>>
                              /\ todo'[w] = Teardown(s) \/ todo'[w] = Hung
                              /\ UNCHANGED shared
         /\ w \in alone' /\ job'[w][1] = "move" =>
              \E s \in Slot, d \in 0 .. 4 : StartMove(w, s, d)
<1> DEFINE Goal ==
      /\ AloneInv' /\ alone' \subseteq {w}
      /\ w \in alone' /\ job'[w][1] = "disconnect" =>
           \E s \in Slot : /\ job'[w] = <<"disconnect", s>>
                           /\ todo'[w] = Teardown(s) \/ todo'[w] = Hung
                           /\ UNCHANGED shared
      /\ w \in alone' /\ job'[w][1] = "move" =>
           \E s \in Slot, d \in 0 .. 4 : StartMove(w, s, d)
<1>1. ASSUME NEW kind, NEW x, NEW seen, NEW program, Start(w, kind, x, seen, program),
             kind # "disconnect", kind # "move"
      PROVE  Goal
  <2>1. /\ AloneInv' /\ alone' \subseteq {w}
        /\ job'[w] = <<kind, x>>
    BY <1>1, AloneBegins
  <2> QED
    BY <1>1, <2>1
<1>2. ASSUME NEW s \in Slot, NEW seen, NEW program, Start(w, "disconnect", s, seen, program),
             program = Teardown(s) \/ program = Hung, UNCHANGED shared
      PROVE  Goal
  <2>1. /\ AloneInv' /\ alone' \subseteq {w}
        /\ job'[w] = <<"disconnect", s>> /\ todo'[w] = program
    BY <1>2, AloneBegins
  <2> QED
    BY <1>2, <2>1
<1>3. ASSUME NEW s \in Slot, NEW d \in 0 .. 4, StartMove(w, s, d)
      PROVE  Goal
  <2>1. /\ AloneInv' /\ alone' \subseteq {w}
        /\ job'[w] = <<"move", s>>
    BY <1>3, AloneBegins DEF StartMove
  <2> QED
    BY <1>3, <2>1
<1> HIDE DEF Goal
<1>4. ASSUME NEW s \in Slot, NEW p \in World, StartCcuTest(w, s, p)
      PROVE  Goal
  BY <1>1, <1>4 DEF StartCcuTest, StartDummy
<1>5. ASSUME NEW s \in Slot, StartHotspotTest(w, s)
      PROVE  Goal
  BY <1>1, <1>5 DEF StartHotspotTest, StartDummy
<1>6. ASSUME NEW s \in Slot, StartEof(w, s)
      PROVE  Goal
  BY <1>2, <1>6 DEF StartEof
<1>7. ASSUME NEW s \in Slot, StartDrop(w, s)
      PROVE  Goal
  BY <1>2, <1>7 DEF StartDrop, shared
<1>8. ASSUME NEW s \in Slot, StartLate(w, s)
      PROVE  Goal
  <2>1. PICK program \in {Teardown(s), Hung} : Start(w, "disconnect", s, {}, program)
    BY <1>8 DEF StartLate
  <2>2. UNCHANGED shared
    BY <1>8 DEF StartLate
  <2> QED
    BY <1>2, <2>1, <2>2
<1>9. ASSUME NEW s \in Slot, NEW p \in World, StartLogin(w, s, p)
      PROVE  Goal
  BY <1>1, <1>9 DEF StartLogin
<1>10. ASSUME NEW s \in Slot, StartDeath(w, s)
       PROVE  Goal
  BY <1>1, <1>10 DEF StartDeath
<1>11. ASSUME NEW s \in Slot, NEW h \in Home, StartResurrection(w, s, h)
       PROVE  Goal
  BY <1>1, <1>11 DEF StartResurrection
<1>12. ASSUME NEW s \in Slot, NEW n \in Npc, StartKill(w, s, n)
       PROVE  Goal
  BY <1>1, <1>12 DEF StartKill
<1>13. ASSUME NEW n \in Npc, NEW d \in 0 .. 3, StartNpcMove(w, n, d)
       PROVE  Goal
  BY <1>1, <1>13 DEF StartNpcMove
<1>14. ASSUME NEW n \in Npc, NpcResurrection(w, n)
       PROVE  Goal
  BY <1>14 DEF NpcResurrection, AloneInv, Goal
<1>15. ASSUME w = Acceptor, StartAccept
       PROVE  Goal
  BY <1>1, <1>15 DEF StartAccept
<1>16. Goal
  BY <1>3, <1>4, <1>5, <1>6, <1>7, <1>8, <1>9, <1>10, <1>11, <1>12, <1>13, <1>14, <1>15 DEF Take
<1> QED
  BY <1>16 DEF Goal

-----------------------------------------------------------------------------
(* The order of a program. *)

(* The rest of a program, with or without one operation more before it. *)
LEMMA Behind ==
  ASSUME NEW q \in Seq(Operation), q # <<>>
  PROVE  /\ Len(Tail(q)) = Len(q) - 1 /\ Len(q) \in Nat \ {0}
         /\ \A k \in 1 .. Len(q) - 1 : Tail(q)[k] = q[k + 1]
         /\ <<>> \o Tail(q) = Tail(q)
         /\ \A c \in Operation :
              /\ Len(<<c>> \o Tail(q)) = Len(q)
              /\ (<<c>> \o Tail(q))[1] = c
              /\ \A k \in 2 .. Len(q) : (<<c>> \o Tail(q))[k] = q[k]
<1>1. /\ Tail(q) \in Seq(Operation) /\ Len(Tail(q)) = Len(q) - 1 /\ Len(q) \in Nat \ {0}
      /\ \A k \in 1 .. Len(q) - 1 : Tail(q)[k] = q[k + 1]
  BY HeadTailProperties, LenProperties, EmptySeq
<1>2. <<>> \o Tail(q) = Tail(q)
  BY <1>1, ConcatEmptySeq
<1>3. ASSUME NEW c \in Operation
      PROVE  /\ Len(<<c>> \o Tail(q)) = Len(q)
             /\ (<<c>> \o Tail(q))[1] = c
             /\ \A k \in 2 .. Len(q) : (<<c>> \o Tail(q))[k] = q[k]
  <2>1. <<c>> \in Seq(Operation) /\ Len(<<c>>) = 1 /\ <<c>>[1] = c
    OBVIOUS
  <2> DEFINE a == <<c>>
             t == Tail(q)
  <2>2. a \in Seq(Operation) /\ t \in Seq(Operation) /\ Len(a) = 1 /\ a[1] = c
    BY <1>1, <2>1
  <2> HIDE DEF a, t
  <2>3. /\ Len(a \o t) = Len(a) + Len(t)
        /\ \A i \in 1 .. Len(a) + Len(t) :
             (a \o t)[i] = IF i <= Len(a) THEN a[i] ELSE t[i - Len(a)]
    BY <2>2, ConcatProperties
  <2>4. Len(t) = Len(q) - 1 /\ \A k \in 1 .. Len(q) - 1 : t[k] = q[k + 1]
    BY <1>1 DEF t
  <2>5. Len(a \o t) = Len(q) /\ (a \o t)[1] = c
    BY <1>1, <2>2, <2>3, <2>4
  <2>6. ASSUME NEW k \in 2 .. Len(q)
        PROVE  (a \o t)[k] = q[k]
    <3>1. (a \o t)[k] = t[k - 1]
      BY <1>1, <2>2, <2>3, <2>4
    <3>2. t[k - 1] = q[k]
      BY <1>1, <2>4
    <3> QED
      BY <3>1, <3>2
  <2> QED
    BY <2>5, <2>6 DEF a, t
<1> QED
  BY <1>1, <1>2, <1>3

-----------------------------------------------------------------------------
(* A disconnect on its own. *)

Leaving == {"leave", "forget", "remove", "close", "free", "clear"}

\* Nothing is left to do for the others when the slot is given up.
DiscOrder(q) ==
  \A j, k \in 1 .. Len(q) :
    j < k /\ q[j].op = "free" => q[k].op \notin {"leave", "forget", "free"}

\* Who is registered and lists the client is going to be asked to forget it.
Departing(w) ==
  LET s == job[w][2]
  IN  /\ s \in Slot
      /\ \A c \in Pending(w) :
           /\ c.op \in Leaving
           /\ c.op \in {"leave", "forget"} => c.o = s
           /\ c.op \in {"close", "free", "clear"} => c.i = s /\ c.o = s
      /\ DiscOrder(todo[w])
      /\ Asks(w, "free", s, s) =>
           \A i \in Slot : in_use[i] /\ s \in list[i] =>
             Asks(w, "leave", i, s) \/ Asks(w, "forget", i, s)

DiscInv ==
  \A w \in alone : job[w][1] = "disconnect" /\ ~ Stuck(w) => Departing(w)

LEMMA DiscOrderStep ==
  ASSUME NEW q \in Seq(Operation), q # <<>>, DiscOrder(q)
  PROVE  /\ DiscOrder(<<>> \o Tail(q))
         /\ \A c \in Operation : c.op # "free" => DiscOrder(<<c>> \o Tail(q))
         /\ Head(q).op = "free" => \A c \in Range(Tail(q)) : c.op \notin {"leave", "forget", "free"}
<1>1. /\ Len(Tail(q)) = Len(q) - 1 /\ Len(q) \in Nat \ {0}
      /\ \A k \in 1 .. Len(q) - 1 : Tail(q)[k] = q[k + 1]
      /\ <<>> \o Tail(q) = Tail(q)
      /\ \A c \in Operation :
           /\ Len(<<c>> \o Tail(q)) = Len(q)
           /\ (<<c>> \o Tail(q))[1] = c
           /\ \A k \in 2 .. Len(q) : (<<c>> \o Tail(q))[k] = q[k]
  BY Behind
<1>2. DiscOrder(Tail(q))
  <2>1. ASSUME NEW j \in 1 .. Len(q) - 1, NEW k \in 1 .. Len(q) - 1, j < k, Tail(q)[j].op = "free"
        PROVE  Tail(q)[k].op \notin {"leave", "forget", "free"}
    <3>1. j + 1 \in 1 .. Len(q) /\ k + 1 \in 1 .. Len(q) /\ j + 1 < k + 1
      BY <1>1, <2>1
    <3>2. q[j + 1].op = "free" /\ Tail(q)[k] = q[k + 1]
      BY <1>1, <2>1
    <3> QED
      BY <3>1, <3>2 DEF DiscOrder
  <2> QED
    BY <1>1, <2>1 DEF DiscOrder
<1>3. ASSUME NEW c \in Operation, c.op # "free"
      PROVE  DiscOrder(<<c>> \o Tail(q))
  <2> DEFINE r == <<c>> \o Tail(q)
  <2>1. Len(r) = Len(q) /\ r[1] = c /\ \A k \in 2 .. Len(q) : r[k] = q[k]
    BY <1>1
  <2> HIDE DEF r
  <2>2. ASSUME NEW j \in 1 .. Len(q), NEW k \in 1 .. Len(q), j < k, r[j].op = "free"
        PROVE  r[k].op \notin {"leave", "forget", "free"}
    <3>1. j # 1
      BY <1>3, <2>1, <2>2
    <3>2. r[j] = q[j] /\ r[k] = q[k]
      BY <1>1, <2>1, <2>2, <3>1
    <3> QED
      BY <2>2, <3>2 DEF DiscOrder
  <2> QED
    BY <2>1, <2>2 DEF DiscOrder, r
<1>4. ASSUME Head(q).op = "free", NEW c \in Range(Tail(q))
      PROVE  c.op \notin {"leave", "forget", "free"}
  <2>1. Tail(q) \in Seq(Operation) /\ DOMAIN Tail(q) = 1 .. Len(q) - 1 /\ Head(q) = q[1]
    BY <1>1, HeadTailProperties, LenProperties
  <2>2. PICK k \in 1 .. Len(q) - 1 : c = Tail(q)[k]
    BY <2>1 DEF Range
  <2>3. k + 1 \in 1 .. Len(q) /\ 1 \in 1 .. Len(q) /\ 1 < k + 1 /\ c = q[k + 1]
    BY <1>1, <2>2
  <2> QED
    BY <1>4, <2>1, <2>3 DEF DiscOrder
<1> QED
  BY <1>1, <1>2, <1>3, <1>4

(* What a step of the thread makes of it: the head is done, m may follow. *)
LEMMA DepartStep ==
  ASSUME TypeOK, NEW w \in Thread, ~ Idle(w), Departing(w),
         NEW more, Then(w, more), job'[w] = job[w],
         more = <<>> \/ \E m \in Operation :
            /\ more = <<m>> /\ m.op \in {"forget", "remove"}
            /\ m.op = "forget" => m.o = job[w][2],
         LET c == Head(todo[w])
             s == job[w][2]
         IN  \A i \in Slot : Asks(w, "free", s, s)' /\ in_use'[i] /\ s \in list'[i] =>
               /\ in_use[i] /\ s \in list[i]
               /\ c = Op("leave", i, s) => more = <<Op("forget", i, s)>>
               /\ c # Op("forget", i, s)
  PROVE  Departing(w)'
<1> DEFINE c == Head(todo[w])
           s == job[w][2]
<1>1. todo[w] \in Seq(Operation) /\ todo[w] # <<>>
  BY DEF TypeOK, Idle
<1>2. more \in Seq(Operation) /\ \A d \in Range(more) :
         /\ d.op \in {"forget", "remove"}
         /\ d.op = "forget" => d.o = s
  BY Singles
<1>3. /\ todo'[w] = more \o Tail(todo[w])
      /\ \A d \in Pending(w)' : d \in Range(more) \/ d \in Pending(w)
      /\ \A d \in Range(more) : d \in Pending(w)'
      /\ \A d \in Pending(w) : d = c \/ d \in Pending(w)'
  BY <1>2, ThenType
<1>4. DiscOrder(todo'[w])
  <2>1. DiscOrder(todo[w])
    BY DEF Departing
  <2>2. CASE more = <<>>
    BY <1>1, <1>3, <2>1, <2>2, DiscOrderStep
  <2>3. CASE \E m \in Operation : more = <<m>> /\ m.op \in {"forget", "remove"}
    <3>1. PICK m \in Operation : more = <<m>> /\ m.op \in {"forget", "remove"}
      BY <2>3
    <3>2. m.op # "free"
      BY <3>1
    <3> QED
      BY <1>1, <1>3, <2>1, <3>1, <3>2, DiscOrderStep
  <2> QED
    BY <2>2, <2>3
<1>5. s \in Slot /\ \A d \in Pending(w) :
        /\ d.op \in Leaving
        /\ d.op \in {"leave", "forget"} => d.o = s
        /\ d.op \in {"close", "free", "clear"} => d.i = s /\ d.o = s
  BY DEF Departing
<1>6. \A d \in Pending(w)' :
        /\ d.op \in Leaving
        /\ d.op \in {"leave", "forget"} => d.o = s
        /\ d.op \in {"close", "free", "clear"} => d.i = s /\ d.o = s
  BY <1>2, <1>3, <1>5 DEF Leaving
<1>7. ASSUME Asks(w, "free", s, s)', NEW i \in Slot, in_use'[i], s \in list'[i]
      PROVE  Asks(w, "leave", i, s)' \/ Asks(w, "forget", i, s)'
  <2>1. /\ in_use[i] /\ s \in list[i]
        /\ c = Op("leave", i, s) => more = <<Op("forget", i, s)>>
        /\ c # Op("forget", i, s)
    BY <1>7
  <2>2. Asks(w, "free", s, s)
    <3>1. Op("free", s, s) \in Pending(w)'
      BY <1>7 DEF Asks
    <3>2. Op("free", s, s) \notin Range(more)
      BY <1>2 DEF Op
    <3> QED
      BY <1>3, <3>1, <3>2 DEF Asks
  <2>3. Asks(w, "leave", i, s) \/ Asks(w, "forget", i, s)
    BY <2>1, <2>2 DEF Departing
  <2>4. CASE Asks(w, "forget", i, s)
    BY <1>3, <2>1, <2>4 DEF Asks
  <2>5. CASE Asks(w, "leave", i, s) /\ c = Op("leave", i, s)
    <3>1. Op("forget", i, s) \in Range(more)
      <4>1. more = <<Op("forget", i, s)>>
        BY <2>1, <2>5
      <4> QED
        BY <4>1 DEF Range
    <3> QED
      BY <1>3, <3>1 DEF Asks
  <2>6. CASE Asks(w, "leave", i, s) /\ c # Op("leave", i, s)
    BY <1>3, <2>6 DEF Asks
  <2> QED
    BY <2>3, <2>4, <2>5, <2>6
<1> QED
  BY <1>4, <1>5, <1>6, <1>7 DEF Departing

LEMMA DepartOperate ==
  ASSUME TypeOK, LocalInv, NEW w \in Thread, Departing(w), Operate(w), job'[w] = job[w],
         ~ Stuck(w)'
  PROVE  Departing(w)'
<1> DEFINE c == Head(todo[w])
           s == job[w][2]
<1>1. ~ Idle(w) /\ c \in Operation /\ c \in Pending(w) /\ c = Op(c.op, c.i, c.o)
  <2>1. todo[w] \in Seq(Operation) /\ todo[w] # <<>>
    BY OperateFrame DEF TypeOK, Idle
  <2> QED
    BY <2>1, Queue, Fields DEF Idle, Pending
<1>2. /\ c.op \in Leaving
      /\ c.op \in {"leave", "forget"} => c.o = s
      /\ c.op \in {"close", "free", "clear"} => c.i = s /\ c.o = s
      /\ s \in Slot
  BY <1>1 DEF Departing
<1>3. c.i \in Slot /\ c.o \in Id
  BY <1>1, <1>2, Fields DEF Leaving
<1> HIDE DEF c
<1>4. \/ Look(w) /\ c.op = "leave"
      \/ Forget(w) \/ Close(w) \/ Clear(w)
      \/ Send(w) /\ c.op = "remove"
      \/ Register(w) /\ c.op = "free"
  <2>1. ASSUME NEW ops, Doing(w, ops)
        PROVE  c.op \in ops
    BY <2>1 DEF Doing, c
  <2>2. \/ Look(w) \/ Forget(w) \/ Close(w) \/ Clear(w) \/ Send(w) \/ Register(w)
    <3>1. ~ Step(w) /\ ~ Scan(w) /\ ~ NpcScan(w) /\ ~ Plan(w) /\ ~ NpcPlan(w)
          /\ ~ Mourn(w) /\ ~ Revive(w)
      BY <1>2, <2>1, OpNames DEF Leaving
    <3>2. ~ See(w) /\ ~ Meet(w) /\ ~ Lose(w) /\ ~ Erase(w) /\ ~ Recv(w) /\ ~ Connect(w)
      BY <1>2, <2>1, OpNames DEF Leaving
    <3> QED
      BY <3>1, <3>2 DEF Operate
  <2>3. Look(w) => c.op = "leave"
    BY <1>2, <2>1, OpNames DEF Leaving
  <2>4. Send(w) => c.op = "remove"
    BY <1>2, <2>1, OpNames DEF Leaving
  <2>5. Register(w) => c.op = "free"
    BY <1>2, <2>1, OpNames DEF Leaving
  <2> QED
    BY <2>2, <2>3, <2>4, <2>5
<1>5. ASSUME NEW more, Then(w, more),
             more = <<>> \/ \E m \in Operation :
                /\ more = <<m>> /\ m.op \in {"forget", "remove"}
                /\ m.op = "forget" => m.o = s,
             \A i \in Slot : Asks(w, "free", s, s)' /\ in_use'[i] /\ s \in list'[i] =>
               /\ in_use[i] /\ s \in list[i]
               /\ c = Op("leave", i, s) => more = <<Op("forget", i, s)>>
               /\ c # Op("forget", i, s)
      PROVE  Departing(w)'
  BY <1>1, <1>5, DepartStep DEF c
<1>6. CASE Look(w) /\ c.op = "leave"
  <2>1. /\ Then(w, IF in_use[c.i] THEN <<Op("forget", c.i, c.o)>> ELSE <<>>)
        /\ UNCHANGED shared
    BY <1>6 DEF Look, Doing, c
  <2> DEFINE more == IF in_use[c.i] THEN <<Op("forget", c.i, c.o)>> ELSE <<>>
  <2>2. Op("forget", c.i, c.o) \in Operation /\ c.o = s
    BY <1>2, <1>3, <1>6, Ops
  <2>3. \A i \in Slot : in_use'[i] /\ s \in list'[i] =>
           /\ in_use[i] /\ s \in list[i]
           /\ c = Op("leave", i, s) => more = <<Op("forget", i, s)>>
           /\ c # Op("forget", i, s)
    BY <1>6, <2>1, <2>2 DEF shared, Op
  <2>4. more = <<>> \/ \E m \in Operation :
          /\ more = <<m>> /\ m.op \in {"forget", "remove"}
          /\ m.op = "forget" => m.o = s
    BY <2>2 DEF Op
  <2>5. Then(w, more)
    BY <2>1
  <2> HIDE DEF more
  <2> QED
    BY <1>5, <2>3, <2>4, <2>5
<1>7. CASE Forget(w)
  <2>1. c.op = "forget"
    BY <1>7, OpNames DEF Doing, c
  <2> DEFINE more == IF c.o \in list[c.i] THEN <<Op("remove", c.i, c.o)>> ELSE <<>>
  <2>2. Then(w, more) /\ list' = [list EXCEPT ![c.i] = list[c.i] \ {c.o}] /\ in_use' = in_use
    BY <1>7 DEF Forget, Listing, c
  <2>3. Op("remove", c.i, c.o) \in Operation /\ c.o = s
    BY <1>2, <1>3, <2>1, Ops
  <2>4. \A i \in Slot : in_use'[i] /\ s \in list'[i] =>
           /\ in_use[i] /\ s \in list[i]
           /\ c = Op("leave", i, s) => more = <<Op("forget", i, s)>>
           /\ c # Op("forget", i, s)
    BY <1>3, <2>1, <2>2, <2>3 DEF Op, TypeOK
  <2>5. more = <<>> \/ \E m \in Operation :
          /\ more = <<m>> /\ m.op \in {"forget", "remove"}
          /\ m.op = "forget" => m.o = s
    BY <2>3 DEF Op
  <2> HIDE DEF more
  <2> QED
    BY <1>5, <2>2, <2>4, <2>5
<1>8. CASE Close(w)
  <2>1. c.op = "close" /\ Then(w, <<>>) /\ UNCHANGED <<in_use, list>>
    BY <1>8 DEF Close, Doing, c
  <2> QED
    BY <1>5, <2>1 DEF Op
<1>9. CASE Clear(w)
  <2>1. c.op = "clear" /\ Then(w, <<>>) /\ in_use' = in_use /\ list' = [list EXCEPT ![c.i] = {}]
    BY <1>9 DEF Clear, Listing, Doing, c
  <2>2. \A i \in Slot : s \in list'[i] => s \in list[i]
    BY <1>3, <2>1 DEF TypeOK
  <2> QED
    BY <1>5, <2>1, <2>2 DEF Op
<1>10. CASE Send(w) /\ c.op = "remove"
  <2>1. UNCHANGED <<in_use, list>>
    BY <1>10 DEF Send
  <2>2. Then(w, <<>>)
    <3>1. open[c.i]
      BY <1>10, HungType DEF Send, c
    <3> QED
      BY <1>10, <3>1 DEF Send, c
  <2> QED
    BY <1>5, <1>10, <2>1, <2>2 DEF Op
<1>11. CASE Register(w) /\ c.op = "free"
  <2>1. /\ Then(w, <<>>) /\ list' = list
        /\ in_use' = [in_use EXCEPT ![c.i] = (c.op = "use")]
    BY <1>11 DEF Register, c
  <2>2. \A i \in Slot : in_use'[i] => in_use[i]
    BY <1>3, <1>11, <2>1 DEF TypeOK
  <2> QED
    BY <1>5, <1>11, <2>1, <2>2 DEF Op
<1> QED
  BY <1>4, <1>6, <1>7, <1>8, <1>9, <1>10, <1>11

\* Nobody is in its own list: the loops skip the client itself.
NotSelf == \A s \in Slot : s \notin list[s]

LEMMA NotSelfStep ==
  ASSUME TypeOK, LocalInv, NotSelf, [Next]_vars
  PROVE  NotSelf'
<1>1. CASE UNCHANGED vars
  BY <1>1 DEF vars, shared, NotSelf
<1>2. CASE StartAccept
  BY <1>2 DEF StartAccept, shared, NotSelf
<1>3. ASSUME NEW w \in Worker, Take(w)
      PROVE  NotSelf'
  <2>1. list' = list
    BY <1>3 DEF Take, StartMove, StartCcuTest, StartHotspotTest, StartDummy, StartEof,
                StartDrop, StartLate, StartLogin, StartDeath, StartResurrection, StartKill,
                StartNpcMove, NpcResurrection, shared
  <2> QED
    BY <2>1 DEF NotSelf
<1>4. ASSUME NEW w \in Thread, Operate(w)
      PROVE  NotSelf'
  <2> DEFINE c == Head(todo[w])
  <2>1. CASE See(w) \/ Meet(w)
    <3>1. list' = [list EXCEPT ![c.i] = list[c.i] \cup {c.o}]
      BY <2>1 DEF See, Meet, Listing, Entered
    <3>2. Doing(w, {"see", "greet", "meet"})
      BY <2>1, OpNames DEF Doing
    <3>3. c \in Operation /\ c.op \in {"see", "greet", "meet"}
      BY <3>2, Busy
    <3>4. c.i # c.o
      BY <3>3, Fields DEF Inserting
    <3> QED
      BY <3>1, <3>4 DEF NotSelf, TypeOK
  <2>2. CASE Lose(w) \/ Forget(w) \/ Erase(w) \/ Clear(w)
    <3>1. PICK S \in SUBSET list[c.i] : list' = [list EXCEPT ![c.i] = S]
      BY <2>2 DEF Lose, Forget, Erase, Clear, Listing
    <3> QED
      BY <3>1 DEF NotSelf, TypeOK
  <2>3. CASE UNCHANGED list
    BY <2>3 DEF NotSelf
  <2>4. /\ (Step(w) \/ Scan(w) \/ NpcScan(w) \/ Plan(w) \/ NpcPlan(w) => UNCHANGED list)
        /\ (Mourn(w) \/ Revive(w) \/ Look(w) \/ Send(w) \/ Recv(w) => UNCHANGED list)
        /\ (Connect(w) \/ Close(w) \/ Register(w) => UNCHANGED list)
    BY DEF Step, Scan, NpcScan, Plan, NpcPlan, Mourn, Revive, Look, Send, Recv, Connect,
           Close, Register, shared
  <2> QED
    BY <1>4, <2>1, <2>2, <2>3, <2>4 DEF Operate
<1> QED
  BY <1>1, <1>2, <1>3, <1>4 DEF Next

LEMMA DepartBegins ==
  ASSUME NotSelf, NEW w \in Thread, NEW s \in Slot, job'[w] = <<"disconnect", s>>,
         todo'[w] = Teardown(s), UNCHANGED shared
  PROVE  Departing(w)'
<1> DEFINE leaves == OnEach("leave", Others(s), s)
           ends == <<Op("close", s, s), Op("free", s, s), Op("clear", s, s)>>
           q == leaves \o ends
<1>1. /\ Teardown(s) \in Seq(Operation)
      /\ \A c : c \in Range(Teardown(s)) <=>
           \/ \E i \in Slot \ {s} : c = Op("leave", i, s)
           \/ c \in {Op("close", s, s), Op("free", s, s), Op("clear", s, s)}
  BY TeardownType
<1>2. job'[w][2] = s /\ \A c : c \in Pending(w)' <=> c \in Range(Teardown(s))
  BY DEF Pending
<1>3. DiscOrder(Teardown(s))
  <2>1. s \in Id
    BY DEF Id
  <2>2. leaves \in Seq(Operation) /\ \A c \in Range(leaves) : c.op = "leave"
    <3>1. \A i \in Slot \ {s} : Op("leave", i, s) \in Operation
      BY <2>1, Ops
    <3> QED
      BY <3>1, OthersLoop DEF Op
  <2>3. ends \in Seq(Operation) /\ Len(ends) = 3
    BY <2>1, Ops
  <2>4. DiscOrder(ends)
    BY <2>3 DEF DiscOrder, Op
  <2>5. Teardown(s) = q
    BY DEF Teardown
  <2> HIDE DEF leaves, ends
  <2>6. DOMAIN leaves = 1 .. Len(leaves) /\ Len(leaves) \in Nat
    BY <2>2, LenProperties
  <2>7. \A k \in 1 .. Len(leaves) : leaves[k].op = "leave"
    BY <2>2, <2>6 DEF Range
  <2>8. /\ Len(q) = Len(leaves) + Len(ends)
        /\ \A i \in 1 .. Len(leaves) + Len(ends) :
             q[i] = IF i <= Len(leaves) THEN leaves[i] ELSE ends[i - Len(leaves)]
    BY <2>2, <2>3, ConcatProperties
  <2>9. ASSUME NEW j \in 1 .. Len(q), NEW k \in 1 .. Len(q), j < k, q[j].op = "free"
        PROVE  q[k].op \notin {"leave", "forget", "free"}
    <3>1. j > Len(leaves)
      BY <2>6, <2>7, <2>8, <2>9
    <3>2. /\ q[j] = ends[j - Len(leaves)] /\ q[k] = ends[k - Len(leaves)]
          /\ j - Len(leaves) \in 1 .. Len(ends) /\ k - Len(leaves) \in 1 .. Len(ends)
      BY <2>3, <2>6, <2>8, <2>9, <3>1
    <3> QED
      BY <2>4, <2>6, <2>9, <3>2 DEF DiscOrder
  <2> QED
    BY <2>5, <2>9 DEF DiscOrder
<1>4. \A c \in Pending(w)' :
        /\ c.op \in Leaving
        /\ c.op \in {"leave", "forget"} => c.o = s
        /\ c.op \in {"close", "free", "clear"} => c.i = s /\ c.o = s
  BY <1>1, <1>2 DEF Leaving, Op
<1>5. \A i \in Slot \ {s} : Asks(w, "leave", i, s)'
  BY <1>1, <1>2 DEF Asks
<1>6. \A i \in Slot : s \in list'[i] => i # s
  BY DEF NotSelf, shared
<1> QED
  BY <1>2, <1>3, <1>4, <1>5, <1>6 DEF Departing

LEMMA AloneStep ==
  ASSUME TypeOK, LocalInv, AloneInv, [Next]_vars
  PROVE  AloneInv'
<1>1. CASE UNCHANGED vars
  BY <1>1 DEF vars, observers, AloneInv, Idle, Stuck
<1>2. CASE StartAccept
  BY <1>2, TakeFrame DEF Thread
<1>3. ASSUME NEW w \in Worker, Take(w)
      PROVE  AloneInv'
  BY <1>3, TakeFrame DEF Thread
<1>4. ASSUME NEW w \in Thread, Operate(w)
      PROVE  AloneInv'
  BY <1>4, OnlyOne
<1> QED
  BY <1>1, <1>2, <1>3, <1>4 DEF Next

LEMMA DiscStep ==
  ASSUME TypeOK, LocalInv, NotSelf, AloneInv, DiscInv, [Next]_vars
  PROVE  DiscInv'
<1> SUFFICES ASSUME NEW w \in alone', job'[w][1] = "disconnect", ~ Stuck(w)'
             PROVE  Departing(w)'
  BY DEF DiscInv
<1>1. CASE UNCHANGED vars
  BY <1>1 DEF vars, shared, observers, DiscInv, Departing, Stuck, Idle, Pending, Asks
<1>2. ASSUME NEW v \in Thread, (v \in Worker /\ Take(v)) \/ (v = Acceptor /\ StartAccept)
      PROVE  Departing(w)'
  <2>1. alone' \subseteq {v}
    BY <1>2, TakeFrame
  <2>2. w = v
    BY <2>1
  <2>3. w \in alone' /\ job'[w][1] = "disconnect" =>
              \E s \in Slot : /\ job'[w] = <<"disconnect", s>>
                              /\ todo'[w] = Teardown(s) \/ todo'[w] = Hung
                              /\ UNCHANGED shared
    BY <1>2, <2>2, TakeFrame
  <2>4. PICK s \in Slot : /\ job'[w] = <<"disconnect", s>>
                          /\ todo'[w] = Teardown(s) \/ todo'[w] = Hung
                          /\ UNCHANGED shared
    BY <2>3
  <2>5. todo'[w] # Hung
    <3>1. ASSUME todo'[w] = Hung
          PROVE  Stuck(w)'
      <4>1. Hung # <<>> /\ Head(Hung).op = "hung"
        BY DEF Hung, Op
      <4> QED
        BY <3>1, <4>1 DEF Stuck, Idle
    <3> QED
      BY <3>1
  <2> QED
    BY <1>2, <2>2, <2>4, <2>5, DepartBegins
<1>3. ASSUME NEW v \in Thread, Operate(v)
      PROVE  Departing(w)'
  <2>1. w = v /\ w \in alone
    BY <1>3, OnlyOne
  <2>2. ~ Stuck(w) /\ (job'[w] = job[w] \/ job'[w] = NoJob)
    BY <1>3, <2>1, OperateFrame
  <2>3. job'[w] = job[w]
    BY <2>2 DEF NoJob
  <2>4. Departing(w)
    BY <2>1, <2>2, <2>3 DEF DiscInv
  <2> QED
    BY <1>3, <2>1, <2>3, <2>4, DepartOperate
<1> QED
  BY <1>1, <1>2, <1>3 DEF Next, Thread

\* What holds whoever runs with whom.
CoreInv == TypeOK /\ LocalInv /\ NotSelf /\ AloneInv

LEMMA CoreInvariant == Spec => []CoreInv
<1>1. Init => CoreInv
  BY InitType DEF Init, NotSelf, AloneInv, CoreInv
<1>2. CoreInv /\ [Next]_vars => CoreInv'
  BY NextType, NotSelfStep, AloneStep DEF CoreInv
<1> QED
  BY <1>1, <1>2, PTL DEF Spec

(* Whatever the interleavings of the past have left, a disconnect that runs  *)
(* without interference leaves nobody registered with the client in its list. *)
THEOREM LoneDisconnects == Spec => []LoneDisconnectClears
<1>1. Init => DiscInv
  BY DEF Init, DiscInv
<1>2. CoreInv /\ DiscInv /\ [Next]_vars => DiscInv'
  BY DiscStep DEF CoreInv
<1>3. CoreInv /\ DiscInv => LoneDisconnectClears
  <2> SUFFICES ASSUME CoreInv, DiscInv, NEW w \in Worker, Alone(w, "disconnect"),
                      Doing(w, {"free"}), NEW i \in Slot, in_use[i], job[w][2] \in list[i]
               PROVE  FALSE
    BY DEF LoneDisconnectClears
  <2> DEFINE s == job[w][2]
             c == Head(todo[w])
  <2>1. w \in Thread /\ TypeOK /\ w \in alone /\ job[w][1] = "disconnect"
    BY DEF Thread, CoreInv, Alone
  <2>2. /\ todo[w] \in Seq(Operation) /\ todo[w] # <<>> /\ c \in Operation
        /\ c \in Pending(w) /\ c.op = "free" /\ c = Op(c.op, c.i, c.o)
    BY <2>1, Busy, Fields
  <2>3. ~ Stuck(w)
    BY <2>2 DEF Stuck
  <2>4. Departing(w)
    BY <2>1, <2>3 DEF DiscInv
  <2>5. c.i = s
    BY <2>2, <2>4 DEF Departing
  <2>6. \A d \in Range(Tail(todo[w])) : d.op \notin {"leave", "forget", "free"}
    BY <2>2, <2>4, DiscOrderStep DEF Departing
  <2>7. \A d \in Pending(w) : d = c \/ d \in Range(Tail(todo[w]))
    BY <2>2, Queue DEF Pending
  <2>8. c = Op("free", s, s)
    BY <2>2, <2>4 DEF Departing
  <2>9. Asks(w, "leave", i, s) \/ Asks(w, "forget", i, s)
    BY <2>2, <2>4, <2>8 DEF Departing, Asks
  <2> QED
    BY <2>6, <2>7, <2>8, <2>9 DEF Asks, Op
<1> QED
  BY <1>1, <1>2, <1>3, CoreInvariant, PTL DEF Spec

-----------------------------------------------------------------------------
(* A CS_MOVE on its own. *)

Planning == {"step", "scan", "plan"}

Moving == {"tell", "greet", "meet", "part", "see", "lose", "forget", "put", "remove", "recv"}

\* The step comes first, the plan or the next receive last.
MoveOrder(q) ==
  \A k \in 1 .. Len(q) :
    /\ q[k].op = "step" => k = 1
    /\ q[k].op \in {"plan", "recv"} => k = Len(q)

\* Who is in sight of s and registered or alive.
Seen(s) == {x \in (Slot \ {s}) \cup Npc : Sighted(s, x)}

\* Before the plan: whoever is in sight is found or still to be scanned.
Looking(w, s) ==
  /\ Asks(w, "plan", s, s)
  /\ \A c \in Pending(w) : c.op \in Planning /\ c.i = s
  /\ old[w] = list[s]
  /\ new[w] \subseteq Seen(s)
  /\ \A x \in Seen(s) \ new[w] : Asks(w, "scan", s, x)
  /\ (\E c \in Pending(w) : c.op = "step") =>
       new[w] = {} /\ \A x \in Id \ {s} : Asks(w, "scan", s, x)

\* After the plan: what is wrong in a list is still to be put right.
Redraws(w, s) ==
  /\ \A c \in Pending(w) :
       /\ c.op \in Moving
       /\ c.op \in {"greet", "see"} => c.i = s /\ c.o \in Seen(s)
       /\ c.op \in {"part", "lose"} => c.i = s /\ c.o \notin Seen(s)
       /\ c.op = "meet" => c.i \in Seen(s) /\ c.o = s
       /\ c.op = "forget" => c.i \notin Seen(s) /\ c.o = s
       /\ c.op = "recv" => c.i = s
  /\ \A x \in list[s] \ Seen(s) : Asks(w, "part", s, x) \/ Asks(w, "lose", s, x)
  /\ \A x \in Seen(s) \ list[s] : Asks(w, "greet", s, x) \/ Asks(w, "see", s, x)
  /\ \A i \in Seen(s) \cap Slot :
       s \in list[i] \/ Asks(w, "meet", i, s) \/ Asks(w, "greet", s, i)

Healing(w) ==
  LET s == job[w][2]
  IN  /\ s \in Slot
      /\ MoveOrder(todo[w])
      /\ Looking(w, s) \/ Redraws(w, s)

MoveInv == \A w \in alone : job[w][1] = "move" /\ ~ Stuck(w) => Healing(w)

LEMMA OrderAfter ==
  ASSUME NEW p \in Seq(Operation), NEW r \in Seq(Operation), MoveOrder(r),
         \A c \in Range(r) : c.op # "step",
         \A k \in 1 .. Len(p) :
           p[k].op \notin {"plan", "recv"} /\ (p[k].op = "step" => k = 1)
  PROVE  MoveOrder(p \o r)
<1>1. Len(p) \in Nat /\ Len(r) \in Nat /\ DOMAIN r = 1 .. Len(r)
  BY LenProperties
<1> DEFINE q == p \o r
<1>2. /\ Len(q) = Len(p) + Len(r)
      /\ \A i \in 1 .. Len(p) + Len(r) : q[i] = IF i <= Len(p) THEN p[i] ELSE r[i - Len(p)]
  BY ConcatProperties
<1> HIDE DEF q
<1>3. ASSUME NEW k \in 1 .. Len(q)
      PROVE  (q[k].op = "step" => k = 1) /\ (q[k].op \in {"plan", "recv"} => k = Len(q))
  <2>1. CASE k <= Len(p)
    <3>1. k \in 1 .. Len(p) /\ q[k] = p[k]
      BY <1>1, <1>2, <2>1
    <3> QED
      BY <3>1
  <2>2. CASE ~ (k <= Len(p))
    <3>1. k - Len(p) \in 1 .. Len(r) /\ q[k] = r[k - Len(p)]
      BY <1>1, <1>2, <2>2
    <3>2. q[k].op # "step"
      BY <1>1, <3>1 DEF Range
    <3>3. q[k].op \in {"plan", "recv"} => k - Len(p) = Len(r)
      BY <3>1 DEF MoveOrder
    <3> QED
      BY <1>1, <1>2, <3>2, <3>3
  <2> QED
    BY <2>1, <2>2
<1> QED
  BY <1>3 DEF MoveOrder, q

LEMMA MoveOrderStep ==
  ASSUME NEW q \in Seq(Operation), q # <<>>, MoveOrder(q)
  PROVE  /\ \A c \in Range(Tail(q)) : c.op # "step"
         /\ Head(q).op \in {"plan", "recv"} => Tail(q) = <<>>
         /\ \A p \in Seq(Operation) :
              (\A c \in Range(p) : c.op \notin {"step", "plan", "recv"}) => MoveOrder(p \o Tail(q))
<1>1. /\ Len(Tail(q)) = Len(q) - 1 /\ Len(q) \in Nat \ {0}
      /\ \A k \in 1 .. Len(q) - 1 : Tail(q)[k] = q[k + 1]
  BY Behind
<1>2. Tail(q) \in Seq(Operation) /\ DOMAIN Tail(q) = 1 .. Len(q) - 1 /\ Head(q) = q[1]
  BY <1>1, HeadTailProperties, LenProperties
<1>3. \A k \in 1 .. Len(q) - 1 : k + 1 \in 1 .. Len(q) /\ k + 1 # 1
  BY <1>1
<1>4. \A k \in 1 .. Len(q) - 1 : Tail(q)[k].op # "step"
  BY <1>1, <1>3 DEF MoveOrder
<1>5. \A c \in Range(Tail(q)) : c.op # "step"
  <2>1. ASSUME NEW c \in Range(Tail(q)) PROVE c.op # "step"
    <3>1. PICK k \in 1 .. Len(q) - 1 : c = Tail(q)[k]
      BY <1>2 DEF Range
    <3> QED
      BY <1>4, <3>1
  <2> QED
    BY <2>1
<1>6. MoveOrder(Tail(q))
  <2>1. ASSUME NEW k \in 1 .. Len(q) - 1, Tail(q)[k].op \in {"plan", "recv"}
        PROVE  k + 1 = Len(q)
    <3>1. k + 1 \in 1 .. Len(q) /\ q[k + 1].op \in {"plan", "recv"}
      BY <1>1, <1>3, <2>1
    <3> QED
      BY <3>1 DEF MoveOrder
  <2>2. ASSUME NEW k \in 1 .. Len(q) - 1, k + 1 = Len(q)
        PROVE  k = Len(Tail(q))
    <3>1. \A m, n \in Int : m + 1 = n => m = n - 1
      OBVIOUS
    <3>2. k \in Int /\ Len(q) \in Int /\ Len(Tail(q)) = Len(q) - 1
      BY <1>1
    <3> QED
      BY <2>2, <3>1, <3>2
  <2>3. ASSUME NEW k \in 1 .. Len(Tail(q))
        PROVE  /\ Tail(q)[k].op = "step" => k = 1
               /\ Tail(q)[k].op \in {"plan", "recv"} => k = Len(Tail(q))
    <3>1. k \in 1 .. Len(q) - 1
      BY <1>1
    <3>2. Tail(q)[k].op # "step"
      BY <1>4, <3>1
    <3>3. ASSUME Tail(q)[k].op \in {"plan", "recv"} PROVE k = Len(Tail(q))
      <4>1. k + 1 = Len(q)
        BY <2>1, <3>1, <3>3
      <4> QED
        BY <2>2, <3>1, <4>1
    <3> QED
      BY <3>2, <3>3
  <2> QED
    BY <2>3 DEF MoveOrder
<1>7. ASSUME Head(q).op \in {"plan", "recv"}
      PROVE  Tail(q) = <<>>
  <2>1. Len(q) = 1
    <3>1. 1 \in 1 .. Len(q) /\ q[1].op \in {"plan", "recv"}
      BY <1>1, <1>2, <1>7
    <3> QED
      BY <3>1 DEF MoveOrder
  <2> QED
    BY <1>1, <1>2, <2>1, EmptySeq
<1>8. ASSUME NEW p \in Seq(Operation), \A c \in Range(p) : c.op \notin {"step", "plan", "recv"}
      PROVE  MoveOrder(p \o Tail(q))
  <2>1. DOMAIN p = 1 .. Len(p)
    BY LenProperties
  <2>2. \A k \in 1 .. Len(p) : p[k].op \notin {"plan", "recv"} /\ p[k].op # "step"
    BY <1>8, <2>1 DEF Range
  <2> QED
    BY <1>2, <1>5, <1>6, <2>2, OrderAfter
<1> QED
  BY <1>5, <1>7, <1>8

\* Nothing that decides who is seen has changed.
LEMMA SeenSame ==
  ASSUME NEW s, UNCHANGED <<in_use, is_die, at>>
  PROVE  Seen(s)' = Seen(s)
BY DEF Seen, Sighted

(* What every step of a redrawing has in common: the head is done, more     *)
(* follows, and no step, plan or receive is among it.                        *)
LEMMA RedrawStep ==
  ASSUME TypeOK, NEW w \in Thread, ~ Idle(w), NEW s \in Slot, MoveOrder(todo[w]),
         Redraws(w, s), UNCHANGED <<in_use, is_die, at>>,
         NEW more \in Seq(Operation), Then(w, more),
         \A c \in Range(more) :
           /\ c.op \in {"tell", "put", "remove", "meet", "forget"}
           /\ c.op = "meet" => c.i \in Seen(s) /\ c.o = s
           /\ c.op = "forget" => c.i \notin Seen(s) /\ c.o = s,
         LET c == Head(todo[w])
         IN  /\ \A x \in list'[s] \ Seen(s) :
                  x \in list[s] /\ c # Op("part", s, x) /\ c # Op("lose", s, x)
             /\ \A x \in Seen(s) \ list'[s] :
                  x \notin list[s] /\ c # Op("greet", s, x) /\ c # Op("see", s, x)
             /\ \A i \in Seen(s) \cap Slot :
                  \/ s \in list'[i]
                  \/ /\ s \notin list[i] /\ c # Op("meet", i, s)
                     /\ c = Op("greet", s, i) => Op("meet", i, s) \in Range(more)
  PROVE  MoveOrder(todo'[w]) /\ Redraws(w, s)'
<1> DEFINE c == Head(todo[w])
<1>1. todo[w] \in Seq(Operation) /\ todo[w] # <<>>
  BY DEF TypeOK, Idle
<1>2. /\ todo'[w] = more \o Tail(todo[w])
      /\ \A d \in Pending(w)' : d \in Range(more) \/ d \in Pending(w)
      /\ \A d \in Range(more) : d \in Pending(w)'
      /\ \A d \in Pending(w) : d = c \/ d \in Pending(w)'
  BY ThenType
<1>3. MoveOrder(todo'[w])
  <2>1. \A d \in Range(more) : d.op \notin {"step", "plan", "recv"}
    OBVIOUS
  <2> QED
    BY <1>1, <1>2, <2>1, MoveOrderStep
<1>4. Seen(s)' = Seen(s)
  BY SeenSame
<1>5. ASSUME NEW d \in Pending(w)'
      PROVE  /\ d.op \in Moving
             /\ d.op \in {"greet", "see"} => d.i = s /\ d.o \in Seen(s)
             /\ d.op \in {"part", "lose"} => d.i = s /\ d.o \notin Seen(s)
             /\ d.op = "meet" => d.i \in Seen(s) /\ d.o = s
             /\ d.op = "forget" => d.i \notin Seen(s) /\ d.o = s
             /\ d.op = "recv" => d.i = s
  <2>1. CASE d \in Range(more)
    BY <2>1 DEF Moving
  <2>2. CASE d \in Pending(w)
    BY <2>2 DEF Redraws
  <2> QED
    BY <1>2, <2>1, <2>2
<1>6. ASSUME NEW x \in list'[s] \ Seen(s)
      PROVE  Asks(w, "part", s, x)' \/ Asks(w, "lose", s, x)'
  <2>1. x \in list[s] /\ c # Op("part", s, x) /\ c # Op("lose", s, x)
    OBVIOUS
  <2>2. Asks(w, "part", s, x) \/ Asks(w, "lose", s, x)
    BY <2>1 DEF Redraws
  <2> QED
    BY <1>2, <2>1, <2>2 DEF Asks
<1>7. ASSUME NEW x \in Seen(s) \ list'[s]
      PROVE  Asks(w, "greet", s, x)' \/ Asks(w, "see", s, x)'
  <2>1. x \notin list[s] /\ c # Op("greet", s, x) /\ c # Op("see", s, x)
    OBVIOUS
  <2>2. Asks(w, "greet", s, x) \/ Asks(w, "see", s, x)
    BY <2>1 DEF Redraws
  <2> QED
    BY <1>2, <2>1, <2>2 DEF Asks
<1>8. ASSUME NEW i \in Seen(s) \cap Slot, s \notin list'[i]
      PROVE  Asks(w, "meet", i, s)' \/ Asks(w, "greet", s, i)'
  <2>1. /\ s \notin list[i] /\ c # Op("meet", i, s)
        /\ c = Op("greet", s, i) => Op("meet", i, s) \in Range(more)
    BY <1>8
  <2>2. Asks(w, "meet", i, s) \/ Asks(w, "greet", s, i)
    BY <2>1 DEF Redraws
  <2> QED
    BY <1>2, <2>1, <2>2 DEF Asks
<1>9. Redraws(w, s)'
  BY <1>4, <1>5, <1>6, <1>7, <1>8 DEF Redraws
<1> QED
  BY <1>3, <1>9

LEMMA RedrawOperate ==
  ASSUME TypeOK, LocalInv, NEW w \in Thread, NEW s \in Slot, MoveOrder(todo[w]),
         Redraws(w, s), Operate(w), ~ Stuck(w)'
  PROVE  MoveOrder(todo'[w]) /\ Redraws(w, s)'
<1> DEFINE c == Head(todo[w])
<1>1. ~ Idle(w) /\ c \in Operation /\ c \in Pending(w) /\ c = Op(c.op, c.i, c.o)
  <2>1. todo[w] \in Seq(Operation) /\ todo[w] # <<>>
    BY OperateFrame DEF TypeOK, Idle
  <2> QED
    BY <2>1, Queue, Fields DEF Idle, Pending
<1>2. /\ c.op \in Moving
      /\ c.op \in {"greet", "see"} => c.i = s /\ c.o \in Seen(s)
      /\ c.op \in {"part", "lose"} => c.i = s /\ c.o \notin Seen(s)
      /\ c.op = "meet" => c.i \in Seen(s) /\ c.o = s
      /\ c.op = "forget" => c.i \notin Seen(s) /\ c.o = s
  BY <1>1 DEF Redraws
<1>3. /\ c.i \in Slot /\ c.o \in Id
      /\ c.op \in Inserting => c.i # c.o
      /\ c.op \in {"greet", "part"} => c.o \in Slot
  BY <1>1, <1>2, Fields DEF Moving
<1>4. s \notin Seen(s) /\ s \in Id
  BY IdAssumption DEF Seen, Id
<1> DEFINE Good(more) ==
      \A d \in Range(more) :
        /\ d.op \in {"tell", "put", "remove", "meet", "forget"}
        /\ d.op = "meet" => d.i \in Seen(s) /\ d.o = s
        /\ d.op = "forget" => d.i \notin Seen(s) /\ d.o = s
    Kept(more) ==
      /\ \A x \in list'[s] \ Seen(s) :
           x \in list[s] /\ c # Op("part", s, x) /\ c # Op("lose", s, x)
      /\ \A x \in Seen(s) \ list'[s] :
           x \notin list[s] /\ c # Op("greet", s, x) /\ c # Op("see", s, x)
      /\ \A i \in Seen(s) \cap Slot :
           \/ s \in list'[i]
           \/ /\ s \notin list[i] /\ c # Op("meet", i, s)
              /\ c = Op("greet", s, i) => Op("meet", i, s) \in Range(more)
<1>5. ASSUME NEW more \in Seq(Operation), Then(w, more), Good(more), Kept(more),
             UNCHANGED <<in_use, is_die, at>>
      PROVE  MoveOrder(todo'[w]) /\ Redraws(w, s)'
  BY <1>1, <1>5, RedrawStep
<1>6. \A d : d \notin Range(<<>>)
  BY Singles
<1>7. Good(<<>>)
  BY <1>6
<1>8. ASSUME UNCHANGED list, c.op \notin {"greet", "see", "part", "lose", "meet"}
      PROVE  Kept(<<>>)
  BY <1>8 DEF Op
<1> HIDE DEF c
<1>9. \/ See(w) \/ Meet(w) \/ Lose(w) \/ Forget(w)
      \/ Send(w) /\ c.op \in {"put", "remove", "tell"}
      \/ Recv(w) /\ c.op = "recv"
  <2>1. ASSUME NEW ops, Doing(w, ops)
        PROVE  c.op \in ops
    BY <2>1 DEF Doing, c
  <2>2. ~ Step(w) /\ ~ Scan(w) /\ ~ NpcScan(w) /\ ~ Plan(w) /\ ~ NpcPlan(w)
        /\ ~ Mourn(w) /\ ~ Revive(w) /\ ~ Look(w)
    BY <1>2, <2>1, OpNames DEF Moving
  <2>3. ~ Erase(w) /\ ~ Clear(w) /\ ~ Connect(w) /\ ~ Close(w) /\ ~ Register(w)
    BY <1>2, <2>1, OpNames DEF Moving
  <2>4. Send(w) => c.op \in {"put", "remove", "tell"}
    BY <2>1, OpNames
  <2>5. Recv(w) => c.op = "recv"
    BY <2>1, OpNames
  <2>6. See(w) \/ Meet(w) \/ Lose(w) \/ Forget(w) \/ Send(w) \/ Recv(w)
    BY <2>2, <2>3 DEF Operate
  <2> QED
    BY <2>4, <2>5, <2>6
<1>10. CASE See(w)
  <2>1. c.op = "see" \/ c.op = "greet"
    BY <1>10, OpNames DEF Doing, c
  <2> DEFINE last == IF c.op = "greet" THEN <<Op("meet", c.o, c.i)>> ELSE <<>>
             first == <<Op("put", c.i, c.o)>>
             more == first \o last
  <2>2. c.i = s /\ c.o \in Seen(s) /\ (c.op = "greet" => c.o \in Slot) /\ c.o # s
    BY <1>2, <1>3, <1>4, <2>1 DEF Inserting
  <2>3. /\ Op("put", c.i, c.o) \in Operation
        /\ c.op = "greet" => Op("meet", c.o, c.i) \in Operation
    BY <1>3, <1>4, <2>2, Ops
  <2>4. /\ last \in Seq(Operation)
        /\ c.op = "greet" => Op("meet", c.o, s) \in Range(last)
        /\ \A d \in Range(last) : d = Op("meet", c.o, s)
    BY <2>2, <2>3, Singles
  <2>5. first \in Seq(Operation) /\ \A d \in Range(first) : d = Op("put", c.i, c.o)
    BY <2>3, Singles
  <2>6. /\ Then(w, more) /\ list' = [list EXCEPT ![c.i] = list[c.i] \cup {c.o}]
        /\ UNCHANGED <<in_use, is_die, at>>
    BY <1>10 DEF See, Listing, Entered, c
  <2> HIDE DEF last, first
  <2>7. more \in Seq(Operation) /\ \A d : d \in Range(more) <=> d \in Range(first) \/ d \in Range(last)
    BY <2>4, <2>5, Joint
  <2> HIDE DEF more
  <2>8. Good(more)
    BY <2>2, <2>4, <2>5, <2>7 DEF Op
  <2>9. list'[s] = list[s] \cup {c.o} /\ \A i \in Slot : i # s => list'[i] = list[i]
    BY <2>2, <2>6 DEF TypeOK
  <2>10. Kept(more)
    <3>1. \A x \in list'[s] \ Seen(s) :
            x \in list[s] /\ c # Op("part", s, x) /\ c # Op("lose", s, x)
      BY <2>1, <2>2, <2>9 DEF Op
    <3>2. \A x \in Seen(s) \ list'[s] :
            x \notin list[s] /\ c # Op("greet", s, x) /\ c # Op("see", s, x)
      BY <2>9 DEF Op
    <3>3. \A i \in Seen(s) \cap Slot :
            \/ s \in list'[i]
            \/ /\ s \notin list[i] /\ c # Op("meet", i, s)
               /\ c = Op("greet", s, i) => Op("meet", i, s) \in Range(more)
      BY <1>4, <2>1, <2>4, <2>7, <2>9 DEF Op
    <3> QED
      BY <3>1, <3>2, <3>3
  <2> QED
    BY <1>5, <2>6, <2>7, <2>8, <2>10
<1>11. CASE Meet(w)
  <2>1. c.op = "meet"
    BY <1>11, OpNames DEF Doing, c
  <2>2. c.o = s /\ c.i \in Seen(s) /\ c.i # s
    BY <1>2, <1>4, <2>1
  <2>3. PICK op \in {"tell", "put"} : Then(w, <<Op(op, c.i, c.o)>>)
    BY <1>11 DEF Meet, c
  <2>4. list' = [list EXCEPT ![c.i] = list[c.i] \cup {c.o}] /\ UNCHANGED <<in_use, is_die, at>>
    BY <1>11 DEF Meet, Listing, Entered, c
  <2>5. Op(op, c.i, c.o) \in Operation
    BY <1>3, Ops
  <2> DEFINE more == <<Op(op, c.i, c.o)>>
  <2>6. more \in Seq(Operation) /\ \A d \in Range(more) : d.op \in {"tell", "put"}
    BY <2>5, Singles DEF Op
  <2>7. list'[s] = list[s] /\ s \in list'[c.i] /\ \A i \in Slot : i # c.i => list'[i] = list[i]
    BY <1>3, <2>2, <2>4 DEF TypeOK
  <2>8. Then(w, more)
    BY <2>3
  <2> HIDE DEF more
  <2>9. Good(more)
    BY <2>6
  <2>10. Kept(more)
    BY <2>1, <2>7 DEF Op
  <2> QED
    BY <1>5, <2>4, <2>6, <2>8, <2>9, <2>10
<1>12. CASE Lose(w)
  <2>1. c.op = "lose" \/ c.op = "part"
    BY <1>12, OpNames DEF Doing, c
  <2> DEFINE last == IF c.op = "part" THEN <<Op("forget", c.o, c.i)>> ELSE <<>>
             first == <<Op("remove", c.i, c.o)>>
             more == first \o last
  <2>2. c.i = s /\ c.o \notin Seen(s) /\ (c.op = "part" => c.o \in Slot)
    BY <1>2, <1>3, <2>1
  <2>3. /\ Op("remove", c.i, c.o) \in Operation
        /\ c.op = "part" => Op("forget", c.o, c.i) \in Operation
    BY <1>3, <1>4, <2>2, Ops
  <2>4. last \in Seq(Operation) /\ \A d \in Range(last) : d = Op("forget", c.o, s)
    BY <2>2, <2>3, Singles
  <2>5. first \in Seq(Operation) /\ \A d \in Range(first) : d = Op("remove", c.i, c.o)
    BY <2>3, Singles
  <2>6. /\ Then(w, more) /\ list' = [list EXCEPT ![c.i] = list[c.i] \ {c.o}]
        /\ UNCHANGED <<in_use, is_die, at>>
    BY <1>12 DEF Lose, Listing, c
  <2> HIDE DEF last, first
  <2>7. more \in Seq(Operation) /\ \A d : d \in Range(more) <=> d \in Range(first) \/ d \in Range(last)
    BY <2>4, <2>5, Joint
  <2> HIDE DEF more
  <2>8. Good(more)
    BY <2>2, <2>4, <2>5, <2>7 DEF Op
  <2>9. list'[s] = list[s] \ {c.o} /\ \A i \in Slot : i # s => list'[i] = list[i]
    BY <2>2, <2>6 DEF TypeOK
  <2>10. Kept(more)
    <3>1. \A x \in list'[s] \ Seen(s) :
            x \in list[s] /\ c # Op("part", s, x) /\ c # Op("lose", s, x)
      BY <2>9 DEF Op
    <3>2. \A x \in Seen(s) \ list'[s] :
            x \notin list[s] /\ c # Op("greet", s, x) /\ c # Op("see", s, x)
      BY <2>1, <2>2, <2>9 DEF Op
    <3>3. \A i \in Seen(s) \cap Slot :
            \/ s \in list'[i]
            \/ s \notin list[i] /\ c # Op("meet", i, s) /\ c # Op("greet", s, i)
      BY <1>4, <2>1, <2>9 DEF Op
    <3> QED
      BY <3>1, <3>2, <3>3
  <2> QED
    BY <1>5, <2>6, <2>7, <2>8, <2>10
<1>13. CASE Forget(w)
  <2>1. c.op = "forget"
    BY <1>13, OpNames DEF Doing, c
  <2> DEFINE more == IF c.o \in list[c.i] THEN <<Op("remove", c.i, c.o)>> ELSE <<>>
  <2>2. c.o = s /\ c.i \notin Seen(s)
    BY <1>2, <2>1
  <2>3. /\ Then(w, more) /\ list' = [list EXCEPT ![c.i] = list[c.i] \ {c.o}]
        /\ UNCHANGED <<in_use, is_die, at>>
    BY <1>13 DEF Forget, Listing, c
  <2>4. Op("remove", c.i, c.o) \in Operation
    BY <1>3, Ops
  <2>5. more \in Seq(Operation) /\ \A d \in Range(more) : d.op = "remove"
    BY <2>4, Singles DEF Op
  <2> HIDE DEF more
  <2>6. Good(more)
    BY <2>5
  <2>7. /\ list'[s] \subseteq list[s] /\ list[s] \ list'[s] \subseteq {s}
        /\ \A i \in Slot : i # c.i => list'[i] = list[i]
    BY <1>3, <2>2, <2>3 DEF TypeOK
  <2>8. Kept(more)
    BY <1>4, <2>1, <2>2, <2>7 DEF Op
  <2> QED
    BY <1>5, <2>3, <2>5, <2>6, <2>8
<1>14. CASE Send(w) /\ c.op \in {"put", "remove", "tell"}
  <2>1. UNCHANGED <<in_use, is_die, at, list>>
    BY <1>14 DEF Send
  <2>2. Then(w, <<>>)
    <3>1. open[c.i]
      BY <1>14, HungType DEF Send, c
    <3> QED
      BY <1>14, <3>1 DEF Send, c
  <2> QED
    BY <1>5, <1>7, <1>8, <1>14, <2>1, <2>2, Singles
<1>15. CASE Recv(w) /\ c.op = "recv"
  <2>1. UNCHANGED <<in_use, is_die, at, list>>
    BY <1>15 DEF Recv, shared
  <2>2. Then(w, <<>>)
    <3>1. open[c.i]
      BY <1>15, HungType DEF Recv, c
    <3> QED
      BY <1>15, <3>1 DEF Recv, c
  <2> QED
    BY <1>5, <1>7, <1>8, <1>15, <2>1, <2>2, Singles
<1> QED
  BY <1>9, <1>10, <1>11, <1>12, <1>13, <1>14, <1>15

LEMMA LookOperate ==
  ASSUME TypeOK, LocalInv, NEW w \in Thread, NEW s \in Slot, MoveOrder(todo[w]),
         Looking(w, s), Operate(w)
  PROVE  MoveOrder(todo'[w]) /\ (Looking(w, s)' \/ Redraws(w, s)')
<1> DEFINE c == Head(todo[w])
<1>1. /\ todo[w] \in Seq(Operation) /\ todo[w] # <<>>
      /\ ~ Idle(w) /\ c \in Operation /\ c \in Pending(w) /\ c = Op(c.op, c.i, c.o)
      /\ \A d \in Pending(w) : d = c \/ d \in Range(Tail(todo[w]))
  <2>1. todo[w] \in Seq(Operation) /\ todo[w] # <<>>
    BY OperateFrame DEF TypeOK, Idle
  <2> QED
    BY <2>1, Queue, Fields DEF Idle, Pending
<1>2. /\ \A d \in Range(Tail(todo[w])) : d.op # "step"
      /\ c.op = "plan" => Tail(todo[w]) = <<>>
      /\ MoveOrder(<<>> \o Tail(todo[w]))
  BY <1>1, Singles, MoveOrderStep
<1>3. c.op \in Planning /\ c.i = s
  BY <1>1 DEF Looking
<1>4. s \notin Seen(s) /\ s \in Id
  BY IdAssumption DEF Seen, Id
<1>5. ASSUME Then(w, <<>>)
      PROVE  /\ todo'[w] = <<>> \o Tail(todo[w])
             /\ \A d \in Pending(w)' : d \in Pending(w)
             /\ \A d \in Pending(w) : d = c \/ d \in Pending(w)'
             /\ \A d \in Pending(w)' : d.op # "step"
  <2>1. /\ todo'[w] = <<>> \o Tail(todo[w])
        /\ \A d \in Pending(w)' : d \in Range(<<>>) \/ d \in Pending(w)
        /\ \A d \in Pending(w) : d = c \/ d \in Pending(w)'
    BY <1>1, <1>5, ThenType, Singles
  <2>2. todo'[w] = Tail(todo[w])
    BY <1>1, <2>1, Behind
  <2> QED
    BY <1>2, <2>1, <2>2, Singles DEF Pending
<1> HIDE DEF c
<1>6. \/ Step(w) /\ c.op = "step"
      \/ Scan(w) /\ c.op = "scan"
      \/ Plan(w) /\ c.op = "plan"
  <2>1. ASSUME NEW ops, Doing(w, ops)
        PROVE  c.op \in ops
    BY <2>1 DEF Doing, c
  <2>2. ~ NpcScan(w) /\ ~ NpcPlan(w) /\ ~ Mourn(w) /\ ~ Revive(w) /\ ~ Look(w)
        /\ ~ See(w) /\ ~ Meet(w) /\ ~ Lose(w) /\ ~ Forget(w)
    BY <1>3, <2>1, OpNames DEF Planning
  <2>3. ~ Erase(w) /\ ~ Clear(w) /\ ~ Send(w) /\ ~ Recv(w)
        /\ ~ Connect(w) /\ ~ Close(w) /\ ~ Register(w)
    BY <1>3, <2>1, OpNames DEF Planning
  <2>4. Step(w) \/ Scan(w) \/ Plan(w)
    BY <2>2, <2>3 DEF Operate
  <2>5. Step(w) => c.op = "step"
    BY <2>1, OpNames
  <2>6. Scan(w) => c.op = "scan"
    BY <2>1, OpNames
  <2>7. Plan(w) => c.op = "plan"
    BY <2>1, OpNames
  <2> QED
    BY <2>4, <2>5, <2>6, <2>7
<1>7. CASE Step(w) /\ c.op = "step"
  <2>1. Then(w, <<>>) /\ UNCHANGED <<list, old, new>>
    BY <1>7 DEF Step, locals
  <2>2. new[w] = {} /\ \A x \in Id \ {s} : Asks(w, "scan", s, x)
    BY <1>1, <1>7 DEF Looking
  <2>3. \A x \in Seen(s)' : x \in Id \ {s}
    BY <1>4, IdAssumption DEF Seen, Id
  <2>4. \A x \in Id : c # Op("scan", s, x) /\ c # Op("plan", s, s)
    BY <1>7 DEF Op
  <2>5. \A x \in Seen(s)' : Asks(w, "scan", s, x)'
    BY <1>5, <2>1, <2>2, <2>3, <2>4 DEF Asks
  <2>6. Asks(w, "plan", s, s)'
    BY <1>4, <1>5, <2>1, <2>4 DEF Looking, Asks
  <2>7. \A d \in Pending(w)' : d.op \in Planning /\ d.i = s /\ d.op # "step"
    BY <1>5, <2>1 DEF Looking
  <2>8. old'[w] = list'[s] /\ new'[w] = {}
    BY <2>1, <2>2 DEF Looking
  <2>9. Looking(w, s)'
    BY <2>5, <2>6, <2>7, <2>8 DEF Looking
  <2> QED
    BY <1>2, <1>5, <2>1, <2>9
<1>8. CASE Scan(w) /\ c.op = "scan"
  <2>1. /\ Then(w, <<>>) /\ UNCHANGED <<in_use, is_die, at, list, old>>
        /\ new' = [new EXCEPT ![w] = IF Sighted(c.i, c.o) THEN @ \cup {c.o} ELSE @]
    BY <1>8 DEF Scan, shared, c
  <2>2. Seen(s)' = Seen(s)
    BY <2>1, SeenSame
  <2>3. c.o \in Id /\ c.o # s /\ c.i = s
    BY <1>1, <1>3, <1>8, Fields DEF Inserting
  <2>4. Sighted(s, c.o) <=> c.o \in Seen(s)
    BY <2>3 DEF Seen, Id
  <2>5. new'[w] = IF c.o \in Seen(s) THEN new[w] \cup {c.o} ELSE new[w]
    BY <2>1, <2>3, <2>4 DEF TypeOK
  <2>6. new'[w] \subseteq Seen(s)
    BY <2>5 DEF Looking
  <2>7. ASSUME NEW x \in Seen(s) \ new'[w]
        PROVE  Asks(w, "scan", s, x)'
    <3>1. x \in Seen(s) \ new[w] /\ x # c.o
      BY <2>5
    <3>2. Asks(w, "scan", s, x) /\ c # Op("scan", s, x)
      BY <3>1 DEF Looking, Op
    <3> QED
      BY <1>5, <2>1, <3>2 DEF Asks
  <2>8. Asks(w, "plan", s, s)'
    <3>1. c # Op("plan", s, s)
      BY <1>8 DEF Op
    <3> QED
      BY <1>5, <2>1, <3>1 DEF Looking, Asks
  <2>9. \A d \in Pending(w)' : d.op \in Planning /\ d.i = s /\ d.op # "step"
    BY <1>5, <2>1 DEF Looking
  <2>10. old'[w] = list'[s]
    BY <2>1 DEF Looking
  <2>11. Looking(w, s)'
    BY <2>2, <2>6, <2>7, <2>8, <2>9, <2>10 DEF Looking
  <2> QED
    BY <1>2, <1>5, <2>1, <2>11
<1>9. CASE Plan(w) /\ c.op = "plan"
  <2>1. UNCHANGED <<in_use, is_die, at, list>>
    BY <1>9 DEF Plan, shared
  <2>2. Seen(s)' = Seen(s)
    BY <2>1, SeenSame
  <2>3. Tail(todo[w]) = <<>> /\ \A d \in Pending(w) : d = c
    <3>1. Tail(todo[w]) = <<>>
      BY <1>2, <1>9
    <3> QED
      BY <1>1, <3>1, Singles
  <2>4. new[w] = Seen(s)
    <3>1. \A x \in Seen(s) : ~ Asks(w, "scan", s, x)
      BY <1>9, <2>3 DEF Asks, Op
    <3> QED
      BY <3>1 DEF Looking
  <2>5. old[w] = list[s]
    BY DEF Looking
  <2> DEFINE last == <<Op("recv", s, s)>>
  <2> DEFINE z == c.i
  <2>5a. PICK front \in Seq(Operation) :
          /\ Then(w, front \o <<Op("recv", z, z)>>)
          /\ \A d : d \in Range(front) <=>
               \/ d = Op("tell", z, z)
               \/ \E i \in old[w] \cap new[w] \cap Slot : d = Op("meet", i, z)
               \/ \E i \in (new[w] \ old[w]) \cap Slot : d = Op("greet", z, i)
               \/ \E i \in (old[w] \ new[w]) \cap Slot : d = Op("part", z, i)
               \/ \E n \in (new[w] \ old[w]) \cap Npc : d = Op("see", z, n)
               \/ \E n \in (old[w] \ new[w]) \cap Npc : d = Op("lose", z, n)
    BY <1>9, PlanProgram DEF c
  <2>5b. z = s
    BY <1>3
  <2> HIDE DEF z
  <2>6. /\ Then(w, front \o last)
        /\ \A d : d \in Range(front) <=>
             \/ d = Op("tell", s, s)
             \/ \E i \in old[w] \cap new[w] \cap Slot : d = Op("meet", i, s)
             \/ \E i \in (new[w] \ old[w]) \cap Slot : d = Op("greet", s, i)
             \/ \E i \in (old[w] \ new[w]) \cap Slot : d = Op("part", s, i)
             \/ \E n \in (new[w] \ old[w]) \cap Npc : d = Op("see", s, n)
             \/ \E n \in (old[w] \ new[w]) \cap Npc : d = Op("lose", s, n)
    BY <2>5a, <2>5b
  <2>7. Op("recv", s, s) \in Operation
    BY <1>4, Ops
  <2>8. last \in Seq(Operation) /\ \A d : d \in Range(last) <=> d = Op("recv", s, s)
    BY <2>7, Singles
  <2> HIDE DEF last
  <2> DEFINE more == front \o last
  <2>9. /\ more \in Seq(Operation)
        /\ \A d : d \in Range(more) <=> d \in Range(front) \/ d \in Range(last)
    BY <2>8, Joint
  <2>10. Then(w, more)
    BY <2>6
  <2>11. /\ todo'[w] = more \o <<>>
         /\ \A d \in Pending(w)' : d \in Range(more) \/ d \in Pending(w)
         /\ \A d \in Range(more) : d \in Pending(w)'
    BY <1>1, <2>3, <2>9, <2>10, ThenType
  <2>12. todo'[w] = more
    BY <2>9, <2>11, ConcatEmptySeq
  <2>13. \A d : d \in Pending(w)' <=> d \in Range(front) \/ d = Op("recv", s, s)
    BY <2>8, <2>9, <2>12 DEF Pending
  <2>14. MoveOrder(todo'[w])
    <3>1. MoveOrder(last) /\ \A d \in Range(last) : d.op # "step"
      <4>1. Len(last) = 1
        BY DEF last
      <4> QED
        BY <2>8, <4>1 DEF MoveOrder, last, Op
    <3>2. \A d \in Range(front) : d.op \notin {"step", "plan", "recv"}
      BY <2>6 DEF Op
    <3>3. \A k \in 1 .. Len(front) :
            front[k].op \notin {"plan", "recv"} /\ (front[k].op = "step" => k = 1)
      <4>1. DOMAIN front = 1 .. Len(front)
        BY LenProperties
      <4> QED
        BY <3>2, <4>1 DEF Range
    <3>4. MoveOrder(more)
      BY <2>8, <3>1, <3>3, OrderAfter
    <3> QED
      BY <2>12, <3>4
  <2>15. ASSUME NEW d \in Pending(w)'
         PROVE  /\ d.op \in Moving
                /\ d.op \in {"greet", "see"} => d.i = s /\ d.o \in Seen(s)
                /\ d.op \in {"part", "lose"} => d.i = s /\ d.o \notin Seen(s)
                /\ d.op = "meet" => d.i \in Seen(s) /\ d.o = s
                /\ d.op = "forget" => d.i \notin Seen(s) /\ d.o = s
                /\ d.op = "recv" => d.i = s
    BY <2>4, <2>6, <2>13 DEF Moving, Op
  <2>16. list[s] \subseteq Slot \cup Npc /\ Seen(s) \subseteq Slot \cup Npc
    BY DEF TypeOK, Id, Seen
  <2>17. ASSUME NEW x \in list[s] \ Seen(s)
         PROVE  Asks(w, "part", s, x)' \/ Asks(w, "lose", s, x)'
    BY <2>4, <2>5, <2>6, <2>13, <2>16 DEF Asks
  <2>18. ASSUME NEW x \in Seen(s) \ list[s]
         PROVE  Asks(w, "greet", s, x)' \/ Asks(w, "see", s, x)'
    BY <2>4, <2>5, <2>6, <2>13, <2>16 DEF Asks
  <2>19. ASSUME NEW i \in Seen(s) \cap Slot
         PROVE  Asks(w, "meet", i, s)' \/ Asks(w, "greet", s, i)'
    BY <2>4, <2>5, <2>6, <2>13 DEF Asks
  <2>20. Redraws(w, s)'
    BY <2>1, <2>2, <2>15, <2>17, <2>18, <2>19 DEF Redraws
  <2> QED
    BY <2>14, <2>20
<1> QED
  BY <1>6, <1>7, <1>8, <1>9

LEMMA Led ==
  ASSUME NEW p \in Seq(Operation), Len(p) = 1, NEW q \in Seq(Operation)
  PROVE  /\ p \o q \in Seq(Operation) /\ Len(p \o q) = 1 + Len(q)
         /\ \A k \in 1 .. 1 + Len(q) :
              (p \o q)[k] = IF k <= 1 THEN p[k] ELSE q[k - 1]
<1>1. /\ p \o q \in Seq(Operation) /\ Len(p \o q) = Len(p) + Len(q)
      /\ \A k \in 1 .. Len(p) + Len(q) :
           (p \o q)[k] = IF k <= Len(p) THEN p[k] ELSE q[k - Len(p)]
  BY ConcatProperties
<1> QED
  BY <1>1

LEMMA HealBegins ==
  ASSUME TypeOK, NEW w \in Thread, NEW s \in Slot, NEW d, StartMove(w, s, d)
  PROVE  Healing(w)'
<1> DEFINE p == Stepped(at[s], d)
           scans == AboutEach("scan", s, Others(s) \o Npcs)
           first == <<Op("step", s, p)>>
           last == <<Op("plan", s, s)>>
           q == first \o scans \o last
<1>1. p \in World /\ s \in Id
  BY SteppedInWorld DEF TypeOK, Id
<1>2. /\ q \in Seq(Operation)
      /\ \A c : c \in Range(q) <=>
           \/ c = Op("step", s, p)
           \/ \E x \in Id \ {s} : c = Op("scan", s, x)
           \/ c = Op("plan", s, s)
  BY <1>1, MoveType
<1>3. Start(w, "move", s, list[s], q) /\ UNCHANGED shared
  BY DEF StartMove
<1>4. job'[w] = <<"move", s>> /\ todo'[w] = q /\ old'[w] = list[s] /\ new'[w] = {}
  BY <1>3 DEF Start, TypeOK
<1>5. MoveOrder(q)
  <2>1. Op("step", s, p) \in Operation /\ Op("plan", s, s) \in Operation
    BY <1>1, Ops
  <2>2. first \in Seq(Operation) /\ Len(first) = 1 /\ first[1].op = "step"
    BY <2>1 DEF Op
  <2>3. last \in Seq(Operation) /\ MoveOrder(last) /\ \A c \in Range(last) : c.op # "step"
    BY <2>1, Singles DEF MoveOrder, Op
  <2>4. /\ \A c \in Range(scans) : c.op = "scan"
        /\ \A x \in Id \ {s} : Op("scan", s, x) \in Operation
    <3>1. \A c : c \in Range(scans) <=> \E x \in Range(Others(s) \o Npcs) : c = Op("scan", s, x)
      BY LoopRange
    <3>2. \A c \in Range(scans) : c.op = "scan"
      BY <3>1 DEF Op
    <3> QED
      BY <3>2, Ops
  <2>5. scans \in Seq(Operation)
    <3>1. Slot \ {s} \subseteq Id \ {s} /\ Npc \subseteq Id \ {s}
      BY IdAssumption DEF Id
    <3>2. Others(s) \in Seq(Id \ {s}) /\ Npcs \in Seq(Id \ {s})
      BY <3>1, OthersProgram, NpcsProgram, SeqMonotonic
    <3>3. Others(s) \o Npcs \in Seq(Id \ {s})
      BY <3>2, ConcatProperties
    <3> QED
      BY <2>4, <3>3, LoopType
  <2> HIDE DEF first, scans, last
  <2>6. first \o scans \in Seq(Operation) /\ Len(first \o scans) = 1 + Len(scans)
        /\ \A k \in 1 .. 1 + Len(scans) :
             (first \o scans)[k] = IF k <= 1 THEN first[k] ELSE scans[k - 1]
    BY <2>2, <2>5, Led
  <2>7. Len(scans) \in Nat /\ DOMAIN scans = 1 .. Len(scans)
    BY <2>5, LenProperties
  <2>8. ASSUME NEW k \in 1 .. Len(first \o scans)
        PROVE  /\ (first \o scans)[k].op \notin {"plan", "recv"}
               /\ (first \o scans)[k].op = "step" => k = 1
    <3>1. CASE k = 1
      BY <2>2, <2>6, <2>7, <3>1
    <3>2. CASE k # 1
      <4>1. k - 1 \in 1 .. Len(scans) /\ (first \o scans)[k] = scans[k - 1]
        BY <2>6, <2>7, <3>2
      <4> QED
        BY <2>4, <2>7, <4>1 DEF Range
    <3> QED
      BY <3>1, <3>2
  <2> QED
    BY <2>3, <2>6, <2>8, OrderAfter
<1> HIDE DEF q, p
<1>6. /\ \A c : c \in Pending(w)' <=> c \in Range(q)
      /\ list' = list
  BY <1>3, <1>4 DEF Pending, shared
<1>7. \A c \in Pending(w)' : c.op \in Planning /\ c.i = s
  BY <1>2, <1>6 DEF Planning, Op
<1>8. \A x \in Id \ {s} : Asks(w, "scan", s, x)'
  BY <1>2, <1>6 DEF Asks
<1>9. \A x \in Seen(s)' : x \in Id \ {s}
  BY <1>1, IdAssumption DEF Seen, Id
<1>10. Asks(w, "plan", s, s)'
  BY <1>2, <1>6 DEF Asks
<1>11. Looking(w, s)'
  BY <1>4, <1>6, <1>7, <1>8, <1>9, <1>10 DEF Looking
<1> QED
  BY <1>4, <1>5, <1>11 DEF Healing

LEMMA HealOperate ==
  ASSUME TypeOK, LocalInv, NEW w \in Thread, Healing(w), Operate(w), job'[w] = job[w],
         ~ Stuck(w)'
  PROVE  Healing(w)'
<1>1. PICK s \in Slot : s = job[w][2]
  BY DEF Healing
<1>2. MoveOrder(todo[w]) /\ (Looking(w, s) \/ Redraws(w, s))
  BY <1>1 DEF Healing
<1>3. job'[w][2] = s
  BY <1>1
<1>4. MoveOrder(todo'[w]) /\ (Looking(w, s)' \/ Redraws(w, s)')
  <2>1. CASE Looking(w, s)
    BY <1>2, <2>1, LookOperate
  <2>2. CASE Redraws(w, s)
    BY <1>2, <2>2, RedrawOperate
  <2> QED
    BY <1>2, <2>1, <2>2
<1> QED
  BY <1>3, <1>4 DEF Healing

LEMMA MoveStep ==
  ASSUME TypeOK, LocalInv, AloneInv, MoveInv, [Next]_vars
  PROVE  MoveInv'
<1> SUFFICES ASSUME NEW w \in alone', job'[w][1] = "move", ~ Stuck(w)'
             PROVE  Healing(w)'
  BY DEF MoveInv
<1>1. CASE UNCHANGED vars
  <2>1. w \in alone /\ job[w][1] = "move" /\ ~ Stuck(w)
    BY <1>1 DEF vars, observers, Stuck, Idle
  <2>2. Healing(w)
    BY <2>1 DEF MoveInv
  <2> QED
    BY <1>1, <2>2, SMTT(30)
    DEF vars, shared, locals, observers, Healing, Looking, Redraws, Seen,
                      Sighted, Pending, Asks
<1>2. ASSUME NEW v \in Thread, (v \in Worker /\ Take(v)) \/ (v = Acceptor /\ StartAccept)
      PROVE  Healing(w)'
  <2>1. alone' \subseteq {v}
    BY <1>2, TakeFrame
  <2>2. w = v
    BY <2>1
  <2>3. w \in alone' /\ job'[w][1] = "move" =>
          \E s \in Slot, d \in 0 .. 4 : StartMove(w, s, d)
    BY <1>2, <2>2, TakeFrame
  <2>4. PICK s \in Slot, d \in 0 .. 4 : StartMove(w, s, d)
    BY <2>3
  <2> QED
    BY <1>2, <2>2, <2>4, HealBegins
<1>3. ASSUME NEW v \in Thread, Operate(v)
      PROVE  Healing(w)'
  <2>1. w = v /\ w \in alone
    BY <1>3, OnlyOne
  <2>2. ~ Stuck(w) /\ (job'[w] = job[w] \/ job'[w] = NoJob)
    BY <1>3, <2>1, OperateFrame
  <2>3. job'[w] = job[w]
    BY <2>2 DEF NoJob
  <2>4. Healing(w)
    BY <2>1, <2>2, <2>3 DEF MoveInv
  <2> QED
    BY <1>3, <2>1, <2>3, <2>4, HealOperate
<1> QED
  BY <1>1, <1>2, <1>3 DEF Next, Thread

(* Whatever the interleavings of the past have left in the lists, a CS_MOVE  *)
(* that runs without interference makes the lists of its client exact and    *)
(* enters it in the lists of the players it sees.                            *)
THEOREM LoneMoves == Spec => []LoneMoveHeals
<1>1. Init => MoveInv
  BY DEF Init, MoveInv
<1>2. CoreInv /\ MoveInv /\ [Next]_vars => MoveInv'
  BY MoveStep DEF CoreInv
<1>3. CoreInv /\ MoveInv => LoneMoveHeals
  <2> SUFFICES ASSUME CoreInv, MoveInv, NEW w \in Worker, Alone(w, "move"), Doing(w, {"recv"})
               PROVE  LET s == job[w][2]
                          seen == {x \in (Slot \ {s}) \cup Npc : Sighted(s, x)}
                      IN  list[s] = seen /\ \A i \in seen \cap Slot : s \in list[i]
    BY DEF LoneMoveHeals
  <2> DEFINE s == job[w][2]
             c == Head(todo[w])
  <2>1. w \in Thread /\ TypeOK /\ w \in alone /\ job[w][1] = "move"
    BY DEF Thread, CoreInv, Alone
  <2>2. /\ todo[w] \in Seq(Operation) /\ todo[w] # <<>> /\ c \in Operation
        /\ c \in Pending(w) /\ c.op = "recv"
    BY <2>1, Busy
  <2>3. ~ Stuck(w)
    BY <2>2 DEF Stuck
  <2>4. s \in Slot /\ MoveOrder(todo[w]) /\ (Looking(w, s) \/ Redraws(w, s))
    BY <2>1, <2>3 DEF MoveInv, Healing
  <2>5. Redraws(w, s)
    BY <2>2, <2>4 DEF Looking, Planning
  <2>6. \A d \in Pending(w) : d = c
    <3>1. Tail(todo[w]) = <<>>
      BY <2>2, <2>4, MoveOrderStep
    <3>2. \A d : d \in Range(todo[w]) <=> d = c \/ d \in Range(Tail(todo[w]))
      BY <2>2, Queue
    <3> QED
      BY <3>1, <3>2, Singles DEF Pending
  <2>7. \A op \in {"meet", "greet", "see", "part", "lose"} : \A i, o : ~ Asks(w, op, i, o)
    BY <2>2, <2>6 DEF Asks, Op
  <2>8. list[s] \subseteq Seen(s) /\ Seen(s) \subseteq list[s]
    BY <2>5, <2>7 DEF Redraws
  <2>9. \A i \in Seen(s) \cap Slot : s \in list[i]
    BY <2>5, <2>7 DEF Redraws
  <2> QED
    BY <2>8, <2>9 DEF Seen
<1> QED
  BY <1>1, <1>2, <1>3, CoreInvariant, PTL DEF Spec

-----------------------------------------------------------------------------
(* Nobody was disconnected. *)

\* Operations that send to i, or lead to one that does without asking again.
Reaching ==
  {"find", "notice", "tell", "put", "remove", "see", "greet", "meet", "lose", "part",
   "forget", "plan"}

\* Operations that lead to one on the slot of the player o they are about.
Mutual == {"show", "see", "greet", "meet", "part"}

\* What an operation touches has a socket, or gets it first.
Ready(w, c) ==
  /\ c.op \notin {"hung", "mourn", "revive"}
  /\ c.op \in Reaching => open[c.i]
  /\ c.op \in Mutual /\ c.o \in Slot => open[c.o]
  /\ c.op \in {"use", "recv"} => open[c.i] \/ Head(todo[w]) = Op("socket", c.i, c.i)
  /\ c.op = "notice" => c.o \in Npc

AllReady == \A w \in Thread : \A c \in Pending(w) : Ready(w, c)

\* Every slot that is registered, listed or has a list has a socket.
Connected ==
  /\ late = {}
  /\ \A s \in Slot :
       /\ in_use[s] \/ armed[s] \/ list[s] # {} => open[s]
       /\ \A x \in list[s] \cap Slot : open[x]
       /\ reviving[s] = 0

Gathered == \A w \in Thread : \A i \in (old[w] \cup new[w]) \cap Slot : open[i]

CalmInv == calm => Connected /\ Gathered /\ AllReady

LEMMA PendingType ==
  ASSUME TypeOK, NEW w \in Thread, NEW c \in Pending(w)
  PROVE  c \in Operation
<1>1. todo[w] \in Seq(Operation)
  BY DEF TypeOK
<1>2. PICK k \in DOMAIN todo[w] : c = todo[w][k]
  BY DEF Pending, Range
<1>3. DOMAIN todo[w] = 1 .. Len(todo[w])
  BY <1>1, LenProperties
<1> QED
  BY <1>1, <1>2, <1>3, ElementOfSeq

(* A thread goes on with operations that are ready. *)
LEMMA ReadyThen ==
  ASSUME TypeOK, AllReady, NEW w \in Thread, ~ Idle(w),
         NEW more \in Seq(Operation), Then(w, more),
         \A s \in Slot : open[s] => open'[s],
         Head(todo[w]).op = "socket" => open'[Head(todo[w]).i],
         \A c \in Range(more) :
           /\ c.op \notin {"hung", "mourn", "revive", "use", "notice"}
           /\ c.op \in Reaching \cup {"recv"} => open'[c.i]
           /\ c.op \in Mutual /\ c.o \in Slot => open'[c.o]
  PROVE  AllReady'
<1> SUFFICES ASSUME NEW v \in Thread, NEW c \in Pending(v)'
             PROVE  Ready(v, c)'
  BY DEF AllReady
<1>1. ASSUME c \in Pending(v), c.op \in {"use", "recv"} => open'[c.i] \/ Head(todo'[v]) = Op("socket", c.i, c.i)
      PROVE  Ready(v, c)'
  <2>1. c \in Operation /\ Ready(v, c)
    BY <1>1, PendingType DEF AllReady
  <2>2. c.op \in Reaching => c.i \in Slot
    BY <2>1, Fields DEF Reaching
  <2> QED
    BY <1>1, <2>1, <2>2 DEF Ready
<1>2. CASE v # w
  <2>1. todo'[v] = todo[v] /\ c \in Pending(v)
    BY <1>2, ThenType DEF Pending
  <2>2. c \in Operation /\ Ready(v, c)
    BY <2>1, PendingType DEF AllReady
  <2>3. c.op \in {"use", "recv"} => c.i \in Slot
    BY <2>2, Fields
  <2> QED
    BY <1>1, <2>1, <2>2, <2>3 DEF Ready
<1>3. CASE v = w /\ c \in Range(more)
  BY <1>3 DEF Ready
<1>4. CASE v = w /\ c \in Pending(w)
  <2>1. c \in Operation /\ Ready(w, c)
    BY <1>4, PendingType DEF AllReady
  <2>2. c.op \in {"use", "recv"} => open'[c.i]
    <3>1. c.op \in {"use", "recv"} => c.i \in Slot
      BY <2>1, Fields
    <3> QED
      BY <2>1, <3>1 DEF Ready, Op
  <2> QED
    BY <1>1, <1>4, <2>2
<1> QED
  BY <1>2, <1>3, <1>4, ThenType

(* A thread begins with operations that are ready. *)
LEMMA ReadyBegins ==
  ASSUME TypeOK, AllReady, NEW w \in Thread, NEW kind, NEW x, NEW seen,
         NEW program, Start(w, kind, x, seen, program), UNCHANGED open,
         \A c \in Range(program) :
           /\ c.op \notin {"hung", "mourn", "revive"}
           /\ c.op \in Reaching => open[c.i]
           /\ c.op \in Mutual /\ c.o \in Slot => open[c.o]
           /\ c.op \in {"use", "recv"} => open[c.i] \/ Head(program) = Op("socket", c.i, c.i)
           /\ c.op = "notice" => c.o \in Npc
  PROVE  AllReady'
<1> SUFFICES ASSUME NEW v \in Thread, NEW c \in Pending(v)'
             PROVE  Ready(v, c)'
  BY DEF AllReady
<1>1. todo'[w] = program /\ \A u \in Thread \ {w} : todo'[u] = todo[u]
  BY DEF Start, TypeOK
<1>2. CASE v # w
  BY <1>1, <1>2 DEF AllReady, Pending, Ready
<1>3. CASE v = w
  BY <1>1, <1>3 DEF Pending, Ready
<1> QED
  BY <1>2, <1>3

LEMMA Appended ==
  ASSUME NEW a, NEW b
  PROVE  <<a>> \o <<b>> = <<a, b>>
<1>1. <<a>> \in Seq({a, b}) /\ b \in {a, b}
  OBVIOUS
<1> DEFINE p == <<a>> \o <<b>>
           q == <<a, b>>
<1>2. /\ p \in Seq({a, b}) /\ Len(p) = 2
      /\ p[1] = a /\ p[2] = b
  <2>1. <<b>> \in Seq({a, b}) /\ Len(<<a>>) = 1 /\ Len(<<b>>) = 1
    OBVIOUS
  <2> QED
    BY <1>1, <2>1, ConcatProperties
<1>3. /\ q \in Seq({a, b}) /\ Len(q) = 2
      /\ q[1] = a /\ q[2] = b
  OBVIOUS
<1> HIDE DEF p, q
<1>4. \A k \in 1 .. Len(p) : p[k] = q[k]
  <2>1. \A k \in 1 .. 2 : k = 1 \/ k = 2
    OBVIOUS
  <2> QED
    BY <1>2, <1>3, <2>1
<1>5. p = q
  BY <1>2, <1>3, <1>4, SeqEqual
<1> QED
  BY <1>5 DEF p, q

\* An operation a thread may go on with.
Fit(d) ==
  /\ d.op \notin {"hung", "mourn", "revive", "use", "notice"}
  /\ d.op \in Reaching \cup {"recv"} => open[d.i]
  /\ d.op \in Mutual /\ d.o \in Slot => open[d.o]

LEMMA CalmOperate ==
  ASSUME TypeOK, LocalInv, Connected, Gathered, AllReady, NEW w \in Thread, Operate(w),
         \A s \in Slot : open[s] => open'[s]
  PROVE  Connected' /\ Gathered' /\ AllReady'
<1>0. PICK c : c = Head(todo[w])
  OBVIOUS
<1>1. ASSUME NEW ops, Doing(w, ops)
      PROVE  /\ ~ Idle(w) /\ c \in Operation /\ c \in Pending(w) /\ c.op \in ops
             /\ c = Op(c.op, c.i, c.o) /\ Ready(w, c)
  BY <1>0, <1>1, Busy, Fields DEF AllReady
<1>2. ASSUME NEW ops, Doing(w, ops), "step" \notin ops, "npc_plan" \notin ops
      PROVE  /\ c.i \in Slot /\ c.o \in Id /\ c.i \in Id
             /\ c.op \in Inserting => c.i # c.o
             /\ c.op \in {"show", "find", "greet", "part"} => c.o \in Slot
  BY <1>1, <1>2, Fields DEF Id
<1>3. ASSUME ~ Idle(w), NEW more \in Seq(Operation), Then(w, more), c.op # "socket",
             \A d \in Range(more) : Fit(d)'
      PROVE  AllReady'
  BY <1>0, <1>3, ReadyThen DEF Fit
<1>4. ASSUME ~ Idle(w), Then(w, <<>>), c.op # "socket"
      PROVE  AllReady'
  BY <1>3, <1>4, Singles
<1>5. ASSUME UNCHANGED <<in_use, armed, list, reviving, late>>
      PROVE  Connected'
  BY <1>5 DEF Connected
<1>6. ASSUME UNCHANGED <<old, new>>
      PROVE  Gathered'
  BY <1>6 DEF Gathered
<1>7. ASSUME NEW i \in Slot, NEW S, Listing(i, S), UNCHANGED <<in_use, armed, reviving, late>>,
             S # {} => open'[i], \A x \in S \cap Slot : open'[x]
      PROVE  Connected'
  <2>1. list'[i] = S /\ \A s \in Slot \ {i} : list'[s] = list[s]
    BY <1>7 DEF Listing, TypeOK
  <2> QED
    BY <1>7, <2>1 DEF Connected
<1>8. CASE Step(w)
  <2>1. Doing(w, {"step"}) /\ Then(w, <<>>)
    BY <1>8 DEF Step
  <2>2. ~ Idle(w) /\ c.op = "step"
    BY <1>1, <2>1
  <2> QED
    BY <1>4, <1>5, <1>6, <1>8, <2>1, <2>2 DEF Step, sockets, locals
<1>9. CASE Scan(w)
  <2>1. Doing(w, {"scan"}) /\ Then(w, <<>>)
    BY <1>9 DEF Scan
  <2>2. ~ Idle(w) /\ c.op = "scan"
    BY <1>1, <2>1
  <2>3. /\ new' = [new EXCEPT ![w] = IF Sighted(c.i, c.o) THEN @ \cup {c.o} ELSE @]
        /\ old' = old
    BY <1>0, <1>9 DEF Scan
  <2>4. c.o \in Slot /\ Sighted(c.i, c.o) => open[c.o]
    BY DEF Sighted, Connected
  <2>5. Gathered'
    BY <2>3, <2>4 DEF Gathered, TypeOK
  <2> QED
    BY <1>4, <1>5, <1>9, <2>1, <2>2, <2>5 DEF Scan, shared, sockets
<1>10. CASE NpcScan(w)
  <2>1. Doing(w, {"before", "after"}) /\ Then(w, <<>>)
    BY <1>10 DEF NpcScan
  <2>2. ~ Idle(w) /\ c.op \in {"before", "after"} /\ c.i \in Slot
    BY <1>1, <1>2, <2>1
  <2> DEFINE near == in_use[c.i] /\ is_eyesight(at[c.i], at[c.o])
  <2>3. /\ old' = [old EXCEPT ![w] = IF near /\ c.op = "before" THEN @ \cup {c.i} ELSE @]
        /\ new' = [new EXCEPT ![w] = IF near /\ c.op = "after" THEN @ \cup {c.i} ELSE @]
    BY <1>0, <1>10 DEF NpcScan
  <2>4. near => open[c.i]
    BY <2>2 DEF Connected
  <2> HIDE DEF near
  <2>5. Gathered'
    BY <2>3, <2>4 DEF Gathered, TypeOK
  <2> QED
    BY <1>4, <1>5, <1>10, <2>1, <2>2, <2>5 DEF NpcScan, shared, sockets
<1>11. CASE Plan(w)
  <2> DEFINE s == c.i
  <2>1. Doing(w, {"plan"})
    BY <1>11 DEF Plan
  <2>2. ~ Idle(w) /\ c.op = "plan" /\ s \in Slot /\ s \in Id /\ open[s]
    BY <1>1, <1>2, <2>1 DEF Ready, Reaching
  <2>3. PICK front \in Seq(Operation) :
          /\ Then(w, front \o <<Op("recv", s, s)>>)
          /\ \A d : d \in Range(front) <=>
               \/ d = Op("tell", s, s)
               \/ \E i \in old[w] \cap new[w] \cap Slot : d = Op("meet", i, s)
               \/ \E i \in (new[w] \ old[w]) \cap Slot : d = Op("greet", s, i)
               \/ \E i \in (old[w] \ new[w]) \cap Slot : d = Op("part", s, i)
               \/ \E n \in (new[w] \ old[w]) \cap Npc : d = Op("see", s, n)
               \/ \E n \in (old[w] \ new[w]) \cap Npc : d = Op("lose", s, n)
    <3> DEFINE P(x) ==
          \E front \in Seq(Operation) :
             /\ Then(w, front \o <<Op("recv", x, x)>>)
             /\ \A d : d \in Range(front) <=>
                  \/ d = Op("tell", x, x)
                  \/ \E i \in old[w] \cap new[w] \cap Slot : d = Op("meet", i, x)
                  \/ \E i \in (new[w] \ old[w]) \cap Slot : d = Op("greet", x, i)
                  \/ \E i \in (old[w] \ new[w]) \cap Slot : d = Op("part", x, i)
                  \/ \E n \in (new[w] \ old[w]) \cap Npc : d = Op("see", x, n)
                  \/ \E n \in (old[w] \ new[w]) \cap Npc : d = Op("lose", x, n)
    <3>1. P(Head(todo[w]).i)
      BY <1>11, PlanProgram
    <3> HIDE DEF P
    <3>2. P(s)
      BY <1>0, <3>1
    <3> QED
      BY <3>2 DEF P
  <2> DEFINE more == front \o <<Op("recv", s, s)>>
  <2>4. Op("recv", s, s) \in Operation
    BY <2>2, Ops
  <2>5. <<Op("recv", s, s)>> \in Seq(Operation) /\ \A d \in Range(<<Op("recv", s, s)>>) : d = Op("recv", s, s)
    BY <2>4, Singles
  <2>6. /\ more \in Seq(Operation)
        /\ \A d : d \in Range(more) <=> d \in Range(front) \/ d \in Range(<<Op("recv", s, s)>>)
    BY <2>5, Joint
  <2>7. \A i \in (old[w] \cup new[w]) \cap Slot : open'[i]
    BY DEF Gathered
  <2>8. open'[s]
    BY <2>2
  <2>9. Then(w, more)
    BY <2>3
  <2> HIDE DEF s, more
  <2>10. ASSUME NEW d \in Range(more)
         PROVE  Fit(d)'
    <3>1. CASE d = Op("recv", s, s)
      BY <2>2, <2>8, <3>1 DEF Fit, Reaching, Mutual, Op
    <3>2. CASE d = Op("tell", s, s)
      BY <2>2, <2>8, <3>2 DEF Fit, Reaching, Mutual, Op
    <3>3. CASE \E i \in old[w] \cap new[w] \cap Slot : d = Op("meet", i, s)
      BY <2>2, <2>7, <2>8, <3>3 DEF Fit, Reaching, Mutual, Op
    <3>4. CASE \E i \in (new[w] \ old[w]) \cap Slot : d = Op("greet", s, i)
      BY <2>2, <2>7, <2>8, <3>4 DEF Fit, Reaching, Mutual, Op
    <3>5. CASE \E i \in (old[w] \ new[w]) \cap Slot : d = Op("part", s, i)
      BY <2>2, <2>7, <2>8, <3>5 DEF Fit, Reaching, Mutual, Op
    <3>6. CASE \E n \in (new[w] \ old[w]) \cap Npc : d = Op("see", s, n)
      BY <2>2, <2>7, <2>8, <3>6, IdAssumption DEF Fit, Reaching, Mutual, Op
    <3>7. CASE \E n \in (old[w] \ new[w]) \cap Npc : d = Op("lose", s, n)
      BY <2>2, <2>7, <2>8, <3>7, IdAssumption DEF Fit, Reaching, Mutual, Op
    <3> QED
      BY <2>3, <2>5, <2>6, <3>1, <3>2, <3>3, <3>4, <3>5, <3>6, <3>7
  <2>11. AllReady'
    BY <1>3, <2>2, <2>6, <2>9, <2>10
  <2>12. Gathered'
    BY <1>11 DEF Plan, Gathered, TypeOK
  <2> QED
    BY <1>5, <1>11, <2>11, <2>12 DEF Plan, shared, sockets
<1>12. CASE NpcPlan(w)
  <2> DEFINE n == c.i
  <2>1. Doing(w, {"npc_plan"})
    BY <1>12 DEF NpcPlan
  <2>2. c.op = "npc_plan" /\ n \in Npc /\ n \in Id /\ ~ Idle(w) /\ c \in Pending(w)
    BY <1>1, <2>1, Fields DEF Id
  <2>3. new[w] \subseteq Slot /\ old[w] \subseteq Slot
    BY <2>2 DEF LocalInv
  <2>4. PICK now \in SetToSeqs(new[w]), gone \in SetToSeqs(old[w] \ new[w]) :
           Then(w, OnEach("meet", now, n) \o OnEach("forget", gone, n))
    BY <1>0, <1>12 DEF NpcPlan
  <2> DEFINE meets == OnEach("meet", now, n)
             forgets == OnEach("forget", gone, n)
             more == meets \o forgets
  <2>5. /\ now \in Seq(new[w]) /\ \A x : x \in Range(now) <=> x \in new[w]
        /\ gone \in Seq(old[w] \ new[w]) /\ \A x : x \in Range(gone) <=> x \in old[w] \ new[w]
    BY <2>3, SomeOrder
  <2>6. /\ \A i \in new[w] : Op("meet", i, n) \in Operation
        /\ \A i \in old[w] \ new[w] : Op("forget", i, n) \in Operation
    BY <2>2, <2>3, Ops, IdAssumption
  <2>7. meets \in Seq(Operation) /\ forgets \in Seq(Operation)
    BY <2>5, <2>6, LoopType
  <2>8. /\ \A d : d \in Range(meets) <=> \E i \in Range(now) : d = Op("meet", i, n)
        /\ \A d : d \in Range(forgets) <=> \E i \in Range(gone) : d = Op("forget", i, n)
    BY LoopRange
  <2>9. Then(w, more)
    BY <2>4
  <2>10. n \notin Slot
    BY <2>2, IdAssumption
  <2> HIDE DEF meets, forgets, n
  <2>11. /\ more \in Seq(Operation)
         /\ \A d : d \in Range(more) <=> d \in Range(meets) \/ d \in Range(forgets)
    BY <2>7, Joint
  <2>12. \A i \in old[w] \cup new[w] : open'[i]
    BY <2>3 DEF Gathered
  <2> HIDE DEF more
  <2>13. ASSUME NEW d \in Range(more)
         PROVE  Fit(d)'
    <3>1. PICK i \in old[w] \cup new[w] : d = Op("meet", i, n) \/ d = Op("forget", i, n)
      BY <2>5, <2>8, <2>11
    <3> QED
      BY <2>10, <2>12, <3>1 DEF Fit, Reaching, Mutual, Op
  <2>14. AllReady'
    BY <1>3, <2>2, <2>9, <2>11, <2>13
  <2>15. Gathered'
    BY <1>12 DEF NpcPlan, Gathered, TypeOK
  <2> QED
    BY <1>5, <1>12, <2>14, <2>15 DEF NpcPlan, shared, sockets
<1>13. ~ Mourn(w) /\ ~ Revive(w)
  <2>1. Mourn(w) => Doing(w, {"mourn"})
    BY DEF Mourn
  <2>2. Revive(w) => Doing(w, {"revive"})
    BY DEF Revive
  <2>3. ~ Doing(w, {"mourn"})
    BY <1>1 DEF Ready
  <2>4. ~ Doing(w, {"revive"})
    BY <1>1 DEF Ready
  <2> QED
    BY <2>1, <2>2, <2>3, <2>4
<1>14. ASSUME NEW d \in Operation, Fit(d)', Then(w, <<d>>), ~ Idle(w), c.op # "socket"
       PROVE  AllReady'
  <2>1. <<d>> \in Seq(Operation) /\ \A e : e \in Range(<<d>>) <=> e = d
    BY Singles
  <2> QED
    BY <1>3, <1>14, <2>1
<1>15. ASSUME NEW d \in Operation, NEW e \in Operation, Fit(d)', Fit(e)', Then(w, <<d, e>>),
              ~ Idle(w), c.op # "socket"
       PROVE  AllReady'
  <2>1. <<d, e>> \in Seq(Operation) /\ \A f : f \in Range(<<d, e>>) <=> f = d \/ f = e
    BY Pairs
  <2> QED
    BY <1>3, <1>15, <2>1
<1>16. CASE Look(w)
  <2>1. Doing(w, {"show", "find", "notice", "leave", "chat", "drop"})
    BY <1>16, OpNames
  <2>2. /\ ~ Idle(w) /\ c.op \in {"show", "find", "notice", "leave", "chat", "drop"}
        /\ Ready(w, c) /\ c.i \in Slot /\ c.o \in Id
        /\ c.op \in {"show", "find", "notice"} => c.i # c.o
        /\ c.op \in {"show", "find"} => c.o \in Slot
    BY <1>1, <1>2, <2>1 DEF Inserting
  <2>3. UNCHANGED <<shared, sockets, locals>>
    BY <1>16 DEF Look
  <2>4. \/ Then(w, <<>>)
        \/ c.op = "show" /\ in_use[c.i] /\ Then(w, <<Op("see", c.i, c.o)>>)
        \/ c.op = "find" /\ in_use[c.o] /\ Then(w, <<Op("see", c.i, c.o)>>)
        \/ c.op = "notice" /\ Then(w, <<Op("see", c.i, c.o)>>)
        \/ c.op = "leave" /\ in_use[c.i] /\ Then(w, <<Op("forget", c.i, c.o)>>)
        \/ c.op = "chat" /\ in_use[c.i] /\ Then(w, <<Op("tell", c.i, c.o)>>)
        \/ c.op = "drop" /\ in_use[c.i] /\ Then(w, <<Op("erase", c.i, c.o)>>)
    BY <1>0, <1>16 DEF Look, Doing
  <2>5. /\ \A i \in Slot : in_use[i] => open'[i]
        /\ c.op \in {"show", "find", "notice"} => Op("see", c.i, c.o) \in Operation
        /\ Op("forget", c.i, c.o) \in Operation
        /\ Op("tell", c.i, c.o) \in Operation
        /\ Op("erase", c.i, c.o) \in Operation
    BY <2>2, Ops DEF Connected
  <2>6. /\ c.op = "show" /\ in_use[c.i] => Fit(Op("see", c.i, c.o))'
        /\ c.op = "find" /\ in_use[c.o] => Fit(Op("see", c.i, c.o))'
        /\ c.op = "notice" => Fit(Op("see", c.i, c.o))'
        /\ in_use[c.i] => Fit(Op("forget", c.i, c.o))'
        /\ in_use[c.i] => Fit(Op("tell", c.i, c.o))'
        /\ in_use[c.i] => Fit(Op("erase", c.i, c.o))'
    <3>1. c.op = "show" /\ in_use[c.i] => Fit(Op("see", c.i, c.o))'
      BY <2>2, <2>5 DEF Ready, Fit, Reaching, Mutual, Op
    <3>2. c.op = "find" /\ in_use[c.o] => Fit(Op("see", c.i, c.o))'
      BY <2>2, <2>5 DEF Ready, Fit, Reaching, Mutual, Op
    <3>3. c.op = "notice" => Fit(Op("see", c.i, c.o))'
      BY <2>2, <2>5, IdAssumption DEF Ready, Fit, Reaching, Mutual, Op
    <3>4. /\ in_use[c.i] => Fit(Op("forget", c.i, c.o))'
          /\ in_use[c.i] => Fit(Op("tell", c.i, c.o))'
          /\ in_use[c.i] => Fit(Op("erase", c.i, c.o))'
      BY <2>2, <2>5 DEF Fit, Reaching, Mutual, Op
    <3> QED
      BY <3>1, <3>2, <3>3, <3>4
  <2>7. AllReady'
    <3>1. c.op # "socket"
      BY <2>2
    <3> QED
      BY <1>4, <1>14, <2>2, <2>4, <2>5, <2>6, <3>1
  <2> QED
    BY <1>5, <1>6, <2>3, <2>7 DEF shared, sockets, locals
<1>17. CASE See(w)
  <2>1. Doing(w, {"see", "greet"})
    BY <1>17 DEF See
  <2>2. /\ ~ Idle(w) /\ c.op \in {"see", "greet"} /\ Ready(w, c) /\ c.i \in Slot /\ c.o \in Id
        /\ c.i # c.o
        /\ c.op = "greet" => c.o \in Slot
    BY <1>1, <1>2, <2>1 DEF Inserting
  <2>3. /\ open'[c.i]
        /\ c.o \in Slot => open'[c.o]
    BY <2>2 DEF Ready, Reaching, Mutual
  <2>4. /\ Listing(c.i, list[c.i] \cup {c.o})
        /\ Then(w, <<Op("put", c.i, c.o)>> \o IF c.op = "greet" THEN <<Op("meet", c.o, c.i)>> ELSE <<>>)
        /\ UNCHANGED <<in_use, is_dummy, at, shown, reviving, is_die, sockets, locals>>
    BY <1>0, <1>17 DEF See, Entered
  <2>5. \A x \in (list[c.i] \cup {c.o}) \cap Slot : open'[x]
    BY <2>2, <2>3 DEF Connected
  <2>6. Connected'
    BY <1>7, <2>2, <2>3, <2>4, <2>5 DEF sockets
  <2>7. Op("put", c.i, c.o) \in Operation /\ (c.op = "greet" => Op("meet", c.o, c.i) \in Operation)
    BY <2>2, Ops DEF Id
  <2>8. Fit(Op("put", c.i, c.o))' /\ (c.op = "greet" => Fit(Op("meet", c.o, c.i))')
    BY <2>2, <2>3 DEF Fit, Reaching, Mutual, Op
  <2>9. AllReady'
    <3>1. CASE c.op = "greet"
      <4>1. Then(w, <<Op("put", c.i, c.o)>> \o <<Op("meet", c.o, c.i)>>)
        BY <2>4, <3>1
      <4>2. Then(w, <<Op("put", c.i, c.o), Op("meet", c.o, c.i)>>)
        BY <4>1, Appended
      <4> QED
        BY <1>15, <2>2, <2>7, <2>8, <3>1, <4>2
    <3>2. CASE c.op = "see"
      <4>1. Then(w, <<Op("put", c.i, c.o)>>)
        BY <2>4, <3>2
      <4> QED
        BY <1>14, <2>2, <2>7, <2>8, <4>1
    <3> QED
      BY <2>2, <3>1, <3>2
  <2> QED
    BY <1>6, <2>4, <2>6, <2>9 DEF locals
<1>18. CASE Meet(w)
  <2>1. Doing(w, {"meet"})
    BY <1>18 DEF Meet
  <2>2. /\ ~ Idle(w) /\ c.op = "meet" /\ Ready(w, c) /\ c.i \in Slot /\ c.o \in Id
    BY <1>1, <1>2, <2>1
  <2>3. /\ open'[c.i]
        /\ c.o \in Slot => open'[c.o]
    BY <2>2 DEF Ready, Reaching, Mutual
  <2>4. /\ Listing(c.i, list[c.i] \cup {c.o})
        /\ Then(w, <<Op(IF c.o \in list[c.i] THEN "tell" ELSE "put", c.i, c.o)>>)
        /\ UNCHANGED <<in_use, is_dummy, at, shown, reviving, is_die, sockets, locals>>
    BY <1>0, <1>18 DEF Meet, Entered
  <2>5. \A x \in (list[c.i] \cup {c.o}) \cap Slot : open'[x]
    BY <2>2, <2>3 DEF Connected
  <2>6. Connected'
    BY <1>7, <2>2, <2>3, <2>4, <2>5 DEF sockets
  <2>7. Op("put", c.i, c.o) \in Operation /\ Op("tell", c.i, c.o) \in Operation
    BY <2>2, Ops
  <2>8. Fit(Op("put", c.i, c.o))' /\ Fit(Op("tell", c.i, c.o))'
    BY <2>2, <2>3 DEF Fit, Reaching, Mutual, Op
  <2>9. Then(w, <<Op("put", c.i, c.o)>>) \/ Then(w, <<Op("tell", c.i, c.o)>>)
    BY <2>4
  <2>10. AllReady'
    BY <1>14, <2>2, <2>7, <2>8, <2>9
  <2> QED
    BY <1>6, <2>4, <2>6, <2>10 DEF locals
<1>19. ASSUME NEW i \in Slot, NEW o, Listing(i, list[i] \ {o}),
              UNCHANGED <<in_use, armed, reviving, late>>
       PROVE  Connected'
  <2>1. list[i] \ {o} # {} => open'[i]
    BY DEF Connected
  <2>2. \A x \in (list[i] \ {o}) \cap Slot : open'[x]
    BY DEF Connected
  <2> QED
    BY <1>7, <1>19, <2>1, <2>2
<1>20. CASE Lose(w)
  <2>1. Doing(w, {"lose", "part"})
    BY <1>20 DEF Lose
  <2>2. /\ ~ Idle(w) /\ c.op \in {"lose", "part"} /\ Ready(w, c) /\ c.i \in Slot /\ c.o \in Id
        /\ c.i \in Id
        /\ c.op = "part" => c.o \in Slot
    BY <1>1, <1>2, <2>1
  <2>3. /\ open'[c.i]
        /\ c.op = "part" => open'[c.o]
    BY <2>2 DEF Ready, Reaching, Mutual
  <2>4. /\ Listing(c.i, list[c.i] \ {c.o})
        /\ Then(w, <<Op("remove", c.i, c.o)>> \o IF c.op = "part" THEN <<Op("forget", c.o, c.i)>> ELSE <<>>)
        /\ UNCHANGED <<in_use, is_dummy, at, shown, reviving, is_die, sockets, locals>>
    BY <1>0, <1>20 DEF Lose
  <2>5. Connected'
    BY <1>19, <2>2, <2>4 DEF sockets
  <2>6. Op("remove", c.i, c.o) \in Operation /\ (c.op = "part" => Op("forget", c.o, c.i) \in Operation)
    BY <2>2, Ops
  <2>7. Fit(Op("remove", c.i, c.o))' /\ (c.op = "part" => Fit(Op("forget", c.o, c.i))')
    BY <2>2, <2>3 DEF Fit, Reaching, Mutual, Op
  <2>8. AllReady'
    <3>1. CASE c.op = "part"
      <4>1. Then(w, <<Op("remove", c.i, c.o)>> \o <<Op("forget", c.o, c.i)>>)
        BY <2>4, <3>1
      <4>2. Then(w, <<Op("remove", c.i, c.o), Op("forget", c.o, c.i)>>)
        BY <4>1, Appended
      <4> QED
        BY <1>15, <2>2, <2>6, <2>7, <3>1, <4>2
    <3>2. CASE c.op = "lose"
      <4>1. Then(w, <<Op("remove", c.i, c.o)>>)
        BY <2>4, <3>2
      <4> QED
        BY <1>14, <2>2, <2>6, <2>7, <4>1
    <3> QED
      BY <2>2, <3>1, <3>2
  <2> QED
    BY <1>6, <2>4, <2>5, <2>8 DEF locals
<1>21. CASE Forget(w)
  <2>1. Doing(w, {"forget"})
    BY <1>21 DEF Forget
  <2>2. ~ Idle(w) /\ c.op = "forget" /\ Ready(w, c) /\ c.i \in Slot /\ c.o \in Id
    BY <1>1, <1>2, <2>1
  <2>3. open'[c.i]
    BY <2>2 DEF Ready, Reaching
  <2>4. /\ Listing(c.i, list[c.i] \ {c.o})
        /\ Then(w, IF c.o \in list[c.i] THEN <<Op("remove", c.i, c.o)>> ELSE <<>>)
        /\ UNCHANGED <<in_use, is_dummy, at, shown, reviving, is_die, sockets, locals>>
    BY <1>0, <1>21 DEF Forget
  <2>5. Connected'
    BY <1>19, <2>2, <2>4 DEF sockets
  <2>6. Op("remove", c.i, c.o) \in Operation
    BY <2>2, Ops
  <2>7. Fit(Op("remove", c.i, c.o))'
    BY <2>2, <2>3 DEF Fit, Reaching, Mutual, Op
  <2>8. Then(w, <<Op("remove", c.i, c.o)>>) \/ Then(w, <<>>)
    BY <2>4
  <2>9. AllReady'
    BY <1>4, <1>14, <2>2, <2>6, <2>7, <2>8
  <2> QED
    BY <1>6, <2>4, <2>5, <2>9 DEF locals
<1>22. CASE Erase(w)
  <2>1. Doing(w, {"erase"}) /\ Then(w, <<>>)
    BY <1>22 DEF Erase
  <2>2. ~ Idle(w) /\ c.op = "erase" /\ c.i \in Slot
    BY <1>1, <1>2, <2>1
  <2>3. Connected'
    BY <1>0, <1>19, <1>22, <2>2 DEF Erase, sockets
  <2> QED
    BY <1>4, <1>6, <1>22, <2>1, <2>2, <2>3 DEF Erase, locals
<1>23. CASE Clear(w)
  <2>1. Doing(w, {"clear"}) /\ Then(w, <<>>) /\ Listing(c.i, {})
    BY <1>0, <1>23 DEF Clear
  <2>2. ~ Idle(w) /\ c.op = "clear" /\ c.i \in Slot
    BY <1>1, <1>2, <2>1
  <2>3. Connected'
    BY <1>7, <1>23, <2>1, <2>2 DEF Clear, sockets
  <2> QED
    BY <1>4, <1>6, <1>23, <2>1, <2>2, <2>3 DEF Clear, locals
<1>24. CASE Send(w)
  <2>1. Doing(w, {"put", "remove", "tell"})
    BY <1>24 DEF Send
  <2>2. ~ Idle(w) /\ c.op \in {"put", "remove", "tell"} /\ Ready(w, c)
    BY <1>1, <2>1
  <2>3. open[c.i]
    BY <2>2 DEF Ready, Reaching
  <2>4. Then(w, <<>>) /\ UNCHANGED <<in_use, list, reviving, sockets, locals>>
    BY <1>0, <1>24, <2>3 DEF Send
  <2> QED
    BY <1>4, <1>5, <1>6, <2>2, <2>4 DEF sockets, locals
<1>25. CASE Recv(w)
  <2>1. Doing(w, {"recv"})
    BY <1>25 DEF Recv
  <2>2. ~ Idle(w) /\ c.op = "recv" /\ Ready(w, c) /\ c.i \in Slot
    BY <1>1, <1>2, <2>1
  <2>3. open[c.i]
    BY <1>0, <2>2 DEF Ready, Op
  <2>4. /\ Then(w, <<>>) /\ armed' = [armed EXCEPT ![c.i] = TRUE]
        /\ UNCHANGED <<shared, open, late, locals>>
    BY <1>0, <1>25, <2>3 DEF Recv
  <2>5. Connected'
    BY <2>2, <2>3, <2>4 DEF shared, Connected, TypeOK
  <2> QED
    BY <1>4, <1>6, <2>2, <2>4, <2>5 DEF locals
<1>26. CASE Connect(w)
  <2>1. Doing(w, {"socket"}) /\ Then(w, <<>>) /\ open' = [open EXCEPT ![c.i] = TRUE]
    BY <1>0, <1>26 DEF Connect
  <2>2. ~ Idle(w) /\ c.i \in Slot
    BY <1>1, <1>2, <2>1
  <2>3. open'[c.i]
    BY <2>1, <2>2 DEF TypeOK
  <2>4. AllReady'
    BY <1>0, <2>1, <2>2, <2>3, Singles, ReadyThen
  <2> QED
    BY <1>5, <1>6, <1>26, <2>4 DEF Connect, locals
<1>27. CASE Close(w)
  <2>1. Doing(w, {"close"}) /\ Then(w, <<>>)
    BY <1>27 DEF Close
  <2>2. ~ Idle(w) /\ c.op = "close" /\ c.i \in Slot
    BY <1>1, <1>2, <2>1
  <2>3. /\ open' = [open EXCEPT ![c.i] = FALSE]
        /\ armed' = [armed EXCEPT ![c.i] = FALSE]
        /\ late' = IF armed[c.i] THEN late \cup {c.i} ELSE late
        /\ UNCHANGED <<in_use, list, reviving, locals>>
    BY <1>0, <1>27 DEF Close
  <2>4. ~ open[c.i]
    BY <2>2, <2>3 DEF TypeOK
  <2>5. ~ armed[c.i]
    BY <2>2, <2>4 DEF Connected
  <2>6. Connected'
    BY <2>2, <2>3, <2>5 DEF Connected, TypeOK
  <2> QED
    BY <1>4, <1>6, <2>1, <2>2, <2>3, <2>6 DEF locals
<1>28. CASE Register(w)
  <2>1. Doing(w, {"use", "free"}) /\ Then(w, <<>>)
    BY <1>28 DEF Register
  <2>2. ~ Idle(w) /\ c.op \in {"use", "free"} /\ Ready(w, c) /\ c.i \in Slot
    BY <1>1, <1>2, <2>1
  <2>3. c.op = "use" => open[c.i]
    BY <1>0, <2>2 DEF Ready, Op
  <2>4. /\ in_use' = [in_use EXCEPT ![c.i] = (c.op = "use")]
        /\ UNCHANGED <<list, reviving, sockets, locals>>
    BY <1>0, <1>28 DEF Register
  <2>5. Connected'
    BY <2>2, <2>3, <2>4 DEF Connected, sockets, TypeOK
  <2> QED
    BY <1>4, <1>6, <2>1, <2>2, <2>4, <2>5 DEF locals
<1> QED
  BY <1>8, <1>9, <1>10, <1>11, <1>12, <1>13, <1>16, <1>17, <1>18, <1>20, <1>21, <1>22,
     <1>23, <1>24, <1>25, <1>26, <1>27, <1>28 DEF Operate

\* An operation a thread may begin with.
Suited(d) ==
  /\ d.op \notin {"hung", "mourn", "revive", "use"}
  /\ d.op \in Reaching \cup {"recv"} => open[d.i]
  /\ d.op \in Mutual /\ d.o \in Slot => open[d.o]
  /\ d.op = "notice" => d.o \in Npc

LEMMA CalmTake ==
  ASSUME TypeOK, LocalInv, Connected, Gathered, AllReady, NEW w \in Worker, Take(w),
         "death" \notin Handlers
  PROVE  Connected' /\ Gathered' /\ AllReady' /\ UNCHANGED open
<1> DEFINE Goal == Connected' /\ Gathered' /\ AllReady' /\ UNCHANGED open
<1>1. w \in Thread /\ Slot \subseteq Id /\ Npc \subseteq Id
  BY DEF Thread, Id
<1>2. ASSUME NEW kind, NEW x, NEW seen \in SUBSET Id, NEW program, Start(w, kind, x, seen, program),
             \A d \in Range(program) : Suited(d), \A i \in seen \cap Slot : open[i],
             Connected', UNCHANGED open
      PROVE  Goal
  <2>1. AllReady'
    <3>1. \A d \in Range(program) :
           /\ d.op \notin {"hung", "mourn", "revive"}
           /\ d.op \in Reaching => open[d.i]
           /\ d.op \in Mutual /\ d.o \in Slot => open[d.o]
           /\ d.op \in {"use", "recv"} => open[d.i] \/ Head(program) = Op("socket", d.i, d.i)
           /\ d.op = "notice" => d.o \in Npc
      BY <1>2 DEF Suited
    <3> QED
      BY <1>1, <1>2, <3>1, ReadyBegins
  <2>2. /\ old' = [old EXCEPT ![w] = seen]
        /\ new' = [new EXCEPT ![w] = {}]
    BY <1>2 DEF Start
  <2>3. Gathered'
    BY <1>2, <2>2 DEF Gathered, TypeOK
  <2> QED
    BY <1>2, <2>1, <2>3
<1>3. ASSUME UNCHANGED <<in_use, armed, list, reviving, late, open>>
      PROVE  Connected'
  BY <1>3 DEF Connected
<1>4. ASSUME NEW s \in Slot, Received(s)
      PROVE  /\ open[s] /\ UNCHANGED <<open, late>>
             /\ \A i \in Slot : armed'[i] => armed[i]
  BY <1>4 DEF Received, TypeOK
<1>5. ASSUME NEW s \in Slot, Received(s), UNCHANGED <<in_use, list, reviving>>
      PROVE  Connected'
  BY <1>4, <1>5 DEF Connected
<1>6. ASSUME NEW s \in Slot, NEW d \in Range(Teardown(s))
      PROVE  Suited(d)
  <2>1. \/ \E i \in Slot \ {s} : d = Op("leave", i, s)
        \/ d \in {Op("close", s, s), Op("free", s, s), Op("clear", s, s)}
    BY <1>6, TeardownType
  <2> QED
    BY <2>1 DEF Suited, Reaching, Mutual, Op
<1>7. ASSUME NEW i \in Slot, NEW s \in Slot, open[s]
      PROVE  /\ Suited(Op("show", i, s)) /\ Suited(Op("find", s, i))
             /\ Suited(Op("recv", s, s)) /\ Suited(Op("tell", s, s)) /\ Suited(Op("put", s, s))
             /\ Suited(Op("chat", i, s))
             /\ \A n \in Npc : /\ Suited(Op("notice", s, n))
                               /\ Suited(Op("chat", i, n)) /\ Suited(Op("drop", i, n))
                               /\ Suited(Op("tell", s, n)) /\ Suited(Op("remove", s, n))
  BY <1>7, IdAssumption DEF Suited, Reaching, Mutual, Op
<1> HIDE DEF Goal
<1>8. ASSUME NEW s \in Slot, NEW d \in 0 .. 4, StartMove(w, s, d)
      PROVE  Goal
  <2> DEFINE q == <<Op("step", s, Stepped(at[s], d))>> \o AboutEach("scan", s, Others(s) \o Npcs)
                    \o <<Op("plan", s, s)>>
  <2>1. Stepped(at[s], d) \in World
    BY SteppedInWorld DEF TypeOK
  <2>2. \A c : c \in Range(q) <=>
             \/ c = Op("step", s, Stepped(at[s], d))
             \/ \E x \in Id \ {s} : c = Op("scan", s, x)
             \/ c = Op("plan", s, s)
    BY <2>1, MoveType
  <2>3. Received(s) /\ Start(w, "move", s, list[s], q) /\ UNCHANGED shared
    BY <1>8 DEF StartMove
  <2> HIDE DEF q
  <2>4. open[s] /\ UNCHANGED open
    BY <1>4, <2>3
  <2>5. \A c \in Range(q) : Suited(c)
    BY <2>2, <2>4 DEF Suited, Reaching, Mutual, Op
  <2>6. Connected'
    BY <1>5, <2>3 DEF shared
  <2>7. list[s] \in SUBSET Id /\ \A i \in list[s] \cap Slot : open[i]
    BY DEF TypeOK, Connected
  <2> QED
    BY <1>2, <2>3, <2>4, <2>5, <2>6, <2>7
<1>9. ASSUME NEW s \in Slot, NEW p \in World, NEW kind, NEW loops,
             StartDummy(w, kind, s, p, loops),
             loops = Shows(s) \/ loops = Shows(s) \o Notices(s)
      PROVE  Goal
  <2> DEFINE q == loops \o <<Op("recv", s, s)>>
  <2>1. \A c \in Range(q) :
          \/ c = Op("recv", s, s)
          \/ \E i \in Slot \ {s} : c = Op("show", i, s)
          \/ \E n \in Npc : c = Op("notice", s, n)
    BY <1>9, DummyType
  <2>2. /\ Received(s) /\ Start(w, kind, s, {}, q)
        /\ in_use' = [in_use EXCEPT ![s] = TRUE] /\ UNCHANGED <<list, reviving>>
    BY <1>9 DEF StartDummy
  <2> HIDE DEF q
  <2>3. open[s] /\ UNCHANGED open
    BY <1>4, <2>2
  <2>4. \A c \in Range(q) : Suited(c)
    BY <1>7, <2>1, <2>3
  <2>5. Connected'
    BY <1>4, <2>2, <2>3 DEF Connected, TypeOK
  <2> QED
    BY <1>2, <2>2, <2>3, <2>4, <2>5
<1>10. ASSUME NEW s \in Slot, StartEof(w, s)
       PROVE  Goal
  <2>1. Received(s) /\ Start(w, "disconnect", s, {}, Teardown(s)) /\ UNCHANGED shared
    BY <1>10 DEF StartEof
  <2>2. Connected' /\ UNCHANGED open
    BY <1>4, <1>5, <2>1 DEF shared
  <2> QED
    BY <1>2, <1>6, <2>1, <2>2
<1>11. ASSUME NEW s \in Slot, StartDrop(w, s)
       PROVE  Goal
  <2>1. Start(w, "disconnect", s, {}, Teardown(s)) /\ UNCHANGED <<shared, sockets>>
    BY <1>11 DEF StartDrop
  <2>2. Connected' /\ UNCHANGED open
    BY <1>3, <2>1 DEF shared, sockets
  <2> QED
    BY <1>2, <1>6, <2>1, <2>2
<1>12. ASSUME NEW s \in Slot
       PROVE  ~ StartLate(w, s) /\ ~ StartDeath(w, s)
  <2>1. ~ StartLate(w, s)
    BY DEF StartLate, Connected
  <2>2. ~ StartDeath(w, s)
    BY DEF StartDeath, Start, MayStart
  <2> QED
    BY <2>1, <2>2
<1>13. ASSUME NEW s \in Slot, NEW p \in World, StartLogin(w, s, p)
       PROVE  Goal
  <2> DEFINE q == <<Op("tell", s, s), Op("put", s, s)>>
             r == q \o Introductions(s) \o Chats(s)
  <2>1. s \in Id /\ Op("tell", s, s) \in Operation /\ Op("put", s, s) \in Operation
    BY <1>1, Ops
  <2>2. q \in Seq(Operation) /\ \A c \in Range(q) : c = Op("tell", s, s) \/ c = Op("put", s, s)
    BY <2>1, Pairs
  <2>3. Start(w, "login", s, {}, r) /\ UNCHANGED <<in_use, list, reviving, sockets>> /\ in_use[s]
    BY <1>13 DEF StartLogin
  <2> HIDE DEF q
  <2>4. \A c \in Range(r) :
              \/ c = Op("tell", s, s) \/ c = Op("put", s, s)
              \/ \E i \in Slot \ {s} : c = Op("show", i, s)
              \/ \E i \in Slot \ {s} : c = Op("find", s, i)
              \/ \E n \in Npc : c = Op("notice", s, n)
              \/ \E i \in Slot : c = Op("chat", i, s)
    BY <2>2, EntranceType
  <2> HIDE DEF r
  <2>5. open[s]
    BY <2>3 DEF Connected
  <2>6. \A c \in Range(r) : Suited(c)
    BY <1>7, <2>4, <2>5
  <2>7. Connected' /\ UNCHANGED open
    BY <1>3, <2>3 DEF sockets
  <2> QED
    BY <1>2, <2>3, <2>6, <2>7
<1>14. ASSUME NEW s \in Slot, NEW h \in Home
       PROVE  ~ StartResurrection(w, s, h)
  BY DEF StartResurrection, Connected
<1>15. ASSUME NEW s \in Slot, NEW n \in Npc, StartKill(w, s, n)
       PROVE  Goal
  <2> DEFINE q == Chats(s) \o <<Op("tell", s, s), Op("tell", s, n)>>
                    \o OnEach("drop", Slots, n) \o <<Op("remove", s, n)>>
  <2>1. \A c \in Range(q) :
                  \/ \E i \in Slot : c = Op("chat", i, s)
                  \/ c = Op("tell", s, s) \/ c = Op("tell", s, n)
                  \/ \E i \in Slot : c = Op("drop", i, n)
                  \/ c = Op("remove", s, n)
    BY KillType
  <2>2. /\ n \in list[s] /\ Start(w, "kill", s, {}, q)
        /\ UNCHANGED <<in_use, list, reviving, sockets>>
    BY <1>15 DEF StartKill
  <2> HIDE DEF q
  <2>3. open[s]
    BY <2>2 DEF Connected
  <2>4. \A c \in Range(q) : Suited(c)
    BY <1>7, <2>1, <2>3
  <2>5. Connected' /\ UNCHANGED open
    BY <1>3, <2>2 DEF sockets
  <2> QED
    BY <1>2, <2>2, <2>4, <2>5
<1>16. ASSUME NEW n \in Npc, NEW d \in 0 .. 3, StartNpcMove(w, n, d)
       PROVE  Goal
  <2>1. PICK p \in World : p = Stepped(at[n], d)
    <3>1. PICK i \in Slot : is_npc_eyesight(at[i], at[n])
      BY <1>16 DEF StartNpcMove
    <3>2. at[i] \in World /\ at[n] \in World \cup {DeadPos}
      BY <1>1 DEF TypeOK
    <3>3. at[n] \in World
      BY <3>1, <3>2, DeadPosAssumption
    <3> QED
      BY <3>3, SteppedInWorld
  <2> DEFINE q == OnEach("before", Slots, n) \o <<Op("step", n, p)>>
                    \o OnEach("after", Slots, n) \o <<Op("npc_plan", n, n)>>
  <2>2. \A c \in Range(q) :
                  \/ \E i \in Slot : c = Op("before", i, n)
                  \/ c = Op("step", n, p)
                  \/ \E i \in Slot : c = Op("after", i, n)
                  \/ c = Op("npc_plan", n, n)
    BY NpcMoveType
  <2>3. Start(w, "npc_move", n, {}, q) /\ UNCHANGED <<shared, sockets>>
    BY <1>16, <2>1 DEF StartNpcMove
  <2> HIDE DEF q
  <2>4. \A c \in Range(q) : Suited(c)
    BY <2>2 DEF Suited, Reaching, Mutual, Op
  <2>5. Connected' /\ UNCHANGED open
    BY <1>3, <2>3 DEF shared, sockets
  <2> QED
    BY <1>2, <2>3, <2>4, <2>5
<1>17. ASSUME NEW n \in Npc, NpcResurrection(w, n)
       PROVE  Goal
  <2>1. UNCHANGED <<in_use, list, reviving, sockets, todo, locals>>
    BY <1>17 DEF NpcResurrection
  <2>2. Connected' /\ Gathered' /\ UNCHANGED open
    BY <1>3, <2>1 DEF sockets, locals, Gathered
  <2>3. AllReady'
    BY <2>1 DEF AllReady, Pending, Ready, sockets
  <2> QED
    BY <2>2, <2>3 DEF Goal
<1>18. ASSUME NEW s \in Slot, NEW p \in World, StartCcuTest(w, s, p)
       PROVE  Goal
  BY <1>9, <1>18 DEF StartCcuTest
<1>19. ASSUME NEW s \in Slot, StartHotspotTest(w, s)
       PROVE  Goal
  BY <1>9, <1>19, PlaceAssumption DEF StartHotspotTest
<1>20. Goal
  BY <1>8, <1>10, <1>11, <1>12, <1>13, <1>14, <1>15, <1>16, <1>17, <1>18, <1>19 DEF Take
<1> QED
  BY <1>20 DEF Goal

LEMMA CalmAccept ==
  ASSUME TypeOK, Connected, Gathered, AllReady, StartAccept
  PROVE  Connected' /\ Gathered' /\ AllReady' /\ UNCHANGED open
<1>1. PICK s \in Slot : Start(Acceptor, "accept", s, {}, Admission(s)) /\ UNCHANGED <<shared, sockets>>
  BY DEF StartAccept
<1>2. Acceptor \in Thread
  BY DEF Thread
<1>3. Head(Admission(s)) = Op("socket", s, s)
  BY DEF Admission
<1>4. Range(Admission(s)) =
        {Op("socket", s, s), Op("clear", s, s), Op("use", s, s), Op("recv", s, s)}
  BY AdmissionType
<1>5. \A d \in Range(Admission(s)) :
        /\ d.op \notin {"hung", "mourn", "revive"}
        /\ d.op \in Reaching => open[d.i]
        /\ d.op \in Mutual /\ d.o \in Slot => open[d.o]
        /\ d.op \in {"use", "recv"} => open[d.i] \/ Head(Admission(s)) = Op("socket", d.i, d.i)
        /\ d.op = "notice" => d.o \in Npc
  BY <1>3, <1>4 DEF Reaching, Mutual, Op
<1>6. UNCHANGED open
  BY <1>1 DEF sockets
<1>7. AllReady'
  BY <1>1, <1>2, <1>5, <1>6, ReadyBegins
<1>8. Connected'
  BY <1>1 DEF Connected, shared, sockets
<1>9. Gathered'
  BY <1>1, <1>6 DEF Gathered, Start, TypeOK
<1> QED
  BY <1>6, <1>7, <1>8, <1>9

LEMMA CalmStep ==
  ASSUME TypeOK, LocalInv, CalmInv, [Next]_vars, "death" \notin Handlers
  PROVE  CalmInv'
<1> SUFFICES ASSUME calm'
             PROVE  Connected' /\ Gathered' /\ AllReady'
  BY DEF CalmInv
<1>1. CASE UNCHANGED vars
  <2>1. Connected /\ Gathered /\ AllReady
    BY <1>1 DEF CalmInv, vars
  <2> QED
    BY <1>1, <2>1 DEF vars, shared, sockets, locals, Connected, Gathered, AllReady, Pending, Ready
<1>2. CASE Next
  <2>1. calm /\ \A s \in Slot : open[s] => open'[s]
    BY <1>2 DEF Next
  <2>2. Connected /\ Gathered /\ AllReady
    BY <2>1 DEF CalmInv
  <2>3. CASE StartAccept
    BY <2>2, <2>3, CalmAccept
  <2>4. CASE \E w \in Worker : Take(w)
    BY <2>2, <2>4, CalmTake
  <2>5. CASE \E w \in Thread : Operate(w)
    BY <2>1, <2>2, <2>5, CalmOperate
  <2> QED
    BY <1>2, <2>3, <2>4, <2>5 DEF Next
<1> QED
  BY <1>1, <1>2

(* As long as nobody was disconnected, and no player was killed, no thread   *)
(* sends to a closed socket, or receives on one: do_accept publishes in_use  *)
(* only when the socket is there.  (A blow that kills does not look at       *)
(* in_use: it sends to whatever slot the NPC aimed at.)                      *)
THEOREM NobodyIsStuck ==
  ASSUME "death" \notin Handlers
  PROVE  Spec => []NobodyStalls
<1>1. Init => CalmInv
  <2> SUFFICES ASSUME Init
               PROVE  Connected /\ Gathered /\ AllReady
    BY DEF CalmInv
  <2>1. Connected /\ Gathered
    BY DEF Init, Connected, Gathered
  <2>2. AllReady
    BY Singles DEF Init, AllReady, Pending
  <2> QED
    BY <2>1, <2>2
<1>2. TypeOK /\ LocalInv /\ CalmInv /\ [Next]_vars => CalmInv'
  BY CalmStep
<1>3. TypeOK /\ LocalInv /\ CalmInv => NobodyStalls
  <2> SUFFICES ASSUME TypeOK, AllReady, NEW w \in Thread, Stuck(w)
               PROVE  FALSE
    BY DEF NobodyStalls, CalmInv
  <2>1. Doing(w, {"hung"})
    BY DEF Stuck, Doing
  <2>2. Head(todo[w]) \in Pending(w) /\ Head(todo[w]).op = "hung"
    BY <2>1, Busy
  <2> QED
    BY <2>2 DEF AllReady, Ready
<1> QED
  BY <1>1, <1>2, <1>3, TypeCorrect, PTL DEF Spec
=============================================================================
