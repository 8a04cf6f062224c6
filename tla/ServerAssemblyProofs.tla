------------------------ MODULE ServerAssemblyProofs ------------------------
(***************************************************************************)
(* What reassembly keeps although it loses fragments, and that it loses    *)
(* none where every receive ends with a packet, for every stream and       *)
(* however it is cut.                                                      *)
(***************************************************************************)
EXTENDS ServerAssembly, SequenceTheorems, FiniteSetTheorems, TLAPS

(* `rest = 0' before `prev_size += rest': prev_size never leaves 0, so a   *)
(* packet is only ever copied to the front of packet_buffer.               *)
TypeInv ==
  /\ stream \in Seq(Byte)
  /\ read \in 0 .. Len(stream)
  /\ rest \in 0 .. read
  /\ packet_buffer \in [0 .. MAX_BUFFER - 1 -> Byte]
  /\ prev_size = 0
  /\ packet_size \in 0 .. HALF - 1
  /\ handled \in Seq(Seq(Byte))
  /\ sizes \in Seq(Int)
  /\ Len(sizes) = Len(handled)

IInv == TypeInv /\ NoMixture

LEMMA InitInv == Init => IInv
<1> SUFFICES ASSUME Init PROVE IInv
  OBVIOUS
<1>1. TypeInv
  <2>1. 0 \in Byte
    BY BufferAssumption DEF Byte
  <2>2. stream \in Seq(Byte) /\ handled \in Seq(Seq(Byte)) /\ sizes \in Seq(Int)
    BY BufferAssumption, EmptySeq DEF Init
  <2> QED
    BY <2>1, <2>2, BufferAssumption DEF Init, TypeInv
<1>2. NoMixture
  BY DEF Init, NoMixture
<1> QED
  BY <1>1, <1>2 DEF IInv

(* What is left of the receive lies in the stream, and the length the loop *)
(* works with is that of a char.                                           *)
LEMMA SizeFits ==
  ASSUME TypeInv, rest > 0
  PROVE  /\ Size \in -HALF .. HALF - 1
         /\ \A i \in 0 .. rest - 1 :
              /\ read - rest + 1 + i \in 1 .. Len(stream)
              /\ stream[read - rest + 1 + i] \in Byte
<1>1. /\ Len(stream) \in Nat /\ read \in Nat /\ rest \in Nat
      /\ rest <= read /\ read <= Len(stream)
  BY DEF TypeInv
<1>2. ASSUME NEW j \in 1 .. Len(stream)
      PROVE  stream[j] \in Byte
  BY ElementOfSeq DEF TypeInv
<1>3. ASSUME NEW i \in 0 .. rest - 1
      PROVE  read - rest + 1 + i \in 1 .. Len(stream)
  BY <1>1
<1>4. stream[read - rest + 1] \in Byte
  BY <1>1, <1>2
<1>5. HALF \in Nat /\ packet_size \in 0 .. HALF - 1
  BY BufferAssumption DEF TypeInv
<1>6. Signed(stream[read - rest + 1]) \in -HALF .. HALF - 1
  <2>1. PICK b \in 0 .. 2 * HALF - 1 : b = stream[read - rest + 1]
    BY <1>4 DEF Byte
  <2>2. Signed(b) \in -HALF .. HALF - 1
    BY <1>5, <2>1 DEF Signed
  <2> QED
    BY <2>1, <2>2
<1>7. Size \in -HALF .. HALF - 1
  BY <1>5, <1>6 DEF Size
<1> QED
  BY <1>2, <1>3, <1>7

(* memcpy fills the buffer with bytes. *)
LEMMA CopiedType ==
  ASSUME TypeInv, rest > 0, NEW n \in 0 .. rest
  PROVE  /\ Copied(n) \in [0 .. MAX_BUFFER - 1 -> Byte]
         /\ \A i \in 0 .. MAX_BUFFER - 1 :
              i < n => Copied(n)[i] = stream[read - rest + 1 + i]
<1>1. ASSUME NEW i \in 0 .. MAX_BUFFER - 1, i < n
      PROVE  /\ Copied(n)[i] = stream[read - rest + 1 + i]
             /\ Copied(n)[i] \in Byte
  <2>1. prev_size <= i /\ i < prev_size + n /\ i - prev_size = i
    BY <1>1 DEF TypeInv
  <2>2. read - rest + 1 + i - prev_size = read - rest + 1 + i
    BY <1>1 DEF TypeInv
  <2>3. Copied(n)[i] = stream[read - rest + 1 + i]
    BY <2>1, <2>2 DEF Copied
  <2>4. i \in 0 .. rest - 1
    BY <1>1 DEF TypeInv
  <2> QED
    BY <2>3, <2>4, SizeFits
<1>2. ASSUME NEW i \in 0 .. MAX_BUFFER - 1, ~ (i < n)
      PROVE  Copied(n)[i] \in Byte
  <2>1. Copied(n)[i] = packet_buffer[i]
    BY <1>2 DEF Copied, TypeInv
  <2> QED
    BY <2>1 DEF TypeInv
<1>3. Copied(n) = [i \in 0 .. MAX_BUFFER - 1 |-> Copied(n)[i]]
  BY Zenon DEF Copied
<1> QED
  BY <1>1, <1>2, <1>3

(* process_packet reads bytes of the buffer.                               *)
LEMMA GivenType ==
  ASSUME NEW buffer \in [0 .. MAX_BUFFER - 1 -> Byte]
  PROVE  /\ Struct[buffer[1]] \in 2 .. MAX_BUFFER
         /\ Given(buffer) \in Seq(Byte)
         /\ Len(Given(buffer)) = Struct[buffer[1]]
         /\ \A i \in 1 .. Struct[buffer[1]] : Given(buffer)[i] = buffer[i - 1]
<1>1. MAX_BUFFER \in Nat /\ Struct \in [Byte -> 2 .. MAX_BUFFER] /\ 0 \in Byte
  BY BufferAssumption DEF Byte
<1>2. 1 \in 0 .. MAX_BUFFER - 1
  BY <1>1
<1>3. Struct[buffer[1]] \in 2 .. MAX_BUFFER
  BY <1>1, <1>2
<1> DEFINE n == Struct[buffer[1]]
<1>4. n \in Nat /\ \A i \in 1 .. n : i - 1 \in 0 .. MAX_BUFFER - 1
  BY <1>1, <1>3
<1>5. Given(buffer) = [i \in 1 .. n |-> buffer[i - 1]]
  BY DEF Given
<1> HIDE DEF n
<1>6. \A i \in 1 .. n : buffer[i - 1] \in Byte
  BY <1>4
<1>7. Given(buffer) \in Seq(Byte) /\ Len(Given(buffer)) = n
  BY <1>4, <1>5, <1>6
<1> QED
  BY <1>3, <1>5, <1>7 DEF n

(* More bytes received, nothing handled: what was handled is still there.  *)
LEMMA ReceiveStep ==
  ASSUME IInv, Receive
  PROVE  IInv'
<1>1. PICK n \in 1 .. MAX_BUFFER :
        read + n <= Len(stream) /\ read' = read + n /\ rest' = n
  BY DEF Receive
<1>2. TypeInv'
  BY <1>1, BufferAssumption DEF IInv, TypeInv, Receive
<1>3. NoMixture'
  <2> SUFFICES ASSUME NEW k \in DOMAIN handled, sizes[k] >= Len(handled[k])
               PROVE  \E i \in 0 .. read' - Len(handled[k]) :
                        handled[k] = SubSeq(stream, i + 1, i + Len(handled[k]))
    BY DEF NoMixture, Receive
  <2>1. PICK i \in 0 .. read - Len(handled[k]) :
          handled[k] = SubSeq(stream, i + 1, i + Len(handled[k]))
    BY DEF IInv, NoMixture
  <2>2. Len(handled[k]) \in Nat
    BY ElementOfSeq DEF IInv, TypeInv
  <2>3. i \in 0 .. read' - Len(handled[k])
    BY <1>1, <2>2 DEF IInv, TypeInv
  <2> QED
    BY <2>1, <2>3
<1> QED
  BY <1>2, <1>3 DEF IInv

(* What process_packet reads of a packet whose length covers it are the    *)
(* next bytes of the receive.                                              *)
LEMMA FinishedPacket ==
  ASSUME IInv, Finish
  PROVE  LET packet == Given(packet_buffer')
         IN  /\ handled' = Append(handled, packet)
             /\ sizes' = Append(sizes, Size)
             /\ packet \in Seq(Byte) /\ Len(packet) \in Nat
             /\ Len(packet) = Struct[packet_buffer'[1]]
             /\ Size >= Len(packet) =>
                  packet = SubSeq(stream, read - rest + 1, read - rest + Len(packet))
             /\ packet_buffer' \in [0 .. MAX_BUFFER - 1 -> Byte]
             /\ Size \in 0 .. rest
             /\ Size > 1 => packet_buffer'[1] = stream[read - rest + 2]
             /\ rest' = rest - Size /\ packet_size' = 0 /\ prev_size' = 0
             /\ UNCHANGED <<stream, read, whole>>
             /\ Size # 0 => state' = state
<1> DEFINE packet == Given(packet_buffer')
           start == read - rest
           n == Struct[packet_buffer'[1]]
<1>1. /\ rest \in Nat /\ rest > 0 /\ read \in Nat /\ rest <= read
      /\ read <= Len(stream) /\ Len(stream) \in Nat
      /\ Size \in Int /\ MAX_BUFFER \in Nat
      /\ Size - prev_size = Size /\ Size \in 0 .. rest
  BY SizeFits, BufferAssumption DEF IInv, TypeInv, Finish
<1>2. /\ packet_buffer' = Copied(Size)
      /\ handled' = Append(handled, packet) /\ sizes' = Append(sizes, Size)
      /\ rest' = rest - Size
      /\ packet_size' = 0 /\ prev_size' = 0
      /\ UNCHANGED <<stream, read, whole>>
      /\ Size # 0 => state' = state
  BY <1>1 DEF Finish, Left, NextSize
<1>3. /\ packet_buffer' \in [0 .. MAX_BUFFER - 1 -> Byte]
      /\ \A i \in 0 .. MAX_BUFFER - 1 :
           i < Size => packet_buffer'[i] = stream[start + 1 + i]
  BY <1>1, <1>2, CopiedType, SMTT(30) DEF IInv
<1>4. /\ n \in 2 .. MAX_BUFFER /\ packet \in Seq(Byte) /\ Len(packet) = n
      /\ \A i \in 1 .. n : packet[i] = packet_buffer'[i - 1]
  BY <1>3, GivenType
<1>5. Size > 1 => packet_buffer'[1] = stream[start + 2]
  <2>1. 1 \in 0 .. MAX_BUFFER - 1 /\ start + 1 + 1 = start + 2
    BY <1>1, <1>4
  <2> QED
    BY <1>1, <1>3, <2>1
<1>6. ASSUME Size >= n PROVE packet = SubSeq(stream, start + 1, start + n)
  <2>1. start \in Nat /\ start + n <= Len(stream)
    BY <1>1, <1>4, <1>6
  <2>2. SubSeq(stream, start + 1, start + n) = [i \in 1 .. n |-> stream[start + i]]
    <3>1. 1 .. ((start + n) - (start + 1) + 1) = 1 .. n
      BY <1>1, <1>4, <2>1
    <3>2. \A i \in 1 .. n : start + 1 + i - 1 = start + i
      BY <1>1, <1>4, <2>1
    <3> QED
      BY <1>1, <1>4, <2>1, <3>1, <3>2 DEF IInv, TypeInv
  <2>3. ASSUME NEW i \in 1 .. n PROVE packet[i] = stream[start + i]
    <3>1. i - 1 \in 0 .. MAX_BUFFER - 1 /\ i - 1 < Size /\ start + 1 + (i - 1) = start + i
      BY <1>1, <1>4, <1>6
    <3> QED
      BY <1>3, <1>4, <3>1
  <2>4. packet = [i \in 1 .. n |-> packet[i]]
    BY <1>4
  <2> HIDE DEF packet, n
  <2> QED
    BY <2>2, <2>3, <2>4
<1>7. n \in Nat
  BY <1>4
<1> QED
  BY <1>1, <1>2, <1>3, <1>4, <1>5, <1>6, <1>7

LEMMA FinishStep ==
  ASSUME IInv, Finish
  PROVE  IInv'
<1> DEFINE start == read - rest
           packet == Given(packet_buffer')
<1>1. /\ rest \in Nat /\ rest > 0 /\ read \in Nat /\ rest <= read
      /\ read <= Len(stream) /\ Len(stream) \in Nat
      /\ Size \in 0 .. rest
  BY FinishedPacket DEF IInv, TypeInv, Finish
<1>2. /\ packet_buffer' \in [0 .. MAX_BUFFER - 1 -> Byte]
      /\ handled' = Append(handled, packet) /\ sizes' = Append(sizes, Size)
      /\ rest' = rest - Size
      /\ packet_size' = 0 /\ prev_size' = 0
      /\ UNCHANGED <<stream, read>>
      /\ packet \in Seq(Byte) /\ Len(packet) \in Nat
      /\ Size >= Len(packet) =>
           packet = SubSeq(stream, start + 1, start + Len(packet))
  BY FinishedPacket
<1> HIDE DEF packet
<1>3. /\ handled' \in Seq(Seq(Byte)) /\ Len(handled') = Len(handled) + 1
      /\ sizes' \in Seq(Int) /\ Len(sizes') = Len(sizes) + 1
      /\ \A k \in DOMAIN handled' :
           IF k \in DOMAIN handled THEN handled'[k] = handled[k] /\ sizes'[k] = sizes[k]
           ELSE handled'[k] = packet /\ sizes'[k] = Size
  <2>1. handled \in Seq(Seq(Byte)) /\ sizes \in Seq(Int) /\ Len(sizes) = Len(handled)
        /\ Size \in Int
    BY <1>1 DEF IInv, TypeInv
  <2>2. /\ handled' \in Seq(Seq(Byte)) /\ Len(handled') = Len(handled) + 1
        /\ DOMAIN handled' = 1 .. Len(handled) + 1 /\ DOMAIN handled = 1 .. Len(handled)
        /\ \A k \in 1 .. Len(handled) : handled'[k] = handled[k]
        /\ handled'[Len(handled) + 1] = packet
    BY <1>2, <2>1, AppendProperties
  <2>3. /\ sizes' \in Seq(Int) /\ Len(sizes') = Len(handled) + 1
        /\ \A k \in 1 .. Len(handled) : sizes'[k] = sizes[k]
        /\ sizes'[Len(handled) + 1] = Size
    BY <1>2, <2>1, AppendProperties
  <2>4. Len(handled) \in Nat
    BY <2>1
  <2> QED
    BY <2>1, <2>2, <2>3, <2>4
<1>7. TypeInv'
  <2>2. rest' \in 0 .. read'
    BY <1>1, <1>2
  <2> QED
    BY <1>1, <1>2, <1>3, <2>2, BufferAssumption DEF IInv, TypeInv
<1>8. NoMixture'
  <2> SUFFICES ASSUME NEW k \in DOMAIN handled', sizes'[k] >= Len(handled'[k])
               PROVE  \E i \in 0 .. read - Len(handled'[k]) :
                        handled'[k] = SubSeq(stream, i + 1, i + Len(handled'[k]))
    BY <1>2 DEF NoMixture
  <2>1. CASE k \in DOMAIN handled
    <3>1. handled'[k] = handled[k] /\ sizes'[k] = sizes[k]
      BY <1>3, <2>1
    <3> QED
      BY <2>1, <3>1 DEF IInv, NoMixture
  <2>2. CASE k \notin DOMAIN handled
    <3>1. handled'[k] = packet /\ Size >= Len(packet)
      BY <1>3, <2>2
    <3>2. start \in 0 .. read - Len(packet)
      BY <1>1, <1>2, <3>1
    <3>3. packet = SubSeq(stream, start + 1, start + Len(packet))
      BY <1>2, <3>1
    <3> HIDE DEF start
    <3> QED
      BY <3>1, <3>2, <3>3
  <2> QED
    BY <2>1, <2>2
<1> QED
  BY <1>7, <1>8 DEF IInv

(* A fragment is copied to the front of the buffer and forgotten.          *)
LEMMA KeepStep ==
  ASSUME IInv, Keep
  PROVE  IInv'
<1>1. Size \in 0 .. HALF - 1 /\ rest \in 0 .. rest
  BY SizeFits, BufferAssumption DEF IInv, TypeInv, Keep
<1>2. packet_buffer' \in [0 .. MAX_BUFFER - 1 -> Byte]
  BY <1>1, CopiedType DEF IInv, Keep
<1>3. TypeInv'
  BY <1>1, <1>2 DEF IInv, TypeInv, Keep
<1>4. NoMixture'
  BY DEF IInv, NoMixture, Keep
<1> QED
  BY <1>3, <1>4 DEF IInv

LEMMA StutterStep ==
  ASSUME IInv, Crash \/ UNCHANGED vars
  PROVE  IInv'
  BY DEF IInv, TypeInv, NoMixture, Crash, vars

(* Whatever was lost before, a length that covers the struct of its type   *)
(* gives process_packet bytes that followed each other in the stream: the  *)
(* property NoMixture.                                                     *)
THEOREM NothingIsMixed == Spec => []NoMixture
<1>1. Init => IInv
  BY InitInv
<1>2. IInv /\ [Next]_vars => IInv'
  BY ReceiveStep, FinishStep, KeepStep, StutterStep DEF Next
<1>3. IInv => NoMixture
  BY DEF IInv
<1> QED
  BY <1>1, <1>2, <1>3, PTL DEF Spec

-----------------------------------------------------------------------------

(* A set of numbers up to n has a greatest one.                            *)
LEMMA Greatest ==
  ASSUME NEW n \in Nat, NEW S \in SUBSET (0 .. n), S # {}
  PROVE  \E p \in S : \A q \in S : q <= p
<1> DEFINE Above(p) == p .. n
           N == 0 .. n
           T == {Above(p) : p \in S}
<1>1. IsFiniteSet(N)
  BY FS_Interval
<1>2. IsWellFoundedOn(StrictSubsetOrdering(N), SUBSET N)
  BY <1>1, FS_StrictSubsetOrderingWellFounded, FS_FiniteSubsetsOfFinite
<1>3. T \subseteq SUBSET N /\ T # {}
  <2>1. \A p \in S : Above(p) \in SUBSET N
    OBVIOUS
  <2> HIDE DEF Above, N
  <2> QED
    BY <2>1
<1>4. PICK X \in T : \A Y \in T : ~ (<<Y, X>> \in StrictSubsetOrdering(N))
  <2> HIDE DEF T, N
  <2> QED
    BY <1>2, <1>3, WFMin
<1>5. PICK p \in S : X = Above(p)
  BY <1>4
<1>6. ASSUME NEW q \in S, ~ (q <= p)
      PROVE  FALSE
  <2>1. p < q /\ p \in N /\ q \in N
    BY <1>6
  <2>2. Above(q) \subseteq Above(p) /\ p \in Above(p) /\ p \notin Above(q)
    BY <2>1
  <2>3. Above(q) \in T /\ X \in SUBSET N /\ Above(q) \in SUBSET N
    BY <1>3, <1>4
  <2> HIDE DEF Above, T, N
  <2>4. <<Above(q), X>> \in StrictSubsetOrdering(N)
    BY <1>5, <2>2, <2>3 DEF StrictSubsetOrdering
  <2> QED
    BY <1>4, <2>3, <2>4
<1> QED
  BY <1>6

\* One round of Parts.
Round(s, n, f, p) ==
  IF p = n THEN <<>>
  ELSE IF s[p + 1] \in 1 .. n - p
    THEN <<SubSeq(s, p + 1, p + s[p + 1])>> \o f[p + s[p + 1]]
  ELSE <<SubSeq(s, p + 1, n)>>

LEMMA PartsChosen ==
  ASSUME NEW s, NEW n
  PROVE  Parts(s, n) = CHOOSE f : f = [p \in 0 .. n |-> Round(s, n, f, p)]
  BY DEF Parts, Round

(* A packet is at least one byte, so the recursion ends.                   *)
LEMMA PartsExist ==
  ASSUME NEW s, NEW n \in Nat
  PROVE  \E f : f = [p \in 0 .. n |-> Round(s, n, f, p)]
<1> DEFINE Bad == {p \in 0 .. n : ~ \E f : f = [q \in p .. n |-> Round(s, n, f, q)]}
<1> SUFFICES ASSUME 0 \in Bad PROVE FALSE
  OBVIOUS
<1>1. PICK p \in Bad : \A q \in Bad : q <= p
  <2>1. Bad \in SUBSET (0 .. n) /\ Bad # {}
    OBVIOUS
  <2> HIDE DEF Bad
  <2> QED
    BY <2>1, Greatest
<1>2. p \in 0 .. n
  OBVIOUS
<1>3. PICK g : \A q \in p + 1 .. n : g[q] = Round(s, n, g, q)
  <2>1. CASE p = n
    BY <1>2, <2>1
  <2>2. CASE p # n
    <3>1. p + 1 \in 0 .. n /\ p + 1 \notin Bad
      <4>1. p + 1 \in 0 .. n /\ ~ (p + 1 <= p)
        BY <1>2, <2>2
      <4> HIDE DEF Bad
      <4> QED
        BY <1>1, <4>1
    <3>2. PICK f : f = [q \in p + 1 .. n |-> Round(s, n, f, q)]
      BY <3>1
    <3>3. \A q \in p + 1 .. n : f[q] = Round(s, n, f, q)
      BY <3>2
    <3> QED
      BY <3>3
  <2> QED
    BY <2>1, <2>2
<1> DEFINE h == [q \in p .. n |-> IF q = p THEN Round(s, n, g, p) ELSE g[q]]
<1>4. ASSUME NEW q \in p .. n
      PROVE  h[q] = Round(s, n, h, q)
  <2>1. Round(s, n, h, q) = Round(s, n, g, q)
    <3>1. CASE q # n /\ s[q + 1] \in 1 .. n - q
      <4>1. q + s[q + 1] \in p .. n /\ q + s[q + 1] # p
        BY <1>2, <3>1
      <4>2. h[q + s[q + 1]] = g[q + s[q + 1]]
        BY <4>1
      <4> HIDE DEF h
      <4> QED
        BY <4>2 DEF Round
    <3>2. CASE ~ (q # n /\ s[q + 1] \in 1 .. n - q)
      <4> HIDE DEF h
      <4> QED
        BY <3>2 DEF Round
    <3> QED
      BY <3>1, <3>2
  <2>2. h[q] = Round(s, n, g, q)
    <3>1. CASE q = p
      BY <3>1
    <3>2. CASE q # p
      <4>1. q \in p + 1 .. n
        BY <1>2, <3>2
      <4>2. h[q] = g[q]
        BY <3>2
      <4> QED
        BY <1>3, <4>1, <4>2
    <3> QED
      BY <3>1, <3>2
  <2> QED
    BY <2>1, <2>2
<1>5. h = [q \in p .. n |-> Round(s, n, h, q)]
  <2> DEFINE k == [q \in p .. n |-> Round(s, n, h, q)]
  <2>1. \A q \in p .. n : h[q] = k[q]
    <3>1. ASSUME NEW q \in p .. n PROVE h[q] = k[q]
      <4>1. k[q] = Round(s, n, h, q)
        <5> HIDE DEF h
        <5> QED
          OBVIOUS
      <4> HIDE DEF k, h
      <4> QED
        BY <1>4, <4>1
    <3> QED
      BY <3>1
  <2>2. h = [q \in p .. n |-> h[q]]
    OBVIOUS
  <2>3. k = [q \in p .. n |-> k[q]]
    <3> HIDE DEF h
    <3> QED
      OBVIOUS
  <2> HIDE DEF h, k
  <2>4. h = k
    BY <2>1, <2>2, <2>3
  <2> QED
    BY <2>4 DEF k
<1>6. p \notin Bad
  <2>1. \E f : f = [q \in p .. n |-> Round(s, n, f, q)]
    <3> HIDE DEF h
    <3> QED
      BY <1>5
  <2> QED
    BY <2>1
<1> QED
  BY <1>6

LEMMA PartsRound ==
  ASSUME NEW s, NEW n \in Nat, NEW p \in 0 .. n
  PROVE  Parts(s, n)[p] = Round(s, n, Parts(s, n), p)
<1>1. Parts(s, n) = [q \in 0 .. n |-> Round(s, n, Parts(s, n), q)]
  BY PartsChosen, PartsExist
<1> QED
  BY <1>1

(* What holds of p as soon as it holds above p holds up to n.              *)
LEMMA Downwards ==
  ASSUME NEW n \in Nat, NEW S \in SUBSET (0 .. n),
         \A p \in 0 .. n : (\A q \in p + 1 .. n : q \in S) => p \in S
  PROVE  S = 0 .. n
<1> DEFINE B == (0 .. n) \ S
<1> SUFFICES ASSUME B # {} PROVE FALSE
  OBVIOUS
<1>1. PICK p \in B : \A q \in B : q <= p
  <2>1. B \in SUBSET (0 .. n)
    OBVIOUS
  <2> HIDE DEF B
  <2> QED
    BY <2>1, Greatest
<1>2. \A q \in p + 1 .. n : q \in S
  <2>1. ASSUME NEW q \in p + 1 .. n PROVE q \in S
    <3>1. q \in 0 .. n /\ ~ (q <= p)
      OBVIOUS
    <3> QED
      BY <1>1, <3>1
  <2> QED
    BY <2>1
<1> QED
  BY <1>2

\* The packet at p of the stream s.
At(s, p) == SubSeq(s, p + 1, p + s[p + 1])

LEMMA PieceOf ==
  ASSUME NEW s \in Seq(Byte), NEW p \in Nat, NEW q \in Nat, p < q, q <= Len(s)
  PROVE  /\ SubSeq(s, p + 1, q) \in Seq(Byte)
         /\ Len(SubSeq(s, p + 1, q)) = q - p
         /\ SubSeq(s, p + 1, q)[1] = s[p + 1]
         /\ p + 2 <= q => SubSeq(s, p + 1, q)[2] = s[p + 2]
         /\ s[p + 1] \in Byte
<1>1. \A i \in p + 1 .. q : s[i] \in Byte
  BY ElementOfSeq
<1>2. p + 1 \in Int /\ q \in Int /\ p + 1 \in p + 1 .. q /\ 1 \in 1 .. q - (p + 1) + 1
      /\ p + 1 <= q
  OBVIOUS
<1>3. /\ SubSeq(s, p + 1, q) \in Seq(Byte)
      /\ Len(SubSeq(s, p + 1, q)) = IF p + 1 <= q THEN q - (p + 1) + 1 ELSE 0
      /\ \A i \in 1 .. q - (p + 1) + 1 : SubSeq(s, p + 1, q)[i] = s[p + 1 + i - 1]
  <2> HIDE DEF Byte
  <2> QED
    BY <1>1, <1>2, SubSeqProperties
<1>4. SubSeq(s, p + 1, q)[1] = s[p + 1 + 1 - 1] /\ p + 1 + 1 - 1 = p + 1
  BY <1>2, <1>3
<1>5. ASSUME p + 2 <= q PROVE SubSeq(s, p + 1, q)[2] = s[p + 2]
  <2>1. 2 \in 1 .. q - (p + 1) + 1 /\ p + 1 + 2 - 1 = p + 2
    BY <1>2, <1>5
  <2> QED
    BY <1>3, <2>1
<1> QED
  BY <1>1, <1>2, <1>3, <1>4, <1>5

LEMMA PartsType ==
  ASSUME NEW s \in Seq(Byte), NEW n \in 0 .. Len(s), NEW p \in 0 .. n
  PROVE  Parts(s, n)[p] \in Seq(Seq(Byte))
<1> DEFINE P == Parts(s, n)
           S == {q \in 0 .. n : P[q] \in Seq(Seq(Byte))}
<1>1. n \in Nat /\ Len(s) \in Nat
  OBVIOUS
<1>2. ASSUME NEW q \in 0 .. n, \A r \in q + 1 .. n : r \in S
      PROVE  q \in S
  <2>1. P[q] = Round(s, n, P, q)
    BY <1>1, PartsRound
  <2> HIDE DEF P
  <2>2. CASE q = n
    BY <2>1, <2>2, EmptySeq DEF Round
  <2>3. CASE q # n /\ s[q + 1] \in 1 .. n - q
    <3>1. q + s[q + 1] \in q + 1 .. n /\ q + s[q + 1] \in Nat /\ q < q + s[q + 1]
          /\ q + s[q + 1] <= Len(s)
      BY <1>1, <2>3
    <3>2. At(s, q) \in Seq(Byte)
      BY <3>1, PieceOf DEF At
    <3>3. P[q + s[q + 1]] \in Seq(Seq(Byte))
      BY <1>2, <3>1
    <3>4. P[q] = <<At(s, q)>> \o P[q + s[q + 1]]
      BY <2>1, <2>3 DEF Round, At
    <3>5. <<At(s, q)>> \in Seq(Seq(Byte))
      BY <3>2
    <3> QED
      BY <3>3, <3>4, <3>5, ConcatProperties
  <2>4. CASE q # n /\ s[q + 1] \notin 1 .. n - q
    <3>1. SubSeq(s, q + 1, n) \in Seq(Byte)
      BY <1>1, <2>4, PieceOf
    <3>2. P[q] = <<SubSeq(s, q + 1, n)>>
      BY <2>1, <2>4 DEF Round
    <3>3. <<SubSeq(s, q + 1, n)>> \in Seq(Seq(Byte))
      BY <3>1
    <3> QED
      BY <3>2, <3>3
  <2> QED
    BY <2>2, <2>3, <2>4
<1>3. S = 0 .. n
  <2>1. S \in SUBSET (0 .. n)
    OBVIOUS
  <2> HIDE DEF S
  <2> QED
    BY <1>1, <1>2, <2>1, Downwards
<1> QED
  BY <1>3

LEMMA WholeConcat ==
  ASSUME NEW x \in Seq(Seq(Byte)), NEW y \in Seq(Seq(Byte))
  PROVE  Whole(x \o y) <=> Whole(x) /\ Whole(y)
<1>1. /\ Len(x \o y) = Len(x) + Len(y) /\ x \o y \in Seq(Seq(Byte))
      /\ \A i \in 1 .. Len(x) + Len(y) :
           (x \o y)[i] = IF i <= Len(x) THEN x[i] ELSE y[i - Len(x)]
  <2> HIDE DEF Byte
  <2> QED
    BY ConcatProperties
<1>2. /\ Len(x) \in Nat /\ DOMAIN x = 1 .. Len(x)
      /\ Len(y) \in Nat /\ DOMAIN y = 1 .. Len(y)
      /\ DOMAIN (x \o y) = 1 .. Len(x) + Len(y)
  BY <1>1, LenProperties
<1>3. ASSUME Whole(x), Whole(y) PROVE Whole(x \o y)
  <2> SUFFICES ASSUME NEW k \in 1 .. Len(x) + Len(y)
               PROVE  IsPacket((x \o y)[k])
    BY <1>2 DEF Whole
  <2>1. CASE k <= Len(x)
    <3>1. (x \o y)[k] = x[k] /\ k \in DOMAIN x
      BY <1>1, <1>2, <2>1
    <3> QED
      BY <1>3, <3>1 DEF Whole
  <2>2. CASE ~ (k <= Len(x))
    <3>1. (x \o y)[k] = y[k - Len(x)] /\ k - Len(x) \in DOMAIN y
      BY <1>1, <1>2, <2>2
    <3> QED
      BY <1>3, <3>1 DEF Whole
  <2> QED
    BY <2>1, <2>2
<1>4. ASSUME Whole(x \o y) PROVE Whole(x) /\ Whole(y)
  <2>1. ASSUME NEW k \in 1 .. Len(x) PROVE IsPacket(x[k])
    <3>1. (x \o y)[k] = x[k] /\ k \in DOMAIN (x \o y)
      BY <1>1, <1>2
    <3> QED
      BY <1>4, <3>1 DEF Whole
  <2>2. ASSUME NEW k \in 1 .. Len(y) PROVE IsPacket(y[k])
    <3>1. k + Len(x) \in 1 .. Len(x) + Len(y) /\ ~ (k + Len(x) <= Len(x))
          /\ k + Len(x) - Len(x) = k
      BY <1>2
    <3>2. (x \o y)[k + Len(x)] = y[k] /\ k + Len(x) \in DOMAIN (x \o y)
      BY <1>1, <1>2, <3>1
    <3> QED
      BY <1>4, <3>2 DEF Whole
  <2> QED
    BY <1>2, <2>1, <2>2 DEF Whole
<1> QED
  BY <1>3, <1>4

(* What is whole from p on begins with a packet, and is whole behind it.   *)
LEMMA WholeFrom ==
  ASSUME NEW s \in Seq(Byte), NEW n \in 0 .. Len(s), NEW p \in 0 .. n - 1,
         Whole(Parts(s, n)[p])
  PROVE  /\ s[p + 1] \in 1 .. n - p
         /\ Parts(s, n)[p] = <<At(s, p)>> \o Parts(s, n)[p + s[p + 1]]
         /\ Whole(Parts(s, n)[p + s[p + 1]])
         /\ At(s, p) \in Seq(Byte) /\ Whole(<<At(s, p)>>)
         /\ s[p + 1] \in 2 .. HALF - 1 /\ Struct[s[p + 2]] = s[p + 1]
<1>0. n \in Nat /\ Len(s) \in Nat /\ p \in 0 .. n /\ p # n /\ n <= Len(s)
  OBVIOUS
<1>1. Parts(s, n)[p] = Round(s, n, Parts(s, n), p)
  BY <1>0, PartsRound
<1>2. s[p + 1] \in 1 .. n - p
  <2> SUFFICES ASSUME s[p + 1] \notin 1 .. n - p PROVE FALSE
    OBVIOUS
  <2>1. Parts(s, n)[p] = <<SubSeq(s, p + 1, n)>>
    BY <1>0, <1>1 DEF Round
  <2>2. Len(SubSeq(s, p + 1, n)) = SubSeq(s, p + 1, n)[1]
    <3> DEFINE x == SubSeq(s, p + 1, n)
    <3>1. Whole(<<x>>)
      BY <2>1
    <3> HIDE DEF x
    <3>2. 1 \in DOMAIN <<x>> /\ <<x>>[1] = x
      OBVIOUS
    <3>3. Len(x) = x[1]
      BY <3>1, <3>2 DEF Whole, IsPacket
    <3> QED
      BY <3>3 DEF x
  <2>3. Len(SubSeq(s, p + 1, n)) = n - p /\ SubSeq(s, p + 1, n)[1] = s[p + 1]
    BY <1>0, PieceOf
  <2> QED
    BY <1>0, <2>2, <2>3
<1>3. Parts(s, n)[p] = <<At(s, p)>> \o Parts(s, n)[p + s[p + 1]]
  BY <1>0, <1>1, <1>2 DEF Round, At
<1>4. p + s[p + 1] \in 0 .. n /\ p + s[p + 1] \in Nat /\ p < p + s[p + 1]
      /\ p + s[p + 1] <= Len(s) /\ p \in Nat
  BY <1>0, <1>2
<1>5. At(s, p) \in Seq(Byte) /\ <<At(s, p)>> \in Seq(Seq(Byte))
  BY <1>4, PieceOf DEF At
<1>6. Parts(s, n)[p + s[p + 1]] \in Seq(Seq(Byte))
  BY <1>4, PartsType
<1>7. Whole(<<At(s, p)>>) /\ Whole(Parts(s, n)[p + s[p + 1]])
  BY <1>3, <1>5, <1>6, WholeConcat
<1>8. s[p + 1] \in 2 .. HALF - 1 /\ Struct[s[p + 2]] = s[p + 1]
  <2> DEFINE x == At(s, p)
  <2>1. Len(x) = s[p + 1] /\ x[1] = s[p + 1] /\ (s[p + 1] >= 2 => x[2] = s[p + 2])
    <3>1. PICK q \in Nat : q = p + s[p + 1]
      BY <1>4
    <3>2. p < q /\ q <= Len(s) /\ q - p = s[p + 1] /\ (s[p + 1] >= 2 => p + 2 <= q) /\ p \in Nat
      BY <1>0, <1>2, <1>4, <3>1
    <3> QED
      BY <3>1, <3>2, PieceOf DEF At
  <2>2. Whole(<<x>>)
    BY <1>7
  <2> HIDE DEF x
  <2>3. 1 \in DOMAIN <<x>> /\ <<x>>[1] = x
    OBVIOUS
  <2>4. IsPacket(x)
    BY <2>2, <2>3 DEF Whole
  <2> QED
    BY <2>1, <2>4 DEF IsPacket
<1> QED
  BY <1>2, <1>3, <1>5, <1>7, <1>8

(* Packets that end at n are a beginning of those that end at m.           *)
LEMMA PartsJoin ==
  ASSUME NEW s \in Seq(Byte), NEW m \in 0 .. Len(s), NEW n \in 0 .. m, NEW p \in 0 .. n,
         Whole(Parts(s, n)[p])
  PROVE  Parts(s, m)[p] = Parts(s, n)[p] \o Parts(s, m)[n]
<1> DEFINE N == Parts(s, n)
           M == Parts(s, m)
           S == {q \in 0 .. n : Whole(N[q]) => M[q] = N[q] \o M[n]}
<1>0. m \in Nat /\ n \in Nat /\ Len(s) \in Nat /\ n \in 0 .. Len(s) /\ n \in 0 .. m
  OBVIOUS
<1>1. ASSUME NEW q \in 0 .. n, \A r \in q + 1 .. n : r \in S
      PROVE  q \in S
  <2> SUFFICES ASSUME Whole(N[q]) PROVE M[q] = N[q] \o M[n]
    OBVIOUS
  <2>1. CASE q = n
    <3>1. N[n] = <<>>
      BY <1>0, <2>1, PartsRound DEF Round
    <3>2. M[n] \in Seq(Seq(Byte))
      BY <1>0, PartsType
    <3> HIDE DEF N, M
    <3> QED
      BY <2>1, <3>1, <3>2, ConcatEmptySeq
  <2>2. CASE q # n
    <3>1. q \in 0 .. n - 1 /\ q \in 0 .. m /\ q # m
      BY <1>0, <2>2
    <3>2. /\ s[q + 1] \in 1 .. n - q /\ N[q] = <<At(s, q)>> \o N[q + s[q + 1]]
          /\ Whole(N[q + s[q + 1]]) /\ At(s, q) \in Seq(Byte)
      BY <1>0, <3>1, WholeFrom
    <3>3. q + s[q + 1] \in q + 1 .. n /\ q + s[q + 1] \in 0 .. n /\ s[q + 1] \in 1 .. m - q
      BY <1>0, <3>1, <3>2
    <3>4. M[q + s[q + 1]] = N[q + s[q + 1]] \o M[n]
      BY <1>1, <3>2, <3>3
    <3>5. M[q] = <<At(s, q)>> \o M[q + s[q + 1]]
      <4>1. M[q] = Round(s, m, M, q)
        BY <1>0, <3>1, PartsRound
      <4> HIDE DEF M
      <4> QED
        BY <3>1, <3>3, <4>1 DEF Round, At
    <3>6. <<At(s, q)>> \in Seq(Seq(Byte))
      BY <3>2
    <3>7. N[q + s[q + 1]] \in Seq(Seq(Byte)) /\ M[n] \in Seq(Seq(Byte))
      BY <1>0, <3>3, PartsType
    <3> DEFINE x == <<At(s, q)>>
               y == N[q + s[q + 1]]
    <3>8. (x \o y) \o M[n] = x \o (y \o M[n])
      <4>1. x \in Seq(Seq(Byte)) /\ y \in Seq(Seq(Byte)) /\ M[n] \in Seq(Seq(Byte))
        BY <3>6, <3>7
      <4>2. PICK z : z = M[n]
        OBVIOUS
      <4> HIDE DEF N, M, x, y
      <4> DEFINE Packet == Seq(Byte)
      <4>3. x \in Seq(Packet) /\ y \in Seq(Packet) /\ z \in Seq(Packet)
        BY <4>1, <4>2
      <4> HIDE DEF Packet
      <4>4. (x \o y) \o z = x \o (y \o z)
        BY <4>3, ConcatAssociative
      <4> QED
        BY <4>2, <4>4
    <3>9. N[q] = x \o y /\ M[q] = x \o M[q + s[q + 1]] /\ M[q + s[q + 1]] = y \o M[n]
      BY <3>2, <3>4, <3>5
    <3> HIDE DEF N, M, x, y
    <3> QED
      BY <3>8, <3>9
  <2> QED
    BY <2>1, <2>2
<1>2. S = 0 .. n
  <2>1. S \in SUBSET (0 .. n)
    OBVIOUS
  <2> HIDE DEF S
  <2> QED
    BY <1>0, <1>1, <2>1, Downwards
<1> QED
  BY <1>2

-----------------------------------------------------------------------------

(* Reassembly is in step with the stream.                                  *)
InStep ==
  whole =>
    /\ packet_size = 0
    /\ state = "serving"
    /\ handled = Parts(stream, read - rest)[0]
    /\ Whole(handled)
    /\ Whole(Parts(stream, read)[read - rest])

LEMMA InitStep == Init => InStep
<1> SUFFICES ASSUME Init PROVE InStep
  OBVIOUS
<1>1. Parts(stream, 0)[0] = <<>>
  <2>1. 0 \in Nat /\ 0 \in 0 .. 0
    OBVIOUS
  <2> QED
    BY <2>1, PartsRound DEF Round
<1> QED
  BY <1>1 DEF Init, InStep, Whole

LEMMA ReceiveInStep ==
  ASSUME IInv, InStep, Receive
  PROVE  InStep'
<1>1. PICK n \in 1 .. MAX_BUFFER :
        read + n <= Len(stream) /\ read' = read + n /\ rest' = n
        /\ whole' = (whole /\ Boundary(read'))
  BY DEF Receive
<1>2. /\ stream \in Seq(Byte) /\ read \in Nat /\ rest = 0 /\ MAX_BUFFER \in Nat
      /\ stream' = stream /\ handled' = handled
      /\ packet_size' = 0 /\ state' = state
      /\ state = "serving"
  BY BufferAssumption DEF IInv, TypeInv, Receive
<1>3. PICK m \in Nat : m = read'
  BY <1>1, <1>2
<1>4. m \in 0 .. Len(stream) /\ read \in 0 .. m /\ 0 \in 0 .. read /\ read \in 0 .. Len(stream)
      /\ m - rest' = read /\ read - rest = read
  BY <1>1, <1>2, <1>3
<1> SUFFICES ASSUME whole' PROVE /\ handled = Parts(stream, read)[0]
                                 /\ state = "serving"
                                 /\ Whole(handled)
                                 /\ Whole(Parts(stream, m)[read])
  BY <1>2, <1>3, <1>4 DEF InStep, Whole
<1>5. whole /\ Whole(Parts(stream, m)[0])
  BY <1>1, <1>3 DEF Boundary, Packets
<1>6. handled = Parts(stream, read)[0] /\ Whole(handled)
  BY <1>4, <1>5 DEF InStep
<1>7. Parts(stream, m)[0] = Parts(stream, read)[0] \o Parts(stream, m)[read]
  BY <1>2, <1>4, <1>6, PartsJoin
<1>8. Parts(stream, read)[0] \in Seq(Seq(Byte)) /\ Parts(stream, m)[read] \in Seq(Seq(Byte))
  BY <1>2, <1>4, PartsType
<1> QED
  BY <1>2, <1>5, <1>6, <1>7, <1>8, WholeConcat

(* One packet is its only part.                                            *)
LEMMA OnePacket ==
  ASSUME NEW s \in Seq(Byte), NEW p \in Nat, s[p + 1] \in Nat \ {0}, p + s[p + 1] <= Len(s)
  PROVE  Parts(s, p + s[p + 1])[p] = <<At(s, p)>>
<1>1. PICK n \in Nat : n = p + s[p + 1]
  OBVIOUS
<1>2. p \in 0 .. n /\ n \in 0 .. n /\ p # n /\ s[p + 1] \in 1 .. n - p /\ p < n /\ n <= Len(s)
  BY <1>1
<1>3. Parts(s, n)[n] = <<>>
  BY <1>2, PartsRound DEF Round
<1>4. Parts(s, n)[p] = <<At(s, p)>> \o Parts(s, n)[n]
  BY <1>1, <1>2, PartsRound DEF Round, At
<1>5. <<At(s, p)>> \in Seq(Seq(Byte))
  <2>1. At(s, p) \in Seq(Byte)
    BY <1>1, <1>2, PieceOf DEF At
  <2> QED
    BY <2>1
<1> HIDE DEF Byte
<1> QED
  BY <1>1, <1>3, <1>4, <1>5, ConcatEmptySeq

LEMMA FinishInStep ==
  ASSUME IInv, InStep, Finish, whole
  PROVE  InStep'
<1> DEFINE p == read - rest
           size == stream[p + 1]
<1>1. /\ stream \in Seq(Byte) /\ read \in 0 .. Len(stream) /\ rest \in 0 .. read /\ rest > 0
      /\ packet_size = 0 /\ Size = Signed(size) /\ state = "serving"
  BY DEF IInv, TypeInv, Finish, InStep, Size
<1>2. p \in 0 .. read - 1 /\ p \in 0 .. Len(stream) /\ read - p = rest /\ Len(stream) \in Nat
      /\ 0 \in 0 .. p
  BY <1>1
<1>3. /\ size \in 1 .. read - p
      /\ Whole(Parts(stream, read)[p + size])
      /\ At(stream, p) \in Seq(Byte) /\ Whole(<<At(stream, p)>>)
      /\ size \in 2 .. HALF - 1 /\ Struct[stream[p + 2]] = size
  BY <1>1, <1>2, WholeFrom DEF InStep
<1>4. p + size \in 0 .. Len(stream) /\ p + size \in Nat /\ p + size \in 0 .. p + size
      /\ p \in 0 .. p + size /\ p # p + size
      /\ size \in 1 .. p + size - p /\ read - (rest - size) = p + size
  BY <1>1, <1>2, <1>3
<1>5. /\ handled' = Append(handled, At(stream, p))
      /\ rest' = rest - size /\ packet_size' = 0 /\ UNCHANGED <<stream, read>>
      /\ state' = "serving"
  <2>1. Size = size /\ Size > 1 /\ Size # 0
    BY <1>1, <1>3, BufferAssumption DEF Signed
  <2> DEFINE packet == Given(packet_buffer')
  <2>2. /\ handled' = Append(handled, packet)
        /\ Len(packet) = Struct[packet_buffer'[1]]
        /\ packet_buffer'[1] = stream[p + 2]
        /\ Size >= Len(packet) => packet = SubSeq(stream, p + 1, p + Len(packet))
        /\ rest' = rest - size /\ packet_size' = 0 /\ UNCHANGED <<stream, read>>
        /\ state' = state
    BY <2>1, FinishedPacket
  <2>3. packet = At(stream, p)
    <3> HIDE DEF packet, p
    <3> QED
      BY <1>3, <2>1, <2>2 DEF At
  <2> HIDE DEF packet
  <2> QED
    BY <1>1, <2>2, <2>3
<1>6. Parts(stream, p + size)[p] = <<At(stream, p)>>
  <2>1. p \in Nat /\ stream[p + 1] \in Nat \ {0} /\ p + stream[p + 1] <= Len(stream)
    BY <1>1, <1>2, <1>3, <1>4
  <2>2. Parts(stream, p + stream[p + 1])[p] = <<At(stream, p)>>
    <3> HIDE DEF p, size
    <3> QED
      BY <1>1, <2>1, OnePacket
  <2> QED
    BY <2>2
<1>7. /\ handled = Parts(stream, p)[0] /\ Whole(handled) /\ handled \in Seq(Seq(Byte))
  BY DEF InStep, IInv, TypeInv, Byte
<1>8. Parts(stream, p + size)[0] = handled \o <<At(stream, p)>>
  <2> HIDE DEF p, size
  <2> QED
    BY <1>1, <1>2, <1>4, <1>6, <1>7, PartsJoin
<1>9. Append(handled, At(stream, p)) = handled \o <<At(stream, p)>>
  <2> DEFINE x == At(stream, p)
             Packet == Seq(Byte)
  <2>1. x \in Packet /\ handled \in Seq(Packet)
    BY <1>3, <1>7
  <2> HIDE DEF x, Packet
  <2> QED
    BY <2>1
<1>10. Whole(handled \o <<At(stream, p)>>)
  <2>1. <<At(stream, p)>> \in Seq(Seq(Byte))
    BY <1>3
  <2> QED
    BY <1>3, <1>7, <2>1, WholeConcat
<1>11. read' - rest' = p + size
  BY <1>4, <1>5
<1> HIDE DEF p, size
<1> QED
  BY <1>3, <1>5, <1>8, <1>9, <1>10, <1>11 DEF InStep, Whole

(* In step, every length is that of a packet which is complete.            *)
LEMMA NothingKept ==
  ASSUME IInv, InStep, Keep \/ Crash
  PROVE  ~ whole
<1> SUFFICES ASSUME whole PROVE FALSE
  OBVIOUS
<1> DEFINE p == read - rest
<1>1. /\ stream \in Seq(Byte) /\ read \in 0 .. Len(stream) /\ rest \in 0 .. read /\ rest > 0
      /\ Size = Signed(stream[p + 1]) /\ prev_size = 0
  BY DEF IInv, TypeInv, Keep, Crash, InStep, Size
<1>2. p \in 0 .. read - 1 /\ read - p = rest
  BY <1>1
<1>3. stream[p + 1] \in 2 .. HALF - 1 /\ stream[p + 1] <= rest
  <2>1. Whole(Parts(stream, read)[p])
    BY DEF InStep
  <2> HIDE DEF p
  <2>2. stream[p + 1] \in 1 .. read - p /\ stream[p + 1] \in 2 .. HALF - 1
    BY <1>1, <1>2, <2>1, WholeFrom
  <2> QED
    BY <1>1, <1>2, <2>2
<1>4. Size = stream[p + 1]
  BY <1>1, <1>3, BufferAssumption DEF Signed
<1>5. Size - prev_size > rest \/ Size - prev_size < 0
  BY DEF Keep, Crash
<1> HIDE DEF p
<1> QED
  BY <1>1, <1>3, <1>4, <1>5, BufferAssumption

LEMMA KeepsInStep ==
  ASSUME IInv, InStep, [Next]_vars
  PROVE  InStep'
<1>1. CASE Receive
  BY <1>1, ReceiveInStep
<1>2. CASE Finish
  <2>1. CASE whole
    BY <1>2, <2>1, FinishInStep
  <2>2. CASE ~ whole
    BY <1>2, <2>2 DEF Finish, InStep
  <2> QED
    BY <2>1, <2>2
<1>3. CASE Keep \/ Crash
  <2>1. ~ whole'
    BY <1>3, NothingKept DEF Keep, Crash
  <2> QED
    BY <2>1 DEF InStep
<1>4. CASE UNCHANGED vars
  BY <1>4 DEF vars, InStep, Whole
<1> QED
  BY <1>1, <1>2, <1>3, <1>4 DEF Next

(* As long as every receive ends where a packet ends, process_packet is    *)
(* given the packets that were sent: the property TakenApart.              *)
THEOREM PacketsTakenApart == Spec => []TakenApart
<1>1. Init => IInv /\ InStep
  BY InitInv, InitStep
<1>2. IInv /\ InStep /\ [Next]_vars => (IInv /\ InStep)'
  BY ReceiveStep, FinishStep, KeepStep, StutterStep, KeepsInStep DEF Next
<1>3. InStep => TakenApart
  BY DEF InStep, TakenApart, Packets
<1> QED
  BY <1>1, <1>2, <1>3, PTL DEF Spec

(* No byte is taken for a length of 0 or less as long as every receive     *)
(* ends where a packet ends: the property ServesWhileWhole.                *)
THEOREM ServerServes == Spec => []ServesWhileWhole
<1>1. Init => IInv /\ InStep
  BY InitInv, InitStep
<1>2. IInv /\ InStep /\ [Next]_vars => (IInv /\ InStep)'
  BY ReceiveStep, FinishStep, KeepStep, StutterStep, KeepsInStep DEF Next
<1>3. InStep => ServesWhileWhole
  BY DEF InStep, ServesWhileWhole
<1> QED
  BY <1>1, <1>2, <1>3, PTL DEF Spec
=============================================================================
