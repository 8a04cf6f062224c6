------------------------ MODULE ClientAssemblyProofs ------------------------
(***************************************************************************)
(* That ReadPacket keeps the promise of PacketStream, for every stream and *)
(* however it is cut.                                                      *)
(***************************************************************************)
EXTENDS ClientAssembly, SequenceTheorems, TLAPS

\* The bytes handled so far, and those in packet_buffer after them
Done == read - iobyte - saved_packet_size

TypeInv ==
  /\ stream \in Seq(0 .. BUF_SIZE)
  /\ read \in 0 .. Len(stream)
  /\ iobyte \in Nat
  /\ packet_buffer \in [0 .. BUF_SIZE - 1 -> 0 .. BUF_SIZE]
  /\ in_packet_size \in 0 .. BUF_SIZE
  /\ saved_packet_size \in Nat
  /\ handled \in Seq(Seq(0 .. BUF_SIZE))
  /\ Done \in Nat

(* What is in the buffer is the beginning of the next packet, less than    *)
(* the whole of it; its length is known as soon as something is in there.  *)
BufferInv ==
  /\ in_packet_size = 0 <=> saved_packet_size = 0
  /\ saved_packet_size > 0 =>
       /\ in_packet_size = stream[Done + 1]
       /\ saved_packet_size < in_packet_size
  /\ \A i \in 0 .. saved_packet_size - 1 : packet_buffer[i] = stream[Done + 1 + i]

IInv == TypeInv /\ BufferInv

(* The numbers, with nothing about the contents of the buffers. *)
LEMMA Numbers ==
  ASSUME IInv
  PROVE  /\ BUF_SIZE \in Nat \ {0} /\ Len(stream) \in Nat
         /\ read \in Nat /\ iobyte \in Nat /\ saved_packet_size \in Nat
         /\ in_packet_size \in 0 .. BUF_SIZE
         /\ read <= Len(stream)
         /\ Done \in Nat /\ read = Done + saved_packet_size + iobyte
         /\ saved_packet_size > 0 => saved_packet_size < in_packet_size
  BY BufferAssumption DEF IInv, TypeInv, BufferInv, Done

(* Every byte is a length the buffers have room for. *)
LEMMA StreamBytes ==
  ASSUME IInv, NEW j \in 1 .. Len(stream)
  PROVE  stream[j] \in 0 .. BUF_SIZE
<1>1. stream \in Seq(0 .. BUF_SIZE)
  BY DEF IInv, TypeInv
<1> QED
  BY <1>1, ElementOfSeq

(* The loop looks for the length where it is: at *ptr for a new packet.    *)
LEMMA SizeIsLength ==
  ASSUME IInv, iobyte > 0
  PROVE  Size = stream[Done + 1] /\ Size \in 0 .. BUF_SIZE /\ Done + 1 \in 1 .. read
  BY BufferAssumption DEF IInv, TypeInv, BufferInv, Size, Done

(* memcpy appends to what is in the buffer. *)
LEMMA CopiedBytes ==
  ASSUME IInv, NEW n \in 0 .. iobyte, saved_packet_size + n <= BUF_SIZE
  PROVE  /\ Copied(n) \in [0 .. BUF_SIZE - 1 -> 0 .. BUF_SIZE]
         /\ \A i \in 0 .. saved_packet_size + n - 1 :
              Copied(n)[i] = stream[Done + 1 + i]
<1>1. ASSUME NEW i \in 0 .. BUF_SIZE - 1,
             saved_packet_size <= i, i < saved_packet_size + n
      PROVE  /\ read - iobyte + 1 + i - saved_packet_size = Done + 1 + i
             /\ Done + 1 + i \in 1 .. Len(stream)
  BY <1>1, BufferAssumption DEF IInv, TypeInv, Done
<1>2. Copied(n) \in [0 .. BUF_SIZE - 1 -> 0 .. BUF_SIZE]
  <2>1. ASSUME NEW i \in 0 .. BUF_SIZE - 1
        PROVE  Copied(n)[i] \in 0 .. BUF_SIZE
    <3>1. CASE saved_packet_size <= i /\ i < saved_packet_size + n
      <4>1. Copied(n)[i] = stream[Done + 1 + i] /\ Done + 1 + i \in 1 .. Len(stream)
        BY <1>1, <3>1 DEF Copied
      <4> QED
        BY <4>1, StreamBytes
    <3>2. CASE ~ (saved_packet_size <= i /\ i < saved_packet_size + n)
      BY <3>2 DEF Copied, IInv, TypeInv
    <3> QED
      BY <3>1, <3>2
  <2>2. Copied(n) = [i \in 0 .. BUF_SIZE - 1 |-> Copied(n)[i]]
    BY Zenon DEF Copied
  <2> QED
    BY <2>1, <2>2
<1>3. ASSUME NEW i \in 0 .. saved_packet_size + n - 1
      PROVE  Copied(n)[i] = stream[Done + 1 + i]
  <2>1. i \in 0 .. BUF_SIZE - 1 /\ saved_packet_size \in Nat
    BY <1>3, BufferAssumption DEF IInv, TypeInv
  <2>2. CASE i < saved_packet_size
    <3>1. Copied(n)[i] = packet_buffer[i]
      BY <2>1, <2>2 DEF Copied
    <3>2. i \in 0 .. saved_packet_size - 1
      BY <1>3, <2>1, <2>2
    <3> QED
      BY <3>1, <3>2 DEF IInv, BufferInv
  <2>3. CASE saved_packet_size <= i
    <3>1. i < saved_packet_size + n
      BY <1>3, <2>1
    <3>2. Copied(n)[i] = stream[read - iobyte + 1 + i - saved_packet_size]
      BY <2>1, <2>3, <3>1 DEF Copied
    <3> QED
      BY <1>1, <2>1, <2>3, <3>1, <3>2
  <2> QED
    BY <2>1, <2>2, <2>3
<1> QED
  BY <1>2, <1>3

(* A round that finishes a packet does what Handle promises. *)
LEMMA FinishHandles ==
  ASSUME IInv, Finish
  PROVE  IInv' /\ Promise!Handle
<1> DEFINE required == Size - saved_packet_size
<1>1. /\ Size = stream[Done + 1] /\ Size \in 0 .. BUF_SIZE
      /\ Done + 1 \in 1 .. read /\ iobyte > 0
  BY SizeIsLength DEF Finish
<1>2. required \in 0 .. iobyte /\ saved_packet_size + required = Size
  <2>1. iobyte + saved_packet_size >= Size
    BY DEF Finish, Suffices
  <2>2. saved_packet_size <= Size
    BY <1>1, Numbers DEF Size
  <2> QED
    BY <1>1, <2>1, <2>2, Numbers
<1>3. /\ packet_buffer' \in [0 .. BUF_SIZE - 1 -> 0 .. BUF_SIZE]
      /\ \A i \in 0 .. Size - 1 : packet_buffer'[i] = stream[Done + 1 + i]
  <2>1. packet_buffer' = Copied(required)
    BY DEF Finish
  <2>2. saved_packet_size + required <= BUF_SIZE
    BY <1>1, <1>2, Numbers
  <2>3. /\ Copied(required) \in [0 .. BUF_SIZE - 1 -> 0 .. BUF_SIZE]
        /\ \A i \in 0 .. saved_packet_size + required - 1 :
             Copied(required)[i] = stream[Done + 1 + i]
    BY <1>2, <2>2, CopiedBytes
  <2>4. saved_packet_size + required - 1 = Size - 1
    BY <1>2, Numbers
  <2> QED
    BY <2>1, <2>3, <2>4
<1>4. /\ read' = read /\ stream' = stream
      /\ iobyte' = iobyte - required
      /\ saved_packet_size' = 0 /\ in_packet_size' = 0
      /\ handled' = Append(handled, [i \in 1 .. Size |-> packet_buffer'[i - 1]])
  BY DEF Finish
<1>5. iobyte' \in Nat /\ Done' = Done + Size
  <2>1. Done' = read - (iobyte - required) - 0
    BY <1>4 DEF Done
  <2>2. read = Done + saved_packet_size + iobyte /\ Done \in Nat /\ iobyte \in Nat
    BY Numbers
  <2> QED
    <3>1. required \in Nat /\ required <= iobyte /\ saved_packet_size \in Nat
      BY <1>2, Numbers
    <3>2. Done' = Done + (saved_packet_size + required)
      BY <2>1, <2>2, <3>1
    <3>3. iobyte - required \in Nat
      BY <2>2, <3>1
    <3> QED
      BY <1>2, <1>4, <3>2, <3>3
<1>6. [i \in 1 .. Size |-> packet_buffer'[i - 1]]
        = [i \in 1 .. Size |-> stream[Done + i]]
  <2>1. ASSUME NEW i \in 1 .. Size
        PROVE  packet_buffer'[i - 1] = stream[Done + i]
    <3>1. i - 1 \in 0 .. Size - 1 /\ Done + 1 + (i - 1) = Done + i
      BY <1>1, Numbers, SMTT(30)
    <3> QED
      BY <1>3, <3>1
  <2> QED
    BY <2>1
<1>7. [i \in 1 .. Size |-> packet_buffer'[i - 1]] \in Seq(0 .. BUF_SIZE)
  <2>1. ASSUME NEW i \in 1 .. Size
        PROVE  packet_buffer'[i - 1] \in 0 .. BUF_SIZE
    <3>1. i - 1 \in 0 .. BUF_SIZE - 1
      BY <1>1, Numbers, SMTT(30)
    <3> QED
      BY <1>3, <3>1
  <2>2. Size \in Nat
    BY <1>1, Numbers
  <2> QED
    BY <2>1, <2>2
<1>8. TypeInv'
  <2>1. handled' \in Seq(Seq(0 .. BUF_SIZE))
    BY <1>4, <1>7 DEF IInv, TypeInv
  <2>2. Done' \in Nat /\ iobyte' \in Nat
    BY <1>1, <1>5, Numbers
  <2>3. stream' \in Seq(0 .. BUF_SIZE) /\ read' \in 0 .. Len(stream')
    BY <1>4 DEF IInv, TypeInv
  <2>4. in_packet_size' \in 0 .. BUF_SIZE /\ saved_packet_size' \in Nat
    BY <1>4, Numbers
  <2> QED
    BY <1>3, <2>1, <2>2, <2>3, <2>4 DEF TypeInv
<1>9. BufferInv'
  BY <1>4 DEF BufferInv
<1>10. Promise!Handle
  <2>1. Promise!Length = Size
    BY <1>1 DEF Promise!Length, Done
  <2>2. Promise!Complete
    <3>1. Done < read /\ Done + Size <= read
      BY <1>1, <1>2, Numbers
    <3> QED
      BY <2>1, <3>1 DEF Promise!Complete, Done
  <2>3. handled' = Append(handled, [i \in 1 .. Size |-> stream[Done + i]])
    BY <1>4, <1>6
  <2> QED
    BY <1>4, <1>5, <2>1, <2>2, <2>3 DEF Promise!Handle, Done
<1> QED
  BY <1>8, <1>9, <1>10 DEF IInv

(* A round that keeps bytes for later changes nothing that was promised. *)
LEMMA KeepStutters ==
  ASSUME IInv, Keep
  PROVE  IInv' /\ UNCHANGED Promise!vars
<1>1. /\ Size = stream[Done + 1] /\ Size \in 0 .. BUF_SIZE
      /\ Done + 1 \in 1 .. read /\ iobyte > 0
  BY SizeIsLength DEF Keep
<1>2. saved_packet_size + iobyte < Size /\ iobyte \in 0 .. iobyte
  BY <1>1, Numbers DEF Keep, Suffices
<1>3. /\ packet_buffer' \in [0 .. BUF_SIZE - 1 -> 0 .. BUF_SIZE]
      /\ \A i \in 0 .. saved_packet_size + iobyte - 1 :
           packet_buffer'[i] = stream[Done + 1 + i]
  <2>1. packet_buffer' = Copied(iobyte)
    BY DEF Keep
  <2>2. saved_packet_size + iobyte <= BUF_SIZE
    BY <1>1, <1>2, Numbers
  <2> QED
    BY <1>2, <2>1, <2>2, CopiedBytes
<1>4. /\ UNCHANGED <<read, stream, handled>>
      /\ iobyte' = 0
      /\ saved_packet_size' = saved_packet_size + iobyte
      /\ in_packet_size' = Size
  BY DEF Keep, Saved
<1>5. Done' = Done
  BY <1>4, Numbers DEF Done
<1>6. TypeInv'
  <2>1. iobyte' \in Nat /\ saved_packet_size' \in Nat /\ Done' \in Nat
    BY <1>4, <1>5, Numbers
  <2>2. /\ stream' \in Seq(0 .. BUF_SIZE) /\ read' \in 0 .. Len(stream')
        /\ handled' \in Seq(Seq(0 .. BUF_SIZE))
    BY <1>4 DEF IInv, TypeInv
  <2>3. in_packet_size' \in 0 .. BUF_SIZE
    BY <1>1, <1>4
  <2> QED
    BY <1>3, <2>1, <2>2, <2>3 DEF TypeInv
<1>7. BufferInv'
  <2>1. saved_packet_size' > 0 /\ in_packet_size' # 0
    BY <1>1, <1>2, <1>4, Numbers
  <2>2. in_packet_size' = stream'[Done' + 1] /\ saved_packet_size' < in_packet_size'
    BY <1>1, <1>2, <1>4, <1>5
  <2>3. \A i \in 0 .. saved_packet_size' - 1 : packet_buffer'[i] = stream'[Done' + 1 + i]
    <3>1. stream' = stream
      BY <1>4
    <3>2. saved_packet_size' = saved_packet_size + iobyte
      BY <1>4
    <3>3. ASSUME NEW i \in 0 .. saved_packet_size' - 1
          PROVE  packet_buffer'[i] = stream'[Done' + 1 + i]
      <4>1. i \in 0 .. saved_packet_size + iobyte - 1
        BY <3>2, <3>3, Numbers
      <4>2. packet_buffer'[i] = stream[Done + 1 + i]
        BY <1>3, <4>1
      <4>3. Done' + 1 + i = Done + 1 + i
        BY <1>5
      <4> QED
        BY <3>1, <4>2, <4>3
    <3> QED
      BY <3>3
  <2>4. saved_packet_size' # 0
    BY <1>1, <1>2, <1>4, Numbers
  <2> QED
    BY <2>1, <2>2, <2>3, <2>4 DEF BufferInv
<1>8. UNCHANGED Promise!vars
  BY <1>4, <1>5 DEF Promise!vars, Done
<1> QED
  BY <1>6, <1>7, <1>8 DEF IInv

(* A receive is an arrival. *)
LEMMA ReceiveArrives ==
  ASSUME IInv, Receive
  PROVE  IInv' /\ Promise!Arrive
<1>1. PICK n \in 1 .. BUF_SIZE :
        iobyte = 0 /\ read + n <= Len(stream) /\ read' = read + n /\ iobyte' = n
  BY DEF Receive
<1>2. UNCHANGED <<stream, packet_buffer, in_packet_size, saved_packet_size, handled>>
  BY DEF Receive
<1>3. Len(stream) \in Nat
  BY DEF IInv, TypeInv
<1>4. Done' = Done /\ read' \in 0 .. Len(stream)
  BY <1>1, <1>2, <1>3, BufferAssumption DEF Done, IInv, TypeInv
<1>5. TypeInv'
  BY <1>1, <1>2, <1>4, BufferAssumption DEF IInv, TypeInv
<1>6. BufferInv'
  BY <1>2, <1>4 DEF IInv, BufferInv
<1>7. Promise!Arrive
  <2>1. n \in 1 .. Len(stream) - read
    BY <1>1, <1>3, BufferAssumption DEF IInv, TypeInv
  <2> QED
    BY <1>1, <1>2, <1>4, <2>1 DEF Promise!Arrive, Done
<1> QED
  BY <1>5, <1>6, <1>7 DEF IInv

LEMMA StutterKeeps ==
  ASSUME IInv, ReceiveFails \/ UNCHANGED vars
  PROVE  IInv' /\ UNCHANGED Promise!vars
  BY DEF ReceiveFails, vars, IInv, TypeInv, BufferInv, Done, Promise!vars

LEMMA InitKeeps ==
  ASSUME Init
  PROVE  IInv /\ Promise!Init
<1>1. TypeInv
  BY BufferAssumption DEF Init, TypeInv, Done
<1>2. BufferInv
  BY DEF Init, BufferInv
<1>3. Promise!Init
  BY DEF Init, Promise!Init
<1> QED
  BY <1>1, <1>2, <1>3 DEF IInv

LEMMA Inductive == Spec => []IInv
<1>1. IInv /\ [Next]_vars => IInv'
  BY FinishHandles, KeepStutters, ReceiveArrives, StutterKeeps DEF Next
<1> QED
  BY <1>1, InitKeeps, PTL DEF Spec

(* ReadPacket implements the reassembly of PacketStream: it starts like it *)
(* and every step is an arrival, the handling of the next packet as it was *)
(* sent, or invisible.                                                     *)
THEOREM ReadPacketAssembles ==
  Spec => Promise!Init /\ [][Promise!Next]_(Promise!vars)
<1>1. Init => Promise!Init
  BY InitKeeps
<1>2. IInv /\ [Next]_vars => [Promise!Next]_(Promise!vars)
  BY FinishHandles, KeepStutters, ReceiveArrives, StutterKeeps
     DEF Next, Promise!Next
<1> QED
  BY <1>1, <1>2, Inductive, PTL DEF Spec

(* Once ReadPacket is through with a receive, every packet that has        *)
(* arrived has been handled.                                               *)
THEOREM NothingIsWithheld == Spec => []NothingWithheld
<1>1. IInv => NothingWithheld
  BY BufferAssumption
     DEF IInv, TypeInv, BufferInv, NothingWithheld, Promise!Complete, Promise!Length, Done
<1> QED
  BY <1>1, Inductive, PTL
=============================================================================
