--------------------------- MODULE ClientAssembly ---------------------------
(***************************************************************************)
(* ReadPacket of the graphical client: what it makes of the bytes of one   *)
(* receive, one step per round of its loop.                                *)
(***************************************************************************)
EXTENDS Integers, Sequences

CONSTANTS
  Streams,   \* byte sequences the server may send: whole packets
  BUF_SIZE   \* length of recv_buffer and of packet_buffer

\* A length is one byte; the buffers hold 1024.
ASSUME BufferAssumption ==
  /\ BUF_SIZE \in Nat \ {0}
  /\ Streams \subseteq Seq(0 .. BUF_SIZE)

VARIABLES
  stream,             \* all the bytes the server sends
  read,               \* how many of them were received
  iobyte,             \* how many of the last receive are left in the loop
  packet_buffer,
  in_packet_size,     \* length of the packet being assembled, 0 if unknown
  saved_packet_size,  \* bytes of it in packet_buffer
  handled,            \* the packets passed to ProcessPacket
  astray              \* the loop runs on an iobyte that no receive has set

vars == <<stream, read, iobyte, packet_buffer, in_packet_size,
          saved_packet_size, handled, astray>>

Init ==
  /\ stream \in Streams
  /\ read = 0
  /\ iobyte = 0
  /\ packet_buffer = [i \in 0 .. BUF_SIZE - 1 |-> 0]
  /\ in_packet_size = 0
  /\ saved_packet_size = 0
  /\ handled = <<>>
  /\ astray = FALSE

\* WSARecv
Receive ==
  /\ ~ astray
  /\ iobyte = 0
  /\ \E n \in 1 .. BUF_SIZE :
       /\ read + n <= Len(stream)
       /\ read' = read + n
       /\ iobyte' = n
  /\ UNCHANGED <<stream, packet_buffer, in_packet_size, saved_packet_size, handled, astray>>

\* A WSARecv that fails prints its error and leaves iobyte as the stack had
\* it.  If that is 0 the loop ends at once; if not, it takes what an earlier
\* receive left in recv_buffer, and what lies behind it, for new bytes.
\* Nothing is said of the client from there on.
ReceiveFails ==
  /\ ~ astray
  /\ iobyte = 0
  /\ astray' \in BOOLEAN
  /\ UNCHANGED <<stream, read, iobyte, packet_buffer, in_packet_size,
                 saved_packet_size, handled>>

\* in_packet_size after the first line of the loop, which looks at *ptr
Size == IF in_packet_size = 0 THEN stream[read - iobyte + 1] ELSE in_packet_size

\* memcpy(packet_buffer + saved_packet_size, ptr, n)
Copied(n) ==
  [i \in 0 .. BUF_SIZE - 1 |->
     IF saved_packet_size <= i /\ i < saved_packet_size + n
       THEN stream[read - iobyte + 1 + i - saved_packet_size]
       ELSE packet_buffer[i]]

\* Faulty variant of the next definition: the last byte is waited for twice.
Exceeds(size) == iobyte + saved_packet_size > size

Suffices(size) == iobyte + saved_packet_size >= size

\* Faulty variant of the next definition: what was saved before is forgotten.
Unsaved(n) == saved_packet_size

Saved(n) == saved_packet_size + n

Finish ==
  LET required == Size - saved_packet_size
  IN  /\ iobyte > 0
      /\ Suffices(Size)
      /\ packet_buffer' = Copied(required)
      /\ handled' = Append(handled, [i \in 1 .. Size |-> packet_buffer'[i - 1]])
      /\ iobyte' = iobyte - required
      /\ in_packet_size' = 0
      /\ saved_packet_size' = 0
      /\ UNCHANGED <<stream, read, astray>>

Keep ==
  /\ iobyte > 0
  /\ ~ Suffices(Size)
  /\ packet_buffer' = Copied(iobyte)
  /\ in_packet_size' = Size
  /\ saved_packet_size' = Saved(iobyte)
  /\ iobyte' = 0
  /\ UNCHANGED <<stream, read, handled, astray>>

Next == Receive \/ ReceiveFails \/ Finish \/ Keep

\* The loop is the client's own thread: it goes on.
Spec == Init /\ [][Next]_vars /\ WF_vars(Finish \/ Keep)

-----------------------------------------------------------------------------

\* The bytes in the buffer are not handled yet.
Promise == INSTANCE PacketStream WITH
  arrived <- read,
  done <- read - iobyte - saved_packet_size

(* However TCP cuts the stream, ReadPacket hands every packet to           *)
(* ProcessPacket once, in order, and with the bytes it was sent with, up   *)
(* to a receive that fails.                                                *)
Assembles == Promise!Spec

(* No packet that has arrived is left lying in the buffer until more bytes *)
(* come: the client would display it one packet late.                      *)
NothingWithheld == iobyte = 0 => ~ Promise!Complete
=============================================================================
