--------------------------- MODULE ServerAssembly ---------------------------
(***************************************************************************)
(* The EV_RECV branch of worker_thread: what both servers make of the      *)
(* bytes of one receive, one step per round of the loop.                   *)
(***************************************************************************)
EXTENDS Integers, Sequences

CONSTANTS
  Streams,     \* byte sequences a client may send
  HALF,        \* the first byte that is a negative char (128)
  MAX_BUFFER,  \* length of messageBuffer and of packet_buffer
  Struct       \* per type, the size of the struct process_packet takes a
               \* packet for; 2 where it looks at the type alone

Byte == 0 .. 2 * HALF - 1

\* The buffers hold 1024 bytes: every length that a char can have.
ASSUME BufferAssumption ==
  /\ HALF \in Nat \ {0}
  /\ MAX_BUFFER \in Nat
  /\ HALF <= MAX_BUFFER
  /\ Streams \subseteq Seq(Byte)
  /\ Struct \in [Byte -> 2 .. MAX_BUFFER]

VARIABLES
  stream,         \* all the bytes the client sends
  read,           \* how many of them were received
  rest,           \* how many of the last receive are left in the loop
  packet_buffer, prev_size,   \* as in SOCKETINFO
  packet_size,    \* the loop's packet_size
  state,          \* "serving", "spinning" in the loop, or "crashed"
  handled,        \* what process_packet was given to read
  sizes,          \* observer: the lengths those packets were said to have
  whole           \* observer: every receive so far ended where a packet ends

vars == <<stream, read, rest, packet_buffer, prev_size, packet_size, state,
          handled, sizes, whole>>

Init ==
  /\ stream \in Streams
  /\ read = 0
  /\ rest = 0
  /\ packet_buffer = [i \in 0 .. MAX_BUFFER - 1 |-> 0]
  /\ prev_size = 0
  /\ packet_size = 0
  /\ state = "serving"
  /\ handled = <<>>
  /\ sizes = <<>>
  /\ whole = TRUE

\* For each p, the packets that the bytes p + 1 .. n consist of, and the
\* bytes of a last packet that is not complete.
Parts(s, n) ==
  LET from[p \in 0 .. n] ==
        IF p = n THEN <<>>
        ELSE IF s[p + 1] \in 1 .. n - p
          THEN <<SubSeq(s, p + 1, p + s[p + 1])>> \o from[p + s[p + 1]]
        ELSE <<SubSeq(s, p + 1, n)>>
  IN  from

Packets(n) == Parts(stream, n)[0]

\* A packet as the protocol has it: the struct of its type, which begins
\* with its own size.
IsPacket(p) ==
  /\ Len(p) \in 2 .. HALF - 1
  /\ p[1] = Len(p)
  /\ Struct[p[2]] = Len(p)

Whole(packets) == \A k \in DOMAIN packets : IsPacket(packets[k])

\* Does a packet of the stream end after n bytes?
Boundary(n) == Whole(Packets(n))

\* A byte as a char: 128 and more are negative.
Signed(b) == IF b < HALF THEN b ELSE b - 2 * HALF

\* do_recv, and the head of the EV_RECV branch
Receive ==
  /\ state = "serving"
  /\ rest = 0
  /\ \E n \in 1 .. MAX_BUFFER :
       /\ read + n <= Len(stream)
       /\ read' = read + n
       /\ whole' = (whole /\ Boundary(read'))
       /\ rest' = n
  /\ packet_size' = IF prev_size > 0 THEN Signed(packet_buffer[0]) ELSE 0
  /\ UNCHANGED <<stream, packet_buffer, prev_size, state, handled, sizes>>

Size == IF packet_size = 0 THEN Signed(stream[read - rest + 1]) ELSE packet_size

\* Faulty variant of the next definition: the packet is handled before the
\* memcpy.
NotCopied(n) == packet_buffer

\* memcpy(packet_buffer + prev_size, ptr, n)
Copied(n) ==
  [i \in 0 .. MAX_BUFFER - 1 |->
     IF prev_size <= i /\ i < prev_size + n
       THEN stream[read - rest + 1 + i - prev_size]
       ELSE packet_buffer[i]]

\* process_packet looks at the type and reads the struct of that type, with
\* no regard to the length.
Given(buffer) == [i \in 1 .. Struct[buffer[1]] |-> buffer[i - 1]]

\* Faulty variant of the next definition: `packet_size = 0' is lost.
SameSize(size) == size

NextSize(size) == 0

\* Faulty variant of the next definition: `rest' is off by one.
LeftOver(n) == rest - n + 1

Left(n) == rest - n

\* prev_size never leaves 0: with a length of 0 neither ptr nor rest moves,
\* and the loop hands the same bytes to process_packet for ever.
Finish ==
  LET required == Size - prev_size
  IN  /\ state = "serving"
      /\ rest > 0
      /\ required \in 0 .. rest
      /\ packet_buffer' = Copied(required)
      /\ handled' = Append(handled, Given(packet_buffer'))
      /\ sizes' = Append(sizes, Size)
      /\ rest' = Left(required)
      /\ packet_size' = NextSize(Size)
      /\ prev_size' = 0
      /\ state' = IF required = 0 THEN "spinning" ELSE state
      /\ UNCHANGED <<stream, read, whole>>

\* A negative `required' passes the test against rest, and is the size of
\* the memcpy: as a size_t, far more than there is memory.
Crash ==
  /\ state = "serving"
  /\ rest > 0
  /\ Size - prev_size < 0
  /\ state' = "crashed"
  /\ UNCHANGED <<stream, read, rest, packet_buffer, prev_size, packet_size,
                 handled, sizes, whole>>

\* rest is set to 0 before it is added to prev_size.
Keep ==
  /\ state = "serving"
  /\ rest > 0
  /\ Size - prev_size > rest
  /\ packet_buffer' = Copied(rest)
  /\ packet_size' = Size
  /\ rest' = 0
  /\ prev_size' = prev_size + rest'
  /\ UNCHANGED <<stream, read, state, handled, sizes, whole>>

Next == Receive \/ Finish \/ Crash \/ Keep

Spec == Init /\ [][Next]_vars

-----------------------------------------------------------------------------

(* As long as no receive has ended inside a packet, the receives are taken *)
(* apart into the packets that were sent, however many a receive holds.    *)
TakenApart == whole => handled = Packets(read - rest)

(* However TCP cuts the stream, and although bytes are lost where a receive *)
(* ends inside a packet, a length that covers the struct of the type makes *)
(* process_packet read bytes that followed each other in the stream.  Only *)
(* a length that is too short for its struct gives it what earlier packets *)
(* or receives left in packet_buffer.                                      *)
NoMixture ==
  \A k \in DOMAIN handled : sizes[k] >= Len(handled[k]) =>
    \E i \in 0 .. read - Len(handled[k]) :
      handled[k] = SubSeq(stream, i + 1, i + Len(handled[k]))

(* A byte of a packet's middle can be taken for a length, and one that is  *)
(* 0 or negative ends the worker or the server: but only after a receive   *)
(* has ended inside a packet, however many packets the receives hold and   *)
(* whatever bytes are in them.                                             *)
ServesWhileWhole == whole => state = "serving"
=============================================================================
