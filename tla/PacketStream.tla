---------------------------- MODULE PacketStream ----------------------------
(***************************************************************************)
(* What reassembly promises.  A packet starts with its length; TCP hands   *)
(* the bytes over in pieces of any size; the packets are handled one after *)
(* the other, each exactly as it was sent and none before it is complete.  *)
(***************************************************************************)
EXTENDS Integers, Sequences

CONSTANT Streams   \* byte sequences a peer may send: whole packets

VARIABLES
  stream,   \* all the bytes the peer sends
  arrived,  \* how many of them have arrived
  done,     \* how many of them belong to handled packets
  handled   \* the packets handled

vars == <<stream, arrived, done, handled>>

Init ==
  /\ stream \in Streams
  /\ arrived = 0
  /\ done = 0
  /\ handled = <<>>

Arrive ==
  /\ \E n \in 1 .. Len(stream) - arrived : arrived' = arrived + n
  /\ UNCHANGED <<stream, done, handled>>

\* The length of the next packet, once its first byte has arrived.
Length == stream[done + 1]

Complete == done < arrived /\ done + Length <= arrived

Handle ==
  /\ Complete
  /\ handled' = Append(handled, [i \in 1 .. Length |-> stream[done + i]])
  /\ done' = done + Length
  /\ UNCHANGED <<stream, arrived>>

Next == Arrive \/ Handle

Spec == Init /\ [][Next]_vars /\ WF_vars(Handle)
=============================================================================
