-------------------------- MODULE ServerAssemblyMC --------------------------
(* Streams of up to three packets of two to four bytes in an alphabet of   *)
(* sixteen, eight of them negative; among the bytes behind the type are 0, *)
(* lengths, and a negative one.  Receives of up to eight bytes: a          *)
(* fragment, several packets, or both.                                     *)
EXTENDS ServerAssembly, SequencesExt

Packet == {<<2, 2>>, <<3, 1, 0>>, <<3, 1, 3>>, <<4, 3, 12, 1>>}

MCStreams == {FlattenSeq(q) : q \in SeqOf(Packet, 3)}

\* The structs of the three types; of any other only the type is read.
MCStruct == [b \in Byte |-> CASE b = 1 -> 3 [] b = 3 -> 4 [] OTHER -> 2]
=============================================================================
