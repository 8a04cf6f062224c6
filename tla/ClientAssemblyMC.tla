-------------------------- MODULE ClientAssemblyMC --------------------------
(* Streams of up to three packets of two to four bytes; a byte that is not *)
(* the first can be taken for a length.  Receives of up to eight bytes: a  *)
(* fragment, several packets, or both.                                     *)
EXTENDS ClientAssembly, SequencesExt

Packet == {<<2, 2>>, <<3, 1, 0>>, <<4, 3, 1, 2>>}

MCStreams == {FlattenSeq(q) : q \in SeqOf(Packet, 3)}
=============================================================================
