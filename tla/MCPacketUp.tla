----------------------------- MODULE MCPacketUp -----------------------------
(* Streams of a few packets, with and without repeated POSTs. *)
EXTENDS PacketUp, TLC

\* Packets 0 and 2 are posted twice.
MCRepeats == {<<0, 1>>, <<0, 2>>, <<1, 1>>, <<2, 1>>, <<2, 2>>, <<3, 1>>}

\* Packet 3 is twice the size of the others.
MCSize == [s \in Seqs |-> IF s = 3 THEN 2 ELSE 1]

MCOnce == {<<s, 1>> : s \in Seqs}

=============================================================================
