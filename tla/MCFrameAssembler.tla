--------------------------- MODULE MCFrameAssembler ---------------------------
(***************************************************************************)
(* Any datagram in any order: the assembler alone, against a network that  *)
(* loses, repeats, reorders and truncates at will.                         *)
(***************************************************************************)
EXTENDS FrameAssembler

CONSTANT
    b,           \* the one byte value: contents do not matter here
    MaxCount,    \* bound on the counters of stats
    MaxRun       \* bound on the packets of a partial frame: empty ones never fill it

\* Empty, short, full and oversized payloads of a three-byte frame.
MCByte == {b}
MCPayload == {<<>>, <<b>>, <<b, b>>, <<b, b, b>>, <<b, b, b, b>>}

Bounded ==
    /\ stats.frames < MaxCount
    /\ stats.lost_packets < MaxCount
    /\ stats.bad_packets < MaxCount
    /\ Len(run) < MaxRun

MCNext == Bounded /\ AssemblerNext

MCSpec == AssemblerInit /\ [][MCNext]_assemblerVars
=============================================================================
