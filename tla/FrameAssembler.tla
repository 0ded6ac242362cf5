---------------------------- MODULE FrameAssembler ----------------------------
(***************************************************************************)
(* Dl2FrameAssembler (fpga_host/core/data/dl2_protocol.py): the host       *)
(* concatenates the payloads of consecutive AA55 packets until they fill   *)
(* exactly one frame.  The stream carries no frame marker, so the only     *)
(* evidence the assembler has is the 48-bit packet number.                 *)
(***************************************************************************)
EXTENDS Naturals, Sequences

CONSTANTS
    ExpectedBytes,   \* rows * cols * channel_count * 2
    SeqSpace,          \* packet numbers live in 0..SeqSpace-1 (2^48 in the code)
    Byte,            \* the values a payload byte can have
    Payload,         \* the payloads a packet can carry
    None             \* Python's None

ASSUME AssemblerAssumption ==
    /\ ExpectedBytes \in Nat \ {0}
    /\ SeqSpace \in Nat \ {0}
    /\ Payload \subseteq Seq(Byte)
    /\ None \notin 0 .. SeqSpace - 1

VARIABLES
    buffer,             \* _buffer
    firstSequence,      \* _first_sequence
    expectedSequence,   \* _expected_sequence
    stats,              \* the counters of Dl2FrameStats the properties read
    frame,              \* the FrameModel returned last, None before the first
    run                 \* history: the numbers of the packets in buffer

assemblerVars == <<buffer, firstSequence, expectedSequence, stats, frame, run>>

SeqNo == 0 .. SeqSpace - 1

\* Variant: the incremented number is not masked.
NextSeqUnmasked(s) == s + 1

\* & 0xFFFFFFFFFFFF of the incremented number.
NextSeq(s) == (s + 1) % SeqSpace

\* The AA55 packets; a CC55 line packet leaves all this state alone.
AdcPacket == [sequence : SeqNo, payload : Payload]

\* FrameModel, reduced to what the assembler decides; members is history.
FrameModel == [payload : Seq(Byte), sequence_start : SeqNo, sequence_end : SeqNo,
               dropped_packets : Nat, members : Seq(SeqNo)]

Stats == [frames : Nat, lost_packets : Nat, bad_packets : Nat, bytes_in_frame : Nat]

AssemblerInit ==
    /\ buffer = <<>>
    /\ firstSequence = None
    /\ expectedSequence = None
    /\ stats = [frames |-> 0, lost_packets |-> 0, bad_packets |-> 0, bytes_in_frame |-> 0]
    /\ frame = None
    /\ run = <<>>

(***************************************************************************)
(* The decisions add_packet takes on an ADC packet.                        *)
(***************************************************************************)
\* Variant: only a number behind the expected one is noticed.
GapBehind(p) == expectedSequence # None /\ p.sequence < expectedSequence

Gap(p) == expectedSequence # None /\ p.sequence # expectedSequence

\* Variant: a gap is counted, but the partial frame is kept.
KeptAcrossGap(p) == buffer

Kept(p) == IF Gap(p) THEN <<>> ELSE buffer

Overflow(p) == Len(Kept(p)) + Len(p.payload) > ExpectedBytes

Restarts(p) == Gap(p) \/ Overflow(p) \/ firstSequence = None

First(p) == IF Restarts(p) THEN p.sequence ELSE firstSequence

\* Variant: the payload goes in front of the bytes held.
FilledInFront(p) == p.payload \o (IF Overflow(p) THEN <<>> ELSE Kept(p))

Filled(p) == (IF Overflow(p) THEN <<>> ELSE Kept(p)) \o p.payload

Run(p) == IF Restarts(p) THEN <<p.sequence>> ELSE Append(run, p.sequence)

Lost(p) == stats.lost_packets + (IF Gap(p) THEN 1 ELSE 0)

Bad(p) == stats.bad_packets + (IF Overflow(p) THEN 1 ELSE 0)

\* The packet does not complete a frame: it is kept.
Accumulate(p) ==
    /\ Len(Filled(p)) # ExpectedBytes
    /\ buffer' = Filled(p)
    /\ firstSequence' = First(p)
    /\ run' = Run(p)
    /\ stats' = [stats EXCEPT !.lost_packets = Lost(p), !.bad_packets = Bad(p),
                              !.bytes_in_frame = Len(Filled(p))]
    /\ UNCHANGED frame

\* Variant: a completed frame leaves its first number behind.
CompleteKeepFirst(p) ==
    /\ Len(Filled(p)) = ExpectedBytes
    /\ frame' = [payload |-> Filled(p), sequence_start |-> First(p),
                 sequence_end |-> p.sequence, dropped_packets |-> Lost(p),
                 members |-> Run(p)]
    /\ buffer' = <<>>
    /\ run' = <<>>
    /\ stats' = [stats EXCEPT !.lost_packets = Lost(p), !.bad_packets = Bad(p),
                              !.frames = @ + 1, !.bytes_in_frame = 0]
    /\ UNCHANGED firstSequence

\* The packet completes a frame, which is returned and leaves the assembler empty.
Complete(p) ==
    /\ Len(Filled(p)) = ExpectedBytes
    /\ frame' = [payload |-> Filled(p), sequence_start |-> First(p),
                 sequence_end |-> p.sequence, dropped_packets |-> Lost(p),
                 members |-> Run(p)]
    /\ buffer' = <<>>
    /\ firstSequence' = None
    /\ run' = <<>>
    /\ stats' = [stats EXCEPT !.lost_packets = Lost(p), !.bad_packets = Bad(p),
                              !.frames = @ + 1, !.bytes_in_frame = 0]

AddAdc(p) ==
    /\ expectedSequence' = NextSeq(p.sequence)
    /\ Accumulate(p) \/ Complete(p)

\* Dl2ProtocolError in parse_dl2_packet: the receiver counts the datagram.
AddMalformed ==
    /\ stats' = [stats EXCEPT !.bad_packets = @ + 1]
    /\ UNCHANGED <<buffer, firstSequence, expectedSequence, frame, run>>

\* Variant: the counters go with the partial frame.
ResetAll ==
    /\ buffer' = <<>>
    /\ firstSequence' = None
    /\ expectedSequence' = None
    /\ run' = <<>>
    /\ stats' = [frames |-> 0, lost_packets |-> 0, bad_packets |-> 0, bytes_in_frame |-> 0]
    /\ UNCHANGED frame

\* Dl2UdpReceiver.stop(): the partial frame goes, the counters stay.
Reset ==
    /\ buffer' = <<>>
    /\ firstSequence' = None
    /\ expectedSequence' = None
    /\ run' = <<>>
    /\ stats' = [stats EXCEPT !.bytes_in_frame = 0]
    /\ UNCHANGED frame

AssemblerNext ==
    \/ \E p \in AdcPacket : AddAdc(p)
    \/ AddMalformed
    \/ Reset

AssemblerSpec == AssemblerInit /\ [][AssemblerNext]_assemblerVars
-----------------------------------------------------------------------------
AssemblerTypeOK ==
    /\ buffer \in Seq(Byte)
    /\ firstSequence \in SeqNo \cup {None}
    /\ expectedSequence \in SeqNo \cup {None}
    /\ stats \in Stats
    /\ frame \in FrameModel \cup {None}
    /\ run \in Seq(SeqNo)

\* A sequence of packet numbers without a hole or a repetition.
Consecutive(s) == \A i \in 1 .. Len(s) - 1 : s[i + 1] = NextSeq(s[i])

Spans(s, first, last) ==
    /\ s # <<>>
    /\ s[1] = first
    /\ s[Len(s)] = last
    /\ Consecutive(s)

\* Whatever is lost, repeated or reordered on the way, a returned frame has
\* exactly the size of a frame, is made of consecutively numbered packets, and
\* the range sequence_start..sequence_end it reports is that of those packets.
FrameIsOneRun ==
    frame # None =>
        /\ Len(frame.payload) = ExpectedBytes
        /\ Spans(frame.members, frame.sequence_start, frame.sequence_end)

\* The partial frame is an unbroken run that ends just before the number the
\* assembler waits for; nothing is left over when no packet has been kept, and
\* the progress shown to the user is the number of bytes held.
PartialIsOneRun ==
    /\ firstSequence = None <=> run = <<>>
    /\ run = <<>> => buffer = <<>>
    /\ run # <<>> => /\ expectedSequence # None
                     /\ Spans(run, firstSequence, run[Len(run)])
                     /\ expectedSequence = NextSeq(run[Len(run)])
    /\ stats.bytes_in_frame = Len(buffer)

\* The frame counter steps exactly when a frame is returned: a step leaves both alone, or
\* adds one to the counter and returns a frame that ends with the packet just taken, took
\* all the bytes held and reports the losses counted so far, which never go back.
FramesAreCounted ==
    [][ /\ \/ /\ stats'.frames = stats.frames
              /\ frame' = frame
           \/ /\ stats'.frames = stats.frames + 1
              /\ frame' \in FrameModel
              /\ expectedSequence' = NextSeq(frame'.sequence_end)
              /\ buffer' = <<>>
              /\ frame'.dropped_packets = stats'.lost_packets
        /\ stats'.lost_packets >= stats.lost_packets ]_assemblerVars
=============================================================================
