------------------------------- MODULE AdcStream -------------------------------
(***************************************************************************)
(* The image path end to end: the packetizer of LAN_TX_FREAME.v, the wire  *)
(* and the socket queue, and Dl2UdpReceiver feeding the frame assembler.   *)
(*                                                                         *)
(* A payload byte is the sample it belongs to, so that a frame shows which *)
(* samples of which scan it was put together from.                         *)
(***************************************************************************)
EXTENDS FrameAssembler, SequencesExt

CONSTANTS
    FrameBytes,     \* all_image_point: bytes of one FPGA frame
    PacketBytes,    \* single_frame_count: payload bytes of a full packet
    MaxScans,       \* bound: scans started
    MaxPackets,     \* bound: packets sent per scan
    MaxWire         \* bound: datagrams on the wire and in the socket queue

\* A byte is one of the samples that MaxScans scans can send; the numbers of a scan
\* do not reach 2^48.
ASSUME StreamAssumption ==
    /\ FrameBytes \in Nat \ {0}
    /\ PacketBytes \in Nat \ {0}
    /\ MaxPackets \in Nat /\ MaxScans \in Nat
    /\ MaxPackets + 1 < SeqSpace
    /\ Byte = [scan : 1 .. MaxScans, at : 1 .. MaxPackets * PacketBytes]
    /\ None \notin FrameModel

VARIABLES
    scanState,      \* scan_state: the FPGA is scanning
    packageCount,   \* package_count: the number of the next packet
    txByteCount,    \* tx_byte_count: bytes of the current frame already sent
    wire,           \* AA55 datagrams sent and not yet read by the host
    receiving,      \* the receiver's socket is bound
    scan,           \* history: how many scans were started
    sent,           \* history: bytes of the current scan already sent
    damaged         \* history: the scans of which samples were lost

fpgaVars == <<scanState, packageCount, txByteCount, scan, sent>>
streamVars == <<scanState, packageCount, txByteCount, wire, receiving, scan, sent, damaged>>
vars == <<assemblerVars, streamVars>>

Min2(x, y) == IF x < y THEN x ELSE y

RemainByteCount == FrameBytes - txByteCount

\* A full packet, or the rest of the frame when that is less.
PayloadBytes == Min2(RemainByteCount, PacketBytes)

Samples(n) == [i \in 1 .. n |-> [scan |-> scan, at |-> sent + i]]

Init ==
    /\ AssemblerInit
    /\ scanState = FALSE
    /\ packageCount = 1
    /\ txByteCount = 0
    /\ wire = <<>>
    /\ receiving = FALSE
    /\ scan = 0
    /\ sent = 0
    /\ damaged = {}

StartScan ==
    /\ ~scanState
    /\ scan < MaxScans
    /\ scanState' = TRUE
    /\ scan' = scan + 1
    /\ sent' = 0
    /\ UNCHANGED <<assemblerVars, packageCount, txByteCount, wire, receiving, damaged>>

\* Variant: the packet number survives the end of the scan.
StopScanKeepNumber ==
    /\ scanState
    /\ scanState' = FALSE
    /\ txByteCount' = 0
    /\ UNCHANGED <<assemblerVars, packageCount, wire, receiving, scan, sent, damaged>>

\* scan_state = 0 in state 0 of the packetizer: counters restart, data is gone.
StopScan ==
    /\ scanState
    /\ scanState' = FALSE
    /\ packageCount' = 1
    /\ txByteCount' = 0
    /\ UNCHANGED <<assemblerVars, wire, receiving, scan, sent, damaged>>

\* Variant: the last packet of a frame does not restart the byte count.
SendPacketNoWrap ==
    /\ scanState
    /\ packageCount <= MaxPackets
    /\ Len(wire) < MaxWire
    /\ wire' = Append(wire, [sequence |-> packageCount, payload |-> Samples(PayloadBytes)])
    /\ packageCount' = NextSeq(packageCount)
    /\ txByteCount' = txByteCount + PacketBytes
    /\ sent' = sent + PayloadBytes
    /\ UNCHANGED <<assemblerVars, scanState, receiving, scan, damaged>>

\* One packet through states 0-1-2-3; the counter goes out before it steps.
SendPacket ==
    /\ scanState
    /\ packageCount <= MaxPackets
    /\ Len(wire) < MaxWire
    /\ wire' = Append(wire, [sequence |-> packageCount, payload |-> Samples(PayloadBytes)])
    /\ packageCount' = NextSeq(packageCount)
    /\ txByteCount' = IF RemainByteCount > PacketBytes THEN txByteCount + PacketBytes ELSE 0
    /\ sent' = sent + PayloadBytes
    /\ UNCHANGED <<assemblerVars, scanState, receiving, scan, damaged>>

ScanOf(p) == p.payload[1].scan

ScansOf(s) == {s[i].scan : i \in 1 .. Len(s)}

\* A datagram is lost on the way or for want of room in the socket queue.
LosePacket ==
    \E i \in 1 .. Len(wire) :
        /\ wire' = RemoveAt(wire, i)
        /\ damaged' = damaged \cup {ScanOf(wire[i])}
        /\ UNCHANGED <<assemblerVars, fpgaVars, receiving>>

\* The receiver's socket is bound and a new assembler made; the panel keeps
\* showing the last frame.
StartReceiving ==
    /\ ~receiving
    /\ receiving' = TRUE
    /\ buffer' = <<>>
    /\ firstSequence' = None
    /\ expectedSequence' = None
    /\ run' = <<>>
    /\ stats' = [frames |-> 0, lost_packets |-> 0, bad_packets |-> 0, bytes_in_frame |-> 0]
    /\ UNCHANGED <<frame, fpgaVars, wire, damaged>>

\* Dl2UdpReceiver.stop(): the socket goes, with whatever was queued in it; what
\* was still on the wire finds the port closed or the next receiver.
StopReceiving ==
    /\ receiving
    /\ receiving' = FALSE
    /\ Reset
    /\ \E n \in 0 .. Len(wire) :
        /\ wire' = SubSeq(wire, n + 1, Len(wire))
        /\ damaged' = damaged \cup ScansOf(buffer) \cup {ScanOf(wire[i]) : i \in 1 .. n}
    /\ UNCHANGED fpgaVars

\* One turn of the loop of get_frame.
Deliver ==
    /\ wire # <<>>
    /\ receiving
    /\ AddAdc(Head(wire))
    /\ wire' = Tail(wire)
    /\ UNCHANGED <<fpgaVars, receiving, damaged>>

\* Nobody is listening on the port.
Unheard ==
    /\ wire # <<>>
    /\ ~receiving
    /\ wire' = Tail(wire)
    /\ damaged' = damaged \cup {ScanOf(Head(wire))}
    /\ UNCHANGED <<assemblerVars, fpgaVars, receiving>>

Next ==
    \/ StartScan
    \/ StopScan
    \/ SendPacket
    \/ LosePacket
    \/ StartReceiving
    \/ StopReceiving
    \/ Deliver
    \/ Unheard

Spec == Init /\ [][Next]_vars
-----------------------------------------------------------------------------
TypeOK ==
    /\ AssemblerTypeOK
    /\ scanState \in BOOLEAN
    /\ packageCount \in SeqNo
    /\ txByteCount \in 0 .. FrameBytes - 1
    /\ wire \in Seq([sequence : SeqNo, payload : Seq(Byte)])
    /\ receiving \in BOOLEAN
    /\ scan \in 0 .. MaxScans
    /\ sent \in Nat
    /\ damaged \subseteq 1 .. MaxScans

Follows(x, y) == y.scan = x.scan /\ y.at = x.at + 1

Unbroken(s) == \A i \in 1 .. Len(s) - 1 : Follows(s[i], s[i + 1])

\* A frame put together from a single scan has no hole, no sample twice and none
\* out of place, whatever was lost, however often the receiver was restarted.
OneScanFrameIsUnbroken ==
    frame # None /\ ScansOf(frame.payload) = {frame.payload[1].scan} => Unbroken(frame.payload)

\* As long as every datagram of a scan arrives, each frame the host shows of it
\* is exactly one frame of the FPGA: it begins where a frame of the scan begins.
UndamagedFrameIsAligned ==
    frame # None /\ ScansOf(frame.payload) \cap damaged = {} =>
        /\ Unbroken(frame.payload)
        /\ frame.payload[1].at % FrameBytes = 1 % FrameBytes

\* The number a frame begins with tells its place: packets of a scan are numbered
\* from 1, so a frame of one scan is aligned exactly when its first number is one
\* with which the FPGA begins a frame.  The host never makes this check.
PacketsPerFrame == (FrameBytes + PacketBytes - 1) \div PacketBytes

FirstNumberTellsAlignment ==
    frame # None /\ Unbroken(frame.payload) =>
        ((frame.payload[1].at % FrameBytes = 1 % FrameBytes)
            <=> (frame.sequence_start % PacketsPerFrame = 1 % PacketsPerFrame))

\* tests/test_dl2_protocol.py: a gap in the sequence drops the partial frame.  No
\* frame is spliced from samples that do not follow each other.
GapDropsPartialFrame == frame # None => Unbroken(frame.payload)

\* The frames the host shows are an ordered selection of the samples taken.
NewestFrame ==
    IF frame = None THEN None
    ELSE [first |-> frame.payload[1], last |-> frame.payload[Len(frame.payload)]]

Source == INSTANCE FrameSource WITH newest <- NewestFrame

FramesInOrder == Source!Spec
=============================================================================
