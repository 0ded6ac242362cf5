------------------------------- MODULE PacketAudit -------------------------------
(***************************************************************************)
(* The audit of a packet capture (packet_audit_lib.py): the capture file   *)
(* is read, control packets are decoded, and what was sent is compared     *)
(* with the plan of the host's dry run.                                    *)
(***************************************************************************)
EXTENDS Naturals, Sequences, SequencesExt

CONSTANTS
    ControlPort, FpgaIp,    \* the traffic that is audited
    ProfileFields,          \* register -> set of <<lowest bit, width>>
    Reserved,               \* register -> reserved bits that are checked
    NonZero,                \* register -> set of the fields with a minimum of 1
    ReadOnly, WriteOnly,    \* registers
    ScanAddress,            \* audit.scan_control_address
    Parameters,             \* audit.parameter_addresses
    EnableAddress, RequiredPrior,   \* audit.enable_dependencies, of which there is one
    Unreadable,             \* an exception of the reader
    None

Known == DOMAIN ProfileFields

BitsOf(f) == f[1] .. f[1] + f[2] - 1

\* validate_profile: fields fit in 32 bits and do not overlap.
ProfileValid ==
    \A a \in Known : \A f \in ProfileFields[a] :
        /\ f[2] > 0 /\ f[1] + f[2] <= 32
        /\ \A g \in ProfileFields[a] \ {f} : BitsOf(f) \cap BitsOf(g) = {}
-----------------------------------------------------------------------------
(***************************************************************************)
(* Reading the capture.  A file is a sequence of blocks and what the       *)
(* capture tool was writing when it ended: nothing, the head of a block    *)
(* (tail = "head") or more of it (tail = "body").                          *)
(***************************************************************************)
PacketBlocks(file) == SelectSeq(file.blocks, LAMBDA b : b.type = "packet")

\* _read_pcap: one link type for the file; a torn packet is refused, a torn header not seen.
ReadPcap(file) ==
    IF file.tail = "body" THEN Unreadable
    ELSE LET ps == PacketBlocks(file)
         IN  [i \in 1 .. Len(ps) |-> [number |-> i, linktype |-> file.linktype, frame |-> ps[i].frame]]

\* One block of _read_pcapng.
ReadBlock(s, b) ==
    CASE s = Unreadable -> s
      [] b.type = "section" -> [s EXCEPT !.interfaces = <<>>]
      [] b.type = "interface" -> [s EXCEPT !.interfaces = Append(@, b.linktype)]
      [] b.type = "packet" /\ b.interface > Len(s.interfaces) -> Unreadable
      [] OTHER -> [s EXCEPT !.frames = Append(@, [number |-> Len(@) + 1, frame |-> b.frame,
                                                  linktype |-> s.interfaces[b.interface]])]

ReadPcapng(file) ==
    LET s == FoldLeft(ReadBlock, [interfaces |-> <<>>, frames |-> <<>>], file.blocks)
    IN  IF file.tail = "body" \/ s = Unreadable THEN Unreadable ELSE s.frames

ReadCapture(file) == IF file.format = "pcapng" THEN ReadPcapng(file) ELSE ReadPcap(file)

\* _parse_network_frame: not UDP, or not of this link type, and there is no packet.
\* A frame the tool cut short has a shorter payload.
ParseNetworkFrame(f) ==
    IF f.frame.linktype # f.linktype \/ ~f.frame.udp THEN None
    ELSE [number |-> f.number, src |-> f.frame.src, dst |-> f.frame.dst, ports |-> f.frame.ports,
          payload |-> [f.frame.payload EXCEPT !.length = IF f.frame.kept < @ THEN f.frame.kept ELSE @]]

Relevant(p) == p # None /\ FpgaIp \in {p.src, p.dst} /\ ControlPort \in p.ports

\* extract_udp_packets with the default ports of run-audit.
ExtractUdpPackets(frames) ==
    SelectSeq([i \in 1 .. Len(frames) |-> ParseNetworkFrame(frames[i])], Relevant)
-----------------------------------------------------------------------------
(***************************************************************************)
(* decode_packet.                                                          *)
(***************************************************************************)
PayloadLength == [WRITE |-> 14, READ |-> 10, READ_RESPONSE |-> 14]

Commands == DOMAIN PayloadLength

\* _decode_register, as far as it warns.
RegisterWarns(a, v) ==
    \/ v \cap Reserved[a] # {}
    \/ \E f \in NonZero[a] : v \cap BitsOf(f) = {}

Malformed(d) ==
    \/ d.length < 8
    \/ ~d.magic
    \/ d.command \notin Commands
    \/ d.command \in Commands /\ PayloadLength[d.command] # d.length
    \/ d.command \in Commands /\ PayloadLength[d.command] # d.declared + 8
    \/ d.declared # d.length - 8
    \/ d.length >= 10 /\ d.command = "WRITE" /\ d.address \in ReadOnly

HasValue(d) == d.length >= 14 /\ d.command \in {"WRITE", "READ_RESPONSE"}

Suspicious(d) ==
    /\ d.length >= 10
    /\ \/ d.address \notin Known
       \/ d.command \in {"READ", "READ_RESPONSE"} /\ d.address \in WriteOnly
       \/ HasValue(d) /\ d.address \in Known /\ RegisterWarns(d.address, d.value)

DecodePacket(p) ==
    [number |-> p.number,
     command |-> IF p.payload.length < 8 THEN None ELSE p.payload.command,
     address |-> IF p.payload.length < 10 THEN None ELSE p.payload.address,
     value |-> IF HasValue(p.payload) THEN p.payload.value ELSE None,
     error |-> Malformed(p.payload),
     warning |-> p.payload.length >= 8 /\ Suspicious(p.payload)]

DecodePackets(ps) == [i \in 1 .. Len(ps) |-> DecodePacket(ps[i])]
-----------------------------------------------------------------------------
(***************************************************************************)
(* audit_packets.                                                          *)
(***************************************************************************)
Finding(severity, title, numbers) == [severity |-> severity, title |-> title, numbers |-> numbers]

PacketFindings(ps) ==
    {Finding("FAIL", "malformed", {ps[i].number}) : i \in {j \in 1 .. Len(ps) : ps[j].error}}
        \cup {Finding("WARN", "packet warning", {ps[i].number}) : i \in {j \in 1 .. Len(ps) : ps[j].warning}}

\* A response answers the oldest read of its address that has no answer yet.
PairResponse(s, p) ==
    LET i == SelectInSeq(s.pending, LAMBDA r : r.address = p.address)
    IN  CASE p.command = "READ" -> [s EXCEPT !.pending = Append(@, p)]
          [] p.command = "READ_RESPONSE" /\ i > 0 -> [s EXCEPT !.pending = RemoveAt(@, i)]
          [] p.command = "READ_RESPONSE" /\ i = 0 ->
                [s EXCEPT !.findings = @ \cup {Finding("WARN", "unmatched response", {p.number})}]
          [] OTHER -> s

PairingFindings(ps) ==
    LET s == FoldLeft(PairResponse, [pending |-> <<>>, findings |-> {}], ps)
    IN  s.findings
            \cup {Finding("WARN", "missing response", {s.pending[i].number}) : i \in 1 .. Len(s.pending)}

Writes(ps) == SelectSeq(ps, LAMBDA p : p.command = "WRITE" /\ p.value # None)

\* Variant: the first response of the address.
ReadbackAny(ps, w) ==
    SelectInSeq(ps, LAMBDA p : p.command = "READ_RESPONSE" /\ p.address = w.address)

\* The first response of the address that was captured after the write.
Readback(ps, w) ==
    SelectInSeq(ps, LAMBDA p : /\ p.command = "READ_RESPONSE" /\ p.address = w.address
                               /\ p.number > w.number)

\* Variant: the write is compared, not what was read back.
ReadbackFindingsOfWrite(ps, w, e) ==
    LET i == Readback(ps, w)
    IN  CASE i = 0 -> {Finding("WARN", "no readback", {w.number})}
          [] i > 0 /\ w.value # e.value -> {Finding("FAIL", "readback mismatch", {w.number, ps[i].number})}
          [] OTHER -> {}

ReadbackFindings(ps, w, e) ==
    LET i == Readback(ps, w)
    IN  CASE i = 0 -> {Finding("WARN", "no readback", {w.number})}
          [] i > 0 /\ ps[i].value # e.value -> {Finding("FAIL", "readback mismatch", {w.number, ps[i].number})}
          [] OTHER -> {}

\* The writes from the cursor on that satisfy a test, the first of them, ...
From(ws, cursor, Test(_)) == {i \in cursor .. Len(ws) : Test(ws[i])}

First(s) == CHOOSE i \in s : \A j \in s : i <= j

\* ... and what is said of an expected write that none of them is.
AbsentFindings(ws, s, e) ==
    LET same == From(ws, s.cursor, LAMBDA w : w.address = e.address)
        moved == From(ws, s.cursor, LAMBDA w : w.value = e.value)
    IN  IF same # {} THEN {Finding("FAIL", "value mismatch", {ws[First(same)].number})}
        ELSE {Finding("FAIL", "missing write", {})}
                \cup {Finding("WARN", "register map", {ws[i].number}) : i \in {j \in moved : \A k \in moved : j <= k}}

\* One expected write: it moves the cursor only when its very value was sent.
MatchExpected(ps, ws, readback, s, e) ==
    LET exact == From(ws, s.cursor, LAMBDA w : w.address = e.address /\ w.value = e.value)
    IN  IF exact = {} THEN [s EXCEPT !.findings = @ \cup AbsentFindings(ws, s, e)]
        ELSE LET i == First(exact)
             IN  [cursor |-> i + 1,
                  matched |-> s.matched \cup {ws[i].number},
                  findings |-> s.findings
                      \cup (IF i = s.cursor THEN {}
                            ELSE {Finding("WARN", "reordered", {ws[j].number : j \in s.cursor .. i})})
                      \cup (IF e.checked \/ readback THEN ReadbackFindings(ps, ws[i], e) ELSE {})]

PlanFindings(ps, expected, readback) ==
    LET ws == Writes(ps)
        s == FoldLeft(LAMBDA t, e : MatchExpected(ps, ws, readback, t, e),
                      [cursor |-> 1, matched |-> {}, findings |-> {}], expected)
        extra == {ws[i].number : i \in 1 .. Len(ws)} \ s.matched
    IN  IF expected = <<>> THEN {}
        ELSE s.findings \cup (IF extra = {} THEN {} ELSE {Finding("WARN", "additional writes", extra)})

\* Variant: the whole register is compared.
ScanStateWhole(v) == v

ScanState(v) == v \cap 0 .. 3

\* The scan state as the captured writes have it, and what was written since it last stopped.
TrackScan(s, w) ==
    LET state == ScanState(w.value)
        scan == w.address = ScanAddress
        stops == scan /\ state \in {{}, {1}}
        seen == IF stops THEN {ScanAddress} ELSE s.seen
    IN  [running |-> IF stops THEN FALSE ELSE IF scan /\ state = {0} THEN TRUE ELSE s.running,
         seen |-> seen \cup {w.address},
         findings |-> s.findings
             \cup (IF ~scan /\ s.running /\ w.address \in Parameters
                   THEN {Finding("WARN", "changed while running", {w.number})} ELSE {})
             \cup (IF w.address = EnableAddress /\ 0 \in w.value /\ ~(RequiredPrior \subseteq seen)
                   THEN {Finding("WARN", "enable dependency", {w.number})} ELSE {})]

ScanFindings(ps) ==
    FoldLeft(TrackScan, [running |-> FALSE, seen |-> {}, findings |-> {}], Writes(ps)).findings

Audit(ps, expected, readback) ==
    PacketFindings(ps) \cup PairingFindings(ps) \cup PlanFindings(ps, expected, readback)
        \cup ScanFindings(ps)

Fails(findings) == \E f \in findings : f.severity = "FAIL"

\* What run-audit exits with; an exception of the reader ends it with 1 and no report.
AuditExit(report) == IF report = Unreadable THEN 1 ELSE IF Fails(report) THEN 2 ELSE IF report # {} THEN 1 ELSE 0

RunAudit(file, expected, readback) ==
    LET frames == ReadCapture(file)
    IN  IF frames = Unreadable THEN Unreadable
        ELSE Audit(DecodePackets(ExtractUdpPackets(frames)), expected, readback)
=============================================================================
