---------------------------- MODULE AdcStream_proofs ----------------------------
(***************************************************************************)
(* The image path for every frame size, packet size, number of scans and   *)
(* of packets, and every loss.                                             *)
(*                                                                         *)
(* Two things are carried along the wire: the order in which the samples   *)
(* were taken, and where the packet with the next number begins, whether   *)
(* it is on the wire or has yet to be sent.                                *)
(***************************************************************************)
EXTENDS AdcStream, FrameAssembler_proofs, SequenceTheorems, TLAPS

\* As FrameSource knows samples; those of this instance are the bytes.
Sample == [scan : Nat, at : Nat]

\* What one scan can send.
MaxSent == MaxPackets * PacketBytes

Packet == [sequence : 1 .. MaxPackets, payload : Seq(Byte)]

FirstOf(p) == p.payload[1]

LastOf(p) == p.payload[Len(p.payload)]

\* A packet is a run of samples of one scan.
IsPacket(p) ==
    /\ p \in Packet
    /\ p.payload # <<>>
    /\ \A i \in 1 .. Len(p.payload) :
          p.payload[i] = [scan |-> FirstOf(p).scan, at |-> FirstOf(p).at + i - 1]

FpgaInv ==
    /\ scanState \in BOOLEAN
    /\ packageCount \in 1 .. MaxPackets + 1
    /\ txByteCount \in 0 .. FrameBytes - 1
    /\ scan \in 0 .. MaxScans
    /\ scanState => scan # 0
    /\ sent \in 0 .. MaxSent
    /\ scanState => sent <= (packageCount - 1) * PacketBytes

\* x has left the FPGA, and all that is behind place i of the wire was taken after it.
PassedAt(x, i) ==
    /\ x.scan < scan \/ (x.scan = scan /\ x.at <= sent)
    /\ \A j \in 1 .. Len(wire) : i < j => Source!Before(x, FirstOf(wire[j]))

\* All that is on the wire was taken after x.
Passed(x) == PassedAt(x, 0)

\* x is the last sample of packet n of its scan: packet n + 1 of that scan begins with
\* the sample after it, wherever that packet is.
Continues(x, n) ==
    /\ x.scan <= scan
    /\ x.scan = scan /\ scanState => n < packageCount
    /\ x.scan = scan /\ scanState /\ packageCount = n + 1 => sent = x.at
    /\ \A i \in 1 .. Len(wire) :
          FirstOf(wire[i]).scan = x.scan /\ wire[i].sequence = n + 1 => FirstOf(wire[i]).at = x.at + 1

\* What is known of the packet p that is at place i of the wire.
InPlace(p, i) ==
    /\ IsPacket(p)
    /\ PassedAt(LastOf(p), i)
    /\ Continues(LastOf(p), p.sequence)

WireInv ==
    /\ wire \in Seq(Packet)
    /\ \A i \in 1 .. Len(wire) : \E p \in Packet : p = wire[i] /\ InPlace(p, i)

OneScan(s) == \A i, j \in 1 .. Len(s) : s[i].scan = s[j].scan

\* A sequence of samples that the host may hold.
MayHold(s) == s \in Seq(Byte) /\ (OneScan(s) => Unbroken(s))

\* The partial frame.
BufferInv ==
    /\ MayHold(buffer)
    /\ buffer # <<>> =>
          \E x \in Byte, n \in 1 .. MaxPackets :
              /\ x = buffer[Len(buffer)]
              /\ expectedSequence = n + 1
              /\ Passed(x)
              /\ Continues(x, n)
              /\ ~Source!Before(x, buffer[1])

\* The frame that was shown last.
FrameInv ==
    frame # None =>
        /\ MayHold(frame.payload)
        /\ frame.payload # <<>>
        /\ ~Source!Before(frame.payload[Len(frame.payload)], frame.payload[1])
        /\ \E x \in Byte :
              /\ x = frame.payload[Len(frame.payload)]
              /\ Passed(x)
              /\ buffer # <<>> => Source!Before(x, buffer[1])

StreamInv ==
    /\ AssemblerInv
    /\ FpgaInv
    /\ WireInv
    /\ BufferInv
    /\ FrameInv
    /\ receiving \in BOOLEAN
    /\ damaged \subseteq 1 .. MaxScans
-----------------------------------------------------------------------------
(***************************************************************************)
(* Samples and packets.                                                    *)
(***************************************************************************)
\* Samples are in the order in which they were taken.
LEMMA BeforeIsTransitive ==
    ASSUME NEW x \in Sample, NEW y \in Sample, NEW z \in Sample
    PROVE  /\ Source!Before(x, y) /\ Source!Before(y, z) => Source!Before(x, z)
           /\ Source!Before(x, y) /\ ~Source!Before(z, y) => Source!Before(x, z)
           /\ ~Source!Before(x, x)
           /\ Source!Before(x, y) => ~Source!Before(y, x)
BY DEF Source!Before, Sample

\* The bytes are samples, and no scan sends more than MaxSent of them.
LEMMA ByteIsSample ==
    /\ MaxSent \in Nat
    /\ Byte = [scan : 1 .. MaxScans, at : 1 .. MaxSent]
    /\ \A x \in Byte : x \in Sample /\ x.scan \in 1 .. MaxScans /\ x.at \in 1 .. MaxSent
<1>1. MaxSent \in Nat
  BY StreamAssumption DEF MaxSent
<1>2. Byte = [scan : 1 .. MaxScans, at : 1 .. MaxSent]
  BY StreamAssumption DEF MaxSent
<1>3. QED
  BY <1>1, <1>2, StreamAssumption DEF Sample

\* The first and the last sample of a packet are samples of one scan, in this order.
LEMMA PacketEnds ==
    ASSUME NEW p, IsPacket(p)
    PROVE  /\ FirstOf(p) \in Byte /\ LastOf(p) \in Byte
           /\ FirstOf(p) \in Sample /\ LastOf(p) \in Sample
           /\ LastOf(p).scan = FirstOf(p).scan
           /\ LastOf(p).at = FirstOf(p).at + Len(p.payload) - 1
           /\ ~Source!Before(LastOf(p), FirstOf(p))
<1>1. p.payload \in Seq(Byte) /\ Len(p.payload) \in Nat \ {0}
  BY DEF IsPacket, Packet
<1>2. 1 \in 1 .. Len(p.payload) /\ Len(p.payload) \in 1 .. Len(p.payload)
  BY <1>1
<1>3. FirstOf(p) \in Byte /\ LastOf(p) \in Byte
  BY <1>1, <1>2 DEF FirstOf, LastOf
<1>4. LastOf(p) = [scan |-> FirstOf(p).scan, at |-> FirstOf(p).at + Len(p.payload) - 1]
  BY <1>2 DEF IsPacket, LastOf
<1>5. LastOf(p).scan = FirstOf(p).scan /\ LastOf(p).at = FirstOf(p).at + Len(p.payload) - 1
  BY <1>4
<1>6. FirstOf(p) \in Sample /\ LastOf(p) \in Sample
  BY <1>3, ByteIsSample
<1>7. QED
  BY <1>1, <1>3, <1>5, <1>6 DEF Source!Before, Sample

\* Its payload is a run.
LEMMA PacketIsRun ==
    ASSUME NEW p, IsPacket(p) PROVE Unbroken(p.payload)
<1>1. p.payload \in Seq(Byte) /\ Len(p.payload) \in Nat /\ FirstOf(p) \in Sample
  BY PacketEnds DEF IsPacket, Packet
<1>2. ASSUME NEW i \in 1 .. Len(p.payload) - 1
      PROVE  Follows(p.payload[i], p.payload[i + 1])
  <2>1. i \in 1 .. Len(p.payload) /\ i + 1 \in 1 .. Len(p.payload)
    BY <1>1
  <2>2. p.payload[i] = [scan |-> FirstOf(p).scan, at |-> FirstOf(p).at + i - 1]
    BY <2>1 DEF IsPacket
  <2>3. p.payload[i + 1] = [scan |-> FirstOf(p).scan, at |-> FirstOf(p).at + (i + 1) - 1]
    BY <2>1 DEF IsPacket
  <2>4. QED
    BY <1>1, <2>1, <2>2, <2>3 DEF Follows, Sample
<1>3. QED
  BY <1>2 DEF Unbroken

\* Two runs of samples make one when the second follows the first.
LEMMA RunsJoin ==
    ASSUME NEW s \in Seq(Byte), NEW t \in Seq(Byte), s # <<>>, t # <<>>,
           Unbroken(s), Unbroken(t), Follows(s[Len(s)], t[1])
    PROVE  Unbroken(s \o t)
<1> DEFINE u == s \o t
<1>1. Len(s) \in Nat \ {0} /\ Len(t) \in Nat \ {0} /\ Len(u) = Len(s) + Len(t)
  OBVIOUS
<1>2. \A i \in 1 .. Len(s) : u[i] = s[i]
  OBVIOUS
<1>3. \A i \in 1 .. Len(t) : u[Len(s) + i] = t[i]
  OBVIOUS
<1> HIDE DEF u
<1>4. ASSUME NEW i \in 1 .. Len(u) - 1 PROVE Follows(u[i], u[i + 1])
  <2>1. CASE i < Len(s)
    <3>1. i \in 1 .. Len(s) - 1 /\ i \in 1 .. Len(s) /\ i + 1 \in 1 .. Len(s)
      BY <1>1, <2>1
    <3>2. QED
      BY <1>2, <3>1 DEF Unbroken
  <2>2. CASE i = Len(s)
    <3>1. u[i] = s[Len(s)] /\ u[i + 1] = t[1]
      BY <1>1, <1>2, <1>3, <2>2
    <3>2. QED
      BY <3>1
  <2>3. CASE i > Len(s)
    <3>1. /\ i - Len(s) \in 1 .. Len(t) - 1
          /\ i - Len(s) \in 1 .. Len(t) /\ i - Len(s) + 1 \in 1 .. Len(t)
          /\ i = Len(s) + (i - Len(s)) /\ i + 1 = Len(s) + (i - Len(s) + 1)
      BY <1>1, <2>3
    <3>2. u[i] = t[i - Len(s)] /\ u[i + 1] = t[i - Len(s) + 1]
      BY <1>3, <3>1
    <3>3. QED
      BY <3>1, <3>2 DEF Unbroken
  <2>4. QED
    BY <1>1, <2>1, <2>2, <2>3
<1>5. QED
  BY <1>4 DEF Unbroken, u
-----------------------------------------------------------------------------
(***************************************************************************)
(* What is left of the wire.                                               *)
(***************************************************************************)
\* t is s without some of its elements.
Thinned(t, s) ==
    \E f \in [1 .. Len(t) -> 1 .. Len(s)] :
        /\ \A i \in 1 .. Len(t) : t[i] = s[f[i]]
        /\ \A i, j \in 1 .. Len(t) : i < j => f[i] < f[j]

\* A lost packet leaves the others in their order.
LEMMA RemovedIsThinned ==
    ASSUME NEW S, NEW s \in Seq(S), NEW k \in 1 .. Len(s)
    PROVE  /\ RemoveAt(s, k) \in Seq(S) /\ Thinned(RemoveAt(s, k), s)
           /\ Len(RemoveAt(s, k)) = Len(s) - 1
           /\ \A i \in 1 .. Len(RemoveAt(s, k)) : RemoveAt(s, k)[i] = s[IF i < k THEN i ELSE i + 1]
<1> DEFINE u == SubSeq(s, 1, k - 1)
           v == SubSeq(s, k + 1, Len(s))
           t == u \o v
           f == [i \in 1 .. Len(t) |-> IF i < k THEN i ELSE i + 1]
<1>0. Len(s) \in Nat /\ k \in Nat
  OBVIOUS
<1>1. u \in Seq(S) /\ Len(u) = k - 1 /\ \A i \in 1 .. k - 1 : u[i] = s[i]
  <2>1. \A i \in 1 .. k - 1 : s[i] \in S
    BY <1>0, ElementOfSeq
  <2>2. QED
    BY <1>0, <2>1, SubSeqProperties
<1>2. v \in Seq(S) /\ Len(v) = Len(s) - k /\ \A i \in 1 .. Len(s) - k : v[i] = s[k + i]
  <2>1. \A i \in k + 1 .. Len(s) : s[i] \in S
    BY <1>0, ElementOfSeq
  <2>2. /\ v \in Seq(S)
        /\ Len(v) = IF k + 1 <= Len(s) THEN Len(s) - (k + 1) + 1 ELSE 0
        /\ \A i \in 1 .. Len(s) - (k + 1) + 1 : v[i] = s[(k + 1) + i - 1]
    BY <1>0, <2>1, SubSeqProperties
  <2> HIDE DEF v
  <2>3. QED
    BY <1>0, <2>2
<1> HIDE DEF u, v
<1>a. /\ t \in Seq(S) /\ Len(t) = Len(u) + Len(v)
      /\ \A i \in 1 .. Len(u) + Len(v) : t[i] = IF i <= Len(u) THEN u[i] ELSE v[i - Len(u)]
  BY <1>1, <1>2, ConcatProperties, Zenon
<1> HIDE DEF t
<1>3. Len(t) = Len(s) - 1
  BY <1>0, <1>1, <1>2, <1>a
<1>4. \A i \in 1 .. Len(t) : t[i] = s[f[i]]
  <2> TAKE i \in 1 .. Len(t)
  <2>a. i \in 1 .. Len(u) + Len(v)
    BY <1>a
  <2>b. t[i] = IF i <= Len(u) THEN u[i] ELSE v[i - Len(u)]
    BY <1>a, <2>a
  <2>1. CASE i < k
    BY <1>0, <1>1, <2>b, <2>1
  <2>2. CASE ~(i < k)
    <3>1. i - Len(u) \in 1 .. Len(s) - k /\ k + (i - Len(u)) = i + 1 /\ ~(i <= Len(u))
      BY <1>0, <1>1, <1>2, <1>3, <2>2
    <3>2. t[i] = v[i - Len(u)]
      BY <2>b, <3>1
    <3>3. v[i - Len(u)] = s[i + 1]
      BY <1>2, <3>1
    <3>4. QED
      BY <2>2, <3>2, <3>3
  <2>3. QED
    BY <2>1, <2>2
<1>5. f \in [1 .. Len(t) -> 1 .. Len(s)]
  BY <1>0, <1>3
<1>6. \A i, j \in 1 .. Len(t) : i < j => f[i] < f[j]
  BY <1>0, <1>3
<1>7. RemoveAt(s, k) = t
  BY DEF RemoveAt, t, u, v
<1>8. \A i \in 1 .. Len(t) : t[i] = s[IF i < k THEN i ELSE i + 1]
  BY <1>4
<1> HIDE DEF f
<1>9. QED
  BY <1>a, <1>3, <1>4, <1>5, <1>6, <1>7, <1>8 DEF Thinned

\* So does a queue whose head is gone.
LEMMA RestIsThinned ==
    ASSUME NEW S, NEW s \in Seq(S), NEW n \in 0 .. Len(s)
    PROVE  /\ SubSeq(s, n + 1, Len(s)) \in Seq(S) /\ Thinned(SubSeq(s, n + 1, Len(s)), s)
           /\ Len(SubSeq(s, n + 1, Len(s))) = Len(s) - n
           /\ \A i \in 1 .. Len(s) - n : SubSeq(s, n + 1, Len(s))[i] = s[n + i]
<1> DEFINE t == SubSeq(s, n + 1, Len(s))
           f == [i \in 1 .. Len(t) |-> n + i]
<1>0. Len(s) \in Nat /\ n \in Nat
  OBVIOUS
<1>1. \A i \in n + 1 .. Len(s) : s[i] \in S
  BY <1>0, ElementOfSeq
<1>2. /\ t \in Seq(S)
      /\ Len(t) = IF n + 1 <= Len(s) THEN Len(s) - (n + 1) + 1 ELSE 0
      /\ \A i \in 1 .. Len(s) - (n + 1) + 1 : t[i] = s[(n + 1) + i - 1]
  BY <1>0, <1>1, SubSeqProperties
<1> HIDE DEF t
<1>3. Len(t) = Len(s) - n /\ \A i \in 1 .. Len(t) : t[i] = s[n + i]
  BY <1>0, <1>2
<1>4. /\ f \in [1 .. Len(t) -> 1 .. Len(s)]
      /\ \A i \in 1 .. Len(t) : t[i] = s[f[i]]
      /\ \A i, j \in 1 .. Len(t) : i < j => f[i] < f[j]
  BY <1>0, <1>3
<1> HIDE DEF f
<1>5. Thinned(t, s)
  BY <1>4 DEF Thinned
<1>6. QED
  BY <1>2, <1>3, <1>5 DEF t

\* And the whole wire is the head and its rest.
LEMMA TailIsThinned ==
    ASSUME NEW S, NEW s \in Seq(S), s # <<>>
    PROVE  /\ Head(s) = s[1] /\ 1 \in 1 .. Len(s)
           /\ Tail(s) \in Seq(S) /\ Thinned(Tail(s), s)
           /\ Len(Tail(s)) = Len(s) - 1
           /\ \A i \in 1 .. Len(Tail(s)) : Tail(s)[i] = s[i + 1]
<1>1. Tail(s) = SubSeq(s, 1 + 1, Len(s)) /\ 1 \in 0 .. Len(s)
  BY TailIsSubSeq
<1>2. Tail(s) \in Seq(S) /\ Thinned(Tail(s), s)
  BY <1>1, RestIsThinned
<1>3. Head(s) = s[1] /\ 1 \in 1 .. Len(s)
  OBVIOUS
<1>4. Len(Tail(s)) = Len(s) - 1 /\ \A i \in 1 .. Len(Tail(s)) : Tail(s)[i] = s[i + 1]
  BY HeadTailProperties
<1>5. QED
  BY <1>2, <1>3, <1>4

\* The order of the samples, and where the next packet begins, are not changed by a loss.
LEMMA ThinnedWire ==
    ASSUME FpgaInv, WireInv, UNCHANGED fpgaVars, wire' \in Seq(Packet), Thinned(wire', wire)
    PROVE  /\ \A x \in Byte : Passed(x) => Passed(x)'
           /\ \A x \in Byte, n \in 1 .. MaxPackets : Continues(x, n) => Continues(x, n)'
           /\ WireInv'
<1>1. PICK f \in [1 .. Len(wire') -> 1 .. Len(wire)] :
          /\ \A i \in 1 .. Len(wire') : wire'[i] = wire[f[i]]
          /\ \A i, j \in 1 .. Len(wire') : i < j => f[i] < f[j]
  BY DEF Thinned
<1>2. Len(wire) \in Nat /\ Len(wire') \in Nat
  BY DEF WireInv
<1>3. UNCHANGED <<scan, sent, scanState, packageCount>>
  BY DEF fpgaVars
<1>4. ASSUME NEW x \in Byte, NEW i \in 0 .. Len(wire'), NEW k \in 0 .. Len(wire), PassedAt(x, k),
             \A j \in 1 .. Len(wire') : i < j => k < f[j]
      PROVE  PassedAt(x, i)'
  BY <1>1, <1>2, <1>3, <1>4 DEF PassedAt
<1>5. ASSUME NEW x \in Byte, Passed(x) PROVE Passed(x)'
  BY <1>2, <1>1, <1>4, <1>5 DEF Passed
<1>6. ASSUME NEW x \in Byte, NEW n \in 1 .. MaxPackets, Continues(x, n) PROVE Continues(x, n)'
  <2>1. ASSUME NEW i \in 1 .. Len(wire'),
               FirstOf(wire'[i]).scan = x.scan, wire'[i].sequence = n + 1
        PROVE  FirstOf(wire'[i]).at = x.at + 1
    <3>1. f[i] \in 1 .. Len(wire) /\ wire'[i] = wire[f[i]]
      BY <1>1
    <3>2. \A j \in 1 .. Len(wire) :
              FirstOf(wire[j]).scan = x.scan /\ wire[j].sequence = n + 1 => FirstOf(wire[j]).at = x.at + 1
      BY <1>6 DEF Continues
    <3>3. QED
      BY <2>1, <3>1, <3>2
  <2>2. QED
    BY <1>3, <1>6, <2>1 DEF Continues
<1>7. ASSUME NEW i \in 1 .. Len(wire')
      PROVE  \E p \in Packet : p = wire'[i] /\ InPlace(p, i)'
  <2>1. PICK p \in Packet : p = wire[f[i]] /\ InPlace(p, f[i])
    BY <1>1, <1>7 DEF WireInv
  <2>2. LastOf(p) \in Byte /\ p.sequence \in 1 .. MaxPackets
    BY <2>1, PacketEnds DEF InPlace, Packet
  <2>3. PassedAt(LastOf(p), i)'
    BY <1>1, <1>2, <1>4, <1>7, <2>1, <2>2 DEF InPlace
  <2>4. Continues(LastOf(p), p.sequence)'
    BY <1>6, <2>1, <2>2 DEF InPlace
  <2>5. QED
    BY <1>1, <1>7, <2>1, <2>3, <2>4 DEF InPlace
<1>8. QED
  BY <1>5, <1>6, <1>7 DEF WireInv

\* The FPGA's own steps on what has been sent.
LEMMA ScanSwitches ==
    ASSUME FpgaInv, WireInv, StartScan \/ StopScan
    PROVE  /\ FpgaInv'
           /\ \A x \in Byte : Passed(x) => Passed(x)'
           /\ \A x \in Byte, n \in 1 .. MaxPackets : Continues(x, n) => Continues(x, n)'
           /\ WireInv'
<1>1. UNCHANGED wire /\ scan \in Nat /\ scan' \in Nat /\ Len(wire) \in Nat
  BY DEF StartScan, StopScan, FpgaInv, WireInv
<1>2. FpgaInv'
  <2>1. CASE StartScan
    <3>1. 0 <= (packageCount - 1) * PacketBytes
      BY StreamAssumption DEF FpgaInv
    <3>2. sent' = 0 /\ sent' <= (packageCount' - 1) * PacketBytes
      BY <2>1, <3>1 DEF StartScan
    <3>3. scanState' = TRUE /\ scan' \in 0 .. MaxScans /\ scan' # 0
      BY <2>1, StreamAssumption DEF StartScan, FpgaInv
    <3>4. UNCHANGED <<packageCount, txByteCount>> /\ sent' \in 0 .. MaxSent
      BY <2>1, ByteIsSample DEF StartScan
    <3>5. QED
      BY <3>2, <3>3, <3>4 DEF FpgaInv
  <2>2. CASE StopScan
    <3>1. scanState' = FALSE /\ packageCount' = 1 /\ txByteCount' = 0 /\ UNCHANGED <<scan, sent>>
      BY <2>2 DEF StopScan
    <3>2. 1 \in 1 .. MaxPackets + 1 /\ 0 \in 0 .. FrameBytes - 1
      BY StreamAssumption
    <3>3. QED
      BY <3>1, <3>2 DEF FpgaInv
  <2>3. QED
    BY <2>1, <2>2
<1>3. ASSUME NEW x \in Byte, NEW i \in 0 .. Len(wire), PassedAt(x, i) PROVE PassedAt(x, i)'
  <2>1. x.scan \in Nat
    BY ByteIsSample DEF Sample
  <2>2. x.scan < scan' \/ (x.scan = scan' /\ x.at <= sent')
    BY <1>1, <1>3, <2>1 DEF PassedAt, StartScan, StopScan
  <2>3. QED
    BY <1>1, <1>3, <2>2 DEF PassedAt
<1>4. ASSUME NEW x \in Byte, NEW n \in 1 .. MaxPackets, Continues(x, n) PROVE Continues(x, n)'
  <2>1. x.scan \in Nat
    BY ByteIsSample DEF Sample
  <2>2. x.scan <= scan' /\ ~(x.scan = scan' /\ scanState')
    BY <1>1, <1>4, <2>1 DEF Continues, StartScan, StopScan
  <2>3. QED
    BY <1>1, <1>4, <2>2 DEF Continues
<1>5. ASSUME NEW i \in 1 .. Len(wire')
      PROVE  \E p \in Packet : p = wire'[i] /\ InPlace(p, i)'
  <2>1. PICK p \in Packet : p = wire[i] /\ InPlace(p, i)
    BY <1>1 DEF WireInv
  <2>2. LastOf(p) \in Byte /\ p.sequence \in 1 .. MaxPackets
    BY <2>1, PacketEnds DEF InPlace, Packet
  <2>3. PassedAt(LastOf(p), i)' /\ Continues(LastOf(p), p.sequence)'
    BY <1>1, <1>3, <1>4, <2>1, <2>2 DEF InPlace
  <2>4. QED
    BY <1>1, <2>1, <2>3 DEF InPlace
<1>6. QED
  BY <1>1, <1>2, <1>3, <1>4, <1>5 DEF WireInv, Passed

\* The packet that state 0 of the packetizer decides on.
NewPacket == [sequence |-> packageCount, payload |-> Samples(PayloadBytes)]

\* It is a packet of the running scan, within what one scan can send.
LEMMA NewPacketIsPacket ==
    ASSUME FpgaInv, SendPacket
    PROVE  /\ FpgaInv'
           /\ IsPacket(NewPacket)
           /\ FirstOf(NewPacket).scan = scan /\ FirstOf(NewPacket).at = sent + 1
           /\ LastOf(NewPacket).scan = scan /\ LastOf(NewPacket).at = sent'
           /\ sent < sent'
           /\ packageCount' = packageCount + 1
           /\ NewPacket.sequence = packageCount
<1> DEFINE n == PayloadBytes
           k == packageCount
           c == PacketBytes
<1>1. n \in 1 .. c /\ n \in Nat
  BY StreamAssumption DEF FpgaInv, PayloadBytes, Min2, RemainByteCount
<1>2. /\ k \in 1 .. MaxPackets /\ scanState /\ scan \in 1 .. MaxScans /\ sent \in Nat
      /\ sent <= (k - 1) * c
  BY StreamAssumption, ByteIsSample DEF SendPacket, FpgaInv
<1>3. packageCount' = k + 1
  BY <1>2, StreamAssumption, AssemblerAssumption DEF SendPacket, NextSeq
<1>4. sent' = sent + n
  BY DEF SendPacket
<1>5. sent' <= k * c /\ k * c <= MaxSent
  <2>1. k * c = (k - 1) * c + c
    BY <1>2, StreamAssumption
  <2>2. (k - 1) * c \in Nat /\ k * c \in Nat
    BY <1>2, StreamAssumption
  <2>3. MaxSent = k * c + (MaxPackets - k) * c /\ (MaxPackets - k) * c \in Nat
    BY <1>2, StreamAssumption DEF MaxSent
  <2> HIDE DEF n
  <2>4. k * c <= MaxSent
    BY <2>2, <2>3
  <2>5. sent' <= k * c
    <3> DEFINE a == (k - 1) * c
               b == k * c
    <3>1. b = a + c /\ a \in Nat /\ b \in Nat /\ sent <= a /\ c \in Nat
      BY <1>2, <2>1, <2>2, StreamAssumption
    <3> HIDE DEF a, b
    <3>2. sent + n <= b
      BY <1>1, <1>2, <3>1
    <3>3. QED
      BY <1>4, <3>2 DEF b
  <2>6. QED
    BY <2>4, <2>5
<1>6. sent' \in 1 .. MaxSent /\ sent < sent' /\ MaxSent \in Nat
  <2> HIDE DEF n
  <2>1. sent' \in Nat /\ sent < sent' /\ 1 <= sent'
    BY <1>1, <1>2, <1>4
  <2>2. k * c \in Nat /\ MaxSent \in Nat
    BY <1>2, StreamAssumption, ByteIsSample
  <2>3. QED
    <3> DEFINE b == k * c
    <3> HIDE DEF b
    <3>1. sent' <= b /\ b <= MaxSent /\ b \in Nat
      BY <1>5, <2>2 DEF b
    <3>2. QED
      BY <2>1, <2>2, <3>1
<1>7. FpgaInv'
  <2>1. txByteCount' \in 0 .. FrameBytes - 1
    BY StreamAssumption DEF FpgaInv, SendPacket, RemainByteCount
  <2>2. (packageCount' - 1) * PacketBytes = k * c
    BY <1>2, <1>3
  <2>3. UNCHANGED <<scanState, scan>>
    BY DEF SendPacket
  <2>4. packageCount' \in 1 .. MaxPackets + 1
    BY <1>2, <1>3, StreamAssumption
  <2>5. sent' \in 0 .. MaxSent
    BY <1>6
  <2>6. sent' <= (packageCount' - 1) * PacketBytes
    BY <1>5, <2>2
  <2> HIDE DEF k, c
  <2>7. QED
    BY <2>1, <2>3, <2>4, <2>5, <2>6 DEF FpgaInv
<1> HIDE DEF n, c
<1>8. /\ Samples(n) \in Seq(Byte) /\ Len(Samples(n)) = n
      /\ \A i \in 1 .. n : Samples(n)[i] = [scan |-> scan, at |-> sent + i]
  <2>1. ASSUME NEW i \in 1 .. n PROVE [scan |-> scan, at |-> sent + i] \in Byte
    <3>1. sent + i \in 1 .. MaxSent
      BY <1>1, <1>2, <1>4, <1>6
    <3>2. QED
      BY <1>2, <3>1, ByteIsSample
  <2>2. QED
    BY <1>1, <2>1, IsASeq DEF Samples
<1>9. /\ NewPacket.payload = Samples(n) /\ NewPacket.sequence = k /\ NewPacket \in Packet
  BY <1>2, <1>8 DEF NewPacket, Packet, n
<1>10. FirstOf(NewPacket) = [scan |-> scan, at |-> sent + 1]
  BY <1>1, <1>8, <1>9 DEF FirstOf
<1>11. LastOf(NewPacket) = [scan |-> scan, at |-> sent']
  BY <1>1, <1>4, <1>8, <1>9 DEF LastOf
<1>12. IsPacket(NewPacket)
  <2>1. ASSUME NEW i \in 1 .. Len(NewPacket.payload)
        PROVE  NewPacket.payload[i]
                   = [scan |-> FirstOf(NewPacket).scan, at |-> FirstOf(NewPacket).at + i - 1]
    <3>1. NewPacket.payload[i] = [scan |-> scan, at |-> sent + i] /\ i \in Nat
      BY <1>1, <1>8, <1>9
    <3>2. sent + i = (sent + 1) + i - 1
      BY <1>2, <3>1
    <3>3. QED
      BY <1>10, <3>1, <3>2
  <2>2. NewPacket.payload # <<>>
    BY <1>1, <1>8, <1>9
  <2>3. QED
    BY <1>9, <2>1, <2>2 DEF IsPacket
<1>13. QED
  BY <1>3, <1>6, <1>7, <1>9, <1>10, <1>11, <1>12

\* A packet that is sent comes after everything that was sent before it.
LEMMA SentComesLast ==
    ASSUME FpgaInv, WireInv, SendPacket
    PROVE  /\ FpgaInv'
           /\ \A x \in Byte : Passed(x) => Passed(x)'
           /\ \A x \in Byte, n \in 1 .. MaxPackets : Continues(x, n) => Continues(x, n)'
           /\ WireInv'
<1> DEFINE q == NewPacket
           m == Len(wire) + 1
<1>1. /\ FpgaInv' /\ IsPacket(q) /\ q \in Packet
      /\ FirstOf(q).scan = scan /\ FirstOf(q).at = sent + 1
      /\ LastOf(q).scan = scan /\ LastOf(q).at = sent'
      /\ sent < sent' /\ packageCount' = packageCount + 1 /\ q.sequence = packageCount
  BY NewPacketIsPacket DEF IsPacket
<1>2. LastOf(q) \in Byte /\ FirstOf(q) \in Byte
  BY <1>1, PacketEnds
<1>3. scan \in Nat /\ sent \in Nat /\ sent' \in Nat /\ packageCount \in 1 .. MaxPackets /\ scanState
  BY <1>1, ByteIsSample DEF SendPacket, FpgaInv
<1>4. UNCHANGED <<scan, scanState>> /\ wire' = Append(wire, q)
  BY DEF SendPacket, NewPacket
<1> HIDE DEF q
<1>5. /\ wire \in Seq(Packet) /\ Len(wire) \in Nat
      /\ wire' \in Seq(Packet) /\ Len(wire') = m /\ wire'[m] = q
      /\ \A i \in 1 .. Len(wire) : wire'[i] = wire[i]
  BY <1>1, <1>4, AppendProperties DEF WireInv
<1>6. ASSUME NEW x \in Byte, NEW i \in 0 .. Len(wire), PassedAt(x, i) PROVE PassedAt(x, i)'
  <2>1. x.scan \in Nat /\ x.at \in Nat
    BY ByteIsSample DEF Sample
  <2>2. x.scan < scan' \/ (x.scan = scan' /\ x.at <= sent')
    BY <1>1, <1>3, <1>4, <1>6, <2>1 DEF PassedAt
  <2>3. Source!Before(x, FirstOf(q))
    BY <1>1, <1>3, <1>6, <2>1 DEF PassedAt, Source!Before
  <2>4. ASSUME NEW j \in 1 .. Len(wire'), i < j PROVE Source!Before(x, FirstOf(wire'[j]))
    <3>1. CASE j \in 1 .. Len(wire)
      <4>1. wire'[j] = wire[j]
        BY <1>5, <3>1
      <4>2. Source!Before(x, FirstOf(wire[j]))
        BY <1>6, <2>4, <3>1 DEF PassedAt
      <4>3. QED
        BY <4>1, <4>2
    <3>2. CASE j = m
      BY <1>5, <2>3, <3>2
    <3>3. QED
      BY <1>5, <3>1, <3>2
  <2>5. QED
    BY <2>2, <2>4 DEF PassedAt
<1>7. ASSUME NEW x \in Byte, NEW n \in 1 .. MaxPackets, Continues(x, n) PROVE Continues(x, n)'
  <2>1. n \in Nat /\ x.scan <= scan
    BY <1>7, StreamAssumption DEF Continues
  <2>2. x.scan = scan => n < packageCount
    BY <1>3, <1>7 DEF Continues
  <2>3. x.scan = scan /\ packageCount = n + 1 => sent = x.at
    BY <1>3, <1>7 DEF Continues
  <2>4. ASSUME NEW j \in 1 .. Len(wire'),
               FirstOf(wire'[j]).scan = x.scan, wire'[j].sequence = n + 1
        PROVE  FirstOf(wire'[j]).at = x.at + 1
    <3>1. CASE j \in 1 .. Len(wire)
      <4>1. wire'[j] = wire[j]
        BY <1>5, <3>1
      <4>2. FirstOf(wire[j]).scan = x.scan /\ wire[j].sequence = n + 1
                => FirstOf(wire[j]).at = x.at + 1
        BY <1>7, <3>1 DEF Continues
      <4>3. QED
        BY <2>4, <4>1, <4>2
    <3>2. CASE j = m
      BY <1>1, <1>5, <2>3, <2>4, <3>2
    <3>3. QED
      BY <1>5, <3>1, <3>2
  <2>5. x.scan = scan => n < packageCount' /\ packageCount' # n + 1
    BY <1>1, <1>3, <2>1, <2>2
  <2>6. QED
    BY <1>4, <2>1, <2>4, <2>5 DEF Continues
<1>8. ASSUME NEW i \in 1 .. Len(wire')
      PROVE  \E p \in Packet : p = wire'[i] /\ InPlace(p, i)'
  <2>1. CASE i \in 1 .. Len(wire)
    <3>1. PICK p \in Packet : p = wire[i] /\ InPlace(p, i)
      BY <2>1 DEF WireInv
    <3>2. LastOf(p) \in Byte /\ p.sequence \in 1 .. MaxPackets
      BY <3>1, PacketEnds DEF InPlace, Packet
    <3>3. PassedAt(LastOf(p), i)' /\ Continues(LastOf(p), p.sequence)'
      BY <1>5, <1>6, <1>7, <2>1, <3>1, <3>2 DEF InPlace
    <3>4. wire'[i] = wire[i]
      BY <1>5, <2>1
    <3>5. QED
      BY <3>1, <3>3, <3>4 DEF InPlace
  <2>2. CASE i = m
    <3>1. PICK p \in Packet : p = q
      BY <1>1
    <3>2. /\ IsPacket(p) /\ LastOf(p).scan = scan /\ LastOf(p).at = sent'
          /\ p.sequence = packageCount /\ p = wire'[i]
      BY <1>1, <1>5, <2>2, <3>1
    <3>3. PassedAt(LastOf(p), i)'
      BY <1>3, <1>4, <1>5, <2>2, <3>2 DEF PassedAt
    <3>4. ASSUME NEW j \in 1 .. Len(wire'), FirstOf(wire'[j]).scan = scan
          PROVE  wire'[j].sequence # packageCount + 1
      <4>1. CASE j \in 1 .. Len(wire)
        <5>1. wire'[j] = wire[j]
          BY <1>5, <4>1
        <5>2. PICK w \in Packet : w = wire[j] /\ InPlace(w, j)
          BY <4>1 DEF WireInv
        <5>3. LastOf(w).scan = scan
          BY <3>4, <5>1, <5>2, PacketEnds DEF InPlace
        <5>4. w.sequence < packageCount
          BY <1>3, <5>2, <5>3 DEF InPlace, Continues
        <5>5. w.sequence \in Nat
          BY StreamAssumption DEF Packet
        <5>6. QED
          BY <1>3, <5>1, <5>2, <5>4, <5>5
      <4>2. CASE j = m
        BY <1>1, <1>3, <1>5, <4>2
      <4>3. QED
        BY <1>5, <4>1, <4>2
    <3>5. Continues(LastOf(p), p.sequence)'
      <4>1. LastOf(p).scan <= scan' /\ p.sequence < packageCount'
        BY <1>1, <1>3, <1>4, <3>2
      <4>2. sent' = LastOf(p).at
        BY <3>2
      <4>3. \A j \in 1 .. Len(wire') :
                FirstOf(wire'[j]).scan = LastOf(p).scan => wire'[j].sequence # p.sequence + 1
        BY <3>2, <3>4
      <4>4. QED
        BY <4>1, <4>2, <4>3 DEF Continues
    <3>6. QED
      BY <3>2, <3>3, <3>5 DEF InPlace
  <2>3. QED
    BY <1>5, <2>1, <2>2
<1>9. QED
  BY <1>1, <1>5, <1>6, <1>7, <1>8 DEF WireInv, Passed
-----------------------------------------------------------------------------
(***************************************************************************)
(* What the host holds.                                                    *)
(***************************************************************************)
\* As long as the assembler is left alone it holds what it held.
LEMMA HeldIsKept ==
    ASSUME BufferInv, FrameInv, UNCHANGED assemblerVars,
           \A x \in Byte : Passed(x) => Passed(x)',
           \A x \in Byte, n \in 1 .. MaxPackets : Continues(x, n) => Continues(x, n)'
    PROVE  BufferInv' /\ FrameInv'
<1>1. UNCHANGED <<buffer, frame, expectedSequence>>
  BY DEF assemblerVars
<1>2. BufferInv'
  <2>1. CASE buffer = <<>>
    BY <1>1, <2>1 DEF BufferInv
  <2>2. CASE buffer # <<>>
    <3>1. PICK x \in Byte, n \in 1 .. MaxPackets :
              /\ x = buffer[Len(buffer)]
              /\ expectedSequence = n + 1
              /\ Passed(x)
              /\ Continues(x, n)
              /\ ~Source!Before(x, buffer[1])
      BY <2>2 DEF BufferInv
    <3>2. Passed(x)' /\ Continues(x, n)'
      BY <3>1
    <3>3. MayHold(buffer)
      BY DEF BufferInv
    <3>4. QED
      BY <1>1, <3>1, <3>2, <3>3 DEF BufferInv
  <2>3. QED
    BY <2>1, <2>2
<1>3. FrameInv'
  <2>1. CASE frame = None
    BY <1>1, <2>1 DEF FrameInv
  <2>2. CASE frame # None
    <3>1. PICK x \in Byte :
              /\ x = frame.payload[Len(frame.payload)]
              /\ Passed(x)
              /\ buffer # <<>> => Source!Before(x, buffer[1])
      BY <2>2 DEF FrameInv
    <3>2. Passed(x)'
      BY <3>1
    <3>3. /\ MayHold(frame.payload) /\ frame.payload # <<>>
          /\ ~Source!Before(frame.payload[Len(frame.payload)], frame.payload[1])
      BY <2>2 DEF FrameInv
    <3>4. QED
      BY <1>1, <3>1, <3>2, <3>3 DEF FrameInv
  <2>3. QED
    BY <2>1, <2>2
<1>4. QED
  BY <1>2, <1>3

\* A receiver that stops, or has just started, holds nothing.
LEMMA NothingIsHeld ==
    ASSUME FrameInv, buffer' = <<>>, UNCHANGED frame,
           \A x \in Byte : Passed(x) => Passed(x)'
    PROVE  BufferInv' /\ FrameInv'
<1>1. MayHold(<<>>)
  BY DEF MayHold, Unbroken
<1>2. BufferInv'
  BY <1>1 DEF BufferInv
<1>3. CASE frame = None
  BY <1>2, <1>3 DEF FrameInv
<1>4. CASE frame # None
  <2>1. PICK x \in Byte : x = frame.payload[Len(frame.payload)] /\ Passed(x)
    BY <1>4 DEF FrameInv
  <2>2. Passed(x)'
    BY <2>1
  <2>3. /\ MayHold(frame.payload) /\ frame.payload # <<>>
        /\ ~Source!Before(frame.payload[Len(frame.payload)], frame.payload[1])
    BY <1>4 DEF FrameInv
  <2>4. FrameInv'
    BY <2>1, <2>2, <2>3 DEF FrameInv
  <2>5. QED
    BY <1>2, <2>4
<1>5. QED
  BY <1>3, <1>4

\* What add_packet puts together from a packet of the wire.
Good(p) ==
    /\ MayHold(Filled(p)) /\ Filled(p) # <<>>
    /\ Filled(p)[Len(Filled(p))] = LastOf(p)
    /\ ~Source!Before(LastOf(p), Filled(p)[1])
    /\ frame # None =>
          /\ frame.payload[Len(frame.payload)] \in Byte
          /\ Source!Before(frame.payload[Len(frame.payload)], Filled(p)[1])

\* It is unbroken if it is of one scan, ends with the packet, and begins after the
\* newest frame.
LEMMA FilledIsGood ==
    ASSUME BufferInv, FrameInv, WireInv, NEW p \in Packet, wire # <<>>, p = wire[1], IsPacket(p)
    PROVE  Good(p)
<1> DEFINE b == p.payload
           l == LastOf(p)
           f == FirstOf(p)
<1>1. /\ b \in Seq(Byte) /\ b # <<>> /\ Len(b) \in Nat \ {0} /\ Unbroken(b)
      /\ f = b[1] /\ l = b[Len(b)] /\ f \in Sample /\ l \in Sample /\ ~Source!Before(l, f)
  BY PacketEnds, PacketIsRun DEF IsPacket, Packet, FirstOf, LastOf
<1>2. 1 \in 1 .. Len(wire)
  BY DEF WireInv
<1>3. \A x : Passed(x) => Source!Before(x, f)
  BY <1>2 DEF Passed, PassedAt
<1>4. ASSUME frame # None
      PROVE  \E y \in Byte : /\ y = frame.payload[Len(frame.payload)]
                             /\ Source!Before(y, f)
                             /\ buffer # <<>> => Source!Before(y, buffer[1])
  BY <1>3, <1>4 DEF FrameInv
<1>5. CASE Overflow(p) \/ Kept(p) = <<>>
  <2>a. <<>> \o b = b
    BY <1>1, ConcatEmptySeq
  <2>b. (IF Overflow(p) THEN <<>> ELSE Kept(p)) = <<>>
    BY <1>5
  <2>1. Filled(p) = b
    BY <2>a, <2>b DEF Filled
  <2>2. QED
    BY <1>1, <1>4, <2>1 DEF Good, MayHold
<1>6. CASE ~(Overflow(p) \/ Kept(p) = <<>>)
  <2>1. ~Gap(p) /\ buffer # <<>> /\ Filled(p) = buffer \o b
    BY <1>6 DEF Kept, Filled
  <2>2. PICK x \in Byte, n \in 1 .. MaxPackets :
            /\ x = buffer[Len(buffer)]
            /\ expectedSequence = n + 1
            /\ Passed(x)
            /\ Continues(x, n)
            /\ ~Source!Before(x, buffer[1])
    BY <2>1 DEF BufferInv
  <2>3. p.sequence = n + 1
    <3>1. n + 1 \in 0 .. SeqSpace - 1
      BY StreamAssumption, AssemblerAssumption
    <3>2. expectedSequence # None
      BY <2>2, <3>1, AssemblerAssumption
    <3>3. QED
      BY <2>1, <2>2, <3>2 DEF Gap
  <2>4. f.scan = x.scan => Follows(x, f)
    BY <1>2, <2>2, <2>3 DEF Continues, Follows
  <2>5. /\ buffer \in Seq(Byte) /\ Len(buffer) \in Nat \ {0}
        /\ buffer[1] \in Byte /\ (OneScan(buffer) => Unbroken(buffer))
    BY <2>1 DEF BufferInv, MayHold
  <2> DEFINE u == buffer \o b
  <2>6. /\ u \in Seq(Byte) /\ u # <<>> /\ Len(u) = Len(buffer) + Len(b)
        /\ \A i \in 1 .. Len(buffer) : u[i] = buffer[i]
        /\ \A i \in 1 .. Len(b) : u[Len(buffer) + i] = b[i]
    BY <1>1, <2>5
  <2> HIDE DEF u, b
  <2>7. u[1] = buffer[1] /\ u[Len(u)] = l
    BY <1>1, <2>5, <2>6
  <2>8. ASSUME OneScan(u) PROVE Unbroken(u)
    <3>1. OneScan(buffer)
      <4>1. \A i \in 1 .. Len(buffer) : i \in 1 .. Len(u)
        BY <1>1, <2>5, <2>6
      <4>2. QED
        BY <2>6, <2>8, <4>1 DEF OneScan
    <3>2. f.scan = x.scan
      <4>1. /\ Len(buffer) \in 1 .. Len(u) /\ Len(buffer) + 1 \in 1 .. Len(u)
            /\ Len(buffer) \in 1 .. Len(buffer) /\ 1 \in 1 .. Len(b)
        BY <1>1, <2>5, <2>6
      <4>2. u[Len(buffer)] = x /\ u[Len(buffer) + 1] = f
        BY <1>1, <2>2, <2>6, <4>1
      <4>3. QED
        BY <2>8, <4>1, <4>2 DEF OneScan
    <3>3. Follows(buffer[Len(buffer)], b[1])
      BY <1>1, <2>2, <2>4, <3>2
    <3>4. QED
      BY <1>1, <2>1, <2>5, <3>1, <3>3, RunsJoin DEF u
  <2>9. ~Source!Before(l, buffer[1])
    <3>1. x \in Sample /\ buffer[1] \in Sample /\ Source!Before(x, f)
      BY <1>3, <2>2, <2>5, ByteIsSample
    <3>2. QED
      BY <1>1, <2>2, <3>1 DEF Source!Before, Sample
  <2>10. Filled(p) = u
    BY <2>1 DEF u, b
  <2>11. QED
    BY <1>4, <2>1, <2>6, <2>7, <2>8, <2>9, <2>10 DEF Good, MayHold
<1>7. QED
  BY <1>5, <1>6

\* The numbers of a scan stay below 2^48.
LEMMA NumbersDoNotWrap ==
    ASSUME NEW n \in 1 .. MaxPackets PROVE n \in SeqNo /\ NextSeq(n) = n + 1
<1>1. n \in Nat /\ n + 1 < SeqSpace /\ SeqSpace \in Nat
  BY StreamAssumption, AssemblerAssumption
<1>2. n \in SeqNo
  BY <1>1 DEF SeqNo
<1>3. (n + 1) % SeqSpace = n + 1
  BY <1>1
<1>4. QED
  BY <1>2, <1>3 DEF NextSeq

\* One turn of get_frame's loop keeps the order: a packet that was kept or that completed
\* a frame is the newest of what was read, and what is left on the wire is newer.
LEMMA DeliverPreserves ==
    ASSUME FpgaInv, WireInv, BufferInv, FrameInv, AssemblerInv, Deliver
    PROVE  /\ AssemblerInv' /\ WireInv' /\ BufferInv' /\ FrameInv'
           /\ frame' # frame =>
                /\ frame' \in FrameModel
                /\ frame'.payload[1] \in Sample
                /\ frame'.payload[Len(frame'.payload)] \in Sample
                /\ ~Source!Before(frame'.payload[Len(frame'.payload)], frame'.payload[1])
                /\ frame # None =>
                      Source!Before(frame.payload[Len(frame.payload)], frame'.payload[1])
<1>1. /\ wire # <<>> /\ wire \in Seq(Packet) /\ wire' = Tail(wire)
      /\ UNCHANGED fpgaVars
  BY DEF Deliver, WireInv
<1>2. /\ Head(wire) = wire[1] /\ 1 \in 1 .. Len(wire)
      /\ wire' \in Seq(Packet) /\ Thinned(wire', wire)
      /\ Len(wire') = Len(wire) - 1
      /\ \A i \in 1 .. Len(wire') : wire'[i] = wire[i + 1]
  BY <1>1, TailIsThinned
<1>3. PICK p \in Packet : p = wire[1] /\ InPlace(p, 1)
  BY <1>2 DEF WireInv
<1>4. /\ p \in AnyPacket /\ AddAdc(p) /\ IsPacket(p)
      /\ p.sequence \in 1 .. MaxPackets /\ NextSeq(p.sequence) = p.sequence + 1
  <2>1. p.sequence \in 1 .. MaxPackets /\ p.payload \in Seq(Byte)
    BY DEF Packet
  <2>2. p.sequence \in SeqNo /\ NextSeq(p.sequence) = p.sequence + 1
    BY <2>1, NumbersDoNotWrap
  <2>3. p \in AnyPacket
    BY <2>1, <2>2 DEF Packet, AnyPacket
  <2>4. QED
    BY <1>2, <1>3, <2>1, <2>2, <2>3 DEF Deliver, InPlace
<1>5. AssemblerInv'
  BY <1>4, AccumulatePreserves, CompletePreserves DEF AddAdc
<1>6. /\ \A x \in Byte : Passed(x) => Passed(x)'
      /\ \A x \in Byte, n \in 1 .. MaxPackets : Continues(x, n) => Continues(x, n)'
      /\ WireInv'
  BY <1>1, <1>2, ThinnedWire
<1>7. LastOf(p) \in Byte /\ LastOf(p) \in Sample
  BY <1>4, PacketEnds
<1>8. Passed(LastOf(p))'
  <2>1. UNCHANGED <<scan, sent>>
    BY <1>1 DEF fpgaVars
  <2>2. ASSUME NEW j \in 1 .. Len(wire') PROVE Source!Before(LastOf(p), FirstOf(wire'[j]))
    <3>1. j + 1 \in 1 .. Len(wire) /\ 1 < j + 1 /\ wire'[j] = wire[j + 1]
      BY <1>1, <1>2
    <3>2. QED
      BY <1>3, <3>1 DEF InPlace, PassedAt
  <2>3. QED
    BY <1>3, <2>1, <2>2 DEF InPlace, Passed, PassedAt
<1>9. Continues(LastOf(p), p.sequence)'
  BY <1>3, <1>4, <1>6, <1>7 DEF InPlace
<1>10. Good(p)
  BY <1>1, <1>3, <1>4, FilledIsGood
<1>11. Filled(p)[1] \in Byte /\ Filled(p)[1] \in Sample
  <2>1. Filled(p) \in Seq(Byte) /\ Filled(p) # <<>>
    BY <1>10 DEF Good, MayHold
  <2>2. Filled(p)[1] \in Byte
    BY <2>1
  <2>3. QED
    BY <2>2, ByteIsSample
<1>12. CASE Accumulate(p)
  <2>1. buffer' = Filled(p) /\ frame' = frame /\ expectedSequence' = p.sequence + 1
    BY <1>4, <1>12 DEF Accumulate, AddAdc
  <2>2. BufferInv'
    <3>1. /\ MayHold(buffer')
          /\ LastOf(p) = buffer'[Len(buffer')] /\ ~Source!Before(LastOf(p), buffer'[1])
      BY <1>10, <2>1 DEF Good
    <3>2. QED
      BY <1>4, <1>7, <1>8, <1>9, <2>1, <3>1 DEF BufferInv
  <2>3. FrameInv'
    <3>1. CASE frame = None
      BY <2>1, <3>1 DEF FrameInv
    <3>2. CASE frame # None
      <4>1. PICK y \in Byte : y = frame.payload[Len(frame.payload)] /\ Passed(y)
        BY <3>2 DEF FrameInv
      <4>2. Passed(y)' /\ Source!Before(y, buffer'[1])
        BY <1>6, <1>10, <2>1, <3>2, <4>1 DEF Good
      <4>3. /\ MayHold(frame.payload) /\ frame.payload # <<>>
            /\ ~Source!Before(frame.payload[Len(frame.payload)], frame.payload[1])
        BY <3>2 DEF FrameInv
      <4>4. QED
        BY <2>1, <4>1, <4>2, <4>3 DEF FrameInv
    <3>3. QED
      BY <3>1, <3>2
  <2>4. QED
    BY <1>5, <1>6, <2>1, <2>2, <2>3
<1>13. CASE Complete(p)
  <2>1. buffer' = <<>> /\ frame'.payload = Filled(p)
    BY <1>13 DEF Complete
  <2>2. frame' \in FrameModel
    <3>1. AssemblerTypeOK
      BY DEF AssemblerInv
    <3>2. First(p) \in SeqNo /\ Run(p) \in Seq(SeqNo) /\ Lost(p) \in Nat /\ Filled(p) \in Seq(Byte)
      BY <1>4, <3>1, DecisionsType
    <3>3. p.sequence \in SeqNo
      BY <1>4 DEF AnyPacket
    <3>4. QED
      BY <1>13, <3>2, <3>3 DEF Complete, FrameModel
  <2>3. BufferInv'
    BY <2>1 DEF BufferInv, MayHold, Unbroken
  <2>4. LastOf(p) = frame'.payload[Len(frame'.payload)]
    BY <1>10, <2>1 DEF Good
  <2>5. FrameInv'
    <3>1. /\ MayHold(frame'.payload) /\ frame'.payload # <<>>
          /\ ~Source!Before(frame'.payload[Len(frame'.payload)], frame'.payload[1])
      BY <1>10, <2>1, <2>4 DEF Good
    <3>2. QED
      BY <1>7, <1>8, <2>1, <2>4, <3>1 DEF FrameInv
  <2>6. /\ frame'.payload[1] \in Sample
        /\ frame'.payload[Len(frame'.payload)] \in Sample
        /\ ~Source!Before(frame'.payload[Len(frame'.payload)], frame'.payload[1])
        /\ frame # None => Source!Before(frame.payload[Len(frame.payload)], frame'.payload[1])
    BY <1>7, <1>10, <1>11, <2>1, <2>4 DEF Good
  <2>7. QED
    BY <1>5, <1>6, <2>2, <2>3, <2>5, <2>6
<1>14. QED
  BY <1>4, <1>12, <1>13 DEF AddAdc
-----------------------------------------------------------------------------
(***************************************************************************)
(* The whole path.                                                         *)
(***************************************************************************)
\* The scan of a packet on the wire is one of those that were started.
LEMMA ScanOfWire ==
    ASSUME WireInv, NEW i \in 1 .. Len(wire) PROVE ScanOf(wire[i]) \in 1 .. MaxScans
<1>1. PICK p \in Packet : p = wire[i] /\ InPlace(p, i)
  BY DEF WireInv
<1>2. FirstOf(p) \in Byte
  BY <1>1, PacketEnds DEF InPlace
<1>3. QED
  BY <1>1, <1>2, ByteIsSample DEF ScanOf, FirstOf

\* So are those of the samples the host holds.
LEMMA ScansOfBytes ==
    ASSUME NEW s \in Seq(Byte) PROVE ScansOf(s) \subseteq 1 .. MaxScans
<1>1. ASSUME NEW i \in 1 .. Len(s) PROVE s[i].scan \in 1 .. MaxScans
  <2>1. s[i] \in Byte
    OBVIOUS
  <2>2. QED
    BY <2>1, ByteIsSample
<1>2. QED
  BY <1>1 DEF ScansOf

\* What is lost, on the way, in the queue of a socket that is closed, or at a port
\* nobody listens to, is taken off the wire and changes nothing else that matters.
LEMMA LossPreserves ==
    ASSUME StreamInv, LosePacket \/ Unheard \/ StopReceiving \/ StartReceiving
    PROVE  StreamInv' /\ frame' = frame
<1> USE DEF StreamInv
<1>1. /\ UNCHANGED fpgaVars /\ FpgaInv /\ WireInv /\ wire \in Seq(Packet)
      /\ receiving' \in BOOLEAN
  BY DEF LosePacket, Unheard, StopReceiving, StartReceiving, WireInv
<1>2. /\ \A x \in Byte : Passed(x) => Passed(x)'
      /\ \A x \in Byte, n \in 1 .. MaxPackets : Continues(x, n) => Continues(x, n)'
      /\ WireInv'
  <2>1. CASE UNCHANGED wire
    BY <1>1, <2>1 DEF fpgaVars, WireInv, InPlace, Passed, PassedAt, Continues
  <2>2. CASE LosePacket
    BY <1>1, <2>2, RemovedIsThinned, ThinnedWire DEF LosePacket
  <2>3. CASE Unheard
    BY <1>1, <2>3, TailIsThinned, ThinnedWire DEF Unheard
  <2>4. CASE StopReceiving
    BY <1>1, <2>4, RestIsThinned, ThinnedWire DEF StopReceiving
  <2>5. QED
    BY <2>1, <2>2, <2>3, <2>4 DEF StartReceiving
<1>3. FpgaInv'
  BY <1>1 DEF fpgaVars, FpgaInv
<1>4. damaged' \subseteq 1 .. MaxScans
  <2>1. CASE LosePacket
    BY <2>1, ScanOfWire DEF LosePacket
  <2>2. CASE Unheard
    BY <1>1, <2>2, ScanOfWire, TailIsThinned DEF Unheard
  <2>3. CASE StopReceiving
    <3>1. ScansOf(buffer) \subseteq 1 .. MaxScans
      BY ScansOfBytes DEF BufferInv, MayHold
    <3>2. PICK n \in 0 .. Len(wire) :
              damaged' = damaged \cup ScansOf(buffer) \cup {ScanOf(wire[i]) : i \in 1 .. n}
      BY <2>3 DEF StopReceiving
    <3>3. ASSUME NEW i \in 1 .. n PROVE ScanOf(wire[i]) \in 1 .. MaxScans
      BY <1>1, ScanOfWire
    <3>4. QED
      BY <3>1, <3>2, <3>3
  <2>4. CASE StartReceiving
    BY <2>4 DEF StartReceiving
  <2>5. QED
    BY <2>1, <2>2, <2>3, <2>4
<1>5. CASE LosePacket \/ Unheard
  <2>1. UNCHANGED assemblerVars
    BY <1>5 DEF LosePacket, Unheard
  <2>2. AssemblerInv'
    BY <2>1 DEF assemblerVars, AssemblerInv, AssemblerTypeOK, FrameIsOneRun, PartialIsOneRun
  <2>3. BufferInv' /\ FrameInv' /\ frame' = frame
    BY <1>2, <2>1, HeldIsKept DEF assemblerVars
  <2>4. QED
    BY <1>1, <1>2, <1>3, <1>4, <2>2, <2>3
<1>6. CASE StopReceiving \/ StartReceiving
  <2>1. buffer' = <<>> /\ UNCHANGED frame
    BY <1>6 DEF StopReceiving, StartReceiving, Reset
  <2>2. AssemblerInv'
    <3>1. CASE StopReceiving
      BY <3>1, ResetPreserves DEF StopReceiving
    <3>2. CASE StartReceiving
      BY <3>2 DEF StartReceiving, AssemblerInv, AssemblerTypeOK, Stats, FrameIsOneRun, PartialIsOneRun
    <3>3. QED
      BY <1>6, <3>1, <3>2
  <2>3. BufferInv' /\ FrameInv'
    BY <1>2, <2>1, NothingIsHeld
  <2>4. QED
    BY <1>1, <1>2, <1>3, <1>4, <2>1, <2>2, <2>3
<1>7. QED
  BY <1>5, <1>6

\* The FPGA's steps leave the host alone.
LEMMA FpgaPreserves ==
    ASSUME StreamInv, StartScan \/ StopScan \/ SendPacket
    PROVE  StreamInv' /\ frame' = frame
<1>1. UNCHANGED <<assemblerVars, receiving, damaged>>
  BY DEF StartScan, StopScan, SendPacket
<1>2. /\ FpgaInv' /\ WireInv'
      /\ \A x \in Byte : Passed(x) => Passed(x)'
      /\ \A x \in Byte, n \in 1 .. MaxPackets : Continues(x, n) => Continues(x, n)'
  BY ScanSwitches, SentComesLast DEF StreamInv
<1>3. BufferInv' /\ FrameInv'
  BY <1>1, <1>2, HeldIsKept DEF StreamInv
<1>4. AssemblerInv' /\ frame' = frame
  BY <1>1 DEF StreamInv, assemblerVars, AssemblerInv, AssemblerTypeOK, FrameIsOneRun, PartialIsOneRun
<1>5. QED
  BY <1>1, <1>2, <1>3, <1>4 DEF StreamInv

\* Before the first scan nothing has been sent and nothing is held.
LEMMA StreamStarts == Init => StreamInv
<1> SUFFICES ASSUME Init PROVE StreamInv
  OBVIOUS
<1>1. AssemblerInv /\ buffer = <<>> /\ frame = None
  BY AssemblerStarts DEF Init, AssemblerInit
<1>2. FpgaInv
  <2>1. /\ 1 \in 1 .. MaxPackets + 1 /\ 0 \in 0 .. FrameBytes - 1 /\ 0 \in 0 .. MaxScans
        /\ 0 \in 0 .. MaxSent
    BY StreamAssumption, ByteIsSample
  <2>2. QED
    BY <2>1 DEF Init, FpgaInv
<1>3. WireInv
  BY DEF Init, WireInv
<1>4. BufferInv /\ FrameInv
  BY <1>1 DEF BufferInv, FrameInv, MayHold, Unbroken
<1>5. QED
  BY <1>1, <1>2, <1>3, <1>4 DEF Init, StreamInv

\* No step of the FPGA, the network, the receiver or the user takes the order away.
LEMMA StreamPreserved == StreamInv /\ [Next]_vars => StreamInv'
<1> SUFFICES ASSUME StreamInv, [Next]_vars PROVE StreamInv'
  OBVIOUS
<1>1. CASE StartScan \/ StopScan \/ SendPacket
  BY <1>1, FpgaPreserves
<1>2. CASE LosePacket \/ Unheard \/ StopReceiving \/ StartReceiving
  BY <1>2, LossPreserves
<1>3. CASE Deliver
  <2>1. UNCHANGED <<fpgaVars, receiving, damaged>>
    BY <1>3 DEF Deliver
  <2>2. FpgaInv'
    BY <2>1 DEF fpgaVars, FpgaInv, StreamInv
  <2>3. QED
    BY <1>3, <2>1, <2>2, DeliverPreserves DEF StreamInv
<1>4. CASE UNCHANGED vars
  <2>1. UNCHANGED <<assemblerVars, fpgaVars, wire, receiving, damaged>>
    BY <1>4 DEF vars, streamVars, fpgaVars
  <2>2. /\ \A x \in Byte : Passed(x) => Passed(x)'
        /\ \A x \in Byte, n \in 1 .. MaxPackets : Continues(x, n) => Continues(x, n)'
        /\ WireInv' /\ FpgaInv'
    BY <2>1 DEF StreamInv, fpgaVars, FpgaInv, WireInv, InPlace, Passed, PassedAt, Continues
  <2>3. BufferInv' /\ FrameInv'
    BY <2>1, <2>2, HeldIsKept DEF StreamInv
  <2>4. AssemblerInv'
    BY <2>1 DEF StreamInv, assemblerVars, AssemblerInv, AssemblerTypeOK, FrameIsOneRun, PartialIsOneRun
  <2>5. QED
    BY <2>1, <2>2, <2>3, <2>4 DEF StreamInv
<1>5. QED
  BY <1>1, <1>2, <1>3, <1>4 DEF Next

\* Every packet on the wire, every sample held and every frame shown has its place in
\* the order in which the FPGA took the samples.
THEOREM StreamInvariance == Spec => []StreamInv
BY StreamStarts, StreamPreserved, PTL DEF Spec

\* The counters of LAN_TX_FREAME, the wire and the assembler keep their types, within
\* the bounds of the model.
THEOREM StreamTyped == Spec => []TypeOK
<1>1. StreamInv => TypeOK
  <2> SUFFICES ASSUME StreamInv PROVE TypeOK
    OBVIOUS
  <2>1. packageCount \in SeqNo
    <3>1. packageCount \in Nat /\ packageCount < SeqSpace /\ SeqSpace \in Nat
      BY StreamAssumption, AssemblerAssumption DEF StreamInv, FpgaInv
    <3>2. QED
      BY <3>1 DEF SeqNo
  <2>2. wire \in Seq([sequence : SeqNo, payload : Seq(Byte)])
    <3>1. \A p \in Packet : p \in [sequence : SeqNo, payload : Seq(Byte)]
      BY NumbersDoNotWrap DEF Packet
    <3>2. wire \in Seq(Packet)
      BY DEF StreamInv, WireInv
    <3>3. QED
      BY <3>1, <3>2, SeqMonotonic
  <2>3. sent \in Nat
    BY ByteIsSample DEF StreamInv, FpgaInv
  <2>4. QED
    BY <2>1, <2>2, <2>3 DEF StreamInv, AssemblerInv, FpgaInv, TypeOK
<1>2. QED
  BY <1>1, StreamInvariance, PTL

\* A frame whose samples are all of one scan has no hole, nothing twice and nothing out
\* of place, for any sizes and whatever was lost: the numbers of the packets are enough
\* for that, although nothing marks where a frame begins.
THEOREM OneScanFrameIsUnbrokenAlways == Spec => []OneScanFrameIsUnbroken
<1>1. StreamInv => OneScanFrameIsUnbroken
  <2> SUFFICES ASSUME StreamInv, frame # None, ScansOf(frame.payload) = {frame.payload[1].scan}
               PROVE  Unbroken(frame.payload)
    BY DEF OneScanFrameIsUnbroken
  <2>1. MayHold(frame.payload)
    BY DEF StreamInv, FrameInv
  <2>2. \A i \in 1 .. Len(frame.payload) : frame.payload[i].scan \in ScansOf(frame.payload)
    BY DEF ScansOf
  <2>3. OneScan(frame.payload)
    BY <2>2 DEF OneScan
  <2>4. QED
    BY <2>1, <2>3 DEF MayHold
<1>2. QED
  BY <1>1, StreamInvariance, PTL

\* The image path implements FrameSource: what the host shows, one frame after the
\* other, is in the order in which the samples were taken, and no sample is in two
\* frames, through losses, restarts of the receiver and restarts of the scan.
THEOREM FramesInOrderAlways == Spec => FramesInOrder
<1>1. Init => Source!Init
  BY DEF Init, AssemblerInit, Source!Init, NewestFrame
<1>2. ASSUME StreamInv, [Next]_vars PROVE [Source!Show]_NewestFrame
  <2>1. CASE frame' = frame
    BY <2>1 DEF NewestFrame
  <2>2. CASE frame' # frame
    <3>1. Deliver
      BY <1>2, <2>2, FpgaPreserves, LossPreserves DEF Next, vars, assemblerVars
    <3> DEFINE first == frame'.payload[1]
               last == frame'.payload[Len(frame'.payload)]
    <3>2. /\ frame' \in FrameModel /\ first \in Sample /\ last \in Sample
          /\ ~Source!Before(last, first)
          /\ frame # None => Source!Before(frame.payload[Len(frame.payload)], first)
      BY <1>2, <2>2, <3>1, DeliverPreserves DEF StreamInv
    <3>3. frame' # None
      BY <3>2, StreamAssumption
    <3>4. NewestFrame' = [first |-> first, last |-> last]
      BY <3>3 DEF NewestFrame
    <3> HIDE DEF first, last
    <3>5. NewestFrame' \in [first : Source!Sample, last : Source!Sample]
      BY <3>2, <3>4 DEF Sample, Source!Sample
    <3>6. ~Source!Before(NewestFrame'.last, NewestFrame'.first)
      BY <3>2, <3>4
    <3>7. NewestFrame # None => Source!Before(NewestFrame.last, NewestFrame'.first)
      BY <3>2, <3>4 DEF NewestFrame
    <3>8. QED
      BY <3>5, <3>6, <3>7 DEF Source!Show
  <2>3. QED
    BY <2>1, <2>2
<1>3. QED
  BY <1>1, <1>2, StreamInvariance, PTL DEF Spec, FramesInOrder, Source!Spec
-----------------------------------------------------------------------------
(***************************************************************************)
(* Where a frame of the host begins in a frame of the FPGA.                *)
(***************************************************************************)
\* The bytes of its frame that come before the sample.
PlaceOf(at) == (at - 1) % FrameBytes

\* Packet n of a scan begins with sample at: q frames were sent before, and r full
\* packets of this one.
Placed(n, at) ==
    \E q, r \in Nat :
        /\ n = PacketsPerFrame * q + r + 1
        /\ at = FrameBytes * q + PacketBytes * r + 1
        /\ PacketBytes * r < FrameBytes

\* A packet never holds the end of one frame and the beginning of the next.
Fits(p) ==
    /\ Placed(p.sequence, FirstOf(p).at)
    /\ PlaceOf(FirstOf(p).at) + Len(p.payload) <= FrameBytes

\* What the packetizer will send next; between scans it is back at the beginning.
NextPlaced ==
    IF scanState
    THEN \E q, r \in Nat :
            /\ packageCount = PacketsPerFrame * q + r + 1
            /\ txByteCount = PacketBytes * r
            /\ sent = FrameBytes * q + txByteCount
    ELSE packageCount = 1 /\ txByteCount = 0

\* What the host holds and shows begins with the first sample of the packet whose number
\* it remembers.
HeldPlaced ==
    /\ firstSequence = None <=> buffer = <<>>
    /\ buffer # <<>> => Placed(firstSequence, buffer[1].at)
    /\ frame # None => Placed(frame.sequence_start, frame.payload[1].at)

NumberInv ==
    /\ NextPlaced
    /\ \A i \in 1 .. Len(wire) : Fits(wire[i])
    /\ HeldPlaced

\* Quotient and remainder.
LEMMA DivMod ==
    ASSUME NEW a \in Nat, NEW d \in Nat \ {0}
    PROVE  /\ a \div d \in Nat
           /\ a % d \in 0 .. d - 1
           /\ a = d * (a \div d) + (a % d)
OBVIOUS

LEMMA DivModUnique ==
    ASSUME NEW q \in Nat, NEW r \in Nat, NEW d \in Nat \ {0}, r < d
    PROVE  (d * q + r) % d = r /\ (d * q + r) \div d = q
OBVIOUS

\* Going on inside of a block of d, or to its end.
LEMMA AddMod ==
    ASSUME NEW a \in Nat, NEW b \in Nat, NEW d \in Nat \ {0}, (a % d) + b <= d
    PROVE  (a + b) % d = IF (a % d) + b = d THEN 0 ELSE (a % d) + b
<1>1. PICK q \in Nat : q = a \div d
  BY DivMod
<1>2. PICK r \in Nat : r = a % d /\ r < d
  BY DivMod
<1>3. a = d * q + r
  BY DivMod, <1>1, <1>2
<1>4. CASE r + b < d
  <2>1. a + b = d * q + (r + b)
    BY <1>3
  <2>2. (d * q + (r + b)) % d = r + b
    BY <1>4, DivModUnique
  <2>3. QED
    BY <1>2, <1>4, <2>1, <2>2
<1>5. CASE r + b = d
  <2>1. a + b = d * (q + 1) + 0
    BY <1>3, <1>5
  <2>2. (d * (q + 1) + 0) % d = 0
    BY DivModUnique
  <2>3. QED
    BY <1>2, <1>5, <2>1, <2>2
<1>6. QED
  BY <1>2, <1>4, <1>5

\* One more than a multiple of d is recognised by its remainder.
LEMMA OneMore ==
    ASSUME NEW a \in Nat, NEW d \in Nat \ {0}
    PROVE  (a + 1) % d = 1 % d <=> a % d = 0
<1>1. CASE d = 1
  <2>1. \A x \in Nat : x % 1 = 0
    OBVIOUS
  <2>2. QED
    BY <1>1, <2>1
<1>2. CASE d # 1
  <2>1. PICK r \in Nat : r = a % d /\ r < d
    BY DivMod
  <2>a. 1 \in Nat /\ (a % d) + 1 <= d
    BY <2>1
  <2>b. (a + 1) % d = IF (a % d) + 1 = d THEN 0 ELSE (a % d) + 1
    BY <2>a, AddMod
  <2>2. (a + 1) % d = IF r + 1 = d THEN 0 ELSE r + 1
    BY <2>1, <2>b
  <2>3. 1 % d = 1
    BY <1>2
  <2>4. QED
    BY <2>1, <2>2, <2>3
<1>3. QED
  BY <1>1, <1>2

\* A frame is as many packets as it takes.
LEMMA PacketsOfFrame ==
    /\ PacketsPerFrame \in Nat \ {0}
    /\ \A r \in Nat : PacketBytes * r < FrameBytes => r < PacketsPerFrame
    /\ \A r \in Nat : PacketBytes * r < FrameBytes /\ FrameBytes <= PacketBytes * r + PacketBytes
          => PacketsPerFrame = r + 1
<1> DEFINE F == FrameBytes
           P == PacketBytes
           k == PacketsPerFrame
<1>1. F \in Nat \ {0} /\ P \in Nat \ {0}
  BY StreamAssumption
<1>a. PICK w \in Nat : w = F + P - 1
  BY <1>1
<1>2. PICK s \in Nat : s = w % P /\ s < P
  BY <1>1, DivMod
<1>b. k = w \div P
  BY <1>a DEF PacketsPerFrame
<1>3. k \in Nat /\ F + P - 1 = P * k + s
  BY <1>1, <1>2, <1>a, <1>b, DivMod
<1>4. ASSUME NEW r \in Nat, P * r < F, F <= P * r + P PROVE k = r + 1
  <2>1. PICK t \in Nat : t = F - 1 - P * r
    BY <1>1, <1>4
  <2>2. F + P - 1 = P * (r + 1) + t /\ t < P
    BY <1>1, <1>4, <2>1
  <2>3. (P * (r + 1) + t) \div P = r + 1
    BY <1>1, <2>2, DivModUnique
  <2>4. QED
    BY <2>2, <2>3 DEF PacketsPerFrame
<1> HIDE DEF F, P, k
<1>5. F <= P * k
  BY <1>1, <1>2, <1>3
<1>6. k # 0
  BY <1>1, <1>5
<1>7. ASSUME NEW r \in Nat, P * r < F PROVE r < k
  <2>1. CASE k <= r
    <3>1. P * k <= P * r
      BY <1>1, <1>3, <2>1
    <3>2. P * k \in Nat /\ P * r \in Nat
      BY <1>1, <1>3
    <3>3. QED
      BY <1>1, <1>5, <1>7, <3>1, <3>2
  <2>2. QED
    BY <1>3, <2>1
<1>8. QED
  BY <1>3, <1>4, <1>6, <1>7 DEF F, P, k

\* The number of a packet and the place of its first sample tell the same.
LEMMA NumberTellsPlace ==
    ASSUME NEW n, NEW at, Placed(n, at)
    PROVE  /\ n \in Nat \ {0} /\ at \in Nat \ {0}
           /\ PlaceOf(at) = 0 <=> at % FrameBytes = 1 % FrameBytes
           /\ PlaceOf(at) = 0 <=> n % PacketsPerFrame = 1 % PacketsPerFrame
           /\ n = 1 => PlaceOf(at) = 0
<1> DEFINE F == FrameBytes
           P == PacketBytes
           k == PacketsPerFrame
<1>1. F \in Nat \ {0} /\ P \in Nat \ {0} /\ k \in Nat \ {0}
  BY StreamAssumption, PacketsOfFrame
<1>2. PICK q \in Nat, r \in Nat : n = k * q + r + 1 /\ at = F * q + P * r + 1 /\ P * r < F
  BY DEF Placed
<1>3. r < k
  BY <1>2, PacketsOfFrame
<1> HIDE DEF F, P, k
<1>4. PICK c \in Nat : c = P * r
  BY <1>1
<1>5. PICK a \in Nat, b \in Nat : a = k * q + r /\ b = F * q + c
  BY <1>1
<1>6. n = a + 1 /\ at = b + 1
  BY <1>2, <1>4, <1>5
<1>7. a % k = r /\ b % F = c
  BY <1>1, <1>2, <1>3, <1>4, <1>5, DivModUnique
<1>8. r = 0 <=> c = 0
  BY <1>1, <1>4
<1>9. at - 1 = b
  BY <1>6
<1>10. PlaceOf(at) = c
  BY <1>7, <1>9 DEF PlaceOf, F
<1>11. at % F = 1 % F <=> c = 0
  BY <1>1, <1>6, <1>7, OneMore
<1>12. n % k = 1 % k <=> r = 0
  BY <1>1, <1>6, <1>7, OneMore
<1>13. n = 1 => r = 0
  <2>1. k * q \in Nat
    BY <1>1
  <2>2. QED
    BY <1>5, <1>6, <2>1
<1>14. QED
  BY <1>6, <1>8, <1>10, <1>11, <1>12, <1>13 DEF F, k

\* The next packet goes on where the last one ended, and ends with its frame at the latest.
LEMMA NextPacketPlaced ==
    ASSUME FpgaInv, NextPlaced, SendPacket
    PROVE  NextPlaced' /\ Fits(NewPacket)
<1> DEFINE F == FrameBytes
           P == PacketBytes
           k == PacketsPerFrame
<1>1. F \in Nat \ {0} /\ P \in Nat \ {0} /\ k \in Nat \ {0}
  BY StreamAssumption, PacketsOfFrame
<1>2. PICK q \in Nat, r \in Nat :
          packageCount = k * q + r + 1 /\ txByteCount = P * r /\ sent = F * q + txByteCount
  BY DEF SendPacket, NextPlaced
<1>s. scanState'
  BY DEF SendPacket
<1>3. /\ packageCount' = packageCount + 1 /\ IsPacket(NewPacket)
      /\ FirstOf(NewPacket).at = sent + 1 /\ NewPacket.sequence = packageCount
  BY NewPacketIsPacket
<1>4. PICK c \in Nat : c = txByteCount /\ c < F
  BY <1>1 DEF FpgaInv
<1>5. PICK n \in Nat : n = PayloadBytes /\ n = IF F - c < P THEN F - c ELSE P
  BY <1>1, <1>4 DEF PayloadBytes, Min2, RemainByteCount
<1>6. sent' = sent + n /\ txByteCount' = IF F - c > P THEN c + P ELSE 0
  BY <1>4, <1>5 DEF SendPacket, RemainByteCount
<1>7. Len(NewPacket.payload) = n
  BY <1>5 DEF NewPacket, Samples
<1>8. PICK m \in Nat : m = F * q
  BY <1>1
<1>9. sent = m + c /\ c = P * r
  BY <1>2, <1>4, <1>8
<1>10. Fits(NewPacket)
  <2>1. Placed(packageCount, sent + 1)
    <3>1. sent + 1 = F * q + P * r + 1
      BY <1>8, <1>9
    <3>2. QED
      BY <1>2, <1>4, <1>9, <3>1 DEF Placed
  <2>2. PlaceOf(sent + 1) = c
    <3>1. (sent + 1) - 1 = F * q + c
      BY <1>8, <1>9
    <3>2. (F * q + c) % F = c
      BY <1>1, <1>4, DivModUnique
    <3>3. QED
      BY <3>1, <3>2 DEF PlaceOf
  <2>3. c + n <= F
    BY <1>1, <1>4, <1>5
  <2>4. QED
    BY <1>3, <1>7, <2>1, <2>2, <2>3 DEF Fits
<1>11. CASE F - c > P
  <2>1. txByteCount' = c + P /\ n = P
    BY <1>1, <1>4, <1>5, <1>6, <1>11
  <2>2. c + P = P * (r + 1)
    BY <1>1, <1>9
  <2>3. sent' = F * q + (c + P)
    BY <1>1, <1>6, <1>8, <1>9, <2>1
  <2>4. packageCount' = k * q + (r + 1) + 1
    <3>1. PICK j \in Nat : j = k * q
      BY <1>1
    <3>2. QED
      BY <1>2, <1>3, <3>1
  <2>5. r + 1 \in Nat
    OBVIOUS
  <2> HIDE DEF F, P, k
  <2>6. QED
    BY <1>s, <1>10, <2>1, <2>2, <2>3, <2>4, <2>5 DEF NextPlaced, F, P, k
<1>12. CASE ~(F - c > P)
  <2>1. txByteCount' = 0 /\ n = F - c
    BY <1>1, <1>4, <1>5, <1>6, <1>12
  <2>2. k = r + 1
    <3>1. P * r < F /\ F <= P * r + P
      BY <1>1, <1>4, <1>9, <1>12
    <3>2. QED
      BY <3>1, PacketsOfFrame
  <2>3. sent' = F * (q + 1) + 0
    <3>1. sent' = m + F
      BY <1>1, <1>4, <1>6, <1>9, <2>1
    <3>2. F * (q + 1) = F * q + F
      BY <1>1
    <3>3. QED
      BY <1>1, <1>8, <3>1, <3>2
  <2>4. packageCount' = k * (q + 1) + 0 + 1
    <3>1. PICK j \in Nat : j = k * q
      BY <1>1
    <3>2. packageCount' = j + k + 1
      BY <1>2, <1>3, <2>2, <3>1
    <3>3. k * (q + 1) = k * q + k
      BY <1>1
    <3>4. QED
      BY <1>1, <3>1, <3>2, <3>3
  <2>5. q + 1 \in Nat /\ P * 0 = 0
    BY <1>1
  <2> HIDE DEF F, P, k
  <2>6. QED
    BY <1>s, <1>10, <2>1, <2>3, <2>4, <2>5 DEF NextPlaced, F, P, k
<1>13. QED
  BY <1>11, <1>12


\* What add_packet puts together begins with the packet whose number it remembers.
LEMMA FilledBegins ==
    ASSUME AssemblerTypeOK, HeldPlaced, NEW p \in Packet, IsPacket(p), Fits(p)
    PROVE  /\ First(p) # None
           /\ Filled(p) # <<>>
           /\ Placed(First(p), Filled(p)[1].at)
<1> DEFINE b == p.payload
<1>1. b \in Seq(Byte) /\ b # <<>> /\ p.sequence \in SeqNo /\ p.sequence # None
  BY NumbersDoNotWrap, AssemblerAssumption DEF Packet, IsPacket, SeqNo
<1>2. buffer \in Seq(Byte)
  BY DEF AssemblerTypeOK
<1>3. CASE Restarts(p)
  <2>1. (IF Overflow(p) THEN <<>> ELSE Kept(p)) = <<>>
    BY <1>3 DEF Restarts, Kept, HeldPlaced
  <2>2. <<>> \o b = b
    BY <1>1, ConcatEmptySeq
  <2>3. Filled(p) = b /\ First(p) = p.sequence
    BY <1>3, <2>1, <2>2 DEF Filled, First
  <2>4. QED
    BY <1>1, <2>3 DEF Fits, FirstOf
<1>4. CASE ~Restarts(p)
  <2>1. Filled(p) = buffer \o b /\ First(p) = firstSequence /\ firstSequence # None
    BY <1>4 DEF Restarts, Kept, Filled, First
  <2>2. buffer # <<>> /\ Placed(firstSequence, buffer[1].at)
    BY <2>1 DEF HeldPlaced
  <2>3. buffer \o b # <<>> /\ (buffer \o b)[1] = buffer[1]
    BY <1>1, <1>2, <2>2
  <2>4. QED
    BY <2>1, <2>2, <2>3
<1>5. QED
  BY <1>3, <1>4

\* What is taken off the wire was in its place.
LEMMA FitsThinned ==
    ASSUME \A i \in 1 .. Len(wire) : Fits(wire[i]), Thinned(wire', wire)
    PROVE  \A i \in 1 .. Len(wire') : Fits(wire'[i])
<1>1. PICK f \in [1 .. Len(wire') -> 1 .. Len(wire)] : \A i \in 1 .. Len(wire') : wire'[i] = wire[f[i]]
  BY DEF Thinned
<1>2. QED
  BY <1>1

\* Every step keeps numbers and places together.
LEMMA NumbersPreserved == StreamInv /\ NumberInv /\ [Next]_vars => NumberInv'
<1> SUFFICES ASSUME StreamInv, NumberInv, [Next]_vars PROVE NumberInv'
  OBVIOUS
<1>1. /\ wire \in Seq(Packet) /\ AssemblerTypeOK /\ FpgaInv
      /\ NextPlaced /\ HeldPlaced /\ \A i \in 1 .. Len(wire) : Fits(wire[i])
  BY DEF StreamInv, WireInv, AssemblerInv, NumberInv
<1>2. ASSUME UNCHANGED assemblerVars PROVE HeldPlaced'
  BY <1>1, <1>2 DEF assemblerVars, HeldPlaced
<1>3. ASSUME UNCHANGED fpgaVars PROVE NextPlaced'
  BY <1>1, <1>3 DEF fpgaVars, NextPlaced
<1>4. CASE StartScan \/ StopScan
  <2>1. UNCHANGED <<wire, assemblerVars>>
    BY <1>4 DEF StartScan, StopScan
  <2>2. NextPlaced'
    <3>1. CASE StopScan
      BY <3>1 DEF StopScan, NextPlaced
    <3>2. CASE StartScan
      <4>1. /\ scanState' = TRUE /\ packageCount' = 1 /\ txByteCount' = 0 /\ sent' = 0
        BY <1>1, <3>2 DEF StartScan, NextPlaced
      <4>2. 1 = PacketsPerFrame * 0 + 0 + 1 /\ 0 = PacketBytes * 0 /\ 0 = FrameBytes * 0 + 0
        BY StreamAssumption, PacketsOfFrame
      <4>3. QED
        BY <4>1, <4>2 DEF NextPlaced
    <3>3. QED
      BY <1>4, <3>1, <3>2
  <2>3. QED
    BY <1>1, <1>2, <2>1, <2>2 DEF NumberInv
<1>5. CASE SendPacket
  <2>1. NextPlaced' /\ Fits(NewPacket) /\ UNCHANGED assemblerVars
    BY <1>1, <1>5, NextPacketPlaced DEF SendPacket
  <2>2. wire' = Append(wire, NewPacket)
    BY <1>5 DEF SendPacket, NewPacket
  <2>3. \A i \in 1 .. Len(wire') : Fits(wire'[i])
    BY <1>1, <2>1, <2>2
  <2>4. QED
    BY <1>2, <2>1, <2>3 DEF NumberInv
<1>6. CASE LosePacket \/ Unheard \/ StopReceiving \/ StartReceiving
  <2>1. NextPlaced'
    BY <1>3, <1>6 DEF LosePacket, Unheard, StopReceiving, StartReceiving
  <2>2. \A i \in 1 .. Len(wire') : Fits(wire'[i])
    <3>1. CASE LosePacket
      BY <1>1, <3>1, RemovedIsThinned, FitsThinned DEF LosePacket
    <3>2. CASE Unheard
      BY <1>1, <3>2, TailIsThinned, FitsThinned DEF Unheard
    <3>3. CASE StopReceiving
      BY <1>1, <3>3, RestIsThinned, FitsThinned DEF StopReceiving
    <3>4. CASE StartReceiving
      BY <1>1, <3>4 DEF StartReceiving
    <3>5. QED
      BY <1>6, <3>1, <3>2, <3>3, <3>4
  <2>3. HeldPlaced'
    <3>1. CASE LosePacket \/ Unheard
      BY <1>2, <3>1 DEF LosePacket, Unheard
    <3>2. CASE StopReceiving \/ StartReceiving
      <4>1. buffer' = <<>> /\ firstSequence' = None /\ UNCHANGED frame
        BY <3>2 DEF StopReceiving, StartReceiving, Reset
      <4>2. QED
        BY <1>1, <4>1 DEF HeldPlaced
    <3>3. QED
      BY <1>6, <3>1, <3>2
  <2>4. QED
    BY <2>1, <2>2, <2>3 DEF NumberInv
<1>7. CASE Deliver
  <2>1. wire # <<>> /\ wire' = Tail(wire) /\ UNCHANGED fpgaVars /\ AddAdc(wire[1])
    BY <1>1, <1>7, TailIsThinned DEF Deliver
  <2>2. 1 \in 1 .. Len(wire) /\ Thinned(wire', wire)
    BY <1>1, <2>1, TailIsThinned
  <2>3. PICK p \in Packet : p = wire[1] /\ IsPacket(p)
    BY <2>2 DEF StreamInv, WireInv, InPlace
  <2>4. First(p) # None /\ Filled(p) # <<>> /\ Placed(First(p), Filled(p)[1].at)
    BY <1>1, <2>2, <2>3, FilledBegins
  <2>5. HeldPlaced'
    <3>1. CASE Accumulate(p)
      BY <1>1, <2>4, <3>1 DEF Accumulate, HeldPlaced
    <3>2. CASE Complete(p)
      <4>1. buffer' = <<>> /\ firstSequence' = None
        BY <3>2 DEF Complete
      <4>2. frame'.payload = Filled(p) /\ frame'.sequence_start = First(p)
        BY <3>2 DEF Complete
      <4>3. QED
        BY <2>4, <4>1, <4>2 DEF HeldPlaced
    <3>3. QED
      BY <2>1, <2>3, <3>1, <3>2 DEF AddAdc
  <2>6. \A i \in 1 .. Len(wire') : Fits(wire'[i])
    BY <1>1, <2>2, FitsThinned
  <2>7. QED
    BY <1>3, <2>1, <2>5, <2>6 DEF NumberInv
<1>8. CASE UNCHANGED vars
  <2>1. UNCHANGED <<assemblerVars, fpgaVars, wire>>
    BY <1>8 DEF vars, streamVars, fpgaVars
  <2>2. QED
    BY <1>1, <1>2, <1>3, <2>1 DEF NumberInv
<1>9. QED
  BY <1>4, <1>5, <1>6, <1>7, <1>8 DEF Next

LEMMA NumbersKept == Spec => []NumberInv
<1>1. Init => NumberInv
  BY DEF Init, AssemblerInit, NumberInv, NextPlaced, HeldPlaced
<1>2. QED
  BY <1>1, StreamInvariance, NumbersPreserved, PTL DEF Spec

\* The number a frame of the host begins with tells whether it begins where a frame of
\* the FPGA does, for any sizes of frame and packet and whatever was lost before: the
\* shift that a loss leaves behind could be seen by the host, which never looks.
THEOREM FirstNumberTellsAlignmentAlways == Spec => []FirstNumberTellsAlignment
<1>1. NumberInv => FirstNumberTellsAlignment
  <2> SUFFICES ASSUME NumberInv, frame # None
               PROVE  (frame.payload[1].at % FrameBytes = 1 % FrameBytes)
                          <=> (frame.sequence_start % PacketsPerFrame = 1 % PacketsPerFrame)
    BY DEF FirstNumberTellsAlignment
  <2>1. Placed(frame.sequence_start, frame.payload[1].at)
    BY DEF NumberInv, HeldPlaced
  <2>2. QED
    BY <2>1, NumberTellsPlace
<1>2. QED
  BY <1>1, NumbersKept, PTL
-----------------------------------------------------------------------------
(***************************************************************************)
(* Frames of scans that were not damaged.                                  *)
(***************************************************************************)
\* A run of samples of one scan.
IsRun(s) ==
    \A i \in 1 .. Len(s) : s[i].scan = s[1].scan /\ s[i].at = s[1].at + i - 1

\* The line of packets from the host to the FPGA: those on the wire, then the one that
\* will be sent next.
Line(i) ==
    IF i <= Len(wire)
    THEN [scan |-> FirstOf(wire[i]).scan, number |-> wire[i].sequence, at |-> FirstOf(wire[i]).at]
    ELSE [scan |-> scan, number |-> packageCount, at |-> sent + 1]

\* The packet at place i is of a scan that is not damaged, and not its first.
GoesOn(i) == Line(i).scan \notin damaged /\ Line(i).number > 1

\* Nothing is missing between two packets that are next to each other.
Linked(i) ==
    GoesOn(i) => Line(i - 1).scan = Line(i).scan /\ Line(i).number = Line(i - 1).number + 1

\* Nor between what the host read last and the packet it reads next.
HostLinked ==
    GoesOn(1) =>
        IF buffer = <<>> THEN PlaceOf(Line(1).at) = 0
        ELSE expectedSequence = Line(1).number /\ buffer[Len(buffer)].scan = Line(1).scan

\* A partial frame of a scan that is not damaged is the beginning of a frame.
HeldAligned ==
    buffer # <<>> /\ buffer[Len(buffer)].scan \notin damaged =>
        IsRun(buffer) /\ PlaceOf(buffer[1].at) = 0 /\ Len(buffer) < FrameBytes

AlignInv ==
    /\ ~receiving => buffer = <<>>
    /\ \A i \in 2 .. Len(wire) + 1 : Linked(i)
    /\ HostLinked
    /\ HeldAligned
    /\ UndamagedFrameIsAligned

\* Packets taken off the wire leave no gap in a scan that is not damaged: they damaged theirs.
LEMMA LineCut ==
    ASSUME wire \in Seq(Packet), UNCHANGED fpgaVars, damaged \subseteq damaged',
           \A i \in 2 .. Len(wire) + 1 : Linked(i),
           NEW a \in 1 .. Len(wire), NEW m \in 1 .. Len(wire), a + m - 1 <= Len(wire),
           Len(wire') = Len(wire) - m,
           \A j \in 1 .. Len(wire') : wire'[j] = wire[IF j < a THEN j ELSE j + m],
           \A j \in a .. a + m - 1 : FirstOf(wire[j]).scan \in damaged'
    PROVE  /\ \A i \in 2 .. Len(wire') + 1 : Linked(i)'
           /\ GoesOn(1)' => a > 1 /\ GoesOn(1) /\ Line(1)' = Line(1)
<1>1. Len(wire) \in Nat /\ a \in Nat /\ m \in Nat
  OBVIOUS
<1>2. \A i \in 1 .. Len(wire') + 1 : Line(i)' = Line(IF i < a THEN i ELSE i + m)
  <2> TAKE i \in 1 .. Len(wire') + 1
  <2>1. UNCHANGED <<scan, packageCount, sent>>
    BY DEF fpgaVars
  <2>2. CASE i <= Len(wire')
    BY <1>1, <2>2 DEF Line
  <2>3. CASE i = Len(wire') + 1
    BY <1>1, <2>1, <2>3 DEF Line
  <2>4. QED
    BY <1>1, <2>2, <2>3
<1>3. ASSUME NEW i \in 1 .. Len(wire') + 1, GoesOn(i)'
      PROVE  GoesOn(IF i < a THEN i ELSE i + m)
  BY <1>2, <1>3 DEF GoesOn
<1>4. ASSUME GoesOn(a)', a \in 1 .. Len(wire') + 1 PROVE FALSE
  <2>1. a + m \in 2 .. Len(wire) + 1 /\ GoesOn(a + m) /\ Line(a)' = Line(a + m)
    BY <1>1, <1>2, <1>3, <1>4
  <2>2. Line((a + m) - 1).scan = Line(a + m).scan
    BY <2>1 DEF Linked
  <2>3. a + m - 1 \in a .. a + m - 1 /\ a + m - 1 <= Len(wire)
    BY <1>1
  <2>4. Line(a + m - 1).scan = FirstOf(wire[a + m - 1]).scan
    BY <2>3 DEF Line
  <2>5. Line(a)'.scan \in damaged'
    BY <2>1, <2>2, <2>3, <2>4
  <2>6. QED
    BY <1>4, <2>5 DEF GoesOn
<1>5. ASSUME NEW i \in 2 .. Len(wire') + 1 PROVE Linked(i)'
  <2> SUFFICES ASSUME GoesOn(i)'
               PROVE  Line(i - 1)'.scan = Line(i)'.scan /\ Line(i)'.number = Line(i - 1)'.number + 1
    BY DEF Linked
  <2>1. i \in 1 .. Len(wire') + 1 /\ i - 1 \in 1 .. Len(wire') + 1 /\ i # a
    BY <1>1, <1>4
  <2>2. CASE i < a
    <3>1. i \in 2 .. Len(wire) + 1 /\ i - 1 < a
      BY <1>1, <2>2
    <3>2. Line(i)' = Line(i) /\ Line(i - 1)' = Line(i - 1) /\ GoesOn(i)
      BY <1>2, <1>3, <2>1, <2>2, <3>1
    <3>3. QED
      BY <3>1, <3>2 DEF Linked
  <2>3. CASE i > a
    <3>1. i + m \in 2 .. Len(wire) + 1 /\ ~(i < a) /\ ~(i - 1 < a) /\ (i - 1) + m = (i + m) - 1
      BY <1>1, <2>3
    <3>2. Line(i)' = Line(i + m) /\ Line(i - 1)' = Line((i + m) - 1) /\ GoesOn(i + m)
      <4>1. Line(i)' = Line(i + m) /\ GoesOn(i + m)
        BY <1>2, <1>3, <2>1, <3>1
      <4>2. Line(i - 1)' = Line((i - 1) + m)
        BY <1>2, <2>1, <3>1
      <4>3. QED
        BY <3>1, <4>1, <4>2
    <3>3. QED
      BY <3>1, <3>2 DEF Linked
  <2>4. QED
    BY <1>1, <2>1, <2>2, <2>3
<1>6. ASSUME GoesOn(1)' PROVE a > 1 /\ GoesOn(1) /\ Line(1)' = Line(1)
  <2>1. 1 \in 1 .. Len(wire') + 1
    BY <1>1
  <2>2. a # 1
    BY <1>4, <1>6, <2>1
  <2>3. 1 < a
    BY <1>1, <2>2
  <2>4. QED
    BY <1>2, <1>3, <1>6, <2>1, <2>3
<1>7. QED
  BY <1>5, <1>6

\* The FPGA begins each scan with number 1, and sends on where it stopped.
LEMMA FpgaAligned ==
    ASSUME StreamInv, NumberInv, AlignInv, StartScan \/ StopScan \/ SendPacket
    PROVE  AlignInv'
<1>1. /\ wire \in Seq(Packet) /\ Len(wire) \in Nat /\ FpgaInv /\ NextPlaced
      /\ UNCHANGED <<assemblerVars, receiving, damaged>>
  BY DEF StreamInv, WireInv, NumberInv, StartScan, StopScan, SendPacket
<1>n. PICK n \in Nat : n = Len(wire)
  BY <1>1
<1>2. UNCHANGED <<buffer, expectedSequence, frame>>
  BY <1>1 DEF assemblerVars
<1>3. HeldAligned' /\ UndamagedFrameIsAligned' /\ (~receiving' => buffer' = <<>>)
  BY <1>1, <1>2 DEF AlignInv, HeldAligned, UndamagedFrameIsAligned
<1>4. CASE StartScan \/ StopScan
  <2>1. UNCHANGED wire /\ packageCount' = 1
    BY <1>1, <1>n, <1>4 DEF StartScan, StopScan, NextPlaced
  <2>2. \A i \in 1 .. n : Line(i)' = Line(i)
    BY <1>n, <2>1 DEF Line
  <2>3. ~GoesOn(n + 1)'
    <3>1. Line(n + 1)'.number = 1
      BY <1>1, <1>n, <2>1 DEF Line
    <3>2. QED
      BY <3>1 DEF GoesOn
  <2>4. \A i \in 1 .. n : GoesOn(i)' <=> GoesOn(i)
    BY <1>1, <1>n, <2>2 DEF GoesOn
  <2>5. ASSUME NEW i \in 2 .. n + 1 PROVE Linked(i)'
    <3>1. CASE i = n + 1
      BY <2>3, <3>1 DEF Linked
    <3>2. CASE i # n + 1
      <4>1. i \in 1 .. n /\ i - 1 \in 1 .. n
        BY <1>1, <1>n, <3>2
      <4>2. Linked(i)
        BY <1>n DEF AlignInv
      <4>3. Line(i)' = Line(i) /\ Line(i - 1)' = Line(i - 1) /\ (GoesOn(i)' <=> GoesOn(i))
        BY <2>2, <2>4, <4>1
      <4>4. QED
        BY <4>2, <4>3 DEF Linked
    <3>3. QED
      BY <1>n, <3>1, <3>2
  <2>6. HostLinked'
    <3>1. CASE n = 0
      BY <2>3, <3>1 DEF HostLinked
    <3>2. CASE n # 0
      <4>1. 1 \in 1 .. n
        BY <1>1, <1>n, <3>2
      <4>2. Line(1)' = Line(1) /\ (GoesOn(1)' <=> GoesOn(1))
        BY <2>2, <2>4, <4>1
      <4>3. QED
        BY <1>2, <4>2 DEF AlignInv, HostLinked
    <3>3. QED
      BY <1>n, <3>1, <3>2
  <2>7. QED
    BY <1>n, <1>3, <2>1, <2>5, <2>6 DEF AlignInv
<1>5. CASE SendPacket
  <2>1. /\ IsPacket(NewPacket) /\ packageCount' = packageCount + 1 /\ UNCHANGED scan
        /\ FirstOf(NewPacket).scan = scan /\ FirstOf(NewPacket).at = sent + 1
        /\ NewPacket.sequence = packageCount
    BY <1>1, <1>n, <1>5, NewPacketIsPacket DEF SendPacket
  <2>2. wire' = Append(wire, NewPacket) /\ Len(wire') = n + 1
    BY <1>1, <1>n, <1>5 DEF SendPacket, NewPacket
  <2>3. \A i \in 1 .. n : wire'[i] = wire[i]
    BY <1>1, <1>n, <2>2
  <2>4. wire'[n + 1] = NewPacket
    BY <1>1, <1>n, <2>2
  <2>5. \A i \in 1 .. n + 1 : Line(i)' = Line(i)
    <3> TAKE i \in 1 .. n + 1
    <3>1. CASE i <= n
      BY <1>1, <1>n, <2>2, <2>3, <3>1 DEF Line
    <3>2. CASE i = n + 1
      BY <1>1, <1>n, <2>1, <2>2, <2>4, <3>2 DEF Line
    <3>3. QED
      BY <1>1, <1>n, <3>1, <3>2
  <2>6. \A i \in 1 .. n + 1 : GoesOn(i)' <=> GoesOn(i)
    BY <1>1, <1>n, <2>5 DEF GoesOn
  <2>7. Linked(n + 2)'
    <3>1. Line(n + 2)' = [scan |-> scan, number |-> packageCount + 1, at |-> sent' + 1]
      BY <1>1, <1>n, <2>1, <2>2 DEF Line
    <3>2. Line(n + 1) = [scan |-> scan, number |-> packageCount, at |-> sent + 1]
      BY <1>1, <1>n DEF Line
    <3>3. Line(n + 1)' = Line(n + 1) /\ (n + 2) - 1 = n + 1
      BY <1>1, <1>n, <2>5
    <3>4. QED
      BY <3>1, <3>2, <3>3 DEF Linked
  <2>8. ASSUME NEW i \in 2 .. Len(wire') + 1 PROVE Linked(i)'
    <3>1. CASE i = n + 2
      BY <2>7, <3>1
    <3>2. CASE i # n + 2
      <4>1. i \in 2 .. n + 1 /\ i \in 1 .. n + 1 /\ i - 1 \in 1 .. n + 1
        BY <1>1, <1>n, <2>2, <3>2
      <4>2. Linked(i)
        BY <1>n, <4>1 DEF AlignInv
      <4>3. Line(i)' = Line(i) /\ Line(i - 1)' = Line(i - 1) /\ (GoesOn(i)' <=> GoesOn(i))
        BY <2>5, <2>6, <4>1
      <4>4. QED
        BY <4>2, <4>3 DEF Linked
    <3>3. QED
      BY <1>n, <3>1, <3>2
  <2>9. HostLinked'
    <3>1. 1 \in 1 .. n + 1
      BY <1>1, <1>n
    <3>2. Line(1)' = Line(1) /\ (GoesOn(1)' <=> GoesOn(1))
      BY <2>5, <2>6, <3>1
    <3>3. QED
      BY <1>2, <3>2 DEF AlignInv, HostLinked
  <2>10. QED
    BY <1>n, <1>3, <2>8, <2>9 DEF AlignInv
<1>6. QED
  BY <1>4, <1>5

\* What is lost damages its scan, also what a receiver that stops held.
LEMMA LossAligned ==
    ASSUME StreamInv, AlignInv, LosePacket \/ Unheard \/ StopReceiving \/ StartReceiving
    PROVE  AlignInv'
<1>1. /\ wire \in Seq(Packet) /\ Len(wire) \in Nat /\ UNCHANGED <<fpgaVars, frame>>
      /\ \A i \in 2 .. Len(wire) + 1 : Linked(i)
      /\ damaged \subseteq damaged'
  BY DEF StreamInv, WireInv, AlignInv, LosePacket, Unheard, StopReceiving, StartReceiving, Reset,
         assemblerVars
<1>2. UndamagedFrameIsAligned'
  BY <1>1 DEF AlignInv, UndamagedFrameIsAligned
<1>3. \A i : ScanOf(wire[i]) = FirstOf(wire[i]).scan
  BY DEF ScanOf, FirstOf
<1>4. ASSUME UNCHANGED wire
      PROVE  /\ \A i \in 2 .. Len(wire') + 1 : Linked(i)'
             /\ GoesOn(1)' => GoesOn(1) /\ Line(1)' = Line(1)
  <2>1. \A i : Line(i)' = Line(i)
    BY <1>1, <1>4 DEF Line, fpgaVars
  <2>2. \A i : GoesOn(i)' => GoesOn(i)
    BY <1>1, <2>1 DEF GoesOn
  <2>3. QED
    BY <1>1, <1>4, <2>1, <2>2 DEF Linked
<1>5. CASE LosePacket
  <2>1. PICK k \in 1 .. Len(wire) :
            wire' = RemoveAt(wire, k) /\ damaged' = damaged \cup {ScanOf(wire[k])}
    BY <1>5 DEF LosePacket
  <2>2. UNCHANGED <<assemblerVars, receiving>>
    BY <1>5 DEF LosePacket
  <2>3. /\ Len(wire') = Len(wire) - 1
        /\ \A j \in 1 .. Len(wire') : wire'[j] = wire[IF j < k THEN j ELSE j + 1]
    BY <1>1, <2>1, RemovedIsThinned
  <2>4. /\ \A i \in 2 .. Len(wire') + 1 : Linked(i)'
        /\ GoesOn(1)' => GoesOn(1) /\ Line(1)' = Line(1)
    <3>1. \A j \in k .. k + 1 - 1 : FirstOf(wire[j]).scan \in damaged'
      BY <1>3, <2>1
    <3>2. 1 \in 1 .. Len(wire) /\ k + 1 - 1 <= Len(wire)
      BY <1>1
    <3>3. QED
      BY <1>1, <2>3, <3>1, <3>2, LineCut
  <2>5. QED
    BY <1>1, <1>2, <2>2, <2>4 DEF AlignInv, HostLinked, HeldAligned, assemblerVars
<1>6. CASE Unheard
  <2>1. /\ wire # <<>> /\ wire' = Tail(wire) /\ damaged' = damaged \cup {ScanOf(Head(wire))}
        /\ UNCHANGED <<assemblerVars, receiving>>
    BY <1>6 DEF Unheard
  <2>2. /\ Len(wire') = Len(wire) - 1 /\ 1 \in 1 .. Len(wire) /\ Head(wire) = wire[1]
        /\ \A j \in 1 .. Len(wire') : wire'[j] = wire[j + 1]
    BY <1>1, <2>1, TailIsThinned
  <2>3. /\ \A i \in 2 .. Len(wire') + 1 : Linked(i)'
        /\ GoesOn(1)' => GoesOn(1) /\ Line(1)' = Line(1)
    <3>1. \A j \in 1 .. 1 + 1 - 1 : FirstOf(wire[j]).scan \in damaged'
      BY <1>3, <2>1, <2>2
    <3>2. \A j \in 1 .. Len(wire') : wire'[j] = wire[IF j < 1 THEN j ELSE j + 1]
      BY <2>2
    <3>3. 1 + 1 - 1 <= Len(wire)
      BY <2>2
    <3>4. QED
      BY <1>1, <2>2, <3>1, <3>2, <3>3, LineCut
  <2>4. QED
    BY <1>1, <1>2, <2>1, <2>3 DEF AlignInv, HostLinked, HeldAligned, assemblerVars
<1>7. CASE StopReceiving
  <2>1. receiving' = FALSE /\ buffer' = <<>>
    BY <1>7 DEF StopReceiving, Reset
  <2>2. PICK n \in 0 .. Len(wire) :
            /\ wire' = SubSeq(wire, n + 1, Len(wire))
            /\ damaged' = damaged \cup ScansOf(buffer) \cup {ScanOf(wire[i]) : i \in 1 .. n}
    BY <1>7 DEF StopReceiving
  <2>3. CASE n = 0
    <3>1. UNCHANGED wire
      BY <1>1, <2>2, <2>3
    <3>2. /\ \A i \in 2 .. Len(wire') + 1 : Linked(i)'
          /\ GoesOn(1)' => GoesOn(1) /\ Line(1)' = Line(1)
      BY <1>4, <3>1
    <3>3. ASSUME GoesOn(1)' PROVE PlaceOf(Line(1).at) = 0
      <4>1. CASE buffer = <<>>
        BY <3>2, <3>3, <4>1 DEF AlignInv, HostLinked
      <4>2. CASE buffer # <<>>
        <5>1. Line(1).scan = buffer[Len(buffer)].scan
          BY <3>2, <3>3, <4>2 DEF AlignInv, HostLinked
        <5>2. buffer \in Seq(Byte) /\ Len(buffer) \in 1 .. Len(buffer)
          BY <4>2 DEF StreamInv, BufferInv, MayHold
        <5>3. Line(1).scan \in damaged'
          BY <2>2, <5>1, <5>2 DEF ScansOf
        <5>4. QED
          BY <3>2, <3>3, <5>3 DEF GoesOn
      <4>3. QED
        BY <4>1, <4>2
    <3>4. QED
      BY <1>2, <2>1, <3>2, <3>3 DEF AlignInv, HostLinked, HeldAligned
  <2>4. CASE n # 0
    <3>1. /\ Len(wire') = Len(wire) - n
          /\ \A j \in 1 .. Len(wire') : wire'[j] = wire[j + n]
      BY <1>1, <2>2, RestIsThinned
    <3>2. \A j \in 1 .. 1 + n - 1 : FirstOf(wire[j]).scan \in damaged'
      BY <1>3, <2>2
    <3>3. \A j \in 1 .. Len(wire') : wire'[j] = wire[IF j < 1 THEN j ELSE j + n]
      BY <3>1
    <3>4. 1 \in 1 .. Len(wire) /\ n \in 1 .. Len(wire) /\ 1 + n - 1 <= Len(wire)
      BY <1>1, <2>4
    <3>5. /\ \A i \in 2 .. Len(wire') + 1 : Linked(i)'
          /\ GoesOn(1)' => 1 > 1
      BY <1>1, <3>1, <3>2, <3>3, <3>4, LineCut
    <3>6. QED
      BY <1>2, <2>1, <3>5 DEF AlignInv, HostLinked, HeldAligned
  <2>5. QED
    BY <2>3, <2>4
<1>8. CASE StartReceiving
  <2>1. UNCHANGED <<wire, damaged>> /\ buffer = <<>> /\ buffer' = <<>> /\ receiving' = TRUE
    BY <1>8 DEF StartReceiving, AlignInv
  <2>2. /\ \A i \in 2 .. Len(wire') + 1 : Linked(i)'
        /\ GoesOn(1)' => GoesOn(1) /\ Line(1)' = Line(1)
    BY <1>4, <2>1
  <2>3. QED
    BY <1>2, <2>1, <2>2 DEF AlignInv, HostLinked, HeldAligned
<1>9. QED
  BY <1>5, <1>6, <1>7, <1>8

\* Two runs make one when the second goes on where the first stops.
LEMMA RunsGoOn ==
    ASSUME NEW s \in Seq(Byte), NEW t \in Seq(Byte), s # <<>>, t # <<>>, IsRun(s), IsRun(t),
           t[1].scan = s[1].scan, t[1].at = s[1].at + Len(s)
    PROVE  IsRun(s \o t)
<1> DEFINE u == s \o t
<1>1. Len(s) \in Nat \ {0} /\ Len(t) \in Nat \ {0} /\ Len(u) = Len(s) + Len(t)
  OBVIOUS
<1>2. \A i \in 1 .. Len(s) : u[i] = s[i]
  OBVIOUS
<1>3. \A i \in 1 .. Len(t) : u[Len(s) + i] = t[i]
  OBVIOUS
<1>4. s[1].at \in Nat
  <2>1. s[1] \in Byte
    BY <1>1
  <2>2. QED
    BY <2>1, ByteIsSample
<1> HIDE DEF u
<1>5. u[1] = s[1]
  BY <1>1, <1>2
<1>6. ASSUME NEW i \in 1 .. Len(u) PROVE u[i].scan = u[1].scan /\ u[i].at = u[1].at + i - 1
  <2>1. CASE i <= Len(s)
    <3>1. i \in 1 .. Len(s)
      BY <1>1, <2>1
    <3>2. u[i] = s[i] /\ s[i].scan = s[1].scan /\ s[i].at = s[1].at + i - 1
      BY <1>2, <3>1 DEF IsRun
    <3>3. QED
      BY <1>5, <3>2
  <2>2. CASE ~(i <= Len(s))
    <3>1. PICK j \in 1 .. Len(t) : i = Len(s) + j
      <4>1. i - Len(s) \in 1 .. Len(t) /\ i = Len(s) + (i - Len(s))
        BY <1>1, <2>2
      <4>2. QED
        BY <4>1
    <3>2. u[i] = t[j] /\ t[j].scan = t[1].scan /\ t[j].at = t[1].at + j - 1
      BY <1>3, <3>1 DEF IsRun
    <3>3. PICK k \in Nat, l \in Nat : k = s[1].at /\ l = Len(s)
      BY <1>1, <1>4
    <3>4. u[i].at = k + l + j - 1 /\ u[1].at = k /\ i = l + j
      BY <1>5, <3>1, <3>2, <3>3
    <3>5. u[i].scan = u[1].scan
      BY <1>5, <3>2
    <3>6. j \in Nat
      BY <1>1
    <3>7. k + l + j - 1 = k + i - 1
      BY <3>4, <3>6
    <3>8. QED
      BY <3>4, <3>5, <3>7
  <2>3. QED
    BY <2>1, <2>2
<1>7. QED
  BY <1>6 DEF IsRun, u

\* A run is unbroken.
LEMMA RunIsUnbroken ==
    ASSUME NEW s \in Seq(Byte), IsRun(s) PROVE Unbroken(s)
<1>1. ASSUME NEW i \in 1 .. Len(s) - 1 PROVE Follows(s[i], s[i + 1])
  <2>1. i \in 1 .. Len(s) /\ i + 1 \in 1 .. Len(s) /\ s[1].at \in Nat
    <3>1. Len(s) \in Nat /\ 1 \in 1 .. Len(s)
      OBVIOUS
    <3>2. s[1] \in Byte
      BY <3>1
    <3>3. QED
      BY <3>1, <3>2, ByteIsSample DEF Sample
  <2>2. /\ s[i].scan = s[1].scan /\ s[i].at = s[1].at + i - 1
        /\ s[i + 1].scan = s[1].scan /\ s[i + 1].at = s[1].at + (i + 1) - 1
    BY <2>1 DEF IsRun
  <2>3. QED
    BY <2>1, <2>2 DEF Follows
<1>2. QED
  BY <1>1 DEF Unbroken

\* What is put together of a scan that is not damaged, and ends with packet p, is the
\* beginning of a frame or all of it.
Aligned(s, p) ==
    /\ s \in Seq(Byte) /\ s # <<>> /\ IsRun(s)
    /\ PlaceOf(s[1].at) = 0
    /\ Len(s) <= FrameBytes
    /\ LastOf(p).at = s[1].at + Len(s) - 1

\* If p goes on where the host is, add_packet extends the partial frame by it and never
\* has more than a frame.
LEMMA FilledIsAligned ==
    ASSUME StreamInv, NumberInv, AlignInv, ExpectedBytes = FrameBytes,
           NEW p \in Packet, wire # <<>>, p = wire[1], IsPacket(p),
           FirstOf(p).scan \notin damaged
    PROVE  Aligned(Filled(p), p)
<1> DEFINE b == p.payload
           F == FrameBytes
<1>1. F \in Nat \ {0} /\ 1 \in 1 .. Len(wire) /\ BufferInv /\ Fits(p)
  BY StreamAssumption DEF StreamInv, WireInv, NumberInv
<1>2. /\ b \in Seq(Byte) /\ b # <<>> /\ Len(b) \in Nat \ {0} /\ IsRun(b)
      /\ b[1] = FirstOf(p) /\ FirstOf(p).at \in Nat \ {0}
      /\ LastOf(p).at = b[1].at + Len(b) - 1
      /\ p.sequence \in 1 .. MaxPackets
  <2>1. b[1] = FirstOf(p) /\ b \in Seq(Byte) /\ b # <<>> /\ p.sequence \in 1 .. MaxPackets
    BY DEF FirstOf, IsPacket, Packet
  <2>2. FirstOf(p).at \in Nat \ {0}
    BY PacketEnds, ByteIsSample
  <2>3. IsRun(b)
    <3>1. ASSUME NEW i \in 1 .. Len(b)
          PROVE  b[i].scan = FirstOf(p).scan /\ b[i].at = FirstOf(p).at + i - 1
      <4>1. b[i] = [scan |-> FirstOf(p).scan, at |-> FirstOf(p).at + i - 1]
        BY DEF IsPacket
      <4>2. QED
        BY <4>1
    <3>2. QED
      BY <2>1, <3>1 DEF IsRun
  <2>4. QED
    BY <2>1, <2>2, <2>3, PacketEnds
<1>3. Line(1).scan = FirstOf(p).scan /\ Line(1).number = p.sequence /\ Line(1).at = FirstOf(p).at
  BY <1>1 DEF Line
<1>4. Placed(p.sequence, FirstOf(p).at) /\ PlaceOf(FirstOf(p).at) + Len(b) <= F
  BY <1>1 DEF Fits
<1>5. CASE Kept(p) = <<>> /\ PlaceOf(FirstOf(p).at) = 0
  <2>1. Filled(p) = b
    <3>1. <<>> \o b = b
      BY <1>2, ConcatEmptySeq
    <3>2. (IF Overflow(p) THEN <<>> ELSE Kept(p)) = <<>>
      BY <1>5
    <3>3. QED
      BY <3>1, <3>2 DEF Filled
  <2>2. Len(b) <= F
    BY <1>1, <1>2, <1>4, <1>5
  <2>3. QED
    BY <1>2, <1>5, <2>1, <2>2 DEF Aligned
<1>6. ASSUME buffer # <<>>
      PROVE  \E x \in Byte, n \in 1 .. MaxPackets :
                 /\ x = buffer[Len(buffer)] /\ expectedSequence = n + 1 /\ Continues(x, n)
                 /\ expectedSequence # None
  <2>1. PICK x \in Byte, n \in 1 .. MaxPackets :
            x = buffer[Len(buffer)] /\ expectedSequence = n + 1 /\ Continues(x, n)
    BY <1>1, <1>6 DEF BufferInv
  <2>2. n + 1 \in 0 .. SeqSpace - 1
    BY StreamAssumption, AssemblerAssumption
  <2>3. expectedSequence # None
    BY <2>1, <2>2, AssemblerAssumption
  <2>4. QED
    BY <2>1, <2>3
<1>7. CASE p.sequence = 1
  <2>1. PlaceOf(FirstOf(p).at) = 0
    BY <1>4, <1>7, NumberTellsPlace
  <2>2. Kept(p) = <<>>
    <3>1. CASE buffer = <<>>
      BY <3>1 DEF Kept
    <3>2. CASE buffer # <<>>
      <4>1. PICK n \in 1 .. MaxPackets : expectedSequence = n + 1 /\ expectedSequence # None
        BY <1>6, <3>2
      <4>2. p.sequence # expectedSequence
        BY <1>7, <4>1
      <4>3. QED
        BY <4>1, <4>2 DEF Kept, Gap
    <3>3. QED
      BY <3>1, <3>2
  <2>3. QED
    BY <1>5, <2>1, <2>2
<1>8. CASE p.sequence # 1
  <2>1. GoesOn(1)
    BY <1>2, <1>3, <1>8 DEF GoesOn
  <2>2. CASE buffer = <<>>
    <3>1. PlaceOf(FirstOf(p).at) = 0
      BY <1>3, <2>1, <2>2 DEF AlignInv, HostLinked
    <3>2. QED
      BY <1>5, <2>2, <3>1 DEF Kept
  <2>3. CASE buffer # <<>>
    <3>1. expectedSequence = p.sequence /\ buffer[Len(buffer)].scan = FirstOf(p).scan
      BY <1>3, <2>1, <2>3 DEF AlignInv, HostLinked
    <3>2. Kept(p) = buffer
      BY <3>1 DEF Kept, Gap
    <3>3. IsRun(buffer) /\ PlaceOf(buffer[1].at) = 0 /\ Len(buffer) < F
      BY <2>3, <3>1 DEF AlignInv, HeldAligned
    <3>4. /\ buffer \in Seq(Byte) /\ Len(buffer) \in Nat \ {0}
          /\ buffer[1] \in Byte /\ buffer[1].at \in Nat \ {0}
      <4>1. buffer \in Seq(Byte) /\ Len(buffer) \in Nat \ {0}
        BY <1>1, <2>3 DEF BufferInv, MayHold
      <4>2. buffer[1] \in Byte
        BY <4>1
      <4>3. QED
        BY <4>1, <4>2, ByteIsSample
    <3>5. PICK m \in Nat, c \in Nat, l \in Nat :
              m = buffer[1].at - 1 /\ c = Len(buffer) /\ l = Len(b)
      BY <1>2, <3>4
    <3>6. buffer[Len(buffer)].scan = buffer[1].scan /\ buffer[Len(buffer)].at = m + c
      <4>1. c \in 1 .. Len(buffer)
        BY <3>4, <3>5
      <4>2. buffer[c].scan = buffer[1].scan /\ buffer[c].at = buffer[1].at + c - 1
        BY <3>3, <4>1 DEF IsRun
      <4>3. buffer[1].at = m + 1
        BY <3>4, <3>5
      <4>4. QED
        BY <3>5, <4>2, <4>3
    <3>7. FirstOf(p).at = m + c + 1
      <4>1. PICK x \in Byte, n \in 1 .. MaxPackets :
                x = buffer[Len(buffer)] /\ expectedSequence = n + 1 /\ Continues(x, n)
        BY <1>6, <2>3
      <4>2. FirstOf(wire[1]).at = x.at + 1
        BY <1>1, <3>1, <4>1 DEF Continues
      <4>3. QED
        BY <3>6, <4>1, <4>2
    <3>8. PlaceOf(FirstOf(p).at) = c
      <4>1. m % F = 0
        BY <3>3, <3>5 DEF PlaceOf
      <4>2. (m + c) % F = c
        <5>1. (m % F) + c <= F /\ (m % F) + c # F /\ (m % F) + c = c
          BY <1>1, <3>3, <3>5, <4>1
        <5>2. QED
          BY <1>1, <5>1, AddMod
      <4>3. (m + c + 1) - 1 = m + c
        OBVIOUS
      <4>4. QED
        BY <3>7, <4>2, <4>3 DEF PlaceOf
    <3>9. c + l <= F
      BY <1>4, <3>5, <3>8
    <3>10. Filled(p) = buffer \o b
      <4>1. ~Overflow(p)
        BY <1>1, <3>2, <3>5, <3>9 DEF Overflow
      <4>2. QED
        BY <3>2, <4>1 DEF Filled
    <3>11. IsRun(buffer \o b)
      <4>1. b[1].scan = buffer[1].scan /\ b[1].at = buffer[1].at + Len(buffer)
        BY <1>2, <3>1, <3>4, <3>5, <3>6, <3>7
      <4>2. QED
        BY <1>2, <2>3, <3>3, <3>4, <4>1, RunsGoOn
    <3>12. /\ buffer \o b \in Seq(Byte) /\ buffer \o b # <<>> /\ (buffer \o b)[1] = buffer[1]
           /\ Len(buffer \o b) = c + l
      BY <1>2, <3>4, <3>5
    <3>13. LastOf(p).at = buffer[1].at + (c + l) - 1
      <4>1. LastOf(p).at = (m + c + 1) + l - 1
        BY <1>2, <3>5, <3>7
      <4>2. buffer[1].at = m + 1
        BY <3>4, <3>5
      <4>3. QED
        BY <4>1, <4>2
    <3>14. QED
      BY <3>3, <3>9, <3>10, <3>11, <3>12, <3>13 DEF Aligned
  <2>4. QED
    BY <2>2, <2>3
<1>9. QED
  BY <1>7, <1>8

\* The packet behind p, on the wire or not yet sent, begins with the sample after it.
LEMMA NextInLine ==
    ASSUME StreamInv, NumberInv, NEW p \in Packet, wire # <<>>, p = wire[1], InPlace(p, 1),
           GoesOn(2), Line(2).scan = FirstOf(p).scan, Line(2).number = p.sequence + 1
    PROVE  Line(2).at = LastOf(p).at + 1
<1>1. /\ Len(wire) \in Nat \ {0} /\ Continues(LastOf(p), p.sequence)
      /\ LastOf(p).scan = FirstOf(p).scan
  BY PacketEnds DEF StreamInv, WireInv, InPlace
<1>2. CASE 2 <= Len(wire)
  <2>1. 2 \in 1 .. Len(wire)
    BY <1>1, <1>2
  <2>2. /\ FirstOf(wire[2]).scan = LastOf(p).scan /\ wire[2].sequence = p.sequence + 1
        /\ Line(2).at = FirstOf(wire[2]).at
    BY <1>1, <1>2 DEF Line
  <2>3. QED
    BY <1>1, <2>1, <2>2 DEF Continues
<1>3. CASE ~(2 <= Len(wire))
  <2>0. Line(2) = [scan |-> scan, number |-> packageCount, at |-> sent + 1]
    BY <1>3 DEF Line
  <2>1. scan = LastOf(p).scan /\ packageCount = p.sequence + 1 /\ Line(2).at = sent + 1
    BY <1>1, <2>0
  <2>2. scanState
    <3>1. packageCount # 1
      <4>1. p.sequence \in Nat \ {0}
        BY DEF Packet
      <4>2. QED
        BY <2>1, <4>1
    <3>2. QED
      BY <3>1 DEF NumberInv, NextPlaced
  <2>3. sent = LastOf(p).at
    BY <1>1, <2>1, <2>2 DEF Continues
  <2>4. QED
    BY <2>1, <2>3
<1>4. QED
  BY <1>2, <1>3

\* One turn of get_frame's loop: a frame of a scan that is not damaged is a frame of the
\* FPGA, and what is held next begins where that one ends.
LEMMA DeliverAligned ==
    ASSUME StreamInv, NumberInv, AlignInv, ExpectedBytes = FrameBytes, Deliver
    PROVE  AlignInv'
<1>1. /\ wire # <<>> /\ wire \in Seq(Packet) /\ wire' = Tail(wire) /\ receiving
      /\ AddAdc(wire[1]) /\ UNCHANGED <<fpgaVars, receiving, damaged>>
  BY TailIsThinned DEF Deliver, StreamInv, WireInv
<1>2. /\ 1 \in 1 .. Len(wire) /\ Len(wire') = Len(wire) - 1 /\ Len(wire) \in Nat \ {0}
      /\ \A i \in 1 .. Len(wire') : wire'[i] = wire[i + 1]
  BY <1>1, TailIsThinned
<1>3. PICK p \in Packet : p = wire[1] /\ InPlace(p, 1) /\ IsPacket(p)
  BY <1>2 DEF StreamInv, WireInv, InPlace
<1>4. Line(1).scan = FirstOf(p).scan /\ Line(1).number = p.sequence
  BY <1>2, <1>3 DEF Line
<1>5. PICK n \in Nat : n = Len(wire)
  BY <1>2
<1>6. \A i \in 1 .. n : Line(i)' = Line(i + 1)
  <2> TAKE i \in 1 .. n
  <2>1. CASE i <= Len(wire')
    BY <1>1, <1>2, <1>5, <2>1 DEF Line
  <2>2. CASE ~(i <= Len(wire'))
    BY <1>1, <1>2, <1>5, <2>2 DEF Line, fpgaVars
  <2>3. QED
    BY <2>1, <2>2
<1>7. \A i \in 1 .. n : GoesOn(i)' <=> GoesOn(i + 1)
  BY <1>1, <1>6 DEF GoesOn
<1>8. ASSUME NEW i \in 2 .. Len(wire') + 1 PROVE Linked(i)'
  <2>1. i + 1 \in 2 .. Len(wire) + 1 /\ i \in 1 .. n /\ i - 1 \in 1 .. n
    BY <1>2, <1>5
  <2>2. Linked(i + 1)
    BY <2>1 DEF AlignInv
  <2>3. Line(i)' = Line(i + 1) /\ (GoesOn(i)' <=> GoesOn(i + 1))
    BY <1>6, <1>7, <2>1
  <2>4. Line(i - 1)' = Line(i)
    BY <1>6, <2>1
  <2>5. (i + 1) - 1 = i
    BY <2>1
  <2>6. QED
    BY <2>2, <2>3, <2>4, <2>5 DEF Linked
<1>9. Line(1)' = Line(2) /\ (GoesOn(1)' <=> GoesOn(2))
  BY <1>2, <1>5, <1>6, <1>7
<1>10. GoesOn(2) => Line(2).scan = FirstOf(p).scan /\ Line(2).number = p.sequence + 1
  <2>1. Linked(2) /\ 2 - 1 = 1
    BY <1>2 DEF AlignInv
  <2>2. QED
    BY <1>4, <2>1 DEF Linked
<1>11. Accumulate(p) \/ Complete(p)
  BY <1>1, <1>3 DEF AddAdc
<1>12. /\ Filled(p) \in Seq(Byte) /\ Filled(p) # <<>> /\ Len(Filled(p)) \in 1 .. Len(Filled(p))
       /\ Filled(p)[Len(Filled(p))] = LastOf(p) /\ LastOf(p).scan = FirstOf(p).scan
  <2>1. Good(p)
    BY <1>1, <1>3, FilledIsGood DEF StreamInv
  <2>2. QED
    BY <1>3, <2>1, PacketEnds DEF Good, MayHold
<1>13. CASE FirstOf(p).scan \in damaged
  <2>1. ~GoesOn(1)'
    BY <1>9, <1>10, <1>13 DEF GoesOn
  <2>2. HeldAligned'
    BY <1>1, <1>11, <1>12, <1>13 DEF HeldAligned, Accumulate, Complete
  <2>3. UndamagedFrameIsAligned'
    <3>1. CASE Accumulate(p)
      BY <1>1, <3>1 DEF Accumulate, AlignInv, UndamagedFrameIsAligned
    <3>2. CASE Complete(p)
      <4>1. frame'.payload = Filled(p)
        BY <3>2 DEF Complete
      <4>2. FirstOf(p).scan \in ScansOf(frame'.payload)
        BY <1>12, <4>1 DEF ScansOf
      <4>3. QED
        BY <1>1, <1>13, <4>2 DEF UndamagedFrameIsAligned
    <3>3. QED
      BY <1>11, <3>1, <3>2
  <2>4. QED
    BY <1>1, <1>8, <2>1, <2>2, <2>3 DEF AlignInv, HostLinked
<1>14. CASE FirstOf(p).scan \notin damaged
  <2>1. Aligned(Filled(p), p)
    BY <1>1, <1>3, <1>14, FilledIsAligned
  <2>2. PICK f \in Nat : f = Len(Filled(p)) /\ f <= FrameBytes /\ f # 0
    BY <1>12, <2>1 DEF Aligned
  <2>3. CASE Accumulate(p)
    <3>1. /\ buffer' = Filled(p) /\ frame' = frame /\ expectedSequence' = p.sequence + 1
          /\ f # ExpectedBytes
      <4>1. p.sequence \in 1 .. MaxPackets
        BY DEF Packet
      <4>2. expectedSequence' = p.sequence + 1
        BY <1>1, <1>3, <4>1, NumbersDoNotWrap DEF AddAdc
      <4>3. QED
        BY <2>2, <2>3, <4>2 DEF Accumulate
    <3>2. HostLinked'
      BY <1>9, <1>10, <1>12, <3>1 DEF HostLinked
    <3>3. HeldAligned'
      <4>1. f < FrameBytes
        BY <2>2, <3>1, StreamAssumption
      <4>2. QED
        BY <2>1, <2>2, <3>1, <4>1 DEF Aligned, HeldAligned
    <3>4. UndamagedFrameIsAligned'
      BY <1>1, <3>1 DEF AlignInv, UndamagedFrameIsAligned
    <3>5. QED
      BY <1>1, <1>8, <3>2, <3>3, <3>4 DEF AlignInv
  <2>4. CASE Complete(p)
    <3>1. /\ buffer' = <<>> /\ frame'.payload = Filled(p) /\ f = FrameBytes
      BY <2>2, <2>4 DEF Complete
    <3>2. HeldAligned'
      BY <3>1 DEF HeldAligned
    <3>3. Filled(p)[1].at \in Nat \ {0}
      <4>1. Filled(p)[1] \in Byte
        BY <1>12
      <4>2. QED
        BY <4>1, ByteIsSample
    <3>4. UndamagedFrameIsAligned'
      <4>1. Unbroken(Filled(p))
        BY <2>1, RunIsUnbroken DEF Aligned
      <4>2. PICK m \in Nat : m = Filled(p)[1].at - 1
        BY <3>3
      <4>3. m % FrameBytes = 0
        BY <2>1, <4>2 DEF Aligned, PlaceOf
      <4>4. (m + 1) % FrameBytes = 1 % FrameBytes
        BY <4>3, OneMore, StreamAssumption
      <4>5. Filled(p)[1].at = m + 1
        BY <3>3, <4>2
      <4>6. QED
        BY <3>1, <4>1, <4>4, <4>5 DEF UndamagedFrameIsAligned
    <3>5. HostLinked'
      <4>1. SUFFICES ASSUME GoesOn(2) PROVE PlaceOf(Line(2).at) = 0
        BY <1>9, <3>1 DEF HostLinked
      <4>2. Line(2).at = LastOf(p).at + 1
        BY <1>1, <1>3, <1>10, <4>1, NextInLine
      <4>3. PICK m \in Nat : m = Filled(p)[1].at - 1
        BY <3>3
      <4>4. m % FrameBytes = 0
        BY <2>1, <4>3 DEF Aligned, PlaceOf
      <4>5. Line(2).at - 1 = m + FrameBytes
        <5>1. LastOf(p).at = Filled(p)[1].at + f - 1
          BY <2>1, <2>2 DEF Aligned
        <5>2. Filled(p)[1].at = m + 1
          BY <3>3, <4>3
        <5>3. LastOf(p).at = m + f
          BY <5>1, <5>2
        <5>4. QED
          BY <2>2, <3>1, <4>2, <5>3
      <4>6. (m + FrameBytes) % FrameBytes = 0
        <5>1. (m % FrameBytes) + FrameBytes <= FrameBytes /\ (m % FrameBytes) + FrameBytes = FrameBytes
          BY <4>4, StreamAssumption
        <5>2. QED
          BY <5>1, AddMod, StreamAssumption
      <4>7. QED
        BY <4>5, <4>6 DEF PlaceOf
    <3>6. QED
      BY <1>1, <1>8, <3>2, <3>4, <3>5 DEF AlignInv
  <2>5. QED
    BY <1>11, <2>3, <2>4
<1>15. QED
  BY <1>13, <1>14

\* The host expects frames of the size in which the FPGA sends them: ReceiverFitsTheScan
\* of HostGui_proofs says when it does.  Then every frame shown of a scan of which nothing
\* was lost is one frame of the FPGA, for any sizes of frame and packet, although nothing
\* in the stream marks the beginning of a frame.
THEOREM UndamagedFrameIsAlignedAlways ==
    ASSUME ExpectedBytes = FrameBytes PROVE Spec => []UndamagedFrameIsAligned
<1>1. Init => AlignInv
  <2> SUFFICES ASSUME Init PROVE AlignInv
    OBVIOUS
  <2>1. wire = <<>> /\ packageCount = 1 /\ buffer = <<>> /\ frame = None
    BY DEF Init, AssemblerInit
  <2>2. ~GoesOn(1)
    <3>1. Line(1).number = 1
      BY <2>1 DEF Line
    <3>2. QED
      BY <3>1 DEF GoesOn
  <2>3. QED
    BY <2>1, <2>2 DEF AlignInv, HostLinked, HeldAligned, UndamagedFrameIsAligned
<1>2. StreamInv /\ NumberInv /\ AlignInv /\ [Next]_vars => AlignInv'
  <2> SUFFICES ASSUME StreamInv, NumberInv, AlignInv, [Next]_vars PROVE AlignInv'
    OBVIOUS
  <2>1. CASE StartScan \/ StopScan \/ SendPacket
    BY <2>1, FpgaAligned
  <2>2. CASE LosePacket \/ Unheard \/ StopReceiving \/ StartReceiving
    BY <2>2, LossAligned
  <2>3. CASE Deliver
    BY <2>3, DeliverAligned
  <2>4. CASE UNCHANGED vars
    <3>1. UNCHANGED <<assemblerVars, fpgaVars, wire, receiving, damaged>>
      BY <2>4 DEF vars, streamVars, fpgaVars
    <3>2. \A i : Line(i)' = Line(i)
      BY <3>1 DEF Line, fpgaVars
    <3>3. \A i : GoesOn(i)' <=> GoesOn(i)
      BY <3>1, <3>2 DEF GoesOn
    <3>4. \A i \in 2 .. Len(wire') + 1 : Linked(i)'
      BY <3>1, <3>2, <3>3 DEF AlignInv, Linked
    <3>5. QED
      BY <3>1, <3>2, <3>3, <3>4
      DEF AlignInv, assemblerVars, HostLinked, HeldAligned, UndamagedFrameIsAligned
  <2>5. QED
    BY <2>1, <2>2, <2>3, <2>4 DEF Next
<1>3. AlignInv => UndamagedFrameIsAligned
  BY DEF AlignInv
<1>4. QED
  BY <1>1, <1>2, <1>3, StreamInvariance, NumbersKept, PTL DEF Spec
=============================================================================
