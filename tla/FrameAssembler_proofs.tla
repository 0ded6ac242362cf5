------------------------ MODULE FrameAssembler_proofs -------------------------
(***************************************************************************)
(* The frame assembler for every frame size, every packet-number space and *)
(* every set of payloads, against a network that may do anything.          *)
(***************************************************************************)
EXTENDS FrameAssembler, TLAPS

\* A parsed packet, whatever its payload.
AnyPacket == [sequence : SeqNo, payload : Seq(Byte)]

\* The successor of a packet number is a packet number (the & 0xFFFFFFFFFFFF of
\* add_packet).
LEMMA NextSeqType == ASSUME NEW s \in SeqNo PROVE NextSeq(s) \in SeqNo
BY AssemblerAssumption DEF SeqNo, NextSeq

\* One number is a run.
LEMMA SingleRun == ASSUME NEW s \in SeqNo PROVE Spans(<<s>>, s, s)
BY DEF Spans, Consecutive

\* The number the assembler waits for extends the run of the partial frame.
LEMMA ExtendRun ==
    ASSUME NEW r \in Seq(SeqNo), NEW first \in SeqNo, NEW s \in SeqNo,
           Spans(r, first, r[Len(r)]), s = NextSeq(r[Len(r)])
    PROVE  Spans(Append(r, s), first, s)
<1> DEFINE t == Append(r, s)
<1>1. Len(t) = Len(r) + 1 /\ t[Len(t)] = s /\ t # <<>>
  OBVIOUS
<1>2. \A i \in 1 .. Len(r) : t[i] = r[i]
  OBVIOUS
<1>3. t[1] = first
  BY <1>2 DEF Spans
<1>4. ASSUME NEW i \in 1 .. Len(t) - 1 PROVE t[i + 1] = NextSeq(t[i])
  <2>1. CASE i = Len(r)
    BY <2>1, <1>1, <1>2
  <2>2. CASE i # Len(r)
    <3>1. i \in 1 .. Len(r) - 1 /\ i + 1 \in 1 .. Len(r)
      BY <2>2, <1>1
    <3>2. QED
      BY <3>1, <1>2 DEF Spans, Consecutive
  <2>3. QED
    BY <2>1, <2>2
<1>5. QED
  BY <1>1, <1>3, <1>4 DEF Spans, Consecutive

\* What add_packet computes from a packet is well typed.
LEMMA DecisionsType ==
    ASSUME AssemblerTypeOK, NEW p \in AnyPacket
    PROVE  /\ Kept(p) \in Seq(Byte)
           /\ Filled(p) \in Seq(Byte)
           /\ First(p) \in SeqNo
           /\ Run(p) \in Seq(SeqNo)
           /\ Lost(p) \in Nat
           /\ Bad(p) \in Nat
<1>1. p.sequence \in SeqNo /\ p.payload \in Seq(Byte)
  BY DEF AnyPacket
<1>2. Kept(p) \in Seq(Byte)
  BY DEF Kept, AssemblerTypeOK
<1>3. Filled(p) \in Seq(Byte)
  BY <1>1, <1>2 DEF Filled
<1>4. First(p) \in SeqNo
  BY <1>1 DEF First, Restarts, AssemblerTypeOK
<1>5. Run(p) \in Seq(SeqNo)
  BY <1>1 DEF Run, AssemblerTypeOK
<1>6. Lost(p) \in Nat /\ Bad(p) \in Nat
  BY DEF Lost, Bad, AssemblerTypeOK, Stats
<1>7. QED
  BY <1>2, <1>3, <1>4, <1>5, <1>6

\* The packets add_packet holds after a packet are a run that ends with it.
LEMMA RunSpans ==
    ASSUME AssemblerTypeOK, PartialIsOneRun, NEW p \in AnyPacket
    PROVE  Spans(Run(p), First(p), p.sequence)
<1>1. p.sequence \in SeqNo
  BY DEF AnyPacket
<1>2. CASE Restarts(p)
  BY <1>1, <1>2, SingleRun DEF Run, First
<1>3. CASE ~Restarts(p)
  <2>1. run # <<>> /\ firstSequence \in SeqNo /\ run \in Seq(SeqNo)
    BY <1>3 DEF Restarts, PartialIsOneRun, AssemblerTypeOK
  <2>2. p.sequence = NextSeq(run[Len(run)])
    BY <1>3, <2>1 DEF Restarts, Gap, PartialIsOneRun
  <2>3. Spans(run, firstSequence, run[Len(run)])
    BY <2>1 DEF PartialIsOneRun
  <2>4. QED
    BY <1>1, <1>3, <2>1, <2>2, <2>3, ExtendRun DEF Run, First
<1>4. QED
  BY <1>2, <1>3

AssemblerInv == AssemblerTypeOK /\ FrameIsOneRun /\ PartialIsOneRun

\* A packet that is kept preserves the invariant.
LEMMA AccumulatePreserves ==
    ASSUME AssemblerInv, NEW p \in AnyPacket,
           expectedSequence' = NextSeq(p.sequence), Accumulate(p)
    PROVE  AssemblerInv'
<1> USE DEF AssemblerInv
<1>1. p.sequence \in SeqNo /\ NextSeq(p.sequence) \in SeqNo
  BY NextSeqType DEF AnyPacket
<1>2. /\ Filled(p) \in Seq(Byte) /\ First(p) \in SeqNo /\ Run(p) \in Seq(SeqNo)
      /\ Lost(p) \in Nat /\ Bad(p) \in Nat
  BY DecisionsType
<1>3. Spans(Run(p), First(p), p.sequence)
  BY RunSpans
<1>4. AssemblerTypeOK'
  <2>a. stats \in Stats /\ Len(Filled(p)) \in Nat
    BY <1>2 DEF AssemblerTypeOK
  <2>1. stats' \in Stats
    BY <1>2, <2>a DEF Accumulate, Stats
  <2>2. QED
    BY <1>1, <1>2, <2>1 DEF Accumulate, AssemblerTypeOK
<1>5. FrameIsOneRun'
  BY DEF Accumulate, FrameIsOneRun
<1>6. firstSequence' # None /\ run' # <<>> /\ expectedSequence' # None
  BY <1>1, <1>2, <1>3, AssemblerAssumption DEF Accumulate, Spans, SeqNo
<1>7. run'[Len(run')] = p.sequence
  BY <1>3 DEF Accumulate, Spans
<1>8. stats'.bytes_in_frame = Len(buffer')
  BY DEF Accumulate, AssemblerTypeOK, Stats
<1>9. PartialIsOneRun'
  BY <1>3, <1>6, <1>7, <1>8 DEF Accumulate, PartialIsOneRun
<1>10. QED
  BY <1>4, <1>5, <1>9

\* A packet that completes a frame preserves the invariant.
LEMMA CompletePreserves ==
    ASSUME AssemblerInv, NEW p \in AnyPacket,
           expectedSequence' = NextSeq(p.sequence), Complete(p)
    PROVE  AssemblerInv'
<1> USE DEF AssemblerInv
<1>1. p.sequence \in SeqNo /\ NextSeq(p.sequence) \in SeqNo
  BY NextSeqType DEF AnyPacket
<1>2. /\ Filled(p) \in Seq(Byte) /\ First(p) \in SeqNo /\ Run(p) \in Seq(SeqNo)
      /\ Lost(p) \in Nat /\ Bad(p) \in Nat
  BY DecisionsType
<1>3. Spans(Run(p), First(p), p.sequence)
  BY RunSpans
<1>4. frame' \in FrameModel
  BY <1>1, <1>2 DEF Complete, FrameModel
<1>5. AssemblerTypeOK'
  <2>a. stats \in Stats /\ stats.frames + 1 \in Nat
    BY DEF AssemblerTypeOK, Stats
  <2>1. stats' \in Stats
    BY <1>2, <2>a DEF Complete, Stats
  <2>2. QED
    BY <1>1, <1>4, <2>1 DEF Complete, AssemblerTypeOK
<1>6. FrameIsOneRun'
  BY <1>3 DEF Complete, FrameIsOneRun
<1>7. stats'.bytes_in_frame = Len(buffer')
  BY DEF Complete, AssemblerTypeOK, Stats
<1>8. PartialIsOneRun'
  BY <1>7 DEF Complete, PartialIsOneRun
<1>9. QED
  BY <1>5, <1>6, <1>8

\* An assembler that was just made has the invariant.
LEMMA AssemblerStarts == AssemblerInit => AssemblerInv
BY AssemblerAssumption
   DEF AssemblerInit, AssemblerInv, AssemblerTypeOK, Stats, FrameIsOneRun, PartialIsOneRun

\* A receiver that stops preserves the invariant.
LEMMA ResetPreserves == AssemblerInv /\ Reset => AssemblerInv'
BY DEF Reset, AssemblerInv, AssemblerTypeOK, Stats, FrameIsOneRun, PartialIsOneRun

\* Whatever arrives and whenever the receiver stops, the assembler's state is
\* well typed, its partial frame is one run and so is the frame it returned.
THEOREM AssemblerInvariance == AssemblerSpec => []AssemblerInv
<1> USE DEF AssemblerInv
<1>1. AssemblerInit => AssemblerInv
  BY AssemblerStarts
<1>2. AssemblerInv /\ [AssemblerNext]_assemblerVars => AssemblerInv'
  <2> SUFFICES ASSUME AssemblerInv, [AssemblerNext]_assemblerVars PROVE AssemblerInv'
    OBVIOUS
  <2>1. ASSUME NEW p \in AdcPacket, AddAdc(p) PROVE AssemblerInv'
    <3>1. p \in AnyPacket
      BY AssemblerAssumption DEF AdcPacket, AnyPacket
    <3>2. QED
      BY <2>1, <3>1, AccumulatePreserves, CompletePreserves DEF AddAdc
  <2>2. CASE AddMalformed
    BY <2>2 DEF AddMalformed, AssemblerTypeOK, Stats, FrameIsOneRun, PartialIsOneRun
  <2>3. CASE Reset
    BY <2>3, ResetPreserves
  <2>4. CASE UNCHANGED assemblerVars
    BY <2>4 DEF assemblerVars, AssemblerTypeOK, FrameIsOneRun, PartialIsOneRun
  <2>5. QED
    BY <2>1, <2>2, <2>3, <2>4 DEF AssemblerNext
<1>3. QED
  BY <1>1, <1>2, PTL DEF AssemblerSpec

\* The assembler's fields and counters keep their types, for every packet.
THEOREM AssemblerTyped == AssemblerSpec => []AssemblerTypeOK
<1>1. AssemblerInv => AssemblerTypeOK
  BY DEF AssemblerInv
<1>2. QED
  BY <1>1, AssemblerInvariance, PTL

\* What add_packet holds between two frames is always one run that ends just before
\* the number it waits for, and the progress it reports is that of the bytes held.
THEOREM PartialIsOneRunAlways == AssemblerSpec => []PartialIsOneRun
<1>1. AssemblerInv => PartialIsOneRun
  BY DEF AssemblerInv
<1>2. QED
  BY <1>1, AssemblerInvariance, PTL

\* Every frame the host shows is one unbroken run of packets of one frame's size.
THEOREM FrameIsOneRunAlways == AssemblerSpec => []FrameIsOneRun
<1>1. AssemblerInv => FrameIsOneRun
  BY DEF AssemblerInv
<1>2. QED
  BY <1>1, AssemblerInvariance, PTL

\* The frame counter steps exactly when add_packet returns a frame, which carries the loss
\* count of the moment it completes.
THEOREM FramesAreCountedAlways == AssemblerSpec => FramesAreCounted
<1> DEFINE
      Untouched == stats'.frames = stats.frames /\ frame' = frame
      Returned == /\ stats'.frames = stats.frames + 1
                  /\ frame' \in FrameModel
                  /\ expectedSequence' = NextSeq(frame'.sequence_end)
                  /\ buffer' = <<>>
                  /\ frame'.dropped_packets = stats'.lost_packets
<1>1. ASSUME AssemblerInv, [AssemblerNext]_assemblerVars
      PROVE  [(Untouched \/ Returned) /\ stats'.lost_packets >= stats.lost_packets]_assemblerVars
  <2>1. ASSUME NEW p \in AdcPacket, Accumulate(p)
        PROVE  Untouched /\ stats'.lost_packets >= stats.lost_packets
    BY <1>1, <2>1 DEF Accumulate, Lost, AssemblerInv, AssemblerTypeOK, Stats
  <2>2. ASSUME NEW p \in AdcPacket, Complete(p), expectedSequence' = NextSeq(p.sequence)
        PROVE  Returned /\ stats'.lost_packets >= stats.lost_packets
    <3>1. /\ stats'.frames = stats.frames + 1
          /\ frame'.sequence_end = p.sequence
          /\ buffer' = <<>>
          /\ frame'.dropped_packets = stats'.lost_packets
          /\ stats'.lost_packets >= stats.lost_packets
      BY <1>1, <2>2 DEF Complete, Lost, AssemblerInv, AssemblerTypeOK, Stats
    <3>2. frame' \in FrameModel
      <4>1. p \in AnyPacket
        BY AssemblerAssumption DEF AdcPacket, AnyPacket
      <4>2. /\ p.sequence \in SeqNo /\ Filled(p) \in Seq(Byte) /\ First(p) \in SeqNo
            /\ Run(p) \in Seq(SeqNo) /\ Lost(p) \in Nat
        BY <1>1, <4>1, DecisionsType DEF AssemblerInv, AnyPacket
      <4>3. QED
        BY <2>2, <4>2 DEF Complete, FrameModel
    <3>3. QED
      BY <2>2, <3>1, <3>2
  <2>3. CASE AddMalformed \/ Reset
    BY <1>1, <2>3 DEF AddMalformed, Reset, AssemblerInv, AssemblerTypeOK, Stats
  <2>4. QED
    BY <1>1, <2>1, <2>2, <2>3 DEF AssemblerNext, AddAdc
<1>2. QED
  BY <1>1, AssemblerInvariance, PTL DEF AssemblerSpec, FramesAreCounted
=============================================================================
