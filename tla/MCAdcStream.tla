------------------------------ MODULE MCAdcStream ------------------------------
(***************************************************************************)
(* A frame of five bytes in packets of two, so that the last packet of a   *)
(* frame is short, and never a whole frame on the wire at once.            *)
(***************************************************************************)
EXTENDS AdcStream

\* The samples that can be sent; the packets of this model come from the FPGA,
\* so the payloads the assembler alone would be offered are not needed.
MCByte == [scan : 1 .. MaxScans, at : 1 .. MaxPackets * PacketBytes]
MCPayload == {<<>>}
=============================================================================
