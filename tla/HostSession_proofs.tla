--------------------------- MODULE HostSession_proofs ---------------------------
(***************************************************************************)
(* What exit code 0 means, for every session of commands, configuration    *)
(* and loss of requests and replies.                                       *)
(*                                                                         *)
(* A verified write says what a register was when it was read.  It is      *)
(* still that when the command ends for two reasons: answers can be late,  *)
(* but a stale one is right about a register that no write on its way will *)
(* change, and a later write of the plan asks the same of it.  So the      *)
(* invariant speaks of all that is on its way (OnLink), starting from a    *)
(* link on which the earlier command left nothing.                         *)
(*                                                                         *)
(* The results of the divisions of the FPGA, the DAC steps, are carried    *)
(* along the writes on their way: what changes an input is followed by     *)
(* what starts the division (Current).                                     *)
(***************************************************************************)
EXTENDS HostSession, SequenceTheorems, TLAPS

(***************************************************************************)
(* Fields.  A register is put together from its fields and taken apart     *)
(* again without loss, because they do not overlap.                        *)
(***************************************************************************)
LEMMA FieldsDoNotOverlap ==
    \A t, u \in RtlLayout : t[1] = u[1] /\ t # u => t[3] + t[4] <= u[3] \/ u[3] + u[4] <= t[3]
BY DEF RtlLayout

\* Every field lies within the 32 bits of its register.
LEMMA FieldsFitTheWord ==
    \A t \in RtlLayout : t[3] \in 0 .. 31 /\ t[4] \in 1 .. 32 /\ t[3] + t[4] <= 32
BY DEF RtlLayout

\* The fields of a register are places of the layout, under its own address.
LEMMA FieldsOfType == ASSUME NEW a PROVE FieldsOf(a) \subseteq RtlLayout /\ \A t \in FieldsOf(a) : t[1] = a
BY DEF FieldsOf

\* A register made of parts that fit their fields.
Joined(a, part) == UNION {Shl(part[t], t[3]) : t \in FieldsOf(a)}

PartsFit(a, part) == \A t \in FieldsOf(a) : part[t] \subseteq 0 .. t[4] - 1

\* Each field of it is its part.
LEMMA JoinedTakenApart ==
    ASSUME NEW a, NEW part, PartsFit(a, part), NEW t \in FieldsOf(a)
    PROVE  Slice(Joined(a, part), t[3], t[4]) = part[t]
<1> DEFINE v == Joined(a, part)
<1>1. /\ \A u \in FieldsOf(a) : u[3] \in 0 .. 31 /\ u[4] \in 1 .. 32
      /\ \A u \in FieldsOf(a) : u # t => t[3] + t[4] <= u[3] \/ u[3] + u[4] <= t[3]
      /\ \A u \in FieldsOf(a) : part[u] \subseteq 0 .. u[4] - 1
  BY FieldsDoNotOverlap, FieldsFitTheWord DEF FieldsOf, PartsFit
<1>2. ASSUME NEW b \in part[t] PROVE b \in Slice(v, t[3], t[4])
  <2>1. b \in 0 .. t[4] - 1
    BY <1>1
  <2>2. b + t[3] \in v
    BY DEF Joined, Shl
  <2>3. t[3] <= b + t[3] /\ b + t[3] < t[3] + t[4] /\ (b + t[3]) - t[3] = b
    BY <1>1, <2>1
  <2> HIDE DEF v
  <2> QED
    BY <2>2, <2>3 DEF Slice
<1>3. ASSUME NEW b \in Slice(v, t[3], t[4]) PROVE b \in part[t]
  <2>1. PICK x \in v : t[3] <= x /\ x < t[3] + t[4] /\ b = x - t[3]
    BY DEF Slice
  <2>a. PICK u \in FieldsOf(a) : \E y \in part[u] : x = y + u[3]
    BY <2>1 DEF Joined, Shl
  <2>2. PICK y \in part[u] : x = y + u[3]
    BY <2>a
  <2>3. y \in 0 .. u[4] - 1
    BY <1>1, <2>2
  <2>b. x \in Nat /\ u[3] <= x /\ x < u[3] + u[4]
    <3>1. u[3] \in 0 .. 31 /\ u[4] \in 1 .. 32
      BY <1>1, <2>a
    <3> QED
      BY <2>2, <2>3, <3>1
  <2>4. u = t
    <3> SUFFICES ASSUME u # t PROVE FALSE
      OBVIOUS
    <3>1. t[3] + t[4] <= u[3] \/ u[3] + u[4] <= t[3]
      BY <1>1, <2>a
    <3>2. u[3] \in Nat /\ u[4] \in Nat /\ t[3] \in Nat /\ t[4] \in Nat
      BY <1>1, <2>a
    <3> QED
      BY <2>1, <2>b, <3>1, <3>2
  <2> QED
    BY <1>1, <2>1, <2>2, <2>3, <2>4
<1> QED
  BY <1>2, <1>3

\* It is a word.
LEMMA JoinedIsWord ==
    ASSUME NEW a, NEW part, PartsFit(a, part)
    PROVE  Joined(a, part) \in Word
<1> SUFFICES ASSUME NEW x \in Joined(a, part) PROVE x \in 0 .. 31
  BY DEF Word
<1>a. PICK u \in FieldsOf(a) : \E y \in part[u] : x = y + u[3]
  BY DEF Joined, Shl
<1>1. PICK y \in part[u] : x = y + u[3]
  BY <1>a
<1>2. y \in 0 .. u[4] - 1 /\ u[3] \in 0 .. 31 /\ u[4] \in 1 .. 32 /\ u[3] + u[4] <= 32
  BY <1>1, FieldsFitTheWord DEF FieldsOf, PartsFit
<1> QED
  BY <1>1, <1>2

\* The fields that are never zero are not zero in it.
PartsLegal(a, part) ==
    \A t \in FieldsOf(a) : t[2] \in {"row_repeat", "row_n"} => part[t] # {}

\* The FPGA keeps all of it.
LEMMA JoinedIsKept ==
    ASSUME NEW a, NEW part, PartsFit(a, part), PartsLegal(a, part)
    PROVE  Kept(a, Joined(a, part)) = Joined(a, part)
<1>1. ASSUME NEW t \in FieldsOf(a) PROVE Taken(t, Joined(a, part)) = part[t]
  BY JoinedTakenApart DEF Taken, PartsLegal
<1> QED
  BY <1>1 DEF Kept, Joined

\* What is kept of a word is made of parts that fit.
LEMMA KeptIsJoined ==
    ASSUME NEW a, NEW v \in SUBSET Nat
    PROVE  LET part == [t \in FieldsOf(a) |-> Taken(t, v)]
           IN  PartsFit(a, part) /\ PartsLegal(a, part) /\ Kept(a, v) = Joined(a, part)
<1> DEFINE part == [t \in FieldsOf(a) |-> Taken(t, v)]
<1>1. PartsFit(a, part)
  <2> SUFFICES ASSUME NEW t \in FieldsOf(a), NEW b \in Taken(t, v) PROVE b \in 0 .. t[4] - 1
    BY DEF PartsFit
  <2>1. t[3] \in 0 .. 31 /\ t[4] \in 1 .. 32
    BY FieldsFitTheWord DEF FieldsOf
  <2>2. CASE b \in One
    BY <2>1, <2>2 DEF One
  <2>3. CASE b \in Slice(v, t[3], t[4])
    BY <2>1, <2>3 DEF Slice
  <2> QED
    BY <2>2, <2>3 DEF Taken
<1>2. PartsLegal(a, part)
  BY DEF PartsLegal, Taken, One
<1>3. Kept(a, v) = Joined(a, part)
  BY DEF Kept, Joined
<1> QED
  BY <1>1, <1>2, <1>3

\* The FPGA stores a word, and storing it again changes nothing.
LEMMA KeptIsFixed ==
    ASSUME NEW a, NEW v \in SUBSET Nat
    PROVE  Kept(a, v) \in Word /\ Kept(a, Kept(a, v)) = Kept(a, v)
<1> DEFINE part == [t \in FieldsOf(a) |-> Taken(t, v)]
<1>1. PartsFit(a, part) /\ PartsLegal(a, part) /\ Kept(a, v) = Joined(a, part)
  BY KeptIsJoined
<1> HIDE DEF part
<1> QED
  BY <1>1, JoinedIsWord, JoinedIsKept

\* After a reset a register is what it keeps.
LEMMA ResetIsFixed ==
    ASSUME NEW a PROVE ResetValue(a) \in Word /\ Kept(a, ResetValue(a)) = ResetValue(a)
<1> DEFINE part == [t \in FieldsOf(a) |-> IF t[2] \in DOMAIN ResetFields THEN ResetFields[t[2]] ELSE {}]
<1>1. \A t \in RtlLayout : t[2] \in DOMAIN ResetFields => ResetFields[t[2]] \subseteq 0 .. t[4] - 1
  BY DEF RtlLayout, ResetFields
<1>2. \A t \in RtlLayout :
        t[2] \in {"row_repeat", "row_n"} => t[2] \in DOMAIN ResetFields /\ ResetFields[t[2]] # {}
  BY DEF ResetFields
<1>3. PartsFit(a, part)
  BY <1>1, FieldsOfType DEF PartsFit
<1>4. PartsLegal(a, part)
  BY <1>2, FieldsOfType DEF PartsLegal
<1>5. ResetValue(a) = Joined(a, part)
  <2>1. ResetValue(a) \subseteq Joined(a, part)
    BY DEF ResetValue, Joined
  <2>2. ASSUME NEW x \in Joined(a, part) PROVE x \in ResetValue(a)
    <3>1. PICK t \in FieldsOf(a) : x \in Shl(part[t], t[3])
      BY DEF Joined
    <3>2. t[2] \in DOMAIN ResetFields
      BY <3>1 DEF Shl
    <3> QED
      BY <3>1, <3>2 DEF ResetValue
  <2> QED
    BY <2>1, <2>2
<1> QED
  BY <1>3, <1>4, <1>5, JoinedIsWord, JoinedIsKept

(***************************************************************************)
(* What the host packs for a valid configuration fits the fields of the    *)
(* FPGA.                                                                   *)
(***************************************************************************)
OmittedField == {"clk_sel", "adc_len_single", "dacx_tk_point"}

\* The field and the scan state, or the mode, that a plan puts in a register.
HostPart(c, s) ==
    [t \in RtlLayout |->
        IF t[2] \in {"scan_state", "ultrafast_mode"} THEN s
        ELSE IF t[2] = "ultrafast_line_rec" THEN c[t[2]] \cap 0 .. 30 ELSE Effective(c)[t[2]]]

LayoutsAgree == HostLayout \cup UltrafastLayout \cup Dl5Layout

\* A field the host packs is one the FPGA has, at the same bit.
LEMMA HostFieldHasItsPlace ==
    \A h \in LayoutsAgree : \E t \in RtlLayout :
        t[1] = h[1] /\ t[2] = h[2] /\ t[3] = h[3] /\ t[2] \notin {"scan_state", "ultrafast_mode"}
BY DEF LayoutsAgree, HostLayout, UltrafastLayout, Dl5Layout, RtlLayout

\* ... and but for the two state bits the FPGA has no other.
LEMMA PlaceHasItsHostField ==
    \A t \in RtlLayout :
        t[2] \notin {"scan_state", "ultrafast_mode"} =>
            \E h \in LayoutsAgree : t[1] = h[1] /\ t[2] = h[2] /\ t[3] = h[3]
BY DEF LayoutsAgree, HostLayout, UltrafastLayout, Dl5Layout, RtlLayout

\* The state bits are bit 0 of 0x0009 and of 0x0202.
LEMMA ModePlaces ==
    \A t \in RtlLayout :
        /\ t[2] \in {"scan_state", "ultrafast_mode"} => t[1] \in {"0x0009", "0x0202"} /\ t[3] = 0
        /\ t[2] = "ultrafast_line_rec" => t[1] = "0x0202"
BY DEF RtlLayout

\* The value of a plan item is made of these parts.
LEMMA PackedIsJoined ==
    ASSUME NEW c, NEW a, NEW s \in {{}, One}, s = {} \/ a \in {"0x0009", "0x0202"}
    PROVE  Packed(c, a) \cup s = Joined(a, HostPart(c, s))
<1> DEFINE f(t) == IF t[2] = "ultrafast_line_rec" THEN c[t[2]] \cap 0 .. 30 ELSE Effective(c)[t[2]]
<1>1. Packed(c, a) = UNION {Shl(f(t), t[3]) : t \in {u \in LayoutsAgree : u[1] = a}}
  BY DEF Packed, LayoutsAgree
<1>2. ASSUME NEW x \in Packed(c, a) PROVE x \in Joined(a, HostPart(c, s))
  <2>1. PICK h \in LayoutsAgree : h[1] = a /\ x \in Shl(f(h), h[3])
    BY <1>1
  <2>2. PICK t \in RtlLayout :
          t[1] = h[1] /\ t[2] = h[2] /\ t[3] = h[3] /\ t[2] \notin {"scan_state", "ultrafast_mode"}
    BY HostFieldHasItsPlace
  <2>3. t \in FieldsOf(a) /\ HostPart(c, s)[t] = f(h)
    BY <2>1, <2>2 DEF FieldsOf, HostPart
  <2> QED
    BY <2>1, <2>2, <2>3 DEF Joined
<1>3. ASSUME NEW x \in s PROVE x \in Joined(a, HostPart(c, s))
  <2>1. x = 0 /\ s = One /\ a \in {"0x0009", "0x0202"}
    BY <1>3 DEF One
  <2>2. PICK t \in RtlLayout : t[1] = a /\ t[2] \in {"scan_state", "ultrafast_mode"} /\ t[3] = 0
    BY <2>1 DEF RtlLayout
  <2>3. t \in FieldsOf(a) /\ HostPart(c, s)[t] = s
    BY <2>2 DEF FieldsOf, HostPart
  <2>4. x \in Shl(s, 0)
    BY <2>1 DEF Shl, One
  <2> QED
    BY <2>2, <2>3, <2>4 DEF Joined
<1>4. ASSUME NEW x \in Joined(a, HostPart(c, s)) PROVE x \in Packed(c, a) \cup s
  <2>1. PICK t \in FieldsOf(a) : x \in Shl(HostPart(c, s)[t], t[3])
    BY DEF Joined
  <2>2. t \in RtlLayout /\ t[1] = a
    BY <2>1 DEF FieldsOf
  <2>3. CASE t[2] \in {"scan_state", "ultrafast_mode"}
    <3>1. t[3] = 0 /\ HostPart(c, s)[t] = s
      BY <2>2, <2>3, ModePlaces DEF HostPart
    <3>2. x \in Shl(s, 0)
      BY <2>1, <3>1
    <3>3. x \in s
      BY <3>2 DEF Shl, One
    <3> QED
      BY <3>3
  <2>4. CASE t[2] \notin {"scan_state", "ultrafast_mode"}
    <3>1. PICK h \in LayoutsAgree : t[1] = h[1] /\ t[2] = h[2] /\ t[3] = h[3]
      BY <2>2, <2>4, PlaceHasItsHostField
    <3>2. HostPart(c, s)[t] = f(h)
      BY <2>2, <2>4, <3>1 DEF HostPart
    <3>3. x \in Shl(f(h), h[3])
      BY <2>1, <3>1, <3>2
    <3> HIDE DEF f
    <3> QED
      BY <1>1, <2>2, <3>1, <3>3
  <2> QED
    BY <2>3, <2>4
<1> QED
  BY <1>2, <1>3, <1>4

ScanAddress ==
    {"0x0000", "0x0001", "0x0002", "0x0003", "0x0004", "0x0005", "0x0006", "0x0007", "0x0008",
     "0x000F", "0x0013", "0x0014", "0x0009"}

UltrafastAddress == {"0x0200", "0x0205", "0x0201", "0x0203", "0x0204", "0x0202"}

LaserAddress == {"0x0206", "0x0207", "0x0208", "0x0209", "0x020A"}

AllField == DOMAIN ScanDefaults \cup UltrafastField \cup Dl5Field

\* A configuration has every field of the FPGA but the state bits.
LEMMA AllFieldIs ==
    /\ {"rows", "cols", "adc_sample", "dac_sample", "adc_channel", "adc_len_single", "adc_interval",
        "scan_mode", "clk_sel", "dacx_tk_point", "row_repeat", "row_n"} \subseteq AllField
    /\ \A t \in RtlLayout : t[2] \notin {"scan_state", "ultrafast_mode"} => t[2] \in AllField
BY DEF AllField, ScanDefaults, UltrafastField, Dl5Field, RtlLayout

\* The widths that ScanConfig.validate checks are those of the FPGA's fields.
LEMMA ScanWidthsAgree ==
    \A t \in RtlLayout :
        t[1] \in ScanAddress =>
            \/ <<t[2], t[4]>> \in ScanWidth
            \/ t[2] = "clk_sel" /\ t[1] = "0x0000" /\ t[4] = 1
            \/ t[2] = "adc_channel" /\ t[1] = "0x0001" /\ t[4] = 4
            \/ t[2] = "adc_sample" /\ t[1] = "0x0002" /\ t[4] = 32
            \/ t[2] = "scan_state" /\ t[4] = 4
BY DEF RtlLayout, ScanAddress, ScanWidth

\* The parameters that validate_scan_config lets pass fit their fields. It leaves
\* adc_sample without a limit, and a clk_sel that is not given is never packed.
LEMMA ScanFits ==
    ASSUME NEW c, DOMAIN c = AllField, ScanValid(c), NEW s \in {{}, One}, NEW a \in ScanAddress,
           a = "0x0000" => c.clk_sel # Omitted,
           a = "0x0002" => Fits(c.adc_sample, 32)
    PROVE  PartsFit(a, HostPart(c, s)) /\ PartsLegal(a, HostPart(c, s))
<1>1. /\ \A w \in ScanWidth : Fits(Effective(c)[w[1]], w[2])
      /\ c.adc_channel \in {{0}, {1}, {2}}
      /\ c.clk_sel \in {Omitted, {}, One}
      /\ Effective(c)["row_repeat"] # {} /\ Effective(c)["row_n"] # {}
  BY DEF ScanValid
<1>2. /\ Effective(c)["clk_sel"] = c.clk_sel
      /\ Effective(c)["adc_sample"] = c.adc_sample
      /\ Effective(c)["adc_channel"] \subseteq 0 .. 3
  <2>1. {"clk_sel", "adc_sample", "adc_channel"} \subseteq DOMAIN c
    BY AllFieldIs
  <2>2. /\ Effective(c)["clk_sel"] = c.clk_sel
        /\ Effective(c)["adc_sample"] = c.adc_sample
    BY <2>1 DEF Effective
  <2>3. Effective(c)["adc_channel"] \in {{0}, {0, 1}, 0 .. 3}
    BY <2>1 DEF Effective
  <2> QED
    BY <2>2, <2>3
<1>3. ASSUME NEW t \in FieldsOf(a) PROVE HostPart(c, s)[t] \subseteq 0 .. t[4] - 1
  <2>0. t \in RtlLayout /\ t[1] = a
    BY DEF FieldsOf
  <2>1. CASE <<t[2], t[4]>> \in ScanWidth
    <3>1. t[2] \notin {"scan_state", "ultrafast_mode", "ultrafast_line_rec"}
      BY <2>1 DEF ScanWidth
    <3>2. Fits(Effective(c)[t[2]], t[4])
      BY <1>1, <2>1
    <3> QED
      BY <2>0, <3>1, <3>2 DEF HostPart, Fits
  <2>2. CASE t[2] = "clk_sel" /\ t[1] = "0x0000" /\ t[4] = 1
    BY <1>1, <1>2, <2>0, <2>2 DEF HostPart, One
  <2>3. CASE t[2] = "adc_channel" /\ t[1] = "0x0001" /\ t[4] = 4
    BY <1>2, <2>0, <2>3 DEF HostPart
  <2>4. CASE t[2] = "adc_sample" /\ t[1] = "0x0002" /\ t[4] = 32
    BY <1>2, <2>0, <2>4 DEF HostPart, Fits
  <2>5. CASE t[2] = "scan_state" /\ t[4] = 4
    BY <2>0, <2>5 DEF HostPart, One
  <2> QED
    BY <2>0, <2>1, <2>2, <2>3, <2>4, <2>5, ScanWidthsAgree
<1>4. ASSUME NEW t \in FieldsOf(a), t[2] \in {"row_repeat", "row_n"} PROVE HostPart(c, s)[t] # {}
  BY <1>1, <1>4 DEF HostPart, FieldsOf
<1> QED
  BY <1>3, <1>4 DEF PartsFit, PartsLegal

\* The same of the ultrafast parameters, ...
LEMMA UltrafastFits ==
    ASSUME NEW c, DOMAIN c = AllField, UltrafastValid(c), NEW s \in {{}, One}, NEW a \in UltrafastAddress
    PROVE  PartsFit(a, HostPart(c, s)) /\ PartsLegal(a, HostPart(c, s))
<1>1. /\ Fits(c["ultrafast_line_rec"], 32) /\ Fits(c["adc_acq_delay"], 32) /\ Fits(c["acq_dead_time"], 32)
      /\ Fits(c["sync_delay1"], 16) /\ Fits(c["sync_delay2"], 16)
      /\ Fits(c["sync1_width"], 16) /\ Fits(c["sync2_width"], 16)
  BY DEF UltrafastValid
<1>2. ASSUME NEW t \in FieldsOf(a)
      PROVE  HostPart(c, s)[t] \subseteq 0 .. t[4] - 1 /\ t[2] \notin {"row_repeat", "row_n"}
  <2>1. \/ t[2] = "ultrafast_line_rec" /\ t[4] = 31
        \/ t[2] \in {"adc_acq_delay", "acq_dead_time"} /\ t[4] = 32
        \/ t[2] \in {"sync_delay1", "sync_delay2", "sync1_width", "sync2_width"} /\ t[4] = 16
        \/ t[2] = "ultrafast_mode" /\ t[4] = 1
    BY DEF FieldsOf, RtlLayout, UltrafastAddress
  <2>2. t[2] # "ultrafast_mode" => Effective(c)[t[2]] = c[t[2]]
    BY <2>1, AllFieldIs DEF Effective, FieldsOf
  <2> QED
    BY <1>1, <2>1, <2>2 DEF HostPart, FieldsOf, Fits, One
<1> QED
  BY <1>2 DEF PartsFit, PartsLegal

\* ... and of those of the laser.
LEMMA LaserFits ==
    ASSUME NEW c, DOMAIN c = AllField, Dl5Valid(c), NEW a \in LaserAddress
    PROVE  PartsFit(a, HostPart(c, {})) /\ PartsLegal(a, HostPart(c, {}))
<1>1. /\ Fits(c["scan_delay"], 16) /\ Fits(c["blanker_delay"], 16) /\ Fits(c["blanker_time"], 16)
      /\ Fits(c["acq_delay"], 16) /\ Fits(c["acq_time"], 16)
  BY DEF Dl5Valid
<1>2. ASSUME NEW t \in FieldsOf(a)
      PROVE  HostPart(c, {})[t] \subseteq 0 .. t[4] - 1 /\ t[2] \notin {"row_repeat", "row_n"}
  <2>1. t[2] \in {"scan_delay", "blanker_delay", "blanker_time", "acq_delay", "acq_time"} /\ t[4] = 16
    BY DEF FieldsOf, RtlLayout, LaserAddress
  <2>2. Effective(c)[t[2]] = c[t[2]]
    BY <2>1, AllFieldIs DEF Effective, FieldsOf
  <2> QED
    BY <1>1, <2>1, <2>2 DEF HostPart, FieldsOf, Fits
<1> QED
  BY <1>2 DEF PartsFit, PartsLegal

(***************************************************************************)
(* The link.  Whatever a session does, the link sees its own operations    *)
(* only, so that what RegisterLink_proofs shows holds in a session.        *)
(***************************************************************************)
LP == INSTANCE RegisterLink_proofs WITH
        Address <- RegisterAddress,
        Value <- Word,
        Default <- [a \in RegisterAddress |-> ResetValue(a)],
        Stored <- [a \in RegisterAddress |-> [v \in Word |-> Kept(a, v)]],
        Readable <- RegisterAddress,
        Writable <- RegisterAddress

\* A word is a set of bit numbers.
LEMMA WordsAreNumbers == Word \subseteq SUBSET Nat
BY DEF Word

\* A session meets the assumptions of the link.
LEMMA LinkConstants == LP!LinkAssumption /\ LP!CallAssumption
<1>1. \A a \in RegisterAddress, v \in Word : Kept(a, v) \in Word
  BY KeptIsFixed, WordsAreNumbers
<1>2. \A a \in RegisterAddress : ResetValue(a) \in Word
  BY ResetIsFixed
<1>3. LP!Call = L!Call
  BY DEF LP!Call, L!Call, LP!Op, L!Op
<1> QED
  BY <1>1, <1>2, <1>3, SessionAssumption DEF LP!LinkAssumption, LP!CallAssumption

\* A step of the session is a step of the link or leaves it alone.
LEMMA LinkStep == [Next]_vars => [LP!Next]_(LP!vars)
<1> SUFFICES ASSUME [Next]_vars PROVE [LP!Next]_(LP!vars)
  OBVIOUS
<1>0. UNCHANGED linkVars => UNCHANGED LP!vars
  BY DEF linkVars, LP!vars
<1>1. CASE Launch \/ Settle \/ Exit \/ CaptureEnds \/ CaptureRestarts \/ RunAudit \/ Over \/ UNCHANGED vars
  BY <1>0, <1>1 DEF Launch, Settle, Exit, CaptureEnds, CaptureRestarts, RunAudit, Over, vars
<1>2. CASE Issue
  <2> DEFINE step == Head(todo)
             a == TargetOf(step)
  <2>1. CASE UNCHANGED linkVars
    BY <1>0, <2>1
  <2>2. CASE L!Read(a)
    <3>1. a \in RegisterAddress /\ LP!Read(a)
      BY <2>2 DEF L!Read, L!Begin, L!ReadRequest, L!Drained, L!IsRead,
                  LP!Read, LP!Begin, LP!ReadRequest, LP!Drained, LP!IsRead
    <3> QED
      BY <3>1 DEF LP!Next, LP!HostNext
  <2>3. CASE Fits(Written(step), 32) /\ L!WriteChecked(a, Written(step))
    <3>1. Written(step) \in Word
      BY <2>3 DEF Fits, Word
    <3>2. a \in RegisterAddress /\ LP!WriteChecked(a, Written(step))
      BY <2>3 DEF L!WriteChecked, L!Begin, L!ReadRequest, L!WriteRequest, L!Drained, L!IsRead,
                  LP!WriteChecked, LP!Begin, LP!ReadRequest, LP!WriteRequest, LP!Drained, LP!IsRead
    <3> QED
      BY <3>1, <3>2 DEF LP!Next, LP!HostNext
  <2>4. CASE Fits(Written(step), 32) /\ L!Write(a, Written(step))
    <3>1. Written(step) \in Word
      BY <2>4 DEF Fits, Word
    <3>2. a \in RegisterAddress /\ LP!Write(a, Written(step))
      BY <2>4 DEF L!Write, L!WriteRequest, L!historyVars, LP!Write, LP!WriteRequest, LP!historyVars
    <3> QED
      BY <3>1, <3>2 DEF LP!Next, LP!HostNext
  <2> QED
    BY <1>2, <2>1, <2>2, <2>3, <2>4 DEF Issue
<1>3. CASE Receive
  BY <1>3 DEF Receive, L!Receive, L!Finish, L!historyVars, LP!Receive, LP!Finish, LP!historyVars,
              LP!Next, LP!HostNext
<1>4. CASE Retry
  BY <1>4 DEF Retry, L!Retry, L!ReadRequest, LP!Retry, LP!ReadRequest, LP!Next, LP!HostNext
<1>5. CASE GiveUp
  BY <1>5 DEF GiveUp, L!GiveUp, L!Finish, LP!GiveUp, LP!Finish, LP!Next, LP!HostNext
<1>6. CASE Reopen
  BY <1>6 DEF Reopen, L!Reopen, LP!Reopen, LP!Next, LP!HostNext
<1>7. CASE FpgaWrite
  BY <1>7 DEF FpgaWrite, L!FpgaWrite, L!IsWrite, L!Subject, LP!FpgaWrite, LP!IsWrite, LP!Subject,
              LP!Next, LP!FpgaNext
<1>8. CASE FpgaRead
  BY <1>8 DEF FpgaRead, L!FpgaRead, L!IsRead, L!historyVars, LP!FpgaRead, LP!IsRead, LP!historyVars,
              LP!Next, LP!FpgaNext
<1>9. CASE FpgaReadBusy
  BY <1>9 DEF FpgaReadBusy, L!FpgaReadBusy, L!IsRead, LP!FpgaReadBusy, LP!IsRead, LP!Next, LP!FpgaNext
<1>10. CASE LoseRequest
  BY <1>10 DEF LoseRequest, L!LoseRequest, L!Without, L!IsRead, LP!LoseRequest, LP!Without,
               LP!IsRead, LP!Next
<1> QED
  BY <1>1, <1>2, <1>3, <1>4, <1>5, <1>6, <1>7, <1>8, <1>9, <1>10 DEF Next

\* A session's link is a RegisterLink.
THEOREM LinkImplemented == Spec => LP!Init /\ [][LP!Next]_(LP!vars)
<1>1. Init => LP!Init
  BY DEF Init, L!Init, LP!Init
<1> QED
  BY <1>1, LinkStep, PTL DEF Spec

\* What is on the link is well typed.
LEMMA LinkTypedStep == ASSUME LP!TypeOK, [Next]_vars PROVE LP!TypeOK'
<1>1. [LP!Next]_(LP!vars)
  BY LinkStep
<1>2. LP!LinkAssumption /\ LP!CallAssumption
  BY LinkConstants
<1> QED
  BY ONLY LP!TypeOK, <1>1, <1>2, LP!TypeStep

\* The link begins well typed.
LEMMA LinkTypedInit == Init => LP!TypeOK
<1> SUFFICES ASSUME Init PROVE LP!TypeOK
  OBVIOUS
<1>1. LP!LinkAssumption
  BY LinkConstants
<1> QED
  BY <1>1 DEF Init, L!Init, LP!TypeOK, LP!LinkAssumption

(***************************************************************************)
(* Plans.  Each is what comes before the scan parameters, the parameters,  *)
(* 0x0009 with the scan stopped, and what comes after.                     *)
(***************************************************************************)
ScanItemOf(c, s) == [register |-> "scan_control", value |-> [interval |-> c, state |-> s]]

FlagItem(r, b) == [register |-> r, value |-> b]

ParameterItem(c, R) == {[register |-> r, value |-> c] : r \in R}

\* Before: the scan is stopped and the other modes are cleared.
EntryItem(c, kind) ==
    {ScanItemOf(c, 0), FlagItem("laser_mode_en", 0)}
        \cup (IF kind = "ultrafast" THEN {} ELSE {FlagItem("ultrafast", 0)})

\* After: the parameters of the mode, and its flag.
ModeItem(c, kind) ==
    CASE kind = "ultrafast" ->
            ParameterItem(c, UltrafastAddress \ {"0x0202"}) \cup {FlagItem("ultrafast", 1)}
      [] kind = "laser" ->
            ParameterItem(c, LaserAddress) \cup {FlagItem("laser_mode_en", 0), FlagItem("laser_mode_en", 1)}
      [] OTHER -> {}

GeometryItems(c) == [i \in 1 .. Len(ScanRegisters(c)) |-> [register |-> ScanRegisters(c)[i], value |-> c]]

Around(c, pre, post) == (pre \o (GeometryItems(c) \o <<ScanItemOf(c, 0)>>)) \o post

BasePlan(cmd) ==
    LET c == ConfigOf(cmd)
    IN  CASE cmd.kind \in {"scan", "profile"} -> P(c)!ScanPlan(c)
          [] cmd.kind = "normal" -> P(c)!NormalPlan(c)
          [] cmd.kind = "ultrafast" -> P(c)!UltrafastPlan(c)
          [] cmd.kind = "laser" -> P(c)!LaserPlan(c, LaserOn(c))

\* A sequence with one element in front.
LEMMA Prefixed ==
    ASSUME NEW T, NEW x \in T, NEW s \in Seq(T), NEW r, r = <<x>> \o s
    PROVE  /\ r \in Seq(T)
           /\ Len(r) = 1 + Len(s)
           /\ r[1] = x
           /\ \A i \in 1 .. Len(s) : r[1 + i] = s[i]
<1>1. <<x>> \in Seq(T) /\ Len(<<x>>) = 1
  OBVIOUS
<1>2. r \in Seq(T) /\ Len(r) = 1 + Len(s)
  BY <1>1
<1>3. r[1] = x
  BY <1>1, <1>2
<1>4. ASSUME NEW i \in 1 .. Len(s) PROVE r[1 + i] = s[i]
  BY <1>1, <1>2
<1> QED
  BY <1>2, <1>3, <1>4

GeometryAddress ==
    <<"0x0001", "0x0002", "0x0003", "0x0004", "0x0005", "0x0006", "0x0007", "0x0008", "0x000F",
      "0x0013", "0x0014">>

\* The registers of a scan from 0x0001 on, after 0x0000 if the clock is given.
LEMMA ScanRegistersAre ==
    ASSUME NEW c
    PROVE  \E o \in {0, 1} :
             /\ o = 1 <=> c.clk_sel # Omitted
             /\ ScanRegisters(c) \in Seq(ScanAddress \ {"0x0009"})
             /\ Len(ScanRegisters(c)) = o + 11
             /\ \A i \in 1 .. 11 : ScanRegisters(c)[o + i] = GeometryAddress[i]
             /\ o = 1 => ScanRegisters(c)[1] = "0x0000"
<1>1. /\ Len(GeometryAddress) = 11
      /\ GeometryAddress \in Seq(ScanAddress \ {"0x0009"})
      /\ "0x0000" \in ScanAddress \ {"0x0009"}
  BY DEF GeometryAddress, ScanAddress
<1>2. ScanRegisters(c) = (IF c.clk_sel # Omitted THEN <<"0x0000">> ELSE <<>>) \o GeometryAddress
  BY DEF ScanRegisters, GeometryAddress
<1> DEFINE T == ScanAddress \ {"0x0009"}
<1> HIDE DEF T
<1>3. CASE c.clk_sel = Omitted
  <2>1. ScanRegisters(c) = <<>> \o GeometryAddress
    BY <1>2, <1>3
  <2>2. ScanRegisters(c) = GeometryAddress
    BY <2>1, <1>1
  <2> QED
    BY <1>1, <1>3, <2>2 DEF T
<1>4. CASE c.clk_sel # Omitted
  <2> DEFINE x == "0x0000"
             R == ScanRegisters(c)
             H == GeometryAddress
  <2>1. R = <<x>> \o H
    BY <1>2, <1>4
  <2>2. H \in Seq(T) /\ Len(H) = 11 /\ x \in T
    BY <1>1 DEF T
  <2> HIDE DEF x, R, H
  <2>3. R \in Seq(T) /\ Len(R) = 1 + 11 /\ R[1] = x /\ \A i \in 1 .. Len(H) : R[1 + i] = H[i]
    <3>0. H \in Seq(T) /\ x \in T
      BY <2>2
    <3>1. R \in Seq(T)
      BY ONLY <2>1, <3>0, Prefixed
    <3>2. Len(R) = 1 + Len(H)
      BY ONLY <2>1, <3>0, Prefixed
    <3>3. R[1] = x
      BY ONLY <2>1, <3>0, Prefixed
    <3>4. \A i \in 1 .. Len(H) : R[1 + i] = H[i]
      BY ONLY <2>1, <3>0, Prefixed
    <3> QED
      BY <2>2, <3>1, <3>2, <3>3, <3>4
  <2>4. /\ ScanRegisters(c) \in Seq(T)
        /\ Len(ScanRegisters(c)) = 1 + 11
        /\ ScanRegisters(c)[1] = "0x0000"
        /\ \A i \in 1 .. 11 : ScanRegisters(c)[1 + i] = GeometryAddress[i]
    BY <2>2, <2>3 DEF x, R, H
  <2> QED
    BY <1>4, <2>4 DEF T
<1> QED
  BY <1>3, <1>4

\* The parameters of a scan are written to registers other than 0x0009.
LEMMA ScanRegistersType ==
    ASSUME NEW c
    PROVE  /\ ScanRegisters(c) \in Seq(ScanAddress \ {"0x0009"})
           /\ Len(ScanRegisters(c)) \in {11, 12}
BY ScanRegistersAre

\* The clock is written if it is given.
LEMMA ClockIsGiven ==
    ASSUME NEW c, NEW j \in 1 .. Len(ScanRegisters(c)), ScanRegisters(c)[j] = "0x0000"
    PROVE  c.clk_sel # Omitted
<1>1. PICK o \in {0, 1} :
        /\ o = 1 <=> c.clk_sel # Omitted
        /\ Len(ScanRegisters(c)) = o + 11
        /\ \A k \in 1 .. 11 : ScanRegisters(c)[o + k] = GeometryAddress[k]
  BY ScanRegistersAre
<1> SUFFICES ASSUME o = 0 PROVE FALSE
  BY <1>1
<1>2. \A k \in 1 .. 11 : GeometryAddress[k] # "0x0000"
  BY DEF GeometryAddress
<1>3. j \in 1 .. 11 /\ 0 + j = j
  BY <1>1
<1> QED
  BY <1>1, <1>2, <1>3

\* build_scan_plan ends with 0x0009, the scan stopped.
LEMMA ScanPlanShape ==
    ASSUME NEW c PROVE P(c)!ScanPlan(c) = GeometryItems(c) \o <<ScanItemOf(c, 0)>>
BY DEF P!ScanPlan, P!Items, P!ScanItem, P!Item, GeometryItems, ScanItemOf

\* build_safe_laser_plan writes registers of the laser only.
LEMMA SafeLaserPlanShape ==
    ASSUME NEW c, NEW on \in {0, 1}
    PROVE  P(c)!SafeLaserPlan(c, on) \in Seq(ModeItem(c, "laser"))
<1> DEFINE R == <<"0x0206", "0x0207", "0x0208", "0x0209", "0x020A">>
           M == ModeItem(c, "laser")
           items == [i \in 1 .. Len(R) |-> [register |-> R[i], value |-> c]]
<1>1. P(c)!SafeLaserPlan(c, on) =
        (<<FlagItem("laser_mode_en", 0)>> \o items) \o <<FlagItem("laser_mode_en", on)>>
  BY DEF P!SafeLaserPlan, P!Items, P!Item, FlagItem
<1>2. Len(R) = 5 /\ \A i \in 1 .. 5 : R[i] \in LaserAddress
  BY DEF LaserAddress
<1> HIDE DEF R
<1>a. M = ParameterItem(c, LaserAddress) \cup {FlagItem("laser_mode_en", 0), FlagItem("laser_mode_en", 1)}
  BY DEF ModeItem
<1>3. items \in Seq(M)
  <2>1. \A i \in 1 .. 5 : [register |-> R[i], value |-> c] \in M
    BY <1>2, <1>a DEF ParameterItem
  <2> HIDE DEF M
  <2> QED
    BY <1>2, <2>1
<1>4. FlagItem("laser_mode_en", 0) \in M /\ FlagItem("laser_mode_en", on) \in M
  BY <1>a
<1> HIDE DEF M, items
<1>5. <<FlagItem("laser_mode_en", 0)>> \in Seq(M) /\ <<FlagItem("laser_mode_en", on)>> \in Seq(M)
  BY <1>4
<1>6. (<<FlagItem("laser_mode_en", 0)>> \o items) \o <<FlagItem("laser_mode_en", on)>> \in Seq(M)
  BY ONLY <1>3, <1>5
<1> QED
  BY <1>1, <1>6 DEF M

Shaped(c, kind, plan) ==
    \E pre \in Seq(EntryItem(c, kind)), post \in Seq(ModeItem(c, kind)) : plan = Around(c, pre, post)

\* The plan of every mode has this form.
LEMMA PlanShape ==
    ASSUME NEW cmd, cmd.kind \in PlanKinds \cup {"profile"}
    PROVE  Shaped(ConfigOf(cmd), cmd.kind, BasePlan(cmd))
<1> DEFINE c == ConfigOf(cmd)
           E == EntryItem(c, cmd.kind)
           M == ModeItem(c, cmd.kind)
           G == GeometryItems(c) \o <<ScanItemOf(c, 0)>>
           U == <<"0x0200", "0x0205", "0x0201", "0x0203", "0x0204">>
           on == LaserOn(c)
           stop == ScanItemOf(c, 0)
           off == FlagItem("laser_mode_en", 0)
           plain == FlagItem("ultrafast", 0)
<1>1. P(c)!ScanPlan(c) = G
  BY ScanPlanShape
<1>g. \E T : G \in Seq(T)
  <2> DEFINE T == {GeometryItems(c)[i] : i \in 1 .. Len(ScanRegisters(c))} \cup {stop}
  <2>1. Len(ScanRegisters(c)) \in Nat
    BY ScanRegistersType
  <2>2. GeometryItems(c) \in Seq(T)
    BY <2>1 DEF GeometryItems
  <2>3. <<stop>> \in Seq(T)
    OBVIOUS
  <2> HIDE DEF T
  <2>4. G \in Seq(T)
    BY <2>2, <2>3
  <2> QED
    BY <2>4
<1>2. stop \in E /\ off \in E /\ (cmd.kind # "ultrafast" => plain \in E)
  BY DEF EntryItem
<1>s. SUFFICES \E pre \in Seq(E), post \in Seq(M) : BasePlan(cmd) = (pre \o G) \o post
  BY DEF Shaped, Around
<1> HIDE DEF E, G, M, stop, off, plain
<1>3. /\ <<>> \in Seq(E) /\ <<>> \in Seq(M)
      /\ <<stop, off>> \in Seq(E)
      /\ cmd.kind # "ultrafast" => <<stop, off, plain>> \in Seq(E) /\ <<stop, plain>> \in Seq(E)
  BY <1>2
<1>4. CASE cmd.kind \in {"scan", "profile"}
  <2>1. BasePlan(cmd) = G
    BY <1>1, <1>4 DEF BasePlan
  <2>2. G = (<<>> \o G) \o <<>>
    BY <1>g
  <2> QED
    BY <1>3, <2>1, <2>2
<1>5. CASE cmd.kind = "normal"
  <2>1. BasePlan(cmd) = <<stop, off, plain>> \o G
    BY <1>1, <1>5 DEF BasePlan, P!NormalPlan, P!ScanItem, P!Item, ScanItemOf, FlagItem, stop, off, plain
  <2>2. <<stop, off, plain>> \o G = (<<stop, off, plain>> \o G) \o <<>>
    BY <1>g
  <2> QED
    BY <1>3, <1>5, <2>1, <2>2
<1>6. CASE cmd.kind = "ultrafast"
  <2> DEFINE items == [i \in 1 .. Len(U) |-> [register |-> U[i], value |-> c]]
             flag == FlagItem("ultrafast", 1)
  <2>1. Len(U) = 5 /\ \A i \in 1 .. 5 : U[i] \in UltrafastAddress \ {"0x0202"}
    BY DEF UltrafastAddress
  <2>a. M = ParameterItem(c, UltrafastAddress \ {"0x0202"}) \cup {flag}
    BY <1>6 DEF M, ModeItem
  <2>2. \A i \in 1 .. 5 : [register |-> U[i], value |-> c] \in M
    BY <2>1, <2>a DEF ParameterItem
  <2>3. flag \in M
    BY <2>a
  <2>4. BasePlan(cmd) = ((<<stop, off>> \o G) \o items) \o <<flag>>
    BY <1>1, <1>6 DEF BasePlan, P!UltrafastPlan, P!Items, P!ScanItem, P!Item, ScanItemOf, FlagItem,
                      stop, off
  <2> HIDE DEF U
  <2>5. items \in Seq(M)
    BY <2>1, <2>2
  <2>b. <<flag>> \in Seq(M)
    BY <2>3
  <2> HIDE DEF items, flag
  <2>6. items \o <<flag>> \in Seq(M)
    BY <2>5, <2>b
  <2>7. BasePlan(cmd) = (<<stop, off>> \o G) \o (items \o <<flag>>)
    <3>1. PICK T : G \in Seq(T)
      BY <1>g
    <3> DEFINE V == T \cup M \cup E
    <3>2. <<stop, off>> \in Seq(V) /\ G \in Seq(V) /\ items \in Seq(V) /\ <<flag>> \in Seq(V)
      BY <1>3, <2>5, <2>b, <3>1
    <3> HIDE DEF V
    <3>3. <<stop, off>> \o G \in Seq(V)
      BY <3>2
    <3> QED
      BY <2>4, <3>2, <3>3
  <2> QED
    BY <1>3, <2>6, <2>7
<1>7. CASE cmd.kind = "laser"
  <2>1. on \in {0, 1}
    BY DEF LaserOn
  <2> DEFINE tail == P(c)!SafeLaserPlan(c, on)
  <2>2. tail \in Seq(M)
    BY <1>7, <2>1, SafeLaserPlanShape DEF M
  <2>3. BasePlan(cmd) = (<<stop, plain>> \o G) \o tail
    BY <1>1, <1>7 DEF BasePlan, P!LaserPlan, P!ScanItem, P!Item, ScanItemOf, FlagItem, stop, plain
  <2> HIDE DEF tail
  <2> QED
    BY <1>3, <1>7, <2>2, <2>3
<1> QED
  BY <1>4, <1>5, <1>6, <1>7 DEF PlanKinds

(***************************************************************************)
(* Sequences of steps.  Where the parts of a plan end up in the whole.     *)
(***************************************************************************)
\* A sequence followed by another.
LEMMA Concatenated ==
    ASSUME NEW T, NEW s \in Seq(T), NEW t \in Seq(T)
    PROVE  /\ s \o t \in Seq(T) /\ Len(s) \in Nat /\ Len(t) \in Nat /\ Len(s \o t) = Len(s) + Len(t)
           /\ \A i \in 1 .. Len(s) : (s \o t)[i] = s[i]
           /\ \A i \in 1 .. Len(t) : (s \o t)[Len(s) + i] = t[i]
<1>1. s \o t \in Seq(T) /\ Len(s) \in Nat /\ Len(t) \in Nat /\ Len(s \o t) = Len(s) + Len(t)
  OBVIOUS
<1>2. ASSUME NEW i \in 1 .. Len(s) PROVE (s \o t)[i] = s[i]
  BY <1>1
<1>3. ASSUME NEW i \in 1 .. Len(t) PROVE (s \o t)[Len(s) + i] = t[i]
  BY <1>1
<1> QED
  BY <1>1, <1>2, <1>3

\* Where the elements of a plan come from: g items before the scan parameters.
Laid(c, kind, p, g) ==
    LET m == Len(ScanRegisters(c))
    IN  /\ \E T : p \in Seq(T)
        /\ Len(p) \in Nat /\ m \in {11, 12} /\ Len(p) >= g + m + 1
        /\ \A i \in 1 .. g : p[i] \in EntryItem(c, kind)
        /\ \A i \in 1 .. m : p[g + i] = [register |-> ScanRegisters(c)[i], value |-> c]
        /\ p[g + m + 1] = ScanItemOf(c, 0)
        /\ \A i \in g + m + 2 .. Len(p) : p[i] \in ModeItem(c, kind)

\* A plan of that shape is laid out around the scan parameters, wherever they begin.
LEMMA AroundIs ==
    ASSUME NEW c, NEW kind, NEW p, Shaped(c, kind, p) PROVE \E g \in Nat : Laid(c, kind, p, g)
<1>a. PICK pre \in Seq(EntryItem(c, kind)) :
        \E post \in Seq(ModeItem(c, kind)) : p = Around(c, pre, post)
  BY DEF Shaped
<1>b. PICK post \in Seq(ModeItem(c, kind)) : p = Around(c, pre, post)
  BY <1>a
<1> DEFINE g == Len(pre)
           m == Len(ScanRegisters(c))
<1> DEFINE E == EntryItem(c, kind)
           M == ModeItem(c, kind)
           items == GeometryItems(c)
           x == ScanItemOf(c, 0)
           I == {items[i] : i \in 1 .. m}
           V == E \cup M \cup I \cup {x}
<1>1. m \in {11, 12}
  BY ScanRegistersType
<1>2. items = [i \in 1 .. m |-> [register |-> ScanRegisters(c)[i], value |-> c]]
  BY DEF GeometryItems
<1>3. items \in Seq(V) /\ Len(items) = m
  <2>1. \A i \in 1 .. m : items[i] \in V
    OBVIOUS
  <2> HIDE DEF V
  <2> QED
    BY <1>1, <1>2, <2>1
<1>4. <<x>> \in Seq(V) /\ Len(<<x>>) = 1 /\ pre \in Seq(V) /\ post \in Seq(V)
  OBVIOUS
<1>5. p = (pre \o (items \o <<x>>)) \o post
  BY <1>b DEF Around
<1> DEFINE G == items \o <<x>>
<1> HIDE DEF items, x, I, V, m
<1>6. /\ G \in Seq(V) /\ Len(G) = m + 1
      /\ G[m + 1] = x
      /\ \A i \in 1 .. m : G[i] = items[i]
  BY <1>1, <1>3, <1>4
<1> DEFINE H == pre \o G
<1> HIDE DEF G, H
<1>7. g \in Nat /\ Len(post) \in Nat
  OBVIOUS
<1>8. /\ H \in Seq(V) /\ Len(H) = g + (m + 1)
      /\ \A i \in 1 .. g : H[i] = pre[i]
      /\ \A i \in 1 .. m + 1 : H[g + i] = G[i]
  <2>1. /\ pre \o G \in Seq(V) /\ Len(pre \o G) = Len(pre) + Len(G)
        /\ \A i \in 1 .. Len(pre) : (pre \o G)[i] = pre[i]
        /\ \A i \in 1 .. Len(G) : (pre \o G)[Len(pre) + i] = G[i]
    <3>1. pre \in Seq(V) /\ G \in Seq(V)
      BY <1>4, <1>6
    <3> QED
      BY ONLY <3>1, Concatenated
  <2> QED
    BY <1>6, <2>1 DEF H
<1>9. p = H \o post
  BY <1>5 DEF H, G
<1> DEFINE h == Len(H)
<1>d. h = g + m + 1
  BY <1>1, <1>7, <1>8
<1>10. /\ p \in Seq(V) /\ Len(p) = h + Len(post)
       /\ \A i \in 1 .. h : p[i] = H[i]
       /\ \A i \in 1 .. Len(post) : p[h + i] = post[i]
  <2>1. /\ H \o post \in Seq(V) /\ Len(H \o post) = Len(H) + Len(post)
        /\ \A i \in 1 .. Len(H) : (H \o post)[i] = H[i]
        /\ \A i \in 1 .. Len(post) : (H \o post)[Len(H) + i] = post[i]
    <3>1. H \in Seq(V) /\ post \in Seq(V)
      BY <1>4, <1>8
    <3> QED
      BY ONLY <3>1, Concatenated
  <2> QED
    BY <1>9, <2>1
<1>11. \A i \in 1 .. g + m + 1 : p[i] = H[i]
  BY <1>10, <1>d
<1>12. Len(p) = g + m + 1 + Len(post) /\ \A i \in 1 .. Len(post) : p[g + m + 1 + i] = post[i]
  BY <1>10, <1>d
<1> HIDE DEF h
<1>13. ASSUME NEW i \in 1 .. g PROVE p[i] \in E
  <2>1. pre[i] \in E
    OBVIOUS
  <2> QED
    BY <1>1, <1>7, <1>8, <1>11, <2>1
<1>14. ASSUME NEW i \in 1 .. m PROVE p[g + i] = [register |-> ScanRegisters(c)[i], value |-> c]
  <2>0. g + i \in 1 .. g + m + 1 /\ i \in 1 .. m + 1
    BY <1>1, <1>7
  <2>1. p[g + i] = G[i]
    BY <1>8, <1>11, <2>0
  <2> QED
    BY <1>2, <1>6, <2>1
<1>15. p[g + m + 1] = x
  <2>0. g + m + 1 \in 1 .. g + m + 1 /\ m + 1 \in 1 .. m + 1 /\ g + (m + 1) = g + m + 1
    BY <1>1, <1>7
  <2>1. p[g + m + 1] = G[m + 1]
    BY <1>8, <1>11, <2>0
  <2> QED
    BY <1>6, <2>1
<1>16. ASSUME NEW i \in g + m + 2 .. Len(p) PROVE p[i] \in M
  <2>1. i - (g + m + 1) \in 1 .. Len(post) /\ g + m + 1 + (i - (g + m + 1)) = i
    BY <1>1, <1>7, <1>12
  <2>2. post[i - (g + m + 1)] \in M
    BY <2>1
  <2> QED
    BY <1>12, <2>1, <2>2
<1>17. Len(p) \in Nat /\ Len(p) >= g + m + 1
  BY <1>1, <1>7, <1>12
<1>18. \E T : p \in Seq(T)
  BY <1>10
<1> HIDE DEF E, M, g
<1> QED
  BY <1>1, <1>7, <1>13, <1>14, <1>15, <1>16, <1>17, <1>18 DEF Laid, m, x, E, M
(***************************************************************************)
(* The steps of the plans, with their values.                              *)
(***************************************************************************)
WholePlan(cmd) == IF Starts(cmd) THEN P(ConfigOf(cmd))!WithStart(BasePlan(cmd)) ELSE BasePlan(cmd)

\* The steps of a command are the items of its plan, one for one.
LEMMA PlanOfIs ==
    ASSUME NEW cmd
    PROVE  PlanOf(cmd) = [i \in 1 .. Len(WholePlan(cmd)) |-> Concrete(ConfigOf(cmd), WholePlan(cmd)[i])]
BY DEF PlanOf, WholePlan, BasePlan

\* start_after_apply finds the interval of the configuration.
LEMMA StartItem ==
    ASSUME NEW c, NEW kind, NEW p, NEW g \in Nat, Laid(c, kind, p, g)
    PROVE  P(c)!WithStart(p) = Append(p, ScanItemOf(c, 1))
<1> DEFINE m == Len(ScanRegisters(c))
           LastScan(i) == /\ p[i].register = "scan_control"
                      /\ \A j \in i + 1 .. Len(p) : p[j].register # "scan_control"
<1>0. /\ \E T : p \in Seq(T)
      /\ m \in {11, 12} /\ Len(p) \in Nat /\ Len(p) >= g + m + 1
      /\ \A i \in 1 .. g : p[i] \in EntryItem(c, kind)
      /\ \A i \in 1 .. m : p[g + i] = [register |-> ScanRegisters(c)[i], value |-> c]
      /\ p[g + m + 1] = ScanItemOf(c, 0)
      /\ \A i \in g + m + 2 .. Len(p) : p[i] \in ModeItem(c, kind)
  BY DEF Laid
<1> HIDE DEF m
<1>1. \A x \in ModeItem(c, kind) : x.register # "scan_control"
  BY DEF ModeItem, ParameterItem, FlagItem, UltrafastAddress, LaserAddress
<1>2. \A x \in EntryItem(c, kind) : x.register = "scan_control" => x = ScanItemOf(c, 0)
  BY DEF EntryItem, FlagItem, ScanItemOf
<1>3. g + m + 1 \in 1 .. Len(p) /\ LastScan(g + m + 1)
  <2>1. p[g + m + 1].register = "scan_control"
    BY <1>0 DEF ScanItemOf
  <2>2. g + m + 1 + 1 = g + m + 2
    BY <1>0
  <2> QED
    BY <1>0, <1>1, <2>1, <2>2
<1>4. ASSUME NEW i \in 1 .. Len(p), p[i].register = "scan_control" PROVE p[i] = ScanItemOf(c, 0)
  <2>1. CASE i \in 1 .. g
    BY <1>0, <1>2, <1>4, <2>1
  <2>2. CASE i \in g + 1 .. g + m
    <3>1. i - g \in 1 .. m /\ g + (i - g) = i
      BY <1>0, <2>2
    <3>2. p[i].register = ScanRegisters(c)[i - g]
      <4>1. p[g + (i - g)] = [register |-> ScanRegisters(c)[i - g], value |-> c]
        BY <1>0, <3>1
      <4> QED
        BY <3>1, <4>1
    <3>3. ScanRegisters(c)[i - g] \in ScanAddress \ {"0x0009"}
      BY <3>1, ScanRegistersType DEF m
    <3> QED
      BY <1>4, <3>2, <3>3 DEF ScanAddress
  <2>3. CASE i = g + m + 1
    BY <1>0, <2>3
  <2>4. CASE i \in g + m + 2 .. Len(p)
    BY <1>0, <1>1, <1>4, <2>4
  <2> QED
    BY <1>0, <2>1, <2>2, <2>3, <2>4
<1> DEFINE k == CHOOSE i \in 1 .. Len(p) : LastScan(i)
<1>5. k \in 1 .. Len(p) /\ LastScan(k)
  BY <1>3
<1>6. P(c)!LastScanControl(p) = p[k].value
  BY DEF P!LastScanControl
<1>7. p[k].value = [interval |-> c, state |-> 0]
  <2> HIDE DEF k
  <2> QED
    BY <1>4, <1>5 DEF ScanItemOf
<1> HIDE DEF k, LastScan
<1>8. [P(c)!LastScanControl(p) EXCEPT !.state = 1] = [interval |-> c, state |-> 1]
  BY <1>6, <1>7
<1> QED
  BY <1>8 DEF P!WithStart, P!Item, ScanItemOf

StopStep(c) == Write("0x0009", Packed(c, "0x0009"))

StartStep(c) == Write("0x0009", Packed(c, "0x0009") \cup One)

EntryStep(c, kind) ==
    {StopStep(c), Write("0x020B", {})} \cup (IF kind = "ultrafast" THEN {} ELSE {Write("0x0202", {})})

ModeStep(c, kind) ==
    CASE kind = "ultrafast" ->
            {Write(a, Packed(c, a)) : a \in UltrafastAddress \ {"0x0202"}}
                \cup {Write("0x0202", Packed(c, "0x0202") \cup One)}
      [] kind = "laser" ->
            {Write(a, Packed(c, a)) : a \in LaserAddress} \cup {Write("0x020B", {}), Write("0x020B", One)}
      [] OTHER -> {}

\* What becomes of the items of a plan when apply_plan writes them.
LEMMA ItemsBecomeSteps ==
    ASSUME NEW c, NEW kind
    PROVE  /\ Concrete(c, ScanItemOf(c, 0)) = StopStep(c)
           /\ Concrete(c, ScanItemOf(c, 1)) = StartStep(c)
           /\ \A x \in EntryItem(c, kind) : Concrete(c, x) \in EntryStep(c, kind)
           /\ \A x \in ModeItem(c, kind) : Concrete(c, x) \in ModeStep(c, kind)
           /\ \A a \in RegisterAddress : Concrete(c, [register |-> a, value |-> c]) = Write(a, Packed(c, a))
<1>0. \A a \in RegisterAddress : a \notin {"scan_control", "laser_mode_en", "ultrafast"}
  BY DEF RegisterAddress, RtlLayout
<1>1. \A a \in RegisterAddress : Concrete(c, [register |-> a, value |-> c]) = Write(a, Packed(c, a))
  BY <1>0 DEF Concrete
<1>2. Concrete(c, ScanItemOf(c, 0)) = StopStep(c)
  BY DEF Concrete, ScanItemOf, StopStep, Flag
<1>3. Concrete(c, ScanItemOf(c, 1)) = StartStep(c)
  BY DEF Concrete, ScanItemOf, StartStep, Flag
<1>4. /\ Concrete(c, FlagItem("laser_mode_en", 0)) = Write("0x020B", {})
      /\ Concrete(c, FlagItem("laser_mode_en", 1)) = Write("0x020B", One)
      /\ Concrete(c, FlagItem("ultrafast", 0)) = Write("0x0202", {})
      /\ Concrete(c, FlagItem("ultrafast", 1)) = Write("0x0202", Packed(c, "0x0202") \cup One)
  BY DEF Concrete, FlagItem, Flag
<1>5. \A x \in EntryItem(c, kind) : Concrete(c, x) \in EntryStep(c, kind)
  BY <1>2, <1>4 DEF EntryItem, EntryStep
<1>6. UltrafastAddress \subseteq RegisterAddress /\ LaserAddress \subseteq RegisterAddress
  BY DEF UltrafastAddress, LaserAddress, RegisterAddress, RtlLayout
<1>7. ASSUME NEW x \in ModeItem(c, kind) PROVE Concrete(c, x) \in ModeStep(c, kind)
  <2>1. CASE kind = "ultrafast"
    BY <1>1, <1>4, <1>6, <1>7, <2>1 DEF ModeItem, ModeStep, ParameterItem
  <2>2. CASE kind = "laser"
    BY <1>1, <1>4, <1>6, <1>7, <2>2 DEF ModeItem, ModeStep, ParameterItem
  <2>3. CASE kind \notin {"ultrafast", "laser"}
    BY <1>7, <2>3 DEF ModeItem
  <2> QED
    BY <2>1, <2>2, <2>3
<1> QED
  BY <1>1, <1>2, <1>3, <1>5, <1>7

\* The steps of a plan: g before the scan parameters.
StepsLaid(cmd, s, g) ==
    LET c == ConfigOf(cmd)
        m == Len(ScanRegisters(c))
    IN  /\ \E T : s \in Seq(T)
        /\ Len(s) \in Nat /\ m \in {11, 12} /\ Len(s) >= g + m + 1
        /\ \A i \in 1 .. g : s[i] \in EntryStep(c, cmd.kind)
        /\ \A i \in 1 .. m : s[g + i] = Write(ScanRegisters(c)[i], Packed(c, ScanRegisters(c)[i]))
        /\ s[g + m + 1] = StopStep(c)
        /\ \A i \in g + m + 2 .. Len(s) : s[i] \in ModeStep(c, cmd.kind) \/ (Starts(cmd) /\ i = Len(s))
        /\ Starts(cmd) => s[Len(s)] = StartStep(c) /\ Len(s) >= g + m + 2

\* The steps of a command are laid out as its plan is.
LEMMA PlanSteps ==
    ASSUME NEW cmd, cmd.kind \in PlanKinds \cup {"profile"}
    PROVE  \E g \in Nat : StepsLaid(cmd, PlanOf(cmd), g)
<1> DEFINE c == ConfigOf(cmd)
           kind == cmd.kind
           p == BasePlan(cmd)
           w == WholePlan(cmd)
           s == PlanOf(cmd)
           m == Len(ScanRegisters(c))
<1>1. PICK g \in Nat : Laid(c, kind, p, g)
  BY PlanShape, AroundIs
<1>2. /\ \E T : p \in Seq(T)
      /\ m \in {11, 12} /\ Len(p) \in Nat /\ Len(p) >= g + m + 1
      /\ \A i \in 1 .. g : p[i] \in EntryItem(c, kind)
      /\ \A i \in 1 .. m : p[g + i] = [register |-> ScanRegisters(c)[i], value |-> c]
      /\ p[g + m + 1] = ScanItemOf(c, 0)
      /\ \A i \in g + m + 2 .. Len(p) : p[i] \in ModeItem(c, kind)
  BY <1>1 DEF Laid
<1>3. Starts(cmd) => w = Append(p, ScanItemOf(c, 1))
  BY <1>1, StartItem DEF WholePlan
<1>4. ~Starts(cmd) => w = p
  BY DEF WholePlan
<1>5. s = [i \in 1 .. Len(w) |-> Concrete(c, w[i])]
  BY PlanOfIs
<1>6. \A i \in 1 .. m : ScanRegisters(c)[i] \in RegisterAddress
  <2>1. ScanAddress \subseteq RegisterAddress
    BY DEF ScanAddress, RegisterAddress, RtlLayout
  <2> QED
    BY <2>1, ScanRegistersType
<1> DEFINE x == ScanItemOf(c, 1)
<1> HIDE DEF c, kind, p, w, s, m, x
<1>7. /\ Len(w) \in Nat
      /\ ~Starts(cmd) => Len(w) = Len(p)
      /\ Starts(cmd) => Len(w) = Len(p) + 1 /\ w[Len(w)] = x
      /\ \A i \in 1 .. Len(p) : w[i] = p[i]
      /\ Len(w) >= Len(p)
  <2>1. CASE Starts(cmd)
    <3>1. PICK T : p \in Seq(T)
      BY <1>2
    <3>2. w = Append(p, x)
      BY <1>3, <2>1 DEF x
    <3> QED
      BY <1>2, <2>1, <3>1, <3>2
  <2>2. CASE ~Starts(cmd)
    BY <1>2, <1>4, <2>2
  <2> QED
    BY <2>1, <2>2
<1>8. /\ Len(s) = Len(w) /\ s \in Seq({s[i] : i \in 1 .. Len(w)})
      /\ \A i \in 1 .. Len(w) : s[i] = Concrete(c, w[i])
  BY <1>5, <1>7
<1>9. ASSUME NEW i \in 1 .. g PROVE s[i] \in EntryStep(c, kind)
  <2>1. i \in 1 .. Len(p) /\ i \in 1 .. Len(w)
    BY <1>2, <1>7
  <2>2. s[i] = Concrete(c, p[i]) /\ p[i] \in EntryItem(c, kind)
    BY <1>2, <1>7, <1>8, <2>1
  <2> QED
    BY <2>2, ItemsBecomeSteps
<1>10. ASSUME NEW i \in 1 .. m PROVE s[g + i] = Write(ScanRegisters(c)[i], Packed(c, ScanRegisters(c)[i]))
  <2>1. g + i \in 1 .. Len(p) /\ g + i \in 1 .. Len(w)
    BY <1>2, <1>7
  <2>2. s[g + i] = Concrete(c, [register |-> ScanRegisters(c)[i], value |-> c])
    BY <1>2, <1>7, <1>8, <2>1
  <2> QED
    BY <1>6, <2>2, ItemsBecomeSteps
<1>11. s[g + m + 1] = StopStep(c)
  <2>1. g + m + 1 \in 1 .. Len(p) /\ g + m + 1 \in 1 .. Len(w)
    BY <1>2, <1>7
  <2>2. s[g + m + 1] = Concrete(c, ScanItemOf(c, 0))
    BY <1>2, <1>7, <1>8, <2>1
  <2> QED
    BY <2>2, ItemsBecomeSteps
<1>12. ASSUME NEW i \in g + m + 2 .. Len(s) PROVE s[i] \in ModeStep(c, kind) \/ (Starts(cmd) /\ i = Len(s))
  <2>1. CASE i \in 1 .. Len(p)
    <3>1. i \in 1 .. Len(w) /\ i \in g + m + 2 .. Len(p)
      BY <1>2, <1>7, <1>8, <2>1
    <3>2. s[i] = Concrete(c, p[i]) /\ p[i] \in ModeItem(c, kind)
      BY <1>2, <1>7, <1>8, <2>1, <3>1
    <3> QED
      BY <3>2, ItemsBecomeSteps
  <2>2. CASE i \notin 1 .. Len(p)
    BY <1>2, <1>7, <1>8, <2>2
  <2> QED
    BY <2>1, <2>2
<1>13. ASSUME Starts(cmd) PROVE s[Len(s)] = StartStep(c) /\ Len(s) >= g + m + 2
  <2>1. Len(s) \in 1 .. Len(w) /\ Len(s) >= g + m + 2
    <3>1. Len(s) = Len(w) /\ Len(w) = Len(p) + 1
      BY <1>7, <1>8, <1>13
    <3>2. m \in Nat /\ Len(p) \in Nat /\ Len(p) >= g + m + 1
      BY <1>2
    <3> QED
      BY <3>1, <3>2
  <2>2. s[Len(s)] = Concrete(c, x)
    BY <1>7, <1>8, <1>13, <2>1
  <2> QED
    BY <2>1, <2>2, ItemsBecomeSteps DEF x
<1>14. Len(s) \in Nat /\ Len(s) >= g + m + 1 /\ \E T : s \in Seq(T)
  BY <1>2, <1>7, <1>8
<1> QED
  BY <1>2, <1>9, <1>10, <1>11, <1>12, <1>13, <1>14 DEF StepsLaid, c, m, s, kind

(***************************************************************************)
(* What is on its way.  q are the requests, p the replies, R the register  *)
(* file; own is the write that waits for its answer, as a set, and W[b]    *)
(* what the steps done so far allow register b to be.                      *)
(***************************************************************************)
IsWriteTo(q, j, b) == L!IsWrite(q[j]) /\ q[j].address = b

Pair(r) == [address |-> r.address, value |-> r.value]

Busy(own, b) == \E w \in own : w.address = b

NoneTo(q, b) == \A j \in 1 .. Len(q) : ~IsWriteTo(q, j, b)

\* Register b is v and stays it, whatever of q arrives.
Full(R, q, b, v) ==
    /\ R[b] = v
    /\ \A j \in 1 .. Len(q) : IsWriteTo(q, j, b) => Kept(b, q[j].value) = v

\* Register b changes only with the write that waits, which comes last.
Keeps(R, q, own, b) ==
    \A j \in 1 .. Len(q) :
        IsWriteTo(q, j, b) =>
            \/ Kept(b, q[j].value) = R[b]
            \/ Pair(q[j]) \in own /\ \A m \in j + 1 .. Len(q) : ~IsWriteTo(q, m, b)

\* A register that was written is as the last write to it has asked, ...
Good(R, q, own, W) ==
    \A b \in DOMAIN W :
        \/ Busy(own, b) /\ NoneTo(q, b)
        \/ R[b] \in W[b] /\ Keeps(R, q, own, b)

\* ... what is written after a read is on its way is a write of this command, ...
Later(q, own, W) ==
    \A i, j \in 1 .. Len(q) :
        i < j /\ L!IsRead(q[i]) /\ L!IsWrite(q[j]) => Pair(q[j]) \in own \/ q[j].address \in DOMAIN W

\* ... an answer about another register than the one that waits is what that register is, ...
Stale(R, q, p, own) ==
    \A i \in 1 .. Len(p) : ~Busy(own, p[i].address) => Full(R, q, p[i].address, p[i].value)

\* ... and an answer that equals what waits was read after it took effect, or from
\* a register that had that value before: ...
Answer(R, q, p, own) ==
    \A w \in own : \A i \in 1 .. Len(p) :
        p[i] = w =>
            /\ Full(R, q, w.address, w.value)
            /\ \A j \in i + 1 .. Len(p) : p[j].address = w.address => p[j].value = w.value

\* ... so it is when it has been received.
Verified(R, q, p, own) ==
    \A w \in own :
        /\ Full(R, q, w.address, w.value)
        /\ \A j \in 1 .. Len(p) : p[j].address = w.address => p[j].value = w.value

AllFixed(R) == \A a \in RegisterAddress : Kept(a, R[a]) = R[a]

\* r is s with elements left out.
Embeds(f, r, s) ==
    /\ f \in [1 .. Len(r) -> 1 .. Len(s)]
    /\ \A j \in 1 .. Len(r) : r[j] = s[f[j]]
    /\ \A i, j \in 1 .. Len(r) : i < j => f[i] < f[j]

\* What is left when the first is taken ...
LEMMA TailEmbeds ==
    ASSUME NEW T, NEW s \in Seq(T), s # <<>>
    PROVE  Embeds([j \in 1 .. Len(Tail(s)) |-> j + 1], Tail(s), s)
<1>1. Tail(s) \in Seq(T) /\ Len(Tail(s)) = Len(s) - 1 /\ \A j \in 1 .. Len(s) - 1 : Tail(s)[j] = s[j + 1]
  OBVIOUS
<1>2. Len(s) \in Nat
  OBVIOUS
<1> QED
  BY <1>1, <1>2 DEF Embeds

\* ... or any other is lost keeps its order.
LEMMA WithoutEmbeds ==
    ASSUME NEW T, NEW s \in Seq(T), NEW i \in 1 .. Len(s)
    PROVE  /\ Embeds([j \in 1 .. Len(L!Without(s, i)) |-> IF j < i THEN j ELSE j + 1], L!Without(s, i), s)
           /\ Len(L!Without(s, i)) = Len(s) - 1
<1> DEFINE l == SubSeq(s, 1, i - 1)
           r == SubSeq(s, i + 1, Len(s))
           t == L!Without(s, i)
<1>1. l \in Seq(T) /\ Len(l) = i - 1 /\ \A j \in 1 .. i - 1 : l[j] = s[j]
  OBVIOUS
<1>2. r \in Seq(T) /\ Len(r) = Len(s) - i /\ \A j \in 1 .. Len(s) - i : r[j] = s[i + j]
  OBVIOUS
<1>3. t = l \o r
  BY DEF L!Without
<1>0. Len(s) \in Nat
  OBVIOUS
<1> HIDE DEF l, r, t
<1>4. t \in Seq(T) /\ Len(t) = Len(s) - 1
  BY <1>0, <1>1, <1>2, <1>3
<1>5. ASSUME NEW j \in 1 .. Len(t) PROVE t[j] = s[IF j < i THEN j ELSE j + 1]
  <2>1. CASE j < i
    BY <1>1, <1>2, <1>3, <2>1
  <2>2. CASE ~(j < i)
    <3>1. j - (i - 1) \in 1 .. Len(s) - i /\ i + (j - (i - 1)) = j + 1
      BY <1>0, <1>4, <2>2
    <3>2. t[j] = r[j - (i - 1)]
      BY <1>0, <1>1, <1>2, <1>3, <1>4, <2>2
    <3> QED
      BY <1>2, <2>2, <3>1, <3>2
  <2> QED
    BY <2>1, <2>2
<1>6. Embeds([j \in 1 .. Len(t) |-> IF j < i THEN j ELSE j + 1], t, s)
  BY <1>0, <1>4, <1>5 DEF Embeds
<1> QED
  BY <1>4, <1>6 DEF t

\* What holds of the requests holds with some left out.
LEMMA FewerRequests ==
    ASSUME NEW q, NEW r, NEW f, Embeds(f, r, q), Len(q) \in Nat, Len(r) \in Nat,
           NEW R, NEW p, NEW own, NEW W
    PROVE  /\ \A b : NoneTo(q, b) => NoneTo(r, b)
           /\ \A b, v : Full(R, q, b, v) => Full(R, r, b, v)
           /\ \A b : Keeps(R, q, own, b) => Keeps(R, r, own, b)
           /\ Good(R, q, own, W) => Good(R, r, own, W)
           /\ Later(q, own, W) => Later(r, own, W)
           /\ Stale(R, q, p, own) => Stale(R, r, p, own)
           /\ Answer(R, q, p, own) => Answer(R, r, p, own)
           /\ Verified(R, q, p, own) => Verified(R, r, p, own)
<1>0. \A j \in 1 .. Len(r) : f[j] \in 1 .. Len(q) /\ r[j] = q[f[j]]
  BY DEF Embeds
<1>a. \A i, j \in 1 .. Len(r) : i < j => f[i] < f[j]
  BY DEF Embeds
<1>1. ASSUME NEW j \in 1 .. Len(r), NEW b PROVE IsWriteTo(r, j, b) <=> IsWriteTo(q, f[j], b)
  BY <1>0 DEF IsWriteTo
<1>2. \A b : NoneTo(q, b) => NoneTo(r, b)
  BY <1>0, <1>1 DEF NoneTo
<1>3. \A b, v : Full(R, q, b, v) => Full(R, r, b, v)
  BY <1>0, <1>1 DEF Full
<1>4. ASSUME NEW b, Keeps(R, q, own, b) PROVE Keeps(R, r, own, b)
  <2> SUFFICES ASSUME NEW j \in 1 .. Len(r), IsWriteTo(r, j, b), Kept(b, r[j].value) # R[b]
               PROVE  Pair(r[j]) \in own /\ \A m \in j + 1 .. Len(r) : ~IsWriteTo(r, m, b)
    BY DEF Keeps
  <2>1. Pair(q[f[j]]) \in own /\ \A m \in f[j] + 1 .. Len(q) : ~IsWriteTo(q, m, b)
    BY <1>0, <1>1, <1>4 DEF Keeps
  <2>2. ASSUME NEW m \in j + 1 .. Len(r) PROVE ~IsWriteTo(r, m, b)
    <3>1. m \in 1 .. Len(r) /\ j < m
      OBVIOUS
    <3>2. f[m] \in 1 .. Len(q) /\ f[j] \in 1 .. Len(q) /\ f[j] < f[m]
      BY <1>0, <1>a, <3>1
    <3>3. f[m] \in f[j] + 1 .. Len(q)
      BY <3>2
    <3> QED
      BY <1>1, <2>1, <3>1, <3>3
  <2> QED
    BY <1>0, <2>1, <2>2
<1>5. Good(R, q, own, W) => Good(R, r, own, W)
  BY <1>2, <1>4 DEF Good
<1>6. Later(q, own, W) => Later(r, own, W)
  BY <1>0, <1>a DEF Later
<1>7. Stale(R, q, p, own) => Stale(R, r, p, own)
  BY <1>3 DEF Stale
<1>8. Answer(R, q, p, own) => Answer(R, r, p, own)
  BY <1>3 DEF Answer
<1>9. Verified(R, q, p, own) => Verified(R, r, p, own)
  BY <1>3 DEF Verified
<1> QED
  BY <1>2, <1>3, <1>4, <1>5, <1>6, <1>7, <1>8, <1>9

\* ... with some answers left out at the front ...
LEMMA FewerReplies ==
    ASSUME NEW p, NEW u, NEW f, Embeds(f, u, p), Len(p) \in Nat, Len(u) \in Nat,
           NEW R, NEW q, NEW own
    PROVE  /\ Stale(R, q, p, own) => Stale(R, q, u, own)
           /\ Answer(R, q, p, own) => Answer(R, q, u, own)
           /\ Verified(R, q, p, own) => Verified(R, q, u, own)
<1>0. \A j \in 1 .. Len(u) : f[j] \in 1 .. Len(p) /\ u[j] = p[f[j]]
  BY DEF Embeds
<1>a. \A i, j \in 1 .. Len(u) : i < j => f[i] < f[j]
  BY DEF Embeds
<1>1. Stale(R, q, p, own) => Stale(R, q, u, own)
  BY <1>0 DEF Stale
<1>2. ASSUME Answer(R, q, p, own) PROVE Answer(R, q, u, own)
  <2> SUFFICES ASSUME NEW w \in own, NEW i \in 1 .. Len(u), u[i] = w
               PROVE  /\ Full(R, q, w.address, w.value)
                      /\ \A j \in i + 1 .. Len(u) : u[j].address = w.address => u[j].value = w.value
    BY DEF Answer
  <2>1. /\ Full(R, q, w.address, w.value)
        /\ \A j \in f[i] + 1 .. Len(p) : p[j].address = w.address => p[j].value = w.value
    BY <1>0, <1>2 DEF Answer
  <2>2. ASSUME NEW j \in i + 1 .. Len(u) PROVE j \in 1 .. Len(u) /\ f[j] \in f[i] + 1 .. Len(p)
    <3>1. j \in 1 .. Len(u) /\ i < j
      OBVIOUS
    <3>2. f[j] \in 1 .. Len(p) /\ f[i] \in 1 .. Len(p) /\ f[i] < f[j]
      BY <1>0, <1>a, <3>1
    <3> QED
      BY <3>1, <3>2
  <2> QED
    BY <1>0, <2>1, <2>2
<1>3. Verified(R, q, p, own) => Verified(R, q, u, own)
  BY <1>0 DEF Verified
<1> QED
  BY <1>1, <1>2, <1>3

\* ... or with a read at the end.
LEMMA OneMoreRead ==
    ASSUME NEW T, NEW q \in Seq(T), NEW x, ~L!IsWrite(x), NEW r, r = Append(q, x),
           NEW R, NEW p, NEW own, NEW W
    PROVE  /\ Good(R, q, own, W) => Good(R, r, own, W)
           /\ Later(q, own, W) => Later(r, own, W)
           /\ Stale(R, q, p, own) => Stale(R, r, p, own)
           /\ Answer(R, q, p, own) => Answer(R, r, p, own)
           /\ Verified(R, q, p, own) => Verified(R, r, p, own)
<1>1. Len(q) \in Nat /\ Len(r) = Len(q) + 1 /\ r[Len(q) + 1] = x /\ \A j \in 1 .. Len(q) : r[j] = q[j]
  OBVIOUS
<1>2. ASSUME NEW j \in 1 .. Len(r), NEW b, IsWriteTo(r, j, b) PROVE j \in 1 .. Len(q) /\ IsWriteTo(q, j, b)
  <2>1. j # Len(q) + 1
    BY <1>1, <1>2 DEF IsWriteTo
  <2> QED
    BY <1>1, <1>2, <2>1 DEF IsWriteTo
<1>3. \A b : NoneTo(q, b) => NoneTo(r, b)
  BY <1>2 DEF NoneTo
<1>4. \A b, v : Full(R, q, b, v) => Full(R, r, b, v)
  BY <1>1, <1>2 DEF Full
<1>5. ASSUME NEW b, Keeps(R, q, own, b) PROVE Keeps(R, r, own, b)
  <2> SUFFICES ASSUME NEW j \in 1 .. Len(r), IsWriteTo(r, j, b), Kept(b, r[j].value) # R[b]
               PROVE  Pair(r[j]) \in own /\ \A m \in j + 1 .. Len(r) : ~IsWriteTo(r, m, b)
    BY DEF Keeps
  <2>1. j \in 1 .. Len(q) /\ IsWriteTo(q, j, b) /\ r[j] = q[j]
    BY <1>1, <1>2
  <2>2. Pair(q[j]) \in own /\ \A m \in j + 1 .. Len(q) : ~IsWriteTo(q, m, b)
    BY <1>5, <2>1 DEF Keeps
  <2>3. ASSUME NEW m \in j + 1 .. Len(r), IsWriteTo(r, m, b) PROVE FALSE
    <3>1. m \in 1 .. Len(r)
      BY <1>1, <2>1
    <3>2. m \in 1 .. Len(q) /\ IsWriteTo(q, m, b)
      BY <1>2, <2>3, <3>1
    <3> QED
      BY <1>1, <2>1, <2>2, <3>2
  <2> QED
    BY <2>1, <2>2, <2>3
<1>6. Good(R, q, own, W) => Good(R, r, own, W)
  BY <1>3, <1>5 DEF Good
<1>7. ASSUME Later(q, own, W) PROVE Later(r, own, W)
  <2> SUFFICES ASSUME NEW i \in 1 .. Len(r), NEW j \in 1 .. Len(r), i < j, L!IsRead(r[i]), L!IsWrite(r[j])
               PROVE  Pair(r[j]) \in own \/ r[j].address \in DOMAIN W
    BY DEF Later
  <2>1. j \in 1 .. Len(q)
    BY <1>1
  <2>2. i \in 1 .. Len(q)
    BY <1>1, <2>1
  <2> QED
    BY <1>1, <1>7, <2>1, <2>2 DEF Later
<1>8. Stale(R, q, p, own) => Stale(R, r, p, own)
  BY <1>4 DEF Stale
<1>9. Answer(R, q, p, own) => Answer(R, r, p, own)
  BY <1>4 DEF Answer
<1>10. Verified(R, q, p, own) => Verified(R, r, p, own)
  BY <1>4 DEF Verified
<1> QED
  BY <1>6, <1>7, <1>8, <1>9, <1>10

\* A checked write begins: nothing waited before.
LEMMA WriteBegins ==
    ASSUME NEW T, NEW q \in Seq(T), NEW x, NEW y, NEW r, r = q \o <<x, y>>, x \in T, y \in T,
           L!IsWrite(x), ~L!IsWrite(y), x.address \in RegisterAddress,
           NEW R, NEW p, NEW W, AllFixed(R),
           Good(R, q, {}, W), Later(q, {}, W), Stale(R, q, p, {})
    PROVE  /\ Good(R, r, {Pair(x)}, W)
           /\ Later(r, {Pair(x)}, W)
           /\ Stale(R, r, p, {Pair(x)})
           /\ Answer(R, r, p, {Pair(x)})
<1> DEFINE own == {Pair(x)}
           a == x.address
           n == Len(q)
<1>0. n \in Nat
  OBVIOUS
<1>1. /\ Len(r) = n + 2 /\ r[n + 1] = x /\ r[n + 2] = y
      /\ \A j \in 1 .. n : r[j] = q[j]
  <2>1. <<x, y>> \in Seq(T) /\ Len(<<x, y>>) = 2
    OBVIOUS
  <2> QED
    BY <2>1
<1> HIDE DEF n
<1>2. \A b : Busy(own, b) <=> b = a
  BY DEF Busy, Pair
<1>3. ASSUME NEW j \in 1 .. Len(r), NEW b, IsWriteTo(r, j, b)
      PROVE  (j = n + 1 /\ b = a) \/ (j \in 1 .. n /\ IsWriteTo(q, j, b))
  <2>1. j # n + 2
    BY <1>1, <1>3 DEF IsWriteTo
  <2>2. CASE j = n + 1
    BY <1>1, <1>3, <2>2 DEF IsWriteTo
  <2>3. CASE j # n + 1
    <3>0. Len(r) = n + 2
      BY <1>1
    <3>1. j \in 1 .. n
      BY <1>0, <3>0, <2>1, <2>3
    <3> QED
      BY <1>1, <1>3, <3>1 DEF IsWriteTo
  <2> QED
    BY <2>2, <2>3
<1>4. \A b : b \in DOMAIN W =>
          R[b] \in W[b] /\ \A j \in 1 .. n : IsWriteTo(q, j, b) => Kept(b, q[j].value) = R[b]
  BY DEF Good, Keeps, Busy, n
<1>5. Good(R, r, own, W)
  <2> SUFFICES ASSUME NEW b \in DOMAIN W, NEW j \in 1 .. Len(r), IsWriteTo(r, j, b), Kept(b, r[j].value) # R[b]
               PROVE  Pair(r[j]) \in own /\ \A m \in j + 1 .. Len(r) : ~IsWriteTo(r, m, b)
    BY <1>4 DEF Good, Keeps
  <2>1. j = n + 1
    BY <1>1, <1>3, <1>4
  <2>2. ASSUME NEW m \in j + 1 .. Len(r) PROVE ~IsWriteTo(r, m, b)
    <3>1. m = n + 2 /\ m \in 1 .. Len(r)
      BY <1>0, <1>1, <2>1
    <3> QED
      BY <1>1, <3>1 DEF IsWriteTo
  <2> QED
    BY <1>1, <2>1, <2>2
<1>6. Later(r, own, W)
  <2> SUFFICES ASSUME NEW i \in 1 .. Len(r), NEW j \in 1 .. Len(r), i < j, L!IsRead(r[i]), L!IsWrite(r[j])
               PROVE  Pair(r[j]) \in own \/ r[j].address \in DOMAIN W
    BY DEF Later
  <2>1. IsWriteTo(r, j, r[j].address)
    BY DEF IsWriteTo
  <2>2. CASE j = n + 1
    BY <1>1, <2>2
  <2>3. CASE j \in 1 .. n /\ IsWriteTo(q, j, r[j].address)
    <3>1. i \in 1 .. n
      BY <1>0, <2>3
    <3>2. q[j].address \in DOMAIN W
      BY <1>1, <2>3, <3>1 DEF Later, IsWriteTo, n
    <3> QED
      BY <1>1, <2>3, <3>2
  <2> QED
    BY <1>3, <2>1, <2>2, <2>3
<1>7. \A b, v : b # a /\ Full(R, q, b, v) => Full(R, r, b, v)
  BY <1>1, <1>3 DEF Full, n
<1>8. \A i \in 1 .. Len(p) : Full(R, q, p[i].address, p[i].value)
  BY DEF Stale, Busy
<1>9. Stale(R, r, p, own)
  BY <1>2, <1>7, <1>8 DEF Stale
<1>10. Answer(R, r, p, own)
  <2>0. Pair(x).address = a /\ Pair(x).value = x.value
    BY DEF Pair
  <2> SUFFICES ASSUME NEW i \in 1 .. Len(p), p[i] = Pair(x)
               PROVE  /\ Full(R, r, a, x.value)
                      /\ \A j \in i + 1 .. Len(p) : p[j].address = a => p[j].value = x.value
    BY <2>0 DEF Answer
  <2>1. Full(R, q, a, x.value)
    BY <1>8 DEF Pair
  <2>2. R[a] = x.value /\ Kept(a, x.value) = x.value
    BY <2>1 DEF Full, AllFixed
  <2>3. Full(R, r, a, x.value)
    BY <1>1, <1>3, <2>1, <2>2 DEF Full, n
  <2>4. ASSUME NEW j \in i + 1 .. Len(p), p[j].address = a PROVE p[j].value = x.value
    <3>1. CASE Len(p) \in Nat
      <4>1. j \in 1 .. Len(p)
        BY <3>1
      <4> QED
        BY <1>8, <2>2, <2>4, <4>1 DEF Full
    <3> QED
      BY <3>1
  <2> QED
    BY <2>3, <2>4
<1> QED
  BY <1>5, <1>6, <1>9, <1>10

\* The write that waits takes effect, or another that changes nothing.
LEMMA WriteTaken ==
    ASSUME NEW T, NEW q \in Seq(T), q # <<>>, L!IsWrite(Head(q)), Head(q).address \in RegisterAddress,
           NEW R, DOMAIN R = RegisterAddress, NEW R1,
           R1 = [R EXCEPT ![Head(q).address] = Kept(Head(q).address, Head(q).value)],
           NEW p, NEW own, NEW W
    PROVE  /\ \A b, v : Full(R, q, b, v) => Full(R1, Tail(q), b, v)
           /\ Good(R, q, own, W) => Good(R1, Tail(q), own, W)
           /\ Later(q, own, W) => Later(Tail(q), own, W)
           /\ Stale(R, q, p, own) => Stale(R1, Tail(q), p, own)
           /\ Answer(R, q, p, own) => Answer(R1, Tail(q), p, own)
           /\ Verified(R, q, p, own) => Verified(R1, Tail(q), p, own)
<1> DEFINE a == Head(q).address
           r == Tail(q)
<1>0. /\ Len(q) \in Nat /\ Len(q) >= 1 /\ q[1] = Head(q) /\ Len(r) = Len(q) - 1
      /\ Len(r) \in Nat
      /\ \A j \in 1 .. Len(r) : r[j] = q[j + 1]
  OBVIOUS
<1>1. PICK f : Embeds(f, r, q)
  BY TailEmbeds
<1>2. /\ \A b : NoneTo(q, b) => NoneTo(r, b)
      /\ \A b, v : Full(R, q, b, v) => Full(R, r, b, v)
      /\ \A b : Keeps(R, q, own, b) => Keeps(R, r, own, b)
      /\ Later(q, own, W) => Later(r, own, W)
  BY <1>0, <1>1, FewerRequests
<1>3. IsWriteTo(q, 1, a)
  BY <1>0 DEF IsWriteTo
<1>4. R1[a] = Kept(a, q[1].value) /\ \A b : b # a => R1[b] = R[b]
  BY <1>0
<1>5. ASSUME NEW b, NEW v, Full(R, q, b, v) PROVE Full(R1, r, b, v)
  <2>1. R1[b] = v
    BY <1>0, <1>3, <1>4, <1>5 DEF Full
  <2> QED
    BY <1>2, <1>5, <2>1 DEF Full
<1>6. ASSUME NEW b, R1[b] = R[b], Keeps(R, q, own, b) PROVE Keeps(R1, r, own, b)
  BY <1>2, <1>6 DEF Keeps
<1>7. ASSUME NEW b \in DOMAIN W, Good(R, q, own, W)
      PROVE  \/ Busy(own, b) /\ NoneTo(r, b)
             \/ R1[b] \in W[b] /\ Keeps(R1, r, own, b)
  <2>1. CASE b # a
    BY <1>2, <1>4, <1>6, <1>7, <2>1 DEF Good
  <2>2. CASE b = a
    <3>1. R[b] \in W[b] /\ Keeps(R, q, own, b)
      BY <1>0, <1>3, <1>7, <2>2 DEF Good, NoneTo
    <3>2. CASE Kept(b, q[1].value) = R[b]
      BY <1>4, <1>6, <2>2, <3>1, <3>2
    <3>3. CASE Pair(q[1]) \in own /\ \A m \in 1 + 1 .. Len(q) : ~IsWriteTo(q, m, b)
      <4>1. Busy(own, b)
        BY <1>3, <2>2, <3>3 DEF Busy, Pair, IsWriteTo
      <4>2. ASSUME NEW j \in 1 .. Len(r) PROVE ~IsWriteTo(r, j, b)
        <5>1. j + 1 \in 1 + 1 .. Len(q)
          BY <1>0
        <5> QED
          BY <1>0, <3>3, <5>1 DEF IsWriteTo
      <4> QED
        BY <4>1, <4>2 DEF NoneTo
    <3> QED
      BY <1>0, <1>3, <2>2, <3>1, <3>2, <3>3 DEF Keeps
  <2> QED
    BY <2>1, <2>2
<1>8. Good(R, q, own, W) => Good(R1, r, own, W)
  BY <1>7 DEF Good
<1>9. Stale(R, q, p, own) => Stale(R1, r, p, own)
  BY <1>5 DEF Stale
<1>10. Answer(R, q, p, own) => Answer(R1, r, p, own)
  BY <1>5 DEF Answer
<1>11. Verified(R, q, p, own) => Verified(R1, r, p, own)
  BY <1>5 DEF Verified
<1> QED
  BY <1>2, <1>5, <1>8, <1>9, <1>10, <1>11

\* A read is answered with what the register is.
LEMMA ReadTaken ==
    ASSUME NEW T, NEW q \in Seq(T), q # <<>>, L!IsRead(Head(q)),
           NEW U, NEW p \in Seq(U), NEW own, NEW R, NEW W,
           NEW x \in U, x.address = Head(q).address, x.value = R[Head(q).address],
           AllFixed(R), \A w \in own : w.address \in RegisterAddress,
           \A w, z \in own : w = z,
           Good(R, q, own, W), Later(q, own, W), Stale(R, q, p, own), Answer(R, q, p, own)
    PROVE  /\ Good(R, Tail(q), own, W)
           /\ Later(Tail(q), own, W)
           /\ Stale(R, Tail(q), Append(p, x), own)
           /\ Answer(R, Tail(q), Append(p, x), own)
           /\ Verified(R, q, p, own) => Verified(R, Tail(q), Append(p, x), own)
<1> DEFINE a == Head(q).address
           r == Tail(q)
           u == Append(p, x)
<1>0. Len(q) \in Nat /\ Len(q) >= 1 /\ q[1] = Head(q) /\ Len(r) \in Nat /\ Len(p) \in Nat
  OBVIOUS
<1>1. Len(u) = Len(p) + 1 /\ u[Len(p) + 1] = x /\ \A j \in 1 .. Len(p) : u[j] = p[j]
  OBVIOUS
<1>2. PICK f : Embeds(f, r, q)
  BY TailEmbeds
<1>3. /\ \A b, v : Full(R, q, b, v) => Full(R, r, b, v)
      /\ Good(R, r, own, W)
      /\ Later(r, own, W)
  BY <1>0, <1>2, FewerRequests
<1>4. ASSUME NEW j \in 1 .. Len(q), IsWriteTo(q, j, a) PROVE Pair(q[j]) \in own \/ a \in DOMAIN W
  <2>1. 1 < j
    BY <1>0, <1>4 DEF IsWriteTo, L!IsRead, L!IsWrite
  <2> QED
    BY <1>0, <1>4, <2>1 DEF Later, IsWriteTo
<1>5. ASSUME ~Busy(own, a) PROVE Full(R, q, a, R[a])
  <2> SUFFICES ASSUME NEW j \in 1 .. Len(q), IsWriteTo(q, j, a) PROVE Kept(a, q[j].value) = R[a]
    BY DEF Full
  <2>1. Pair(q[j]) \notin own
    BY <1>5 DEF Busy, Pair, IsWriteTo
  <2>2. a \in DOMAIN W
    BY <1>4, <2>1
  <2>3. Keeps(R, q, own, a)
    BY <1>5, <2>2 DEF Good
  <2> QED
    BY <2>1, <2>3 DEF Keeps
<1>6. ASSUME NEW w \in own, w.address = a, w.value = R[a] PROVE Full(R, q, a, R[a])
  <2> SUFFICES ASSUME NEW j \in 1 .. Len(q), IsWriteTo(q, j, a) PROVE Kept(a, q[j].value) = R[a]
    BY DEF Full
  <2>0. Kept(a, R[a]) = R[a]
    BY <1>6 DEF AllFixed
  <2>1. CASE Pair(q[j]) \in own
    <3>1. Pair(q[j]) = w
      BY <2>1
    <3>2. q[j].value = R[a]
      BY <1>6, <3>1 DEF Pair
    <3> QED
      BY <2>0, <3>2
  <2>2. CASE Pair(q[j]) \notin own
    <3>1. a \in DOMAIN W
      BY <1>4, <2>2
    <3>2. Keeps(R, q, own, a)
      BY <3>1 DEF Good, NoneTo
    <3> QED
      BY <2>2, <3>2 DEF Keeps
  <2> QED
    BY <2>1, <2>2
<1>7. Stale(R, r, u, own)
  <2> SUFFICES ASSUME NEW i \in 1 .. Len(u), ~Busy(own, u[i].address)
               PROVE  Full(R, q, u[i].address, u[i].value)
    BY <1>3 DEF Stale
  <2>1. CASE i \in 1 .. Len(p)
    BY <1>1, <2>1 DEF Stale
  <2>2. CASE i = Len(p) + 1
    BY <1>1, <1>5, <2>2
  <2> QED
    BY <1>0, <1>1, <2>1, <2>2
<1>8. Answer(R, r, u, own)
  <2> SUFFICES ASSUME NEW w \in own, NEW i \in 1 .. Len(u), u[i] = w
               PROVE  /\ Full(R, q, w.address, w.value)
                      /\ \A j \in i + 1 .. Len(u) : u[j].address = w.address => u[j].value = w.value
    BY <1>3 DEF Answer
  <2>1. CASE i \in 1 .. Len(p)
    <3>1. /\ Full(R, q, w.address, w.value)
          /\ \A j \in i + 1 .. Len(p) : p[j].address = w.address => p[j].value = w.value
      BY <1>1, <2>1 DEF Answer
    <3>2. ASSUME NEW j \in i + 1 .. Len(u), u[j].address = w.address PROVE u[j].value = w.value
      <4>1. (j \in i + 1 .. Len(p) /\ j \in 1 .. Len(p)) \/ j = Len(p) + 1
        BY <1>0, <1>1, <2>1
      <4>2. CASE j = Len(p) + 1
        BY <1>1, <3>1, <3>2, <4>2 DEF Full
      <4>3. CASE j \in i + 1 .. Len(p) /\ j \in 1 .. Len(p)
        BY <1>1, <3>1, <3>2, <4>3
      <4> QED
        BY <4>1, <4>2, <4>3
    <3> QED
      BY <3>1, <3>2
  <2>2. CASE i = Len(p) + 1
    <3>1. w.address = a /\ w.value = R[a]
      BY <1>1, <2>2
    <3>2. Full(R, q, a, R[a])
      BY <1>6, <3>1
    <3>3. i + 1 .. Len(u) = {}
      BY <1>0, <1>1, <2>2
    <3> QED
      BY <3>1, <3>2, <3>3
  <2> QED
    BY <1>0, <1>1, <2>1, <2>2
<1>9. ASSUME Verified(R, q, p, own) PROVE Verified(R, r, u, own)
  <2> SUFFICES ASSUME NEW w \in own
               PROVE  /\ Full(R, r, w.address, w.value)
                      /\ \A j \in 1 .. Len(u) : u[j].address = w.address => u[j].value = w.value
    BY DEF Verified
  <2>1. Full(R, q, w.address, w.value)
    BY <1>9 DEF Verified
  <2>2. ASSUME NEW j \in 1 .. Len(u), u[j].address = w.address PROVE u[j].value = w.value
    <3>1. j \in 1 .. Len(p) \/ j = Len(p) + 1
      BY <1>0, <1>1
    <3> QED
      BY <1>1, <1>9, <2>1, <2>2, <3>1 DEF Verified, Full
  <2> QED
    BY <1>3, <2>1, <2>2
<1> QED
  BY <1>3, <1>7, <1>8, <1>9

\* The answer that is received first agrees with what waits.
LEMMA AnswerTaken ==
    ASSUME NEW U, NEW p \in Seq(U), p # <<>>, NEW own, NEW R, NEW q,
           \A w \in own : Head(p) = w,
           Answer(R, q, p, own)
    PROVE  Verified(R, q, Tail(p), own)
<1>1. /\ Len(p) \in Nat /\ Len(p) >= 1 /\ p[1] = Head(p) /\ Len(Tail(p)) = Len(p) - 1
      /\ \A j \in 1 .. Len(Tail(p)) : Tail(p)[j] = p[j + 1]
  OBVIOUS
<1> SUFFICES ASSUME NEW w \in own
             PROVE  /\ Full(R, q, w.address, w.value)
                    /\ \A j \in 1 .. Len(Tail(p)) :
                            Tail(p)[j].address = w.address => Tail(p)[j].value = w.value
  BY DEF Verified
<1>2. /\ Full(R, q, w.address, w.value)
      /\ \A j \in 1 + 1 .. Len(p) : p[j].address = w.address => p[j].value = w.value
  BY <1>1 DEF Answer
<1>3. \A j \in 1 .. Len(Tail(p)) : j + 1 \in 1 + 1 .. Len(p)
  BY <1>1
<1> QED
  BY <1>1, <1>2, <1>3

\* What waited is settled: the register is as it was asked.
LEMMA WriteSettles ==
    ASSUME NEW R, NEW q, NEW p, NEW w, NEW W, NEW W1,
           DOMAIN W1 = DOMAIN W \cup {w.address},
           \A b \in DOMAIN W : b # w.address => W1[b] = W[b],
           w.value \in W1[w.address],
           Good(R, q, {w}, W), Later(q, {w}, W), Stale(R, q, p, {w}), Verified(R, q, p, {w})
    PROVE  Good(R, q, {}, W1) /\ Later(q, {}, W1) /\ Stale(R, q, p, {})
<1>1. Full(R, q, w.address, w.value)
  BY DEF Verified
<1>2. ASSUME NEW b \in DOMAIN W1 PROVE R[b] \in W1[b] /\ Keeps(R, q, {}, b)
  <2>1. CASE b = w.address
    BY <1>1, <2>1 DEF Full, Keeps
  <2>2. CASE b # w.address
    <3>1. R[b] \in W1[b] /\ Keeps(R, q, {w}, b)
      BY <2>2 DEF Good, Busy
    <3>2. \A j \in 1 .. Len(q) : IsWriteTo(q, j, b) => Pair(q[j]) # w
      BY <2>2 DEF IsWriteTo, Pair
    <3> QED
      BY <3>1, <3>2 DEF Keeps
  <2> QED
    BY <2>1, <2>2
<1>3. Good(R, q, {}, W1)
  BY <1>2 DEF Good
<1>4. \A j \in 1 .. Len(q) : Pair(q[j]) = w => q[j].address = w.address
  BY DEF Pair
<1>5. Later(q, {}, W1)
  BY <1>4 DEF Later
<1>6. Stale(R, q, p, {})
  BY <1>1 DEF Stale, Verified, Busy
<1> QED
  BY <1>3, <1>5, <1>6

(***************************************************************************)
(* What the steps ask.  After n steps a register that was written is to be *)
(* what the last write to it says: the value, or for _scan_control_value   *)
(* the scan state.                                                         *)
(***************************************************************************)
WriteSteps == {"write", "state"}

Says(step, v) == IF step.do = "write" THEN v = step.value ELSE v \cap 0 .. 3 = step.bits

WritesTo(step, b) == step.do \in WriteSteps /\ TargetOf(step) = b

WrittenBy(s, n) == {b \in RegisterAddress : \E i \in 1 .. n : WritesTo(s[i], b)}

LastWrite(s, n, i, b) ==
    /\ i \in 1 .. n
    /\ WritesTo(s[i], b)
    /\ \A j \in i + 1 .. n : ~WritesTo(s[j], b)

Asks(s, n) ==
    [b \in WrittenBy(s, n) |-> {v \in Word : \E i \in 1 .. n : LastWrite(s, n, i, b) /\ Says(s[i], v)}]

\* A step that does not write asks nothing of a register ...
LEMMA AsksNothing ==
    ASSUME NEW s, NEW n \in Nat, s[n + 1].do \notin WriteSteps
    PROVE  Asks(s, n + 1) = Asks(s, n)
<1>1. \A b : ~WritesTo(s[n + 1], b)
  BY DEF WritesTo
<1>2. \A i : i \in 1 .. n + 1 <=> i \in 1 .. n \/ i = n + 1
  OBVIOUS
<1>3. WrittenBy(s, n + 1) = WrittenBy(s, n)
  BY <1>1, <1>2 DEF WrittenBy
<1>4. ASSUME NEW i \in 1 .. n, NEW b PROVE LastWrite(s, n + 1, i, b) <=> LastWrite(s, n, i, b)
  <2>1. \A j : j \in i + 1 .. n + 1 <=> j \in i + 1 .. n \/ j = n + 1
    OBVIOUS
  <2> QED
    BY <1>1, <1>2, <2>1 DEF LastWrite
<1>5. \A b : ~LastWrite(s, n + 1, n + 1, b)
  BY <1>1 DEF LastWrite
<1>6. ASSUME NEW b, NEW v
      PROVE  (\E i \in 1 .. n + 1 : LastWrite(s, n + 1, i, b) /\ Says(s[i], v))
                <=> (\E i \in 1 .. n : LastWrite(s, n, i, b) /\ Says(s[i], v))
  BY <1>2, <1>4, <1>5
<1> QED
  BY <1>3, <1>6 DEF Asks

\* ... and one that writes asks its value of its register and nothing of the others.
LEMMA AsksOneMore ==
    ASSUME NEW s, NEW n \in Nat, s[n + 1].do \in WriteSteps, TargetOf(s[n + 1]) \in RegisterAddress
    PROVE  LET a == TargetOf(s[n + 1])
           IN  /\ DOMAIN Asks(s, n + 1) = DOMAIN Asks(s, n) \cup {a}
               /\ \A b \in DOMAIN Asks(s, n) : b # a => Asks(s, n + 1)[b] = Asks(s, n)[b]
               /\ \A v \in Word : Says(s[n + 1], v) => v \in Asks(s, n + 1)[a]
<1> DEFINE a == TargetOf(s[n + 1])
<1>1. \A b : WritesTo(s[n + 1], b) <=> b = a
  BY DEF WritesTo
<1>2. \A i : i \in 1 .. n + 1 <=> i \in 1 .. n \/ i = n + 1
  OBVIOUS
<1> HIDE DEF a
<1>3. WrittenBy(s, n + 1) = WrittenBy(s, n) \cup {a}
  BY <1>1, <1>2 DEF WrittenBy, a
<1>4. ASSUME NEW i \in 1 .. n, NEW b, b # a PROVE LastWrite(s, n + 1, i, b) <=> LastWrite(s, n, i, b)
  <2>1. \A j : j \in i + 1 .. n + 1 <=> j \in i + 1 .. n \/ j = n + 1
    OBVIOUS
  <2> QED
    BY <1>1, <1>2, <1>4, <2>1 DEF LastWrite
<1>5. \A b : b # a => ~LastWrite(s, n + 1, n + 1, b)
  BY <1>1 DEF LastWrite
<1>6. ASSUME NEW b, b # a, NEW v
      PROVE  (\E i \in 1 .. n + 1 : LastWrite(s, n + 1, i, b) /\ Says(s[i], v))
                <=> (\E i \in 1 .. n : LastWrite(s, n, i, b) /\ Says(s[i], v))
  BY <1>2, <1>4, <1>5, <1>6
<1>7. LastWrite(s, n + 1, n + 1, a)
  BY <1>1 DEF LastWrite
<1>8. \A v \in Word : Says(s[n + 1], v) => v \in Asks(s, n + 1)[a]
  BY <1>2, <1>3, <1>7 DEF Asks
<1>9. DOMAIN Asks(s, n + 1) = DOMAIN Asks(s, n) \cup {a}
  BY <1>3 DEF Asks
<1>10. ASSUME NEW b \in DOMAIN Asks(s, n), b # a PROVE Asks(s, n + 1)[b] = Asks(s, n)[b]
  BY <1>3, <1>6, <1>10 DEF Asks
<1> QED
  BY <1>8, <1>9, <1>10 DEF a
(***************************************************************************)
(* The steps of the commands that write and verify.                        *)
(***************************************************************************)
Tracked(cmd) == cmd.kind \in PlanKinds \cup {"start", "stop", "dl5", "write-checked"} /\ ~Dry(cmd)

\* What a command that writes can do in a step.
StepOfTracked(x) ==
    \/ x.do \in {"control", "validate"}
    \/ x.do = "write" /\ x.address \in RegisterAddress
    \/ x.do = "state" /\ x.bits \in {{}, One}

\* apply_plan only writes.
LEMMA PlanStepsAreWrites ==
    ASSUME NEW cmd, NEW s, NEW g \in Nat, StepsLaid(cmd, s, g), NEW i \in 1 .. Len(s)
    PROVE  s[i].do = "write" /\ s[i].address \in RegisterAddress
<1> DEFINE c == ConfigOf(cmd)
           m == Len(ScanRegisters(c))
<1>1. {"0x0009", "0x020B", "0x0202"} \cup UltrafastAddress \cup LaserAddress \cup ScanAddress \subseteq RegisterAddress
  BY DEF UltrafastAddress, LaserAddress, ScanAddress, RegisterAddress, RtlLayout
<1>2. \A a, v : Write(a, v).do = "write" /\ Write(a, v).address = a
  BY DEF Write
<1>3. /\ Len(s) \in Nat /\ m \in {11, 12}
      /\ \A j \in 1 .. g : s[j] \in EntryStep(c, cmd.kind)
      /\ \A j \in 1 .. m : s[g + j] = Write(ScanRegisters(c)[j], Packed(c, ScanRegisters(c)[j]))
      /\ s[g + m + 1] = StopStep(c)
      /\ \A j \in g + m + 2 .. Len(s) : s[j] \in ModeStep(c, cmd.kind) \/ (Starts(cmd) /\ j = Len(s))
      /\ Starts(cmd) => s[Len(s)] = StartStep(c)
  BY DEF StepsLaid
<1> HIDE DEF m
<1>4. CASE i \in 1 .. g
  BY <1>1, <1>2, <1>3, <1>4 DEF EntryStep, StopStep
<1>5. CASE i \in g + 1 .. g + m
  <2>1. i - g \in 1 .. m /\ g + (i - g) = i
    BY <1>3, <1>5
  <2>2. s[i] = Write(ScanRegisters(c)[i - g], Packed(c, ScanRegisters(c)[i - g]))
    BY <1>3, <2>1
  <2>3. ScanRegisters(c)[i - g] \in ScanAddress
    BY <2>1, ScanRegistersType DEF m
  <2> QED
    BY <1>1, <1>2, <2>2, <2>3
<1>6. CASE i = g + m + 1
  BY <1>1, <1>2, <1>3, <1>6 DEF StopStep
<1>7. CASE i \in g + m + 2 .. Len(s)
  <2>1. CASE s[i] \in ModeStep(c, cmd.kind)
    BY <1>1, <1>2, <2>1 DEF ModeStep
  <2>2. CASE Starts(cmd) /\ i = Len(s)
    BY <1>1, <1>2, <1>3, <2>2 DEF StartStep
  <2> QED
    BY <1>3, <1>7, <2>1, <2>2
<1> QED
  BY <1>3, <1>4, <1>5, <1>6, <1>7

\* The steps that set the laser up before the scan are writes to its registers.
LEMMA LaserSteps ==
    ASSUME NEW cmd
    PROVE  LET c == ConfigOf(cmd)
               p == P(c)!SafeLaserPlan(c, LaserOn(c))
           IN  /\ Len(p) \in Nat
               /\ \A i \in 1 .. Len(p) : Concrete(c, p[i]) \in ModeStep(c, "laser")
<1> DEFINE c == ConfigOf(cmd)
           p == P(c)!SafeLaserPlan(c, LaserOn(c))
<1>1. LaserOn(c) \in {0, 1}
  BY DEF LaserOn
<1>2. p \in Seq(ModeItem(c, "laser"))
  BY <1>1, SafeLaserPlanShape
<1> HIDE DEF p, c
<1>3. Len(p) \in Nat /\ \A i \in 1 .. Len(p) : p[i] \in ModeItem(c, "laser")
  BY <1>2
<1> QED
  BY <1>3, ItemsBecomeSteps DEF c, p

\* apply_dl5_config: the reads, then the writes.
LEMMA Dl5Steps ==
    ASSUME NEW cmd, NEW s, s = Dl5Reads(cmd) \o Dl5Writes(cmd)
    PROVE  /\ \E T : s \in Seq(T)
           /\ Len(s) \in Nat
           /\ \A i \in 1 .. Len(s) :
                \/ s[i].do \in {"control", "validate"}
                \/ s[i] \in ModeStep(ConfigOf(cmd), "laser")
                \/ s[i].do = "state" /\ s[i].bits = {} /\ Stops(cmd)
                \/ s[i].do = "state" /\ s[i].bits = One /\ Starts(cmd) /\ i = Len(s)
           /\ Starts(cmd) => Len(s) >= 1 /\ s[Len(s)].do = "state" /\ s[Len(s)].bits = One
           /\ Stops(cmd) => \E i \in 1 .. Len(s) : s[i].do = "state"
<1> DEFINE c == ConfigOf(cmd)
           p == P(c)!SafeLaserPlan(c, LaserOn(c))
           stop == WriteState(1, {})
           start == WriteState(IF Stops(cmd) THEN 2 ELSE 1, One)
           laser == [i \in 1 .. Len(p) |-> Concrete(c, p[i])]
           RS == {ReadControl, [do |-> "validate"]}
           WS == ModeStep(c, "laser") \cup (IF Stops(cmd) THEN {stop} ELSE {})
           DS == IF Starts(cmd) THEN {start} ELSE {}
           R1 == IF Stops(cmd) THEN <<ReadControl>> ELSE <<>>
           R2 == IF Starts(cmd) THEN <<ReadControl>> ELSE <<>>
           C == IF Stops(cmd) THEN <<stop>> ELSE <<>>
           D == IF Starts(cmd) THEN <<start>> ELSE <<>>
           R == Dl5Reads(cmd)
           CL == C \o laser
           V == RS \cup WS \cup DS
<1>1. R \in Seq(RS)
  <2>1. R = (R1 \o <<[do |-> "validate"]>>) \o R2
    BY DEF Dl5Reads
  <2> DEFINE x == ReadControl
             y == [do |-> "validate"]
             v == <<y>>
  <2>2. x \in RS /\ y \in RS
    OBVIOUS
  <2>3. R1 \in {<<>>, <<x>>} /\ R2 \in {<<>>, <<x>>}
    OBVIOUS
  <2> HIDE DEF RS, R1, R2, x, y
  <2>4. <<>> \in Seq(RS) /\ <<x>> \in Seq(RS) /\ v \in Seq(RS)
    BY <2>2
  <2> HIDE DEF v
  <2>5. R1 \in Seq(RS) /\ R2 \in Seq(RS)
    BY <2>3, <2>4
  <2>6. (R1 \o v) \o R2 \in Seq(RS)
    BY <2>4, <2>5
  <2> QED
    BY <2>1, <2>6 DEF v, y
<1>2. laser \in Seq(WS)
  <2>1. Len(p) \in Nat /\ \A i \in 1 .. Len(p) : Concrete(c, p[i]) \in WS
    BY LaserSteps
  <2> HIDE DEF WS, p, c
  <2> QED
    BY <2>1
<1>3. C \in Seq(WS) /\ D \in Seq(DS)
  <2>1. Stops(cmd) => stop \in WS
    OBVIOUS
  <2>2. Starts(cmd) => start \in DS
    OBVIOUS
  <2> HIDE DEF WS, DS, stop, start
  <2> QED
    BY <2>1, <2>2
<1>4. s = R \o (CL \o D)
  BY DEF Dl5Writes
<1>5. Starts(cmd) => Len(D) = 1 /\ D[1] = start
  OBVIOUS
<1>6. ~Starts(cmd) => Len(D) = 0
  OBVIOUS
<1>7. Stops(cmd) => CL[1] = stop /\ Len(CL) >= 1
  <2> SUFFICES ASSUME Stops(cmd) PROVE CL[1] = stop /\ Len(CL) >= 1
    OBVIOUS
  <2>1. CL = <<stop>> \o laser /\ stop \in WS
    OBVIOUS
  <2> HIDE DEF laser, stop, WS, CL, C
  <2>2. CL[1] = stop
    BY ONLY <1>2, <2>1, Prefixed
  <2>3. Len(CL) = 1 + Len(laser) /\ Len(laser) \in Nat
    BY ONLY <1>2, <2>1, Prefixed
  <2> QED
    BY <2>2, <2>3
<1>8. /\ stop.do = "state" /\ stop.bits = {} /\ start.do = "state" /\ start.bits = One
      /\ \A x \in RS : x.do \in {"control", "validate"}
  BY DEF WriteState, ReadControl
<1>9. \A x \in WS : x \in ModeStep(c, "laser") \/ (Stops(cmd) /\ x = stop)
  OBVIOUS
<1>10. CL \in Seq(WS)
  <2> HIDE DEF C, laser, WS
  <2> QED
    BY <1>2, <1>3
<1> HIDE DEF RS, WS, DS, D, CL, R, stop, start, c
<1>11. R \in Seq(V) /\ CL \in Seq(V) /\ D \in Seq(V)
  BY <1>1, <1>3, <1>10
<1> HIDE DEF V
<1> DEFINE r == Len(R)
           k == Len(CL)
           W == CL \o D
<1>12. /\ W \in Seq(V) /\ k \in Nat /\ Len(D) \in Nat /\ Len(W) = k + Len(D)
       /\ \A i \in 1 .. k : W[i] = CL[i]
       /\ \A i \in 1 .. Len(D) : W[k + i] = D[i]
  <2>1. CL \in Seq(V) /\ D \in Seq(V)
    BY <1>11
  <2> QED
    BY ONLY <2>1, Concatenated
<1>13. /\ s \in Seq(V) /\ r \in Nat /\ Len(s) = r + Len(W)
       /\ \A i \in 1 .. r : s[i] = R[i]
       /\ \A i \in 1 .. Len(W) : s[r + i] = W[i]
  <2>1. R \in Seq(V) /\ W \in Seq(V)
    BY <1>11, <1>12
  <2>2. s = R \o W
    BY <1>4
  <2> HIDE DEF W
  <2> QED
    BY ONLY <2>1, <2>2, Concatenated
<1>14. /\ \A i \in 1 .. r : R[i] \in RS
       /\ \A i \in 1 .. k : CL[i] \in WS
  BY <1>1, <1>10
<1> HIDE DEF r, k, W
<1>15. Len(D) \in {0, 1} /\ (Len(D) = 1 => Starts(cmd) /\ D[1] = start)
  BY <1>5, <1>6
<1>20. r \in Nat /\ k \in Nat /\ Len(W) = k + Len(D) /\ Len(s) = r + (k + Len(D))
  BY <1>12, <1>13
<1>16. ASSUME NEW i \in 1 .. Len(s)
       PROVE  \/ s[i].do \in {"control", "validate"}
              \/ s[i] \in ModeStep(c, "laser")
              \/ s[i].do = "state" /\ s[i].bits = {} /\ Stops(cmd)
              \/ s[i].do = "state" /\ s[i].bits = One /\ Starts(cmd) /\ i = Len(s)
  <2>1. CASE i \in 1 .. r
    BY <1>8, <1>13, <1>14, <2>1
  <2>2. CASE i \in r + 1 .. r + k
    <3>1. i - r \in 1 .. k /\ i - r \in 1 .. Len(W) /\ r + (i - r) = i
      BY <1>12, <1>13, <2>2
    <3>2. s[i] = CL[i - r] /\ CL[i - r] \in WS
      BY <1>12, <1>13, <1>14, <3>1
    <3> QED
      BY <1>8, <1>9, <3>2
  <2>3. CASE i \notin 1 .. r + k
    <3>0. Len(D) \in {0, 1}
      BY <1>15
    <3>a. i \in Int /\ 1 <= i /\ i <= r + (k + Len(D)) /\ r + k < i
      BY <1>20, <2>3
    <3>1. Len(D) = 1 /\ i = Len(s) /\ i = r + (k + 1)
      <4>1. Len(D) = 1
        <5>1. CASE Len(D) = 0
          BY <1>20, <3>a, <5>1
        <5> QED
          BY <3>0, <5>1
      <4> QED
        BY <1>20, <3>a, <4>1
    <3>2. k + 1 \in 1 .. Len(W) /\ 1 \in 1 .. Len(D)
      BY <1>20, <3>1
    <3>3. s[i] = D[1]
      BY <1>12, <1>13, <3>1, <3>2
    <3>4. s[i].do = "state" /\ s[i].bits = One /\ Starts(cmd)
      BY <1>8, <1>15, <3>1, <3>3
    <3> QED
      BY <3>1, <3>4
  <2>4. i \in 1 .. r \/ i \in r + 1 .. r + k \/ i \notin 1 .. r + k
    BY <1>20
  <2> QED
    BY <2>1, <2>2, <2>3, <2>4
<1>17. ASSUME Starts(cmd) PROVE Len(s) >= 1 /\ s[Len(s)].do = "state" /\ s[Len(s)].bits = One
  <2>0. Len(D) = 1 /\ D[1] = start
    BY <1>5, <1>17
  <2>1. Len(s) = r + (k + 1) /\ k + 1 \in 1 .. Len(W) /\ 1 \in 1 .. Len(D) /\ Len(s) >= 1
    BY <1>20, <2>0
  <2>2. s[Len(s)] = D[1]
    BY <1>12, <1>13, <2>1
  <2> QED
    BY <1>8, <2>0, <2>1, <2>2
<1>18. ASSUME Stops(cmd) PROVE \E i \in 1 .. Len(s) : s[i].do = "state"
  <2>1. 1 \in 1 .. Len(W) /\ 1 \in 1 .. k /\ r + 1 \in 1 .. Len(s)
    BY <1>7, <1>12, <1>13, <1>18 DEF k
  <2>2. s[r + 1] = stop
    BY <1>7, <1>12, <1>13, <1>18, <2>1
  <2> QED
    BY <1>8, <2>1, <2>2
<1>19. Len(s) \in Nat /\ \E T : s \in Seq(T)
  BY <1>12, <1>13
<1> QED
  BY <1>16, <1>17, <1>18, <1>19 DEF c

\* The steps of each kind of command that verifies what it writes.
LEMMA StepsOfKind ==
    ASSUME NEW cmd \in Given, Tracked(cmd)
    PROVE  /\ cmd.kind \in PlanKinds => StepsOf[cmd] = PlanOf(cmd)
           /\ cmd.kind = "dl5" => StepsOf[cmd] = Dl5Reads(cmd) \o Dl5Writes(cmd)
           /\ cmd.kind = "start" => StepsOf[cmd] = <<ReadControl>> \o <<WriteState(1, One)>>
           /\ cmd.kind = "stop" => StepsOf[cmd] = <<ReadControl>> \o <<WriteState(1, {})>>
           /\ cmd.kind = "write-checked" => StepsOf[cmd] = <<Write(cmd.address, cmd.value)>>
<1>1. StepsOf[cmd] = Before(cmd) \o Sent(cmd)
  BY DEF StepsOf, Steps, Tracked
<1>2. ASSUME cmd.kind \in PlanKinds PROVE StepsOf[cmd] = PlanOf(cmd)
  <2>1. Before(cmd) = <<>> /\ Sent(cmd) = PlanOf(cmd)
    BY <1>2 DEF Before, Sent, PlanKinds
  <2>2. PICK g \in Nat : StepsLaid(cmd, PlanOf(cmd), g)
    BY <1>2, PlanSteps
  <2>3. \E T : PlanOf(cmd) \in Seq(T)
    BY <2>2 DEF StepsLaid
  <2> QED
    BY <1>1, <2>1, <2>3
<1>3. cmd.kind = "dl5" => StepsOf[cmd] = Dl5Reads(cmd) \o Dl5Writes(cmd)
  BY <1>1 DEF Before, Sent, PlanKinds
<1>4. ASSUME cmd.kind = "start" PROVE StepsOf[cmd] = <<ReadControl>> \o <<WriteState(1, One)>>
  <2>1. Before(cmd) = <<ReadControl>>
    BY <1>4 DEF Before, PlanKinds
  <2>2. Sent(cmd) = <<WriteState(1, One)>>
    BY <1>4 DEF Sent, PlanKinds
  <2> QED
    BY <1>1, <2>1, <2>2
<1>5. ASSUME cmd.kind = "stop" PROVE StepsOf[cmd] = <<ReadControl>> \o <<WriteState(1, {})>>
  <2>1. Before(cmd) = <<ReadControl>>
    BY <1>5 DEF Before, PlanKinds
  <2>2. Sent(cmd) = <<WriteState(1, {})>>
    BY <1>5 DEF Sent, PlanKinds
  <2> QED
    BY <1>1, <2>1, <2>2
<1>6. cmd.kind = "write-checked" => StepsOf[cmd] = <<Write(cmd.address, cmd.value)>>
  BY <1>1 DEF Before, Sent, PlanKinds
<1> QED
  BY <1>2, <1>3, <1>4, <1>5, <1>6

\* They read or write registers of the FPGA.
LEMMA TrackedSteps ==
    ASSUME NEW cmd \in Given, Tracked(cmd)
    PROVE  /\ \E T : StepsOf[cmd] \in Seq(T)
           /\ Len(StepsOf[cmd]) \in Nat
           /\ \A i \in 1 .. Len(StepsOf[cmd]) : StepOfTracked(StepsOf[cmd][i])
<1> DEFINE s == StepsOf[cmd]
<1>0. LaserAddress \cup UltrafastAddress \cup {"0x020B", "0x0202"} \subseteq RegisterAddress
  BY DEF LaserAddress, UltrafastAddress, RegisterAddress, RtlLayout
<1>1. CASE cmd.kind \in PlanKinds
  <2>1. PICK g \in Nat : StepsLaid(cmd, s, g)
    BY <1>1, PlanSteps, StepsOfKind
  <2>2. \A i \in 1 .. Len(s) : s[i].do = "write" /\ s[i].address \in RegisterAddress
    BY <2>1, PlanStepsAreWrites
  <2>3. Len(s) \in Nat /\ \E T : s \in Seq(T)
    BY <2>1 DEF StepsLaid
  <2> QED
    BY <2>2, <2>3 DEF StepOfTracked
<1>2. CASE cmd.kind = "dl5"
  <2>1. s = Dl5Reads(cmd) \o Dl5Writes(cmd)
    BY <1>2, StepsOfKind
  <2>2. /\ \E T : s \in Seq(T)
        /\ Len(s) \in Nat
        /\ \A i \in 1 .. Len(s) :
             \/ s[i].do \in {"control", "validate"}
             \/ s[i] \in ModeStep(ConfigOf(cmd), "laser")
             \/ s[i].do = "state" /\ s[i].bits = {} /\ Stops(cmd)
             \/ s[i].do = "state" /\ s[i].bits = One /\ Starts(cmd) /\ i = Len(s)
    BY <2>1, Dl5Steps
  <2>3. \A x \in ModeStep(ConfigOf(cmd), "laser") : x.do = "write" /\ x.address \in RegisterAddress
    BY <1>0 DEF ModeStep, Write
  <2> HIDE DEF s
  <2>4. \A i \in 1 .. Len(s) : StepOfTracked(s[i])
    BY <2>2, <2>3 DEF StepOfTracked
  <2> QED
    BY <2>2, <2>4 DEF s
<1>3. CASE cmd.kind \in {"start", "stop"}
  <2>1. PICK b \in {{}, One} : s = <<ReadControl>> \o <<WriteState(1, b)>>
    BY <1>3, StepsOfKind
  <2>2. StepOfTracked(ReadControl) /\ StepOfTracked(WriteState(1, b))
    BY DEF StepOfTracked, ReadControl, WriteState
  <2> DEFINE x == ReadControl
             y == WriteState(1, b)
             T == {x, y}
  <2> HIDE DEF s, x, y
  <2>3. s = <<x>> \o <<y>> /\ x \in T /\ <<y>> \in Seq(T) /\ Len(<<y>>) = 1 /\ <<y>>[1] = y
    BY <2>1 DEF x, y
  <2> HIDE DEF T
  <2>4. s \in Seq(T)
    BY ONLY <2>3, Prefixed
  <2>5. Len(s) = 2
    BY ONLY <2>3, Prefixed
  <2>6. s[1] = x
    BY ONLY <2>3, Prefixed
  <2>7. s[2] = y
    BY ONLY <2>3, Prefixed
  <2>8. \A i \in 1 .. 2 : i = 1 \/ i = 2
    OBVIOUS
  <2>9. \A i \in 1 .. 2 : StepOfTracked(s[i])
    BY <2>2, <2>6, <2>7, <2>8 DEF x, y
  <2> QED
    BY <2>4, <2>5, <2>9 DEF s
<1>4. CASE cmd.kind = "write-checked"
  <2>1. s = <<Write(cmd.address, cmd.value)>>
    BY <1>4, StepsOfKind
  <2>2. s \in Seq({Write(cmd.address, cmd.value)}) /\ Len(s) = 1
    BY <2>1
  <2>3. cmd.address \in RegisterAddress
    BY <1>4, SessionAssumption
  <2>4. s[1] = Write(cmd.address, cmd.value)
    BY <2>1
  <2>5. StepOfTracked(Write(cmd.address, cmd.value))
    BY <2>3 DEF StepOfTracked, Write
  <2> HIDE DEF s
  <2>6. \A i \in 1 .. 1 : i = 1
    OBVIOUS
  <2>7. \A i \in 1 .. 1 : StepOfTracked(s[i])
    BY <2>4, <2>5, <2>6
  <2> QED
    BY <2>2, <2>7 DEF s
<1> QED
  BY <1>1, <1>2, <1>3, <1>4 DEF Tracked
(***************************************************************************)
(* The process.                                                            *)
(***************************************************************************)
\* What a request that waits is for.
WaitingFor(step) ==
    \/ step.do \in {"control", "read"}
    \/ /\ step.do \in WriteSteps
       /\ TargetOf(step) \in RegisterAddress
       /\ Written(step) \in Word
       /\ call # None =>
            /\ call.op = "write_checked"
            /\ call.address = TargetOf(step)
            /\ call.value = Written(step)
       /\ call = None => outcome.status \in {"verified", "mismatch", "timeout", "protocol_error"}

ProcessInv ==
    /\ script \in Seq(Given)
    /\ done \in Seq(Given)
    /\ exits \in Seq(Nat)
    /\ Len(done) = Len(exits)
    /\ active \in BOOLEAN /\ waiting \in BOOLEAN /\ ok \in BOOLEAN
    /\ active => script # <<>> /\ Command \in AcceptedCommand /\ Safe(Command)
    /\ ~active => todo = <<>>
    /\ active /\ Tracked(Command) =>
            \E n \in 0 .. Len(StepsOf[Command]) :
                todo = SubSeq(StepsOf[Command], n + 1, Len(StepsOf[Command]))
    /\ call # None => waiting
    /\ waiting => active /\ todo # <<>> /\ WaitingFor(Head(todo))
    /\ Ended /\ LastExit = 0 => LastCommand \in AcceptedCommand /\ Safe(LastCommand)

\* The end of a process.
LEMMA LeaveKeepsProcess ==
    ASSUME ProcessInv, NEW code \in Nat, Leave(code), script # <<>>,
           code = 0 => Command \in AcceptedCommand /\ Safe(Command)
    PROVE  /\ script' \in Seq(Given) /\ done' \in Seq(Given) /\ exits' \in Seq(Nat)
           /\ Len(done') = Len(exits')
           /\ ~active' /\ todo' = <<>>
           /\ exits' # <<>> /\ LastExit' = code /\ LastCommand' = Command
           /\ LastExit' = 0 => LastCommand' \in AcceptedCommand /\ Safe(LastCommand')
<1>1. Command \in Given /\ script' \in Seq(Given)
  BY DEF ProcessInv, Leave, Command
<1>2. /\ exits' \in Seq(Nat) /\ Len(exits') = Len(exits) + 1 /\ exits'[Len(exits) + 1] = code
      /\ Len(exits) \in Nat
  BY DEF ProcessInv, Leave
<1>3. /\ done' \in Seq(Given) /\ Len(done') = Len(done) + 1 /\ done'[Len(done) + 1] = Command
      /\ Len(done) \in Nat
  BY <1>1 DEF ProcessInv, Leave
<1>4. LastExit' = code /\ LastCommand' = Command /\ exits' # <<>>
  BY <1>2, <1>3 DEF LastExit, LastCommand
<1>5. ~active' /\ todo' = <<>>
  BY DEF Leave
<1> QED
  BY <1>1, <1>2, <1>3, <1>4, <1>5 DEF ProcessInv

(***************************************************************************)
(* The process.  What is to do is the rest of the steps of the command, and*)
(* a call of the link is the step it waits for.                            *)
(***************************************************************************)
\* One step less to do.
LEMMA SuffixTail ==
    ASSUME NEW T, NEW s \in Seq(T), NEW n \in 0 .. Len(s), NEW t, t = SubSeq(s, n + 1, Len(s))
    PROVE  /\ Len(t) = Len(s) - n
           /\ t # <<>> => /\ n + 1 \in 0 .. Len(s) /\ n + 1 \in 1 .. Len(s)
                          /\ Head(t) = s[n + 1]
                          /\ Tail(t) = SubSeq(s, (n + 1) + 1, Len(s))
<1>1. Len(s) \in Nat /\ n \in Nat /\ n <= Len(s)
  OBVIOUS
<1>2. t \in Seq(T) /\ Len(t) = Len(s) - n /\ \A i \in 1 .. Len(s) - n : t[i] = s[n + i]
  BY <1>1
<1>3. ASSUME t # <<>>
      PROVE  /\ n + 1 \in 0 .. Len(s) /\ n + 1 \in 1 .. Len(s)
             /\ Head(t) = s[n + 1]
             /\ Tail(t) = SubSeq(s, (n + 1) + 1, Len(s))
  <2>1. Len(t) >= 1
    BY <1>1, <1>2, <1>3
  <2>2. n + 1 \in 0 .. Len(s) /\ n + 1 \in 1 .. Len(s)
    BY <1>1, <1>2, <2>1
  <2>3. Head(t) = s[n + 1]
    BY <1>1, <1>2, <1>3, <2>1
  <2> DEFINE u == SubSeq(s, (n + 1) + 1, Len(s))
  <2>4. u \in Seq(T) /\ Len(u) = Len(s) - (n + 1) /\ \A i \in 1 .. Len(s) - (n + 1) : u[i] = s[(n + 1) + i]
    BY <1>1, <2>2
  <2>5. Tail(t) \in Seq(T) /\ Len(Tail(t)) = Len(t) - 1 /\ \A i \in 1 .. Len(t) - 1 : Tail(t)[i] = t[i + 1]
    BY <1>2, <1>3
  <2> HIDE DEF u
  <2>6. ASSUME NEW i \in 1 .. Len(u) PROVE Tail(t)[i] = u[i]
    <3>1. i \in 1 .. Len(s) - (n + 1) /\ i \in 1 .. Len(t) - 1 /\ i + 1 \in 1 .. Len(s) - n
      BY <1>1, <1>2, <2>2, <2>4
    <3>2. n + (i + 1) = (n + 1) + i
      BY <1>1, <3>1
    <3> QED
      BY <1>2, <2>4, <2>5, <3>1, <3>2
  <2>7. Len(Tail(t)) = Len(u)
    BY <1>1, <1>2, <2>4, <2>5
  <2>8. Tail(t) = u
    BY <2>4, <2>5, <2>6, <2>7, SeqEqual
  <2> QED
    BY <2>2, <2>3, <2>8 DEF u
<1> QED
  BY <1>2, <1>3

\* Before the first step, all are to do.
LEMMA WholeSuffix ==
    ASSUME NEW T, NEW s \in Seq(T) PROVE s = SubSeq(s, 0 + 1, Len(s)) /\ 0 \in 0 .. Len(s)
OBVIOUS

\* What the current command has done, if it is one that writes.
LEMMA TodoIs ==
    ASSUME ProcessInv, active, Tracked(Command)
    PROVE  LET s == StepsOf[Command]
           IN  \E n \in 0 .. Len(s) :
                 /\ Len(s) \in Nat
                 /\ todo = SubSeq(s, n + 1, Len(s)) /\ Len(todo) = Len(s) - n
                 /\ todo # <<>> => /\ n + 1 \in 0 .. Len(s)
                                   /\ Head(todo) = s[n + 1]
                                   /\ StepOfTracked(Head(todo))
                                   /\ Tail(todo) = SubSeq(s, (n + 1) + 1, Len(s))
                                   /\ Len(Tail(todo)) = Len(s) - (n + 1)
<1> DEFINE s == StepsOf[Command]
<1>1. Command \in Given
  BY DEF ProcessInv, AcceptedCommand
<1>2. (\E T : s \in Seq(T)) /\ Len(s) \in Nat /\ \A i \in 1 .. Len(s) : StepOfTracked(s[i])
  BY <1>1, TrackedSteps
<1>3. PICK T : s \in Seq(T)
  BY <1>2
<1>4. PICK n \in 0 .. Len(s) : todo = SubSeq(s, n + 1, Len(s))
  BY DEF ProcessInv
<1> HIDE DEF s
<1>5. /\ Len(todo) = Len(s) - n
      /\ todo # <<>> => /\ n + 1 \in 0 .. Len(s) /\ n + 1 \in 1 .. Len(s)
                        /\ Head(todo) = s[n + 1]
                        /\ Tail(todo) = SubSeq(s, (n + 1) + 1, Len(s))
  BY ONLY <1>3, <1>4, SuffixTail
<1>6. ASSUME todo # <<>> PROVE Len(Tail(todo)) = Len(s) - (n + 1)
  <2>1. n + 1 \in 0 .. Len(s) /\ Tail(todo) = SubSeq(s, (n + 1) + 1, Len(s))
    BY <1>5, <1>6
  <2> QED
    BY ONLY <1>3, <2>1, SuffixTail
<1> QED
  BY <1>2, <1>4, <1>5, <1>6 DEF s

\* A call is an operation on a register of the FPGA.
LEMMA CallIs ==
    ASSUME LP!TypeOK, call # None
    PROVE  call \in [op : L!Op, address : RegisterAddress, value : Word \cup {None}, left : 0 .. Retries]
BY DEF LP!TypeOK, LP!Call, LP!Op, L!Op

\* Every step keeps what is said of the process, ...
LEMMA ProcessStep == ASSUME LP!TypeOK, ProcessInv, [Next]_vars PROVE ProcessInv'
<1>0. /\ script \in Seq(Given) /\ done \in Seq(Given) /\ exits \in Seq(Nat) /\ Len(done) = Len(exits)
      /\ active \in BOOLEAN /\ waiting \in BOOLEAN /\ ok \in BOOLEAN
      /\ active => script # <<>> /\ Command \in AcceptedCommand /\ Safe(Command)
      /\ ~active => todo = <<>>
      /\ call # None => waiting
      /\ waiting => active /\ todo # <<>> /\ WaitingFor(Head(todo))
  BY DEF ProcessInv
\* The process does nothing itself.
<1>k. ASSUME UNCHANGED processVars, call' # None => waiting, waiting => WaitingFor(Head(todo))'
      PROVE  ProcessInv'
  <2>1. UNCHANGED <<script, todo, active, waiting, ok, current, exits, done, fresh>>
    BY <1>k DEF processVars
  <2> QED
    BY <1>k, <2>1 DEF ProcessInv, Command, Ended, LastExit, LastCommand
<1>u. ASSUME UNCHANGED processVars, UNCHANGED <<call, outcome>> PROVE ProcessInv'
  <2>1. waiting => WaitingFor(Head(todo))'
    BY <1>0, <1>u DEF WaitingFor, processVars, TargetOf, Written, WrittenAfter
  <2> QED
    BY <1>0, <1>k, <1>u, <2>1
\* It ends.
<1>e. ASSUME NEW code \in Nat, Leave(code), script # <<>>, code = 0 => Command \in AcceptedCommand /\ Safe(Command),
             waiting' = FALSE, call' = None, ok' \in BOOLEAN
      PROVE  ProcessInv'
  <2>1. /\ script' \in Seq(Given) /\ done' \in Seq(Given) /\ exits' \in Seq(Nat)
        /\ Len(done') = Len(exits')
        /\ ~active' /\ todo' = <<>> /\ active' = FALSE
        /\ exits' # <<>> /\ LastExit' = code /\ LastCommand' = Command
        /\ LastExit' = 0 => LastCommand' \in AcceptedCommand /\ Safe(LastCommand')
    BY <1>e, LeaveKeepsProcess DEF Leave
  <2> QED
    BY <1>e, <2>1 DEF ProcessInv
\* It goes on to the next step.
<1>n. ASSUME active, todo # <<>>, todo' = Tail(todo), waiting' = FALSE, call' = None, ok' \in BOOLEAN,
             UNCHANGED <<script, active, exits, done>>
      PROVE  ProcessInv'
  <2>1. Command' = Command
    BY <1>n DEF Command
  <2>2. ASSUME Tracked(Command)
        PROVE  \E n \in 0 .. Len(StepsOf[Command]) :
                    todo' = SubSeq(StepsOf[Command], n + 1, Len(StepsOf[Command]))
    BY <1>n, <2>2, TodoIs
  <2>3. /\ script' \in Seq(Given) /\ done' \in Seq(Given) /\ exits' \in Seq(Nat) /\ Len(done') = Len(exits')
        /\ active' /\ script' # <<>> /\ Command' \in AcceptedCommand /\ Safe(Command')
        /\ active' \in BOOLEAN
    BY <1>0, <1>n, <2>1
  <2> QED
    BY <1>n, <2>1, <2>2, <2>3 DEF ProcessInv, Ended
<1>1. CASE Launch
  <2>1. call = None /\ waiting = FALSE /\ call' = None /\ waiting' = FALSE
    BY <1>0, <1>1 DEF Launch, linkVars
  <2>2. CASE Leave(20) /\ UNCHANGED ok
    <3>1. script # <<>> /\ ok' \in BOOLEAN /\ 20 \in Nat /\ 20 # 0
      BY <1>0, <1>1, <2>2 DEF Launch
    <3> QED
      BY <1>e, <2>1, <2>2, <3>1
  <2>3. CASE Leave(2) /\ UNCHANGED ok
    <3>1. script # <<>> /\ ok' \in BOOLEAN /\ 2 \in Nat /\ 2 # 0
      BY <1>0, <1>1, <2>3 DEF Launch
    <3> QED
      BY <1>e, <2>1, <2>3, <3>1
  <2>4. CASE /\ Safe(Command) /\ Command \in AcceptedCommand
             /\ active' = TRUE /\ ok' = TRUE /\ todo' = StepsOf[Command] /\ UNCHANGED <<script, exits, done>>
    <3>1. Command' = Command /\ script # <<>>
      BY <1>1, <2>4 DEF Command, Launch
    <3>2. ASSUME Tracked(Command)
          PROVE  \E n \in 0 .. Len(StepsOf[Command]) :
                    todo' = SubSeq(StepsOf[Command], n + 1, Len(StepsOf[Command]))
      <4>1. PICK T : StepsOf[Command] \in Seq(T)
        BY <2>4, <3>2, TrackedSteps DEF AcceptedCommand
      <4> QED
        BY <2>4, <4>1, WholeSuffix
    <3> QED
      BY <1>0, <2>1, <2>4, <3>1, <3>2 DEF ProcessInv, Ended
  <2> QED
    BY <1>1, <2>2, <2>3, <2>4 DEF Launch
<1>2. CASE Issue
  <2> DEFINE step == Head(todo)
             a == TargetOf(step)
  <2>1. active /\ waiting = FALSE /\ call = None /\ todo # <<>> /\ script # <<>> /\ ok' = ok /\ current' = current
    BY <1>0, <1>2 DEF Issue
  <2>2. CASE /\ step.do \in {"control", "read"} /\ L!Read(a)
             /\ waiting' = TRUE /\ UNCHANGED <<script, todo, active, exits, done>>
    <3>1. WaitingFor(Head(todo))'
      BY <2>2 DEF WaitingFor
    <3> QED
      BY <1>0, <2>1, <2>2, <3>1 DEF ProcessInv, Command, Ended
  <2>3. CASE /\ step.do \in {"write", "state"} /\ Fits(Written(step), 32) /\ L!WriteChecked(a, Written(step))
             /\ waiting' = TRUE /\ UNCHANGED <<script, todo, active, exits, done>>
    <3>1. Written(step)' = Written(step) /\ TargetOf(step)' = TargetOf(step) /\ Head(todo)' = step
      BY <2>1, <2>3 DEF Written, WrittenAfter, TargetOf
    <3>2. Written(step) \in Word /\ a \in RegisterAddress
      BY <2>3 DEF Fits, Word, L!WriteChecked
    <3>3. call' = [op |-> "write_checked", address |-> a, value |-> Written(step), left |-> Retries]
      BY <2>3 DEF L!WriteChecked, L!Begin
    <3>4. call' \in L!Call
      BY <3>2, <3>3, SessionAssumption DEF L!Call, L!Op
    <3>5. call' # None
      BY <3>4, SessionAssumption
    <3> HIDE DEF step, a
    <3>6. call'.op = "write_checked" /\ call'.address = a /\ call'.value = Written(step)
      BY <3>3
    <3>7. WaitingFor(Head(todo))'
      BY <2>3, <3>1, <3>2, <3>5, <3>6 DEF WaitingFor, WriteSteps, step, a
    <3> QED
      BY <1>0, <2>1, <2>3, <3>7 DEF ProcessInv, Command, Ended
  <2>4. CASE /\ step.do = "send" /\ L!Write(a, Written(step)) /\ todo' = Tail(todo)
             /\ UNCHANGED <<script, active, waiting, exits, done>>
    <3>1. call' = None
      BY <2>1, <2>4 DEF L!Write
    <3> QED
      BY <1>0, <1>n, <2>1, <2>4, <3>1
  <2>5. CASE Leave(12) /\ UNCHANGED <<linkVars, captureVars, waiting>>
    <3>1. call' = None /\ waiting' = FALSE
      BY <2>1, <2>5 DEF linkVars
    <3> QED
      BY <1>0, <1>e, <2>1, <2>5, <3>1
  <2>6. CASE /\ todo' = Tail(todo) /\ UNCHANGED <<linkVars, captureVars, waiting, script, active, exits, done>>
    <3>1. call' = None /\ waiting' = FALSE
      BY <2>1, <2>6 DEF linkVars
    <3> QED
      BY <1>0, <1>n, <2>1, <2>6, <3>1
  <2>7. CASE Leave(2) /\ UNCHANGED <<linkVars, captureVars, waiting>>
    <3>1. call' = None /\ waiting' = FALSE
      BY <2>1, <2>7 DEF linkVars
    <3> QED
      BY <1>0, <1>e, <2>1, <2>7, <3>1
  <2> QED
    BY <1>2, <2>2, <2>3, <2>4, <2>5, <2>6, <2>7 DEF Issue
<1>3. CASE Settle
  <2>1. active /\ call = None /\ call' = None /\ waiting' = FALSE /\ todo # <<>> /\ script # <<>>
    BY <1>0, <1>3 DEF Settle, linkVars
  <2>2. CASE todo' = Tail(todo) /\ UNCHANGED <<script, active, exits, done, ok>>
    BY <1>0, <1>n, <2>1, <2>2
  <2>3. CASE /\ ok' = (ok /\ outcome.status # "mismatch") /\ todo' = Tail(todo)
             /\ UNCHANGED <<script, active, exits, done, current>>
    <3>1. ok' \in BOOLEAN
      BY <2>3
    <3> QED
      BY <1>0, <1>n, <2>1, <2>3, <3>1
  <2>4. CASE Leave(IF outcome.status = "timeout" THEN 10 ELSE 12) /\ UNCHANGED <<ok, current>>
    <3>1. (IF outcome.status = "timeout" THEN 10 ELSE 12) \in Nat \ {0}
      OBVIOUS
    <3> QED
      BY <1>0, <1>e, <2>1, <2>4, <3>1
  <2> QED
    BY <1>3, <2>2, <2>3, <2>4 DEF Settle
<1>4. CASE Exit
  <2>1. active /\ waiting = FALSE /\ call = None /\ call' = None /\ waiting' = FALSE /\ script # <<>> /\ ok' = ok
    BY <1>0, <1>4 DEF Exit, linkVars
  <2>2. ResultExitCode(Command, ok) \in Nat
    BY DEF ResultExitCode
  <2> QED
    BY <1>0, <1>4, <1>e, <2>1, <2>2 DEF Exit
<1>5. CASE Receive
  <2>1. call # None /\ call' = None /\ UNCHANGED processVars
    BY <1>5 DEF Receive, L!Receive, L!Finish
  <2>2. Head(todo)' = Head(todo) /\ TargetOf(Head(todo))' = TargetOf(Head(todo))
        /\ Written(Head(todo))' = Written(Head(todo))
    BY <2>1 DEF processVars, TargetOf, Written, WrittenAfter
  <2>3. call.op = "write_checked" => outcome'.status \in {"verified", "mismatch", "protocol_error"}
    BY <1>5 DEF Receive, L!Receive, L!Finish
  <2>4. WaitingFor(Head(todo))'
    BY <1>0, <2>1, <2>2, <2>3 DEF WaitingFor
  <2> QED
    BY <1>k, <2>1, <2>4
<1>6. CASE Retry
  <2>1. call # None /\ call' = [call EXCEPT !.left = @ - 1] /\ UNCHANGED processVars
    BY <1>6 DEF Retry, L!Retry
  <2>2. call'.op = call.op /\ call'.address = call.address /\ call'.value = call.value
    BY <2>1, CallIs
  <2>3. Head(todo)' = Head(todo) /\ TargetOf(Head(todo))' = TargetOf(Head(todo))
        /\ Written(Head(todo))' = Written(Head(todo))
    BY <2>1 DEF processVars, TargetOf, Written, WrittenAfter
  <2>4. LP!TypeOK' /\ call' \in LP!Call
    <3>1. LP!TypeOK'
      BY LinkTypedStep
    <3>2. call.left \in Nat /\ call \in L!Call /\ call.left > 0
      BY <1>6, <2>1, CallIs DEF L!Call, Retry, L!Retry
    <3> QED
      BY <2>1, <3>1, <3>2, SessionAssumption DEF LP!Call, LP!Op, L!Call, L!Op
  <2>5. call' # None
    BY <2>4, LinkConstants DEF LP!CallAssumption
  <2>6. WaitingFor(Head(todo))'
    BY <1>0, <2>1, <2>2, <2>3, <2>5 DEF WaitingFor
  <2> QED
    BY <1>0, <1>k, <2>1, <2>6
<1>7. CASE GiveUp
  <2>1. call # None /\ call' = None /\ outcome'.status = "timeout" /\ UNCHANGED processVars
    BY <1>7 DEF GiveUp, L!GiveUp, L!Finish
  <2>2. Head(todo)' = Head(todo) /\ TargetOf(Head(todo))' = TargetOf(Head(todo))
        /\ Written(Head(todo))' = Written(Head(todo))
    BY <2>1 DEF processVars, TargetOf, Written, WrittenAfter
  <2>3. WaitingFor(Head(todo))'
    BY <1>0, <2>1, <2>2 DEF WaitingFor
  <2> QED
    BY <1>k, <2>1, <2>3
<1>8. CASE Reopen
  BY <1>8, <1>u DEF Reopen, L!Reopen
<1>9. CASE FpgaWrite
  BY <1>9, <1>u DEF FpgaWrite, L!FpgaWrite
<1>10. CASE FpgaRead
  BY <1>10, <1>u DEF FpgaRead, L!FpgaRead
<1>11. CASE FpgaReadBusy
  BY <1>11, <1>u DEF FpgaReadBusy, L!FpgaReadBusy
<1>12. CASE LoseRequest
  BY <1>12, <1>u DEF LoseRequest, L!LoseRequest
<1>13. CASE CaptureEnds \/ CaptureRestarts \/ RunAudit
  BY <1>13, <1>u DEF CaptureEnds, CaptureRestarts, RunAudit, linkVars
<1>14. CASE Over \/ UNCHANGED vars
  BY <1>14, <1>u DEF Over, vars, linkVars
<1> QED
  BY <1>1, <1>2, <1>3, <1>4, <1>5, <1>6, <1>7, <1>8, <1>9, <1>10, <1>11, <1>12, <1>13, <1>14 DEF Next

\* ... which holds at the start.
LEMMA ProcessInit == Init => ProcessInv
<1> SUFFICES ASSUME Init PROVE ProcessInv
  OBVIOUS
<1>1. PICK s \in Sessions : script = s.commands
  BY DEF Init
<1>2. script \in Seq(Given)
  BY <1>1, SessionAssumption
<1>3. /\ done = <<>> /\ exits = <<>> /\ active = FALSE /\ waiting = FALSE /\ ok = TRUE /\ todo = <<>>
      /\ call = None
  BY DEF Init, L!Init
<1>4. done \in Seq(Given) /\ exits \in Seq(Nat) /\ Len(done) = Len(exits)
  BY <1>3
<1>5. ~Ended
  BY <1>3 DEF Ended
<1> QED
  BY <1>2, <1>3, <1>4, <1>5 DEF ProcessInv

(***************************************************************************)
(* A command that writes and verifies, on a link that was drained when it  *)
(* began.                                                                  *)
(***************************************************************************)
TheCommand == IF active THEN Command ELSE LastCommand

\* It has not failed.
OnTrack ==
    /\ fresh
    /\ active \/ exits # <<>>
    /\ IF active THEN ok ELSE LastExit = 0
    /\ Tracked(TheCommand)

\* The write that waits to be verified.
Own ==
    IF active /\ waiting /\ Head(todo).do \in WriteSteps
    THEN {[address |-> TargetOf(Head(todo)), value |-> Written(Head(todo))]} ELSE {}

\* What has been asked of the registers so far.
Asked == Asks(StepsOf[TheCommand], Len(StepsOf[TheCommand]) - Len(todo))

Settled == call = None /\ outcome.status = "verified"

OnLink(R, q, p, own, W, settled) ==
    /\ Good(R, q, own, W)
    /\ Later(q, own, W)
    /\ Stale(R, q, p, own)
    /\ Answer(R, q, p, own)
    /\ settled => Verified(R, q, p, own)

HostInv == OnTrack => OnLink(register, requests, replies, Own, Asked, Settled)

\* The parts of the type of the link that the proofs below use.
LEMMA LinkTypes ==
    ASSUME LP!TypeOK
    PROVE  /\ register \in [RegisterAddress -> Word]
           /\ requests \in Seq(L!Request) /\ Len(requests) \in Nat
           /\ replies \in Seq(L!Reply) /\ Len(replies) \in Nat
           /\ requests # <<>> =>
                /\ Head(requests) \in L!Request /\ Head(requests).address \in RegisterAddress
                /\ L!IsWrite(Head(requests)) => Head(requests).value \in Word
           /\ replies # <<>> => Head(replies) \in L!Reply
<1>1. L!Request = LP!Request /\ L!Reply = LP!Reply
  BY DEF L!Request, LP!Request, L!Reply, LP!Reply
<1>2. requests \in Seq(L!Request) /\ replies \in Seq(L!Reply) /\ register \in [RegisterAddress -> Word]
  BY <1>1 DEF LP!TypeOK
<1>3. \A r \in L!Request : r.address \in RegisterAddress /\ (L!IsWrite(r) => r.value \in Word)
  BY DEF L!Request, L!IsWrite
<1> QED
  BY <1>2, <1>3

\* A register is what it keeps.
LEMMA FixedStep == ASSUME LP!TypeOK, AllFixed(register), [Next]_vars PROVE AllFixed(register')
<1>1. CASE FpgaWrite
  <2> DEFINE a == Head(requests).address
             v == Head(requests).value
  <2>1. L!FpgaWrite
    BY <1>1 DEF FpgaWrite
  <2>2. a \in RegisterAddress /\ v \in Word
    BY <2>1, LinkTypes DEF L!FpgaWrite
  <2>3. register' = [register EXCEPT ![a] = Kept(a, v)]
    BY <2>1, <2>2 DEF L!FpgaWrite
  <2>4. Kept(a, Kept(a, v)) = Kept(a, v)
    BY <2>2, KeptIsFixed, WordsAreNumbers
  <2> HIDE DEF a, v
  <2> QED
    BY <2>2, <2>3, <2>4, LinkTypes DEF AllFixed
<1>2. CASE ~FpgaWrite
  <2>1. register' = register
    BY <1>2 DEF Next, vars, linkVars, Launch, LoseRequest, L!LoseRequest, Issue, L!Read, L!WriteChecked, L!Write,
                Settle, Exit, Receive, L!Receive, Retry, L!Retry, GiveUp, L!GiveUp, Reopen, L!Reopen,
                FpgaRead, L!FpgaRead, FpgaReadBusy, L!FpgaReadBusy, CaptureEnds, CaptureRestarts, RunAudit, Over
  <2> QED
    BY <2>1
<1> QED
  BY <1>1, <1>2

\* The reset values of the registers are words the FPGA can hold.
LEMMA FixedInit == Init => AllFixed(register)
BY ResetIsFixed DEF Init, L!Init, AllFixed

\* What the process does not touch.
LEMMA SameCommand ==
    ASSUME UNCHANGED processVars
    PROVE  OnTrack' = OnTrack /\ Own' = Own /\ Asked' = Asked
<1>1. UNCHANGED <<script, todo, active, waiting, ok, current, exits, done, fresh>>
  BY DEF processVars
<1>2. TheCommand' = TheCommand /\ LastExit' = LastExit
  BY <1>1 DEF TheCommand, Command, LastCommand, LastExit
<1>3. OnTrack' = OnTrack
  BY <1>1, <1>2 DEF OnTrack
<1>4. Own' = Own
  BY <1>1 DEF Own, TargetOf, Written, WrittenAfter
<1>5. Asked' = Asked
  BY <1>1, <1>2 DEF Asked
<1> QED
  BY <1>3, <1>4, <1>5

\* At most one write waits for its answer, and while it waits it is the call.
LEMMA OwnIs ==
    ASSUME ProcessInv
    PROVE  /\ \A w \in Own : w.address \in RegisterAddress
           /\ \A w, z \in Own : w = z
           /\ ~waiting => Own = {}
           /\ \A w \in Own : call # None => call.address = w.address /\ call.value = w.value
           /\ \A w \in Own : w = [address |-> w.address, value |-> w.value]
<1>1. CASE active /\ waiting /\ Head(todo).do \in WriteSteps
  <2>1. WaitingFor(Head(todo)) /\ Head(todo).do \notin {"control", "read"}
    BY <1>1 DEF ProcessInv, WriteSteps
  <2> QED
    BY <1>1, <2>1 DEF Own, WaitingFor
<1>2. CASE ~(active /\ waiting /\ Head(todo).do \in WriteSteps)
  BY <1>2 DEF Own
<1> QED
  BY <1>1, <1>2

\* Steps of the link under a command that waits or not.
LEMMA HostLinkStep ==
    ASSUME LP!TypeOK, ProcessInv, AllFixed(register), HostInv, OnTrack,
           Receive \/ Retry \/ GiveUp \/ Reopen \/ FpgaWrite \/ FpgaRead \/ FpgaReadBusy \/ LoseRequest
    PROVE  OnLink(register', requests', replies', Own, Asked, Settled')
<1> DEFINE own == Own
           W == Asked
<1>0. /\ Good(register, requests, own, W) /\ Later(requests, own, W)
      /\ Stale(register, requests, replies, own) /\ Answer(register, requests, replies, own)
      /\ Settled => Verified(register, requests, replies, own)
  BY DEF HostInv, OnLink
<1>t. /\ register \in [RegisterAddress -> Word]
      /\ requests \in Seq(L!Request) /\ Len(requests) \in Nat
      /\ replies \in Seq(L!Reply) /\ Len(replies) \in Nat
      /\ requests # <<>> =>
            /\ Head(requests) \in L!Request /\ Head(requests).address \in RegisterAddress
            /\ L!IsWrite(Head(requests)) => Head(requests).value \in Word
      /\ replies # <<>> => Head(replies) \in L!Reply
  BY LinkTypes
<1>w. /\ \A w \in own : w.address \in RegisterAddress
      /\ \A w, z \in own : w = z
      /\ \A w \in own : call # None => call.address = w.address /\ call.value = w.value
      /\ \A w \in own : w = [address |-> w.address, value |-> w.value]
  BY OwnIs
<1> HIDE DEF own, W
<1>1. CASE Receive
  <2>1. /\ call # None /\ replies # <<>> /\ replies' = Tail(replies)
        /\ register' = register /\ requests' = requests
        /\ outcome'.status = "verified" => Head(replies).address = call.address /\ Head(replies).value = call.value
    BY <1>1 DEF Receive, L!Receive, L!Finish
  <2>2. PICK f : Embeds(f, replies', replies)
    BY <1>t, <2>1, TailEmbeds
  <2>3. Len(replies') \in Nat
    BY <1>t, <2>1
  <2>4. Stale(register, requests, replies', own) /\ Answer(register, requests, replies', own)
    BY <1>0, <1>t, <2>2, <2>3, FewerReplies
  <2>5. ASSUME Settled' PROVE Verified(register, requests, replies', own)
    <3>1. Head(replies).address = call.address /\ Head(replies).value = call.value
      BY <2>1, <2>5 DEF Settled
    <3>2. Head(replies) = [address |-> Head(replies).address, value |-> Head(replies).value]
      BY <1>t, <2>1 DEF L!Reply
    <3>3. \A w \in own : Head(replies) = w
      BY <1>w, <2>1, <3>1, <3>2
    <3> QED
      BY <1>0, <1>t, <2>1, <3>3, AnswerTaken
  <2> QED
    BY <1>0, <2>1, <2>4, <2>5 DEF OnLink, own, W
<1>2. CASE Retry
  <2> DEFINE x == L!ReadRequest(call.address)
  <2>1. /\ requests' = Append(requests, x) /\ register' = register /\ replies' = replies
        /\ call # None /\ call' = [call EXCEPT !.left = @ - 1] /\ call.left > 0
    BY <1>2 DEF Retry, L!Retry
  <2>2. ~L!IsWrite(x)
    BY DEF L!ReadRequest, L!IsWrite
  <2>3. call' # None
    <3>1. call.left \in Nat /\ call \in L!Call
      BY <2>1, CallIs DEF L!Call
    <3>2. call' \in L!Call
      BY <2>1, <3>1, SessionAssumption DEF L!Call
    <3> QED
      BY <3>2, SessionAssumption
  <2> HIDE DEF x
  <2>4. /\ Good(register, requests', own, W) /\ Later(requests', own, W)
        /\ Stale(register, requests', replies, own) /\ Answer(register, requests', replies, own)
    BY <1>0, <1>t, <2>1, <2>2, OneMoreRead
  <2> QED
    BY <2>1, <2>3, <2>4 DEF OnLink, own, W, Settled
<1>3. CASE GiveUp
  <2>1. requests' = requests /\ register' = register /\ replies' = replies /\ outcome'.status = "timeout"
    BY <1>3 DEF GiveUp, L!GiveUp, L!Finish
  <2> QED
    BY <1>0, <2>1 DEF OnLink, own, W, Settled
<1>4. CASE Reopen
  <2>1. /\ requests' = requests /\ register' = register /\ call' = call /\ outcome' = outcome
        /\ \E n \in 1 .. Len(replies) : replies' = SubSeq(replies, n + 1, Len(replies))
    BY <1>4 DEF Reopen, L!Reopen
  <2>2. PICK n \in 1 .. Len(replies) : replies' = SubSeq(replies, n + 1, Len(replies))
    BY <2>1
  <2>3. /\ Len(replies') = Len(replies) - n /\ Len(replies') \in Nat
        /\ \A j \in 1 .. Len(replies') : replies'[j] = replies[j + n]
    BY <1>t, <2>2
  <2>4. Embeds([j \in 1 .. Len(replies') |-> j + n], replies', replies)
    BY <1>t, <2>3 DEF Embeds
  <2>5. /\ Stale(register, requests, replies', own) /\ Answer(register, requests, replies', own)
        /\ Verified(register, requests, replies, own) => Verified(register, requests, replies', own)
    BY <1>0, <1>t, <2>3, <2>4, FewerReplies
  <2> QED
    BY <1>0, <2>1, <2>5 DEF OnLink, own, W, Settled
<1>5. CASE FpgaWrite
  <2>1. L!FpgaWrite /\ requests # <<>> /\ L!IsWrite(Head(requests)) /\ requests' = Tail(requests)
        /\ replies' = replies /\ call' = call /\ outcome' = outcome
    BY <1>5 DEF FpgaWrite, L!FpgaWrite
  <2>2. register' = [register EXCEPT ![Head(requests).address] = Kept(Head(requests).address, Head(requests).value)]
    BY <1>t, <2>1 DEF L!FpgaWrite
  <2>3. /\ Good(register', requests', own, W) /\ Later(requests', own, W)
        /\ Stale(register', requests', replies, own) /\ Answer(register', requests', replies, own)
        /\ Verified(register, requests, replies, own) => Verified(register', requests', replies, own)
    BY <1>0, <1>t, <2>1, <2>2, WriteTaken
  <2> QED
    BY <1>0, <2>1, <2>3 DEF OnLink, own, W, Settled
<1>6. CASE FpgaRead
  <2> DEFINE a == Head(requests).address
             x == [address |-> a, value |-> register[a]]
  <2>1. /\ requests # <<>> /\ L!IsRead(Head(requests)) /\ requests' = Tail(requests)
        /\ replies' = Append(replies, x)
        /\ register' = register /\ call' = call /\ outcome' = outcome
    BY <1>6 DEF FpgaRead, L!FpgaRead
  <2>2. x \in L!Reply /\ x.address = Head(requests).address /\ x.value = register[Head(requests).address]
    BY <1>t, <2>1 DEF L!Reply
  <2> HIDE DEF x
  <2>3. /\ Good(register, requests', own, W) /\ Later(requests', own, W)
        /\ Stale(register, requests', replies', own) /\ Answer(register, requests', replies', own)
        /\ Verified(register, requests, replies, own) => Verified(register, requests', replies', own)
    BY <1>0, <1>t, <1>w, <2>1, <2>2, ReadTaken
  <2> QED
    BY <1>0, <2>1, <2>3 DEF OnLink, own, W, Settled
<1>7. ASSUME NEW f, Embeds(f, requests', requests), Len(requests') \in Nat,
             register' = register, replies' = replies, call' = call, outcome' = outcome
      PROVE  OnLink(register', requests', replies', own, W, Settled')
  <2>1. /\ Good(register, requests', own, W) /\ Later(requests', own, W)
        /\ Stale(register, requests', replies, own) /\ Answer(register, requests', replies, own)
        /\ Verified(register, requests, replies, own) => Verified(register, requests', replies, own)
    BY <1>0, <1>t, <1>7, FewerRequests
  <2> QED
    BY <1>0, <1>7, <2>1 DEF OnLink, Settled
<1>8. CASE FpgaReadBusy
  <2>1. /\ requests # <<>> /\ requests' = Tail(requests)
        /\ register' = register /\ replies' = replies /\ call' = call /\ outcome' = outcome
    BY <1>8 DEF FpgaReadBusy, L!FpgaReadBusy
  <2>2. PICK f : Embeds(f, requests', requests)
    BY <1>t, <2>1, TailEmbeds
  <2>3. Len(requests') \in Nat
    BY <1>t, <2>1
  <2> QED
    BY <1>7, <2>1, <2>2, <2>3 DEF own, W
<1>9. CASE LoseRequest
  <2>1. /\ register' = register /\ replies' = replies /\ call' = call /\ outcome' = outcome
        /\ \E i \in 1 .. Len(requests) : requests' = L!Without(requests, i)
    BY <1>9 DEF LoseRequest, L!LoseRequest
  <2>2. PICK i \in 1 .. Len(requests) : requests' = L!Without(requests, i)
    BY <2>1
  <2>3. PICK f : Embeds(f, requests', requests)
    BY <1>t, <2>2, WithoutEmbeds
  <2>4. Len(requests') \in Nat
    BY LinkTypedStep, LinkTypes, <1>9
  <2> QED
    BY <1>7, <2>1, <2>3, <2>4 DEF own, W
<1> QED
  BY <1>1, <1>2, <1>3, <1>4, <1>5, <1>6, <1>8, <1>9

\* When a command begins, no answer to an earlier one is outstanding.
LEMMA NothingSent ==
    ASSUME L!Drained, NEW R, NEW W, DOMAIN W = {}, NEW settled
    PROVE  OnLink(R, requests, replies, {}, W, settled)
<1>1. /\ \A i \in 1 .. Len(requests) : ~L!IsRead(requests[i])
      /\ \A i \in 1 .. Len(replies) : FALSE
  BY DEF L!Drained
<1> QED
  BY <1>1 DEF OnLink, Good, Later, Stale, Answer, Verified

\* What is asked of the registers before the n-th step of the command that runs.
LEMMA AskedIs ==
    ASSUME active, NEW s, s = StepsOf[Command], Len(s) \in Nat, NEW n \in Nat, Len(todo) = Len(s) - n
    PROVE  Asked = Asks(s, n)
BY DEF Asked, TheCommand

\* A command that fails is not on track.
LEMMA FailureEndsTrack == ASSUME ~active', LastExit' # 0 PROVE ~OnTrack'
BY DEF OnTrack

\* A command that begins has sent nothing.
LEMMA LaunchKeepsLink == ASSUME LP!TypeOK, ProcessInv, Launch, OnTrack'
                         PROVE OnLink(register', requests', replies', Own', Asked', Settled')
<1>0. /\ UNCHANGED linkVars /\ waiting' = waiting /\ ~active /\ ~waiting
      /\ fresh' = L!Drained /\ script # <<>>
  BY DEF Launch, ProcessInv
<1>1. CASE Leave(20) \/ Leave(2)
  <2>1. PICK code \in {20, 2} : Leave(code)
    BY <1>1
  <2>2. ~active' /\ LastExit' = code
    <3>1. code \in Nat /\ code # 0
      BY <2>1
    <3> QED
      BY <1>0, <2>1, <3>1, LeaveKeepsProcess
  <2> QED
    BY <2>1, <2>2, FailureEndsTrack
<1>2. CASE ~(Leave(20) \/ Leave(2))
  <2>1. /\ Command \in AcceptedCommand /\ active' = TRUE /\ todo' = StepsOf[Command] /\ script' = script
    BY <1>2 DEF Launch
  <2>2. L!Drained
    BY <1>0 DEF OnTrack
  <2>3. Command' = Command /\ TheCommand' = Command
    BY <2>1 DEF TheCommand, Command
  <2>4. Own' = {}
    BY <1>0 DEF Own
  <2>5. Command \in Given /\ Tracked(Command)
    BY <2>1, <2>3 DEF AcceptedCommand, OnTrack
  <2>6. Len(StepsOf[Command]) \in Nat
    BY <2>5, TrackedSteps
  <2>7. StepsOf' = StepsOf
    OBVIOUS
  <2>8. Asked' = Asks(StepsOf[Command], 0)
    BY <2>1, <2>3, <2>6 DEF Asked
  <2>9. DOMAIN Asks(StepsOf[Command], 0) = {}
    BY DEF Asks, WrittenBy
  <2>10. requests' = requests /\ replies' = replies
    BY <1>0 DEF linkVars
  <2> QED
    BY <2>2, <2>4, <2>8, <2>9, <2>10, NothingSent
<1> QED
  BY <1>1, <1>2

\* The write of the next step goes behind all that is on its way.
LEMMA IssueKeepsLink ==
    ASSUME LP!TypeOK, ProcessInv, AllFixed(register), HostInv, Issue, OnTrack'
    PROVE  OnLink(register', requests', replies', Own', Asked', Settled')
<1> DEFINE step == Head(todo)
           a == TargetOf(step)
<1>0. active /\ ~waiting /\ todo # <<>> /\ UNCHANGED <<ok, current, fresh>>
  BY DEF Issue
<1>1. CASE Leave(12) \/ Leave(2)
  <2>1. PICK code \in {12, 2} : Leave(code)
    BY <1>1
  <2>2. ~active' /\ LastExit' = code
    <3>1. code \in Nat /\ code # 0 /\ script # <<>>
      BY <1>0, <2>1 DEF ProcessInv
    <3> QED
      BY <2>1, <3>1, LeaveKeepsProcess
  <2> QED
    BY <2>1, <2>2, FailureEndsTrack
<1>2. CASE ~(Leave(12) \/ Leave(2))
  <2>1. script' = script /\ active'
    BY <1>0, <1>2 DEF Issue
  <2>2. TheCommand = Command /\ TheCommand' = Command /\ Command' = Command
    BY <1>0, <2>1 DEF TheCommand, Command
  <2>3. OnTrack /\ Tracked(Command)
    BY <1>0, <2>1, <2>2 DEF OnTrack
  <2> DEFINE s == StepsOf[Command]
  <2>4. PICK n \in 0 .. Len(s) :
          /\ Len(s) \in Nat
          /\ Len(todo) = Len(s) - n
          /\ Head(todo) = s[n + 1]
          /\ StepOfTracked(Head(todo))
          /\ Len(Tail(todo)) = Len(s) - (n + 1)
    BY <1>0, <2>3, TodoIs
  <2>n. n \in Nat /\ s[n + 1] = step /\ Len(s) - (Len(s) - (n + 1)) = n + 1
    <3>1. \A l, k \in Nat : l - (l - (k + 1)) = k + 1
      OBVIOUS
    <3>2. n \in Nat
      BY <2>4
    <3> HIDE DEF s
    <3> QED
      BY <2>4, <3>1, <3>2
  <2>5. Asked = Asks(s, n)
    BY <1>0, <2>4, <2>n, AskedIs
  <2>6. Own = {}
    BY <1>0 DEF Own
  <2>7. /\ Good(register, requests, {}, Asked) /\ Later(requests, {}, Asked)
        /\ Stale(register, requests, replies, {}) /\ Answer(register, requests, replies, {})
        /\ Settled => Verified(register, requests, replies, {})
    BY <2>3, <2>6 DEF HostInv, OnLink
  <2>t. requests \in Seq(L!Request)
    BY LinkTypes
  <2>8. CASE todo' = todo /\ step.do \in {"control", "read"} /\ L!Read(a) /\ waiting'
    <3> DEFINE x == L!ReadRequest(a)
    <3>1. Asked' = Asked
      BY <2>2, <2>8, <1>0, <2>1 DEF Asked
    <3>2. Own' = {}
      BY <2>8 DEF Own, WriteSteps
    <3>3. /\ requests' = Append(requests, x) /\ register' = register /\ replies' = replies
          /\ ~L!IsWrite(x)
      BY <2>8 DEF L!Read, L!Begin, L!ReadRequest, L!IsWrite
    <3>n. call' # None
      <4>1. call' = [op |-> "read", address |-> a, value |-> None, left |-> Retries] /\ a \in RegisterAddress
        BY <2>8 DEF L!Read, L!Begin
      <4>2. call' \in L!Call
        BY <4>1, SessionAssumption DEF L!Call, L!Op
      <4> QED
        BY <4>2, SessionAssumption
    <3> HIDE DEF x
    <3>4. /\ Good(register, requests', {}, Asked) /\ Later(requests', {}, Asked)
          /\ Stale(register, requests', replies, {}) /\ Answer(register, requests', replies, {})
      BY <2>7, <2>t, <3>3, OneMoreRead
    <3> QED
      BY <3>1, <3>2, <3>3, <3>4, <3>n DEF OnLink, Settled
  <2>9. CASE todo' = todo /\ step.do \in WriteSteps /\ L!WriteChecked(a, Written(step)) /\ waiting'
             /\ Fits(Written(step), 32)
    <3> DEFINE x == L!WriteRequest(a, Written(step))
               y == L!ReadRequest(a)
    <3>1. Asked' = Asked
      BY <2>2, <2>9, <1>0, <2>1 DEF Asked
    <3>2. Own' = {Pair(x)}
      <4>1. TargetOf(step)' = a /\ Written(step)' = Written(step)
        BY <1>0, <2>9 DEF TargetOf, Written, WrittenAfter
      <4>2. Own' = {[address |-> a, value |-> Written(step)]}
        BY <2>1, <2>9, <4>1 DEF Own
      <4> QED
        BY <4>2 DEF Pair, L!WriteRequest
    <3>3. /\ requests' = requests \o <<x, y>> /\ register' = register /\ replies' = replies
          /\ L!IsWrite(x) /\ ~L!IsWrite(y) /\ x.address = a /\ a \in RegisterAddress
      BY <2>9 DEF L!WriteChecked, L!Begin, L!ReadRequest, L!WriteRequest, L!IsWrite
    <3>w. Written(step) \in Word
      BY <2>9 DEF Fits, Word
    <3>4. x \in L!Request /\ y \in L!Request
      BY <3>3, <3>w DEF L!Request, L!WriteRequest, L!ReadRequest
    <3>n. call' # None
      <4>1. call' = [op |-> "write_checked", address |-> a, value |-> Written(step), left |-> Retries]
        BY <2>9 DEF L!WriteChecked, L!Begin
      <4>2. call' \in L!Call
        BY <3>3, <3>w, <4>1, SessionAssumption DEF L!Call, L!Op
      <4> QED
        BY <4>2, SessionAssumption
    <3> HIDE DEF x, y
    <3>5. /\ Good(register, requests', {Pair(x)}, Asked) /\ Later(requests', {Pair(x)}, Asked)
          /\ Stale(register, requests', replies, {Pair(x)}) /\ Answer(register, requests', replies, {Pair(x)})
      BY <2>7, <2>t, <3>3, <3>4, WriteBegins
    <3> QED
      BY <3>1, <3>2, <3>3, <3>5, <3>n DEF OnLink, Settled
  <2>10. CASE step.do = "validate" /\ todo' = Tail(todo) /\ UNCHANGED <<linkVars, waiting>>
    <3>1. Asked' = Asks(s, n + 1)
      <4>1. Asked' = Asks(s, Len(s) - Len(Tail(todo)))
        BY <2>2, <2>10 DEF Asked
      <4> QED
        BY <2>4, <2>n, <4>1
    <3>2. Asked' = Asked
      <4>1. s[n + 1].do \notin WriteSteps
        BY <2>n, <2>10 DEF WriteSteps
      <4> QED
        BY <2>n, <2>5, <3>1, <4>1, AsksNothing
    <3>3. Own' = {}
      BY <1>0, <2>10 DEF Own
    <3>4. UNCHANGED <<register, requests, replies, call, outcome>>
      BY <2>10 DEF linkVars
    <3> QED
      BY <2>7, <3>2, <3>3, <3>4 DEF OnLink, Settled
  <2>11. step.do # "send"
    BY <2>4 DEF StepOfTracked
  <2> QED
    BY <1>2, <2>8, <2>9, <2>10, <2>11 DEF Issue, WriteSteps
<1> QED
  BY <1>1, <1>2

\* A write that is settled was verified, or the command ends with an error.
LEMMA SettleKeepsLink ==
    ASSUME LP!TypeOK, ProcessInv, AllFixed(register), HostInv, Settle, OnTrack'
    PROVE  OnLink(register', requests', replies', Own', Asked', Settled')
<1> DEFINE step == Head(todo)
           do == step.do
<1>0. /\ waiting /\ active /\ todo # <<>> /\ call = None /\ ~waiting'
      /\ UNCHANGED <<register, requests, replies, call, outcome, fresh>>
      /\ WaitingFor(Head(todo))
  BY DEF Settle, ProcessInv, linkVars
<1>1. CASE Leave(IF outcome.status = "timeout" THEN 10 ELSE 12)
  <2>1. PICK code \in {10, 12} : Leave(code)
    BY <1>1
  <2>2. ~active' /\ LastExit' = code
    <3>1. code \in Nat /\ code # 0 /\ script # <<>>
      BY <1>0, <2>1 DEF ProcessInv
    <3> QED
      BY <2>1, <3>1, LeaveKeepsProcess
  <2> QED
    BY <2>1, <2>2, FailureEndsTrack
<1>2. CASE ~Leave(IF outcome.status = "timeout" THEN 10 ELSE 12)
  <2>1. /\ script' = script /\ active' = active /\ todo' = Tail(todo) /\ (ok' => ok)
        /\ do # "control" => /\ outcome.status \notin {"timeout", "protocol_error"}
                             /\ ok' => outcome.status # "mismatch"
    <3>1. CASE do = "control" /\ UNCHANGED <<script, active, ok>> /\ todo' = Tail(todo)
      BY <3>1
    <3>2. CASE /\ outcome.status \notin {"timeout", "protocol_error"}
               /\ ok' = (ok /\ outcome.status # "mismatch")
               /\ UNCHANGED <<script, active>> /\ todo' = Tail(todo)
      BY <3>2
    <3> QED
      BY <1>2, <3>1, <3>2 DEF Settle
  <2>2. TheCommand = Command /\ TheCommand' = Command /\ Command' = Command
    BY <1>0, <2>1 DEF TheCommand, Command
  <2>3. OnTrack /\ Tracked(Command) /\ ok'
    <3>1. fresh' /\ (IF active' THEN ok' ELSE LastExit' = 0) /\ Tracked(TheCommand')
      BY DEF OnTrack
    <3> QED
      BY <1>0, <2>1, <2>2, <3>1 DEF OnTrack
  <2> DEFINE s == StepsOf[Command]
  <2>4. PICK n \in 0 .. Len(s) :
          /\ Len(s) \in Nat
          /\ Len(todo) = Len(s) - n
          /\ Head(todo) = s[n + 1]
          /\ StepOfTracked(Head(todo))
          /\ Len(Tail(todo)) = Len(s) - (n + 1)
    BY <1>0, <2>3, TodoIs
  <2>n. n \in Nat /\ s[n + 1] = step /\ Len(s) - (Len(s) - (n + 1)) = n + 1
    <3>1. \A l, k \in Nat : l - (l - (k + 1)) = k + 1
      OBVIOUS
    <3>2. n \in Nat
      BY <2>4
    <3> HIDE DEF s
    <3> QED
      BY <2>4, <3>1, <3>2
  <2>5. Asked = Asks(s, n)
    BY <1>0, <2>4, <2>n, AskedIs
  <2>6. Asked' = Asks(s, n + 1)
    <3>1. Asked' = Asks(s, Len(s) - Len(Tail(todo)))
      BY <2>1, <2>2 DEF Asked
    <3> QED
      BY <2>4, <2>n, <3>1
  <2>7. /\ Good(register, requests, Own, Asked) /\ Later(requests, Own, Asked)
        /\ Stale(register, requests, replies, Own) /\ Answer(register, requests, replies, Own)
        /\ Settled => Verified(register, requests, replies, Own)
    BY <2>3 DEF HostInv, OnLink
  <2>8. Own' = {}
    BY <1>0 DEF Own
  <2>9. /\ Answer(register, requests, replies, {}) /\ Verified(register, requests, replies, {})
    BY DEF Answer, Verified
  <2>10. CASE do = "control"
    <3>1. Asked' = Asked
      <4>1. s[n + 1].do \notin WriteSteps
        BY <2>n, <2>10 DEF WriteSteps
      <4> QED
        BY <2>n, <2>5, <2>6, <4>1, AsksNothing
    <3>2. Own = {}
      BY <2>10 DEF Own, WriteSteps
    <3> QED
      BY <1>0, <2>7, <2>8, <2>9, <3>1, <3>2 DEF OnLink
  <2>11. CASE do \in WriteSteps
    <3> DEFINE w == [address |-> TargetOf(step), value |-> Written(step)]
    <3>1. Own = {w}
      BY <1>0, <2>11 DEF Own
    <3>2. TargetOf(step) \in RegisterAddress /\ Written(step) \in Word
      BY <1>0, <2>11 DEF WaitingFor, WriteSteps
    <3>3. Settled
      <4>1. do # "control"
        BY <2>11 DEF WriteSteps
      <4>2. outcome.status \in {"verified", "mismatch", "timeout", "protocol_error"}
        BY <1>0, <2>11 DEF WaitingFor, WriteSteps
      <4> QED
        BY <1>0, <2>1, <2>3, <4>1, <4>2 DEF Settled
    <3>4. Says(step, Written(step))
      <4>1. CASE do = "write"
        BY <4>1 DEF Says, Written, WrittenAfter
      <4>2. CASE do = "state"
        <5>1. step.bits \in {{}, {0}}
          BY <2>4, <4>2 DEF StepOfTracked, One
        <5>2. step.bits \subseteq 0 .. 3
          BY <5>1
        <5>3. Written(step) = (current[step.n] \ 0 .. 3) \cup step.bits
          BY <4>2 DEF Written, WrittenAfter
        <5> QED
          BY <4>2, <5>2, <5>3 DEF Says
      <4> QED
        BY <2>11, <4>1, <4>2 DEF WriteSteps
    <3>5. /\ DOMAIN Asks(s, n + 1) = DOMAIN Asks(s, n) \cup {TargetOf(step)}
          /\ \A b \in DOMAIN Asks(s, n) : b # TargetOf(step) => Asks(s, n + 1)[b] = Asks(s, n)[b]
          /\ Written(step) \in Asks(s, n + 1)[TargetOf(step)]
      <4>1. n \in Nat /\ s[n + 1] = step
        BY <2>4
      <4> QED
        BY <2>11, <3>2, <3>4, <4>1, AsksOneMore
    <3>6. /\ DOMAIN Asked' = DOMAIN Asked \cup {w.address}
          /\ \A b \in DOMAIN Asked : b # w.address => Asked'[b] = Asked[b]
          /\ w.value \in Asked'[w.address]
      BY <2>5, <2>6, <3>5
    <3> DEFINE W == Asked
               W1 == Asked'
    <3> HIDE DEF w, W, W1
    <3>7. /\ Good(register, requests, {w}, W) /\ Later(requests, {w}, W)
          /\ Stale(register, requests, replies, {w}) /\ Verified(register, requests, replies, {w})
      BY <2>7, <3>1, <3>3 DEF W
    <3>8. Good(register, requests, {}, W1) /\ Later(requests, {}, W1) /\ Stale(register, requests, replies, {})
      <4>1. /\ DOMAIN W1 = DOMAIN W \cup {w.address}
            /\ \A b \in DOMAIN W : b # w.address => W1[b] = W[b]
            /\ w.value \in W1[w.address]
        BY <3>6 DEF W, W1
      <4> QED
        BY <3>7, <4>1, WriteSettles
    <3> QED
      BY <1>0, <2>8, <2>9, <3>8 DEF OnLink, W1
  <2>12. do = "control" \/ do \in WriteSteps
    BY <1>0, <2>4 DEF WaitingFor, StepOfTracked, WriteSteps
  <2> QED
    BY <2>10, <2>11, <2>12
<1> QED
  BY <1>1, <1>2

\* The end of a command leaves the link alone.
LEMMA ExitKeepsLink ==
    ASSUME LP!TypeOK, ProcessInv, HostInv, Exit, OnTrack'
    PROVE  OnLink(register', requests', replies', Own', Asked', Settled')
<1> DEFINE code == ResultExitCode(Command, ok)
<1>0. /\ active /\ ~waiting /\ todo = <<>> /\ Leave(code)
      /\ UNCHANGED <<register, requests, replies, call, outcome, fresh, waiting>>
      /\ script # <<>> /\ Command \in AcceptedCommand /\ Safe(Command)
  BY DEF Exit, ProcessInv, linkVars
<1>1. code \in Nat /\ (code = 0 => ok \/ Command.kind = "profile")
  BY DEF ResultExitCode
<1>2. ~active' /\ todo' = <<>> /\ LastExit' = code /\ LastCommand' = Command
  <2> HIDE DEF code
  <2> QED
    BY <1>0, <1>1, LeaveKeepsProcess
<1>3. TheCommand = Command /\ TheCommand' = Command
  BY <1>0, <1>2 DEF TheCommand
<1>4. code = 0 /\ Tracked(Command)
  BY <1>2, <1>3 DEF OnTrack
<1>5. ok
  BY <1>1, <1>4 DEF Tracked, PlanKinds
<1>6. OnTrack
  BY <1>0, <1>3, <1>4, <1>5 DEF OnTrack
<1>7. Own = {} /\ Own' = {}
  BY <1>0 DEF Own
<1>8. Asked' = Asked
  BY <1>0, <1>2, <1>3 DEF Asked
<1> QED
  BY <1>0, <1>6, <1>7, <1>8 DEF HostInv, OnLink, Settled

\* Every step keeps what is on the way of a command as it should be, ...
LEMMA HostStep ==
    ASSUME LP!TypeOK, ProcessInv, AllFixed(register), HostInv, [Next]_vars
    PROVE  HostInv'
<1> SUFFICES ASSUME OnTrack' PROVE OnLink(register', requests', replies', Own', Asked', Settled')
  BY DEF HostInv
<1>1. CASE Receive \/ Retry \/ GiveUp \/ Reopen \/ FpgaWrite \/ FpgaRead \/ FpgaReadBusy \/ LoseRequest
  <2>1. UNCHANGED processVars
    BY <1>1 DEF Receive, Retry, GiveUp, Reopen, FpgaWrite, FpgaRead, FpgaReadBusy, LoseRequest
  <2> QED
    BY <1>1, <2>1, SameCommand, HostLinkStep
<1>2. CASE CaptureEnds \/ CaptureRestarts \/ RunAudit \/ Over \/ UNCHANGED vars
  <2>1. UNCHANGED processVars /\ UNCHANGED linkVars
    BY <1>2 DEF CaptureEnds, CaptureRestarts, RunAudit, Over, vars
  <2>2. OnTrack' = OnTrack /\ Own' = Own /\ Asked' = Asked
    BY <2>1, SameCommand
  <2>3. UNCHANGED <<register, requests, replies, call, outcome>>
    BY <2>1 DEF linkVars
  <2> QED
    BY <2>2, <2>3 DEF HostInv, OnLink, Settled
<1>3. CASE Launch
  BY <1>3, LaunchKeepsLink
<1>4. CASE Issue
  BY <1>4, IssueKeepsLink
<1>5. CASE Settle
  BY <1>5, SettleKeepsLink
<1>6. CASE Exit
  BY <1>6, ExitKeepsLink
<1> QED
  BY <1>1, <1>2, <1>3, <1>4, <1>5, <1>6 DEF Next

\* ... and nothing is on its way at the start.
LEMMA HostInit == Init => HostInv
BY DEF Init, HostInv, OnTrack

(***************************************************************************)
(* What has been shown of the link, of a command that ended with 0.        *)
(***************************************************************************)
HostIInv == LP!TypeOK /\ ProcessInv /\ AllFixed(register) /\ HostInv

\* Every register it wrote is as its last write said.
Obeyed(cmd) ==
    LET s == StepsOf[cmd]
        N == Len(s)
    IN  \A b \in RegisterAddress :
            (\E i \in 1 .. N : WritesTo(s[i], b)) =>
                /\ register[b] \in Word
                /\ Kept(b, register[b]) = register[b]
                /\ \E j \in 1 .. N : LastWrite(s, N, j, b) /\ Says(s[j], register[b])

\* A command that ended with 0 has had all its writes answered, so each register holds
\* what the last write to it says.
LEMMA SuccessIsObeyed ==
    ASSUME HostIInv, Succeeded
    PROVE  /\ LastCommand \in AcceptedCommand /\ LastCommand \in Given /\ Tracked(LastCommand)
           /\ Obeyed(LastCommand)
<1> DEFINE cmd == LastCommand
           s == StepsOf[cmd]
           N == Len(s)
<1>1. /\ ~active /\ exits # <<>> /\ fresh /\ LastExit = 0 /\ todo = <<>> /\ requests = <<>>
      /\ cmd \in AcceptedCommand
  BY DEF HostIInv, ProcessInv, Succeeded, Ended
<1>2. Tracked(cmd)
  BY DEF Succeeded, Tracked
<1>3. cmd \in Given
  BY <1>1 DEF AcceptedCommand
<1>4. TheCommand = cmd /\ OnTrack
  BY <1>1, <1>2 DEF OnTrack, TheCommand
<1>5. Own = {}
  BY <1>1 DEF Own
<1>6. N \in Nat
  BY <1>2, <1>3, TrackedSteps
<1>7. Asked = Asks(s, N)
  BY <1>1, <1>4, <1>6 DEF Asked
<1>8. Good(register, requests, {}, Asks(s, N))
  BY <1>4, <1>5, <1>7 DEF HostIInv, HostInv, OnLink
<1>9. \A b \in WrittenBy(s, N) : register[b] \in Asks(s, N)[b]
  BY <1>8 DEF Good, Busy, Asks
<1>10. register \in [RegisterAddress -> Word]
  BY LinkTypes DEF HostIInv
<1>11. ASSUME NEW b \in RegisterAddress, \E i \in 1 .. N : WritesTo(s[i], b)
       PROVE  /\ register[b] \in Word
              /\ Kept(b, register[b]) = register[b]
              /\ \E j \in 1 .. N : LastWrite(s, N, j, b) /\ Says(s[j], register[b])
  <2>1. b \in WrittenBy(s, N)
    BY <1>11 DEF WrittenBy
  <2>2. register[b] \in Asks(s, N)[b]
    BY <1>9, <2>1
  <2>3. Asks(s, N)[b] = {v \in Word : \E j \in 1 .. N : LastWrite(s, N, j, b) /\ Says(s[j], v)}
    BY <2>1 DEF Asks
  <2> QED
    BY <1>10, <2>2, <2>3 DEF HostIInv, AllFixed
<1> QED
  BY <1>1, <1>2, <1>3, <1>11 DEF Obeyed

\* No command both writes 0x0009 and puts another scan state into what it read of it.
LEMMA WritesDoNotMix ==
    ASSUME NEW cmd \in Given, Tracked(cmd)
    PROVE  LET s == StepsOf[cmd]
           IN  \A i, j \in 1 .. Len(s) : s[i].do = "write" /\ s[j].do = "state" => s[i].address # "0x0009"
<1> DEFINE s == StepsOf[cmd]
<1> SUFFICES ASSUME NEW i \in 1 .. Len(s), NEW j \in 1 .. Len(s), s[i].do = "write", s[j].do = "state"
             PROVE  s[i].address # "0x0009"
  OBVIOUS
<1>1. CASE cmd.kind \in PlanKinds
  <2>1. PICK g \in Nat : StepsLaid(cmd, s, g)
    BY <1>1, PlanSteps, StepsOfKind
  <2>2. s[j].do = "write"
    BY <2>1, PlanStepsAreWrites
  <2> QED
    BY <2>2
<1>2. CASE cmd.kind = "dl5"
  <2>1. s = Dl5Reads(cmd) \o Dl5Writes(cmd)
    BY <1>2, StepsOfKind
  <2>2. \A n \in 1 .. Len(s) :
          \/ s[n].do \in {"control", "validate"}
          \/ s[n] \in ModeStep(ConfigOf(cmd), "laser")
          \/ s[n].do = "state" /\ s[n].bits = {} /\ Stops(cmd)
          \/ s[n].do = "state" /\ s[n].bits = One /\ Starts(cmd) /\ n = Len(s)
    BY <2>1, Dl5Steps
  <2>3. s[i] \in ModeStep(ConfigOf(cmd), "laser")
    <3> HIDE DEF s
    <3> QED
      BY <2>2
  <2>4. \A x \in ModeStep(ConfigOf(cmd), "laser") : x.address # "0x0009"
    BY DEF ModeStep, Write, LaserAddress
  <2> QED
    BY <2>3, <2>4
<1>3. CASE cmd.kind \in {"start", "stop"}
  <2>1. PICK b \in {{}, One} : s = <<ReadControl>> \o <<WriteState(1, b)>>
    BY <1>3, StepsOfKind
  <2>2. Len(s) = 2 /\ s[1] = ReadControl /\ s[2] = WriteState(1, b)
    BY <2>1
  <2>3. i = 1 \/ i = 2
    BY <2>2
  <2> HIDE DEF s
  <2> QED
    BY <2>2, <2>3 DEF ReadControl, WriteState
<1>4. CASE cmd.kind = "write-checked"
  <2>1. s = <<Write(cmd.address, cmd.value)>>
    BY <1>4, StepsOfKind
  <2>2. s[j] = Write(cmd.address, cmd.value)
    BY <2>1
  <2> QED
    BY <2>2 DEF Write
<1> QED
  BY <1>1, <1>2, <1>3, <1>4 DEF Tracked

\* A register that is wanted to have a value has it.
LEMMA WantedIsThere ==
    ASSUME NEW cmd \in Given, Tracked(cmd), Obeyed(cmd), NEW w \in Wanted(cmd)
    PROVE  LET s == StepsOf[cmd]
           IN  /\ register[w[1]] = w[2] /\ w[2] \in Word /\ Kept(w[1], w[2]) = w[2]
               /\ \E i \in 1 .. Len(s) :
                    s[i].do = "write" /\ w = <<s[i].address, s[i].value>> /\ w[1] \in RegisterAddress
<1> DEFINE s == StepsOf[cmd]
           N == Len(s)
           writes == {i \in 1 .. N : s[i].do \in {"write", "send"}}
<1>1. PICK i \in writes :
        /\ \A m \in writes : m > i => s[m].address # s[i].address
        /\ w = <<s[i].address, s[i].value>>
  BY DEF Wanted, LastWrites
<1>2. N \in Nat /\ \A k \in 1 .. N : StepOfTracked(s[k])
  BY TrackedSteps
<1>3. i \in 1 .. N /\ s[i].do = "write" /\ s[i].address \in RegisterAddress
  <2>1. i \in 1 .. N /\ s[i].do \in {"write", "send"}
    BY <1>1
  <2> QED
    BY <1>2, <2>1 DEF StepOfTracked
<1> DEFINE b == s[i].address
<1>4. WritesTo(s[i], b)
  BY <1>3 DEF WritesTo, WriteSteps, TargetOf
<1>5. register[b] \in Word /\ Kept(b, register[b]) = register[b]
      /\ \E j \in 1 .. N : LastWrite(s, N, j, b) /\ Says(s[j], register[b])
  BY <1>3, <1>4 DEF Obeyed
<1>6. PICK j \in 1 .. N : LastWrite(s, N, j, b) /\ Says(s[j], register[b])
  BY <1>5
<1>7. s[j].do = "write"
  <2>1. s[j].do \in {"write", "state"} /\ TargetOf(s[j]) = b
    BY <1>6 DEF LastWrite, WritesTo, WriteSteps
  <2>2. s[j].do = "state" => b = "0x0009"
    BY <2>1 DEF TargetOf
  <2>3. s[j].do = "state" => b # "0x0009"
    BY <1>3, <1>6, WritesDoNotMix
  <2> QED
    BY <2>1, <2>2, <2>3
<1>8. s[j].address = b
  BY <1>6, <1>7 DEF LastWrite, WritesTo, TargetOf
<1>9. j = i
  <2>1. ~(j > i)
    BY <1>1, <1>6, <1>7, <1>8
  <2>2. ~(j < i)
    <3> SUFFICES ASSUME j < i PROVE FALSE
      OBVIOUS
    <3>1. i \in j + 1 .. N
      BY <1>2, <1>3, <1>6
    <3> QED
      BY <1>4, <1>6, <3>1 DEF LastWrite
  <2> QED
    BY <1>2, <1>3, <1>6, <2>1, <2>2
<1>10. register[b] = s[i].value
  BY <1>6, <1>7, <1>9 DEF Says
<1> QED
  BY <1>1, <1>3, <1>5, <1>10

\* The registers of its plan are as its configuration packs them.
LEMMA SuccessIsConfigured ==
    ASSUME HostIInv, Succeeded PROVE Configured(LastCommand)
<1> DEFINE cmd == LastCommand
<1>1. cmd \in AcceptedCommand /\ cmd \in Given /\ Tracked(cmd) /\ Obeyed(cmd)
  BY SuccessIsObeyed
<1>2. WantedOf[cmd] = Wanted(cmd)
  BY <1>1 DEF WantedOf
<1> HIDE DEF cmd
<1>3. \A w \in Wanted(cmd) : register[w[1]] = Kept(w[1], w[2])
  BY <1>1, WantedIsThere
<1> QED
  BY <1>2, <1>3 DEF Configured, cmd

\* The step that writes a register gives it the fields of the configuration.
LEMMA WrittenStepIsJoined ==
    ASSUME NEW cmd \in Given, cmd.kind \in PlanKinds, cmd \in AcceptedCommand,
           NEW s, NEW g \in Nat, StepsLaid(cmd, s, g), NEW i \in 1 .. Len(s),
           s[i].value \in Word,
           s[i].address # "0x020B", s[i].address = "0x0202" => cmd.kind = "ultrafast"
    PROVE  LET c == ConfigOf(cmd)
           IN  \E b \in {{}, One} :
                 /\ s[i].value = Joined(s[i].address, HostPart(c, b))
                 /\ PartsFit(s[i].address, HostPart(c, b))
                 /\ b = One /\ s[i].address = "0x0009" => Starts(cmd) /\ i = Len(s)
<1> DEFINE c == ConfigOf(cmd)
           m == Len(ScanRegisters(c))
           a == s[i].address
           v == s[i].value
<1>1. DOMAIN c = AllField
  BY DEF ConfigOf, AllField
<1>2. /\ ScanValid(c)
      /\ cmd.kind = "ultrafast" => UltrafastValid(c)
      /\ cmd.kind = "laser" => Dl5Valid(c)
  BY DEF AcceptedCommand, Accepted, PlanKinds, UltrafastValid
<1>3. /\ Len(s) \in Nat /\ m \in {11, 12}
      /\ \A j \in 1 .. g : s[j] \in EntryStep(c, cmd.kind)
      /\ \A j \in 1 .. m : s[g + j] = Write(ScanRegisters(c)[j], Packed(c, ScanRegisters(c)[j]))
      /\ s[g + m + 1] = StopStep(c)
      /\ \A j \in g + m + 2 .. Len(s) : s[j] \in ModeStep(c, cmd.kind) \/ (Starts(cmd) /\ j = Len(s))
      /\ Starts(cmd) => s[Len(s)] = StartStep(c)
  BY DEF StepsLaid
<1>w. \A x, y : Write(x, y).address = x /\ Write(x, y).value = y
  BY DEF Write
\* A scan register.
<1>4. ASSUME a \in ScanAddress, NEW b \in {{}, One}, v = Packed(c, a) \cup b,
             b = {} \/ a = "0x0009", a = "0x0000" => c.clk_sel # Omitted
      PROVE  v = Joined(a, HostPart(c, b)) /\ PartsFit(a, HostPart(c, b))
  <2>1. v = Joined(a, HostPart(c, b))
    BY <1>4, PackedIsJoined
  <2>2. a = "0x0002" => Fits(c.adc_sample, 32)
    <3> SUFFICES ASSUME a = "0x0002" PROVE Fits(c.adc_sample, 32)
      OBVIOUS
    <3>1. <<"0x0002", "adc_sample", 0>> \in HostLayout
      BY DEF HostLayout
    <3>2. Effective(c)["adc_sample"] = c.adc_sample
      <4>1. "adc_sample" \in DOMAIN c
        BY <1>1, AllFieldIs
      <4> QED
        BY <4>1 DEF Effective
    <3>3. Shl(c.adc_sample, 0) \subseteq v
      BY <1>4, <3>1, <3>2 DEF Packed
    <3>4. c.adc_sample \subseteq Nat
      BY SampleAssumption
    <3>5. \A x \in c.adc_sample : x \in v
      BY <3>3, <3>4 DEF Shl
    <3>a. v \in Word
      OBVIOUS
    <3>b. v \subseteq 0 .. 31
      BY <3>a DEF Word
    <3>6. c.adc_sample \subseteq 0 .. 31
      BY <3>5, <3>b
    <3>7. 0 .. 31 = 0 .. 32 - 1
      BY ONLY 31 = 32 - 1
    <3> QED
      BY <3>6, <3>7 DEF Fits
  <2>3. PartsFit(a, HostPart(c, b))
    BY <1>1, <1>2, <1>4, <2>2, ScanFits
  <2> QED
    BY <2>1, <2>3
<1>5. "0x0009" \in ScanAddress
  BY DEF ScanAddress
<1>s. StopStep(c).address = "0x0009" /\ StopStep(c).value = Packed(c, "0x0009") \cup {}
  BY <1>w DEF StopStep
<1>6. CASE i \in 1 .. g
  <2>1. s[i] = StopStep(c)
    BY <1>3, <1>6, <1>w DEF EntryStep
  <2>2. a = "0x0009" /\ v = Packed(c, a) \cup {}
    BY <1>s, <2>1
  <2> QED
    BY <1>4, <1>5, <2>2 DEF One
<1>7. CASE i \in g + 1 .. g + m
  <2>1. i - g \in 1 .. m /\ g + (i - g) = i
    BY <1>3, <1>7
  <2> DEFINE r == ScanRegisters(c)[i - g]
  <2>2. s[i] = Write(r, Packed(c, r))
    BY <1>3, <2>1
  <2>3. a = r /\ v = Packed(c, a) \cup {}
    BY <1>w, <2>2
  <2>4. r \in ScanAddress /\ r # "0x0009"
    BY <2>1, ScanRegistersType DEF m
  <2>5. r = "0x0000" => c.clk_sel # Omitted
    BY <2>1, ClockIsGiven DEF m
  <2> QED
    BY <1>4, <2>3, <2>4, <2>5 DEF One
<1>8. CASE i = g + m + 1
  <2>1. a = "0x0009" /\ v = Packed(c, a) \cup {}
    BY <1>3, <1>8, <1>s
  <2> QED
    BY <1>4, <1>5, <2>1 DEF One
<1>9. CASE i \in g + m + 2 .. Len(s) /\ s[i] \in ModeStep(c, cmd.kind)
  <2>1. CASE cmd.kind = "ultrafast"
    <3>1. a \in UltrafastAddress /\ a # "0x0009"
      BY <1>9, <1>w, <2>1 DEF ModeStep, UltrafastAddress
    <3>2. PICK b \in {{}, One} : v = Packed(c, a) \cup b /\ (b = {} \/ a = "0x0202")
      <4>1. (v = Packed(c, a) \cup {}) \/ (a = "0x0202" /\ v = Packed(c, a) \cup One)
        BY <1>9, <1>w, <2>1 DEF ModeStep
      <4> QED
        BY <4>1
    <3>3. v = Joined(a, HostPart(c, b))
      BY <3>2, PackedIsJoined
    <3>4. PartsFit(a, HostPart(c, b))
      BY <1>1, <1>2, <2>1, <3>1, UltrafastFits
    <3> QED
      BY <3>1, <3>3, <3>4
  <2>2. CASE cmd.kind = "laser"
    <3>1. a \in LaserAddress /\ a # "0x0009" /\ v = Packed(c, a) \cup {}
      BY <1>9, <1>w, <2>2 DEF ModeStep, LaserAddress
    <3>2. v = Joined(a, HostPart(c, {}))
      BY <3>1, PackedIsJoined
    <3>3. PartsFit(a, HostPart(c, {}))
      BY <1>1, <1>2, <2>2, <3>1, LaserFits
    <3> QED
      BY <3>1, <3>2, <3>3
  <2> QED
    BY <1>9, <2>1, <2>2 DEF ModeStep
<1>10. CASE Starts(cmd) /\ i = Len(s)
  <2>1. a = "0x0009" /\ v = Packed(c, a) \cup One
    BY <1>3, <1>10, <1>w DEF StartStep
  <2> QED
    BY <1>4, <1>5, <1>10, <2>1
<1>11. i \in 1 .. g \/ i \in g + 1 .. g + m \/ i = g + m + 1 \/ i \in g + m + 2 .. Len(s)
  BY <1>3
<1> QED
  BY <1>3, <1>6, <1>7, <1>8, <1>9, <1>10, <1>11

\* The fields of the FPGA are those of the configuration, ...
LEMMA SuccessReachesFields ==
    ASSUME HostIInv, Succeeded, LastCommand.kind \in PlanKinds PROVE FieldsReached(LastCommand)
<1> DEFINE cmd == LastCommand
           c == ConfigOf(cmd)
           s == StepsOf[cmd]
<1>1. cmd \in AcceptedCommand /\ cmd \in Given /\ Tracked(cmd) /\ Obeyed(cmd)
  BY SuccessIsObeyed
<1>2. WantedOf[cmd] = Wanted(cmd)
  BY <1>1 DEF WantedOf
<1>3. PICK g \in Nat : StepsLaid(cmd, s, g)
  BY <1>1, PlanSteps, StepsOfKind
<1>4. DOMAIN c = AllField
  BY DEF ConfigOf, AllField
<1>k. cmd.kind \in PlanKinds
  OBVIOUS
<1> HIDE DEF cmd
<1> SUFFICES ASSUME NEW t \in FieldsOfConfig(cmd)
             PROVE  FieldOf(t, register[t[1]])
                        = Effective(c)[t[2]] \ (IF t[2] = "ultrafast_line_rec" THEN {31} ELSE {})
  BY DEF FieldsReached, cmd
<1>5. /\ t \in RtlLayout /\ t[2] \notin {"scan_state", "ultrafast_mode", "laser_mode"}
      /\ t[1] = "0x0202" => cmd.kind = "ultrafast"
  BY DEF FieldsOfConfig
<1>6. PICK w \in Wanted(cmd) : w[1] = t[1]
  BY <1>2 DEF FieldsOfConfig
<1>7. /\ register[w[1]] = w[2] /\ w[2] \in Word
      /\ \E i \in 1 .. Len(s) : s[i].do = "write" /\ w = <<s[i].address, s[i].value>>
  BY <1>1, WantedIsThere
<1>8. PICK i \in 1 .. Len(s) : s[i].do = "write" /\ w = <<s[i].address, s[i].value>>
  BY <1>7
<1>9. s[i].address = t[1] /\ s[i].value = register[t[1]] /\ s[i].value \in Word
  BY <1>6, <1>7, <1>8
<1>10. t[1] # "0x020B"
  BY <1>5 DEF RtlLayout
<1>11. PICK b \in {{}, One} :
         /\ s[i].value = Joined(s[i].address, HostPart(c, b))
         /\ PartsFit(s[i].address, HostPart(c, b))
  BY <1>1, <1>3, <1>5, <1>9, <1>10, <1>k, WrittenStepIsJoined
<1>12. t \in FieldsOf(t[1])
  BY <1>5 DEF FieldsOf
<1>13. FieldOf(t, register[t[1]]) = HostPart(c, b)[t]
  BY <1>9, <1>11, <1>12, JoinedTakenApart DEF FieldOf
<1>14. CASE t[2] = "ultrafast_line_rec"
  <2>1. cmd.kind = "ultrafast"
    BY <1>5, <1>14, ModePlaces
  <2>2. UltrafastValid(c)
    BY <1>1, <2>1 DEF AcceptedCommand, Accepted
  <2>3. c[t[2]] \subseteq 0 .. 31
    <3>1. Fits(c["ultrafast_line_rec"], 32) /\ 32 - 1 = 31
      BY <2>2 DEF UltrafastValid
    <3> QED
      BY <1>14, <3>1 DEF Fits
  <2>4. t[2] \in DOMAIN c
    BY <1>4, <1>5, AllFieldIs
  <2>5. Effective(c)[t[2]] = c[t[2]]
    BY <1>14, <2>4 DEF Effective
  <2>6. HostPart(c, b)[t] = c[t[2]] \cap 0 .. 30
    BY <1>5, <1>14 DEF HostPart
  <2>7. \A x \in 0 .. 31 : x \in 0 .. 30 <=> x # 31
    OBVIOUS
  <2> QED
    BY <1>13, <1>14, <2>3, <2>5, <2>6, <2>7
<1>15. CASE t[2] # "ultrafast_line_rec"
  <2>1. HostPart(c, b)[t] = Effective(c)[t[2]]
    BY <1>5, <1>15 DEF HostPart
  <2> QED
    BY <1>13, <1>15, <2>1
<1> QED
  BY <1>14, <1>15

\* ... and the scan runs or not as the command asks.
LEMMA SuccessScansAsAsked ==
    ASSUME HostIInv, Succeeded, LastCommand.kind # "write-checked", Stops(LastCommand)
    PROVE  Scanning = AsksForScan(LastCommand)
<1> DEFINE cmd == LastCommand
           s == StepsOf[cmd]
           N == Len(s)
           C == "0x0009"
           v == register[C]
<1>0. cmd.kind # "write-checked" /\ Stops(cmd)
  OBVIOUS
<1>1. cmd \in AcceptedCommand /\ cmd \in Given /\ Tracked(cmd) /\ Obeyed(cmd)
  BY SuccessIsObeyed
<1>2. C \in RegisterAddress
  BY DEF RegisterAddress, RtlLayout
<1>3. N \in Nat
  BY <1>1, TrackedSteps
<1>a. ASSUME NEW k \in 1 .. N, WritesTo(s[k], C)
      PROVE  v \in Word /\ \E j \in 1 .. N : k <= j /\ LastWrite(s, N, j, C) /\ Says(s[j], v)
  <2>1. v \in Word /\ \E j \in 1 .. N : LastWrite(s, N, j, C) /\ Says(s[j], v)
    BY <1>1, <1>2, <1>a DEF Obeyed
  <2>2. PICK j \in 1 .. N : LastWrite(s, N, j, C) /\ Says(s[j], v)
    BY <2>1
  <2>3. ~(k > j)
    <3> SUFFICES ASSUME k > j PROVE FALSE
      OBVIOUS
    <3>1. k \in j + 1 .. N
      BY <1>3
    <3> QED
      BY <1>a, <2>2, <3>1 DEF LastWrite
  <2>4. k <= j
    BY <1>3, <2>3
  <2> QED
    BY <2>1, <2>2, <2>4
<1> HIDE DEF cmd
<1>4. CASE cmd.kind \in PlanKinds
  <2>1. PICK g \in Nat : StepsLaid(cmd, s, g)
    BY <1>1, <1>4, PlanSteps, StepsOfKind
  <2> DEFINE c == ConfigOf(cmd)
             m == Len(ScanRegisters(c))
  <2>2. /\ m \in {11, 12} /\ N >= g + m + 1
        /\ s[g + m + 1] = StopStep(c)
        /\ Starts(cmd) => s[N] = StartStep(c)
    BY <2>1 DEF StepsLaid
  <2>3. WritesTo(StopStep(c), C) /\ WritesTo(StartStep(c), C) /\ StartStep(c).do = "write"
        /\ StartStep(c).value = Packed(c, C) \cup One
    BY DEF WritesTo, WriteSteps, TargetOf, StopStep, StartStep, Write
  <2>4. g + m + 1 \in 1 .. N
    BY <1>3, <2>2
  <2>5. PICK j \in 1 .. N : g + m + 1 <= j /\ LastWrite(s, N, j, C) /\ Says(s[j], v)
    BY <1>a, <2>2, <2>3, <2>4
  <2>v. v \in Word
    BY <1>a, <2>2, <2>3, <2>4
  <2>6. CASE Starts(cmd)
    <3>1. N \in 1 .. N
      BY <1>3, <2>2, <2>4
    <3>2. PICK k \in 1 .. N : N <= k /\ LastWrite(s, N, k, C) /\ Says(s[k], v)
      BY <1>a, <2>2, <2>3, <2>6, <3>1
    <3>3. k = N
      BY <1>3, <3>2
    <3>4. v = Packed(c, C) \cup One
      BY <2>2, <2>3, <2>6, <3>2, <3>3 DEF Says
    <3> QED
      BY <2>6, <3>4 DEF Scanning, AsksForScan, One, cmd
  <2>7. CASE ~Starts(cmd)
    <3>1. s[j].do = "write" /\ s[j].address = C /\ s[j].value = v
      <4>1. s[j].do = "write"
        BY <2>1, PlanStepsAreWrites
      <4>2. TargetOf(s[j]) = C
        BY <2>5 DEF LastWrite, WritesTo
      <4> QED
        BY <2>5, <4>1, <4>2 DEF TargetOf, Says
    <3>2. PICK b \in {{}, One} :
            /\ v = Joined(C, HostPart(c, b)) /\ PartsFit(C, HostPart(c, b))
            /\ b = One => Starts(cmd)
      BY <1>1, <1>4, <2>1, <2>v, <3>1, WrittenStepIsJoined
    <3>3. b = {}
      BY <2>7, <3>2
    <3> DEFINE t == <<"0x0009", "scan_state", 0, 4>>
    <3>4. t \in RtlLayout /\ t[2] = "scan_state" /\ t[3] = 0 /\ t[4] = 4 /\ t[1] = C
      BY DEF RtlLayout
    <3> HIDE DEF t
    <3>5. t \in FieldsOf(C) /\ HostPart(c, b)[t] = {}
      BY <3>3, <3>4 DEF FieldsOf, HostPart
    <3>6. Slice(v, 0, 4) = {}
      BY <3>2, <3>4, <3>5, JoinedTakenApart
    <3>7. 0 \notin v
      BY <3>6 DEF Slice
    <3> QED
      BY <1>4, <2>7, <3>7 DEF Scanning, AsksForScan, PlanKinds, cmd
  <2> QED
    BY <2>6, <2>7
\* The commands that read the register first.
<1>b. ASSUME NEW k \in 1 .. N, s[k].do = "state",
             \A j \in 1 .. N : WritesTo(s[j], C) =>
                \/ s[j].do = "state" /\ s[j].bits = (IF AsksForScan(cmd) THEN One ELSE {})
                \/ k > j
      PROVE  Scanning = AsksForScan(cmd)
  <2>1. WritesTo(s[k], C)
    BY <1>b DEF WritesTo, WriteSteps, TargetOf
  <2>2. PICK j \in 1 .. N : k <= j /\ LastWrite(s, N, j, C) /\ Says(s[j], v)
    BY <1>a, <2>1
  <2>3. WritesTo(s[j], C) /\ ~(k > j)
    BY <1>3, <2>2 DEF LastWrite
  <2>4. v \cap 0 .. 3 = (IF AsksForScan(cmd) THEN One ELSE {})
    BY <1>b, <2>2, <2>3 DEF Says
  <2>5. 0 \in 0 .. 3
    OBVIOUS
  <2>6. AsksForScan(cmd) \in BOOLEAN
    BY DEF AsksForScan, Starts
  <2> QED
    BY <2>4, <2>5, <2>6 DEF Scanning, One
<1>5. CASE cmd.kind = "dl5"
  <2>1. s = Dl5Reads(cmd) \o Dl5Writes(cmd)
    BY <1>1, <1>5, StepsOfKind
  <2>2. /\ \A n \in 1 .. Len(s) :
             \/ s[n].do \in {"control", "validate"}
             \/ s[n] \in ModeStep(ConfigOf(cmd), "laser")
             \/ s[n].do = "state" /\ s[n].bits = {} /\ Stops(cmd)
             \/ s[n].do = "state" /\ s[n].bits = One /\ Starts(cmd) /\ n = Len(s)
        /\ Starts(cmd) => Len(s) >= 1 /\ s[Len(s)].do = "state" /\ s[Len(s)].bits = One
        /\ Stops(cmd) => \E n \in 1 .. Len(s) : s[n].do = "state"
    BY <2>1, Dl5Steps
  <2>3. \A x \in ModeStep(ConfigOf(cmd), "laser") : ~WritesTo(x, C)
    BY DEF ModeStep, Write, LaserAddress, WritesTo, TargetOf
  <2>5. AsksForScan(cmd) <=> Starts(cmd)
    BY <1>5 DEF AsksForScan
  <2>6. CASE Starts(cmd)
    <3>1. N \in 1 .. N /\ s[N].do = "state" /\ s[N].bits = One
      <4> HIDE DEF s
      <4>1. Len(s) >= 1 /\ s[Len(s)].do = "state" /\ s[Len(s)].bits = One
        BY <2>2, <2>6, Zenon
      <4> QED
        BY <1>3, <4>1
    <3>2. \A j \in 1 .. N : j = N \/ N > j
      BY <1>3
    <3>3. \A j \in 1 .. N : WritesTo(s[j], C) =>
             (s[j].do = "state" /\ s[j].bits = (IF AsksForScan(cmd) THEN One ELSE {})) \/ N > j
      BY <2>5, <2>6, <3>1, <3>2
    <3> QED
      BY <1>b, <3>1, <3>3 DEF cmd
  <2>7. CASE ~Starts(cmd)
    <3>1. PICK k \in 1 .. N : s[k].do = "state"
      BY <1>0, <2>2 DEF cmd
    <3>2. \A j \in 1 .. N : WritesTo(s[j], C) =>
             (s[j].do = "state" /\ s[j].bits = (IF AsksForScan(cmd) THEN One ELSE {})) \/ k > j
      <4> HIDE DEF s
      <4> SUFFICES ASSUME NEW j \in 1 .. N, WritesTo(s[j], C)
                   PROVE  s[j].do = "state" /\ s[j].bits = {} /\ ~AsksForScan(cmd)
        OBVIOUS
      <4>1. \/ s[j].do \in {"control", "validate"}
            \/ s[j] \in ModeStep(ConfigOf(cmd), "laser")
            \/ s[j].do = "state" /\ s[j].bits = {} /\ Stops(cmd)
            \/ s[j].do = "state" /\ s[j].bits = One /\ Starts(cmd) /\ j = Len(s)
        BY <2>2
      <4>2. s[j].do \notin {"control", "validate"}
        BY DEF WritesTo, WriteSteps
      <4>3. s[j] \notin ModeStep(ConfigOf(cmd), "laser")
        BY <2>3
      <4>4. ~AsksForScan(cmd)
        BY <2>5, <2>7
      <4> QED
        BY <2>7, <4>1, <4>2, <4>3, <4>4
    <3> QED
      BY <1>b, <3>1, <3>2 DEF cmd
  <2> QED
    BY <2>6, <2>7
<1>6. CASE cmd.kind \in {"start", "stop"}
  <2>1. s = <<ReadControl>> \o <<WriteState(1, IF cmd.kind = "start" THEN One ELSE {})>>
    BY <1>1, <1>6, StepsOfKind
  <2>2. ~Starts(cmd)
    BY <1>1, <1>6, SessionAssumption DEF Starts, Takes
  <2>3. AsksForScan(cmd) <=> cmd.kind = "start"
    BY <2>2 DEF AsksForScan
  <2> DEFINE y == WriteState(1, IF cmd.kind = "start" THEN One ELSE {})
  <2>4. N = 2 /\ s[1] = ReadControl /\ s[2] = y
    BY <2>1
  <2>5. y.do = "state" /\ y.bits = (IF AsksForScan(cmd) THEN One ELSE {})
    BY <2>3 DEF WriteState
  <2>6. ~WritesTo(ReadControl, C)
    BY DEF WritesTo, WriteSteps, ReadControl
  <2> HIDE DEF y, s
  <2>7. \A j \in 1 .. 2 : j = 1 \/ j = 2
    OBVIOUS
  <2>8. \A j \in 1 .. N : WritesTo(s[j], C) =>
           (s[j].do = "state" /\ s[j].bits = (IF AsksForScan(cmd) THEN One ELSE {})) \/ 2 > j
    BY <2>4, <2>5, <2>6, <2>7
  <2>9. 2 \in 1 .. N /\ s[2].do = "state"
    BY <2>4, <2>5
  <2> QED
    BY <1>b, <2>8, <2>9 DEF cmd, s
<1> QED
  BY <1>0, <1>1, <1>4, <1>5, <1>6 DEF Tracked, cmd

\* Of a command that exits with 0 on a link that was drained when it began, all
\* registers are as it was told to make them, whatever was lost, late or repeated since:
\* the answer that verified a write was read after it, or equals what the register was
\* anyway, and no write of an earlier command comes after.
THEOREM ExitZeroMeansConfiguredAlways == Spec => []ExitZeroMeansConfigured
<1>1. Init => HostIInv
  BY LinkTypedInit, ProcessInit, FixedInit, HostInit DEF HostIInv
<1>2. HostIInv /\ [Next]_vars => HostIInv'
  BY LinkTypedStep, ProcessStep, FixedStep, HostStep DEF HostIInv
<1>3. HostIInv => ExitZeroMeansConfigured
  BY SuccessIsConfigured, SuccessReachesFields, SuccessScansAsAsked DEF ExitZeroMeansConfigured
<1> QED
  BY <1>1, <1>2, <1>3, PTL DEF Spec

(***************************************************************************)
(* The DAC steps.  T are the registers whose write starts a division, I    *)
(* the registers it reads; same says that the result is of their values.   *)
(***************************************************************************)
WriteIn(q, j, S) == L!IsWrite(q[j]) /\ q[j].address \in S

Current(q, T, I, same) ==
    /\ \A j \in 1 .. Len(q) : WriteIn(q, j, I) => \E m \in j .. Len(q) : WriteIn(q, m, T)
    /\ (\A j \in 1 .. Len(q) : ~WriteIn(q, j, I)) => same

\* A result that is of the values the registers have is of any it shall be of.
LEMMA CurrentImplies ==
    ASSUME NEW q, NEW T, NEW I, NEW same, NEW same1, same => same1, Current(q, T, I, same)
    PROVE  Current(q, T, I, same1)
BY DEF Current

\* Reads make no difference, ...
LEMMA CurrentWithFewerReads ==
    ASSUME NEW q, NEW r, NEW f, Embeds(f, r, q), Len(q) \in Nat, Len(r) \in Nat,
           \A j \in 1 .. Len(q) : L!IsWrite(q[j]) => \E i \in 1 .. Len(r) : f[i] = j,
           NEW T, NEW I, NEW same, Current(q, T, I, same)
    PROVE  Current(r, T, I, same)
<1>0. /\ f \in [1 .. Len(r) -> 1 .. Len(q)]
      /\ \A j \in 1 .. Len(r) : r[j] = q[f[j]]
      /\ \A i, j \in 1 .. Len(r) : i < j => f[i] < f[j]
  BY DEF Embeds
<1>1. ASSUME NEW i \in 1 .. Len(r), WriteIn(r, i, I) PROVE \E k \in i .. Len(r) : WriteIn(r, k, T)
  <2>1. f[i] \in 1 .. Len(q) /\ WriteIn(q, f[i], I)
    BY <1>0, <1>1 DEF WriteIn
  <2>2. PICK m \in f[i] .. Len(q) : WriteIn(q, m, T)
    BY <2>1 DEF Current
  <2>3. m \in 1 .. Len(q) /\ m >= f[i]
    BY <2>1, <2>2
  <2>4. PICK k \in 1 .. Len(r) : f[k] = m
    BY <2>2, <2>3 DEF WriteIn
  <2>5. ~(k < i)
    <3> SUFFICES ASSUME k < i PROVE FALSE
      OBVIOUS
    <3>1. f[k] < f[i]
      BY <1>0
    <3> QED
      BY <2>1, <2>3, <2>4, <3>1
  <2>6. k \in i .. Len(r)
    BY <2>5
  <2>7. WriteIn(r, k, T)
    BY <1>0, <2>2, <2>4 DEF WriteIn
  <2> QED
    BY <2>6, <2>7
<1>2. ASSUME \A i \in 1 .. Len(r) : ~WriteIn(r, i, I) PROVE same
  <2>1. ASSUME NEW j \in 1 .. Len(q), WriteIn(q, j, I) PROVE FALSE
    <3>1. PICK i \in 1 .. Len(r) : f[i] = j
      BY <2>1 DEF WriteIn
    <3> QED
      BY <1>0, <1>2, <2>1, <3>1 DEF WriteIn
  <2> QED
    BY <2>1 DEF Current
<1> QED
  BY <1>1, <1>2 DEF Current

\* A read behind the others starts no division.
LEMMA CurrentWithOneMoreRead ==
    ASSUME NEW U, NEW q \in Seq(U), NEW x \in U, ~L!IsWrite(x),
           NEW T, NEW I, NEW same, Current(q, T, I, same)
    PROVE  Current(Append(q, x), T, I, same)
<1> DEFINE r == Append(q, x)
           n == Len(q)
<1>1. n \in Nat /\ Len(r) = n + 1 /\ r[n + 1] = x /\ \A j \in 1 .. n : r[j] = q[j]
  OBVIOUS
<1> HIDE DEF r
<1>2. \A j \in 1 .. Len(r) : j \in 1 .. n \/ j = n + 1
  BY <1>1
<1>3. ASSUME NEW j \in 1 .. Len(r), WriteIn(r, j, I) PROVE \E m \in j .. Len(r) : WriteIn(r, m, T)
  <2>1. j \in 1 .. n /\ WriteIn(q, j, I)
    BY <1>1, <1>2, <1>3 DEF WriteIn
  <2>2. PICK m \in j .. n : WriteIn(q, m, T)
    BY <2>1 DEF Current
  <2>3. m \in 1 .. n /\ m \in j .. Len(r)
    BY <1>1, <2>1
  <2> QED
    BY <1>1, <2>2, <2>3 DEF WriteIn
<1>4. ASSUME \A j \in 1 .. Len(r) : ~WriteIn(r, j, I) PROVE same
  <2>1. \A j \in 1 .. n : j \in 1 .. Len(r)
    BY <1>1
  <2> QED
    BY <1>1, <1>4, <2>1 DEF Current, WriteIn
<1>5. Current(r, T, I, same)
  BY <1>3, <1>4 DEF Current
<1> QED
  BY <1>5 DEF r

\* ... a write that starts the division, or that is of another register, may be sent, ...
LEMMA CurrentWithOneMoreWrite ==
    ASSUME NEW U, NEW q \in Seq(U), NEW x \in U, NEW T, NEW I, T \subseteq I, NEW same,
           L!IsWrite(x),
           x.address \in T \/ (x.address \notin I /\ Current(q, T, I, same))
    PROVE  Current(Append(q, x), T, I, same)
<1> DEFINE r == Append(q, x)
           n == Len(q)
<1>1. n \in Nat /\ Len(r) = n + 1 /\ r[n + 1] = x /\ \A j \in 1 .. n : r[j] = q[j]
  OBVIOUS
<1> HIDE DEF r
<1>2. \A j \in 1 .. Len(r) : j \in 1 .. n \/ j = n + 1
  BY <1>1
<1>3. CASE x.address \in T
  <2>1. WriteIn(r, n + 1, T) /\ WriteIn(r, n + 1, I)
    BY <1>1, <1>3 DEF WriteIn
  <2>2. n + 1 \in 1 .. Len(r) /\ \A j \in 1 .. Len(r) : n + 1 \in j .. Len(r)
    BY <1>1
  <2> QED
    BY <2>1, <2>2 DEF Current, r
<1>4. CASE x.address \notin I /\ Current(q, T, I, same)
  <2>3. ASSUME NEW j \in 1 .. Len(r), WriteIn(r, j, I) PROVE \E m \in j .. Len(r) : WriteIn(r, m, T)
    <3>1. j \in 1 .. n /\ WriteIn(q, j, I)
      BY <1>1, <1>2, <1>4, <2>3 DEF WriteIn
    <3>2. PICK m \in j .. n : WriteIn(q, m, T)
      BY <1>4, <3>1 DEF Current
    <3>3. m \in 1 .. n /\ m \in j .. Len(r)
      BY <1>1, <3>1
    <3> QED
      BY <1>1, <3>2, <3>3 DEF WriteIn
  <2>4. ASSUME \A j \in 1 .. Len(r) : ~WriteIn(r, j, I) PROVE same
    <3>1. \A j \in 1 .. n : j \in 1 .. Len(r)
      BY <1>1
    <3> QED
      BY <1>1, <1>4, <2>4, <3>1 DEF Current, WriteIn
  <2>5. Current(r, T, I, same)
    BY <2>3, <2>4 DEF Current
  <2> QED
    BY <2>5 DEF r
<1> QED
  BY <1>3, <1>4

\* ... and the write that the FPGA takes starts the division if one is due.
LEMMA CurrentAfterWrite ==
    ASSUME NEW U, NEW q \in Seq(U), q # <<>>, L!IsWrite(Head(q)), NEW T, NEW I, T \subseteq I,
           NEW same, NEW same1, Current(q, T, I, same),
           Head(q).address \in T => same1,
           Head(q).address \notin I => (same => same1)
    PROVE  Current(Tail(q), T, I, same1)
<1> DEFINE r == Tail(q)
           n == Len(q)
<1>1. n \in Nat /\ n >= 1 /\ Len(r) = n - 1 /\ q[1] = Head(q) /\ \A j \in 1 .. n - 1 : r[j] = q[j + 1]
  OBVIOUS
<1> HIDE DEF r
<1>2. \A j \in 1 .. Len(r) : j + 1 \in 1 .. n /\ r[j] = q[j + 1]
  BY <1>1
<1>3. ASSUME NEW j \in 1 .. Len(r), WriteIn(r, j, I) PROVE \E m \in j .. Len(r) : WriteIn(r, m, T)
  <2>1. j + 1 \in 1 .. n /\ WriteIn(q, j + 1, I)
    BY <1>2, <1>3 DEF WriteIn
  <2>2. PICK m \in j + 1 .. n : WriteIn(q, m, T)
    BY <2>1 DEF Current
  <2>3. m - 1 \in j .. Len(r) /\ m - 1 \in 1 .. Len(r) /\ (m - 1) + 1 = m
    BY <1>1, <2>1
  <2>4. r[m - 1] = q[m]
    BY <1>2, <2>3
  <2> QED
    BY <2>2, <2>3, <2>4 DEF WriteIn
<1>4. ASSUME \A j \in 1 .. Len(r) : ~WriteIn(r, j, I) PROVE same1
  <2>1. CASE Head(q).address \in T
    BY <2>1
  <2>2. ASSUME NEW j \in 1 .. n, j # 1, WriteIn(q, j, I) PROVE FALSE
    <3>1. j - 1 \in 1 .. Len(r) /\ (j - 1) + 1 = j
      BY <1>1, <2>2
    <3>2. r[j - 1] = q[j]
      BY <1>2, <3>1
    <3> QED
      BY <1>4, <2>2, <3>1, <3>2 DEF WriteIn
  <2>3. CASE Head(q).address \notin I
    <3>1. \A j \in 1 .. n : ~WriteIn(q, j, I)
      BY <1>1, <2>2, <2>3 DEF WriteIn
    <3> QED
      BY <2>3, <3>1 DEF Current
  <2>4. CASE Head(q).address \in I \ T
    <3>1. 1 \in 1 .. n /\ WriteIn(q, 1, I)
      BY <1>1, <2>4 DEF WriteIn
    <3>2. PICK m \in 1 .. n : WriteIn(q, m, T)
      BY <3>1 DEF Current
    <3>3. m # 1 /\ WriteIn(q, m, I)
      BY <1>1, <2>4, <3>2 DEF WriteIn
    <3> QED
      BY <2>2, <3>3
  <2> QED
    BY <2>1, <2>3, <2>4
<1>5. Current(r, T, I, same1)
  BY <1>3, <1>4 DEF Current
<1> QED
  BY <1>5 DEF r

(***************************************************************************)
(* A plan writes the inputs of a division before, or with, what starts it. *)
(***************************************************************************)
Trigger(p) == IF p = "x" THEN {"0x0006"} ELSE {"0x0004", "0x0007"}

Input(p) == IF p = "x" THEN {"0x0005", "0x0006"} ELSE {"0x0004", "0x0007"}

\* In a plan the registers of a scan from 0x0001 on are written once, in order.
LEMMA GeometryIsWrittenOnce ==
    ASSUME NEW cmd, NEW s, NEW g \in Nat, StepsLaid(cmd, s, g)
    PROVE  \E h \in Nat :
              /\ \A n \in 1 .. 11 : h + n \in 1 .. Len(s) /\ WritesTo(s[h + n], GeometryAddress[n])
              /\ \A n \in 1 .. 11, i \in 1 .. Len(s) : WritesTo(s[i], GeometryAddress[n]) => i = h + n
<1> DEFINE c == ConfigOf(cmd)
           m == Len(ScanRegisters(c))
<1>1. /\ Len(s) \in Nat /\ m \in {11, 12} /\ Len(s) >= g + m + 1
      /\ \A j \in 1 .. g : s[j] \in EntryStep(c, cmd.kind)
      /\ \A j \in 1 .. m : s[g + j] = Write(ScanRegisters(c)[j], Packed(c, ScanRegisters(c)[j]))
      /\ s[g + m + 1] = StopStep(c)
      /\ \A j \in g + m + 2 .. Len(s) : s[j] \in ModeStep(c, cmd.kind) \/ (Starts(cmd) /\ j = Len(s))
      /\ Starts(cmd) => s[Len(s)] = StartStep(c)
  BY DEF StepsLaid
<1>2. PICK o \in {0, 1} :
        /\ m = o + 11
        /\ \A k \in 1 .. 11 : ScanRegisters(c)[o + k] = GeometryAddress[k]
        /\ o = 1 => ScanRegisters(c)[1] = "0x0000"
  BY ScanRegistersAre
<1> HIDE DEF m
<1>3. /\ \A n \in 1 .. 11 : GeometryAddress[n] \in ScanAddress \ {"0x0000", "0x0009"}
      /\ \A n, k \in 1 .. 11 : GeometryAddress[n] = GeometryAddress[k] => n = k
  BY DEF GeometryAddress, ScanAddress
<1>w. \A x, y, b : WritesTo(Write(x, y), b) <=> x = b
  BY DEF WritesTo, WriteSteps, TargetOf, Write
<1>4. ASSUME NEW n \in 1 .. 11
      PROVE  /\ g + o + n \in 1 .. Len(s)
             /\ \E v : s[g + o + n] = Write(GeometryAddress[n], v)
  <2>1. o + n \in 1 .. m /\ g + o + n = g + (o + n) /\ g + o + n \in 1 .. Len(s)
    <3>1. n \in Nat /\ 1 <= n /\ n <= 11 /\ o \in Nat /\ m = o + 11 /\ g + m + 1 <= Len(s)
      <4>1. n \in Nat /\ 1 <= n /\ n <= 11
        OBVIOUS
      <4>2. o \in Nat /\ m = o + 11
        BY <1>2
      <4>3. g + m + 1 <= Len(s)
        BY <1>1
      <4> QED
        BY <4>1, <4>2, <4>3
    <3>2. Len(s) \in Nat /\ m \in Nat
      BY <1>1
    <3> QED
      BY <3>1, <3>2
  <2> QED
    BY <1>1, <1>2, <2>1
<1>5. ASSUME NEW n \in 1 .. 11, NEW i \in 1 .. Len(s), WritesTo(s[i], GeometryAddress[n])
      PROVE  i = g + o + n
  <2> DEFINE b == GeometryAddress[n]
  <2>1. b \in ScanAddress /\ b # "0x0000" /\ b # "0x0009"
    BY <1>3
  <2>2. b \notin UltrafastAddress \cup LaserAddress \cup {"0x0202", "0x020B", "0x0009", "0x0000"}
    BY <2>1 DEF ScanAddress, UltrafastAddress, LaserAddress
  <2>3. CASE i \in 1 .. g
    BY <1>1, <1>5, <1>w, <2>2, <2>3 DEF EntryStep, StopStep
  <2>4. CASE i \in g + 1 .. g + o
    <3>1. CASE o = 0
      BY <2>4, <3>1
    <3>2. CASE o = 1
      <4>1. i = g + 1
        BY <2>4, <3>2
      <4>2. 1 \in 1 .. m
        BY <1>1
      <4>3. s[i] = Write("0x0000", Packed(c, "0x0000"))
        BY <1>1, <1>2, <3>2, <4>1, <4>2
      <4> QED
        BY <1>5, <1>w, <2>2, <4>3
    <3> QED
      BY <3>1, <3>2
  <2>5. CASE i \in g + o + 1 .. g + o + 11
    <3>1. i - (g + o) \in 1 .. 11 /\ g + o + (i - (g + o)) = i
      BY <2>5
    <3>2. PICK v : s[i] = Write(GeometryAddress[i - (g + o)], v)
      BY <1>4, <3>1
    <3>3. GeometryAddress[i - (g + o)] = b
      BY <1>5, <1>w, <3>2
    <3>4. i - (g + o) = n
      BY <1>3, <3>1, <3>3
    <3> QED
      BY <3>1, <3>4
  <2>6. CASE i = g + m + 1
    BY <1>1, <1>5, <1>w, <2>2, <2>6 DEF StopStep
  <2>7. CASE i \in g + m + 2 .. Len(s)
    <3>1. CASE s[i] \in ModeStep(c, cmd.kind)
      BY <1>5, <1>w, <2>2, <3>1 DEF ModeStep
    <3>2. CASE Starts(cmd) /\ i = Len(s)
      BY <1>1, <1>5, <1>w, <2>2, <3>2 DEF StartStep
    <3> QED
      BY <1>1, <2>7, <3>1, <3>2
  <2>8. \/ i \in 1 .. g \/ i \in g + 1 .. g + o \/ i \in g + o + 1 .. g + o + 11
        \/ i = g + m + 1 \/ i \in g + m + 2 .. Len(s)
    BY <1>1, <1>2
  <2> QED
    BY <2>3, <2>4, <2>5, <2>6, <2>7, <2>8
<1>6. ASSUME NEW n \in 1 .. 11 PROVE g + o + n \in 1 .. Len(s) /\ WritesTo(s[g + o + n], GeometryAddress[n])
  <2>1. PICK v : s[g + o + n] = Write(GeometryAddress[n], v)
    BY <1>4
  <2>2. WritesTo(Write(GeometryAddress[n], v), GeometryAddress[n])
    BY <1>w
  <2> QED
    BY <1>4, <2>1, <2>2
<1>7. g + o \in Nat
  BY <1>2
<1> QED
  BY <1>5, <1>6, <1>7

\* 0x0006 comes after 0x0005.
LEMMA InputsComeFirst ==
    ASSUME NEW cmd \in Given, Tracked(cmd), cmd.kind \in PlanKinds, NEW p \in {"x", "y"}
    PROVE  LET s == StepsOf[cmd]
           IN  /\ \E i \in 1 .. Len(s) : \E a \in Trigger(p) : WritesTo(s[i], a)
               /\ \A i, j \in 1 .. Len(s) : \A a \in Trigger(p), b \in Input(p) :
                    WritesTo(s[i], a) /\ WritesTo(s[j], b) /\ i < j => b \in Trigger(p)
<1> DEFINE s == StepsOf[cmd]
<1>1. PICK g \in Nat : StepsLaid(cmd, s, g)
  BY PlanSteps, StepsOfKind
<1>2. PICK h \in Nat :
        /\ \A n \in 1 .. 11 : h + n \in 1 .. Len(s) /\ WritesTo(s[h + n], GeometryAddress[n])
        /\ \A n \in 1 .. 11, i \in 1 .. Len(s) : WritesTo(s[i], GeometryAddress[n]) => i = h + n
  BY <1>1, GeometryIsWrittenOnce
<1>3. /\ GeometryAddress[4] = "0x0004" /\ GeometryAddress[5] = "0x0005"
      /\ GeometryAddress[6] = "0x0006"
      /\ 4 \in 1 .. 11 /\ 5 \in 1 .. 11 /\ 6 \in 1 .. 11
  BY DEF GeometryAddress
<1> HIDE DEF s
<1>4. \E i \in 1 .. Len(s) : \E a \in Trigger(p) : WritesTo(s[i], a)
  BY <1>2, <1>3 DEF Trigger
<1>5. ASSUME NEW i \in 1 .. Len(s), NEW j \in 1 .. Len(s), NEW a \in Trigger(p), NEW b \in Input(p),
             WritesTo(s[i], a), WritesTo(s[j], b), i < j
      PROVE  b \in Trigger(p)
  <2> SUFFICES ASSUME a = "0x0006", b = "0x0005" PROVE FALSE
    BY DEF Trigger, Input
  <2>1. i = h + 6 /\ j = h + 5
    BY <1>2, <1>3, <1>5
  <2> QED
    BY <1>5, <2>1
<1> QED
  BY <1>4, <1>5 DEF s

(***************************************************************************)
(* The steps in a session.  Once a command has sent what starts a division,*)
(* its result is current, or will be when what is on its way has arrived.  *)
(***************************************************************************)
\* The steps of the command that have been begun.
Begun == Len(StepsOf[TheCommand]) - Len(todo) + (IF waiting THEN 1 ELSE 0)

\* A write that starts the division has been sent.
Due(p) == \E i \in 1 .. Begun : \E a \in Trigger(p) : WritesTo(StepsOf[TheCommand][i], a)

Same(p) == dacStep[p] = StepInputs(register)[p]

\* A command whose plan says that, and none of whose writes was lost.
Applying == OnTrack /\ TheCommand.kind \in PlanKinds /\ ~dropped

StepInv ==
    /\ dacStep = [x |-> dacStep.x, y |-> dacStep.y]
    /\ Applying => \A p \in {"x", "y"} : Due(p) => Current(requests, Trigger(p), Input(p), Same(p))

\* No command has begun at the start.
LEMMA StepInit == Init => StepInv
BY DEF Init, StepInv, Applying, OnTrack

\* A register whose write starts a division is read by it.
LEMMA TriggersAreInputs == \A p : Trigger(p) \subseteq Input(p)
BY DEF Trigger, Input

\* The division of the FPGA.
LEMMA WriteMakesSteps ==
    ASSUME LP!TypeOK, FpgaWrite, dacStep = [x |-> dacStep.x, y |-> dacStep.y], NEW p \in {"x", "y"}
    PROVE  LET a == Head(requests).address
           IN  /\ dacStep' = [x |-> dacStep'.x, y |-> dacStep'.y]
               /\ a \in Trigger(p) => Same(p)'
               /\ a \notin Input(p) => (Same(p) => Same(p)')
<1> DEFINE a == Head(requests).address
           w == Kept(a, Head(requests).value)
<1>1. /\ L!FpgaWrite
      /\ dacStep' = [x |-> IF StepTriggers(a).x THEN StepInputs(register').x ELSE dacStep.x,
                     y |-> IF StepTriggers(a).y THEN StepInputs(register').y ELSE dacStep.y]
  BY DEF FpgaWrite
<1>2. register' = [register EXCEPT ![a] = w] /\ register \in [RegisterAddress -> Word] /\ a \in RegisterAddress
  BY <1>1, LinkTypes DEF L!FpgaWrite
<1>3. {"0x0004", "0x0005", "0x0006", "0x0007"} \subseteq RegisterAddress
  BY DEF RegisterAddress, RtlLayout
<1> HIDE DEF w
<1>4. \A R : /\ StepInputs(R).x = <<R["0x0005"], R["0x0006"]>>
             /\ StepInputs(R).y = <<R["0x0007"], R["0x0004"]>>
  BY DEF StepInputs
<1>5. StepTriggers(a).x = (a = "0x0006") /\ StepTriggers(a).y = (a \in {"0x0004", "0x0007"})
  BY DEF StepTriggers
<1>6. \A b \in {"0x0004", "0x0005", "0x0006", "0x0007"} : b # a => register'[b] = register[b]
  BY <1>2, <1>3
<1> HIDE DEF a
<1>7. CASE p = "x"
  <2>1. a = "0x0006" => dacStep'.x = StepInputs(register').x
    BY <1>1, <1>5
  <2>2. a \notin {"0x0005", "0x0006"} =>
           dacStep'.x = dacStep.x /\ StepInputs(register').x = StepInputs(register).x
    <3> SUFFICES ASSUME a \notin {"0x0005", "0x0006"}
                 PROVE  dacStep'.x = dacStep.x /\ StepInputs(register').x = StepInputs(register).x
      OBVIOUS
    <3>1. dacStep'.x = dacStep.x
      BY <1>1, <1>5
    <3>2. register'["0x0005"] = register["0x0005"] /\ register'["0x0006"] = register["0x0006"]
      BY <1>6
    <3> QED
      BY <1>4, <3>1, <3>2, Zenon
  <2>3. dacStep' = [x |-> dacStep'.x, y |-> dacStep'.y]
    BY <1>1
  <2> QED
    BY <1>7, <2>1, <2>2, <2>3 DEF Same, Trigger, Input, a
<1>8. CASE p = "y"
  <2>1. a \in {"0x0004", "0x0007"} => dacStep'.y = StepInputs(register').y
    BY <1>1, <1>5
  <2>2. a \notin {"0x0004", "0x0007"} =>
           dacStep'.y = dacStep.y /\ StepInputs(register').y = StepInputs(register).y
    <3> SUFFICES ASSUME a \notin {"0x0004", "0x0007"}
                 PROVE  dacStep'.y = dacStep.y /\ StepInputs(register').y = StepInputs(register).y
      OBVIOUS
    <3>1. dacStep'.y = dacStep.y
      BY <1>1, <1>5
    <3>2. register'["0x0007"] = register["0x0007"] /\ register'["0x0004"] = register["0x0004"]
      BY <1>6
    <3> QED
      BY <1>4, <3>1, <3>2, Zenon
  <2>3. dacStep' = [x |-> dacStep'.x, y |-> dacStep'.y]
    BY <1>1
  <2> QED
    BY <1>8, <2>1, <2>2, <2>3 DEF Same, Trigger, Input, a
<1> QED
  BY <1>7, <1>8

\* What leaves the process alone leaves the steps it has begun alone.
LEMMA BegunIsSame ==
    ASSUME UNCHANGED processVars
    PROVE  Begun' = Begun /\ (\A p : Due(p)' <=> Due(p)) /\ TheCommand' = TheCommand /\ OnTrack' = OnTrack
<1>1. UNCHANGED <<script, todo, active, waiting, ok, current, exits, done, fresh>>
  BY DEF processVars
<1>2. TheCommand' = TheCommand
  BY <1>1 DEF TheCommand, Command, LastCommand
<1>3. Begun' = Begun
  BY <1>1, <1>2 DEF Begun
<1> QED
  BY <1>2, <1>3, SameCommand DEF Due

\* The link, while the command waits or not.
LEMMA LinkKeepsSteps ==
    ASSUME LP!TypeOK, ProcessInv, StepInv, Applying, NEW p \in {"x", "y"}, Due(p), ~dropped',
           \/ (Receive \/ Retry \/ GiveUp \/ Reopen \/ FpgaWrite \/ FpgaRead \/ FpgaReadBusy) /\ UNCHANGED dropped
           \/ LoseRequest
    PROVE  Current(requests', Trigger(p), Input(p), Same(p)')
<1> DEFINE T == Trigger(p)
           I == Input(p)
           same == Same(p)
<1>0. Current(requests, T, I, same) /\ dacStep = [x |-> dacStep.x, y |-> dacStep.y]
  BY DEF StepInv
<1>t. requests \in Seq(L!Request) /\ Len(requests) \in Nat
  BY LinkTypes
<1>i. T \subseteq I
  BY TriggersAreInputs
<1>s. ASSUME UNCHANGED <<register, dacStep>>, Current(requests', T, I, same)
      PROVE  Current(requests', T, I, same')
  <2> DEFINE r == requests'
             same1 == same'
  <2>1. same => same1
    BY <1>s DEF Same
  <2>2. Current(r, T, I, same)
    BY <1>s
  <2> HIDE DEF r, same, same1, T, I
  <2>3. Current(r, T, I, same1)
    BY <2>1, <2>2, CurrentImplies
  <2> QED
    BY <2>3 DEF r, same, same1
<1>1. CASE Receive \/ GiveUp \/ Reopen
  <2>1. UNCHANGED <<requests, register, dacStep>>
    BY <1>1 DEF Receive, L!Receive, GiveUp, L!GiveUp, Reopen, L!Reopen, fpgaVars
  <2> QED
    BY <1>0, <1>s, <2>1
<1>2. CASE Retry
  <2> DEFINE x == L!ReadRequest(call.address)
  <2>1. /\ requests' = Append(requests, x) /\ UNCHANGED <<register, dacStep>> /\ call # None
    BY <1>2 DEF Retry, L!Retry, fpgaVars
  <2>2. ~L!IsWrite(x)
    BY DEF L!ReadRequest, L!IsWrite
  <2>3. x \in L!Request
    <3>1. call.address \in RegisterAddress
      BY <2>1, CallIs
    <3> QED
      BY <3>1 DEF L!ReadRequest, L!Request
  <2> HIDE DEF x, T, I, same
  <2>4. Current(Append(requests, x), T, I, same)
    BY <1>0, <1>t, <2>2, <2>3, CurrentWithOneMoreRead
  <2>5. Current(requests', T, I, same)
    BY <2>1, <2>4
  <2> QED
    BY <1>s, <2>1, <2>5 DEF T, I, same
<1>3. CASE FpgaWrite
  <2>1. /\ requests # <<>> /\ L!IsWrite(Head(requests)) /\ requests' = Tail(requests)
    BY <1>3 DEF FpgaWrite, L!FpgaWrite
  <2>2. /\ Head(requests).address \in T => same'
        /\ Head(requests).address \notin I => (same => same')
    BY <1>0, <1>3, WriteMakesSteps
  <2> DEFINE same1 == same'
  <2> HIDE DEF T, I, same, same1
  <2>3. Current(Tail(requests), T, I, same1)
    BY <1>0, <1>t, <1>i, <2>1, <2>2, CurrentAfterWrite DEF same1
  <2>4. Current(requests', T, I, same1)
    BY <2>1, <2>3
  <2> QED
    BY <2>4 DEF T, I, same, same1
<1>4. ASSUME NEW f, Embeds(f, requests', requests), Len(requests') \in Nat,
             \A j \in 1 .. Len(requests) : L!IsWrite(requests[j]) => \E i \in 1 .. Len(requests') : f[i] = j,
             UNCHANGED <<register, dacStep>>
      PROVE  Current(requests', T, I, same')
  <2> DEFINE r == requests'
  <2> HIDE DEF T, I, same, r
  <2>1. Current(r, T, I, same)
    <3>1. Embeds(f, r, requests) /\ Len(r) \in Nat
          /\ \A j \in 1 .. Len(requests) : L!IsWrite(requests[j]) => \E i \in 1 .. Len(r) : f[i] = j
      BY <1>4 DEF r
    <3> QED
      BY <1>0, <1>t, <3>1, CurrentWithFewerReads
  <2> QED
    BY <1>4, <1>s, <2>1 DEF r
<1>5. CASE FpgaRead \/ FpgaReadBusy
  <2>1. /\ requests # <<>> /\ ~L!IsWrite(Head(requests)) /\ requests' = Tail(requests)
        /\ UNCHANGED <<register, dacStep>>
    BY <1>5 DEF FpgaRead, L!FpgaRead, FpgaReadBusy, L!FpgaReadBusy, L!IsRead, L!IsWrite, fpgaVars
  <2> DEFINE f == [j \in 1 .. Len(Tail(requests)) |-> j + 1]
  <2>2. Embeds(f, requests', requests)
    BY <1>t, <2>1, TailEmbeds
  <2>3. Len(requests') \in Nat /\ Len(requests') = Len(requests) - 1 /\ requests[1] = Head(requests)
        /\ Len(requests) >= 1
    BY <1>t, <2>1
  <2>4. ASSUME NEW j \in 1 .. Len(requests), L!IsWrite(requests[j])
        PROVE  \E i \in 1 .. Len(requests') : f[i] = j
    <3>1. j # 1
      BY <2>1, <2>3, <2>4
    <3>2. j - 1 \in 1 .. Len(Tail(requests)) /\ (j - 1) + 1 = j
      BY <1>t, <2>1, <2>3, <3>1
    <3> QED
      BY <2>1, <3>2
  <2> HIDE DEF f
  <2> QED
    BY <1>4, <2>1, <2>2, <2>3, <2>4
<1>6. CASE LoseRequest
  <2>1. /\ \E i \in 1 .. Len(requests) :
             /\ requests' = L!Without(requests, i)
             /\ lost' = IF L!IsRead(requests[i]) THEN lost + 1 ELSE lost
        /\ UNCHANGED <<register, dacStep>> /\ dropped' = (dropped \/ lost' = lost)
    BY <1>6 DEF LoseRequest, L!LoseRequest, fpgaVars
  <2>2. PICK i \in 1 .. Len(requests) :
          /\ requests' = L!Without(requests, i)
          /\ lost' = IF L!IsRead(requests[i]) THEN lost + 1 ELSE lost
    BY <2>1
  <2>3. ~L!IsWrite(requests[i])
    <3>1. lost' # lost
      BY <2>1
    <3>2. L!IsRead(requests[i])
      BY <2>2, <3>1
    <3> QED
      BY <3>2 DEF L!IsRead, L!IsWrite
  <2> DEFINE f == [j \in 1 .. Len(L!Without(requests, i)) |-> IF j < i THEN j ELSE j + 1]
  <2>4. Embeds(f, requests', requests)
    BY <1>t, <2>2, WithoutEmbeds
  <2>5. Len(requests') \in Nat /\ Len(requests') = Len(requests) - 1
    <3>1. Len(L!Without(requests, i)) = Len(requests) - 1
      BY <1>t, WithoutEmbeds
    <3>2. Len(requests) - 1 \in Nat
      BY <1>t
    <3> QED
      BY <2>2, <3>1, <3>2
  <2>6. ASSUME NEW j \in 1 .. Len(requests), L!IsWrite(requests[j])
        PROVE  \E k \in 1 .. Len(requests') : f[k] = j
    <3>1. j # i
      BY <2>3, <2>6
    <3>d. \A k \in 1 .. Len(requests') : f[k] = IF k < i THEN k ELSE k + 1
      BY <2>2
    <3> HIDE DEF f
    <3>2. CASE j < i
      <4>1. j \in 1 .. Len(requests')
        BY <1>t, <2>5, <3>2
      <4> QED
        BY <3>d, <3>2, <4>1
    <3>3. CASE j > i
      <4>1. j - 1 \in 1 .. Len(requests') /\ ~(j - 1 < i) /\ (j - 1) + 1 = j
        BY <1>t, <2>5, <3>3
      <4> QED
        BY <3>d, <4>1
    <3> QED
      BY <3>1, <3>2, <3>3
  <2> HIDE DEF f
  <2> QED
    BY <1>4, <2>1, <2>4, <2>5, <2>6
<1> QED
  BY <1>1, <1>2, <1>3, <1>5, <1>6

\* A command that begins has sent no write that starts a division.
LEMMA LaunchKeepsSteps ==
    ASSUME LP!TypeOK, ProcessInv, Launch, Applying', NEW p \in {"x", "y"}
    PROVE  ~Due(p)'
<1>0. waiting' = waiting /\ ~active /\ ~waiting /\ script # <<>> /\ OnTrack'
  BY DEF Launch, ProcessInv, Applying
<1>1. CASE Leave(20) \/ Leave(2)
  <2>1. PICK code \in {20, 2} : Leave(code)
    BY <1>1
  <2>2. ~active' /\ LastExit' = code
    <3>1. code \in Nat /\ code # 0
      BY <2>1
    <3> QED
      BY <1>0, <2>1, <3>1, LeaveKeepsProcess
  <2> QED
    BY <1>0, <2>1, <2>2, FailureEndsTrack
<1>2. CASE ~(Leave(20) \/ Leave(2))
  <2>1. /\ Command \in AcceptedCommand /\ active' = TRUE /\ todo' = StepsOf[Command] /\ script' = script
    BY <1>2 DEF Launch
  <2>2. Command' = Command /\ TheCommand' = Command
    BY <2>1 DEF TheCommand, Command
  <2>3. Command \in Given /\ Tracked(Command)
    BY <1>0, <2>1, <2>2 DEF AcceptedCommand, OnTrack
  <2>4. Len(StepsOf[Command]) \in Nat
    BY <2>3, TrackedSteps
  <2>5. Begun' = 0
    <3>1. Begun' = Len(StepsOf[Command]) - Len(StepsOf[Command]) + 0
      BY <1>0, <2>1, <2>2 DEF Begun
    <3> QED
      BY <2>4, <3>1
  <2>6. Due(p)' <=> \E i \in 1 .. 0 : \E a \in Trigger(p) : WritesTo(StepsOf[Command][i], a)
    BY <2>2, <2>5 DEF Due
  <2>7. ~ \E i \in 1 .. 0 : TRUE
    OBVIOUS
  <2> QED
    BY <2>6, <2>7
<1> QED
  BY <1>1, <1>2

\* One that starts a division is the last of its inputs, or what comes after it is.
LEMMA IssueKeepsSteps ==
    ASSUME LP!TypeOK, ProcessInv, StepInv, Issue, UNCHANGED dropped, Applying',
           NEW p \in {"x", "y"}, Due(p)'
    PROVE  Current(requests', Trigger(p), Input(p), Same(p)')
<1> DEFINE step == Head(todo)
           a == TargetOf(step)
           T == Trigger(p)
           I == Input(p)
           same == Same(p)
<1>0. /\ active /\ ~waiting /\ todo # <<>> /\ UNCHANGED <<ok, current, fresh, dacStep>> /\ OnTrack' /\ ~dropped
      /\ script # <<>>
  BY DEF Issue, Applying, fpgaVars, ProcessInv
<1>1. CASE Leave(12) \/ Leave(2)
  <2>1. PICK code \in {12, 2} : Leave(code)
    BY <1>1
  <2>2. ~active' /\ LastExit' = code
    <3>1. code \in Nat /\ code # 0
      BY <2>1
    <3> QED
      BY <1>0, <2>1, <3>1, LeaveKeepsProcess
  <2> QED
    BY <1>0, <2>1, <2>2, FailureEndsTrack
<1>2. CASE ~(Leave(12) \/ Leave(2))
  <2>1. script' = script /\ active'
    BY <1>0, <1>2 DEF Issue
  <2>2. TheCommand = Command /\ TheCommand' = Command /\ Command' = Command
    BY <1>0, <2>1 DEF TheCommand, Command
  <2>3. OnTrack /\ Tracked(Command) /\ Command.kind \in PlanKinds /\ Applying
    BY <1>0, <2>1, <2>2 DEF OnTrack, Applying
  <2> DEFINE s == StepsOf[Command]
  <2>4. PICK n \in 0 .. Len(s) :
          /\ Len(s) \in Nat
          /\ Len(todo) = Len(s) - n
          /\ Head(todo) = s[n + 1]
          /\ n + 1 \in 0 .. Len(s)
    BY <1>0, <2>3, TodoIs
  <2>5. Command \in Given
    BY <1>0 DEF ProcessInv, AcceptedCommand
  <2>6. n \in Nat /\ n + 1 \in 1 .. Len(s)
    BY <2>4
  <2>7. step.do = "write" /\ a \in RegisterAddress
    <3>1. PICK g \in Nat : StepsLaid(Command, s, g)
      BY <2>3, <2>5, PlanSteps, StepsOfKind
    <3>2. s[n + 1].do = "write" /\ s[n + 1].address \in RegisterAddress
      BY <2>6, <3>1, PlanStepsAreWrites
    <3> QED
      BY <2>4, <3>2 DEF TargetOf
  <2> DEFINE x == L!WriteRequest(a, Written(step))
             y == L!ReadRequest(a)
  <2>8. /\ todo' = todo /\ waiting' /\ register' = register
        /\ requests' = requests \o <<x, y>> /\ Fits(Written(step), 32)
    <3>1. L!WriteChecked(a, Written(step)) /\ todo' = todo /\ waiting' /\ Fits(Written(step), 32)
      BY <1>2, <2>7 DEF Issue
    <3> QED
      BY <3>1 DEF L!WriteChecked
  <2>9. L!IsWrite(x) /\ ~L!IsWrite(y) /\ x.address = a /\ x \in L!Request /\ y \in L!Request
    <3>1. Written(step) \in Word
      BY <2>8 DEF Fits, Word
    <3>2. x \in L!Request /\ y \in L!Request
      BY <2>7, <3>1 DEF L!Request, L!WriteRequest, L!ReadRequest
    <3> QED
      BY <3>2 DEF L!WriteRequest, L!ReadRequest, L!IsWrite
  <2>t. requests \in Seq(L!Request)
    BY LinkTypes
  <2>10. Begun = n /\ Begun' = n + 1
    <3>1. Begun = Len(s) - (Len(s) - n) + 0 /\ Begun' = Len(s) - (Len(s) - n) + 1
      BY <1>0, <2>2, <2>4, <2>8 DEF Begun
    <3>2. \A l \in Nat : l - (l - n) + 0 = n /\ l - (l - n) + 1 = n + 1
      BY <2>6
    <3> HIDE DEF s
    <3> QED
      BY <2>4, <3>1, <3>2
  <2>11. PICK i \in 1 .. n + 1 : \E b \in T : WritesTo(s[i], b)
    BY <2>2, <2>10 DEF Due
  <2>12. WritesTo(s[n + 1], a)
    BY <2>4, <2>7 DEF WritesTo, WriteSteps
  <2>i. T \subseteq I
    BY TriggersAreInputs
  <2>13. a \in T \/ (a \notin I /\ Current(requests, T, I, same))
    <3> SUFFICES ASSUME a \notin T PROVE a \notin I /\ Current(requests, T, I, same)
      OBVIOUS
    <3>1. i # n + 1
      <4>1. \A b : WritesTo(s[n + 1], b) => b = a
        BY <2>4 DEF WritesTo
      <4> QED
        BY <2>11, <4>1
    <3>2. i \in 1 .. n /\ i < n + 1 /\ i \in 1 .. Len(s)
      BY <2>4, <2>6, <3>1
    <3>3. a \notin I
      BY <2>3, <2>5, <2>6, <2>11, <2>12, <3>2, InputsComeFirst
    <3>4. Due(p)
      BY <2>2, <2>10, <2>11, <3>2 DEF Due
    <3> QED
      BY <2>3, <3>3, <3>4 DEF StepInv
  <2> DEFINE same1 == same'
             r == requests'
  <2>14. same => same1
    BY <1>0, <2>8 DEF Same
  <2> HIDE DEF x, y, T, I, same, same1, r, a
  <2>15. Current(Append(requests, x), T, I, same)
    BY <2>t, <2>9, <2>13, <2>i, CurrentWithOneMoreWrite
  <2> DEFINE q == Append(requests, x)
  <2>16. q \in Seq(L!Request) /\ r = Append(q, y)
    <3>1. q \in Seq(L!Request)
      BY <2>t, <2>9
    <3>2. requests \o <<x, y>> = Append(Append(requests, x), y)
      BY <2>t, <2>9
    <3> QED
      BY <2>8, <3>1, <3>2 DEF r
  <2>17. Current(q, T, I, same)
    BY <2>15
  <2> HIDE DEF q
  <2>18. Current(Append(q, y), T, I, same)
    BY <2>9, <2>16, <2>17, CurrentWithOneMoreRead
  <2>19. Current(r, T, I, same1)
    BY <2>14, <2>16, <2>18, CurrentImplies
  <2> QED
    BY <2>19 DEF r, same, same1, T, I
<1> QED
  BY <1>1, <1>2

\* An answer begins no step.
LEMMA SettleKeepsSteps ==
    ASSUME LP!TypeOK, ProcessInv, StepInv, Settle \/ Exit, UNCHANGED dropped, Applying',
           NEW p \in {"x", "y"}, Due(p)'
    PROVE  Current(requests', Trigger(p), Input(p), Same(p)')
<1>0. /\ active /\ script # <<>> /\ UNCHANGED <<register, requests, dacStep, fresh>> /\ OnTrack' /\ ~dropped
  BY DEF Settle, Exit, Applying, ProcessInv, linkVars, fpgaVars
<1>1. ASSUME TheCommand' = TheCommand, OnTrack, Begun' = Begun
      PROVE  Current(requests', Trigger(p), Input(p), Same(p)')
  <2>1. Applying /\ Due(p)
    BY <1>0, <1>1 DEF Applying, Due
  <2>2. Current(requests, Trigger(p), Input(p), Same(p))
    BY <2>1 DEF StepInv
  <2> DEFINE r == requests'
             same == Same(p)
             same1 == same'
  <2>3. same => same1
    BY <1>0 DEF Same
  <2>4. Current(r, Trigger(p), Input(p), same)
    BY <1>0, <2>2
  <2> HIDE DEF r, same, same1
  <2>5. Current(r, Trigger(p), Input(p), same1)
    BY <2>3, <2>4, CurrentImplies
  <2> QED
    BY <2>5 DEF r, same, same1
<1>2. CASE Settle
  <2> DEFINE do == Head(todo).do
  <2>1. waiting /\ ~waiting' /\ todo # <<>>
    BY <1>2 DEF Settle, ProcessInv
  <2>2. CASE Leave(IF outcome.status = "timeout" THEN 10 ELSE 12)
    <3>1. PICK code \in {10, 12} : Leave(code)
      BY <2>2
    <3>2. ~active' /\ LastExit' = code
      <4>1. code \in Nat /\ code # 0
        BY <3>1
      <4> QED
        BY <1>0, <3>1, <4>1, LeaveKeepsProcess
    <3> QED
      BY <1>0, <3>1, <3>2, FailureEndsTrack
  <2>3. CASE ~Leave(IF outcome.status = "timeout" THEN 10 ELSE 12)
    <3>1. /\ script' = script /\ active' = active /\ todo' = Tail(todo) /\ (ok' => ok)
      <4>1. CASE do = "control" /\ UNCHANGED <<script, active, ok>> /\ todo' = Tail(todo)
        BY <4>1
      <4>2. CASE /\ outcome.status \notin {"timeout", "protocol_error"}
                 /\ ok' = (ok /\ outcome.status # "mismatch")
                 /\ UNCHANGED <<script, active>> /\ todo' = Tail(todo)
        BY <4>2
      <4> QED
        BY <1>2, <2>3, <4>1, <4>2 DEF Settle
    <3>2. TheCommand = Command /\ TheCommand' = Command /\ Command' = Command
      BY <1>0, <3>1 DEF TheCommand, Command
    <3>3. OnTrack /\ Tracked(Command)
      <4>1. fresh' /\ (IF active' THEN ok' ELSE LastExit' = 0) /\ Tracked(TheCommand')
        BY <1>0 DEF OnTrack
      <4> QED
        BY <1>0, <3>1, <3>2, <4>1 DEF OnTrack
    <3> DEFINE s == StepsOf[Command]
    <3>4. PICK n \in 0 .. Len(s) :
            /\ Len(s) \in Nat
            /\ Len(todo) = Len(s) - n
            /\ Len(Tail(todo)) = Len(s) - (n + 1)
      BY <1>0, <2>1, <3>3, TodoIs
    <3>5. Begun' = Begun
      <4>1. /\ Begun = Len(s) - (Len(s) - n) + 1
            /\ Begun' = Len(s) - (Len(s) - (n + 1)) + 0
        BY <2>1, <3>1, <3>2, <3>4 DEF Begun
      <4>2. \A l, k \in Nat : l - (l - k) + 1 = l - (l - (k + 1)) + 0
        OBVIOUS
      <4>3. n \in Nat
        BY <3>4
      <4> HIDE DEF s
      <4> QED
        BY <3>4, <4>1, <4>2, <4>3
    <3> QED
      BY <1>1, <3>2, <3>3, <3>5
  <2> QED
    BY <2>2, <2>3
<1>3. CASE Exit
  <2> DEFINE code == ResultExitCode(Command, ok)
  <2>0. ~waiting /\ ~waiting' /\ todo = <<>> /\ Leave(code) /\ Command \in AcceptedCommand /\ Safe(Command)
    BY <1>0, <1>3 DEF Exit, ProcessInv
  <2>1. code \in Nat /\ (code = 0 => ok \/ Command.kind = "profile")
    BY DEF ResultExitCode
  <2>2. ~active' /\ todo' = <<>> /\ LastExit' = code /\ LastCommand' = Command
    <3> HIDE DEF code
    <3> QED
      BY <1>0, <2>0, <2>1, LeaveKeepsProcess
  <2>3. TheCommand = Command /\ TheCommand' = Command
    BY <1>0, <2>2 DEF TheCommand
  <2>4. code = 0 /\ Tracked(Command)
    BY <1>0, <2>2, <2>3 DEF OnTrack
  <2>5. ok
    BY <2>1, <2>4 DEF Tracked, PlanKinds
  <2>6. OnTrack
    BY <1>0, <2>3, <2>4, <2>5 DEF OnTrack
  <2>7. Begun' = Begun
    BY <2>0, <2>2, <2>3 DEF Begun
  <2> QED
    BY <1>1, <2>3, <2>6, <2>7
<1> QED
  BY <1>2, <1>3

\* Every step keeps the results of the divisions current.
LEMMA StepStep == ASSUME LP!TypeOK, ProcessInv, StepInv, [Next]_vars PROVE StepInv'
<1>1. dacStep' = [x |-> dacStep'.x, y |-> dacStep'.y]
  <2>1. CASE FpgaWrite
    BY <2>1, WriteMakesSteps DEF StepInv
  <2>2. CASE ~FpgaWrite
    <3>1. dacStep' = dacStep
      BY <2>2 DEF Next, vars, fpgaVars, Launch, LoseRequest, Issue, Settle, Exit, Receive, Retry, GiveUp, Reopen,
                  FpgaRead, FpgaReadBusy, CaptureEnds, CaptureRestarts, RunAudit, Over
    <3> QED
      BY <3>1 DEF StepInv
  <2> QED
    BY <2>1, <2>2
<1>2. ASSUME Applying', NEW p \in {"x", "y"}, Due(p)'
      PROVE  Current(requests', Trigger(p), Input(p), Same(p)')
  <2>1. CASE \/ (Receive \/ Retry \/ GiveUp \/ Reopen \/ FpgaWrite \/ FpgaRead \/ FpgaReadBusy) /\ UNCHANGED dropped
             \/ LoseRequest
    <3>1. UNCHANGED processVars
      BY <2>1 DEF Receive, Retry, GiveUp, Reopen, FpgaWrite, FpgaRead, FpgaReadBusy, LoseRequest
    <3>2. dropped => dropped'
      BY <2>1 DEF LoseRequest
    <3>3. Applying /\ Due(p) /\ ~dropped'
      BY <1>2, <3>1, <3>2, BegunIsSame DEF Applying
    <3> QED
      BY <2>1, <3>3, LinkKeepsSteps
  <2>2. CASE \/ (CaptureEnds \/ CaptureRestarts \/ RunAudit) /\ UNCHANGED dropped
             \/ Over \/ UNCHANGED vars
    <3>1. UNCHANGED <<processVars, requests, register, dacStep>>
      BY <2>2 DEF CaptureEnds, CaptureRestarts, RunAudit, Over, vars, linkVars, fpgaVars
    <3>2. UNCHANGED dropped
      BY <2>2 DEF Over, vars
    <3>3. Applying /\ Due(p)
      BY <1>2, <3>1, <3>2, BegunIsSame DEF Applying
    <3>4. Current(requests, Trigger(p), Input(p), Same(p))
      BY <3>3 DEF StepInv
    <3> DEFINE r == requests'
               same == Same(p)
               same1 == same'
    <3>5. same => same1
      BY <3>1 DEF Same
    <3>6. Current(r, Trigger(p), Input(p), same)
      BY <3>1, <3>4
    <3> HIDE DEF r, same, same1
    <3>7. Current(r, Trigger(p), Input(p), same1)
      BY <3>5, <3>6, CurrentImplies
    <3> QED
      BY <3>7 DEF r, same, same1
  <2>3. CASE Launch
    BY <1>2, <2>3, LaunchKeepsSteps
  <2>4. CASE Issue /\ UNCHANGED dropped
    BY <1>2, <2>4, IssueKeepsSteps
  <2>5. CASE (Settle \/ Exit) /\ UNCHANGED dropped
    BY <1>2, <2>5, SettleKeepsSteps
  <2> QED
    BY <2>1, <2>2, <2>3, <2>4, <2>5 DEF Next
<1> QED
  BY <1>1, <1>2 DEF StepInv

\* A command that ended with 0 has nothing on its way, so its steps are those of its
\* registers.
LEMMA SuccessHasItsSteps ==
    ASSUME HostIInv, StepInv, Succeeded, LastCommand.kind \in PlanKinds, ~dropped
    PROVE  dacStep = StepInputs(register)
<1> DEFINE cmd == LastCommand
           s == StepsOf[cmd]
<1>1. /\ ~active /\ exits # <<>> /\ fresh /\ LastExit = 0 /\ todo = <<>> /\ requests = <<>> /\ ~waiting
      /\ cmd \in AcceptedCommand
  BY DEF HostIInv, ProcessInv, Succeeded, Ended
<1>2. Tracked(cmd) /\ cmd \in Given
  BY <1>1 DEF Succeeded, Tracked, AcceptedCommand
<1>3. TheCommand = cmd /\ OnTrack
  BY <1>1, <1>2 DEF OnTrack, TheCommand
<1>4. Applying
  BY <1>3 DEF Applying
<1>5. Len(s) \in Nat
  BY <1>2, TrackedSteps
<1>6. Begun = Len(s)
  BY <1>1, <1>3, <1>5 DEF Begun
<1>7. ASSUME NEW p \in {"x", "y"} PROVE Same(p)
  <2>1. Due(p)
    BY <1>2, <1>3, <1>6, InputsComeFirst DEF Due
  <2>2. Current(requests, Trigger(p), Input(p), Same(p))
    BY <1>4, <2>1 DEF StepInv
  <2>3. \A j \in 1 .. Len(requests) : FALSE
    BY <1>1
  <2> QED
    BY <2>2, <2>3 DEF Current
<1>8. dacStep.x = StepInputs(register).x /\ dacStep.y = StepInputs(register).y
  BY <1>7 DEF Same
<1> QED
  BY <1>8 DEF StepInv, StepInputs

\* After a plan whose command exits with 0, and of whose writes none was lost, the steps
\* of the DACs are those of the ranges and point counts in the registers: the write that
\* starts a division comes after the writes of what it reads, on the link as in the plan.
THEOREM StepsAreCurrentAlways == Spec => []StepsAreCurrent
<1> DEFINE I == HostIInv /\ StepInv
<1>1. Init => I
  BY LinkTypedInit, ProcessInit, FixedInit, HostInit, StepInit DEF HostIInv
<1>2. I /\ [Next]_vars => I'
  BY LinkTypedStep, ProcessStep, FixedStep, HostStep, StepStep DEF HostIInv
<1>3. I => StepsAreCurrent
  BY SuccessHasItsSteps DEF StepsAreCurrent
<1> QED
  BY <1>1, <1>2, <1>3, PTL DEF Spec

(***************************************************************************)
(* Accepted commands.  What the host packs is what the FPGA keeps, and     *)
(* without a fault each call is answered before the next one begins, so    *)
(* that what is read back is what was written.                             *)
(***************************************************************************)
\* The commands that are to exit with 0.
Blameless(cmd) ==
    /\ Safe(cmd)
    /\ cmd \in AcceptedCommand
    /\ cmd.kind \notin {"write", "write-checked"}
    /\ HasDl5(cmd) => Dl5Valid(ConfigOf(cmd))
    /\ cmd.kind \in PlanKinds \cup {"profile"} => Fits(ConfigOf(cmd).adc_sample, 32)

\* A write of which the FPGA keeps every bit.
KeptWrite(x) ==
    x.do = "write" /\ x.address \in RegisterAddress /\ x.value \in Word /\ Kept(x.address, x.value) = x.value

\* A step that nothing but a fault can stop, if what it writes has been read.
Harmless(cmd, x) ==
    \/ x.do \in {"control", "read"}
    \/ x.do = "validate" /\ Dl5Valid(ConfigOf(cmd))
    \/ KeptWrite(x)
    \/ x.do = "state" /\ x.bits \in {{}, One}

\* With m values of 0x0009 read, every step of t finds the one that it writes back.
Enough(t, m) ==
    \A i \in 1 .. Len(t) :
        t[i].do = "state" =>
            /\ t[i].n \in {1, 2}
            /\ \/ t[i].n <= m
               \/ t[i].n <= m + 1 /\ \E j \in 1 .. i - 1 : t[j].do = "control"
               \/ \E j, k \in 1 .. i - 1 : j < k /\ t[j].do = "control" /\ t[k].do = "control"

\* The fields of 0x0009 leave out none of its bits.
LEMMA ControlIsWhole ==
    ASSUME NEW w \in Word PROVE Kept("0x0009", w) = w
<1> DEFINE F == {<<"0x0009", "adc_interval", 8, 24>>, <<"0x0009", "scan_mode", 4, 4>>, <<"0x0009", "scan_state", 0, 4>>}
<1>1. FieldsOf("0x0009") = F
  BY DEF FieldsOf, RtlLayout
<1>2. \A t \in F : Taken(t, w) = Slice(w, t[3], t[4]) /\ t[3] \in Nat /\ t[4] \in Nat
  BY DEF Taken
<1>3. \A x \in w : x \in 0 .. 31
  BY DEF Word
<1>4. ASSUME NEW x \in Kept("0x0009", w) PROVE x \in w
  <2>1. PICK t \in F : x \in Shl(Taken(t, w), t[3])
    BY <1>1 DEF Kept
  <2>2. PICK y \in Slice(w, t[3], t[4]) : x = y + t[3]
    BY <1>2, <2>1 DEF Shl
  <2>3. PICK z \in w : y = z - t[3] /\ t[3] <= z
    BY <2>2 DEF Slice
  <2> QED
    BY <1>2, <1>3, <2>2, <2>3
<1>5. ASSUME NEW x \in w PROVE x \in Kept("0x0009", w)
  <2>1. PICK t \in F : t[3] <= x /\ x < t[3] + t[4]
    <3>1. x \in 0 .. 3 \/ x \in 4 .. 7 \/ x \in 8 .. 31
      BY <1>3
    <3>2. CASE x \in 0 .. 3
      BY <3>2
    <3>3. CASE x \in 4 .. 7
      BY <3>3
    <3>4. CASE x \in 8 .. 31
      BY <3>4
    <3> QED
      BY <3>1, <3>2, <3>3, <3>4
  <2>2. x - t[3] \in Slice(w, t[3], t[4])
    BY <2>1 DEF Slice
  <2>3. (x - t[3]) + t[3] = x
    BY <1>2, <1>3
  <2>4. x \in Shl(Taken(t, w), t[3])
    BY <1>2, <2>2, <2>3 DEF Shl
  <2> QED
    BY <1>1, <2>4 DEF Kept
<1> QED
  BY <1>4, <1>5

\* A value made of parts that fit their fields is kept.
LEMMA PackedIsKept ==
    ASSUME NEW c, NEW a \in RegisterAddress, NEW b \in {{}, One}, b = {} \/ a \in {"0x0009", "0x0202"},
           PartsFit(a, HostPart(c, b)), PartsLegal(a, HostPart(c, b))
    PROVE  KeptWrite(Write(a, Packed(c, a) \cup b))
<1>1. Packed(c, a) \cup b = Joined(a, HostPart(c, b))
  BY PackedIsJoined
<1>2. Joined(a, HostPart(c, b)) \in Word
  BY JoinedIsWord
<1>3. Kept(a, Joined(a, HostPart(c, b))) = Joined(a, HostPart(c, b))
  BY JoinedIsKept
<1> QED
  BY <1>1, <1>2, <1>3 DEF KeptWrite, Write

\* Nothing but zero is kept of zero where no field insists on one, and the laser has one bit.
LEMMA FlagsAreKept ==
    /\ KeptWrite(Write("0x020B", {})) /\ KeptWrite(Write("0x020B", One))
    /\ KeptWrite(Write("0x0202", {}))
<1>1. /\ FieldsOf("0x020B") = {<<"0x020B", "laser_mode", 0, 1>>}
      /\ FieldsOf("0x0202") = {<<"0x0202", "ultrafast_line_rec", 1, 31>>, <<"0x0202", "ultrafast_mode", 0, 1>>}
  BY DEF FieldsOf, RtlLayout
<1>2. \A l, n : Slice({}, l, n) = {}
  BY DEF Slice
<1>3. Slice(One, 0, 1) = One
  BY DEF Slice, One
<1>4. \A n : Shl({}, n) = {}
  BY DEF Shl
<1>5. Shl(One, 0) = One
  BY DEF Shl, One
<1>6. Kept("0x020B", {}) = {} /\ Kept("0x0202", {}) = {}
  BY <1>1, <1>2, <1>4 DEF Kept, Taken
<1>7. Kept("0x020B", One) = One
  <2> DEFINE t == <<"0x020B", "laser_mode", 0, 1>>
  <2>1. t[2] = "laser_mode" /\ t[3] = 0 /\ t[4] = 1
    OBVIOUS
  <2> HIDE DEF t
  <2>2. Taken(t, One) = One
    BY <1>3, <2>1 DEF Taken
  <2>3. Kept("0x020B", One) = UNION {Shl(Taken(u, One), u[3]) : u \in {t}}
    BY <1>1 DEF Kept, t
  <2>4. Kept("0x020B", One) = UNION {Shl(Taken(t, One), t[3])}
    BY <2>3
  <2> QED
    BY <1>5, <2>1, <2>2, <2>4
<1>8. {} \in Word /\ One \in Word
  BY DEF Word, One
<1>9. "0x020B" \in RegisterAddress /\ "0x0202" \in RegisterAddress
  BY DEF RegisterAddress, RtlLayout
<1> QED
  BY <1>6, <1>7, <1>8, <1>9 DEF KeptWrite, Write

\* What validation asks of the configuration of a plan.
Packable(c, kind) ==
    /\ ScanValid(c)
    /\ Fits(c.adc_sample, 32)
    /\ kind = "ultrafast" => UltrafastValid(c)
    /\ kind = "laser" => Dl5Valid(c)

\* The parameters of the scan are kept, ...
LEMMA ScanWriteIsKept ==
    ASSUME NEW c, DOMAIN c = AllField, ScanValid(c), Fits(c.adc_sample, 32),
           NEW a \in ScanAddress, a = "0x0000" => c.clk_sel # Omitted,
           NEW b \in {{}, One}, b = {} \/ a = "0x0009"
    PROVE  KeptWrite(Write(a, Packed(c, a) \cup b))
<1>1. a \in RegisterAddress
  BY DEF ScanAddress, RegisterAddress, RtlLayout
<1>2. PartsFit(a, HostPart(c, b)) /\ PartsLegal(a, HostPart(c, b))
  BY ScanFits
<1> QED
  BY <1>1, <1>2, PackedIsKept

\* ... and those of the mode.
LEMMA ModeStepIsKept ==
    ASSUME NEW c, DOMAIN c = AllField, NEW kind,
           kind = "ultrafast" => UltrafastValid(c), kind = "laser" => Dl5Valid(c),
           NEW x \in ModeStep(c, kind)
    PROVE  KeptWrite(x)
<1>0. /\ UltrafastAddress \subseteq RegisterAddress /\ LaserAddress \subseteq RegisterAddress
      /\ "0x0202" \in UltrafastAddress
  BY DEF UltrafastAddress, LaserAddress, RegisterAddress, RtlLayout
<1>u. ASSUME kind = "ultrafast", NEW a \in UltrafastAddress, NEW b \in {{}, One}, b = {} \/ a = "0x0202"
      PROVE  KeptWrite(Write(a, Packed(c, a) \cup b))
  <2>1. PartsFit(a, HostPart(c, b)) /\ PartsLegal(a, HostPart(c, b))
    BY <1>u, UltrafastFits
  <2> QED
    BY <1>0, <1>u, <2>1, PackedIsKept
<1>l. ASSUME kind = "laser", NEW a \in LaserAddress PROVE KeptWrite(Write(a, Packed(c, a) \cup {}))
  <2>1. PartsFit(a, HostPart(c, {})) /\ PartsLegal(a, HostPart(c, {}))
    BY <1>l, LaserFits
  <2> QED
    BY <1>0, <2>1, PackedIsKept
<1>e. \A a : Packed(c, a) \cup {} = Packed(c, a)
  OBVIOUS
<1>1. CASE kind = "ultrafast"
  <2>1. CASE x = Write("0x0202", Packed(c, "0x0202") \cup One)
    BY <1>0, <1>1, <1>u, <2>1
  <2>2. CASE \E a \in UltrafastAddress \ {"0x0202"} : x = Write(a, Packed(c, a))
    <3>1. PICK a \in UltrafastAddress : x = Write(a, Packed(c, a))
      BY <2>2
    <3>2. KeptWrite(Write(a, Packed(c, a) \cup {}))
      BY <1>1, <1>u
    <3> QED
      BY <1>e, <3>1, <3>2
  <2> QED
    BY <1>1, <2>1, <2>2 DEF ModeStep
<1>2. CASE kind = "laser"
  <2>1. CASE \E a \in LaserAddress : x = Write(a, Packed(c, a))
    <3>1. PICK a \in LaserAddress : x = Write(a, Packed(c, a))
      BY <2>1
    <3>2. KeptWrite(Write(a, Packed(c, a) \cup {}))
      BY <1>2, <1>l
    <3> QED
      BY <1>e, <3>1, <3>2
  <2>2. CASE x \in {Write("0x020B", {}), Write("0x020B", One)}
    BY <2>2, FlagsAreKept
  <2> QED
    BY <1>2, <2>1, <2>2 DEF ModeStep
<1> QED
  BY <1>1, <1>2 DEF ModeStep

\* All that apply_plan writes is kept.
LEMMA PlanIsKept ==
    ASSUME NEW cmd, Packable(ConfigOf(cmd), cmd.kind),
           NEW s, NEW g \in Nat, StepsLaid(cmd, s, g), NEW i \in 1 .. Len(s)
    PROVE  KeptWrite(s[i])
<1> DEFINE c == ConfigOf(cmd)
           m == Len(ScanRegisters(c))
<1>1. DOMAIN c = AllField
  BY DEF ConfigOf, AllField
<1>2. /\ ScanValid(c) /\ Fits(c.adc_sample, 32)
      /\ cmd.kind = "ultrafast" => UltrafastValid(c)
      /\ cmd.kind = "laser" => Dl5Valid(c)
  BY DEF Packable
<1>3. /\ Len(s) \in Nat /\ m \in {11, 12}
      /\ \A j \in 1 .. g : s[j] \in EntryStep(c, cmd.kind)
      /\ \A j \in 1 .. m : s[g + j] = Write(ScanRegisters(c)[j], Packed(c, ScanRegisters(c)[j]))
      /\ s[g + m + 1] = StopStep(c)
      /\ \A j \in g + m + 2 .. Len(s) : s[j] \in ModeStep(c, cmd.kind) \/ (Starts(cmd) /\ j = Len(s))
      /\ Starts(cmd) => s[Len(s)] = StartStep(c)
  BY DEF StepsLaid
<1>e. \A a : Packed(c, a) \cup {} = Packed(c, a)
  OBVIOUS
<1>4. KeptWrite(StopStep(c)) /\ KeptWrite(StartStep(c))
  <2>1. "0x0009" \in ScanAddress /\ "0x0009" # "0x0000"
    BY DEF ScanAddress
  <2> HIDE DEF c
  <2>2. \A b \in {{}, One} : KeptWrite(Write("0x0009", Packed(c, "0x0009") \cup b))
    BY <1>1, <1>2, <2>1, ScanWriteIsKept
  <2>3. KeptWrite(Write("0x0009", Packed(c, "0x0009") \cup {}))
    BY <2>2
  <2> QED
    BY <1>e, <2>2, <2>3 DEF StopStep, StartStep
<1>6. CASE i \in 1 .. g
  BY <1>3, <1>4, <1>6, FlagsAreKept DEF EntryStep
<1>7. CASE i \in g + 1 .. g + m
  <2>1. i - g \in 1 .. m /\ g + (i - g) = i
    BY <1>3, <1>7
  <2> DEFINE r == ScanRegisters(c)[i - g]
  <2>2. s[i] = Write(r, Packed(c, r))
    BY <1>3, <2>1
  <2>3. r \in ScanAddress /\ r # "0x0009"
    BY <2>1, ScanRegistersType DEF m
  <2>4. r = "0x0000" => c.clk_sel # Omitted
    BY <1>3, <2>1, ClockIsGiven
  <2> HIDE DEF r, c
  <2>5. KeptWrite(Write(r, Packed(c, r) \cup {}))
    BY <1>1, <1>2, <2>3, <2>4, ScanWriteIsKept
  <2> QED
    BY <1>e, <2>2, <2>5
<1>8. CASE i = g + m + 1
  BY <1>3, <1>4, <1>8
<1>9. CASE i \in g + m + 2 .. Len(s)
  <2>1. CASE s[i] \in ModeStep(c, cmd.kind)
    BY <1>1, <1>2, <2>1, ModeStepIsKept
  <2>2. CASE Starts(cmd) /\ i = Len(s)
    BY <1>3, <1>4, <2>2
  <2> QED
    BY <1>3, <1>9, <2>1, <2>2
<1>10. i \in 1 .. g \/ i \in g + 1 .. g + m \/ i = g + m + 1 \/ i \in g + m + 2 .. Len(s)
  BY <1>3
<1> QED
  BY <1>6, <1>7, <1>8, <1>9, <1>10

\* A step fewer to do, and a value more if the step was a read of 0x0009.
LEMMA EnoughAfter ==
    ASSUME NEW T, NEW t \in Seq(T), t # <<>>, NEW m \in Nat, Enough(t, m)
    PROVE  /\ Head(t).do = "state" => Head(t).n \in 1 .. m
           /\ Head(t).do = "control" => Enough(Tail(t), m + 1)
           /\ Head(t).do # "control" => Enough(Tail(t), m)
<1>1. /\ Len(t) \in Nat /\ Len(t) >= 1 /\ Head(t) = t[1] /\ Len(Tail(t)) = Len(t) - 1
      /\ \A i \in 1 .. Len(t) - 1 : Tail(t)[i] = t[i + 1]
  OBVIOUS
<1> DEFINE u == Tail(t)
           Before2(i) == \E j, k \in 1 .. i - 1 : j < k /\ t[j].do = "control" /\ t[k].do = "control"
<1>2. ASSUME NEW i \in 1 .. Len(t), t[i].do = "state"
      PROVE  /\ t[i].n \in {1, 2}
             /\ \/ t[i].n <= m
                \/ t[i].n <= m + 1 /\ \E j \in 1 .. i - 1 : t[j].do = "control"
                \/ Before2(i)
  BY <1>2 DEF Enough
<1>3. ASSUME Head(t).do = "state" PROVE Head(t).n \in 1 .. m
  <2>1. 1 \in 1 .. Len(t) /\ 1 .. 1 - 1 = {} /\ t[1].do = "state"
    BY <1>1, <1>3
  <2> QED
    BY <1>1, <1>2, <2>1
<1> HIDE DEF u
<1>5. ASSUME NEW i \in 1 .. Len(u) PROVE i + 1 \in 1 .. Len(t) /\ u[i] = t[i + 1] /\ (i + 1) - 1 = i
  BY <1>1 DEF u
<1>6. ASSUME NEW i \in 1 .. Len(u), NEW j \in 1 .. (i + 1) - 1, j # 1
      PROVE  j - 1 \in 1 .. i - 1 /\ u[j - 1] = t[j]
  <2>1. j - 1 \in 1 .. i - 1 /\ j - 1 \in 1 .. Len(t) - 1 /\ (j - 1) + 1 = j
    BY <1>5, <1>1, <1>6
  <2> QED
    BY <1>1, <2>1 DEF u
<1>7. ASSUME Head(t).do = "control" PROVE Enough(u, m + 1)
  <2> SUFFICES ASSUME NEW i \in 1 .. Len(u), u[i].do = "state"
               PROVE  /\ u[i].n \in {1, 2}
                      /\ \/ u[i].n <= m + 1
                         \/ u[i].n <= (m + 1) + 1 /\ \E j \in 1 .. i - 1 : u[j].do = "control"
    BY DEF Enough
  <2>1. i + 1 \in 1 .. Len(t) /\ u[i] = t[i + 1]
    BY <1>5
  <2>2. u[i].n \in {1, 2} /\ (u[i].n <= m \/ u[i].n <= m + 1 \/ Before2(i + 1))
    BY <1>2, <2>1
  <2>3. CASE Before2(i + 1)
    <3>1. PICK j, k \in 1 .. (i + 1) - 1 : j < k /\ t[k].do = "control"
      BY <2>3
    <3>2. k # 1
      BY <3>1
    <3>3. \E h \in 1 .. i - 1 : u[h].do = "control"
      BY <1>6, <3>1, <3>2
    <3>4. u[i].n <= (m + 1) + 1
      BY <2>2
    <3> QED
      BY <2>2, <3>3, <3>4
  <2>4. CASE u[i].n <= m \/ u[i].n <= m + 1
    BY <2>2, <2>4
  <2> QED
    BY <2>2, <2>3, <2>4
<1>8. ASSUME Head(t).do # "control" PROVE Enough(u, m)
  <2> SUFFICES ASSUME NEW i \in 1 .. Len(u), u[i].do = "state"
               PROVE  /\ u[i].n \in {1, 2}
                      /\ \/ u[i].n <= m
                         \/ u[i].n <= m + 1 /\ \E j \in 1 .. i - 1 : u[j].do = "control"
                         \/ \E j, k \in 1 .. i - 1 : j < k /\ u[j].do = "control" /\ u[k].do = "control"
    BY DEF Enough
  <2>1. i + 1 \in 1 .. Len(t) /\ u[i] = t[i + 1]
    BY <1>5
  <2>2. /\ u[i].n \in {1, 2}
        /\ \/ u[i].n <= m
           \/ u[i].n <= m + 1 /\ \E j \in 1 .. (i + 1) - 1 : t[j].do = "control"
           \/ Before2(i + 1)
    BY <1>2, <2>1
  <2>3. ASSUME NEW j \in 1 .. (i + 1) - 1, t[j].do = "control" PROVE j # 1 /\ j - 1 \in 1 .. i - 1 /\ u[j - 1].do = "control"
    <3>1. j # 1
      BY <1>1, <1>8, <2>3
    <3> QED
      BY <1>6, <2>3, <3>1
  <2>4. CASE u[i].n <= m + 1 /\ \E j \in 1 .. (i + 1) - 1 : t[j].do = "control"
    BY <2>2, <2>3, <2>4
  <2>5. CASE Before2(i + 1)
    <3>1. PICK j, k \in 1 .. (i + 1) - 1 : j < k /\ t[j].do = "control" /\ t[k].do = "control"
      BY <2>5
    <3>2. j - 1 \in 1 .. i - 1 /\ k - 1 \in 1 .. i - 1 /\ u[j - 1].do = "control" /\ u[k - 1].do = "control"
      BY <2>3, <3>1
    <3>3. j - 1 < k - 1
      BY <3>1
    <3> QED
      BY <2>2, <3>2, <3>3
  <2> QED
    BY <2>2, <2>4, <2>5
<1> QED
  BY <1>3, <1>7, <1>8 DEF u

\* What a command of this kind can do without being at fault itself.
Course(cmd, s) ==
    /\ \E T : s \in Seq(T)
    /\ \A i \in 1 .. Len(s) : Harmless(cmd, s[i])
    /\ Enough(s, 0)

\* All that apply_dl5_config reads comes first.
Prepares(cmd, q) ==
    /\ \A i \in 1 .. Len(q) : q[i].do # "state" /\ Harmless(cmd, q[i])
    /\ Stops(cmd) \/ Starts(cmd) => \E j \in 1 .. Len(q) : q[j].do = "control"
    /\ Stops(cmd) /\ Starts(cmd) =>
            \E j, k \in 1 .. Len(q) : j < k /\ q[j].do = "control" /\ q[k].do = "control"

\* Without a write of a state there is nothing to be read before.
LEMMA NothingToRead ==
    ASSUME NEW cmd, NEW T, NEW s \in Seq(T),
           \A i \in 1 .. Len(s) : s[i].do # "state" /\ Harmless(cmd, s[i])
    PROVE  Course(cmd, s)
BY DEF Course, Enough

\* The reads of apply_dl5_config and its validation.
LEMMA Dl5ReadsAre ==
    ASSUME NEW cmd, Dl5Valid(ConfigOf(cmd))
    PROVE  (\E T : Dl5Reads(cmd) \in Seq(T)) /\ Prepares(cmd, Dl5Reads(cmd))
<1> DEFINE x == ReadControl
           y == [do |-> "validate"]
           r == Dl5Reads(cmd)
           v == <<y>>
           R1 == IF Stops(cmd) THEN <<x>> ELSE <<>>
           R2 == IF Starts(cmd) THEN <<x>> ELSE <<>>
           T == {x, y}
           u == R1 \o v
<1>1. x.do = "control" /\ y.do = "validate"
  BY DEF ReadControl
<1>2. \A e \in T : e.do # "state" /\ Harmless(cmd, e)
  BY <1>1 DEF Harmless
<1>3. r = u \o R2
  BY DEF Dl5Reads
<1>4. /\ Stops(cmd) => R1 = <<x>>
      /\ ~Stops(cmd) => R1 = <<>>
      /\ Starts(cmd) => R2 = <<x>>
      /\ ~Starts(cmd) => R2 = <<>>
      /\ x \in T /\ y \in T
  OBVIOUS
<1> HIDE DEF x, y, r, R1, R2, T
<1>5. /\ Stops(cmd) => Len(R1) = 1 /\ R1[1] = x
      /\ Starts(cmd) => Len(R2) = 1 /\ R2[1] = x
      /\ Len(v) = 1 /\ v \in Seq(T) /\ R1 \in Seq(T) /\ R2 \in Seq(T)
  <2>1. ASSUME NEW e \in T PROVE Len(<<e>>) = 1 /\ <<e>>[1] = e /\ <<e>> \in Seq(T)
    OBVIOUS
  <2>2. Len(v) = 1 /\ v \in Seq(T) /\ <<>> \in Seq(T)
    BY <1>4, <2>1
  <2>3. <<x>> \in Seq(T) /\ Len(<<x>>) = 1 /\ <<x>>[1] = x
    BY <1>4, <2>1
  <2> QED
    BY <1>4, <2>2, <2>3
<1> HIDE DEF v
<1>6. u \in Seq(T) /\ Len(u) = Len(R1) + Len(v) /\ Len(R1) \in Nat /\ \A i \in 1 .. Len(R1) : u[i] = R1[i]
  <2>1. v \in Seq(T) /\ R1 \in Seq(T)
    BY <1>5
  <2> QED
    BY ONLY <2>1, Concatenated
<1> HIDE DEF u
<1>7. /\ r \in Seq(T) /\ Len(r) = Len(u) + Len(R2) /\ Len(R2) \in Nat
      /\ \A i \in 1 .. Len(u) : r[i] = u[i]
      /\ \A i \in 1 .. Len(R2) : r[Len(u) + i] = R2[i]
  <2>1. u \in Seq(T) /\ R2 \in Seq(T)
    BY <1>5, <1>6
  <2> QED
    BY ONLY <1>3, <2>1, Concatenated
<1>8. \A i \in 1 .. Len(r) : r[i] \in T
  BY <1>7
<1>9. Stops(cmd) => 1 \in 1 .. Len(r) /\ r[1] = x /\ 1 < Len(u) + 1
  BY <1>5, <1>6, <1>7
<1>10. Starts(cmd) => Len(u) + 1 \in 1 .. Len(r) /\ r[Len(u) + 1] = x
  <2> SUFFICES ASSUME Starts(cmd) PROVE Len(u) + 1 \in 1 .. Len(r) /\ r[Len(u) + 1] = x
    OBVIOUS
  <2>0. Len(R2) = 1 /\ R2[1] = x
    BY <1>5
  <2>1. Len(R2) = 1 /\ R2[1] = x /\ 1 \in 1 .. Len(R2)
    BY ONLY <2>0
  <2>2. Len(u) \in Nat
    BY <1>5, <1>6
  <2> QED
    BY <1>7, <2>1, <2>2
<1>11. /\ Stops(cmd) \/ Starts(cmd) => \E j \in 1 .. Len(r) : r[j].do = "control"
       /\ Stops(cmd) /\ Starts(cmd) =>
            \E j, k \in 1 .. Len(r) : j < k /\ r[j].do = "control" /\ r[k].do = "control"
  BY <1>1, <1>9, <1>10
<1> QED
  BY <1>2, <1>7, <1>8, <1>11 DEF Prepares, r

\* Its writes: the laser's, and the scan state as it was read.
LEMMA Dl5WritesAre ==
    ASSUME NEW cmd
    PROVE  LET w == Dl5Writes(cmd)
           IN  /\ \E T : w \in Seq(T)
               /\ \A i \in 1 .. Len(w) :
                    \/ w[i] \in ModeStep(ConfigOf(cmd), "laser")
                    \/ w[i] = WriteState(1, {}) /\ Stops(cmd)
                    \/ w[i] = WriteState(IF Stops(cmd) THEN 2 ELSE 1, One) /\ Starts(cmd)
<1> DEFINE c == ConfigOf(cmd)
           p == P(c)!SafeLaserPlan(c, LaserOn(c))
           x == WriteState(1, {})
           y == WriteState(IF Stops(cmd) THEN 2 ELSE 1, One)
           laser == [i \in 1 .. Len(p) |-> Concrete(c, p[i])]
           V == ModeStep(c, "laser") \cup (IF Stops(cmd) THEN {x} ELSE {}) \cup (IF Starts(cmd) THEN {y} ELSE {})
           A1 == IF Stops(cmd) THEN <<x>> ELSE <<>>
           B1 == IF Starts(cmd) THEN <<y>> ELSE <<>>
<1>1. Dl5Writes(cmd) = (A1 \o laser) \o B1
  BY DEF Dl5Writes
<1>2. laser \in Seq(V)
  <2>1. Len(p) \in Nat /\ \A i \in 1 .. Len(p) : Concrete(c, p[i]) \in V
    BY LaserSteps
  <2> HIDE DEF V, p, c
  <2> QED
    BY <2>1
<1>3. A1 \in Seq(V) /\ B1 \in Seq(V)
  <2>1. (Stops(cmd) => x \in V) /\ (Starts(cmd) => y \in V)
    OBVIOUS
  <2> HIDE DEF V, x, y
  <2> QED
    BY <2>1
<1>4. \A e \in V : \/ e \in ModeStep(c, "laser")
                   \/ e = x /\ Stops(cmd)
                   \/ e = y /\ Starts(cmd)
  OBVIOUS
<1> HIDE DEF V, x, y, laser, A1, B1, c
<1>5. Dl5Writes(cmd) \in Seq(V)
  BY <1>1, <1>2, <1>3
<1>6. \A i \in 1 .. Len(Dl5Writes(cmd)) : Dl5Writes(cmd)[i] \in V
  BY <1>5
<1> QED
  BY <1>4, <1>5, <1>6 DEF x, y, c

\* A command that ends with them, when all is read.
LEMMA Dl5Course ==
    ASSUME NEW cmd, Dl5Valid(ConfigOf(cmd)), NEW T, NEW q \in Seq(T), Prepares(cmd, q)
    PROVE  Course(cmd, q \o Dl5Writes(cmd))
<1> DEFINE w == Dl5Writes(cmd)
           s == q \o w
           c == ConfigOf(cmd)
<1>1. /\ \E U : w \in Seq(U)
      /\ \A i \in 1 .. Len(w) : \/ w[i] \in ModeStep(c, "laser")
                                \/ w[i] = WriteState(1, {}) /\ Stops(cmd)
                                \/ w[i] = WriteState(IF Stops(cmd) THEN 2 ELSE 1, One) /\ Starts(cmd)
  BY Dl5WritesAre
<1>2. DOMAIN c = AllField
  BY DEF ConfigOf, AllField
<1>3. \A x \in ModeStep(c, "laser") : KeptWrite(x)
  BY <1>2, ModeStepIsKept
<1>4. ASSUME NEW n, NEW b PROVE /\ WriteState(n, b).do = "state" /\ WriteState(n, b).n = n
                                /\ WriteState(n, b).bits = b
  BY DEF WriteState
<1>5. ASSUME NEW i \in 1 .. Len(w)
      PROVE  /\ Harmless(cmd, w[i])
             /\ w[i].do = "state" =>
                    /\ w[i].n \in {1, 2}
                    /\ Stops(cmd) \/ Starts(cmd)
                    /\ w[i].n = 2 => Stops(cmd) /\ Starts(cmd)
  <2>1. CASE w[i] \in ModeStep(c, "laser")
    BY <1>3, <2>1 DEF Harmless, KeptWrite
  <2>2. CASE w[i] = WriteState(1, {}) /\ Stops(cmd)
    BY <1>4, <2>2 DEF Harmless
  <2>3. CASE w[i] = WriteState(IF Stops(cmd) THEN 2 ELSE 1, One) /\ Starts(cmd)
    <3>1. CASE Stops(cmd)
      BY <1>4, <2>3, <3>1 DEF Harmless
    <3>2. CASE ~Stops(cmd)
      BY <1>4, <2>3, <3>2 DEF Harmless
    <3> QED
      BY <3>1, <3>2
  <2> QED
    BY <1>1, <2>1, <2>2, <2>3
<1> HIDE DEF w, c
<1>6. PICK U : w \in Seq(U)
  BY <1>1
<1> DEFINE V == T \cup U
<1>7. /\ s \in Seq(V) /\ Len(s) = Len(q) + Len(w) /\ Len(q) \in Nat /\ Len(w) \in Nat
      /\ \A i \in 1 .. Len(q) : s[i] = q[i]
      /\ \A i \in 1 .. Len(w) : s[Len(q) + i] = w[i]
  <2>1. q \in Seq(V) /\ w \in Seq(V)
    BY <1>6
  <2> HIDE DEF V
  <2> QED
    BY ONLY <2>1, Concatenated
<1> HIDE DEF V, s
<1>8. ASSUME NEW i \in 1 .. Len(s), i \notin 1 .. Len(q)
      PROVE  i - Len(q) \in 1 .. Len(w) /\ s[i] = w[i - Len(q)] /\ \A j \in 1 .. Len(q) : j \in 1 .. i - 1
  <2>1. i - Len(q) \in 1 .. Len(w) /\ Len(q) + (i - Len(q)) = i
    BY <1>7, <1>8
  <2>2. \A j \in 1 .. Len(q) : j \in 1 .. i - 1
    BY <1>7, <1>8
  <2> QED
    BY <1>7, <2>1, <2>2
<1>9. ASSUME NEW i \in 1 .. Len(s) PROVE Harmless(cmd, s[i])
  BY <1>5, <1>7, <1>8 DEF Prepares
<1>10. Enough(s, 0)
  <2> SUFFICES ASSUME NEW i \in 1 .. Len(s), s[i].do = "state"
               PROVE  /\ s[i].n \in {1, 2}
                      /\ \/ s[i].n <= 0 + 1 /\ \E j \in 1 .. i - 1 : s[j].do = "control"
                         \/ \E j, k \in 1 .. i - 1 : j < k /\ s[j].do = "control" /\ s[k].do = "control"
    BY DEF Enough
  <2>1. i \notin 1 .. Len(q)
    BY <1>7 DEF Prepares
  <2>2. /\ s[i].n \in {1, 2}
        /\ Stops(cmd) \/ Starts(cmd)
        /\ s[i].n = 2 => Stops(cmd) /\ Starts(cmd)
    BY <1>5, <1>8, <2>1
  <2>3. \E j \in 1 .. i - 1 : s[j].do = "control"
    BY <1>7, <1>8, <2>1, <2>2 DEF Prepares
  <2>4. CASE s[i].n = 2
    <3>1. PICK j, k \in 1 .. Len(q) : j < k /\ q[j].do = "control" /\ q[k].do = "control"
      BY <2>2, <2>4 DEF Prepares
    <3>2. s[j].do = "control" /\ s[k].do = "control" /\ j \in 1 .. i - 1 /\ k \in 1 .. i - 1
      BY <1>7, <1>8, <2>1, <3>1
    <3> QED
      BY <2>2, <3>1, <3>2
  <2>5. CASE s[i].n = 1
    BY <2>2, <2>3, <2>5
  <2> QED
    BY <2>2, <2>4, <2>5
<1> QED
  BY <1>7, <1>9, <1>10 DEF Course, s, w

\* What comes before the reads does not matter if it is a plan.
LEMMA PlanPrepares ==
    ASSUME NEW cmd, NEW T, NEW p \in Seq(T), \A i \in 1 .. Len(p) : KeptWrite(p[i]),
           NEW U, NEW q \in Seq(U), Prepares(cmd, q)
    PROVE  Prepares(cmd, p \o q)
<1> DEFINE V == T \cup U
           r == p \o q
<1>1. p \in Seq(V) /\ q \in Seq(V)
  OBVIOUS
<1> HIDE DEF V
<1>2. /\ r \in Seq(V) /\ Len(p) \in Nat /\ Len(q) \in Nat /\ Len(r) = Len(p) + Len(q)
      /\ \A i \in 1 .. Len(p) : r[i] = p[i]
      /\ \A i \in 1 .. Len(q) : r[Len(p) + i] = q[i]
  BY ONLY <1>1, Concatenated
<1> HIDE DEF r
<1>3. ASSUME NEW i \in 1 .. Len(r) PROVE r[i].do # "state" /\ Harmless(cmd, r[i])
  <2>1. CASE i \in 1 .. Len(p)
    BY <1>2, <2>1 DEF KeptWrite, Harmless
  <2>2. CASE i \notin 1 .. Len(p)
    <3>1. i - Len(p) \in 1 .. Len(q) /\ Len(p) + (i - Len(p)) = i
      BY <1>2, <2>2
    <3> QED
      BY <1>2, <3>1 DEF Prepares
  <2> QED
    BY <2>1, <2>2
<1>4. ASSUME NEW i \in 1 .. Len(q) PROVE Len(p) + i \in 1 .. Len(r) /\ r[Len(p) + i] = q[i]
  BY <1>2
<1>5. ASSUME Stops(cmd) \/ Starts(cmd) PROVE \E j \in 1 .. Len(r) : r[j].do = "control"
  <2>1. PICK j \in 1 .. Len(q) : q[j].do = "control"
    BY <1>5 DEF Prepares
  <2> QED
    BY <1>4, <2>1
<1>6. ASSUME Stops(cmd), Starts(cmd)
      PROVE  \E j, k \in 1 .. Len(r) : j < k /\ r[j].do = "control" /\ r[k].do = "control"
  <2>1. PICK j, k \in 1 .. Len(q) : j < k /\ q[j].do = "control" /\ q[k].do = "control"
    BY <1>6 DEF Prepares
  <2>2. Len(p) + j < Len(p) + k
    BY <1>2, <2>1
  <2>3. /\ Len(p) + j \in 1 .. Len(r) /\ Len(p) + k \in 1 .. Len(r)
        /\ r[Len(p) + j].do = "control" /\ r[Len(p) + k].do = "control"
    BY <1>4, <2>1
  <2> QED
    BY <2>2, <2>3
<1> QED
  BY <1>3, <1>5, <1>6 DEF Prepares, r

\* A single step, and a read of 0x0009 with the write that follows.
LEMMA ShortCourse ==
    ASSUME NEW cmd
    PROVE  /\ Course(cmd, <<>>)
           /\ \A x : x.do \in {"control", "read"} => Course(cmd, <<x>>)
           /\ \A b \in {{}, One} : Course(cmd, <<ReadControl>> \o <<WriteState(1, b)>>)
<1>1. Course(cmd, <<>>)
  BY DEF Course, Enough
<1>2. ASSUME NEW x, x.do \in {"control", "read"} PROVE Course(cmd, <<x>>)
  <2> DEFINE s == <<x>>
  <2>1. s \in Seq({x}) /\ Len(s) = 1 /\ s[1] = x
    OBVIOUS
  <2> HIDE DEF s
  <2>2. \A i \in 1 .. Len(s) : s[i] = x
    BY <2>1
  <2>3. \A i \in 1 .. Len(s) : s[i].do # "state" /\ Harmless(cmd, s[i])
    BY <1>2, <2>2 DEF Harmless
  <2> QED
    BY <2>1, <2>3, NothingToRead DEF s
<1>3. ASSUME NEW b \in {{}, One} PROVE Course(cmd, <<ReadControl>> \o <<WriteState(1, b)>>)
  <2> DEFINE x == ReadControl
             y == WriteState(1, b)
             T == {x, y}
             s == <<y>>
             r == <<x>> \o s
  <2>1. x.do = "control" /\ y.do = "state" /\ y.n = 1 /\ y.bits = b
    BY DEF ReadControl, WriteState
  <2>2. x \in T /\ y \in T
    OBVIOUS
  <2> HIDE DEF x, y, T
  <2>3. s \in Seq(T) /\ Len(s) = 1 /\ s[1] = y
    BY <2>2
  <2>a. r = <<x>> \o s
    OBVIOUS
  <2> HIDE DEF s, r
  <2>4. r \in Seq(T) /\ Len(r) = 1 + Len(s) /\ r[1] = x /\ \A i \in 1 .. Len(s) : r[1 + i] = s[i]
    <3>1. x \in T /\ s \in Seq(T)
      BY <2>2, <2>3
    <3> QED
      BY ONLY <3>1, <2>a, Prefixed
  <2>5. Len(r) = 2 /\ r[2] = y
    BY <2>3, <2>4
  <2>6. \A i \in 1 .. Len(r) : i = 1 \/ i = 2
    BY <2>5
  <2>7. \A i \in 1 .. Len(r) : Harmless(cmd, r[i])
    BY <2>1, <2>4, <2>5, <2>6 DEF Harmless
  <2>8. Enough(r, 0)
    <3>1. 1 \in 1 .. 2 - 1
      OBVIOUS
    <3>2. ASSUME NEW i \in 1 .. Len(r), r[i].do = "state"
          PROVE  r[i].n \in {1, 2} /\ r[i].n <= 0 + 1 /\ \E j \in 1 .. i - 1 : r[j].do = "control"
      <4>1. i = 2 /\ r[i] = y
        BY <2>1, <2>4, <2>5, <2>6, <3>2
      <4> QED
        BY <2>1, <2>4, <3>1, <4>1
    <3> QED
      BY <3>2 DEF Enough
  <2> QED
    BY <2>4, <2>7, <2>8 DEF Course, x, y, r, s
<1> QED
  BY <1>1, <1>2, <1>3

\* The steps of a command that is to exit with 0.
LEMMA BlamelessCourse ==
    ASSUME NEW cmd \in Given, Blameless(cmd) PROVE Course(cmd, StepsOf[cmd])
<1>1. /\ StepsOf[cmd] = Before(cmd) \o (IF Dry(cmd) THEN <<>> ELSE Sent(cmd))
      /\ cmd.kind \in Kind \ {"write", "write-checked"}
  BY SessionAssumption DEF StepsOf, Steps, Blameless
<1>7. ASSUME NEW T, Before(cmd) \in Seq(T)
      PROVE  StepsOf[cmd] = IF Dry(cmd) THEN Before(cmd) ELSE Before(cmd) \o Sent(cmd)
  <2> DEFINE b == Before(cmd)
  <2>1. b \in Seq(T)
    BY <1>7
  <2> HIDE DEF b
  <2>2. b \o <<>> = b
    BY <2>1
  <2> QED
    BY <1>1, <2>2 DEF b
<1>2. ASSUME cmd.kind \in PlanKinds \cup {"profile"}
      PROVE  /\ \E T : PlanOf(cmd) \in Seq(T)
             /\ \A i \in 1 .. Len(PlanOf(cmd)) : KeptWrite(PlanOf(cmd)[i])
  <2>1. PICK g \in Nat : StepsLaid(cmd, PlanOf(cmd), g)
    BY <1>2, PlanSteps
  <2>2. Packable(ConfigOf(cmd), cmd.kind)
    BY <1>2 DEF Packable, Blameless, AcceptedCommand, Accepted, PlanKinds, UltrafastValid
  <2>3. \E T : PlanOf(cmd) \in Seq(T)
    BY <2>1 DEF StepsLaid
  <2> QED
    BY <2>1, <2>2, <2>3, PlanIsKept
<1>3. CASE cmd.kind \in PlanKinds
  <2>1. Before(cmd) = <<>> /\ Sent(cmd) = PlanOf(cmd)
    BY <1>3 DEF Before, Sent, PlanKinds
  <2>2. PICK T : PlanOf(cmd) \in Seq(T)
    BY <1>2, <1>3
  <2>3. Course(cmd, PlanOf(cmd))
    <3>1. \A i \in 1 .. Len(PlanOf(cmd)) : PlanOf(cmd)[i].do # "state" /\ Harmless(cmd, PlanOf(cmd)[i])
      BY <1>2, <1>3 DEF KeptWrite, Harmless
    <3> QED
      BY <2>2, <3>1, NothingToRead
  <2>4. <<>> \o PlanOf(cmd) = PlanOf(cmd) /\ <<>> \in Seq(T)
    BY <2>2
  <2> QED
    BY <1>7, <2>1, <2>3, <2>4, ShortCourse
<1>4. CASE cmd.kind = "read"
  <2>1. Before(cmd) = <<[do |-> "read", address |-> cmd.address]>> /\ Sent(cmd) = <<>>
    BY <1>4 DEF Before, Sent, PlanKinds
  <2> DEFINE x == [do |-> "read", address |-> cmd.address]
  <2>2. x.do = "read"
    OBVIOUS
  <2> HIDE DEF x
  <2>3. <<x>> \o <<>> = <<x>>
    OBVIOUS
  <2>4. Course(cmd, <<x>>)
    BY <2>2, ShortCourse
  <2> QED
    BY <1>1, <2>1, <2>3, <2>4 DEF x
<1>5. CASE cmd.kind \in {"start", "stop"}
  <2>1. Before(cmd) = <<ReadControl>>
    BY <1>5 DEF Before, PlanKinds
  <2>2. PICK b \in {{}, One} : Sent(cmd) = <<WriteState(1, b)>>
    BY <1>5 DEF Sent, PlanKinds
  <2> DEFINE x == ReadControl
  <2>3. x.do = "control"
    BY DEF ReadControl
  <2> HIDE DEF x
  <2>x. Course(cmd, <<x>>)
    BY <2>3, ShortCourse
  <2>4. Course(cmd, <<ReadControl>>)
    BY <2>x DEF x
  <2>5. Course(cmd, <<ReadControl>> \o <<WriteState(1, b)>>)
    BY ShortCourse
  <2>y. <<x>> \in Seq({x})
    OBVIOUS
  <2>6. <<ReadControl>> \in Seq({x})
    BY <2>y DEF x
  <2> QED
    BY <1>7, <2>1, <2>2, <2>4, <2>5, <2>6
<1>6. CASE cmd.kind \in {"dl5", "profile"}
  <2> DEFINE r == Dl5Reads(cmd)
             q == Before(cmd)
  <2>1. Dl5Valid(ConfigOf(cmd))
    BY <1>6 DEF Blameless, HasDl5
  <2>2. (\E T : r \in Seq(T)) /\ Prepares(cmd, r)
    BY <2>1, Dl5ReadsAre
  <2>3. PICK T : r \in Seq(T)
    BY <2>2
  <2>4. \/ q = r
        \/ q = <<>> \o r
        \/ cmd.kind = "profile" /\ q = PlanOf(cmd) \o r
    BY <1>6 DEF Before, PlanKinds
  <2> HIDE DEF r, q
  <2>5. <<>> \o r = r
    BY <2>3
  <2>6. (\E V : q \in Seq(V)) /\ Prepares(cmd, q)
    <3>1. CASE q = r
      BY <2>2, <3>1
    <3>2. CASE cmd.kind = "profile" /\ q = PlanOf(cmd) \o r
      <4>1. PICK U : PlanOf(cmd) \in Seq(U)
        BY <1>2, <3>2
      <4>2. \A i \in 1 .. Len(PlanOf(cmd)) : KeptWrite(PlanOf(cmd)[i])
        BY <1>2, <3>2
      <4>3. Prepares(cmd, q)
        BY <2>2, <2>3, <3>2, <4>1, <4>2, PlanPrepares
      <4> DEFINE V == U \cup T
                 p == PlanOf(cmd)
      <4>4. p \in Seq(V) /\ r \in Seq(V)
        BY <2>3, <4>1
      <4> HIDE DEF V, p
      <4>5. p \o r \in Seq(V)
        BY <4>4
      <4> QED
        BY <3>2, <4>3, <4>5 DEF p
    <3> QED
      BY <2>4, <2>5, <3>1, <3>2
  <2>7. PICK V : q \in Seq(V)
    BY <2>6
  <2>8. Course(cmd, q)
    BY <2>6, <2>7, NothingToRead DEF Prepares
  <2>9. Course(cmd, q \o Dl5Writes(cmd))
    BY <2>1, <2>6, <2>7, Dl5Course
  <2>10. Sent(cmd) = Dl5Writes(cmd)
    BY <1>6 DEF Sent, PlanKinds
  <2> QED
    BY <1>7, <2>7, <2>8, <2>9, <2>10 DEF q
<1> QED
  BY <1>1, <1>3, <1>4, <1>5, <1>6 DEF Kind

(***************************************************************************)
(* A link without faults.  Behind the read that a call waits for nothing   *)
(* is on its way, before it only writes, and no answer is left behind.     *)
(***************************************************************************)
\* The answer has not been sent, and will be what the last write to its register leaves.
AnswerDue ==
    /\ replies = <<>>
    /\ requests # <<>>
    /\ requests[Len(requests)] = L!ReadRequest(call.address)
    /\ \A i \in 1 .. Len(requests) - 1 : L!IsWrite(requests[i])
    /\ call.op = "write_checked" =>
            IF Len(requests) = 1 THEN register[call.address] = Kept(call.address, call.value)
            ELSE requests[Len(requests) - 1] = L!WriteRequest(call.address, call.value)

\* It has been sent.
AnswerThere ==
    /\ requests = <<>>
    /\ Len(replies) = 1
    /\ Head(replies).address = call.address
    /\ call.op = "write_checked" => Head(replies).value = Kept(call.address, call.value)

CalmLink ==
    IF call = None THEN replies = <<>> /\ \A i \in 1 .. Len(requests) : L!IsWrite(requests[i])
    ELSE AnswerDue \/ AnswerThere

\* Nothing but writes before the last request, which is a read.
LEMMA DueIsQueued ==
    ASSUME LP!TypeOK, AnswerDue
    PROVE  /\ Len(requests) \in Nat \ {0}
           /\ Head(requests) = requests[1]
           /\ Len(Tail(requests)) = Len(requests) - 1
           /\ \A i \in 1 .. Len(requests) - 1 : Tail(requests)[i] = requests[i + 1]
           /\ L!IsWrite(Head(requests)) => Len(requests) > 1
           /\ L!IsRead(Head(requests)) => Len(requests) = 1 /\ Head(requests).address = call.address
<1>1. requests \in Seq(L!Request) /\ requests # <<>>
  BY LinkTypes DEF AnswerDue
<1>2. /\ Len(requests) \in Nat \ {0}
      /\ Head(requests) = requests[1]
      /\ Len(Tail(requests)) = Len(requests) - 1
      /\ \A i \in 1 .. Len(requests) - 1 : Tail(requests)[i] = requests[i + 1]
  BY <1>1
<1>3. ASSUME Len(requests) = 1 PROVE Head(requests) = L!ReadRequest(call.address)
  BY <1>2, <1>3 DEF AnswerDue
<1>4. ASSUME Len(requests) # 1 PROVE L!IsWrite(Head(requests)) /\ Len(requests) > 1
  <2>1. 1 \in 1 .. Len(requests) - 1 /\ Len(requests) > 1
    BY <1>2, <1>4
  <2> QED
    BY <1>2, <2>1 DEF AnswerDue
<1>5. ~(L!IsRead(Head(requests)) /\ L!IsWrite(Head(requests)))
  BY DEF L!IsRead, L!IsWrite
<1>6. L!IsRead(L!ReadRequest(call.address)) /\ L!ReadRequest(call.address).address = call.address
  BY DEF L!IsRead, L!ReadRequest
<1> QED
  BY <1>2, <1>3, <1>4, <1>5, <1>6

\* A read begins.
LEMMA CalmRead ==
    ASSUME LP!TypeOK, CalmLink, NEW a \in RegisterAddress, L!Read(a)
    PROVE  call' # None => AnswerDue' /\ call'.op = "read"
<1> DEFINE q == requests
           r == L!ReadRequest(a)
<1>1. call = None /\ replies = <<>> /\ \A i \in 1 .. Len(q) : L!IsWrite(q[i])
  BY DEF CalmLink, L!Read, L!Begin
<1>2. q' = Append(q, r) /\ replies' = <<>> /\ call'.op = "read" /\ call'.address = a
  BY <1>1 DEF L!Read, L!Begin
<1>3. q \in Seq(L!Request) /\ Len(q) \in Nat
  BY LinkTypes
<1> HIDE DEF q, r
<1>4. q' # <<>> /\ Len(q') = Len(q) + 1 /\ q'[Len(q) + 1] = r /\ \A i \in 1 .. Len(q) : q'[i] = q[i]
  BY <1>2, <1>3
<1>5. Len(q') - 1 = Len(q)
  BY <1>3, <1>4
<1>6. \A i \in 1 .. Len(q') - 1 : L!IsWrite(q'[i])
  BY <1>1, <1>4, <1>5
<1> QED
  BY <1>2, <1>4, <1>6 DEF AnswerDue, q, r

\* A write begins, with the read that verifies it.
LEMMA CalmWrite ==
    ASSUME LP!TypeOK, CalmLink, NEW a \in RegisterAddress, NEW v, L!WriteChecked(a, v)
    PROVE  AnswerDue'
<1> DEFINE q == requests
           w == L!WriteRequest(a, v)
           r == L!ReadRequest(a)
           two == <<w, r>>
<1>1. call = None /\ replies = <<>> /\ \A i \in 1 .. Len(q) : L!IsWrite(q[i])
  BY DEF CalmLink, L!WriteChecked, L!Begin
<1>2. q' = q \o two /\ replies' = <<>> /\ call'.op = "write_checked" /\ call'.address = a /\ call'.value = v
  BY <1>1 DEF L!WriteChecked, L!Begin
<1>3. q \in Seq(L!Request) /\ Len(q) \in Nat
  BY LinkTypes
<1>4. L!IsWrite(w)
  BY DEF L!IsWrite, L!WriteRequest
<1> DEFINE T == L!Request \cup {w, r}
<1>5. w \in T /\ r \in T /\ q \in Seq(T)
  BY <1>3
<1> HIDE DEF q, w, r, T
<1>6. two \in Seq(T) /\ Len(two) = 2 /\ two[1] = w /\ two[2] = r
  BY <1>5
<1> HIDE DEF two
<1>7. /\ Len(q') = Len(q) + Len(two)
      /\ \A i \in 1 .. Len(q) : q'[i] = q[i]
      /\ \A i \in 1 .. Len(two) : q'[Len(q) + i] = two[i]
  <2>1. q \o two \in Seq(T) /\ Len(q \o two) = Len(q) + Len(two)
    BY ONLY <1>5, <1>6, Concatenated
  <2>2. \A i \in 1 .. Len(q) : (q \o two)[i] = q[i]
    BY ONLY <1>5, <1>6, Concatenated
  <2>3. \A i \in 1 .. Len(two) : (q \o two)[Len(q) + i] = two[i]
    BY ONLY <1>5, <1>6, Concatenated
  <2> QED
    BY <1>2, <2>1, <2>2, <2>3
<1>8. Len(q') = Len(q) + 2 /\ q'[Len(q) + 1] = w /\ q'[Len(q) + 2] = r
  <2>1. 1 \in 1 .. Len(two) /\ 2 \in 1 .. Len(two)
    BY ONLY <1>6
  <2> QED
    BY <1>6, <1>7, <2>1
<1>9. Len(q') - 1 = Len(q) + 1 /\ Len(q') # 1 /\ Len(q') # 0
  BY <1>3, <1>8
<1>10. ASSUME NEW i \in 1 .. Len(q') - 1 PROVE L!IsWrite(q'[i])
  <2>1. i \in 1 .. Len(q) \/ i = Len(q) + 1
    BY <1>3, <1>9
  <2> QED
    BY <1>1, <1>4, <1>7, <1>8, <2>1
<1>11. q' # <<>>
  BY <1>9
<1> QED
  BY <1>2, <1>8, <1>9, <1>10, <1>11 DEF AnswerDue, q, w, r

\* The FPGA takes a write.
LEMMA CalmWriteTaken ==
    ASSUME LP!TypeOK, CalmLink, L!FpgaWrite PROVE CalmLink'
<1> DEFINE q == requests
           a == Head(q).address
<1>1. /\ q # <<>> /\ L!IsWrite(Head(q)) /\ q' = Tail(q)
      /\ UNCHANGED <<replies, call>>
      /\ register' = [register EXCEPT ![a] = Kept(a, Head(q).value)]
  BY LinkTypes DEF L!FpgaWrite
<1>2. CASE call = None
  <2>1. q \in Seq(L!Request)
    BY LinkTypes
  <2> HIDE DEF q
  <2>2. /\ Len(Tail(q)) = Len(q) - 1 /\ Len(q) \in Nat
        /\ \A i \in 1 .. Len(q) - 1 : i + 1 \in 1 .. Len(q) /\ Tail(q)[i] = q[i + 1]
    BY <1>1, <2>1
  <2>3. \A i \in 1 .. Len(q) : L!IsWrite(q[i])
    BY <1>2 DEF CalmLink, q
  <2>4. \A i \in 1 .. Len(q') : L!IsWrite(q'[i])
    BY <1>1, <2>2, <2>3
  <2> QED
    BY <1>1, <1>2, <2>4 DEF CalmLink, q
<1>3. CASE call # None /\ AnswerDue
  <2>1. /\ Len(q) \in Nat \ {0} /\ Len(q) > 1
        /\ Head(q) = q[1]
        /\ Len(Tail(q)) = Len(q) - 1
        /\ \A i \in 1 .. Len(q) - 1 : Tail(q)[i] = q[i + 1]
    BY <1>1, <1>3, DueIsQueued
  <2>2. /\ q[Len(q)] = L!ReadRequest(call.address)
        /\ \A i \in 1 .. Len(q) - 1 : L!IsWrite(q[i])
        /\ call.op = "write_checked" => q[Len(q) - 1] = L!WriteRequest(call.address, call.value)
    BY <1>3, <2>1 DEF AnswerDue
  <2>a. a \in RegisterAddress /\ register \in [RegisterAddress -> Word]
    BY <1>1, LinkTypes
  <2>3. call' = call /\ replies' = <<>>
    BY <1>1, <1>3 DEF AnswerDue
  <2> HIDE DEF q
  <2>4. Len(q') = Len(q) - 1 /\ Len(q') >= 1 /\ Len(q') \in Nat
    BY <1>1, <2>1
  <2>5. q'[Len(q')] = L!ReadRequest(call.address)
    <3>1. Len(q') \in 1 .. Len(q) - 1 /\ Len(q') + 1 = Len(q)
      BY <2>1, <2>4
    <3> QED
      BY <1>1, <2>1, <2>2, <3>1
  <2>6. ASSUME NEW i \in 1 .. Len(q') - 1 PROVE L!IsWrite(q'[i])
    <3>1. i \in 1 .. Len(q) - 1 /\ i + 1 \in 1 .. Len(q) - 1
      BY <2>1, <2>4
    <3> QED
      BY <1>1, <2>1, <2>2, <3>1
  <2>7. ASSUME call.op = "write_checked", Len(q') = 1 PROVE register'[call.address] = Kept(call.address, call.value)
    <3>1. Len(q) - 1 = 1
      BY <2>1, <2>4, <2>7
    <3>2. Head(q) = L!WriteRequest(call.address, call.value)
      BY <2>1, <2>2, <2>7, <3>1
    <3>3. a = call.address /\ Head(q).value = call.value
      BY <3>2 DEF L!WriteRequest
    <3> QED
      BY <1>1, <2>a, <3>3
  <2>8. ASSUME call.op = "write_checked", Len(q') # 1
        PROVE  q'[Len(q') - 1] = L!WriteRequest(call.address, call.value)
    <3>1. Len(q') - 1 \in 1 .. Len(q) - 1 /\ (Len(q') - 1) + 1 = Len(q) - 1
      BY <2>1, <2>4, <2>8
    <3> QED
      BY <1>1, <2>1, <2>2, <2>8, <3>1
  <2>9. q' # <<>>
    BY <2>4
  <2>10. AnswerDue'
    BY <2>3, <2>5, <2>6, <2>7, <2>8, <2>9 DEF AnswerDue, q
  <2> QED
    BY <1>3, <2>3, <2>10 DEF CalmLink
<1>4. CASE call # None /\ AnswerThere
  BY <1>1, <1>4 DEF AnswerThere
<1> QED
  BY <1>2, <1>3, <1>4 DEF CalmLink

\* The FPGA answers.
LEMMA CalmReadTaken ==
    ASSUME LP!TypeOK, CalmLink, L!FpgaRead PROVE CalmLink'
<1>1. /\ requests # <<>> /\ L!IsRead(Head(requests)) /\ requests' = Tail(requests) /\ UNCHANGED <<register, call>>
      /\ replies' = Append(replies, [address |-> Head(requests).address, value |-> register[Head(requests).address]])
  BY DEF L!FpgaRead
<1>2. call # None /\ AnswerDue
  <2>1. CASE call = None
    <3>1. 1 \in 1 .. Len(requests) /\ Head(requests) = requests[1]
      BY <1>1, LinkTypes
    <3> QED
      BY <1>1, <2>1, <3>1 DEF CalmLink, L!IsRead, L!IsWrite
  <2> QED
    BY <1>1, <2>1 DEF CalmLink, AnswerThere
<1>3. Len(requests) = 1 /\ Head(requests).address = call.address /\ Len(Tail(requests)) = 0
  <2> DEFINE n == Len(requests)
             k == Len(Tail(requests))
  <2>1. n = 1 /\ Head(requests).address = call.address /\ k = n - 1
    BY <1>1, <1>2, DueIsQueued
  <2> HIDE DEF n, k
  <2>2. k = 0
    BY <2>1
  <2> QED
    BY <2>1, <2>2 DEF n, k
<1> DEFINE x == [address |-> call.address, value |-> register[call.address]]
<1>4. replies' = Append(<<>>, x)
  BY <1>1, <1>2, <1>3 DEF AnswerDue
<1>5. x.address = call.address /\ x.value = register[call.address]
  OBVIOUS
<1>6. call.op = "write_checked" => register[call.address] = Kept(call.address, call.value)
  BY <1>2, <1>3 DEF AnswerDue
<1> HIDE DEF x
<1>7. Len(replies') = 1 /\ Head(replies') = x
  <2>1. Append(<<>>, x) \in Seq({x}) /\ Len(Append(<<>>, x)) = 1 /\ Append(<<>>, x)[1] = x
    OBVIOUS
  <2> QED
    BY <1>4, <2>1
<1>8. requests' = <<>>
  <2>1. requests \in Seq(L!Request)
    BY LinkTypes
  <2>2. Tail(requests) \in Seq(L!Request)
    BY <1>1, <2>1
  <2> QED
    BY <1>1, <1>3, <2>2
<1>9. AnswerThere'
  BY <1>1, <1>5, <1>6, <1>7, <1>8 DEF AnswerThere
<1> QED
  BY <1>1, <1>2, <1>9 DEF CalmLink

\* The call returns: what was written, if it is kept.
LEMMA CalmAnswer ==
    ASSUME LP!TypeOK, CalmLink, L!Receive
    PROVE  /\ CalmLink'
           /\ call' = None
           /\ call.op = "read" => outcome'.status = "value" /\ outcome'.value \in Word
           /\ call.op = "write_checked" /\ Kept(call.address, call.value) = call.value =>
                    outcome'.status = "verified"
<1>1. call # None /\ replies # <<>> /\ call' = None /\ replies' = Tail(replies) /\ requests' = requests
  BY DEF L!Receive, L!Finish
<1>2. AnswerThere
  BY <1>1 DEF CalmLink, AnswerDue
<1>3. Head(replies).address = call.address
  BY <1>2 DEF AnswerThere
<1>4. replies' = <<>>
  <2>1. replies \in Seq(L!Reply)
    BY LinkTypes
  <2>2. Tail(replies) \in Seq(L!Reply) /\ Len(Tail(replies)) = 0
    BY <1>1, <1>2, <2>1 DEF AnswerThere
  <2> QED
    BY <1>1, <2>2
<1>5. requests' = <<>> /\ Len(requests') = 0
  BY <1>1, <1>2 DEF AnswerThere
<1>6. CalmLink'
  BY <1>1, <1>4, <1>5 DEF CalmLink
<1>7. Head(replies).value \in Word
  BY <1>1, LinkTypes DEF L!Reply
<1>8. call.op = "read" => outcome'.status = "value" /\ outcome'.value \in Word
  BY <1>3, <1>7 DEF L!Receive, L!Finish
<1>9. call.op = "write_checked" => Head(replies).value = Kept(call.address, call.value)
  BY <1>2 DEF AnswerThere
<1>10. call.op = "write_checked" /\ Kept(call.address, call.value) = call.value => outcome'.status = "verified"
  BY <1>3, <1>9 DEF L!Receive, L!Finish
<1> QED
  BY <1>1, <1>6, <1>8, <1>10

(***************************************************************************)
(* The process on a link without faults.                                   *)
(***************************************************************************)
\* What the step that waits finds, or will find.
CalmStep ==
    waiting =>
        LET step == Head(todo)
        IN  /\ step.do \in {"control", "read"} =>
                    IF call = None THEN outcome.status = "value" /\ outcome.value \in Word
                    ELSE call.op = "read"
            /\ step.do \in WriteSteps /\ call = None /\ Kept(TargetOf(step), Written(step)) = Written(step) =>
                    outcome.status = "verified"

\* Nothing has failed, and what is still to do has what it needs.
OnCourse ==
    active /\ Blameless(Command) =>
        /\ ok
        /\ current \in Seq(Word)
        /\ \E T : todo \in Seq(T)
        /\ \A i \in 1 .. Len(todo) : Harmless(Command, todo[i])
        /\ Enough(todo, Len(current))

\* The commands that have ended.
CalmPast == \A i \in 1 .. Len(done) : Blameless(done[i]) => exits[i] = 0

CalmInv ==
    /\ faults \in Nat
    /\ faults = 0 => CalmLink /\ CalmStep /\ OnCourse /\ CalmPast

\* The link does not move.
LEMMA CalmLinkKept == ASSUME CalmLink, UNCHANGED <<register, requests, replies, call>> PROVE CalmLink'
BY DEF CalmLink, AnswerDue, AnswerThere

\* The process does not move.
LEMMA CourseKept ==
    ASSUME OnCourse, CalmPast, UNCHANGED processVars PROVE OnCourse' /\ CalmPast'
<1>1. UNCHANGED <<script, todo, active, ok, current, exits, done>>
  BY DEF processVars
<1>2. Command' = Command
  BY <1>1 DEF Command
<1>3. OnCourse'
  BY <1>1, <1>2 DEF OnCourse
<1>4. CalmPast'
  BY <1>1 DEF CalmPast
<1> QED
  BY <1>3, <1>4

\* Neither does what it waits for.
LEMMA CalmStepKept ==
    ASSUME CalmStep, UNCHANGED processVars, UNCHANGED <<call, outcome>> PROVE CalmStep'
<1>1. UNCHANGED <<todo, waiting, current>>
  BY DEF processVars
<1>2. TargetOf(Head(todo))' = TargetOf(Head(todo)) /\ Written(Head(todo))' = Written(Head(todo))
  BY <1>1 DEF TargetOf, Written, WrittenAfter
<1> QED
  BY <1>1, <1>2 DEF CalmStep

\* A command ends, with 0 if it is to.
LEMMA EndedCalmly ==
    ASSUME ProcessInv, CalmPast, NEW code \in Nat, Leave(code), script # <<>>, waiting' = FALSE,
           Blameless(Command) => code = 0
    PROVE  CalmStep' /\ OnCourse' /\ CalmPast'
<1>1. /\ done \in Seq(Given) /\ exits \in Seq(Nat) /\ Len(done) = Len(exits) /\ Command \in Given
      /\ done' = Append(done, Command) /\ exits' = Append(exits, code) /\ active' = FALSE
  BY DEF ProcessInv, Command, Leave
<1>2. Len(done') = Len(done) + 1 /\ Len(done) \in Nat
  BY <1>1
<1>3. ASSUME NEW i \in 1 .. Len(done'), Blameless(done'[i]) PROVE exits'[i] = 0
  <2>1. CASE i = Len(done) + 1
    <3>1. done'[i] = Command /\ exits'[i] = code
      BY <1>1, <2>1
    <3> QED
      BY <1>3, <3>1
  <2>2. CASE i \in 1 .. Len(done)
    <3>1. done'[i] = done[i] /\ exits'[i] = exits[i]
      BY <1>1, <2>2
    <3> QED
      BY <1>3, <2>2, <3>1 DEF CalmPast
  <2> QED
    BY <1>2, <2>1, <2>2
<1>4. CalmPast'
  BY <1>3 DEF CalmPast
<1>5. OnCourse'
  BY <1>1 DEF OnCourse
<1>6. CalmStep'
  BY DEF CalmStep
<1> QED
  BY <1>4, <1>5, <1>6

\* A command goes on to its next step.
LEMMA NextOnCourse ==
    ASSUME ProcessInv, OnCourse, active, todo # <<>>, todo' = Tail(todo), UNCHANGED <<script, active>>,
           Blameless(Command) =>
                /\ ok'
                /\ current' \in Seq(Word)
                /\ Len(current') = IF Head(todo).do = "control" THEN Len(current) + 1 ELSE Len(current)
    PROVE  OnCourse'
<1>1. Command' = Command
  BY DEF Command
<1>2. ASSUME Blameless(Command)
      PROVE  /\ \E T : todo' \in Seq(T)
             /\ \A i \in 1 .. Len(todo') : Harmless(Command, todo'[i])
             /\ Enough(todo', Len(current'))
  <2>1. /\ current \in Seq(Word) /\ Enough(todo, Len(current))
        /\ \A i \in 1 .. Len(todo) : Harmless(Command, todo[i])
    BY <1>2 DEF OnCourse
  <2>2. PICK T : todo \in Seq(T)
    BY <1>2 DEF OnCourse
  <2> DEFINE t == todo
             m == Len(current)
  <2>3. m \in Nat
    BY <2>1
  <2> HIDE DEF t, m
  <2>4. /\ Head(t).do = "control" => Enough(Tail(t), m + 1)
        /\ Head(t).do # "control" => Enough(Tail(t), m)
    BY <2>1, <2>2, <2>3, EnoughAfter DEF t, m
  <2>5. Enough(todo', Len(current'))
    BY <1>2, <2>4 DEF t, m
  <2>6. /\ Tail(t) \in Seq(T) /\ Len(Tail(t)) = Len(t) - 1 /\ Len(t) \in Nat
        /\ \A i \in 1 .. Len(t) - 1 : i + 1 \in 1 .. Len(t) /\ Tail(t)[i] = t[i + 1]
    BY <2>2 DEF t
  <2>7. \A i \in 1 .. Len(todo') : Harmless(Command, todo'[i])
    BY <2>1, <2>6 DEF t
  <2> QED
    BY <2>5, <2>6, <2>7 DEF t
<1>3. Blameless(Command) => ok' /\ current' \in Seq(Word)
  OBVIOUS
<1> QED
  BY <1>1, <1>2, <1>3 DEF OnCourse

\* A command begins.
LEMMA LaunchIsCalm ==
    ASSUME LP!TypeOK, ProcessInv, CalmLink, CalmPast, Launch
    PROVE  CalmLink' /\ CalmStep' /\ OnCourse' /\ CalmPast'
<1>0. script # <<>> /\ ~active /\ waiting' = FALSE /\ UNCHANGED <<register, requests, replies, call>> /\ current' = <<>>
  BY DEF Launch, ProcessInv, linkVars
<1>1. CalmLink'
  BY <1>0, CalmLinkKept
<1>2. CASE ~Safe(Command) /\ Leave(20)
  <2>1. ~Blameless(Command) /\ 20 \in Nat
    BY <1>2 DEF Blameless
  <2> QED
    BY <1>0, <1>1, <1>2, <2>1, EndedCalmly
<1>3. CASE Command \notin AcceptedCommand /\ Leave(2)
  <2>1. ~Blameless(Command) /\ 2 \in Nat
    BY <1>3 DEF Blameless
  <2> QED
    BY <1>0, <1>1, <1>3, <2>1, EndedCalmly
<1>4. CASE /\ Command \in AcceptedCommand /\ active' = TRUE /\ ok' = TRUE /\ todo' = StepsOf[Command]
           /\ UNCHANGED <<script, exits, done>>
  <2>1. Command' = Command /\ Command \in Given
    BY <1>4 DEF Command, AcceptedCommand
  <2>2. ASSUME Blameless(Command) PROVE Course(Command, StepsOf[Command])
    BY <2>1, <2>2, BlamelessCourse
  <2>3. current' \in Seq(Word) /\ Len(current') = 0
    BY <1>0
  <2>4. OnCourse'
    BY <1>4, <2>1, <2>2, <2>3 DEF OnCourse, Course
  <2>5. CalmPast'
    BY <1>4 DEF CalmPast
  <2>6. CalmStep'
    BY <1>0 DEF CalmStep
  <2> QED
    BY <1>1, <2>4, <2>5, <2>6
<1> QED
  BY <1>2, <1>3, <1>4 DEF Launch

\* A step of a command that is to exit with 0 can be sent.
LEMMA HarmlessFits ==
    ASSUME OnCourse, active, Blameless(Command), todo # <<>>
    PROVE  LET step == Head(todo)
           IN  /\ Harmless(Command, step)
               /\ step.do \in WriteSteps => Written(step) \in Word
<1> DEFINE step == Head(todo)
<1>1. /\ current \in Seq(Word) /\ Enough(todo, Len(current))
      /\ \A i \in 1 .. Len(todo) : Harmless(Command, todo[i])
  BY DEF OnCourse
<1>2. PICK T : todo \in Seq(T)
  BY DEF OnCourse
<1>3. 1 \in 1 .. Len(todo) /\ step = todo[1]
  BY <1>2
<1>4. Harmless(Command, step)
  BY <1>1, <1>3
<1>5. ASSUME step.do = "write" PROVE Written(step) \in Word
  BY <1>4, <1>5 DEF Harmless, KeptWrite, Written, WrittenAfter
<1>6. ASSUME step.do = "state" PROVE Written(step) \in Word
  <2>1. Len(current) \in Nat
    BY <1>1
  <2>2. step.n \in 1 .. Len(current)
    BY <1>1, <1>2, <1>6, <2>1, EnoughAfter
  <2>3. current[step.n] \in Word
    BY <1>1, <2>2
  <2>4. step.bits \in {{}, One}
    BY <1>4, <1>6 DEF Harmless, KeptWrite
  <2>5. step.bits \subseteq 0 .. 31
    BY <2>4 DEF One
  <2>6. Written(step) = (current[step.n] \ 0 .. 3) \cup step.bits
    BY <1>6 DEF Written, WrittenAfter
  <2> QED
    BY <2>3, <2>5, <2>6 DEF Word
<1> QED
  BY <1>4, <1>5, <1>6 DEF WriteSteps

\* A step is sent.
LEMMA IssueIsCalm ==
    ASSUME LP!TypeOK, ProcessInv, CalmLink, OnCourse, CalmPast, Issue
    PROVE  CalmLink' /\ CalmStep' /\ OnCourse' /\ CalmPast'
<1> DEFINE step == Head(todo)
           a == TargetOf(step)
<1>0. /\ active /\ waiting = FALSE /\ todo # <<>> /\ script # <<>> /\ ok' = ok /\ current' = current
      /\ call = None /\ Command \in Given
  BY DEF Issue, ProcessInv, AcceptedCommand
<1>1. ASSUME Blameless(Command) PROVE Harmless(Command, step) /\ (step.do \in WriteSteps => Written(step) \in Word)
  BY <1>0, <1>1, HarmlessFits
\* A request goes out and the process waits.
<1>w. ASSUME UNCHANGED <<script, todo, active, exits, done>> PROVE OnCourse' /\ CalmPast'
  <2>1. Command' = Command
    BY <1>w DEF Command
  <2>2. OnCourse'
    BY <1>0, <1>w, <2>1 DEF OnCourse
  <2>3. CalmPast'
    BY <1>w DEF CalmPast
  <2> QED
    BY <2>2, <2>3
\* It goes on without waiting.
<1>n. ASSUME UNCHANGED <<script, active, waiting, exits, done>>, todo' = Tail(todo), step.do # "control"
      PROVE  OnCourse' /\ CalmPast' /\ CalmStep'
  <2>1. ASSUME Blameless(Command) PROVE ok' /\ current' \in Seq(Word) /\ Len(current') = Len(current)
    BY <1>0, <2>1 DEF OnCourse
  <2>2. OnCourse'
    BY <1>0, <1>n, <2>1, NextOnCourse
  <2>3. CalmPast'
    BY <1>n DEF CalmPast
  <2>4. CalmStep'
    BY <1>0, <1>n DEF CalmStep
  <2> QED
    BY <2>2, <2>3, <2>4
<1>2. CASE /\ step.do \in {"control", "read"} /\ L!Read(a)
           /\ waiting' = TRUE /\ UNCHANGED <<script, todo, active, exits, done>>
  <2>1. a \in RegisterAddress
    BY <1>2 DEF L!Read
  <2>2. call' = [op |-> "read", address |-> a, value |-> None, left |-> Retries]
    BY <1>2 DEF L!Read, L!Begin
  <2>3. call' \in L!Call
    BY <2>1, <2>2, SessionAssumption DEF L!Call, L!Op
  <2>4. call' # None
    BY <2>3, SessionAssumption
  <2>5. AnswerDue' /\ call'.op = "read"
    BY <1>2, <2>1, <2>4, CalmRead
  <2>6. CalmLink'
    BY <2>4, <2>5 DEF CalmLink
  <2>7. Head(todo)' = step
    BY <1>2
  <2> HIDE DEF step, a
  <2>8. CalmStep'
    BY <1>2, <2>4, <2>5, <2>7 DEF CalmStep, WriteSteps
  <2> QED
    BY <1>2, <1>w, <2>6, <2>8
<1>3. CASE /\ step.do \in {"write", "state"} /\ Fits(Written(step), 32) /\ L!WriteChecked(a, Written(step))
           /\ waiting' = TRUE /\ UNCHANGED <<script, todo, active, exits, done>>
  <2>1. Written(step) \in Word /\ a \in RegisterAddress
    BY <1>3 DEF Fits, Word, L!WriteChecked
  <2>2. call' = [op |-> "write_checked", address |-> a, value |-> Written(step), left |-> Retries]
    BY <1>3 DEF L!WriteChecked, L!Begin
  <2>3. call' \in L!Call
    BY <2>1, <2>2, SessionAssumption DEF L!Call, L!Op
  <2>4. call' # None
    BY <2>3, SessionAssumption
  <2>5. AnswerDue'
    BY <1>3, <2>1, CalmWrite
  <2>6. CalmLink'
    BY <2>4, <2>5 DEF CalmLink
  <2>7. Head(todo)' = step
    BY <1>3
  <2> HIDE DEF step, a
  <2>8. CalmStep'
    BY <1>3, <2>4, <2>7 DEF CalmStep, WriteSteps
  <2> QED
    BY <1>3, <1>w, <2>6, <2>8
<1>4. CASE /\ step.do = "send" /\ L!Write(a, Written(step)) /\ todo' = Tail(todo)
           /\ UNCHANGED <<script, active, waiting, exits, done>>
  <2>1. call' = None /\ replies' = replies /\ requests' = Append(requests, L!WriteRequest(a, Written(step)))
    BY <1>0, <1>4 DEF L!Write
  <2> DEFINE q == requests
             r == L!WriteRequest(a, Written(step))
  <2>2. L!IsWrite(r)
    BY DEF L!IsWrite, L!WriteRequest
  <2>3. q \in Seq(L!Request) /\ Len(q) \in Nat
    BY LinkTypes
  <2>4. replies = <<>> /\ \A i \in 1 .. Len(q) : L!IsWrite(q[i])
    BY <1>0 DEF CalmLink
  <2> HIDE DEF q, r
  <2>5. Len(Append(q, r)) = Len(q) + 1 /\ Append(q, r)[Len(q) + 1] = r /\ \A i \in 1 .. Len(q) : Append(q, r)[i] = q[i]
    BY <2>3
  <2>6. \A i \in 1 .. Len(Append(q, r)) : L!IsWrite(Append(q, r)[i])
    <3>1. \A i \in 1 .. Len(Append(q, r)) : i \in 1 .. Len(q) \/ i = Len(q) + 1
      BY <2>3, <2>5
    <3> QED
      BY <2>2, <2>4, <2>5, <3>1
  <2>7. CalmLink'
    BY <2>1, <2>4, <2>6 DEF CalmLink, q, r
  <2>8. step.do # "control"
    BY <1>4
  <2> HIDE DEF step, a
  <2> QED
    BY <1>4, <1>n, <2>7, <2>8
<1>5. CASE /\ step.do \in {"write", "state", "send"} /\ ~Fits(Written(step), 32)
           /\ Leave(12) /\ UNCHANGED <<linkVars, captureVars, waiting>>
  <2>1. ~Blameless(Command)
    <3>1. SUFFICES ASSUME Blameless(Command) PROVE FALSE
      OBVIOUS
    <3>2. step.do # "send"
      BY <1>1, <3>1 DEF Harmless, KeptWrite
    <3>3. Written(step) \in Word
      BY <1>1, <1>5, <3>1, <3>2 DEF WriteSteps
    <3> QED
      BY <1>5, <3>3 DEF Fits, Word
  <2>2. CalmLink'
    BY <1>5, CalmLinkKept DEF linkVars
  <2>3. 12 \in Nat
    OBVIOUS
  <2> QED
    BY <1>0, <1>5, <2>1, <2>2, <2>3, EndedCalmly
<1>6. CASE /\ step.do = "validate" /\ todo' = Tail(todo)
           /\ UNCHANGED <<linkVars, captureVars, waiting, script, active, exits, done>>
  <2>1. step.do # "control"
    BY <1>6
  <2>2. CalmLink'
    BY <1>6, CalmLinkKept DEF linkVars
  <2> QED
    BY <1>6, <1>n, <2>1, <2>2
<1>7. CASE /\ step.do = "validate" /\ ~Dl5Valid(ConfigOf(Command))
           /\ Leave(2) /\ UNCHANGED <<linkVars, captureVars, waiting>>
  <2>1. ~Blameless(Command)
    BY <1>1, <1>7 DEF Harmless, KeptWrite
  <2>2. CalmLink'
    BY <1>7, CalmLinkKept DEF linkVars
  <2>3. 2 \in Nat
    OBVIOUS
  <2> QED
    BY <1>0, <1>7, <2>1, <2>2, <2>3, EndedCalmly
<1> QED
  BY <1>2, <1>3, <1>4, <1>5, <1>6, <1>7 DEF Issue

\* A call has returned.
LEMMA SettleIsCalm ==
    ASSUME LP!TypeOK, ProcessInv, CalmLink, CalmStep, OnCourse, CalmPast, Settle
    PROVE  CalmLink' /\ CalmStep' /\ OnCourse' /\ CalmPast'
<1> DEFINE step == Head(todo)
<1>0. /\ active /\ waiting /\ waiting' = FALSE /\ call = None /\ todo # <<>> /\ script # <<>> /\ WaitingFor(step)
      /\ UNCHANGED <<register, requests, replies, call>>
  BY DEF Settle, ProcessInv, linkVars
<1>1. CalmLink'
  BY <1>0, CalmLinkKept
<1>2. step.do \in {"control", "read"} => outcome.status = "value" /\ outcome.value \in Word
  BY <1>0 DEF CalmStep
<1>3. ASSUME Blameless(Command), step.do \notin {"control", "read"} PROVE outcome.status = "verified"
  <2>1. Harmless(Command, step)
    BY <1>0, <1>3, HarmlessFits
  <2>2. step.do \in WriteSteps /\ Written(step) \in Word
    BY <1>0, <1>3 DEF WaitingFor
  <2>3. Kept(TargetOf(step), Written(step)) = Written(step)
    <3>1. CASE step.do = "write"
      BY <2>1, <3>1 DEF Harmless, KeptWrite, TargetOf, Written, WrittenAfter
    <3>2. CASE step.do = "state"
      <4>1. TargetOf(step) = "0x0009"
        BY <3>2 DEF TargetOf
      <4> QED
        BY <2>2, <4>1, ControlIsWhole
    <3> QED
      BY <2>2, <3>1, <3>2 DEF WriteSteps
  <2> QED
    BY <1>0, <2>2, <2>3 DEF CalmStep
<1>4. ASSUME Blameless(Command) PROVE ok /\ current \in Seq(Word)
  BY <1>0, <1>4 DEF OnCourse
<1>5. CASE /\ step.do = "control"
           /\ current' = Append(current, IF outcome.status \in {"timeout", "protocol_error"} THEN {4} ELSE outcome.value)
           /\ todo' = Tail(todo) /\ UNCHANGED <<script, active, exits, done, ok>>
  <2>1. current' = Append(current, outcome.value) /\ outcome.value \in Word
    BY <1>2, <1>5
  <2>2. ASSUME Blameless(Command) PROVE ok' /\ current' \in Seq(Word) /\ Len(current') = Len(current) + 1
    BY <1>4, <1>5, <2>1, <2>2
  <2>3. OnCourse'
    BY <1>0, <1>5, <2>2, NextOnCourse
  <2>4. CalmPast'
    BY <1>5 DEF CalmPast
  <2> QED
    BY <1>0, <1>1, <2>3, <2>4 DEF CalmStep
<1>6. CASE /\ step.do # "control" /\ ok' = (ok /\ outcome.status # "mismatch") /\ todo' = Tail(todo)
           /\ UNCHANGED <<script, active, exits, done, current>>
  <2>1. ASSUME Blameless(Command) PROVE ok' /\ current' \in Seq(Word) /\ Len(current') = Len(current)
    <3>1. outcome.status \in {"value", "verified"}
      BY <1>2, <1>3, <2>1
    <3> QED
      BY <1>4, <1>6, <2>1, <3>1
  <2>2. OnCourse'
    BY <1>0, <1>6, <2>1, NextOnCourse
  <2>3. CalmPast'
    BY <1>6 DEF CalmPast
  <2> QED
    BY <1>0, <1>1, <2>2, <2>3 DEF CalmStep
<1>7. CASE /\ step.do # "control" /\ outcome.status \in {"timeout", "protocol_error"}
           /\ Leave(IF outcome.status = "timeout" THEN 10 ELSE 12)
  <2>1. ~Blameless(Command)
    BY <1>2, <1>3, <1>7
  <2>2. PICK code \in {10, 12} : Leave(code)
    BY <1>7
  <2>3. code \in Nat
    OBVIOUS
  <2> QED
    BY <1>0, <1>1, <2>1, <2>2, <2>3, EndedCalmly
<1> QED
  BY <1>5, <1>6, <1>7 DEF Settle

\* The last step was done.
LEMMA ExitIsCalm ==
    ASSUME ProcessInv, CalmLink, OnCourse, CalmPast, Exit
    PROVE  CalmLink' /\ CalmStep' /\ OnCourse' /\ CalmPast'
<1> DEFINE code == ResultExitCode(Command, ok)
<1>0. /\ active /\ waiting' = FALSE /\ script # <<>> /\ Leave(code) /\ ok \in BOOLEAN
      /\ UNCHANGED <<register, requests, replies, call>>
  BY DEF Exit, ProcessInv, linkVars
<1>1. CalmLink'
  BY <1>0, CalmLinkKept
<1>2. code \in Nat /\ (ok => code = 0)
  BY DEF ResultExitCode
<1>3. Blameless(Command) => ok
  BY <1>0 DEF OnCourse
<1> HIDE DEF code
<1> QED
  BY <1>0, <1>1, <1>2, <1>3, EndedCalmly

\* The link moves: what answers the call is under way, so no time-out can come first, and
\* no answer is left to the socket of the next process.
LEMMA LinkIsCalm ==
    ASSUME LP!TypeOK, ProcessInv, CalmLink, CalmStep, faults = 0, faults' = 0,
           \/ Receive \/ Retry \/ GiveUp \/ Reopen
           \/ FpgaWrite \/ FpgaRead \/ FpgaReadBusy \/ LoseRequest \/ CaptureEnds
    PROVE  CalmLink' /\ CalmStep' /\ UNCHANGED processVars
<1>1. ~Fault
  BY DEF Fault
<1>2. ~(Retry \/ GiveUp)
  <2>1. ASSUME call # None PROVE ~(requests = <<>> /\ replies = <<>>)
    <3>1. CASE AnswerDue
      BY <3>1 DEF AnswerDue
    <3>2. CASE AnswerThere
      BY <3>2, LinkTypes DEF AnswerThere
    <3> QED
      BY <2>1, <3>1, <3>2 DEF CalmLink
  <2> QED
    BY <1>1, <2>1 DEF Retry, GiveUp, L!Retry, L!GiveUp, TimesOut
<1>3. ~Reopen
  <2>1. ASSUME Reopen PROVE FALSE
    <3>1. ~active /\ call = None /\ 1 .. Len(replies) # {}
      BY <2>1 DEF Reopen, L!Reopen
    <3>2. replies = <<>>
      BY <3>1 DEF CalmLink
    <3> QED
      BY <3>1, <3>2
  <2> QED
    BY <2>1
<1>4. ~(FpgaReadBusy \/ LoseRequest \/ CaptureEnds)
  BY <1>1 DEF FpgaReadBusy, LoseRequest, CaptureEnds
<1>5. CASE FpgaWrite
  <2>1. CalmLink'
    BY <1>5, CalmWriteTaken DEF FpgaWrite
  <2>2. UNCHANGED processVars /\ UNCHANGED <<call, outcome>>
    BY <1>5 DEF FpgaWrite, L!FpgaWrite
  <2> QED
    BY <2>1, <2>2, CalmStepKept
<1>6. CASE FpgaRead
  <2>1. CalmLink'
    BY <1>6, CalmReadTaken DEF FpgaRead
  <2>2. UNCHANGED processVars /\ UNCHANGED <<call, outcome>>
    BY <1>6 DEF FpgaRead, L!FpgaRead
  <2> QED
    BY <2>1, <2>2, CalmStepKept
<1>7. CASE Receive
  <2> DEFINE step == Head(todo)
  <2>1. UNCHANGED processVars /\ call # None /\ waiting /\ WaitingFor(step)
    BY <1>7 DEF Receive, L!Receive, ProcessInv
  <2>2. /\ CalmLink' /\ call' = None
        /\ call.op = "read" => outcome'.status = "value" /\ outcome'.value \in Word
        /\ call.op = "write_checked" /\ Kept(call.address, call.value) = call.value =>
                outcome'.status = "verified"
    BY <1>7, CalmAnswer DEF Receive
  <2>3. Head(todo)' = step /\ TargetOf(step)' = TargetOf(step) /\ Written(step)' = Written(step)
    BY <2>1 DEF processVars, TargetOf, Written, WrittenAfter
  <2>4. step.do \in {"control", "read"} => call.op = "read"
    BY <2>1 DEF CalmStep
  <2>5. step.do \in WriteSteps =>
            call.op = "write_checked" /\ call.address = TargetOf(step) /\ call.value = Written(step)
    BY <2>1 DEF WaitingFor, WriteSteps
  <2>6. CalmStep'
    BY <2>2, <2>3, <2>4, <2>5 DEF CalmStep
  <2> QED
    BY <2>1, <2>2, <2>6
<1> QED
  BY <1>2, <1>3, <1>4, <1>5, <1>6, <1>7

\* What went wrong is only counted up.
LEMMA FaultsAreCounted ==
    ASSUME faults \in Nat, [Next]_vars PROVE faults' \in Nat /\ (faults' = 0 => faults = 0)
<1>1. faults' = faults \/ faults' = faults + 1
  BY DEF Next, vars, Fault, TimesOut, Launch, LoseRequest, Issue, Settle, Exit, Receive, Retry, GiveUp, Reopen,
         FpgaWrite, FpgaRead, FpgaReadBusy, CaptureEnds, CaptureRestarts, RunAudit, Over
<1> QED
  BY <1>1

\* Every step keeps it so.
LEMMA CalmInvStep == ASSUME LP!TypeOK, ProcessInv, CalmInv, [Next]_vars PROVE CalmInv'
<1>1. faults' \in Nat /\ (faults' = 0 => faults = 0)
  BY FaultsAreCounted DEF CalmInv
<1>2. ASSUME faults' = 0 PROVE CalmLink' /\ CalmStep' /\ OnCourse' /\ CalmPast'
  <2>1. faults = 0 /\ CalmLink /\ CalmStep /\ OnCourse /\ CalmPast
    BY <1>1, <1>2 DEF CalmInv
  <2>2. CASE Launch
    BY <2>1, <2>2, LaunchIsCalm
  <2>3. CASE Issue
    BY <2>1, <2>3, IssueIsCalm
  <2>4. CASE Settle
    BY <2>1, <2>4, SettleIsCalm
  <2>5. CASE Exit
    BY <2>1, <2>5, ExitIsCalm
  <2>6. CASE \/ Receive \/ Retry \/ GiveUp \/ Reopen
             \/ FpgaWrite \/ FpgaRead \/ FpgaReadBusy \/ LoseRequest \/ CaptureEnds
    <3>1. CalmLink' /\ CalmStep' /\ UNCHANGED processVars
      BY <1>2, <2>1, <2>6, LinkIsCalm
    <3> QED
      BY <2>1, <3>1, CourseKept
  <2>7. CASE CaptureRestarts \/ RunAudit \/ Over \/ UNCHANGED vars
    <3>1. UNCHANGED processVars /\ UNCHANGED <<register, requests, replies, call, outcome>>
      BY <2>7 DEF CaptureRestarts, RunAudit, Over, vars, linkVars
    <3> QED
      BY <2>1, <3>1, CalmLinkKept, CalmStepKept, CourseKept
  <2> QED
    BY <2>2, <2>3, <2>4, <2>5, <2>6, <2>7 DEF Next
<1> QED
  BY <1>1, <1>2 DEF CalmInv

\* It is so at the start.
LEMMA CalmInvInit == Init => CalmInv
<1> SUFFICES ASSUME Init PROVE CalmInv
  OBVIOUS
<1>1. /\ call = None /\ replies = <<>> /\ requests = <<>> /\ waiting = FALSE /\ active = FALSE /\ done = <<>>
      /\ faults = 0
  BY DEF Init, L!Init
<1>2. CalmLink
  BY <1>1 DEF CalmLink
<1>3. CalmStep /\ OnCourse
  BY <1>1 DEF CalmStep, OnCourse
<1>4. CalmPast
  BY <1>1 DEF CalmPast
<1> QED
  BY <1>1, <1>2, <1>3, <1>4 DEF CalmInv

\* Without a fault on the way every command that passes validation exits with 0, except single
\* writes, of any value, and an adc_sample past 32 bits; scan start and stop, which write back
\* what they read, and profiles included.  No value that the host packs loses a bit in the FPGA,
\* and no answer is taken for that of another call.
THEOREM AcceptedMeansVerifiedAlways == Spec => []AcceptedMeansVerified
<1> DEFINE I == LP!TypeOK /\ ProcessInv /\ CalmInv
<1>1. Init => I
  BY LinkTypedInit, ProcessInit, CalmInvInit
<1>2. I /\ [Next]_vars => I'
  BY LinkTypedStep, ProcessStep, CalmInvStep
<1>3. I => AcceptedMeansVerified
  BY DEF CalmInv, CalmPast, Blameless, AcceptedMeansVerified
<1> QED
  BY <1>1, <1>2, <1>3, PTL DEF Spec
=============================================================================
