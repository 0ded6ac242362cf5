----------------------------- MODULE RegisterFields -----------------------------
(***************************************************************************)
(* How the host packs a configuration into registers (ScanConfig,          *)
(* Dl5Config and the mode configurations of fpga_host/core/control) and    *)
(* which bits of a register the FPGA keeps, and as what                    *)
(* (command_monitor_new).                                                  *)
(*                                                                         *)
(* A number is the set of its one bits: | is union, << adds to each bit, & *)
(* is intersection.  Neither side has a width until the code gives it one. *)
(***************************************************************************)
EXTENDS Naturals, FiniteSets

CONSTANT Omitted     \* None in a field of ScanConfig

Shl(v, n) == {b + n : b \in v}

\* v[lsb + width - 1 : lsb]
Slice(v, lsb, width) == {b - lsb : b \in {x \in v : lsb <= x /\ x < lsb + width}}

Fits(v, width) == v \subseteq 0 .. width - 1

\* The sums and products below stay under 2^Wide.
Wide == 72

Plus(v, w) ==
    LET carry[i \in 0 .. Wide] ==
            /\ i > 0
            /\ \/ i - 1 \in v /\ i - 1 \in w
               \/ (i - 1 \in v \/ i - 1 \in w) /\ carry[i - 1]
    IN  {i \in 0 .. Wide : ((i \in v) # (i \in w)) # carry[i]}

\* v * w, one partial product for each bit of v.
Times(v, w) ==
    LET sum[i \in 0 .. Wide] ==
            IF i = 0 THEN {} ELSE IF i - 1 \in v THEN Plus(sum[i - 1], Shl(w, i - 1)) ELSE sum[i - 1]
    IN  sum[Wide]

Less(v, w) == \E i \in w \ v : \A j \in v \ w : j < i

One == {0}
Two == {1}
-----------------------------------------------------------------------------
(***************************************************************************)
(* The host.                                                               *)
(***************************************************************************)
\* What to_registers computes before it packs: effective_adc_len_single,
\* effective_dacx_tk_point and channel_count_to_mask.
Effective(c) ==
    [c EXCEPT !.adc_len_single = IF @ = Omitted THEN Times(c.rows, c.cols) ELSE @,
              !.dacx_tk_point = IF @ = Omitted THEN c.cols ELSE @,
              !.adc_channel = CASE @ = {0} -> {0} [] @ = {1} -> {0, 1} [] OTHER -> 0 .. 3]

\* Variant: the frame length is checked against the register, not the field.
ScanWidthLoose ==
    {<<f, 16>> : f \in {"rows", "cols", "dacx_strat_level", "dacx_end_level", "dacx_recovery_time",
                        "dacy_strat_level", "dacy_end_level", "row_repeat", "row_m", "row_n",
                        "dacx_tk_point"}}
        \cup {<<f, 2>> : f \in {"adc1_gain", "adc2_gain", "adc3_gain", "adc4_gain",
                                "dacx_gain", "dacy_gain"}}
        \cup {<<f, 32>> : f \in {"frame_waiting_time", "dax_fall_time"}}
        \cup {<<"adc_interval", 24>>, <<"scan_mode", 4>>, <<"adc_len_single", 28>>}

\* The widths ScanConfig.validate checks; adc_sample has none.
ScanWidth ==
    {<<f, 16>> : f \in {"rows", "cols", "dacx_strat_level", "dacx_end_level", "dacx_recovery_time",
                        "dacy_strat_level", "dacy_end_level", "row_repeat", "row_m", "row_n",
                        "dacx_tk_point"}}
        \cup {<<f, 2>> : f \in {"adc1_gain", "adc2_gain", "adc3_gain", "adc4_gain",
                                "dacx_gain", "dacy_gain"}}
        \cup {<<f, 32>> : f \in {"frame_waiting_time", "dax_fall_time"}}
        \cup {<<"adc_interval", 24>>, <<"scan_mode", 4>>, <<"adc_len_single", 21>>}

\* ScanConfig.validate.
ScanValid(c) ==
    /\ c.adc_sample = c.dac_sample
    /\ c.adc_channel \in {{0}, {1}, {2}}
    /\ c.clk_sel \in {Omitted, {}, One}
    /\ \A f \in {"rows", "cols", "adc_sample", "row_repeat", "row_n", "dacx_tk_point"} :
          Effective(c)[f] # {}
    /\ \A t \in ScanWidth : Fits(Effective(c)[t[1]], t[2])
    /\ c.dacx_strat_level # c.dacx_end_level

\* UltrafastModeConfig.validate.
UltrafastValid(c) ==
    /\ ScanValid(c)
    /\ \A f \in {"ultrafast_line_rec", "adc_acq_delay", "acq_dead_time"} : Fits(c[f], 32)
    /\ \A f \in {"sync_delay1", "sync_delay2", "sync1_width", "sync2_width"} : Fits(c[f], 16)
    /\ Less(Plus(Plus(c.adc_acq_delay, c.acq_dead_time), Two), c.adc_sample)

\* Dl5Config.validate.
Dl5Valid(c) ==
    /\ c.laser_mode \in {{}, One}
    /\ \A f \in {"scan_delay", "blanker_delay", "blanker_time", "acq_delay", "acq_time"} :
          Fits(c[f], 16)
    /\ c.laser_mode = One => ~Less(c.acq_time, Two)

\* The shifts of to_registers and of the plans: register, field, place.
HostLayout ==
    {<<"0x0000", "clk_sel", 0>>,
     <<"0x0001", "adc_len_single", 4>>, <<"0x0001", "adc_channel", 0>>,
     <<"0x0002", "adc_sample", 0>>,
     <<"0x0003", "adc1_gain", 0>>, <<"0x0003", "adc2_gain", 2>>, <<"0x0003", "adc3_gain", 4>>,
     <<"0x0003", "adc4_gain", 6>>, <<"0x0003", "dacx_gain", 8>>, <<"0x0003", "dacy_gain", 10>>,
     <<"0x0004", "rows", 16>>, <<"0x0004", "cols", 0>>,
     <<"0x0005", "dacx_strat_level", 16>>, <<"0x0005", "dacx_end_level", 0>>,
     <<"0x0006", "dacx_tk_point", 16>>, <<"0x0006", "dacx_recovery_time", 0>>,
     <<"0x0007", "dacy_strat_level", 16>>, <<"0x0007", "dacy_end_level", 0>>,
     <<"0x0008", "frame_waiting_time", 0>>, <<"0x000F", "dax_fall_time", 0>>,
     <<"0x0013", "row_repeat", 0>>, <<"0x0014", "row_m", 16>>, <<"0x0014", "row_n", 0>>,
     <<"0x0009", "adc_interval", 8>>, <<"0x0009", "scan_mode", 4>>}

UltrafastLayout ==
    {<<"0x0200", "sync1_width", 0>>, <<"0x0205", "sync2_width", 0>>, <<"0x0201", "adc_acq_delay", 0>>,
     <<"0x0203", "sync_delay1", 16>>, <<"0x0203", "sync_delay2", 0>>, <<"0x0204", "acq_dead_time", 0>>,
     <<"0x0202", "ultrafast_line_rec", 1>>}

Dl5Layout ==
    {<<"0x0206", "scan_delay", 0>>, <<"0x0207", "blanker_delay", 0>>, <<"0x0208", "blanker_time", 0>>,
     <<"0x0209", "acq_delay", 0>>, <<"0x020A", "acq_time", 0>>, <<"0x020B", "laser_mode", 0>>}

\* The value a plan gives a register.  Of ultrafast_line_rec, 31 bits are used.
Packed(c, a) ==
    LET part(t) == IF t[2] = "ultrafast_line_rec" THEN c[t[2]] \cap 0 .. 30 ELSE Effective(c)[t[2]]
    IN  UNION {Shl(part(t), t[3]) : t \in {u \in HostLayout \cup UltrafastLayout \cup Dl5Layout : u[1] = a}}
-----------------------------------------------------------------------------
(***************************************************************************)
(* The FPGA: register, field, lowest bit, width in the write and the read  *)
(* table.                                                                  *)
(***************************************************************************)
RtlLayout ==
    {<<"0x0000", "clk_sel", 0, 1>>,
     <<"0x0001", "adc_len_single", 4, 21>>, <<"0x0001", "adc_channel", 0, 4>>,
     <<"0x0002", "adc_sample", 0, 32>>,
     <<"0x0003", "adc1_gain", 0, 2>>, <<"0x0003", "adc2_gain", 2, 2>>, <<"0x0003", "adc3_gain", 4, 2>>,
     <<"0x0003", "adc4_gain", 6, 2>>, <<"0x0003", "dacx_gain", 8, 2>>, <<"0x0003", "dacy_gain", 10, 2>>,
     <<"0x0004", "rows", 16, 16>>, <<"0x0004", "cols", 0, 16>>,
     <<"0x0005", "dacx_strat_level", 16, 16>>, <<"0x0005", "dacx_end_level", 0, 16>>,
     <<"0x0006", "dacx_tk_point", 16, 16>>, <<"0x0006", "dacx_recovery_time", 0, 16>>,
     <<"0x0007", "dacy_strat_level", 16, 16>>, <<"0x0007", "dacy_end_level", 0, 16>>,
     <<"0x0008", "frame_waiting_time", 0, 32>>, <<"0x000F", "dax_fall_time", 0, 32>>,
     <<"0x0013", "row_repeat", 0, 16>>, <<"0x0014", "row_m", 16, 16>>, <<"0x0014", "row_n", 0, 16>>,
     <<"0x0009", "adc_interval", 8, 24>>, <<"0x0009", "scan_mode", 4, 4>>, <<"0x0009", "scan_state", 0, 4>>,
     <<"0x0200", "sync1_width", 0, 16>>, <<"0x0205", "sync2_width", 0, 16>>,
     <<"0x0201", "adc_acq_delay", 0, 32>>,
     <<"0x0203", "sync_delay1", 16, 16>>, <<"0x0203", "sync_delay2", 0, 16>>,
     <<"0x0204", "acq_dead_time", 0, 32>>,
     <<"0x0202", "ultrafast_line_rec", 1, 31>>, <<"0x0202", "ultrafast_mode", 0, 1>>,
     <<"0x0206", "scan_delay", 0, 16>>, <<"0x0207", "blanker_delay", 0, 16>>,
     <<"0x0208", "blanker_time", 0, 16>>, <<"0x0209", "acq_delay", 0, 16>>,
     <<"0x020A", "acq_time", 0, 16>>, <<"0x020B", "laser_mode", 0, 1>>}

RegisterAddress == {t[1] : t \in RtlLayout}

FieldsOf(a) == {t \in RtlLayout : t[1] = a}

\* The fields after a reset; those that are not listed are zero.
ResetFields ==
    [adc_len_single |-> {0}, adc_channel |-> 0 .. 3, adc_sample |-> {1, 4, 5},
     adc1_gain |-> {1}, adc2_gain |-> {1}, adc3_gain |-> {1}, adc4_gain |-> {1},
     dacx_gain |-> {0, 1}, dacy_gain |-> {0, 1}, rows |-> {10}, cols |-> {10},
     dacx_strat_level |-> {15}, dacx_end_level |-> {15}, dacx_tk_point |-> {7},
     dacx_recovery_time |-> {0}, dacy_strat_level |-> {15}, dacy_end_level |-> {15},
     dax_fall_time |-> {2, 4}, adc_interval |-> {0, 1, 4}, scan_mode |-> {0},
     row_repeat |-> {0}, row_n |-> {0}, sync1_width |-> {0}, sync2_width |-> {0},
     ultrafast_line_rec |-> {0}]

ResetValue(a) == UNION {Shl(ResetFields[t[2]], t[3]) : t \in {u \in FieldsOf(a) : u[2] \in DOMAIN ResetFields}}

\* What a field takes of a written value: row_repeat and row_n are never zero.
Taken(t, v) ==
    LET x == Slice(v, t[3], t[4])
    IN  IF t[2] \in {"row_repeat", "row_n"} /\ x = {} THEN One ELSE x

\* What a register reads back as after v was written to it.
Kept(a, v) == UNION {Shl(Taken(t, v), t[3]) : t \in FieldsOf(a)}

\* A field of the FPGA, from the register it is in.
FieldOf(t, v) == Slice(v, t[3], t[4])
=============================================================================
