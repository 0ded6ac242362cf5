------------------------------ MODULE MCHostSession ------------------------------
(***************************************************************************)
(* Sessions of HostSession for TLC: one configuration as the command line  *)
(* gives it by default, and others with one field at or past its limit.    *)
(***************************************************************************)
EXTENDS HostSession

Ones(n) == 0 .. n - 1

Samples(v) == [adc_sample |-> v, dac_sample |-> v]

Laser == [scan_delay |-> {1}, blanker_delay |-> {2}, blanker_time |-> {3}, acq_delay |-> {4}, acq_time |-> {1}]

MCConfiguration ==
    [base |-> Laser,
     other |-> Samples({5}) @@ [clk_sel |-> One, adc_interval |-> {3}, adc_channel |-> {0}, laser_mode |-> {},
                                sync1_width |-> {0}, sync2_width |-> {1}, sync_delay1 |-> {2}],
     length20 |-> [adc_len_single |-> Ones(21)] @@ Laser,
     length21 |-> [adc_len_single |-> {21}] @@ Laser,
     wide |-> Samples(Ones(32)) @@
              [rows |-> Ones(16), cols |-> Ones(5), adc_interval |-> Ones(24), scan_mode |-> Ones(4),
               clk_sel |-> One, adc1_gain |-> Ones(2), adc_channel |-> {1}, laser_mode |-> One,
               dacx_tk_point |-> Ones(16), dacx_recovery_time |-> Ones(16), row_m |-> Ones(16),
               row_n |-> Ones(16), row_repeat |-> Ones(16), frame_waiting_time |-> Ones(32),
               dax_fall_time |-> Ones(32), dacy_end_level |-> Ones(16),
               ultrafast_line_rec |-> Ones(32), adc_acq_delay |-> Ones(31), acq_dead_time |-> Ones(30),
               sync_delay1 |-> Ones(16), sync_delay2 |-> Ones(16), sync1_width |-> Ones(16),
               sync2_width |-> Ones(16), scan_delay |-> Ones(16), blanker_delay |-> Ones(16),
               blanker_time |-> Ones(16), acq_delay |-> Ones(16), acq_time |-> Ones(16)],
     frame22 |-> [rows |-> {11}, cols |-> {11}] @@ Laser,
     samples32 |-> Samples({32}) @@ Laser,
     deaf |-> [acq_dead_time |-> {2, 4}] @@ Laser,
     narrow |-> [dacx_end_level |-> {3}] @@ Laser,
     still |-> [dacx_end_level |-> ScanDefaults.dacx_strat_level] @@ Laser,
     short |-> [laser_mode |-> One, acq_time |-> {0}] @@ Laser]

With(kind, c, options) ==
    [kind |-> kind, config |-> c, options |-> options, address |-> None, value |-> {}]

Cmd(kind, c) == With(kind, c, {"yes"})

AndStart(cmd) == [cmd EXCEPT !.options = @ \cup {"start-after"}]

DryRun(kind) == With(kind, "base", {"dry-run"})

To(cmd, a, v) == [cmd EXCEPT !.address = a, !.value = v]

Kinds == PlanKinds \cup {"dl5", "profile"}

Session(commands, n, f) == [commands |-> commands, faults |-> n, format |-> f, tap |-> 2]

Unrecorded(commands, n) == [commands |-> commands, faults |-> n, format |-> "pcap", tap |-> 0]

\* Every configuration by every command, undisturbed.
Undisturbed == {Session(<<Cmd(k, c)>>, 0, "pcap") : k \in Kinds, c \in DOMAIN MCConfiguration}

\* Commands that meet faults.
Disturbed ==
    {Session(<<AndStart(Cmd(k, "base"))>>, 1, "pcapng") : k \in PlanKinds \ {"scan"}}
        \cup {Session(<<Cmd("scan", "base")>>, 1, "pcap"),
              Session(<<Cmd("dl5", "base")>>, 2, "pcap"),
              Unrecorded(<<Cmd("scan", "base"), Cmd("scan", "narrow")>>, 1),
              Unrecorded(<<AndStart(Cmd("normal", "other"))>>, 2),
              Unrecorded(<<AndStart(Cmd("dl5", "base"))>>, 2),
              Session(<<AndStart(Cmd("laser", "base")), Cmd("ultrafast", "wide"),
                        With("dl5", "other", {"yes", "no-stop", "start-after"})>>, 0, "pcapng"),
              Session(<<Cmd("start", "base"), Cmd("scan", "other")>>, 1, "pcapng"),
              Unrecorded(<<Cmd("stop", "base"), Cmd("start", "base"), Cmd("stop", "base")>>, 4),
              Session(<<Cmd("stop", "base"), DryRun("scan")>>, 1, "pcapng"),
              Session(<<Cmd("profile", "base")>>, 1, "pcap"),
              Session(<<Cmd("start", "base"), Cmd("profile", "base")>>, 1, "pcap")}

\* Commands that are refused, and single registers.
Small ==
    {Session(<<With("scan", "base", {}), DryRun("stop"), DryRun("dl5"), DryRun("profile"),
               To(With("read", "base", {}), "0x0013", {})>>, 1, "pcapng"),
     Session(<<Cmd("start", "base"), To(Cmd("write", "base"), "0x0004", {16, 0}),
               To(Cmd("write-checked", "base"), "0x0013", {}),
               To(Cmd("write-checked", "base"), "0x0013", {32})>>, 1, "pcap")}

\* Dry runs that read the FPGA, and then the command, the interval not being that of a reset.
Control(v) == To(Cmd("write-checked", "base"), "0x0009", v)

Unstopped(option) == With("dl5", "base", {option, "no-stop", "start-after"})

Shows ==
    {Session(<<Control({4, 9}), DryRun("start"), Cmd("start", "base")>>, 2, "pcap"),
     Session(<<Control({0, 4, 9}), DryRun("stop"), Cmd("stop", "base")>>, 2, "pcapng"),
     Session(<<Control({4, 9}), Unstopped("dry-run"), Unstopped("yes")>>, 2, "pcap"),
     Session(<<Control({1, 4, 9}), AndStart(DryRun("dl5")), AndStart(Cmd("dl5", "base"))>>, 2, "pcap"),
     Session(<<DryRun("stop"), Cmd("start", "base")>>, 1, "pcap")}

MCSessions == Undisturbed \cup Disturbed \cup Small \cup Shows

\* The capture holds other UDP traffic and what is not UDP.
MCBackground ==
    <<[Frame("fpga", "READ", "0x0000", None) EXCEPT !.ports = {6006}],
      [Frame("host", "READ", "0x0000", None) EXCEPT !.udp = FALSE]>>

\* Left out: what no guard and no property of this module reads.
View == <<register, requests, replies, call, outcome, processVars, captureVars, fpgaVars, auditVars,
          faults, budget, dropped>>
=============================================================================
