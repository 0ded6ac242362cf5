------------------------------- MODULE ModePlans -------------------------------
(***************************************************************************)
(* The register writes the host makes to configure the FPGA, in order:     *)
(* ScanConfig.to_registers, Dl5Config.to_safe_apply_registers and the      *)
(* to_plan of the three modes (fpga_host/core/control).                    *)
(*                                                                         *)
(* What is packed into a parameter register does not matter here: its      *)
(* value is the configuration it comes from.                               *)
(***************************************************************************)
EXTENDS Naturals, Sequences

CONSTANTS
    Config,      \* configurations the user can ask for
    GeomRegs,    \* 0x0000-0x0008, 0x000F, 0x0013, 0x0014, in writing order
    UltraRegs,   \* 0x0200, 0x0205, 0x0201, 0x0203, 0x0204
    LaserRegs,   \* 0x0206-0x020A
    Zero         \* the interval in 0x10, which stands in for a failed read

\* The registers with a part in the control flow: 0x0009, 0x020B and 0x0202.
FlagRegs == {"laser_mode_en", "ultrafast"}

GeomReg == {GeomRegs[i] : i \in 1 .. Len(GeomRegs)}
UltraReg == {UltraRegs[i] : i \in 1 .. Len(UltraRegs)}
LaserReg == {LaserRegs[i] : i \in 1 .. Len(LaserRegs)}

ParameterReg == GeomReg \cup UltraReg \cup LaserReg

Register == ParameterReg \cup FlagRegs \cup {"scan_control"}

\* 0x0009: the ADC interval is that of a configuration, the mode is always 1.
ScanControl == [interval : Config \cup {Zero}, state : 0 .. 1]

\* The values a register can be given.
ValueOf(r) ==
    IF r = "scan_control" THEN ScanControl
    ELSE IF r \in FlagRegs THEN 0 .. 1 ELSE Config \cup {Zero}

Item(r, v) == [register |-> r, value |-> v]

PlanItem == UNION {[register : {r}, value : ValueOf(r)] : r \in Register}

ScanItem(c, s) == Item("scan_control", [interval |-> c, state |-> s])

Items(regs, c) == [i \in 1 .. Len(regs) |-> Item(regs[i], c)]

\* ScanConfig.to_registers(scan_state = 0).
ScanPlan(c) == Items(GeomRegs, c) \o <<ScanItem(c, 0)>>

NormalPlan(c) ==
    <<ScanItem(c, 0), Item("laser_mode_en", 0), Item("ultrafast", 0)>> \o ScanPlan(c)

\* Variant: laser mode stays on.
UltrafastPlanLaserOn(c) ==
    <<ScanItem(c, 0)>> \o ScanPlan(c) \o Items(UltraRegs, c) \o <<Item("ultrafast", 1)>>

UltrafastPlan(c) ==
    <<ScanItem(c, 0), Item("laser_mode_en", 0)>>
        \o ScanPlan(c) \o Items(UltraRegs, c) \o <<Item("ultrafast", 1)>>

\* Dl5Config.to_safe_apply_registers, also the tail of the laser plan.
SafeLaserPlan(c, on) ==
    <<Item("laser_mode_en", 0)>> \o Items(LaserRegs, c) \o <<Item("laser_mode_en", on)>>

\* Variant: to_registers, which enables the laser before its timing is written.
LaserPlanEnableFirst(c, on) ==
    <<ScanItem(c, 0), Item("ultrafast", 0)>> \o ScanPlan(c)
        \o <<Item("laser_mode_en", on)>> \o Items(LaserRegs, c)

\* Variant: the scan is not stopped first.
LaserPlanNoStop(c, on) ==
    <<Item("ultrafast", 0)>> \o ScanPlan(c) \o SafeLaserPlan(c, on)

LaserPlan(c, on) ==
    <<ScanItem(c, 0), Item("ultrafast", 0)>> \o ScanPlan(c) \o SafeLaserPlan(c, on)

\* _find_last_scan_control.
LastScanControl(p) ==
    LET i == CHOOSE i \in 1 .. Len(p) :
                /\ p[i].register = "scan_control"
                /\ \A j \in i + 1 .. Len(p) : p[j].register # "scan_control"
    IN  p[i].value

\* apply_mode_config(start_after_apply = TRUE).
WithStart(p) == Append(p, Item("scan_control", [LastScanControl(p) EXCEPT !.state = 1]))

\* apply_dl5_config; stopInterval and startInterval are what _scan_control_value
\* took from the FPGA, both before the first write.
Dl5Plan(c, on, stop, start, stopInterval, startInterval) ==
    (IF stop THEN <<ScanItem(stopInterval, 0)>> ELSE <<>>)
        \o SafeLaserPlan(c, on)
        \o (IF start THEN <<ScanItem(startInterval, 1)>> ELSE <<>>)
=============================================================================
