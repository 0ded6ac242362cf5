------------------------------- MODULE Workbench -------------------------------
(***************************************************************************)
(* ModeWorkbenchPanel: what the user has typed in, the guard on "start     *)
(* scan", and the FPGAs it is about.  The handlers run to completion on    *)
(* the GUI thread, so each is one step; what a device call comes to is     *)
(* what ModeApply says an operation can come to.                           *)
(***************************************************************************)
EXTENDS Naturals

CONSTANTS
    Config,    \* what the widgets can be set to, mode included
    Device,    \* the FPGAs (or the mock) that can be connected to
    Unset,     \* the registers after a power cycle
    Mixed      \* the registers hold parts of several configurations

ASSUME WorkbenchAssumption == Unset \notin Config /\ Mixed \notin Config

VARIABLES
    fields,       \* the widgets
    dirty,        \* parameters_dirty
    reason,       \* block_start_reason
    chip,         \* scan_running, and the state that is shown
    connected,    \* main_window.device
    held,         \* the parameter registers of each device
    control,      \* 0x0009 of each device
    pending,      \* history: the operation that failed and was not made good
    tampered,     \* history: registers changed behind the workbench's back
    broken        \* history: the last apply on the device did not succeed

panelVars == <<fields, dirty, reason, chip, connected>>
vars == <<fields, dirty, reason, chip, connected, held, control, pending, tampered, broken>>

Reason == {"none", "not applied", "apply failed", "start failed", "switched"}

Control == [interval : Config \cup {Unset}, state : 0 .. 1]

\* The panel is built with a mode selected, which marks it dirty, and reads
\* the state of the scan.
Init ==
    /\ fields \in Config
    /\ dirty = TRUE
    /\ reason = "not applied"
    /\ connected \in Device
    /\ held = [d \in Device |-> Unset]
    /\ control = [d \in Device |-> [interval |-> Unset, state |-> 0]]
    /\ chip \in {"stopped", "unknown"}
    /\ pending = "none"
    /\ tampered = [d \in Device |-> FALSE]
    /\ broken = [d \in Device |-> FALSE]

CanStart == ~dirty /\ reason = "none"
-----------------------------------------------------------------------------
Shown(c) == IF c.state = 0 THEN "stopped" ELSE "running"

\* refresh_scan_status with c in 0x0009; the read can fail.
RefreshScanStatus(c) == chip' \in {Shown(c), "unknown"}

\* Variant: the interval comes from what the device holds.
ScanControlReadBack(s) == [interval |-> held[connected], state |-> s]

\* The register 0x0009 with a scan state, and with the interval of the widgets.
ScanControl(s) == [interval |-> fields, state |-> s]

SetControl(c) == control' = [control EXCEPT ![connected] = c]

\* A widget or the mode is changed: _mark_dirty.
Edit ==
    /\ \E c \in Config \ {fields} : fields' = c
    /\ dirty' = TRUE
    /\ reason' = "not applied"
    /\ UNCHANGED <<chip, connected, held, control, pending, tampered, broken>>

Refresh ==
    /\ RefreshScanStatus(control[connected])
    /\ UNCHANGED <<fields, dirty, reason, connected, held, control, pending, tampered, broken>>

ApplySucceeds ==
    /\ held' = [held EXCEPT ![connected] = fields]
    /\ SetControl(ScanControl(0))
    /\ dirty' = FALSE
    /\ reason' = "none"
    /\ RefreshScanStatus(ScanControl(0))
    /\ pending' = "none"
    /\ tampered' = [tampered EXCEPT ![connected] = FALSE]
    /\ broken' = [broken EXCEPT ![connected] = FALSE]
    /\ UNCHANGED <<fields, connected>>

\* Some, all or none of the writes reached the registers.
ApplyReaches ==
    /\ \E h \in {held[connected], Mixed, fields} : held' = [held EXCEPT ![connected] = h]
    /\ \E c \in {control[connected], ScanControl(0)} : SetControl(c)
    /\ broken' = [broken EXCEPT ![connected] = TRUE]

\* Variant: the parameters are not marked as unapplied again.
ApplyFailsClean ==
    /\ ApplyReaches
    /\ reason' = "apply failed"
    /\ pending' = "apply"
    /\ UNCHANGED <<fields, dirty, chip, connected, tampered>>

\* An item did not verify, or an exception ended the plan.
ApplyFails ==
    /\ ApplyReaches
    /\ dirty' = TRUE
    /\ reason' = "apply failed"
    /\ pending' = "apply"
    /\ UNCHANGED <<fields, chip, connected, tampered>>

ApplyParameters == ApplySucceeds \/ ApplyFails

StartSucceeds ==
    /\ SetControl(ScanControl(1))
    /\ reason' = "none"
    /\ RefreshScanStatus(ScanControl(1))
    /\ UNCHANGED pending

\* The scan may have started all the same.
StartFails ==
    /\ \E c \in {control[connected], ScanControl(1)} : SetControl(c)
    /\ reason' = "start failed"
    /\ pending' = "start"
    /\ UNCHANGED chip

\* Variant: the handler relies on the button, which Receive+Start does not press.
StartScanUnguarded ==
    /\ StartSucceeds \/ StartFails
    /\ UNCHANGED <<fields, dirty, connected, held, tampered, broken>>

\* start_scan: nothing at all unless it is allowed.
StartScan ==
    \/ /\ CanStart
       /\ StartSucceeds \/ StartFails
       /\ UNCHANGED <<fields, dirty, connected, held, tampered, broken>>
    \/ /\ ~CanStart
       /\ UNCHANGED vars

\* Variant: a successful stop makes everything good.
StopSucceedsClears ==
    /\ SetControl(ScanControl(0))
    /\ dirty' = FALSE
    /\ reason' = "none"
    /\ RefreshScanStatus(ScanControl(0))
    /\ pending' = IF pending = "start" THEN "none" ELSE pending

\* The interval that is written is that of the widgets, applied or not.
StopSucceeds ==
    /\ SetControl(ScanControl(0))
    /\ reason' = IF dirty THEN "not applied" ELSE "none"
    /\ RefreshScanStatus(ScanControl(0))
    /\ pending' = IF pending = "start" THEN "none" ELSE pending
    /\ UNCHANGED dirty

\* A readback mismatch shows in a message only; an exception has the panel show
\* "stopped".
StopFails ==
    /\ \E c \in {control[connected], ScanControl(0)} : SetControl(c)
    /\ chip' \in {chip, "stopped"}
    /\ UNCHANGED <<dirty, reason, pending>>

StopScan ==
    /\ StopSucceeds \/ StopFails
    /\ UNCHANGED <<fields, connected, held, tampered, broken>>

\* update_connection, with on_connection_updated of this panel.
SwitchTo(d) ==
    /\ connected' = d
    /\ dirty' = TRUE
    /\ reason' = "switched"
    /\ RefreshScanStatus(control[d])
    /\ UNCHANGED <<fields, held, control, pending, tampered, broken>>
-----------------------------------------------------------------------------
\* RegisterPanel writes one register, of which the workbench hears nothing.
RawWrite ==
    /\ \/ /\ held' = [held EXCEPT ![connected] = Mixed]
          /\ UNCHANGED control
       \/ /\ \E c \in Control : SetControl(c)
          /\ UNCHANGED held
    /\ tampered' = [tampered EXCEPT ![connected] = TRUE]
    /\ UNCHANGED <<panelVars, pending, broken>>

\* An FPGA is reset; the panel keeps showing what it showed.
DeviceReset(d) ==
    /\ held' = [held EXCEPT ![d] = Unset]
    /\ control' = [control EXCEPT ![d] = [interval |-> Unset, state |-> 0]]
    /\ tampered' = [tampered EXCEPT ![d] = TRUE]
    /\ UNCHANGED <<panelVars, pending, broken>>

Next ==
    \/ Edit
    \/ Refresh
    \/ ApplyParameters
    \/ StartScan
    \/ StopScan
    \/ \E d \in Device : SwitchTo(d)
    \/ RawWrite
    \/ \E d \in Device : DeviceReset(d)

Spec == Init /\ [][Next]_vars
-----------------------------------------------------------------------------
TypeOK ==
    /\ fields \in Config
    /\ dirty \in BOOLEAN
    /\ reason \in Reason
    /\ chip \in {"running", "stopped", "unknown"}
    /\ connected \in Device
    /\ held \in [Device -> Config \cup {Unset, Mixed}]
    /\ control \in [Device -> Control]
    /\ pending \in {"none", "apply", "start"}
    /\ tampered \in [Device -> BOOLEAN]
    /\ broken \in [Device -> BOOLEAN]

\* When "start scan" can be pressed, the connected FPGA holds what the widgets
\* show, through failed applies, failed starts, stops that write an unapplied
\* interval and changes of connection.
StartMeansApplied ==
    CanStart /\ ~tampered[connected] =>
        held[connected] = fields /\ control[connected].interval = fields

\* An apply or a start that failed keeps "start scan" disabled until an apply
\* succeeds or (for a start) a stop does (HOST_APP_UI_FIRST_PRINCIPLES.md:368).
FailureBlocksStart == pending # "none" => ~CanStart

\* A scan that runs on an FPGA, connected or not, runs with all the parameters of
\* one configuration, as long as the last apply on it succeeded.
ScanIsWhole ==
    \A d \in Device :
        control[d].state = 1 /\ ~tampered[d] /\ ~broken[d] =>
            held[d] = control[d].interval
=============================================================================
