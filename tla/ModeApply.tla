------------------------------- MODULE ModeApply -------------------------------
(***************************************************************************)
(* FpgaDevice: the plans are written item by item with write_checked.  An  *)
(* item that does not read back is recorded and the plan goes on; an       *)
(* exception ends it where it is.  Either way the write itself may or may  *)
(* not have reached the register.                                          *)
(*                                                                         *)
(* The link is in step here: an item that verifies is in the register (see *)
(* FreshWhenDrained in RegisterLink for when that is so).                  *)
(***************************************************************************)
EXTENDS ModePlans

CONSTANT None

ASSUME PlanAssumption ==
    /\ GeomRegs \in Seq(STRING)
    /\ UltraRegs \in Seq(STRING)
    /\ LaserRegs \in Seq(STRING)
    /\ FlagRegs \cap ParameterReg = {}
    /\ LaserReg \cap (GeomReg \cup UltraReg) = {}
    /\ "scan_control" \notin ParameterReg

VARIABLES
    register,    \* the FPGA's registers
    job,         \* the operation in progress, or None
    plan,        \* its writes
    pos,         \* the write to be made next
    failed,      \* one of its writes did not read back
    result,      \* what the last operation came to
    spoiled      \* history: since the last mode that was applied in full, a
                 \* write failed or DL5 was configured on its own

vars == <<register, job, plan, pos, failed, result, spoiled>>

ModeJob == [kind : {"normal", "ultrafast"}, config : Config, start : BOOLEAN]
            \cup [kind : {"laser"}, config : Config, start : BOOLEAN, on : 0 .. 1]

Dl5Job == [kind : {"dl5"}, config : Config, on : 0 .. 1, stop : BOOLEAN, start : BOOLEAN]

ScanJob == [kind : {"scan"}, config : Config]

\* start_scan and stop_scan, with the interval given or (None) read back.
ControlJob == [kind : {"control"}, config : Config \cup {None}, state : 0 .. 1]

Job == ModeJob \cup Dl5Job \cup ScanJob \cup ControlJob

Outcome == {"success", "failed", "raised"}

Init ==
    /\ register = [r \in Register |->
                    IF r = "scan_control" THEN [interval |-> Zero, state |-> 0]
                    ELSE IF r \in FlagRegs THEN 0 ELSE Zero]
    /\ job = None
    /\ plan = <<>>
    /\ pos = 1
    /\ failed = FALSE
    /\ result = None
    /\ spoiled = FALSE
-----------------------------------------------------------------------------
\* _scan_control_value keeps the interval it reads; when the read fails, 0x10
\* takes the place of what was read, and its interval is zero.
IntervalRead == {register["scan_control"].interval, Zero}

ModePlan(j) ==
    CASE j.kind = "normal" -> NormalPlan(j.config)
      [] j.kind = "ultrafast" -> UltrafastPlan(j.config)
      [] j.kind = "laser" -> LaserPlan(j.config, j.on)

\* Variant: the first item is number zero.
BeginAtZero(j, p) ==
    /\ job = None
    /\ job' = j
    /\ plan' = p
    /\ pos' = 0
    /\ failed' = FALSE
    /\ result' = None
    /\ UNCHANGED register

Begin(j, p) ==
    /\ job = None
    /\ job' = j
    /\ plan' = p
    /\ pos' = 1
    /\ failed' = FALSE
    /\ result' = None
    /\ UNCHANGED register

\* apply_mode_config.
ApplyMode ==
    /\ \E j \in ModeJob :
        Begin(j, IF j.start THEN WithStart(ModePlan(j)) ELSE ModePlan(j))
    /\ UNCHANGED spoiled

\* apply_dl5_config.
ApplyDl5 ==
    /\ \E j \in Dl5Job, x \in IntervalRead, y \in IntervalRead :
        Begin(j, Dl5Plan(j.config, j.on, j.stop, j.start, x, y))
    /\ spoiled' = TRUE

\* apply_scan_config.
ApplyScan ==
    /\ \E j \in ScanJob : Begin(j, ScanPlan(j.config))
    /\ UNCHANGED spoiled

\* start_scan and stop_scan.
Control ==
    /\ \E j \in ControlJob :
        \E c \in (IF j.config = None THEN IntervalRead ELSE {j.config}) :
            Begin(j, <<ScanItem(c, j.state)>>)
    /\ UNCHANGED spoiled

InProgress == job # None /\ pos <= Len(plan)

Set(item) == register' = [register EXCEPT ![item.register] = item.value]

\* write_checked verifies.
ItemVerified ==
    /\ InProgress
    /\ Set(plan[pos])
    /\ pos' = pos + 1
    /\ UNCHANGED <<job, plan, failed, result, spoiled>>

\* Variant: the plan forgets an item that did not read back.
ItemMismatchForgotten ==
    /\ InProgress
    /\ Set(plan[pos]) \/ UNCHANGED register
    /\ pos' = pos + 1
    /\ spoiled' = TRUE
    /\ UNCHANGED <<job, plan, failed, result>>

\* Readback mismatch: noted, and the plan continues.
ItemMismatch ==
    /\ InProgress
    /\ Set(plan[pos]) \/ UNCHANGED register
    /\ pos' = pos + 1
    /\ failed' = TRUE
    /\ spoiled' = TRUE
    /\ UNCHANGED <<job, plan, result>>

\* A timeout, a reply of another register or a value that does not encode: the
\* exception leaves the loop.
ItemRaises ==
    /\ InProgress
    /\ Set(plan[pos]) \/ UNCHANGED register
    /\ job' = None
    /\ result' = [job |-> job, outcome |-> "raised"]
    /\ spoiled' = TRUE
    /\ UNCHANGED <<plan, pos, failed>>

\* Variant: the results are not looked at.
FinishAlwaysSuccess ==
    /\ job # None
    /\ pos > Len(plan)
    /\ job' = None
    /\ result' = [job |-> job, outcome |-> "success"]
    /\ spoiled' = (spoiled /\ job \notin ModeJob)
    /\ UNCHANGED <<register, plan, pos, failed>>

\* success = all(item["success"] for item in results).
Finish ==
    /\ job # None
    /\ pos > Len(plan)
    /\ job' = None
    /\ result' = [job |-> job, outcome |-> IF failed THEN "failed" ELSE "success"]
    /\ spoiled' = (spoiled /\ (failed \/ job \notin ModeJob))
    /\ UNCHANGED <<register, plan, pos, failed>>

Step == ItemVerified \/ ItemMismatch \/ ItemRaises \/ Finish

Next == ApplyMode \/ ApplyDl5 \/ ApplyScan \/ Control \/ Step

Spec == Init /\ [][Next]_vars
-----------------------------------------------------------------------------
TypeOK ==
    /\ DOMAIN register = Register
    /\ \A r \in Register : register[r] \in ValueOf(r)
    /\ job \in Job \cup {None}
    /\ plan \in Seq(PlanItem)
    /\ pos \in 1 .. Len(plan) + 1
    /\ failed \in BOOLEAN
    /\ result \in [job : Job, outcome : Outcome] \cup {None}
    /\ spoiled \in BOOLEAN

\* Of the first n writes of p, one that no later one contradicts is in its register.
InForce(p, n) ==
    \A i \in 1 .. n :
        (\A k \in i + 1 .. n : p[k].register = p[i].register => p[k].value = p[i].value)
            => register[p[i].register] = p[i].value

\* As long as every item verified, the part of the plan that was written is in
\* force, as a whole and in its order.
PlanInForce == job # None /\ ~failed => InForce(plan, pos - 1)

Geometry(c) == \A r \in GeomReg : register[r] = c

Scan(c, s) == register["scan_control"] = [interval |-> c, state |-> s]

Flags(laser, ultra) == register["laser_mode_en"] = laser /\ register["ultrafast"] = ultra

StateOf(start) == IF start THEN 1 ELSE 0

\* What the user asked for, said without the plan.
Configured(j) ==
    /\ j \in ModeJob =>
        /\ Geometry(j.config)
        /\ Scan(j.config, StateOf(j.start))
    /\ j.kind = "normal" => Flags(0, 0)
    /\ j.kind = "ultrafast" =>
        /\ Flags(0, 1)
        /\ \A r \in UltraReg : register[r] = j.config
    /\ j.kind = "laser" =>
        /\ Flags(j.on, 0)
        /\ \A r \in LaserReg : register[r] = j.config
    /\ j.kind = "dl5" =>
        /\ register["laser_mode_en"] = j.on
        /\ \A r \in LaserReg : register[r] = j.config
        /\ j.stop \/ j.start => register["scan_control"].state = StateOf(j.start)
    /\ j.kind = "scan" => Geometry(j.config) /\ Scan(j.config, 0)
    /\ j.kind = "control" => register["scan_control"].state = j.state

\* "applied" means applied: an operation that reports success has left the FPGA
\* in the configuration that was asked for, whatever earlier ones left behind.
SuccessMeansConfigured ==
    result # None /\ result.outcome = "success" => Configured(result.job)

\* The operations that stop the scan before they write anything else: every mode, and
\* apply_dl5_config unless it is told not to.  apply_scan_config is none of them.
StopsFirst == job \in ModeJob \/ (job \in Dl5Job /\ job.stop)

\* Under an operation that stops the scan first, parameters change only while the scan is
\* stopped, as long as the writes of its plan verify.
ParametersChangeStopped ==
    [][ \A r \in ParameterReg :
            register'[r] # register[r] /\ ~failed /\ StopsFirst
                => register["scan_control"].state = 0 ]_vars

\* Laser timing changes only while laser mode is off, under the same condition.
LaserTimingChangesOff ==
    [][ \A r \in LaserReg :
            register'[r] # register[r] /\ ~failed => register["laser_mode_en"] = 0 ]_vars

\* Laser and ultrafast are never enabled together, in the middle of a change of
\* mode either, unless a write failed or DL5 was configured on its own.
ModesExclusive == ~spoiled => ~Flags(1, 1)

StartsScan ==
    /\ register["scan_control"].state = 0
    /\ register'["scan_control"].state = 1

\* HOST_APP_UI_FIRST_PRINCIPLES.md: after a readback mismatch the failure stands
\* and the plan does not go on to start the scan.
NoStartAfterMismatch ==
    [][ (job \in ModeJob /\ StartsScan) => ~failed ]_vars
=============================================================================
