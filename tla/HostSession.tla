------------------------------- MODULE HostSession -------------------------------
(***************************************************************************)
(* A session at the command line (cli/main.py): commands run one after     *)
(* the other, each in a process of its own, over the link to the FPGA,     *)
(* while a capture of the traffic is taken and, at the end, audited        *)
(* against the plan that a dry run of the last command printed.            *)
(*                                                                         *)
(* The register values are those that RegisterFields packs from real       *)
(* configurations; the link is RegisterLink, the plans are ModePlans'.     *)
(***************************************************************************)
EXTENDS Naturals, Sequences, TLC, SequencesExt, RegisterFields

CONSTANTS
    Configuration,    \* name -> the fields that are given, of ScanConfig, Dl5Config and the mode
    Sessions,         \* records of the commands given, of how many faults meet them
                      \* and of the capture's format and interface
    Background,       \* frames of other traffic, captured at the beginning
    Retries, MaxCalls, None, Unreadable

VARIABLES
    register, requests, replies, call, outcome, calls, ever, held, clean, timeouts, lost,
    script,      \* the commands that have not ended
    todo,        \* what the current command has yet to do
    active,      \* its process runs
    waiting,     \* it has sent a request
    ok,          \* its items verified so far
    current,     \* what _scan_control_value took from the FPGA, in order
    exits,       \* the exit codes so far
    dacStep,     \* the registers that dacx_step and dacy_step were last computed from
    capture,     \* the capture file
    tap,         \* the interface a running capture tool writes, or 0
    printed,     \* the last dry run whose output there is, and what it read of 0x0009
    report,      \* findings of the audit
    done,        \* history: the commands that have ended
    fresh,       \* history: no answer was outstanding when the command began
    missed,      \* history: packets passed while no capture ran
    dropped,     \* history: a write was lost since the command began
    disturbed,   \* history: a parameter changed during a scan that this session started
    faults,      \* history: what went wrong on the way
    budget       \* bound: what may go wrong on the way

linkVars == <<register, requests, replies, call, outcome, calls, ever, held, clean, timeouts, lost>>
processVars == <<script, todo, active, waiting, ok, current, exits, done, fresh>>
captureVars == <<capture, tap, missed>>
fpgaVars == <<dacStep, disturbed>>
auditVars == <<printed, report>>
vars == <<linkVars, processVars, captureVars, fpgaVars, auditVars, faults, budget, dropped>>

Word == SUBSET (0 .. 31)

L == INSTANCE RegisterLink WITH
        Address <- RegisterAddress,
        Value <- Word,
        Default <- [a \in RegisterAddress |-> ResetValue(a)],
        Stored <- [a \in RegisterAddress |-> [v \in Word |-> Kept(a, v)]],
        Readable <- RegisterAddress,
        Writable <- RegisterAddress

\* ScanConfig.to_registers: 0x0000 is written if clk_sel is given.
ScanRegisters(c) ==
    (IF c.clk_sel # Omitted THEN <<"0x0000">> ELSE <<>>)
        \o <<"0x0001", "0x0002", "0x0003", "0x0004", "0x0005", "0x0006", "0x0007", "0x0008",
             "0x000F", "0x0013", "0x0014">>

P(c) == INSTANCE ModePlans WITH
        Config <- {}, Zero <- None,
        GeomRegs <- ScanRegisters(c),
        UltraRegs <- <<"0x0200", "0x0205", "0x0201", "0x0203", "0x0204">>,
        LaserRegs <- <<"0x0206", "0x0207", "0x0208", "0x0209", "0x020A">>

Parameter == RegisterAddress \ {"0x0009"}

A == INSTANCE PacketAudit WITH
        ControlPort <- 32000, FpgaIp <- "fpga",
        ProfileFields <- [a \in RegisterAddress |-> {<<t[3], t[4]>> : t \in FieldsOf(a)}],
        Reserved <- [a \in RegisterAddress |->
                        IF a \in {"0x0001", "0x0009"} THEN {}
                        ELSE 0 .. 31 \ UNION {t[3] .. t[3] + t[4] - 1 : t \in FieldsOf(a)}],
        NonZero <- [a \in RegisterAddress |->
                        {<<t[3], t[4]>> : t \in {u \in FieldsOf(a) :
                            u[2] \in {"adc_sample", "rows", "cols", "dacx_tk_point", "row_repeat", "row_n"}}}],
        ReadOnly <- {"0x000A", "0x000B"}, WriteOnly <- {"0x000E"},
        ScanAddress <- "0x0009", Parameters <- Parameter,
        EnableAddress <- "0x020B",
        RequiredPrior <- {"0x0206", "0x0207", "0x0208", "0x0209", "0x020A"}
-----------------------------------------------------------------------------
(***************************************************************************)
(* The commands.                                                           *)
(***************************************************************************)
PlanKinds == {"scan", "normal", "ultrafast", "laser"}

\* The options of the parser that change what a command does.
Takes(kind) ==
    CASE kind = "read" -> {}
      [] kind \in {"write", "write-checked"} -> {"yes"}
      [] kind \in {"scan", "start", "stop", "profile"} -> {"yes", "dry-run"}
      [] kind \in {"normal", "ultrafast", "laser"} -> {"yes", "dry-run", "start-after"}
      [] kind = "dl5" -> {"yes", "dry-run", "start-after", "no-stop"}

Given == UNION {{s.commands[i] : i \in 1 .. Len(s.commands)} : s \in Sessions}

Kind == PlanKinds \cup {"read", "write", "write-checked", "start", "stop", "dl5", "profile"}

ASSUME SessionAssumption ==
    /\ \A s \in Sessions : s.commands \in Seq(Given)
    /\ \A cmd \in Given :
        /\ cmd.kind \in Kind
        /\ cmd.options \subseteq Takes(cmd.kind)
        /\ cmd.kind \in {"read", "write", "write-checked"} => cmd.address \in RegisterAddress
    /\ A!ProfileValid     \* load_profile refuses any other
    /\ Retries \in Nat
    /\ MaxCalls \in Nat
    /\ None \notin RegisterAddress
    /\ None \notin L!Call

Dry(cmd) == "dry-run" \in cmd.options

Starts(cmd) == "start-after" \in cmd.options

Stops(cmd) == "no-stop" \notin cmd.options

\* ensure_safe: what requires --yes has it, or is a dry run.
Safe(cmd) == "yes" \in Takes(cmd.kind) => cmd.options \cap {"yes", "dry-run"} # {}

ScanDefaults ==
    [rows |-> {10}, cols |-> {10}, adc_sample |-> {2, 4}, dac_sample |-> {2, 4}, adc_channel |-> {2},
     adc_len_single |-> Omitted, adc_interval |-> {}, scan_mode |-> {0}, clk_sel |-> Omitted,
     adc1_gain |-> {1}, adc2_gain |-> {1}, adc3_gain |-> {1}, adc4_gain |-> {1},
     dacx_gain |-> {0, 1}, dacy_gain |-> {0, 1},
     dacx_strat_level |-> {0, 3, 4, 7, 8, 11, 12}, dacx_end_level |-> {0, 2, 5, 6, 9, 10, 13, 14, 15},
     dacx_recovery_time |-> {1, 4, 5},
     dacy_strat_level |-> {0, 1, 3, 4, 5, 7, 8, 9, 11, 12, 13}, dacy_end_level |-> {0, 1, 6, 10, 14, 15},
     frame_waiting_time |-> {}, dax_fall_time |-> {2, 4}, row_repeat |-> {0}, row_m |-> {}, row_n |-> {0},
     dacx_tk_point |-> Omitted]

UltrafastField ==
    {"ultrafast_line_rec", "adc_acq_delay", "acq_dead_time", "sync_delay1", "sync_delay2",
     "sync1_width", "sync2_width"}

Dl5Field == {"laser_mode", "scan_delay", "blanker_delay", "blanker_time", "acq_delay", "acq_time"}

\* --laser-mode is 1 unless it is given; in a profile it is 0.  The rest is 0.
DefaultOf(kind, f) ==
    IF f \in DOMAIN ScanDefaults THEN ScanDefaults[f]
    ELSE IF f = "laser_mode" /\ kind # "profile" THEN One ELSE {}

\* scan_config_from_args and from_dict: what is not given has its default.
ConfigOf(cmd) ==
    LET given == Configuration[cmd.config]
    IN  [f \in DOMAIN ScanDefaults \cup UltrafastField \cup Dl5Field |->
            IF f \in DOMAIN given THEN given[f] ELSE DefaultOf(cmd.kind, f)]

\* adc_sample is a number, which validate does not bound.
ASSUME SampleAssumption == \A cmd \in Given : ConfigOf(cmd).adc_sample \subseteq Nat

\* The validation that comes before anything is sent.
Accepted(cmd) ==
    CASE cmd.kind \in {"scan", "normal", "profile"} -> ScanValid(ConfigOf(cmd))
      [] cmd.kind = "ultrafast" -> UltrafastValid(ConfigOf(cmd))
      [] cmd.kind = "laser" -> ScanValid(ConfigOf(cmd)) /\ Dl5Valid(ConfigOf(cmd))
      [] OTHER -> TRUE

Write(a, v) == [do |-> "write", address |-> a, value |-> v]

Flag(b) == IF b = 1 THEN One ELSE {}

\* A plan item with the value its configuration gives it.
Concrete(c, item) ==
    CASE item.register = "scan_control" -> Write("0x0009", Packed(c, "0x0009") \cup Flag(item.value.state))
      [] item.register = "laser_mode_en" -> Write("0x020B", Flag(item.value))
      [] item.register = "ultrafast" ->
            Write("0x0202", IF item.value = 1 THEN Packed(c, "0x0202") \cup One ELSE {})
      [] OTHER -> Write(item.register, Packed(c, item.register))

LaserOn(c) == IF c.laser_mode = One THEN 1 ELSE 0

PlanOf(cmd) ==
    LET c == ConfigOf(cmd)
        plan == CASE cmd.kind \in {"scan", "profile"} -> P(c)!ScanPlan(c)
                  [] cmd.kind = "normal" -> P(c)!NormalPlan(c)
                  [] cmd.kind = "ultrafast" -> P(c)!UltrafastPlan(c)
                  [] cmd.kind = "laser" -> P(c)!LaserPlan(c, LaserOn(c))
        whole == IF Starts(cmd) THEN P(c)!WithStart(plan) ELSE plan
    IN  [i \in 1 .. Len(whole) |-> Concrete(c, whole[i])]

ReadControl == [do |-> "control"]

\* What was read from 0x0009 the n-th time, with another scan state.
WriteState(n, s) == [do |-> "state", n |-> n, bits |-> s]

\* apply_dl5_config: both reads of 0x0009 come before the first write.
Dl5Reads(cmd) ==
    (IF Stops(cmd) THEN <<ReadControl>> ELSE <<>>)
        \o <<[do |-> "validate"]>>
        \o (IF Starts(cmd) THEN <<ReadControl>> ELSE <<>>)

Dl5Writes(cmd) ==
    LET c == ConfigOf(cmd)
        plan == P(c)!SafeLaserPlan(c, LaserOn(c))
    IN  (IF Stops(cmd) THEN <<WriteState(1, {})>> ELSE <<>>)
            \o [i \in 1 .. Len(plan) |-> Concrete(c, plan[i])]
            \o (IF Starts(cmd) THEN <<WriteState(IF Stops(cmd) THEN 2 ELSE 1, One)>> ELSE <<>>)

\* The reads and the validation of a handler, which a dry run makes too, ...
Before(cmd) ==
    CASE cmd.kind \in {"start", "stop"} -> <<ReadControl>>
      [] cmd.kind = "dl5" -> Dl5Reads(cmd)
      [] cmd.kind = "profile" -> (IF Dry(cmd) THEN <<>> ELSE PlanOf(cmd)) \o Dl5Reads(cmd)
      [] cmd.kind = "read" -> <<[do |-> "read", address |-> cmd.address]>>
      [] OTHER -> <<>>

\* ... and what is left out by a dry run.
Sent(cmd) ==
    CASE cmd.kind \in PlanKinds -> PlanOf(cmd)
      [] cmd.kind = "start" -> <<WriteState(1, One)>>
      [] cmd.kind = "stop" -> <<WriteState(1, {})>>
      [] cmd.kind \in {"dl5", "profile"} -> Dl5Writes(cmd)
      [] cmd.kind = "write" -> <<[do |-> "send", address |-> cmd.address, value |-> cmd.value]>>
      [] cmd.kind = "write-checked" -> <<Write(cmd.address, cmd.value)>>
      [] OTHER -> <<>>

Steps(cmd) == Before(cmd) \o (IF Dry(cmd) THEN <<>> ELSE Sent(cmd))

StepsOf == [cmd \in Given |-> Steps(cmd)]

SentOf == [cmd \in Given |-> Sent(cmd)]

AcceptedCommand == {cmd \in Given : Accepted(cmd)}

\* Variant: only single writes can mismatch.
ResultExitCodeSingle(cmd, verified) ==
    IF ~verified /\ cmd.kind \in {"start", "stop", "write-checked"} THEN 11 ELSE 0

\* result_exit_code: a mismatch has a code of its own for single writes only, and
\* profile load hands over a dict, whose "success" is not looked at.
ResultExitCode(cmd, verified) ==
    CASE verified \/ cmd.kind = "profile" -> 0
      [] ~verified /\ cmd.kind \in {"start", "stop", "write-checked"} -> 11
      [] OTHER -> 1

Command == Head(script)

Leave(code) ==
    /\ exits' = Append(exits, code)
    /\ done' = Append(done, Command)
    /\ script' = Tail(script)
    /\ todo' = <<>>
    /\ active' = FALSE

\* main, up to the handler: ensure_safe, then the validation of the parameters.
Launch ==
    /\ script # <<>>
    /\ ~active
    /\ \/ /\ ~Safe(Command)
          /\ Leave(20)
          /\ UNCHANGED ok
       \/ /\ Safe(Command)
          /\ Command \notin AcceptedCommand
          /\ Leave(2)
          /\ UNCHANGED ok
       \/ /\ Safe(Command)
          /\ Command \in AcceptedCommand
          /\ active' = TRUE
          /\ ok' = TRUE
          /\ todo' = StepsOf[Command]
          /\ UNCHANGED <<script, exits, done>>
    /\ current' = <<>>
    /\ fresh' = L!Drained
    /\ dropped' = FALSE
    /\ UNCHANGED <<linkVars, captureVars, fpgaVars, waiting, auditVars, faults>>
-----------------------------------------------------------------------------
(***************************************************************************)
(* The capture.                                                            *)
(***************************************************************************)
Frame(source, command, a, v) ==
    [linktype |-> "ethernet", udp |-> TRUE, ports |-> {32000}, kept |-> 14,
     src |-> source, dst |-> IF source = "fpga" THEN "host" ELSE "fpga",
     payload |-> [magic |-> TRUE, command |-> command, address |-> a, value |-> v,
                  declared |-> A!PayloadLength[command] - 8, length |-> A!PayloadLength[command]]]

ReadFrame(a) == Frame("host", "READ", a, None)

PacketBlock(f) == [type |-> "packet", interface |-> tap, frame |-> f]

\* The frames pass the interface the tool listens to.
Pass(frames) ==
    /\ capture' = IF tap = 0 THEN capture
                  ELSE [capture EXCEPT !.blocks = @ \o [i \in 1 .. Len(frames) |-> PacketBlock(frames[i])]]
    /\ missed' = (missed \/ tap = 0)
    /\ UNCHANGED tap

Fault == faults < budget /\ faults' = faults + 1

\* The capture tool is stopped or killed, perhaps in the middle of a block.
CaptureEnds ==
    /\ tap # 0
    /\ script # <<>>
    /\ Fault
    /\ \E t \in {"none", "head", "body"} : capture' = [capture EXCEPT !.tail = t]
    /\ tap' = 0
    /\ UNCHANGED <<linkVars, processVars, fpgaVars, missed, auditVars>>

\* A second capture whose file is put behind the first: the interfaces are others.
CaptureRestarts ==
    /\ tap = 0
    /\ script # <<>>
    /\ capture.format = "pcapng"
    /\ capture.tail = "none"
    /\ capture' = [capture EXCEPT !.blocks = @ \o <<[type |-> "section"],
                                                    [type |-> "interface", linktype |-> "ethernet"]>>]
    /\ tap' = 1
    /\ UNCHANGED <<linkVars, processVars, fpgaVars, missed, auditVars, faults>>
-----------------------------------------------------------------------------
(***************************************************************************)
(* The process, one step of its list after the other.                      *)
(***************************************************************************)
\* What a step writes: as it is, or what was read of the control register with another
\* scan state.
WrittenAfter(read, step) ==
    IF step.do = "state" THEN (read[step.n] \ 0 .. 3) \cup step.bits ELSE step.value

Written(step) == WrittenAfter(current, step)

TargetOf(step) == IF step.do \in {"control", "state"} THEN "0x0009" ELSE step.address

Issue ==
    /\ active
    /\ ~waiting
    /\ todo # <<>>
    /\ LET step == Head(todo)
           a == TargetOf(step)
       IN  \/ /\ step.do \in {"control", "read"}
              /\ L!Read(a)
              /\ Pass(<<ReadFrame(a)>>)
              /\ waiting' = TRUE
              /\ UNCHANGED <<script, todo, active, exits, done>>
           \/ /\ step.do \in {"write", "state"}
              /\ Fits(Written(step), 32)
              /\ L!WriteChecked(a, Written(step))
              /\ Pass(<<Frame("host", "WRITE", a, Written(step)), ReadFrame(a)>>)
              /\ waiting' = TRUE
              /\ UNCHANGED <<script, todo, active, exits, done>>
           \/ /\ step.do = "send"
              /\ Fits(Written(step), 32)
              /\ L!Write(a, Written(step))
              /\ Pass(<<Frame("host", "WRITE", a, Written(step))>>)
              /\ todo' = Tail(todo)
              /\ UNCHANGED <<script, active, waiting, exits, done>>
           \/ /\ step.do \in {"write", "state", "send"}
              /\ ~Fits(Written(step), 32)        \* ProtocolError of encode_write
              /\ Leave(12)
              /\ UNCHANGED <<linkVars, captureVars, waiting>>
           \/ /\ step.do = "validate"
              /\ Dl5Valid(ConfigOf(Command))
              /\ todo' = Tail(todo)
              /\ UNCHANGED <<linkVars, captureVars, waiting, script, active, exits, done>>
           \/ /\ step.do = "validate"
              /\ ~Dl5Valid(ConfigOf(Command))
              /\ Leave(2)
              /\ UNCHANGED <<linkVars, captureVars, waiting>>
    /\ UNCHANGED <<fpgaVars, ok, current, fresh, auditVars, faults>>

\* A read of 0x0009 for _scan_control_value that fails is swallowed, any other ends the
\* command; a write that reads back otherwise only counts against the whole.
Settle ==
    /\ waiting
    /\ call = None
    /\ waiting' = FALSE
    /\ LET do == Head(todo).do
           failed == outcome.status \in {"timeout", "protocol_error"}
       IN  \/ /\ do = "control"
              /\ current' = Append(current, IF failed THEN {4} ELSE outcome.value)
              /\ todo' = Tail(todo)
              /\ UNCHANGED <<script, active, exits, done, ok>>
           \/ /\ do # "control"
              /\ ~failed
              /\ ok' = (ok /\ outcome.status # "mismatch")
              /\ todo' = Tail(todo)
              /\ UNCHANGED <<script, active, exits, done, current>>
           \/ /\ do # "control"
              /\ failed
              /\ Leave(IF outcome.status = "timeout" THEN 10 ELSE 12)
              /\ UNCHANGED <<ok, current>>
    /\ UNCHANGED <<linkVars, captureVars, fpgaVars, fresh, auditVars, faults>>

\* The handler returns.  A dry run has written nothing, so it succeeds and its plan is
\* printed.
Exit ==
    /\ active
    /\ ~waiting
    /\ todo = <<>>
    /\ Leave(ResultExitCode(Command, ok))
    /\ printed' = IF Dry(Command) THEN [command |-> Command, current |-> current] ELSE printed
    /\ UNCHANGED <<linkVars, captureVars, fpgaVars, waiting, ok, current, fresh, report, faults>>

Receive == L!Receive /\ UNCHANGED <<processVars, captureVars, fpgaVars, auditVars, faults>>

\* An attempt that times out before its answer can have come counts as a fault.
TimesOut == IF requests = <<>> /\ replies = <<>> THEN UNCHANGED faults ELSE Fault

Retry ==
    /\ L!Retry
    /\ Pass(<<ReadFrame(call.address)>>)
    /\ TimesOut
    /\ UNCHANGED <<processVars, fpgaVars, auditVars>>

GiveUp == L!GiveUp /\ TimesOut /\ UNCHANGED <<processVars, captureVars, fpgaVars, auditVars>>

\* The socket of the next process.
Reopen == ~active /\ L!Reopen /\ UNCHANGED <<processVars, captureVars, fpgaVars, auditVars, faults>>
-----------------------------------------------------------------------------
(***************************************************************************)
(* The FPGA and the wire.  An answer is captured as it is sent: one that   *)
(* is lost on its way is as good as one that was never sent.               *)
(***************************************************************************)
\* Variant: the X range, not the point count, starts the division.
StepTriggersSwapped(a) == [x |-> a = "0x0005", y |-> a \in {"0x0004", "0x0007"}]

\* The writes that pulse dacx_step_flag and dacy_step_flag.
StepTriggers(a) == [x |-> a = "0x0006", y |-> a \in {"0x0004", "0x0007"}]

\* What step_module computes from.
StepInputs(regs) == [x |-> <<regs["0x0005"], regs["0x0006"]>>, y |-> <<regs["0x0007"], regs["0x0004"]>>]

Scanning == 0 \in register["0x0009"]

FpgaWrite ==
    /\ L!FpgaWrite
    /\ LET a == Head(requests).address
       IN  /\ dacStep' = [x |-> IF StepTriggers(a).x THEN StepInputs(register').x ELSE dacStep.x,
                          y |-> IF StepTriggers(a).y THEN StepInputs(register').y ELSE dacStep.y]
           /\ disturbed' = (disturbed \/ (a # "0x0009" /\ Scanning))
    /\ UNCHANGED <<processVars, captureVars, auditVars, faults>>

FpgaRead ==
    /\ L!FpgaRead
    /\ LET a == Head(requests).address
       IN  Pass(<<Frame("fpga", "READ_RESPONSE", a, register[a])>>)
    /\ UNCHANGED <<processVars, fpgaVars, auditVars, faults>>

FpgaReadBusy ==
    /\ L!FpgaReadBusy
    /\ Fault
    /\ UNCHANGED <<processVars, captureVars, fpgaVars, auditVars>>

LoseRequest ==
    /\ L!LoseRequest
    /\ Fault
    /\ dropped' = (dropped \/ lost' = lost)
    /\ UNCHANGED <<processVars, captureVars, fpgaVars, auditVars>>
-----------------------------------------------------------------------------
\* load_expected_plan on what the dry run of a command printed when it had read this of
\* 0x0009: only the items of a mode say that they are checked, and the results of a
\* profile have an address and a value that are null.
ExpectedPlan(cmd, read) ==
    IF cmd.kind = "profile" THEN Unreadable
    ELSE LET sent == SentOf[cmd]
         IN  [i \in 1 .. Len(sent) |->
                [address |-> TargetOf(sent[i]), value |-> WrittenAfter(read, sent[i]) \cap 0 .. 31,
                 checked |-> cmd.kind \in PlanKinds \ {"scan"}]]

\* The same command but for the options that ask for a dry run or confirm.
Undecided(cmd) == [cmd EXCEPT !.options = @ \ {"yes", "dry-run"}]

Shown(cmd) == printed # None /\ Undecided(printed.command) = Undecided(cmd)

\* The plan of a command there is at the end, with what its dry run read of 0x0009.  That
\* of a mode, a scan or a profile has nothing of the FPGA in it: its dry run can be made
\* at any time, --mock included.
PlanAtHand(cmd) ==
    IF cmd \in AcceptedCommand /\ (cmd.kind \in PlanKinds \cup {"profile"} \/ Shown(cmd))
    THEN ExpectedPlan(cmd, IF printed = None THEN <<>> ELSE printed.current)
    ELSE <<>>

\* run-audit, with the plan of the last command if it has one.
RunAudit ==
    /\ script = <<>>
    /\ report = None
    /\ LET expected == PlanAtHand(done[Len(done)])
       IN  report' = IF expected = Unreadable THEN Unreadable ELSE A!RunAudit(capture, expected, TRUE)
    /\ UNCHANGED <<linkVars, processVars, captureVars, fpgaVars, printed, faults>>

Init ==
    /\ L!Init
    /\ \E s \in Sessions :
        /\ script = s.commands
        /\ budget = s.faults
        /\ tap = s.tap
        /\ capture = [format |-> s.format, linktype |-> "ethernet", tail |-> "none",
                      blocks |-> <<[type |-> "section"], [type |-> "interface", linktype |-> "null"],
                                   [type |-> "interface", linktype |-> "ethernet"]>>
                                   \o [i \in 1 .. Len(Background) |->
                                          [type |-> "packet", interface |-> 2, frame |-> Background[i]]]]
    /\ faults = 0
    /\ todo = <<>>
    /\ active = FALSE
    /\ waiting = FALSE
    /\ ok = TRUE
    /\ current = <<>>
    /\ exits = <<>>
    /\ done = <<>>
    /\ dacStep = [x |-> None, y |-> None]
    /\ printed = None
    /\ report = None
    /\ fresh = TRUE
    /\ missed = FALSE
    /\ dropped = FALSE
    /\ disturbed = FALSE

\* The session is over.
Over == script = <<>> /\ report # None /\ UNCHANGED vars

Next ==
    \/ /\ \/ Launch \/ LoseRequest
       /\ UNCHANGED budget
    \/ /\ \/ Issue \/ Settle \/ Exit
          \/ Receive \/ Retry \/ GiveUp \/ Reopen
          \/ FpgaWrite \/ FpgaRead \/ FpgaReadBusy
          \/ CaptureEnds \/ CaptureRestarts
          \/ RunAudit
       /\ UNCHANGED <<budget, dropped>>
    \/ Over

Spec == Init /\ [][Next]_vars
-----------------------------------------------------------------------------
Ended == exits # <<>> /\ ~active

LastCommand == done[Len(done)]

LastExit == exits[Len(exits)]

\* The registers that steps write, with the last value they give each.
LastWrites(steps) ==
    LET writes == {i \in 1 .. Len(steps) : steps[i].do \in {"write", "send"}}
        last == {i \in writes : \A m \in writes : m > i => steps[m].address # steps[i].address}
    IN  {<<steps[i].address, steps[i].value>> : i \in last}

Wanted(cmd) == LastWrites(StepsOf[cmd])

WantedOf == [cmd \in AcceptedCommand |-> Wanted(cmd)]

Configured(cmd) == \A w \in WantedOf[cmd] : register[w[1]] = Kept(w[1], w[2])

\* The fields of the FPGA that hold what the configuration says.
FieldsOfConfig(cmd) ==
    {t \in RtlLayout :
        /\ \E w \in WantedOf[cmd] : w[1] = t[1]
        /\ t[2] \notin {"scan_state", "ultrafast_mode", "laser_mode"}
        /\ t[1] = "0x0202" => cmd.kind = "ultrafast"}

\* Bit 31 of ultrafast_line_rec has no place in its register.
FieldsReached(cmd) ==
    LET c == Effective(ConfigOf(cmd))
    IN  \A t \in FieldsOfConfig(cmd) :
            FieldOf(t, register[t[1]]) = c[t[2]] \ (IF t[2] = "ultrafast_line_rec" THEN {31} ELSE {})

AsksForScan(cmd) == cmd.kind = "start" \/ Starts(cmd)

\* The last command began on a drained link and exited with 0, and it was not a
\* profile, of which that says nothing.
Succeeded ==
    /\ Ended
    /\ fresh
    /\ requests = <<>>
    /\ LastExit = 0
    /\ ~Dry(LastCommand)
    /\ LastCommand.kind \in PlanKinds \cup {"start", "stop", "dl5", "write-checked"}

\* A command that exits with 0 leaves the FPGA as it was asked to, every field in its
\* place and the scan running or not, whatever was lost or repeated on the way.
ExitZeroMeansConfigured ==
    Succeeded =>
        /\ Configured(LastCommand)
        /\ LastCommand.kind \in PlanKinds => FieldsReached(LastCommand)
        /\ LastCommand.kind # "write-checked" /\ Stops(LastCommand) => Scanning = AsksForScan(LastCommand)

\* After a successful apply the DAC steps are those of the registers: 0x0006 and 0x0007
\* are written after the registers their divisions read.  No write may have been lost:
\* if 0x0006 had its value already, the read-back does not tell, and the steps are old.
StepsAreCurrent ==
    Succeeded /\ LastCommand.kind \in PlanKinds /\ ~dropped => dacStep = StepInputs(register)

HasDl5(cmd) == cmd.kind \in {"dl5", "profile"}

\* What the host's validation lets through, the FPGA keeps: without a fault a command
\* that was accepted exits with 0.  Nothing bounds adc_sample.
AcceptedMeansVerified ==
    faults = 0 =>
        \A i \in 1 .. Len(done) :
            LET cmd == done[i]
            IN  /\ Safe(cmd)
                /\ cmd \in AcceptedCommand
                /\ cmd.kind \notin {"write", "write-checked"}
                /\ HasDl5(cmd) => Dl5Valid(ConfigOf(cmd))
                /\ cmd.kind \in PlanKinds \cup {"profile"} => Fits(ConfigOf(cmd).adc_sample, 32)
                => exits[i] = 0

HasReport == report \notin {None, Unreadable}

\* A command whose writes cannot be taken for those of the plan.
Apart(cmd, expected) ==
    \/ Dry(cmd)
    \/ cmd.kind = "read"
    \/ /\ cmd.kind \in {"write", "write-checked"}
       /\ \A i \in 1 .. Len(expected) :
            <<expected[i].address, expected[i].value>> # <<cmd.address, cmd.value>>

\* The last command found in the control register what its dry run, if there was one,
\* had found there, but for the scan state, which is not carried over.
AsShown ==
    Shown(LastCommand) =>
        \A n \in 1 .. Len(current) : current[n] \ 0 .. 3 = printed.current[n] \ 0 .. 3

\* The audit fails a command that succeeded if and only if it wrote something else than
\* its dry run had printed, which a read of 0x0009 that failed in one of the two brings
\* about.  Retries, stale answers, other traffic and what was written before that is not
\* in the plan do not make it fail.
SuccessPassesAudit ==
    /\ HasReport
    /\ Succeeded
    /\ ~missed
    /\ \A i \in 1 .. Len(done) - 1 : Apart(done[i], PlanAtHand(LastCommand))
    => (A!Fails(report) <=> ~AsShown)

\* An audit with no finding means that the plan is what the FPGA has, however the capture
\* of one command was cut.  After others it has to be whole: the plan may be seen as it was
\* applied the last time but one, and what came between be missed.
CleanAuditMeansConfigured ==
    /\ HasReport
    /\ ~missed \/ Len(done) = 1
    /\ LastCommand.kind \in PlanKinds
    /\ Safe(LastCommand)
    /\ LastCommand \in AcceptedCommand
    => (A!AuditExit(report) = 0 => Configured(LastCommand))

\* Exit code 0 tells whether the command started or stopped the scan, which that of a
\* profile and of a single write to 0x0009 does not.
TellsScan(cmd) ==
    /\ cmd.kind # "profile"
    /\ cmd.kind \in {"write", "write-checked"} => cmd.address # "0x0009"

\* Commands that all succeed may still change a parameter under a running scan (scan
\* apply does not stop it first): the audit says so.
RunningChangeIsReported ==
    /\ HasReport
    /\ disturbed
    /\ ~missed
    /\ \A i \in 1 .. Len(done) : exits[i] = 0 /\ TellsScan(done[i])
    => \E f \in report : f.title = "changed while running"
=============================================================================
