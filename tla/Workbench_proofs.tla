--------------------------- MODULE Workbench_proofs ---------------------------
(***************************************************************************)
(* The guard on "start scan", for every set of configurations and devices. *)
(*                                                                         *)
(* StartMeansApplied is not inductive: it says nothing while the start is  *)
(* blocked for another reason than unapplied parameters, and a successful  *)
(* stop lifts that block.  What carries it is that parameters that are not *)
(* dirty are in the FPGA whether the start is blocked or not; what carries *)
(* FailureBlocksStart is that a failed apply leaves them dirty.            *)
(***************************************************************************)
EXTENDS Workbench, TLAPS

CleanMeansApplied ==
    ~dirty /\ ~tampered[connected] =>
        held[connected] = fields /\ control[connected].interval = fields

FailureIsRemembered ==
    /\ pending = "apply" => dirty
    /\ pending = "start" => dirty \/ reason # "none"

IInv == TypeOK /\ CleanMeansApplied /\ FailureIsRemembered /\ ScanIsWhole

\* Writing 0x0009 of the connected device touches no other register.
LEMMA SetControlType ==
    ASSUME TypeOK, NEW c \in Control, SetControl(c)
    PROVE  /\ control' \in [Device -> Control]
           /\ control'[connected] = c
           /\ \A d \in Device \ {connected} : control'[d] = control[d]
BY DEF TypeOK, SetControl

\* What the handlers write to 0x0009 is a scan control value.
LEMMA ScanControlType ==
    ASSUME TypeOK, NEW s \in 0 .. 1
    PROVE  /\ ScanControl(s) \in Control
           /\ ScanControl(s).state = s
           /\ ScanControl(s).interval = fields
BY DEF TypeOK, ScanControl, Control

\* The state shown is one of the three that can be shown.
LEMMA ShownType ==
    ASSUME NEW c, RefreshScanStatus(c)
    PROVE  chip' \in {"running", "stopped", "unknown"}
BY DEF RefreshScanStatus, Shown

\* The panel comes up dirty, on FPGAs that are not scanning.
LEMMA InvInit == Init => IInv
<1> SUFFICES ASSUME Init PROVE IInv
  OBVIOUS
<1>1. TypeOK
  <2>1. [interval |-> Unset, state |-> 0] \in Control
    BY DEF Control
  <2>2. control \in [Device -> Control]
    BY <2>1 DEF Init
  <2>3. QED
    BY <2>2 DEF Init, TypeOK, Reason
<1>2. CleanMeansApplied /\ FailureIsRemembered
  BY DEF Init, CleanMeansApplied, FailureIsRemembered
<1>3. ScanIsWhole
  BY DEF Init, ScanIsWhole
<1>4. QED
  BY <1>1, <1>2, <1>3 DEF IInv

\* An apply, whatever it comes to.
LEMMA ApplyStep == IInv /\ ApplyParameters => IInv'
<1> SUFFICES ASSUME IInv, ApplyParameters PROVE IInv'
  OBVIOUS
<1>1. connected \in Device /\ fields \in Config
  BY DEF IInv, TypeOK
<1>2. CASE ApplySucceeds
  <2>1. /\ control' \in [Device -> Control]
        /\ control'[connected] = ScanControl(0)
        /\ \A d \in Device \ {connected} : control'[d] = control[d]
    BY <1>2, SetControlType, ScanControlType DEF ApplySucceeds, IInv
  <2>2. ScanControl(0).state = 0 /\ ScanControl(0).interval = fields
    BY ScanControlType DEF IInv
  <2>3. TypeOK'
    BY <1>2, <2>1, ShownType DEF ApplySucceeds, IInv, TypeOK, Reason
  <2>4. CleanMeansApplied'
    BY <1>1, <1>2, <2>1, <2>2 DEF ApplySucceeds, CleanMeansApplied, IInv, TypeOK
  <2>5. FailureIsRemembered'
    BY <1>2 DEF ApplySucceeds, FailureIsRemembered
  <2>6. ScanIsWhole'
    BY <1>1, <1>2, <2>1, <2>2 DEF ApplySucceeds, ScanIsWhole, IInv, TypeOK
  <2>7. QED
    BY <2>3, <2>4, <2>5, <2>6 DEF IInv
<1>3. CASE ApplyFails
  <2>1. PICK c \in {control[connected], ScanControl(0)} : SetControl(c)
    BY <1>3 DEF ApplyFails, ApplyReaches
  <2>2. c \in Control
    BY <1>1, <2>1, ScanControlType DEF IInv, TypeOK
  <2>3. /\ control' \in [Device -> Control]
        /\ \A d \in Device \ {connected} : control'[d] = control[d]
    BY <2>1, <2>2, SetControlType DEF IInv
  <2>4. TypeOK'
    BY <1>1, <1>3, <2>3 DEF ApplyFails, ApplyReaches, IInv, TypeOK, Reason
  <2>5. CleanMeansApplied' /\ FailureIsRemembered'
    BY <1>3 DEF ApplyFails, CleanMeansApplied, FailureIsRemembered
  <2>6. ScanIsWhole'
    BY <1>1, <1>3, <2>3 DEF ApplyFails, ApplyReaches, ScanIsWhole, IInv, TypeOK
  <2>7. QED
    BY <2>4, <2>5, <2>6 DEF IInv
<1>4. QED
  BY <1>2, <1>3 DEF ApplyParameters

\* A start starts what was applied, if it starts anything.
LEMMA StartStep == IInv /\ StartScan => IInv'
<1> SUFFICES ASSUME IInv, StartScan PROVE IInv'
  OBVIOUS
<1>1. CASE ~CanStart /\ UNCHANGED vars
  BY <1>1 DEF vars, IInv, TypeOK, CleanMeansApplied, FailureIsRemembered, ScanIsWhole
<1>2. CASE /\ CanStart
           /\ StartSucceeds \/ StartFails
           /\ UNCHANGED <<fields, dirty, connected, held, tampered, broken>>
  <2>1. connected \in Device /\ ~dirty /\ reason = "none"
    BY <1>2 DEF IInv, TypeOK, CanStart
  <2>2. PICK c \in {control[connected], ScanControl(1)} : SetControl(c)
    BY <1>2 DEF StartSucceeds, StartFails
  <2>3. c \in Control
    BY <2>1, <2>2, ScanControlType DEF IInv, TypeOK
  <2>4. ~tampered[connected] => c.interval = fields /\ held[connected] = fields
    BY <2>1, <2>2, ScanControlType DEF IInv, CleanMeansApplied
  <2>5. /\ control' \in [Device -> Control]
        /\ control'[connected] = c
        /\ \A d \in Device \ {connected} : control'[d] = control[d]
    BY <2>2, <2>3, SetControlType DEF IInv
  <2>6. TypeOK'
    BY <1>2, <2>5, ShownType DEF StartSucceeds, StartFails, IInv, TypeOK, Reason
  <2>7. CleanMeansApplied'
    BY <1>2, <2>4, <2>5 DEF CleanMeansApplied
  <2>8. FailureIsRemembered'
    BY <1>2, <2>1 DEF StartSucceeds, StartFails, IInv, FailureIsRemembered
  <2>9. ScanIsWhole'
    BY <1>2, <2>4, <2>5 DEF ScanIsWhole, IInv
  <2>10. QED
    BY <2>6, <2>7, <2>8, <2>9 DEF IInv
<1>3. QED
  BY <1>1, <1>2 DEF StartScan

\* A stop writes the interval of the widgets, which is the applied one unless they
\* are dirty.
LEMMA StopStep == IInv /\ StopScan => IInv'
<1> SUFFICES ASSUME IInv, StopScan PROVE IInv'
  OBVIOUS
<1>1. connected \in Device
  BY DEF IInv, TypeOK
<1>2. PICK c \in {control[connected], ScanControl(0)} : SetControl(c)
  BY DEF StopScan, StopSucceeds, StopFails
<1>3. c \in Control
  BY <1>1, <1>2, ScanControlType DEF IInv, TypeOK
<1>4. /\ control' \in [Device -> Control]
      /\ control'[connected] = c
      /\ \A d \in Device \ {connected} : control'[d] = control[d]
  BY <1>2, <1>3, SetControlType DEF IInv
<1>5. ScanControl(0).state = 0 /\ ScanControl(0).interval = fields
  BY ScanControlType DEF IInv
<1>6. TypeOK'
  <2>1. CASE StopSucceeds
    BY <1>4, <2>1, ShownType DEF StopScan, StopSucceeds, IInv, TypeOK, Reason
  <2>2. CASE StopFails
    BY <1>4, <2>2 DEF StopScan, StopFails, IInv, TypeOK
  <2>3. QED
    BY <2>1, <2>2 DEF StopScan
<1>7. CleanMeansApplied'
  BY <1>2, <1>4, <1>5 DEF StopScan, StopSucceeds, StopFails, CleanMeansApplied, IInv
<1>8. FailureIsRemembered'
  BY DEF StopScan, StopSucceeds, StopFails, FailureIsRemembered, IInv
<1>9. ScanIsWhole'
  BY <1>1, <1>2, <1>4, <1>5 DEF StopScan, ScanIsWhole, IInv
<1>10. QED
  BY <1>6, <1>7, <1>8, <1>9 DEF IInv

\* Every other handler, and what happens to an FPGA from elsewhere.
LEMMA InvStep == IInv /\ [Next]_vars => IInv'
<1> SUFFICES ASSUME IInv, [Next]_vars PROVE IInv'
  OBVIOUS
<1>1. CASE Edit
  BY <1>1 DEF Edit, IInv, TypeOK, Reason, CleanMeansApplied, FailureIsRemembered, ScanIsWhole
<1>2. CASE Refresh
  BY <1>2, ShownType DEF Refresh, IInv, TypeOK, CleanMeansApplied, FailureIsRemembered, ScanIsWhole
<1>3. CASE ApplyParameters
  BY <1>3, ApplyStep
<1>4. CASE StartScan
  BY <1>4, StartStep
<1>5. CASE StopScan
  BY <1>5, StopStep
<1>6. CASE \E d \in Device : SwitchTo(d)
  BY <1>6, ShownType
     DEF SwitchTo, IInv, TypeOK, Reason, CleanMeansApplied, FailureIsRemembered, ScanIsWhole
<1>7. CASE RawWrite
  <2>1. control' \in [Device -> Control]
    BY <1>7, SetControlType DEF RawWrite, IInv, TypeOK
  <2>2. \A d \in Device \ {connected} : control'[d] = control[d] /\ held'[d] = held[d]
    BY <1>7, SetControlType DEF RawWrite, IInv, TypeOK
  <2>3. tampered'[connected] /\ \A d \in Device \ {connected} : tampered'[d] = tampered[d]
    BY <1>7 DEF RawWrite, IInv, TypeOK
  <2>4. TypeOK'
    BY <1>7, <2>1 DEF RawWrite, panelVars, IInv, TypeOK
  <2>5. CleanMeansApplied' /\ FailureIsRemembered'
    BY <1>7, <2>3 DEF RawWrite, panelVars, IInv, CleanMeansApplied, FailureIsRemembered
  <2>6. ScanIsWhole'
    BY <1>7, <2>2, <2>3 DEF RawWrite, panelVars, IInv, ScanIsWhole
  <2>7. QED
    BY <2>4, <2>5, <2>6 DEF IInv
<1>8. CASE \E d \in Device : DeviceReset(d)
  <2>1. PICK d \in Device : DeviceReset(d)
    BY <1>8
  <2>2. [interval |-> Unset, state |-> 0] \in Control
    BY DEF Control
  <2>3. \A e \in Device \ {d} :
          control'[e] = control[e] /\ held'[e] = held[e] /\ tampered'[e] = tampered[e]
    BY <2>1 DEF DeviceReset, IInv, TypeOK
  <2>4. tampered'[d] /\ control' \in [Device -> Control]
    BY <2>1, <2>2 DEF DeviceReset, IInv, TypeOK
  <2>5. TypeOK'
    BY <2>1, <2>4 DEF DeviceReset, panelVars, IInv, TypeOK
  <2>6. CleanMeansApplied' /\ FailureIsRemembered'
    BY <2>1, <2>3, <2>4
       DEF DeviceReset, panelVars, IInv, TypeOK, CleanMeansApplied, FailureIsRemembered
  <2>7. ScanIsWhole'
    BY <2>1, <2>3, <2>4 DEF DeviceReset, panelVars, IInv, ScanIsWhole
  <2>8. QED
    BY <2>5, <2>6, <2>7 DEF IInv
<1>9. CASE UNCHANGED vars
  BY <1>9 DEF vars, IInv, TypeOK, CleanMeansApplied, FailureIsRemembered, ScanIsWhole
<1>10. QED
  BY <1>1, <1>2, <1>3, <1>4, <1>5, <1>6, <1>7, <1>8, <1>9 DEF Next
-----------------------------------------------------------------------------
\* The state of the workbench, and its inductive invariant.
THEOREM WorkbenchInvariance == Spec => []IInv
<1>1. QED
  BY InvInit, InvStep, PTL DEF Spec

\* The widgets, the guard and the registers keep their kinds of values.
THEOREM WorkbenchTyped == Spec => []TypeOK
<1>1. IInv => TypeOK
  BY DEF IInv
<1>2. QED
  BY <1>1, WorkbenchInvariance, PTL

\* Whatever the user and the devices do, "start scan" is enabled only when the
\* connected FPGA holds what the widgets show, unless its registers were changed
\* behind the workbench's back.
THEOREM StartMeansAppliedAlways == Spec => []StartMeansApplied
<1>1. IInv => StartMeansApplied
  BY DEF IInv, CleanMeansApplied, StartMeansApplied, CanStart
<1>2. QED
  BY <1>1, WorkbenchInvariance, PTL

\* After a failed apply or start, "start scan" stays disabled until that failure is
\* made good.
THEOREM FailureBlocksStartAlways == Spec => []FailureBlocksStart
<1>1. IInv => FailureBlocksStart
  BY DEF IInv, TypeOK, FailureIsRemembered, FailureBlocksStart, CanStart
<1>2. QED
  BY <1>1, WorkbenchInvariance, PTL

\* A scan in progress runs with the parameters of one configuration, on every
\* device whose last apply succeeded.
THEOREM ScanIsWholeAlways == Spec => []ScanIsWhole
<1>1. IInv => ScanIsWhole
  BY DEF IInv
<1>2. QED
  BY <1>1, WorkbenchInvariance, PTL
=============================================================================
