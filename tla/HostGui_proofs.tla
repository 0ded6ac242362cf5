----------------------------- MODULE HostGui_proofs -----------------------------
(***************************************************************************)
(* The panels of the main window, composed, are still what their modules   *)
(* say, and the image panel has one live worker at most, for any number of *)
(* workers, configurations and FPGAs.                                      *)
(***************************************************************************)
EXTENDS HostGui, TLAPS

Setup == [frame : Config, endpoint : Device]

(***************************************************************************)
(* The composition implements its parts.                                   *)
(***************************************************************************)
WidgetsOK == fields \in Config /\ connected \in Device

LEMMA WidgetsStep == WidgetsOK /\ [Next]_vars => WidgetsOK'
<1> SUFFICES ASSUME WidgetsOK, [Next]_vars PROVE WidgetsOK'
  OBVIOUS
<1>1. CASE WorkbenchOnly
  BY <1>1 DEF WidgetsOK, WorkbenchOnly, W!Edit, W!Refresh, W!ApplyParameters, W!ApplySucceeds,
              W!ApplyFails, W!StartScan, W!StopScan, W!RawWrite, W!DeviceReset, W!panelVars, W!vars
<1>2. CASE Receive \/ StopReceive \/ DeliverStep \/ (\E w \in Worker : ThreadStep(w)) \/ UNCHANGED vars
  BY <1>2 DEF WidgetsOK, Receive, StopReceive, DeliverStep, ThreadStep, vars, workbench
<1>3. CASE ReceiveAndStart \/ StopScanAndReceive
  BY <1>3 DEF WidgetsOK, ReceiveAndStart, StopScanAndReceive, W!StartScan, W!StopScan, W!vars
<1>4. CASE \E d \in Device : UpdateConnection(d)
  BY <1>4 DEF WidgetsOK, UpdateConnection, W!SwitchTo
<1> QED
  BY <1>1, <1>2, <1>3, <1>4 DEF Next

\* Whatever else the window does, the workbench sees its own operations only:
\* what is true of it alone is true of it in the GUI.
THEOREM WorkbenchImplemented == Spec => W!Spec
<1>1. Init => W!Init
  BY DEF Init
<1>2. [Next]_vars => [W!Next]_(W!vars)
  <2> SUFFICES ASSUME [Next]_vars PROVE [W!Next]_(W!vars)
    OBVIOUS
  <2>1. CASE WorkbenchOnly
    BY <2>1 DEF WorkbenchOnly, W!Next
  <2>2. CASE Receive \/ StopReceive \/ DeliverStep \/ (\E w \in Worker : ThreadStep(w)) \/ UNCHANGED vars
    BY <2>2 DEF Receive, StopReceive, DeliverStep, ThreadStep, vars, workbench, W!vars
  <2>3. CASE ReceiveAndStart \/ StopScanAndReceive
    BY <2>3 DEF ReceiveAndStart, StopScanAndReceive, W!Next
  <2>4. CASE \E d \in Device : UpdateConnection(d)
    BY <2>4 DEF UpdateConnection, W!Next
  <2> QED
    BY <2>1, <2>2, <2>3, <2>4 DEF Next
<1> QED
  BY <1>1, <1>2, PTL DEF Spec, W!Spec

LEMMA PanelStep == WidgetsOK /\ [Next]_vars => [P!Next]_(P!vars)
<1> SUFFICES ASSUME WidgetsOK, [Next]_vars PROVE [P!Next]_(P!vars)
  OBVIOUS
<1>1. CurrentSetup \in Setup
  BY DEF CurrentSetup, Setup, WidgetsOK
<1>2. CASE WorkbenchOnly \/ UNCHANGED vars
  BY <1>2 DEF WorkbenchOnly, vars, panel, P!vars
<1>3. CASE Receive \/ ReceiveAndStart
  BY <1>1, <1>3 DEF Receive, ReceiveAndStart, P!Next, P!Click, Setup
<1>4. CASE StopReceive \/ StopScanAndReceive
  BY <1>4 DEF StopReceive, StopScanAndReceive, P!Next, P!Click
<1>5. CASE \E d \in Device : UpdateConnection(d)
  BY <1>5 DEF UpdateConnection, P!Next
<1>6. CASE DeliverStep \/ (\E w \in Worker : ThreadStep(w))
  BY <1>6 DEF DeliverStep, ThreadStep, P!Next
<1> QED
  BY <1>2, <1>3, <1>4, <1>5, <1>6 DEF Next

\* The image panel in the GUI is an image panel whose setups are those of the workbench.
THEOREM PanelImplemented == Spec => P!Spec
<1>1. Init => P!Init
  BY DEF Init
<1>2. Init => WidgetsOK
  BY DEF Init, W!Init, WidgetsOK
<1> QED
  BY <1>1, <1>2, WidgetsStep, PanelStep, PTL DEF Spec, P!Spec

(***************************************************************************)
(* One live worker.  The inductive invariant says where the port and the   *)
(* "finished" signal may be: a worker lets go of the port before it says   *)
(* that it has finished, and says nothing after that.                      *)
(***************************************************************************)
PortIsInUse == \A w \in port : pc[w] \in {"looping", "getting", "closing"}

StoppedIsIdle == ~receiving => worker = None

FinishedIsLast ==
    \A i \in 1 .. Len(events) : events[i].kind = "finished" => i = Len(events) /\ pc[worker] = "finished"

PanelInv == P!TypeOK /\ P!OneLiveWorker /\ PortIsInUse /\ StoppedIsIdle /\ FinishedIsLast

\* An idle panel has nothing left of the last worker.
LEMMA IdleIsQuiet ==
    ASSUME PanelInv, worker = None
    PROVE  /\ events = <<>> /\ port = {}
           /\ \A w \in Worker : pc[w] \in {"unborn", "finished"}
<1>1. \A w \in Worker : pc[w] \in {"unborn", "finished"}
  BY GuiAssumption DEF PanelInv, P!OneLiveWorker
<1>2. events = <<>>
  <2>1. events \in Seq(P!Event) /\ \A e \in P!Event : e.from \in Worker
    BY DEF PanelInv, P!TypeOK, P!Event
  <2>2. 1 \notin 1 .. Len(events)
    BY <2>1, GuiAssumption DEF PanelInv, P!OneLiveWorker
  <2> QED
    BY <2>1, <2>2
<1>3. port = {}
  BY <1>1 DEF PanelInv, P!TypeOK, PortIsInUse
<1> QED
  BY <1>1, <1>2, <1>3

\* What a click, a delivered signal and a step of a thread leave true.
LEMMA ClickKeeps == ASSUME PanelInv, P!Click \/ P!ConnectionUpdated PROVE PanelInv'
<1>1. ASSUME NEW s \in Setup, P!StartReceiving(s) PROVE PanelInv'
  <2>1. PICK w \in Worker : /\ worker' = w /\ pc' = [pc EXCEPT ![w] = "starting"]
                            /\ setup' = [setup EXCEPT ![w] = s]
    BY <1>1 DEF P!StartReceiving, P!Goto
  <2>2. /\ worker = None /\ receiving' = TRUE /\ shown' = shown
        /\ events' = events /\ stop' = stop /\ port' = port
    BY <1>1 DEF P!StartReceiving
  <2>3. events = <<>> /\ port = {} /\ \A v \in Worker : pc[v] \in {"unborn", "finished"}
    BY <2>2, IdleIsQuiet
  <2>4. P!TypeOK'
    BY <2>1, <2>2 DEF PanelInv, P!TypeOK, P!Phase, Setup
  <2>5. P!OneLiveWorker'
    BY <2>1, <2>2, <2>3 DEF PanelInv, P!TypeOK, P!OneLiveWorker
  <2>6. PortIsInUse' /\ StoppedIsIdle' /\ FinishedIsLast'
    BY <2>1, <2>2, <2>3 DEF PortIsInUse, StoppedIsIdle, FinishedIsLast
  <2> QED
    BY <2>4, <2>5, <2>6 DEF PanelInv
<1>2. ASSUME P!StopReceiving PROVE PanelInv'
  <2>1. /\ worker' = worker /\ shown' = shown /\ events' = events
        /\ pc' = pc /\ setup' = setup /\ port' = port
    BY <1>2 DEF P!StopReceiving
  <2>2. P!TypeOK'
    BY <1>2, <2>1 DEF P!StopReceiving, PanelInv, P!TypeOK
  <2>3. StoppedIsIdle'
    BY <1>2 DEF P!StopReceiving, PanelInv, StoppedIsIdle
  <2> QED
    BY <2>1, <2>2, <2>3 DEF PanelInv, P!OneLiveWorker, PortIsInUse, FinishedIsLast
<1>3. ASSUME UNCHANGED P!vars PROVE PanelInv'
  BY <1>3 DEF P!vars, PanelInv, P!TypeOK, P!OneLiveWorker, PortIsInUse, StoppedIsIdle, FinishedIsLast
<1> QED
  BY <1>1, <1>2, <1>3 DEF P!Click, P!ConnectionUpdated, Setup

LEMMA DeliverKeeps == ASSUME PanelInv, P!Deliver PROVE PanelInv'
<1>1. /\ events # <<>> /\ events' = Tail(events)
      /\ pc' = pc /\ stop' = stop /\ setup' = setup /\ port' = port
  BY DEF P!Deliver, P!OnFrame, P!OnFailed, P!OnFinished
<1>2. /\ Head(events) = events[1] /\ events[1] \in P!Event /\ 1 \in 1 .. Len(events)
      /\ events' \in Seq(P!Event) /\ Len(events') = Len(events) - 1
      /\ \A i \in 1 .. Len(events') : events'[i] = events[i + 1] /\ i + 1 \in 1 .. Len(events)
  <2>1. events \in Seq(P!Event)
    BY DEF PanelInv, P!TypeOK
  <2>2. Len(events) \in Nat \ {0} /\ Head(events) = events[1] /\ events[1] \in P!Event
    BY <1>1, <2>1
  <2>3. events' \in Seq(P!Event) /\ Len(events') = Len(events) - 1
    BY <1>1, <2>1
  <2>4. \A i \in 1 .. Len(events') : events'[i] = events[i + 1]
    BY <1>1, <2>1, <2>3
  <2> QED
    BY <2>2, <2>3, <2>4
<1>3. worker' = worker \/ (P!OnFinished /\ worker' = None /\ events' = <<>> /\ pc[worker] = "finished")
  <2>1. CASE P!OnFrame \/ P!OnFailed
    BY <2>1 DEF P!OnFrame, P!OnFailed
  <2>2. CASE P!OnFinished
    <3>1. 1 = Len(events) /\ pc[worker] = "finished"
      BY <1>2, <2>2 DEF P!OnFinished, PanelInv, FinishedIsLast
    <3>2. events \in Seq(P!Event) /\ events' = Tail(events)
      BY <1>1 DEF PanelInv, P!TypeOK
    <3>3. events' = <<>>
      BY <3>1, <3>2
    <3> QED
      BY <2>2, <3>1, <3>3 DEF P!OnFinished
  <2> QED
    BY <2>1, <2>2 DEF P!Deliver
<1>4. P!TypeOK'
  <2>1. shown' \in Worker \cup {None} /\ receiving' \in BOOLEAN
    <3>1. Head(events).from \in Worker
      BY <1>2 DEF P!Event
    <3> QED
      BY <3>1 DEF P!Deliver, P!OnFrame, P!OnFailed, P!OnFinished, PanelInv, P!TypeOK
  <2> QED
    BY <1>1, <1>2, <1>3, <2>1 DEF PanelInv, P!TypeOK
<1>5. P!OneLiveWorker'
  <2>1. CASE worker' = worker
    <3>1. \A i \in 1 .. Len(events') : events'[i].from = worker
      BY <1>2 DEF PanelInv, P!OneLiveWorker
    <3> QED
      BY <1>1, <2>1, <3>1 DEF PanelInv, P!OneLiveWorker
  <2>2. CASE worker' = None /\ events' = <<>> /\ pc[worker] = "finished"
    BY <1>1, <2>2 DEF PanelInv, P!OneLiveWorker
  <2> QED
    BY <1>3, <2>1, <2>2
<1>6. PortIsInUse'
  BY <1>1 DEF PanelInv, PortIsInUse
<1>7. StoppedIsIdle'
  BY DEF P!Deliver, P!OnFrame, P!OnFailed, P!OnFinished, PanelInv, StoppedIsIdle
<1>8. FinishedIsLast'
  <2>1. CASE worker' = worker
    <3>1. ASSUME NEW i \in 1 .. Len(events'), events'[i].kind = "finished"
          PROVE  i = Len(events') /\ pc[worker] = "finished"
      <4>1. i + 1 = Len(events) /\ pc[worker] = "finished"
        BY <1>2, <3>1 DEF PanelInv, FinishedIsLast
      <4> QED
        BY <1>2, <4>1
    <3> QED
      BY <1>1, <2>1, <3>1 DEF FinishedIsLast
  <2>2. CASE events' = <<>>
    BY <2>2 DEF FinishedIsLast
  <2> QED
    BY <1>3, <2>1, <2>2
<1> QED
  BY <1>4, <1>5, <1>6, <1>7, <1>8 DEF PanelInv

LEMMA ThreadKeeps == ASSUME PanelInv, NEW w \in Worker, P!Thread(w) PROVE PanelInv'
<1>1. /\ worker' = worker /\ receiving' = receiving /\ shown' = shown
      /\ stop' = stop /\ setup' = setup
      /\ pc[w] \in {"starting", "looping", "getting", "closing", "closed"}
  BY DEF P!Thread, P!Bind, P!BindRaises, P!Loop, P!GetReturns, P!GetFrame, P!GetNothing,
         P!GetRaises, P!Finish, P!At
<1>2. w = worker
  BY <1>1 DEF PanelInv, P!OneLiveWorker
<1>3. PICK phase \in P!Phase \ {"unborn"} : pc' = [pc EXCEPT ![w] = phase]
  <2>1. \E phase \in P!Phase \ {"unborn"} : P!Goto(w, phase)
    BY DEF P!Thread, P!Bind, P!BindRaises, P!Loop, P!GetReturns, P!GetFrame, P!GetNothing,
           P!GetRaises, P!Finish, P!Phase
  <2> QED
    BY <2>1 DEF P!Goto
<1>4. /\ P!TypeOK' <=> events' \in Seq(P!Event) /\ port' \subseteq Worker
      /\ P!OneLiveWorker' <=> \A i \in 1 .. Len(events') : events'[i].from = worker
  BY <1>1, <1>2, <1>3 DEF PanelInv, P!TypeOK, P!OneLiveWorker
<1>5. StoppedIsIdle'
  BY <1>1 DEF PanelInv, StoppedIsIdle
\* A worker that is not finished has not said so.
<1>6. \A i \in 1 .. Len(events) : events[i].kind # "finished" /\ events[i].from = worker
  BY <1>1, <1>2 DEF PanelInv, FinishedIsLast, P!OneLiveWorker
<1>7. port \subseteq {w}
  BY <1>2 DEF PanelInv, PortIsInUse, P!OneLiveWorker, P!TypeOK
<1>8. CASE events' = events
  <2>1. PortIsInUse' /\ port' \subseteq Worker
    BY <1>7, <1>8 DEF P!Thread, P!Bind, P!BindRaises, P!Loop, P!GetReturns, P!GetFrame, P!GetNothing,
           P!GetRaises, P!Finish, P!Goto, P!At, P!Emit, PanelInv, PortIsInUse, P!TypeOK
  <2>2. P!TypeOK' /\ P!OneLiveWorker' /\ FinishedIsLast'
    BY <1>1, <1>4, <1>6, <1>8, <2>1 DEF PanelInv, P!TypeOK, FinishedIsLast
  <2> QED
    BY <1>5, <2>1, <2>2 DEF PanelInv
<1>9. ASSUME NEW kind \in {"frame", "failed", "finished"}, P!Emit(kind, w), port' = port,
             pc[w] \in {"starting", "getting", "closed"},
             pc'[w] \in {"looping", "closing", "finished"},
             kind = "finished" => pc'[w] = "finished",
             pc'[w] = "finished" => pc[w] = "closed"
      PROVE  PanelInv'
  <2>1. /\ events' \in Seq(P!Event) /\ Len(events') = Len(events) + 1
        /\ \A i \in 1 .. Len(events) : events'[i] = events[i]
        /\ events'[Len(events) + 1] = [kind |-> kind, from |-> w]
    BY <1>9 DEF P!Emit, PanelInv, P!TypeOK, P!Event
  <2>2. \A i \in 1 .. Len(events') : i \in 1 .. Len(events) \/ i = Len(events) + 1
    BY <2>1 DEF PanelInv, P!TypeOK
  <2>3. \A i \in 1 .. Len(events') : events'[i].from = worker
    BY <1>2, <1>6, <2>1, <2>2
  <2>4. \A i \in 1 .. Len(events') : events'[i].kind = "finished" => i = Len(events') /\ kind = "finished"
    BY <1>6, <2>1, <2>2
  <2>5. P!TypeOK' /\ P!OneLiveWorker'
    BY <1>4, <1>9, <2>1, <2>3 DEF PanelInv, P!TypeOK
  <2>6. FinishedIsLast'
    BY <1>1, <1>2, <1>9, <2>4 DEF FinishedIsLast
  <2>7. PortIsInUse'
    BY <1>7, <1>9 DEF PanelInv, PortIsInUse
  <2> QED
    BY <1>5, <2>5, <2>6, <2>7 DEF PanelInv
<1>10. CASE P!Bind(w) \/ P!Loop(w) \/ P!GetNothing(w)
  BY <1>8, <1>10 DEF P!Bind, P!Loop, P!GetNothing
<1>11. CASE P!BindRaises(w) \/ P!GetRaises(w)
  BY <1>9, <1>11 DEF P!BindRaises, P!GetRaises, P!Goto, P!At, PanelInv, P!TypeOK
<1>12. CASE P!GetFrame(w)
  BY <1>9, <1>12 DEF P!GetFrame, P!Goto, P!At, PanelInv, P!TypeOK
<1>13. CASE P!Finish(w)
  BY <1>8, <1>9, <1>13 DEF P!Finish, P!Goto, P!At, PanelInv, P!TypeOK
<1> QED
  BY <1>10, <1>11, <1>12, <1>13 DEF P!Thread, P!GetReturns

LEMMA PanelInvariant == P!Spec => []PanelInv
<1>1. P!Init => PanelInv
  <2> SUFFICES ASSUME P!Init PROVE PanelInv
    OBVIOUS
  <2>1. P!TypeOK
    <3>1. <<>> \in Seq(P!Event)
      OBVIOUS
    <3> QED
      BY <3>1 DEF P!Init, P!TypeOK, P!Phase
  <2>2. 1 .. Len(events) = {}
    BY DEF P!Init
  <2> QED
    BY <2>1, <2>2 DEF P!Init, PanelInv, P!OneLiveWorker, PortIsInUse, StoppedIsIdle, FinishedIsLast
<1>2. PanelInv /\ [P!Next]_(P!vars) => PanelInv'
  <2> SUFFICES ASSUME PanelInv, [P!Next]_(P!vars) PROVE PanelInv'
    OBVIOUS
  <2>1. CASE UNCHANGED P!vars
    BY <2>1 DEF P!vars, PanelInv, P!TypeOK, P!OneLiveWorker, PortIsInUse, StoppedIsIdle, FinishedIsLast
  <2> QED
    BY <2>1, ClickKeeps, DeliverKeeps, ThreadKeeps DEF P!Next
<1> QED
  BY <1>1, <1>2, PTL DEF P!Spec

\* The data socket has one owner at a time, however often the user starts, stops
\* and changes the connection, and whatever bind and get_frame raise.
THEOREM DataPortHasOneOwner == Spec => []OnePortOwner
<1>1. PanelInv => OnePortOwner
  BY DEF PanelInv, PortIsInUse, P!OneLiveWorker, P!TypeOK, OnePortOwner, P!OnePortOwner
<1> QED
  BY <1>1, PanelImplemented, PanelInvariant, PTL

\* When "Receive" is enabled the last worker holds no socket and no signal of it is queued.
THEOREM IdleLeavesNothing == Spec => []IdleMeansIdle
<1>1. PanelInv => IdleMeansIdle
  BY IdleIsQuiet DEF PanelInv, StoppedIsIdle, IdleMeansIdle, P!IdleMeansIdle
<1> QED
  BY <1>1, PanelImplemented, PanelInvariant, PTL

\* The panel has one live worker at most, and every queued signal is its.
THEOREM LiveWorkerIsThePanels == Spec => []OneLiveWorker
<1>1. PanelInv => OneLiveWorker
  BY DEF PanelInv, OneLiveWorker
<1> QED
  BY <1>1, PanelImplemented, PanelInvariant, PTL

\* The picture changes only to a frame of the worker the panel has at that moment.
THEOREM ShownFramesAreTheWorkers == Spec => FramesAreCurrent
<1>1. PanelInv /\ [P!Next]_(P!vars) => [shown' # shown => shown' = worker]_(P!vars)
  <2> SUFFICES ASSUME PanelInv, P!Next, shown' # shown PROVE shown' = worker
    OBVIOUS
  <2>1. P!OnFrame
    BY DEF P!Next, P!Click, P!StartReceiving, P!StopReceiving, P!ConnectionUpdated, P!vars,
           P!Deliver, P!OnFailed, P!OnFinished, P!Thread, P!Bind, P!BindRaises, P!Loop,
           P!GetReturns, P!GetFrame, P!GetNothing, P!GetRaises, P!Finish
  <2>2. events \in Seq(P!Event) /\ events # <<>>
    BY <2>1 DEF P!OnFrame, PanelInv, P!TypeOK
  <2>3. Head(events) = events[1] /\ 1 \in 1 .. Len(events)
    BY <2>2
  <2> QED
    BY <2>1, <2>3 DEF P!OnFrame, PanelInv, P!OneLiveWorker
<1> QED
  BY <1>1, PanelImplemented, PanelInvariant, PTL DEF P!Spec, FramesAreCurrent, P!FramesAreCurrent

(***************************************************************************)
(* What ties the two panels.                                               *)
(***************************************************************************)
WP == INSTANCE Workbench_proofs

\* The guard of the workbench holds in the GUI.
LEMMA GuiStartMeansApplied == Spec => []W!StartMeansApplied
<1>1. WP!Spec => []WP!StartMeansApplied
  BY WP!StartMeansAppliedAlways, GuiAssumption DEF WP!WorkbenchAssumption
<1>2. W!Init => WP!Init
  BY DEF W!Init, WP!Init
<1>3. [W!Next]_(W!vars) => [WP!Next]_(WP!vars)
  BY DEF W!Next, WP!Next,
         W!Edit, W!Refresh, W!ApplyParameters, W!ApplySucceeds, W!ApplyFails,
         W!ApplyReaches, W!StartScan, W!StartSucceeds, W!StartFails, W!StopScan,
         W!StopSucceeds, W!StopFails, W!SwitchTo, W!RawWrite, W!DeviceReset,
         W!CanStart, W!Shown, W!RefreshScanStatus, W!ScanControl, W!SetControl,
         W!Control, W!panelVars, W!vars, WP!Edit, WP!Refresh, WP!ApplyParameters,
         WP!ApplySucceeds, WP!ApplyFails, WP!ApplyReaches, WP!StartScan,
         WP!StartSucceeds, WP!StartFails, WP!StopScan, WP!StopSucceeds,
         WP!StopFails, WP!SwitchTo, WP!RawWrite, WP!DeviceReset, WP!CanStart,
         WP!Shown, WP!RefreshScanStatus, WP!ScanControl, WP!SetControl,
         WP!Control, WP!panelVars, WP!vars
<1>4. WP!StartMeansApplied => W!StartMeansApplied
  BY DEF W!StartMeansApplied, WP!StartMeansApplied, W!CanStart, WP!CanStart
<1> QED
  BY <1>1, <1>2, <1>3, <1>4, WorkbenchImplemented, PTL DEF W!Spec, WP!Spec

\* A step that starts the scan of the connected FPGA starts it with what the widgets
\* show, and a receiver made in that step is of that size.
LEMMA ReceiverFits ==
    ASSUME W!StartMeansApplied, P!TypeOK, WidgetsOK, Next,
           worker' # worker, worker' # None, ~tampered[connected],
           control[connected].state = 0, control'[connected].state = 1
    PROVE  setup'[worker'].frame = held'[connected]
<1>1. ReceiveAndStart
  <2>1. ~WorkbenchOnly /\ ~StopScanAndReceive /\ ~StopReceive
    BY DEF WorkbenchOnly, panel, StopScanAndReceive, StopReceive, P!StopReceiving
  <2>2. ~Receive /\ ~DeliverStep /\ ~(\E w \in Worker : ThreadStep(w))
    BY DEF Receive, DeliverStep, ThreadStep, workbench
  <2>3. ~(\E d \in Device : UpdateConnection(d))
    BY DEF UpdateConnection, P!ConnectionUpdated, P!StopReceiving, P!vars
  <2> QED
    BY <2>1, <2>2, <2>3 DEF Next
<1>2. W!CanStart /\ held' = held
  BY <1>1 DEF ReceiveAndStart, W!StartScan, W!vars
<1>3. held[connected] = fields
  BY <1>2 DEF W!StartMeansApplied
<1>4. PICK w \in Worker : worker' = w /\ setup' = [setup EXCEPT ![w] = CurrentSetup]
  BY <1>1 DEF ReceiveAndStart, P!StartReceiving
<1>5. setup'[worker'].frame = fields
  BY <1>4 DEF P!TypeOK, CurrentSetup
<1> QED
  BY <1>2, <1>3, <1>5

\* Receive+Start makes a receiver of the size the FPGA scans with, although the
\* size is read from the widgets and the scan runs on what was applied earlier.
THEOREM ReceiverFitsTheScan == Spec => ReceiverFitsScan
<1>1. Init => WidgetsOK
  BY DEF Init, W!Init, WidgetsOK
<1>2. PanelInv => P!TypeOK
  BY DEF PanelInv
<1>3. W!StartMeansApplied /\ P!TypeOK /\ WidgetsOK /\ [Next]_vars =>
        [ worker' # worker /\ worker' # None /\ ~tampered[connected]
          /\ control[connected].state = 0 /\ control'[connected].state = 1
              => setup'[worker'].frame = held'[connected] ]_vars
  BY ReceiverFits
<1> QED
  BY <1>1, <1>2, <1>3, WidgetsStep, GuiStartMeansApplied, PanelImplemented, PanelInvariant, PTL
     DEF Spec, ReceiverFitsScan

\* A receiver that has been told to stop, or has ended, stays so.
LEMMA FollowsStep ==
    PanelInv /\ ReceiverFollowsConnection /\ [Next]_vars => ReceiverFollowsConnection'
<1> SUFFICES ASSUME PanelInv, ReceiverFollowsConnection, [Next]_vars
             PROVE  ReceiverFollowsConnection'
  OBVIOUS
<1>1. CASE UNCHANGED panel /\ connected' = connected
  BY <1>1 DEF panel, ReceiverFollowsConnection
<1>2. CASE Receive \/ ReceiveAndStart
  <2>1. connected' = connected
    BY <1>2 DEF Receive, ReceiveAndStart, workbench, W!StartScan, W!vars
  <2>2. PICK w \in Worker : worker' = w /\ setup' = [setup EXCEPT ![w] = CurrentSetup]
    BY <1>2 DEF Receive, ReceiveAndStart, P!StartReceiving
  <2>3. setup'[worker'].endpoint = connected
    BY <2>2 DEF PanelInv, P!TypeOK, CurrentSetup
  <2> QED
    BY <2>1, <2>3 DEF ReceiverFollowsConnection
<1>3. ASSUME P!StopReceiving PROVE ReceiverFollowsConnection'
  <2>1. worker' = worker /\ (worker # None => stop'[worker])
    BY <1>3 DEF P!StopReceiving, PanelInv, P!TypeOK
  <2> QED
    BY <2>1 DEF ReceiverFollowsConnection
<1>4. CASE StopReceive \/ StopScanAndReceive
  BY <1>3, <1>4 DEF StopReceive, StopScanAndReceive
<1>5. CASE \E d \in Device : UpdateConnection(d)
  <2>1. worker = None => worker' = None
    BY <1>5 DEF UpdateConnection, P!ConnectionUpdated, P!vars
  <2> QED
    BY <1>3, <1>5, <2>1 DEF UpdateConnection, P!ConnectionUpdated, ReceiverFollowsConnection
<1>6. CASE DeliverStep
  <2>1. /\ connected' = connected /\ setup' = setup /\ stop' = stop /\ pc' = pc
        /\ worker' \in {worker, None}
    BY <1>6 DEF DeliverStep, workbench, P!Deliver, P!OnFrame, P!OnFailed, P!OnFinished
  <2> QED
    BY <2>1 DEF ReceiverFollowsConnection
<1>7. CASE \E w \in Worker : ThreadStep(w)
  <2>1. PICK w \in Worker : P!Thread(w) /\ UNCHANGED workbench
    BY <1>7 DEF ThreadStep
  <2>2. connected' = connected /\ setup' = setup /\ stop' = stop /\ worker' = worker
    BY <2>1 DEF workbench, P!Thread, P!Bind, P!BindRaises, P!Loop, P!GetReturns, P!GetFrame,
                P!GetNothing, P!GetRaises, P!Finish
  <2>3. ASSUME worker \in Worker, pc[worker] \in {"closing", "closed", "finished"}
        PROVE  pc'[worker] \in {"closing", "closed", "finished"}
    BY <2>1, <2>3 DEF P!Thread, P!Bind, P!BindRaises, P!Loop, P!GetReturns, P!GetFrame,
                P!GetNothing, P!GetRaises, P!Finish, P!Goto, P!At, PanelInv, P!TypeOK
  <2> QED
    BY <2>2, <2>3 DEF ReceiverFollowsConnection, PanelInv, P!TypeOK
<1>8. CASE WorkbenchOnly \/ UNCHANGED vars
  <2>1. UNCHANGED panel /\ connected' = connected
    BY <1>8 DEF WorkbenchOnly, vars, panel, workbench, W!Edit, W!Refresh, W!ApplyParameters,
                W!ApplySucceeds, W!ApplyFails, W!StartScan, W!StopScan, W!RawWrite,
                W!DeviceReset, W!panelVars, W!vars
  <2> QED
    BY <1>1, <2>1
<1> QED
  BY <1>2, <1>4, <1>5, <1>6, <1>7, <1>8 DEF Next

\* A receiver of an FPGA that is no longer the connected one has been told to stop.
THEOREM ReceiverFollowsTheConnection == Spec => []ReceiverFollowsConnection
<1>1. Init => ReceiverFollowsConnection
  BY DEF Init, P!Init, ReceiverFollowsConnection
<1> QED
  BY <1>1, FollowsStep, PanelImplemented, PanelInvariant, PTL DEF Spec
=============================================================================
