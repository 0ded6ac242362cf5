-------------------------------- MODULE HostGui --------------------------------
(***************************************************************************)
(* MainWindow: the workbench and the image panel on one GUI thread, with   *)
(* the receiver threads beside them.  The image panel takes the frame size *)
(* from the workbench's widgets, and Receive+Start, Stop all and a change  *)
(* of connection work on both panels in one handler.                       *)
(***************************************************************************)
EXTENDS Naturals, Sequences

CONSTANTS Config, Device, Unset, Mixed, Worker, MaxFrames, None

VARIABLES
    fields, dirty, reason, chip, connected, held, control, pending, tampered, broken,
    worker, receiving, shown, events, pc, stop, setup, port

ASSUME GuiAssumption ==
    /\ Worker \subseteq Nat
    /\ None \notin Worker
    /\ Unset \notin Config /\ Mixed \notin Config

W == INSTANCE Workbench

P == INSTANCE AdcImagePanel WITH Setup <- [frame : Config, endpoint : Device]

workbench ==
    <<fields, dirty, reason, chip, connected, held, control, pending, tampered, broken>>

panel == <<worker, receiving, shown, events, pc, stop, setup, port>>

vars == <<workbench, panel>>

Init == W!Init /\ P!Init
-----------------------------------------------------------------------------
\* _make_receiver(current_scan_config()): applied or not.
CurrentSetup == [frame |-> fields, endpoint |-> connected]

WorkbenchOnly ==
    /\ \/ W!Edit
       \/ W!Refresh
       \/ W!ApplyParameters
       \/ W!StartScan
       \/ W!StopScan
       \/ W!RawWrite
       \/ \E d \in Device : W!DeviceReset(d)
    /\ UNCHANGED panel

Receive == P!StartReceiving(CurrentSetup) /\ UNCHANGED workbench

StopReceive == receiving /\ P!StopReceiving /\ UNCHANGED workbench

\* receive_and_start_scan: the thread is started, not waited for.
ReceiveAndStart == P!StartReceiving(CurrentSetup) /\ W!StartScan

\* stop_scan_and_receive.
StopScanAndReceive == receiving /\ W!StopScan /\ P!StopReceiving

\* Variant: the image panel is not told.
UpdateConnectionQuietly(d) == W!SwitchTo(d) /\ UNCHANGED panel

\* update_connection.
UpdateConnection(d) == W!SwitchTo(d) /\ P!ConnectionUpdated

ThreadStep(w) == P!Thread(w) /\ UNCHANGED workbench

DeliverStep == P!Deliver /\ UNCHANGED workbench

Next ==
    \/ WorkbenchOnly
    \/ Receive
    \/ StopReceive
    \/ ReceiveAndStart
    \/ StopScanAndReceive
    \/ \E d \in Device : UpdateConnection(d)
    \/ DeliverStep
    \/ \E w \in Worker : ThreadStep(w)

\* The FPGA that a worker receives from is scanning.
Scanning(w) == setup[w] # None /\ control[setup[w].endpoint].state = 1

\* get_frame is certain to return only when the FPGA is silent: while datagrams
\* come that complete no frame it does not time out.
GetReturnsWhenSilent(w) == ~Scanning(w) /\ P!GetNothing(w) /\ UNCHANGED workbench

OtherStep(w) ==
    (P!Bind(w) \/ P!BindRaises(w) \/ P!Loop(w) \/ P!Finish(w)) /\ UNCHANGED workbench

Fairness ==
    /\ WF_vars(DeliverStep)
    /\ \A w \in Worker : WF_vars(OtherStep(w)) /\ WF_vars(GetReturnsWhenSilent(w))

Spec == Init /\ [][Next]_vars /\ Fairness
-----------------------------------------------------------------------------
\* The data port has one owner, whatever the clicks and the failures.
OnePortOwner == P!OnePortOwner

\* "Receive" can be clicked only when the last worker has let go of everything.
IdleMeansIdle == P!IdleMeansIdle

\* The panel is idle or has one live worker, whose signals are all there are.
OneLiveWorker == P!OneLiveWorker

\* A frame is displayed only while its receiver is the panel's.
FramesAreCurrent == P!FramesAreCurrent

\* Receive+Start starts a scan of the size the new receiver assembles: the size
\* is taken from the widgets and the scan runs on what was applied earlier, and
\* the guard on start is what keeps the two the same.
ReceiverFitsScan ==
    [][ worker' # worker /\ worker' # None /\ ~tampered[connected]
        /\ control[connected].state = 0 /\ control'[connected].state = 1
            => setup'[worker'].frame = held'[connected] ]_vars

\* A receiver of another connection than the current one has been told to stop.
ReceiverFollowsConnection ==
    worker # None /\ setup[worker].endpoint # connected =>
        stop[worker] \/ pc[worker] \in {"closing", "closed", "finished"}

\* Once a worker's FPGA is silent for good, a stop of it is obeyed, even if
\* get_frame never returns while datagrams come.
StopIsObeyedWhenSilent ==
    \A w \in Worker : <>[]~Scanning(w) => (stop[w] ~> worker # w)
=============================================================================
