# Verification of the FPGA scan system's host, link and image stream

The repository holds an FPGA design (`AXI_DDR.srcs`) that scans a beam, samples up to four ADC
channels and sends the samples as UDP datagrams, and the host application
(`AI-work/host-app/src/fpga_host`) that configures it over UDP and shows the images.  This
directory holds TLA+ models of the parts where the two meet, the TLC runs that check them, and
TLAPS proofs of the main results.  Paths below are relative to the repository; `host/` stands for
`AI-work/host-app/src/fpga_host/` and `rtl/` for `AXI_DDR.srcs/sources_1/`.

## 1. The system

| Part | State it keeps | Operations | Talks to |
| --- | --- | --- | --- |
| Frame assembler, `host/core/data/dl2_protocol.py` | partial frame, its first number, the number expected next, counters | `add_packet`, `reset` | called by the receiver |
| Receiver, `host/core/data/dl2_receiver.py` | data socket | `start`, `get_frame`, `stop` | datagrams of the packetizer |
| Packetizer, `rtl/imports/new/LAN_TX_FREAME.v` | `package_count`, `tx_byte_count`, `fsm_r` | one packet per round of the state machine | arbiter, Ethernet |
| Register client and transport, `host/core/control/register_client.py`, `host/core/transport/udp_transport.py` | control socket and what waits in it | `read32`, `write32`, `write_checked` with timeout and retries | the FPGA's register file |
| Register file and reply path, `rtl/new/command_monitor_new.v`, `rtl/imports/new/LAN_RD_REG.v` | the registers, the reply being sent | write table, read table, reply | everything in the FPGA reads the registers |
| Device operations, `host/core/control/device.py`, `modes.py`, `scan.py`, `dl5.py` | none of their own | apply a mode, DL5 or scan, start, stop | a list of `write_checked` calls |
| Mode workbench, `host/gui/panels/mode_workbench_panel.py` | widgets, `parameters_dirty`, `block_start_reason`, shown scan state | edit, apply, start, stop, refresh | device operations, on the GUI thread |
| ADC image panel, `host/gui/panels/adc_image_panel.py` | worker, thread, enabled buttons, last frame | start and stop receiving, slots | receiver thread, by queued signals |
| Main window, `host/gui/main_window.py` | connection and device | change of connection | both panels |
| Command line, `host/cli/main.py` | none that outlives a process | every command that writes, with dry run, `--yes`, validation and exit code | device operations |
| Register field layout, `scan.py`, `modes.py`, `dl5.py` against `command_monitor_new.v` | none | `validate`, `to_registers`; write table, read table | both sides of the link |
| Packet audit, `AI-work/skill-drafts/audit-fpga-packets/scripts` | none | read a capture, pair requests with answers, compare with a plan, report | captures of the link, dry runs of the command line |
| Transmit path, `rtl/imports/new/LAN_TX_MUX.v` with `LAN_RD_REG`, `LAN_TX_FREAME`, `LAN_TX_ARP`, `LAN_RX_TX_ICMP`, `lan_tx` | who has the line, handshakes, payload FIFO | request, acknowledge, send, done | the line |

What is hard here:

- **Datagrams are lost, late or doubled.** The image stream has no frame marker: a frame is what
  has the right number of bytes.  A register reply has no transaction number: the host takes the
  first datagram it finds.
- **Operations fail in the middle.** A plan is about twenty register writes; each can be lost, can
  read back wrong, or can raise.
- **State is kept twice.** What the widgets show, what was applied and what the FPGA holds are
  three things; the start guard is what ties them.
- **Handshakes looked at through flip-flops.** Four sources in the FPGA share one line; each waits
  for a rising edge of its acknowledge and two of them for a done that is a level.
- **A judge with partial evidence.** The audit decides from a capture, which may be cut, whether
  the FPGA has the plan, while answers carry no number and writes are not answered.
- **Threads and queued signals.** A receiver thread owns the socket and is stopped by a flag it
  looks at from time to time; what it emits is handled later.

`PROJECT.json` lists each hazard at its line with the properties that watch it.

## 2. The modules

    FrameAssembler <--- AdcStream ---(refines)---> FrameSource
    Workbench <--- HostGui ---> AdcImagePanel        (HostGui refines both)
    ModePlans <--- ModeApply
    RegisterLink <--- HostSession ---> PacketAudit
                      HostSession ---> RegisterFields
    TxMux

| Module | Models | State and actions against the code |
| --- | --- | --- |
| `FrameAssembler` | `Dl2FrameAssembler` | `buffer`, `firstSequence`, `expectedSequence`, `stats` are its fields, `frame` is what it last returned, `run` a history of the numbers in the buffer. `AddAdc` is `add_packet` as a whole, in two disjuncts: the frame is incomplete (`Accumulate`) or done (`Complete`). |
| `AdcStream` | packetizer, wire, receiver | `packageCount` and `txByteCount` are the RTL's counters, a packet through states 0 to 3 is the one action `SendPacket`; `wire` is the network and the socket queue. A payload byte is the sample it holds, so a frame shows where its bytes came from. |
| `FrameSource` | nothing: the abstract specification | the newest frame shown is later than the one before, and frames do not overlap. |
| `RegisterLink` | `RegisterClient`, `UdpTransport`, register file | a call that waits for a datagram is `call`; `Receive` is what the code does with whatever datagram comes; `Retry` and `GiveUp` are the two branches on `socket.timeout`. |
| `ModePlans` | `to_registers`, `to_plan` | the lists of writes as sequences; what a parameter register holds is the configuration it is from. |
| `ModeApply` | `FpgaDevice` | one action per item of a plan and per way it can come out: `ItemVerified`, `ItemMismatch`, `ItemRaises`, then `Finish`. |
| `Workbench` | `ModeWorkbenchPanel`, `RegisterPanel` | one action per handler; a handler runs to completion on the GUI thread, and what its device call does to the FPGA is a choice over the outcomes of `ModeApply`. |
| `AdcImagePanel` | `AdcImagePanel`, `AdcImageWorker` | the GUI thread's slots and clicks, and the steps of each worker thread between which others can run; `events` is Qt's queue. |
| `HostGui` | `MainWindow` | both panels with one GUI thread: the handlers that touch both are conjunctions of the two panels' actions. |
| `RegisterFields` | `validate`, `to_registers`, the plans' shifts; the write and the read table of `command_monitor_new` | operators only. A number is the set of its one bits, so that shifts, masks and truncations are what they are in the code and no width is assumed on either side. `HostLayout` is where the host puts a field, `RtlLayout` where the FPGA takes it from. |
| `PacketAudit` | `packet_audit_lib.py`, `run-audit.py` | operators only: reading pcap and pcapng blocks, decoding control packets, and one operator for each rule of `audit_packets`. A finding is a record of its title and severity. |
| `HostSession` | `cli/main.py` over `RegisterLink`, with capture and audit | a session is a list of commands, each a process: `Launch` is `main` up to the handler, `Issue` and `Settle` the two ends of one register access, `Exit` the exit code and, of a dry run, the plan that it prints (`printed`), for which `start`, `stop` and `dl5 apply` read `0x0009`. The link's actions are `RegisterLink`'s, each conjoined with what the capture tool sees of it and what the DAC does on it. `RunAudit` hands the capture and the plan of the last command to the audit: of `start`, `stop` and `dl5 apply` the one its dry run printed in the session, if there was one, of the others that of their configuration, whenever it is printed. |
| `TxMux` | `LAN_TX_MUX`, the four sources, payload FIFO, `lan_tx` | one step is one clock: `Next` is the conjunction of the blocks, each reading the old values of the others, as non-blocking assignments do. A byte is its source, its place and the size of its frame. |
| `*_proofs` | nothing | the theorems of the module they are named after (section 4). |
| `MC*` | nothing | the instances that TLC checks: values of the constants, scripts, views. |

Definitions whose comment begins with "Variant:" are plausible mistakes in the definition after
them (a dropped guard, a missing reset, steps in the other order).  They are part of no
specification; `PROJECT.json` lists for each property one of them that makes TLC refute it.

## 3. The runs

| Run (cfg) | Question | Bounds, and why they are enough | Size |
| --- | --- | --- | --- |
| `MCFrameAssembler` | Can any datagrams make a bad frame? | frames of 3 bytes; payloads of 0 to 4 bytes: empty, short, full, too long; numbers modulo 4, so that they wrap; each counter to 2; 4 packets in a partial frame | 8 thousand states |
| `MCAdcStream` | Which frames can the host see? | frames of 5 bytes in packets of 2: the last packet is short; 2 scans of up to 7 packets, more than two frames; 2 datagrams on the wire; reception stopped and started at will | 62 thousand |
| `MCAdcStreamSplice` | divergence 1 below | the same | |
| `MCRegisterLink` | What can a read-back be trusted for? | one register that cuts a value to its width, one that cannot be written; one retry; 3 calls, enough for a late reply to meet a later call of another kind | 106 thousand |
| `MCRegisterLinkVerified` | divergence 2 | the same, without resets of the FPGA | |
| `MCModeApply` | Which configurations does the FPGA go through? | 2 configurations, one parameter register of each group: a plan can fail between any two writes | 225 thousand |
| `MCModeApplyMismatch` | divergence 3 | the same | |
| `MCWorkbench` | Can start be pressed when it must not? | 2 configurations, 2 FPGAs; nothing else is bounded | 85 thousand |
| `MCHostGui` | Who owns the port, does the panel come back to idle, do receiver, scan and connection agree? | 2 workers, one after the other, 1 frame waiting for the GUI thread; two scripts: "edit" (2 configurations, 1 FPGA) and "switch" (1 configuration, 2 FPGAs) | 91 thousand |
| `MCHostSession` | What does an exit code say of the FPGA, and what does an audit? | every command undisturbed with 11 configurations, among them each limit and one past it; 21 sessions of 1 to 5 commands with up to 4 faults, 5 of them with a dry run that reads the FPGA before the command; one retry | 742 thousand |
| `MCTxMux` | Is what goes out whole, and is everyone served? | frames of 1 to 6 bytes, FIFO threshold 7, a delay of 8 clocks between packets and a done of 5 clocks, as in `lan_tx` | 10 thousand |
| `MCTxMuxCompetes` | divergence 4 | the same | |

`MCHostGui` and `MCHostSession` have a `VIEW`. It leaves out variables that no guard and no
property of the run reads, so that two states with the same view have the same future as far as
the run asks: in `MCHostGui` the shown scan state, the workbench's histories, the wording of the
reason for which start is blocked and the interval in `0x0009`; in `MCHostSession` the histories
of `RegisterLink`. `MCHostGui` leaves out register writes behind the workbench's back
(`tampered`), about which `ReceiverFitsScan` could say nothing; `MCWorkbench` has them.

What they show, run by run:

- **Assembler.** `FrameIsOneRun`: a frame is exactly the expected size and is made of consecutive
  packets between its two numbers.  `PartialIsOneRun`: so is what is being collected.
  `FramesAreCounted`: a step either leaves the counter and the last frame alone, or adds one and
  returns a frame that ends with the packet just taken and leaves nothing in the buffer.
- **Stream.** `OneScanFrameIsUnbroken`: a frame of one scan has no hole, whatever was lost.
  `UndamagedFrameIsAligned`: without loss each host frame is one FPGA frame.  With loss it need not
  be: the assembler resynchronises in the middle of a frame and stays shifted.
  `FirstNumberTellsAlignment`: the host could notice, because the FPGA begins its frames with known
  numbers.  The host does not.  `FramesInOrder` is the refinement of `FrameSource`.
- **Link.** `NeverFabricated`: a reply is never taken for another register's.
  `FreshWhenDrained`: with nothing outstanding when a call begins, its answer is of this call.
  `LagIsConserved`: each attempt that timed out leaves one answer due and only a loss removes it,
  so one timeout can make all later reads one answer late.  `CallReturns`: every call ends.
- **Apply.** `PlanInForce` and `SuccessMeansConfigured`: what an operation that reports success
  has left in the FPGA, stated from the plan and from what the user asked for.
  `ModesExclusive`, `ParametersChangeStopped`, `LaserTimingChangesOff`: what must not happen
  between two writes. The second is about the operations that stop the scan first (`StopsFirst`):
  the modes, and DL5 unless it is told not to. `scan apply` and DL5 without stop do change
  parameters under a running scan; `RunningChangeIsReported` below is about that.  `spoiled` marks the time after a failed write or a DL5 operation on its
  own, until a mode is applied in full; nothing in the code keeps the modes apart in that time.
- **Workbench.** `StartMeansApplied`, `FailureBlocksStart`, `ScanIsWhole`.  `tampered` marks a
  device whose registers were written by the register panel or lost in a reset: the workbench does
  not hear of it and keeps its guard open.
- **GUI.** `OnePortOwner`, `IdleMeansIdle`, `OneLiveWorker`: never two receivers on the port, and
  a panel that looks idle is. `FramesAreCurrent`: what is shown comes from the worker that is
  running, and from no earlier one. `ReceiverFitsScan`: Receive+Start makes a receiver of the size
  the FPGA scans with, although the size is read from the widgets; it is the start guard that
  makes it so. `ReceiverFollowsConnection`: a change of connection stops the old receiver.
  `StopIsObeyedWhenSilent`: a stop is obeyed once the FPGA falls silent.
- **Session.** `ExitZeroMeansConfigured`: every field of the configuration is in its place in the
  FPGA and the scan runs or not as asked, when a command exits with 0 whatever was lost or
  repeated on the way. It needs `fresh`, a history that says that nothing of an earlier command
  was outstanding when this one began; without it a late answer makes it false (divergence 2).
  `StepsAreCurrent`: the DAC's steps, which are computed by the write that pulses their flag, are
  those of the registers. It needs that no write of the command was lost (`dropped`): a write of
  `0x0006` that is lost while the register has its value already reads back as it should, the
  command exits with 0, and the step is the old one; the session `base`, `narrow` shows it.
  `AcceptedMeansVerified`: what validation lets through the FPGA keeps, so that without a fault an
  accepted command exits with 0. Single writes are left out, since a number that is not packed from
  a configuration may have bits that no field has.
  `SuccessPassesAudit`: the audit fails a command that succeeded if, and only if, it wrote
  something else than its dry run had printed. Only a swallowed read of `0x0009` does that, in the
  command or in its dry run, since both read the interval anew; a retry, other traffic or a write
  from before that is not in the plan does not. The sessions with a dry run begin with a write of
  `0x0009`, because the value that stands in for a read that failed is that of a reset. An earlier
  command in the capture whose writes could be taken for those of the plan is left out (`Apart`).
  `CleanAuditMeansConfigured`: an audit without a finding means that the plan is on the FPGA,
  however the capture was cut if it was of one command. After others the capture has to be whole:
  of `scan apply` with one configuration, another and the first again, a capture that ends early
  shows the plan applied, although it was changed since and its last application was lost.
  `RunningChangeIsReported`: a parameter written under a running scan is among the findings. The
  audit follows the scan by what was written, so this needs exit codes that tell whether it was
  started or stopped (`TellsScan`): after a stop that was lost in a `profile load`, which exits
  with 0 all the same, the audit takes a running scan for a stopped one.
- **Transmit path.** `PacketsAreWhole`: what goes out is whole frames, each of one source.
  `DoneMeansSent`: the packetizer never takes the done of an earlier packet for its own, though it
  looks at a level that stays up. `RequestsAreServed`: a reply always goes out; so does an image
  packet if the line is infinitely often free with no reply waiting, since replies go first.

The violated properties quote the repository and are refuted by what the code does:

1. A gap does not always drop the partial frame (`test_dl2_protocol.py:53`): the FPGA restarts its
   numbers with each scan and the assembler is not reset between scans.
2. "verified" can be said of a register that does not hold the value
   (`HOST_APP_UI_FIRST_PRINCIPLES.md:58`), after a late reply.
3. A plan with start goes on after a mismatch (`HOST_APP_UI_FIRST_PRINCIPLES.md:302`).
4. An image packet that waits need not find the line free (`LAN_TX_MUX.v:93`): an ARP request in
   the one clock in which the answer to the last one ends keeps `ARP_pc_req_o` up for ever, and
   `LAN_TX_MUX` in `S_ARP` with it. The receiving side does not look at `ARP_busy`, and an answer
   may wait for the line for thousands of clocks, so a request right behind another one is enough.
   The other properties of the transmit path hold of that case too, or exempt it (`rushed`).

Further disagreements, which have no run of their own:

- The GUI: "stopped" is shown after a stop that raised, without a read of `0x0009`
  (`mode_workbench_panel.py:730` against `HOST_APP_UI_FIRST_PRINCIPLES.md:370`); a timeout is
  swallowed (`device.py:67` against line 301 of that document); there is no confirmation dialog
  (line 369); device calls are made on the GUI thread (`HOST_APP_ARCHITECTURE.md:348`).
- The command line: `profile load` exits with 0 although an item did not read back
  (`cli/main.py:60` and 259 against `HOST_APP_ARCHITECTURE.md:322` and 325); apply with a mismatch
  exits with 1 where 11 is the code for it; a profile with an invalid dl5 part is refused after its
  scan part was written; the dry runs of `start`, `stop` and `dl5 apply` send reads to the FPGA
  (`device.py:82` and 142, before the test of `dry_run`, against `HOST_APP_ARCHITECTURE.md:280`
  and `cli/main.py:88`, "Show write plan without sending"), and when such a read fails, there or in
  the command, the interval written is zero, the command exits with 0 and only an audit against the
  dry run fails (`device.py:64`); `adc_sample` has no upper bound and too large a value ends a plan in the
  middle with 12; bit 31 of `ultrafast_line_rec` is accepted and dropped (`modes.py:148`);
  `scan apply` does not stop a running scan first; a lost write of `0x0006` that does not change the
  register leaves the DAC step of the old range though the command exits with 0 (`scan.py:153` and
  `command_monitor_new.v:280` against `COMMAND_MONITOR_PARAM_COVERAGE.md:131`); `--laser-mode` is 1 by default and a profile's
  0; `data mock-frame` exits with 0 when it fails.
- The audit: the dry run of `profile load` cannot be loaded as a plan (`SKILL.md:29`); an answer
  that comes late is paired with a later request (line 166); the finding "Missing expected write"
  names no packets (line 297); after a value that does not match, the search does not go on from
  there.
- The RTL's comments: `LAN_TX_FREAME.v:311` (`package_count` is kept when a scan stops) against
  line 363, which resets it, and its line 406 (the FIFO threshold pauses the packet) against the
  code, which ends it; `command_monitor_new.v:401` (no read-back of 0x0200 to 0x0204) against
  lines 431 to 436; `LAN_TX_MUX.v:164` (`tx_data_done` is one clock long) against the level it is.

### Fairness

- `RegisterLink`: weak fairness of `Retry` and `GiveUp` only.  A socket with a timeout does not
  wait for ever (`udp_transport.py:22`); neither the network nor the FPGA is assumed to do
  anything.
- `TxMux`: weak fairness of `Next`: the clock ticks. Nobody is assumed to ask for the line or to
  stop asking; ARP can starve ping, and nothing is claimed for either.
- `AdcImagePanel`: weak fairness of every worker thread and of the delivery of signals: threads
  are scheduled, and the GUI thread gets back to its event loop after each handler.  That
  `get_frame` returns is part of a thread's fairness here; it does when a frame is completed or no
  datagram comes for 100 ms.
- `HostGui` weakens that: `get_frame` is certain to return only while the FPGA does not scan,
  since a stream that completes no frame keeps it in its loop (`dl2_receiver.py:63`).
- Users are never assumed to click, and `Workbench`, `ModeApply`, `AdcStream` and `HostSession`
  state safety only.

In `HostSession` a session ends, which is a step of its own (`Over`). `CHECK_DEADLOCK FALSE` is set where a bound ends the behaviours: the calls of `RegisterLink`, the
scans and packets of `AdcStream`, the counters of `MCFrameAssembler`, and in
`MCModeApplyMismatch`, which stops at its counterexample.

## 4. The proofs

TLAPS proves the following for every value of the constants, from the assumptions named in the
modules that declare them.

| Module | Result | Argument |
| --- | --- | --- |
| `FrameAssembler_proofs` | `AssemblerInvariance`, `AssemblerTyped`, `PartialIsOneRunAlways`, `FrameIsOneRunAlways`, `FramesAreCountedAlways`, from `AssemblerAssumption` | the invariant is types, `PartialIsOneRun` and `FrameIsOneRun`. A frame is a partial frame that has become full, so the second carries the first; it in turn rests on `run` being restarted exactly when the buffer is (`RunSpans`). Any frame size, any width of the numbers: the code's 2^48 is one of them. |
| `AdcStream_proofs` | `StreamInvariance`, `StreamTyped`, `OneScanFrameIsUnbrokenAlways`, `FramesInOrderAlways` (the refinement of `FrameSource`), `FirstNumberTellsAlignmentAlways`, `UndamagedFrameIsAlignedAlways`, from `StreamAssumption` and the lemmas of `FrameAssembler_proofs` | two facts travel with a packet. `Passed`: all that is behind it on the wire, or not sent yet, was taken after it. `Continues`: the packet with the next number of its scan, on the wire or in the packetizer, begins with the next sample. A loss only thins the wire (`Thinned`), which keeps both; a partial frame is extended only by the expected number, so `Continues` makes it unbroken, and `Passed` puts each frame behind the one before. Both are needed although no property mentions the wire: a frame is right because of what was true of its packets when they were sent. For the alignment each packet also carries its place (`Placed`): the n-th packet of a scan begins at the place that n tells, by quotient and remainder in packets per frame, which a few lemmas keep away from everything else. `NumberInv` says so of a frame's first number; `AlignInv` of a scan of which nothing was lost: what is on the wire goes on where the buffer ends, and the buffer begins where a frame does. The second theorem has the premise `ExpectedBytes = FrameBytes`, which is what `ReceiverFitsTheScan` gives. |
| `RegisterLink_proofs` | `LinkInvariance`, `LinkTyped`, `NeverFabricatedAlways`, `FreshWhenDrainedAlways`, `LagIsConservedAlways`, from `LinkAssumption` and `CallAssumption` | `EverInv`: each reply on its way, and not only the one being read, is a value its register has had. `CleanInv`: in a call begun on a drained link all reads on the way are of its register and all replies are no older than the call. The lag is counted: reads in a queue are the cardinality of the set of their places, which grows by one with a read that is sent and shrinks by one with the request that leaves (`ReadsInAppend`, `ReadsInRemoved`). |
| `ModeApply_proofs` | `ModeApplyTyped`, `PlanInForceAlways`, `SuccessMeansConfiguredAlways`, `ModesExclusiveAlways`, and of steps `ParametersChangeStoppedAlways`, `LaserTimingChangesOffAlways`, from `PlanAssumption` | what a plan leaves in a register is that of the last item that writes it. A plan is put together from parts, and for each part three things are shown: what it leaves (`Leaves`), what it keeps (`Keeps`) and what it never writes (`Avoids`); `PlanConfigures` adds them up for the plan of every job. `PlanInForce` turns "the plan would" into "the register has". For the modes, each plan clears the other flag before it sets its own (`Separated`), and what it does not clear was not set. The action properties follow in the same way: before an item that writes a parameter the plan of an operation that stops the scan has an item that stops it, and the plan of any operation one that clears the laser mode, and none between them that undoes it; that no register of the laser is one of a scan too is part of `PlanAssumption`. |
| `Workbench_proofs` | `WorkbenchInvariance`, `WorkbenchTyped`, `StartMeansAppliedAlways`, `FailureBlocksStartAlways`, `ScanIsWholeAlways`, from `WorkbenchAssumption` | `StartMeansApplied` is not inductive: it says nothing while another reason blocks the start, and a stop lifts that. `CleanMeansApplied` (not dirty means applied, blocked or not) and `FailureIsRemembered` are. |
| `HostGui_proofs` | `WorkbenchImplemented`, `PanelImplemented`: the composition implements each of its parts. `DataPortHasOneOwner`, `IdleLeavesNothing`, `LiveWorkerIsThePanels`, `ShownFramesAreTheWorkers`, `ReceiverFitsTheScan`, `ReceiverFollowsTheConnection`; from `GuiAssumption` | any number of workers. The panel's invariant `PanelInv` adds to the types that at most one worker lives, that the port is in use exactly by it, that a panel without a worker has a stopped one behind it, and that "finished" is the last thing a worker queues. `ReceiverFitsTheScan` takes `StartMeansApplied` over from `Workbench_proofs` through `WorkbenchImplemented`: the size comes from the widgets, and the start guard is what ties widgets and FPGA together. |
| `TxMux_proofs` | `TypeOKAlways`, `PacketsAreWholeAlways`, `DoneMeansSentAlways`, from `TxAssumption` | frames of any size below the FIFO threshold, any delay between packets. The invariant says who has the line (`HasLine`): a source that sends is the one the multiplexer serves, the others are quiet (`OthersQuiet`), and an acknowledge that is down is down in both flip-flops of its source, so that no edge is seen that is not one. The FIFO holds the rest of one frame, in order, with nothing behind it (`Fills`), and `lan_tx` goes on where the line ends (`LanCarries`). |
| `HostSession_proofs` | `LinkImplemented` (the link in a session refines `RegisterLink`), `ExitZeroMeansConfiguredAlways`, `StepsAreCurrentAlways`, `AcceptedMeansVerifiedAlways`, from `SessionAssumption` and `SampleAssumption` | any sessions, configurations and number of faults; the layouts are the definite ones. See below. |

`HostSession_proofs` in five parts. *Fields*: `HostLayout` and `RtlLayout` agree, fields do not
overlap, and so a register is put together from its parts and taken apart again without loss
(`JoinedIsKept`), for every value that `validate` lets through; `ScanFits`, `UltrafastFits` and
`LaserFits` are that agreement, register by register. *Plans*: each plan is laid out as what stops
the old mode, the parameters, `0x0009`, and what sets the new one (`PlanSteps`), which gives the
last write of each register. *Link*: a verified write says what the register was when it was read,
and it has to be that still when the command ends. `OnLink` says of all that is on its way: a
register written before is what the last write to it asks, unless that write waits (`Good`); after
a read only writes of this command follow (`Later`); a late answer about another register is right
about it, because nothing on its way changes it (`Stale`); and an answer about the register that
waits tells its value if the write has arrived (`Answer`, `Verified`). All of it starts from a
drained link, which is what `fresh` asks. *Steps*: `Current` follows the writes on their way: one
that changes an input of a division is followed by one that starts the division. It holds once
that write was sent, because the plan writes `0x0006` after `0x0005` and each of them once
(`GeometryIsWrittenOnce`, `InputsComeFirst`), and it is lost with a write, hence `dropped`. *Calm*:
without a fault `AcceptedMeansVerified` needs neither `fresh` nor a history of the link. Every
value a plan writes is one the register keeps whole (`PlanIsKept`, `ControlIsWhole`), and
`CalmLink` says that what answers a call is under way, behind writes only, and is all there is to
come: a call cannot time out, its answer cannot be another's, and what it reads back is what was
kept of its write. Commands that put back a control register they have read need one more fact:
`Enough` counts the reads of `0x0009` that are done and to be done before each such write, which
is where a profile with stop and start would go wrong if it read once too few. That `faults` is 0
is what rules out the busy FPGA and the lost request; a time-out with nothing under way, which
costs no fault, is ruled out by `CalmLink`.

Only model-checked:

- liveness (`CallReturns`, `StopIsObeyedWhenSilent`, `RequestsAreServed`), which is out of the
  prover's reach with its fairness;
- the properties of the audit (`SuccessPassesAudit`, `CleanAuditMeansConfigured`,
  `RunningChangeIsReported`): its rules are folds over the captured packets, and what a fold
  computes of every capture takes an induction over it, which the provers cannot do. They take
  it that the other traffic in the capture (`Background`) is not to or from the control port.

## 5. What is not modelled

- **Content.** Parsing and formatting of datagrams other than control packets, the rendering of
  images. A datagram of the image path is well formed or malformed.
- **Inside of the FPGA.** Acquisition, DDR ring, DAC and laser timing (only when the DAC's steps
  are computed is modelled), remote upgrade, calibration, Ethernet and vendor IP. They work on
  samples, clocks and memories of vendor cores; what the host can see of them is loss and delay.
- **In `AdcStream`** the packetizer sends a packet in one step. `scan_state` falling and rising
  again while it is in states 1 to 3 (`LAN_TX_FREAME.v:318`) is not seen by the code, which looks
  at it in state 0 only, and is not a step of the model. `TxMux` has these states clock by clock,
  but no scans.
- **In `TxMux`** the line takes a byte in every clock: `LAN_TX_MUX` passes `tready` on and none of
  the sources looks at it, so what a busy line would do to them is not in the model.
- **Ultrafast line packets** (CC55): the host ignores them.
- **In `HostSession`** the FPGA is not reset and no reply is lost: a lost reply is to the host what
  a request that was never sent is, and `RegisterLink` has both. A session without a capture is not
  recorded. Left out are `version`, `dump` and the data commands, which change nothing; the
  `adc_interval` and `scan_mode` options of start and stop; the mock transport, with which a dry run
  of start, stop or dl5 shows an interval that is not the FPGA's; profiles that have one of the two
  sections only.
- **Host tools.** Mock devices, settings, event log, the old panels and `gui/workers.py`, which
  the main window does not use. Of the audit scripts image packets, hexadecimal and JSON input and
  the wording of the report.
- **Closing the window** while a thread runs: the code has no handler for it.
- **A receiver that is running when parameters are applied** keeps the frame size it was made
  with; no line of the code or of its documents promises otherwise, so no property does.

## 6. Plan

Order of the work left, the most important first:

1. `DdrRing`: `fdma_controller_write` and `fdma_controller1_read` as writer and reader of the frame
   buffer; the reader never overtakes the writer.
2. The states of laser mode in `sync_signal.v` and `dacdata_config.v`, with when parameters are
   taken over, in place of the one step that `HostSession` has for it.
3. Remote upgrade: the sequence of `upgrade_data_rx.v` and `multiboot_cfg_new.v` with a power loss
   at any point.
4. Proofs: that a single operation of `ModeApply` is the command of `HostSession` with the same
   plan. Every safety property of the runs but those of the audit has a theorem.
