----------------------------- MODULE AdcImagePanel -----------------------------
(***************************************************************************)
(* AdcImagePanel and its AdcImageWorker: the GUI thread starts and stops a *)
(* worker thread that owns the data socket and reports through signals,    *)
(* which Qt queues for the GUI thread in the order they were emitted.      *)
(*                                                                         *)
(* Every click makes a new worker; stop_receiving only sets a flag, which  *)
(* the worker looks at between two calls of get_frame.                     *)
(***************************************************************************)
EXTENDS Naturals, Sequences

CONSTANTS
    Worker,      \* worker threads the panel makes, numbered in order
    Setup,       \* what a receiver is made for: the frame size and the endpoint
    MaxFrames,   \* bound: frames waiting for the GUI thread
    None

VARIABLES
    worker,      \* _worker and _thread, set and cleared together
    receiving,   \* which buttons are enabled
    shown,       \* _last_frame: the worker whose frame is displayed
    events,      \* signals on their way to the GUI thread
    pc,          \* where each worker is
    stop,        \* _stop of each worker
    setup,       \* what each worker's receiver was made for
    port         \* the workers whose socket is bound

vars == <<worker, receiving, shown, events, pc, stop, setup, port>>

Phase == {"unborn", "starting", "looping", "getting", "closing", "closed", "finished"}

Event == [kind : {"frame", "failed", "finished"}, from : Worker]

Init ==
    /\ worker = None
    /\ receiving = FALSE
    /\ shown = None
    /\ events = <<>>
    /\ pc = [w \in Worker |-> "unborn"]
    /\ stop = [w \in Worker |-> FALSE]
    /\ setup = [w \in Worker |-> None]
    /\ port = {}
-----------------------------------------------------------------------------
\* Signals of one worker.
Emit(kind, w) == events' = Append(events, [kind |-> kind, from |-> w])

Frames == SelectSeq(events, LAMBDA e : e.kind = "frame")

At(w, phase) == pc[w] = phase

Goto(w, phase) == pc' = [pc EXCEPT ![w] = phase]

IsNew(w) == At(w, "unborn") /\ \A v \in Worker : v < w => ~At(v, "unborn")

\* start_receiving with no thread: the button is enabled.
StartReceiving(s) ==
    /\ ~receiving
    /\ worker = None
    /\ \E w \in Worker :
        /\ IsNew(w)
        /\ worker' = w
        /\ Goto(w, "starting")
        /\ setup' = [setup EXCEPT ![w] = s]
    /\ receiving' = TRUE
    /\ UNCHANGED <<shown, events, stop, port>>

\* Variant: the buttons are released at once.
StopReceivingReleases ==
    /\ worker # None
    /\ stop' = [stop EXCEPT ![worker] = TRUE]
    /\ receiving' = FALSE
    /\ UNCHANGED <<worker, shown, events, pc, setup, port>>

\* stop_receiving: ask the worker to stop.
StopReceiving ==
    \/ /\ worker # None
       /\ stop' = [stop EXCEPT ![worker] = TRUE]
       /\ UNCHANGED <<worker, receiving, shown, events, pc, setup, port>>
    \/ /\ worker = None
       /\ receiving' = FALSE
       /\ UNCHANGED <<worker, shown, events, pc, stop, setup, port>>

\* on_connection_updated.
ConnectionUpdated == IF worker # None THEN StopReceiving ELSE UNCHANGED vars

\* _on_frame.
OnFrame ==
    /\ events # <<>>
    /\ Head(events).kind = "frame"
    /\ shown' = Head(events).from
    /\ receiving' = TRUE
    /\ events' = Tail(events)
    /\ UNCHANGED <<worker, pc, stop, setup, port>>

\* failed shows a message only.
OnFailed ==
    /\ events # <<>>
    /\ Head(events).kind = "failed"
    /\ events' = Tail(events)
    /\ UNCHANGED <<worker, receiving, shown, pc, stop, setup, port>>

\* Variant: finished is called directly and overtakes the frames.
OnFinishedOvertakes ==
    /\ events # <<>>
    /\ events[Len(events)].kind = "finished"
    /\ worker' = None
    /\ receiving' = FALSE
    /\ events' = SubSeq(events, 1, Len(events) - 1)
    /\ UNCHANGED <<shown, pc, stop, setup, port>>

\* _on_worker_finished.
OnFinished ==
    /\ events # <<>>
    /\ Head(events).kind = "finished"
    /\ worker' = None
    /\ receiving' = FALSE
    /\ events' = Tail(events)
    /\ UNCHANGED <<shown, pc, stop, setup, port>>

Deliver == OnFrame \/ OnFailed \/ OnFinished
-----------------------------------------------------------------------------
\* receiver.start binds the socket ...
Bind(w) ==
    /\ At(w, "starting")
    /\ port' = port \cup {w}
    /\ Goto(w, "looping")
    /\ UNCHANGED <<worker, receiving, shown, events, stop, setup>>

\* ... or raises.
BindRaises(w) ==
    /\ At(w, "starting")
    /\ Goto(w, "closing")
    /\ Emit("failed", w)
    /\ UNCHANGED <<worker, receiving, shown, stop, setup, port>>

\* while not self._stop.
Loop(w) ==
    /\ At(w, "looping")
    /\ Goto(w, IF stop[w] THEN "closing" ELSE "getting")
    /\ UNCHANGED <<worker, receiving, shown, events, stop, setup, port>>

\* get_frame returns a frame, in bounded number ahead of the GUI thread, ...
GetFrame(w) ==
    /\ At(w, "getting")
    /\ Len(Frames) < MaxFrames
    /\ Emit("frame", w)
    /\ Goto(w, "looping")
    /\ UNCHANGED <<worker, receiving, shown, stop, setup, port>>

\* ... nothing when no datagram came for 100 ms ...
GetNothing(w) ==
    /\ At(w, "getting")
    /\ Goto(w, "looping")
    /\ UNCHANGED <<worker, receiving, shown, events, stop, setup, port>>

\* ... or raises.
GetRaises(w) ==
    /\ At(w, "getting")
    /\ Goto(w, "closing")
    /\ Emit("failed", w)
    /\ UNCHANGED <<worker, receiving, shown, stop, setup, port>>

\* Variant: the panel is told before the socket is closed.
FinishBeforeClose(w) ==
    \/ /\ At(w, "closing")
       /\ Goto(w, "closed")
       /\ Emit("finished", w)
       /\ UNCHANGED <<worker, receiving, shown, stop, setup, port>>
    \/ /\ At(w, "closed")
       /\ port' = port \ {w}
       /\ Goto(w, "finished")
       /\ UNCHANGED <<worker, receiving, shown, events, stop, setup>>

\* Variant: finished is only told when nothing went wrong.
FinishUnlessFailed(w) ==
    \/ /\ At(w, "closing")
       /\ port' = port \ {w}
       /\ Goto(w, "closed")
       /\ UNCHANGED <<worker, receiving, shown, events, stop, setup>>
    \/ /\ At(w, "closed")
       /\ Goto(w, "finished")
       /\ IF stop[w] THEN Emit("finished", w) ELSE UNCHANGED events
       /\ UNCHANGED <<worker, receiving, shown, stop, setup, port>>

\* receiver.stop closes the socket, and then finished is emitted.
Finish(w) ==
    \/ /\ At(w, "closing")
       /\ port' = port \ {w}
       /\ Goto(w, "closed")
       /\ UNCHANGED <<worker, receiving, shown, events, stop, setup>>
    \/ /\ At(w, "closed")
       /\ Goto(w, "finished")
       /\ Emit("finished", w)
       /\ UNCHANGED <<worker, receiving, shown, stop, setup, port>>

GetReturns(w) == GetFrame(w) \/ GetNothing(w) \/ GetRaises(w)

Thread(w) == Bind(w) \/ BindRaises(w) \/ Loop(w) \/ GetReturns(w) \/ Finish(w)

Click ==
    \/ \E s \in Setup : StartReceiving(s)
    \/ receiving /\ StopReceiving

Next == Click \/ ConnectionUpdated \/ Deliver \/ \E w \in Worker : Thread(w)

Spec == Init /\ [][Next]_vars
-----------------------------------------------------------------------------
TypeOK ==
    /\ worker \in Worker \cup {None}
    /\ receiving \in BOOLEAN
    /\ shown \in Worker \cup {None}
    /\ events \in Seq(Event)
    /\ pc \in [Worker -> Phase]
    /\ stop \in [Worker -> BOOLEAN]
    /\ setup \in [Worker -> Setup \cup {None}]
    /\ port \subseteq Worker

\* The data port has one owner, whatever the clicks and the failures: SO_REUSEADDR
\* would let a second socket take the datagrams of the first.
OnePortOwner == \A v, w \in port : v = w

\* "Receive" can be clicked only when the last worker has let go of everything:
\* its socket is closed and no signal of it is on its way.
IdleMeansIdle == ~receiving => worker = None /\ port = {} /\ events = <<>>

\* The panel is idle or has one live worker, whose signals are all there are.
OneLiveWorker ==
    /\ \A w \in Worker : pc[w] \notin {"unborn", "finished"} => w = worker
    /\ \A i \in 1 .. Len(events) : events[i].from = worker

\* A frame is displayed only while its receiver is the panel's: after "stopped"
\* the picture does not change until the next start.
FramesAreCurrent == [][ shown' # shown => shown' = worker ]_vars
=============================================================================
