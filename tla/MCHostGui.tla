------------------------------- MODULE MCHostGui -------------------------------
(***************************************************************************)
(* The GUI with two receiver threads.  Two scripts are played: "edit",     *)
(* with two configurations on one FPGA, and "switch", with one             *)
(* configuration and two FPGAs.  Registers change by the workbench only.   *)
(***************************************************************************)
EXTENDS HostGui

CONSTANTS c1, c2, d1, d2

VARIABLE plays    \* the script

MCConfig == {c1, c2}
MCDevice == {d1, d2}
MCWorker == {1, 2}

MCInit ==
    /\ Init
    /\ fields = c1
    /\ connected = d1
    /\ plays \in {"edit", "switch"}

MCNext ==
    /\ Next
    /\ UNCHANGED plays
    /\ \A d \in Device : ~tampered'[d]
    /\ plays = "edit" => connected' = connected
    /\ plays = "switch" => fields' = fields

MCSpec == MCInit /\ [][MCNext]_<<vars, plays>> /\ Fairness

\* What the guards and the properties of this run read: not what is shown, the history
\* of the workbench, the wording of the reason and the interval in 0x0009.
MCView ==
    <<fields, dirty, reason = "none", connected, held,
      [d \in Device |-> control[d].state], panel, plays>>
=============================================================================
