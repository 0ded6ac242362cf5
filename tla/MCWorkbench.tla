------------------------------ MODULE MCWorkbench ------------------------------
(***************************************************************************)
(* Two configurations and two FPGAs.                                       *)
(***************************************************************************)
EXTENDS Workbench, TLC

CONSTANTS c1, c2, d1, d2

MCConfig == {c1, c2}
MCDevice == {d1, d2}

\* Neither the configurations nor the devices are told apart.
MCSymmetry == Permutations(MCConfig) \cup Permutations(MCDevice)
=============================================================================
