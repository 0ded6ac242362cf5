------------------------------ MODULE MCModeApply ------------------------------
(***************************************************************************)
(* Two configurations and one parameter register of each group: plans that *)
(* can fail between any two writes and leave a mixture of two              *)
(* configurations behind.                                                  *)
(***************************************************************************)
EXTENDS ModeApply, TLC

CONSTANTS c1, c2

MCConfig == {c1, c2}
MCGeomRegs == <<"row_m_n">>
MCUltraRegs == <<"adc_acq_delay">>
MCLaserRegs == <<"acq_time">>

\* The configurations differ in nothing but their names.
MCSymmetry == Permutations(MCConfig)
=============================================================================
