----------------------------- MODULE MCRegisterLink -----------------------------
(***************************************************************************)
(* An ordinary register, of whose values one is too wide for it, and one   *)
(* that can only be read: enough for replies to be mistaken across         *)
(* registers and for writes to be refused.                                 *)
(***************************************************************************)
EXTENDS RegisterLink

CONSTANTS r1, version, v0, v1, wide

MCAddress == {r1, version}
MCValue == {v0, v1, wide}
MCDefault == [a \in MCAddress |-> IF a = r1 THEN v0 ELSE v1]
MCStored == [a \in MCAddress |-> [v \in MCValue |-> IF v = wide THEN v1 ELSE v]]
MCReadable == {r1, version}
MCWritable == {r1}

\* Without power cycles, the link alone has to answer for what goes wrong.
SteadyNext == Next /\ ~FpgaReset

SteadySpec == Init /\ [][SteadyNext]_vars
=============================================================================
