----------------------------- MODULE FrameSource ------------------------------
(***************************************************************************)
(* What the image path promises: the samples of a scan are shown at most   *)
(* once and in the order they were taken.  Frames may be skipped.          *)
(***************************************************************************)
EXTENDS Naturals

CONSTANT None

VARIABLE newest      \* the first and the last sample of the newest frame

\* A sample is known by the scan it belongs to and its place in that scan.
Sample == [scan : Nat, at : Nat]

Before(a, b) == a.scan < b.scan \/ (a.scan = b.scan /\ a.at < b.at)

Init == newest = None

\* A newer frame begins after the newest one ended.
Show ==
    /\ newest' \in [first : Sample, last : Sample]
    /\ ~Before(newest'.last, newest'.first)
    /\ newest # None => Before(newest.last, newest'.first)

Spec == Init /\ [][Show]_newest
=============================================================================
