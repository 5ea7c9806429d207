--------------------------- MODULE MCTimingWheel ---------------------------
(* Instantiation of TimingWheel for TLC: three wheel slots, two wheels,    *)
(* delays reaching both wheels and the immediate case.                     *)
EXTENDS TimingWheel

MCDelays == {0, 1, 2, 4}
====
