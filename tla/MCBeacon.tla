------------------------------- MODULE MCBeacon -------------------------------
(* Small instances of Beacon for TLC.                                      *)
EXTENDS Beacon

HomeAt == [pos |-> At(7), alt |-> "good"]

Report(x, alt) == [pos |-> At(x), mode |-> 3, alt |-> alt]

\* A moving station whose fix is good, two-dimensional without altitude, or lost.
Moving == {Report(1, "good"), [Report(2, "none") EXCEPT !.mode = 2],
           [pos |-> NoPos, mode |-> 1, alt |-> "none"]}
=============================================================================
