--------------------------- MODULE MCMonitorWorker ---------------------------
(* Small instances of MonitorWorker for TLC. *)
EXTENDS MonitorWorker, TLC

CONSTANTS e1, e2, e3, c1, c2

MCTwo == {e1, e2}
MCThree == {e1, e2, e3}
MCCopies == {c1, c2}

\* Endpoints and copies are interchangeable in every safety property.
Symmetry == Permutations(Endpoints) \cup Permutations(Copies)
=============================================================================
