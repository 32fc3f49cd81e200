---------------------------- MODULE MCEndpointRow ----------------------------
(* Small instances of EndpointRow for TLC. *)
EXTENDS EndpointRow, TLC

CONSTANTS r1, r2

MCRequests == {r1, r2}
Symmetry == Permutations(Requests)
=============================================================================
