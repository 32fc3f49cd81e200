----------------------------- MODULE MCDashboard ------------------------------
(* A small instance of Dashboard for TLC. *)
EXTENDS Dashboard

CONSTANTS e1, e2, l1, l2

MCIds == {e1, e2}
MCLoads == {l1, l2}
=============================================================================
