----------------------------- MODULE CheckSlots -----------------------------
(* What the scheduler of app/worker.py promises about the checks it runs,     *)
(* without its ticks, locks, sets and semaphore: checks of different          *)
(* endpoints run side by side, never two of one endpoint, and never more than *)
(* Limit of them.  A job is an endpoint and a number that tells a check of    *)
(* the endpoint from another one.                                             *)
EXTENDS Integers, FiniteSets

CONSTANTS Endpoints, Copies, Limit

Jobs == Endpoints \X Copies

VARIABLE running

Init == running = {}

Begin(j) == /\ \A k \in running : k[1] # j[1]
            /\ Cardinality(running) < Limit
            /\ running' = running \cup {j}

\* Checks end one by one, or together when the worker process goes away.
End(S) == /\ S # {}
          /\ running' = running \ S

Next == \/ \E j \in Jobs : Begin(j)
        \/ \E S \in SUBSET running : End(S)

Spec == Init /\ [][Next]_running
=============================================================================
