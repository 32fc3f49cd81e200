----------------------------- MODULE IncidentLog -----------------------------
(* What the alerting promises of one endpoint: a log in which an incident is  *)
(* opened and closed in turn, and in which the result of a delivery is noted  *)
(* once, for the newest event, and never changed.  The log of a deleted       *)
(* endpoint stays empty.  Incidents is shown to implement it.                 *)
EXTENDS Naturals

VARIABLES open,    \* an incident is open
          count,   \* events so far
          settled, \* those whose delivery has a result
          gone     \* the endpoint has been deleted

log == <<open, count, settled, gone>>

Init == open = FALSE /\ count = 0 /\ settled = {} /\ gone = FALSE

\* An outage, or a recovery.
Turns ==
  /\ ~gone
  /\ open' = ~open /\ count' = count + 1
  /\ UNCHANGED <<settled, gone>>

Settles ==
  /\ count > 0 /\ count \notin settled
  /\ settled' = settled \cup {count}
  /\ UNCHANGED <<open, count, gone>>

Forgotten ==
  /\ ~gone /\ gone' = TRUE
  /\ open' = FALSE /\ count' = 0 /\ settled' = {}

Spec == Init /\ [][Turns \/ Settles \/ Forgotten]_log
=============================================================================
