------------------------------ MODULE Incidents ------------------------------
(* From a recorded result to the outage and recovery events of one endpoint   *)
(* and their webhooks: the second session of _execute_check (app/worker.py)   *)
(* with record_check, maybe_create_alert and record_webhook_delivery          *)
(* (app/store.py) and send_alert_webhook (app/alerts.py).  Each of them       *)
(* commits on its own: the process may die, or an exception end the check,    *)
(* between any two.  Checks of one endpoint follow one another                *)
(* (MonitorWorker), and utcnow() does not run backwards, so the event created *)
(* last is the one latest_alert finds.                                        *)
EXTENDS Integers, Sequences

CONSTANTS Threshold,  \* Settings.alert_failure_threshold
          MaxChecks,  \* bound: recorded results
          MaxCrashes  \* bound: checks that do not reach their end

ASSUME ThresholdAssumption == Threshold \in Nat \ {0}
ASSUME BoundsAssumption == MaxChecks \in Nat /\ MaxCrashes \in Nat

VARIABLES
  present,  \* the endpoint is in the database
  up,       \* last_availability = "UP"
  streak,   \* consecutive_failures
  events,   \* alert_events of the endpoint, oldest first
  step,     \* where the session is: idle, recorded, post or report
  reply,    \* what send_alert_webhook returned
  accepted, \* the events whose receiver answered 2xx (seen from outside)
  hook,     \* ALERT_WEBHOOK_URL is set
  checks, crashes

vars == <<present, up, streak, events, step, reply, accepted, hook, checks, crashes>>

Event(k, n) == [kind |-> k, failures |-> n, delivered |-> "null"]

Open == events # <<>> /\ events[Len(events)].kind = "OUTAGE"

Init ==
  /\ present = TRUE /\ up = FALSE /\ streak = 0 /\ events = <<>>
  /\ step = "idle" /\ reply = "null" /\ accepted = {}
  /\ hook \in BOOLEAN
  /\ checks = 0 /\ crashes = 0

StreakDecays(isUp) == IF isUp THEN streak - 1 ELSE streak + 1
Streak(isUp) == IF isUp THEN 0 ELSE streak + 1

\* record_check commits a result.
Record ==
  /\ step = "idle" /\ present
  /\ checks < MaxChecks /\ checks' = checks + 1
  /\ up' \in BOOLEAN
  /\ streak' = Streak(up')
  /\ step' = "recorded"
  /\ UNCHANGED <<present, events, reply, accepted, hook, crashes>>

OutageAtThresholdOnly == ~up /\ streak = Threshold /\ ~Open
OutageEveryTime == ~up /\ streak >= Threshold
OutageOneEarly == ~up /\ streak + 1 >= Threshold /\ ~Open
OutageCounted == ~up /\ streak >= Threshold /\ ~Open

RecoveryEveryTime == up
RecoveryDue == up /\ Open

\* maybe_create_alert; for a deleted endpoint the insert raises.
Decide ==
  /\ step = "recorded"
  /\ IF present /\ (OutageCounted \/ RecoveryDue)
     THEN /\ events' = Append(events, IF up THEN Event("RECOVERY", 0)
                                            ELSE Event("OUTAGE", streak))
          /\ step' = IF hook THEN "post" ELSE "idle"
     ELSE step' = "idle" /\ UNCHANGED events
  /\ UNCHANGED <<present, up, streak, reply, accepted, hook, checks, crashes>>

\* What a POST can come to: the receiver answers 2xx and the worker hears it
\* or times out; or it answers otherwise, or cannot be reached.
RepliesUnchecked == {<<TRUE, "yes">>, <<TRUE, "no">>, <<FALSE, "yes">>, <<FALSE, "no">>}
Replies == {<<TRUE, "yes">>, <<TRUE, "no">>, <<FALSE, "no">>}

\* send_alert_webhook.
Post ==
  /\ step = "post"
  /\ \E r \in Replies :
       /\ accepted' = IF r[1] THEN accepted \cup {Len(events)} ELSE accepted
       /\ reply' = r[2]
  /\ step' = "report"
  /\ UNCHANGED <<present, up, streak, events, hook, checks, crashes>>

\* record_webhook_delivery; nothing if the event went with its endpoint.
RecordDelivery ==
  /\ step = "report"
  /\ step' = "idle"
  /\ events' = IF present THEN [events EXCEPT ![Len(events)].delivered = reply]
                          ELSE events
  /\ UNCHANGED <<present, up, streak, reply, accepted, hook, checks, crashes>>

\* A crash and restart, a cancellation by the drain, or an exception.  The
\* settings are read again when the process restarts.
Crash ==
  /\ step # "idle"
  /\ crashes < MaxCrashes /\ crashes' = crashes + 1
  /\ step' = "idle"
  /\ hook' \in BOOLEAN
  /\ UNCHANGED <<present, up, streak, events, reply, accepted, checks>>

\* delete_endpoint in the API process; the events go with the row.
Delete ==
  /\ present
  /\ present' = FALSE /\ events' = <<>>
  /\ UNCHANGED <<up, streak, step, reply, accepted, hook, checks, crashes>>

Next == Record \/ Decide \/ Post \/ RecordDelivery \/ Crash \/ Delete

Spec == Init /\ [][Next]_vars

-----------------------------------------------------------------------------
(* Properties. *)

EventKinds == {"OUTAGE", "RECOVERY"}

\* The type of every variable; consecutive_failures is never negative.
TypeOK ==
  /\ present \in BOOLEAN /\ up \in BOOLEAN /\ streak \in Nat
  /\ events \in Seq([kind : EventKinds, failures : Nat, delivered : {"null", "yes", "no"}])
  /\ step \in {"idle", "recorded", "post", "report"}
  /\ reply \in {"null", "yes", "no"} /\ accepted \subseteq Nat
  /\ hook \in BOOLEAN /\ checks \in Nat /\ crashes \in Nat

\* Docstring of maybe_create_alert: "one outage alert per incident and one
\* recovery alert afterward".  The events alternate, whatever is lost.
Alternating ==
  /\ \A i \in DOMAIN events : events[i].kind = IF i % 2 = 1 THEN "OUTAGE" ELSE "RECOVERY"
  /\ \A i \in DOMAIN events :
       events[i].kind = "OUTAGE" => events[i].failures >= Threshold

\* As long as no check is cut short, an incident is open exactly while the
\* streak has reached the threshold, and it was opened at the threshold.
IncidentTracked ==
  crashes = 0 /\ present =>
    /\ step # "recorded" => (Open <=> streak >= Threshold)
    /\ \A i \in DOMAIN events : events[i].kind = "OUTAGE" => events[i].failures = Threshold

\* The inductive invariant: IncidentTracked, and what holds halfway through a
\* check, when the streak is one result ahead of the events.
HalfTracked ==
  step = "recorded" =>
    /\ up => streak = 0
    /\ ~up => streak >= 1
    /\ ~up /\ crashes = 0 /\ present => (Open <=> streak - 1 >= Threshold)

\* The event on its way is the newest, and nobody has noted its delivery yet.
Pending ==
  step \in {"post", "report"} /\ present =>
    /\ events # <<>>
    /\ events[Len(events)].delivered = "null"
    /\ step = "report" => reply # "null" /\ (reply = "yes" => Len(events) \in accepted)

\* webhook_delivered is true only if the receiver accepted the event.
DeliveredWasAccepted ==
  \A i \in DOMAIN events : events[i].delivered = "yes" => i \in accepted

IInv == /\ TypeOK /\ Alternating /\ IncidentTracked /\ HalfTracked
        /\ Pending /\ DeliveredWasAccepted

\* A check that runs to its end sets the record straight, whatever earlier
\* checks lost: after an UP no incident is open, after enough DOWNs one is.
ResultHandled ==
  [][step = "recorded" /\ step' # "recorded" /\ crashes' = crashes /\ present =>
       /\ up => ~Open'
       /\ streak >= Threshold => Open']_vars

\* The log, as IncidentLog promises it: an event is never changed but for the
\* result of its one delivery, and nothing is added after the deletion.
Settled == {i \in DOMAIN events : events[i].delivered # "null"}
Log == INSTANCE IncidentLog
         WITH open <- Open, count <- Len(events), settled <- Settled, gone <- ~present
LogKept == Log!Spec

\* README: "one recovery event when the endpoint returns".  While an incident
\* is open, the streak of DOWNs since its outage has not been broken by an UP.
EveryReturnReported == step = "idle" /\ ~up /\ Open => streak >= Threshold
=============================================================================
