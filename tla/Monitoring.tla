------------------------------ MODULE Monitoring ------------------------------
(* What a user of the API sees of one endpoint: the worker probes it (Probe)  *)
(* and records the outcomes (History), while the handlers of app/routes.py    *)
(* read the results.  A handler makes several statements, each of which sees  *)
(* the database of its own moment: SQLite opens no transaction for a SELECT.  *)
(* When the worker probes is left open (MonitorWorker).                       *)
EXTENDS Probe, History

CONSTANTS PageSize, \* page_size
          Window,   \* window_hours of the uptime
          Overlap   \* bound: FALSE if only one of the two clients is busy at a time

ASSUME PageAssumption == PageSize \in Nat \ {0}
ASSUME WindowAssumption == Window \in Nat /\ Retention >= Window

ASSUME OverlapAssumption == Overlap \in BOOLEAN

VARIABLES
  present,  \* the endpoint is in the database
  results,  \* its check_results
  reader,   \* a client that walks the pages, or asks for the uptime
  manual    \* a request for a manual check

vars == <<now, url, probe, present, results, reader, manual>>

Result == [at : 0..MaxNow, up : BOOLEAN, seen : 0..MaxNow]

\* doing: what the client is at.  start: of the window of the uptime.
\* base: the results that were there when the walk began, or that were counted
\* first.  found: those on the pages so far, or those counted as UP.
Reader == [doing : {"idle", "rows", "between", "walked", "total", "up", "shown"},
           page : Nat, start : Int, base : SUBSET Result, found : SUBSET Result]
NoReader == [doing |-> "idle", page |-> 0, start |-> 0, base |-> {}, found |-> {}]

\* answer: the result that trigger_check_route returns.
Manual == [doing : {"idle", "waiting", "answered"}, asked : 0..MaxNow, answer : SUBSET Result]
NoManual == [doing |-> "idle", asked |-> 0, answer |-> {}]

Init ==
  /\ ProbeInit
  /\ present = TRUE /\ results = {}
  /\ reader = NoReader /\ manual = NoManual

ClockTick == ReadClock /\ UNCHANGED <<url, probe, present, results, reader, manual>>

-----------------------------------------------------------------------------
(* The worker. *)

\* The first session of _execute_check reads the row, which may be gone when
\* the probe begins.
Claim ==
  /\ step = "idle" /\ present
  /\ step' = "claimed"
  /\ UNCHANGED <<now, url, addresses, peers, remaining, status, checkedAt, seenAt,
                 present, results, reader, manual>>

Begin == Start /\ UNCHANGED <<present, results, reader, manual>>
GoOn == ProbeGoesOn /\ UNCHANGED <<present, results, reader, manual>>

StampLate == now
Stamp == checkedAt

\* record_check, for an endpoint that is still there.
Record ==
  /\ step = "probed"
  /\ results' = IF present
                THEN Recorded(results, [at |-> Stamp, up |-> IsUp, seen |-> seenAt])
                ELSE results
  /\ Reset
  /\ UNCHANGED <<present, reader, manual>>

\* The process dies, the check is cancelled, or a session of it raises.
Lose ==
  /\ step # "idle"
  /\ Reset
  /\ UNCHANGED <<present, results, reader, manual>>

\* delete_endpoint; the results go with the row.
Delete ==
  /\ present
  /\ present' = FALSE /\ results' = {}
  /\ UNCHANGED <<now, url, probe, reader, manual>>

-----------------------------------------------------------------------------
(* The client that reads.  A 404 ends what it does. *)

MayOpen == Overlap \/ (reader.doing = "idle" /\ manual.doing = "idle")

Reads(new) == reader' = new /\ UNCHANGED <<now, url, probe, present, results, manual>>

\* get_endpoint of list_checks_route; the SELECT of the rows follows.
OpenWalk ==
  /\ reader.doing = "idle" /\ MayOpen /\ present
  /\ Reads([NoReader EXCEPT !.doing = "rows", !.page = 1, !.base = results])

ReadPage ==
  /\ reader.doing = "rows"
  /\ LET rows == Page(results, reader.page, PageSize)
         more == Cardinality(rows) = PageSize
     IN Reads([reader EXCEPT !.doing = IF more THEN "between" ELSE "walked",
                             !.found = @ \cup rows])

\* get_endpoint of the next page.
OpenPage ==
  /\ reader.doing = "between" /\ present
  /\ Reads([reader EXCEPT !.doing = "rows", !.page = @ + 1])

\* get_endpoint of get_endpoint_route, and the start of uptime_summary.
OpenUptime ==
  /\ reader.doing = "idle" /\ MayOpen /\ present
  /\ Reads([NoReader EXCEPT !.doing = "total", !.start = now - Window])

CountTotal ==
  /\ reader.doing = "total"
  /\ Reads([reader EXCEPT !.doing = "up", !.base = Since(results, reader.start)])

StartAnew == now - Window
StartOnce == reader.start

CountUp ==
  /\ reader.doing = "up"
  /\ Reads([reader EXCEPT !.doing = "shown",
                          !.found = {r \in Since(results, StartOnce) : r.up}])

CloseReader ==
  /\ reader.doing \in {"between", "walked", "shown"}
  /\ Reads(NoReader)

-----------------------------------------------------------------------------
(* The client that asks for a check: trigger_check_route. *)

Asks(new) == manual' = new /\ UNCHANGED <<url, probe, present, results, reader>>

Ask ==
  /\ manual.doing = "idle" /\ MayOpen /\ present
  /\ ReadClock
  /\ Asks([NoManual EXCEPT !.doing = "waiting", !.asked = now'])

Poll ==
  /\ manual.doing = "waiting"
  /\ Latest(results, manual.asked) # {}
  /\ Asks([manual EXCEPT !.doing = "answered", !.answer = Latest(results, manual.asked)])
  /\ UNCHANGED now

\* After the answer, or a 504.
CloseManual ==
  /\ manual.doing # "idle"
  /\ Asks(NoManual)
  /\ UNCHANGED now

Next == \/ ClockTick
        \/ Claim \/ Begin \/ GoOn \/ Record \/ Lose \/ Delete
        \/ OpenWalk \/ ReadPage \/ OpenPage \/ OpenUptime \/ CountTotal \/ CountUp
        \/ CloseReader
        \/ Ask \/ Poll \/ CloseManual

Spec == Init /\ [][Next]_vars

\* Each network operation ends, if need be by its timeout.  What it brings is
\* the server's choice, and may be nothing, for ever.
FairSpec == Spec /\ WF_vars(GoOn) /\ WF_vars(Record)

-----------------------------------------------------------------------------
(* Properties. *)

\* The type of every variable; README: a "per-endpoint row cap" on the results.
TypeOK ==
  /\ now \in 0..MaxNow /\ url \in Registrable /\ step \in Steps
  /\ addresses \in Seq(Address) /\ peers \subseteq Address
  /\ remaining \in 0..MaxBytes /\ status \in Statuses
  /\ checkedAt \in 0..MaxNow /\ seenAt \in 0..MaxNow
  /\ present \in BOOLEAN
  /\ results \subseteq Result /\ Cardinality(results) <= MaxRecords
  /\ reader \in Reader /\ manual \in Manual

\* README: the worker "validates every address, then connects to that
\* already-validated IP", whatever the name resolved to on registration and
\* resolves to by now.
ConnectsToPermitted ==
  /\ peers \subseteq Permitted
  /\ url.host # "literal" => \E answer \in Answers :
       /\ \A a \in peers : \E i \in DOMAIN answer : answer[i] = a
       /\ \A i \in DOMAIN answer : answer[i] \in Permitted

\* The answer to a manual check tells what the endpoint did after the request,
\* even if a probe was under way then.
FreshAnswer ==
  manual.doing = "answered" =>
    /\ manual.answer # {}
    /\ \A r \in manual.answer : manual.asked <= r.seen

\* Whoever walks the pages until one is short has seen every result that was
\* there from the beginning of the walk to its end, however many were recorded
\* and pruned meanwhile.
WalkMissesNothing ==
  reader.doing = "walked" => \A r \in reader.base \cap results : r \in reader.found

\* The two counts of the uptime may see different results, but time that passes
\* between them is never taken for downtime: if every result of the window was
\* UP, and none has been removed, the percentage is not below 100.
NoFalseDowntime ==
  /\ reader.doing = "shown"
  /\ reader.base \subseteq results
  /\ \A r \in reader.base : r.up
  => Cardinality(reader.found) >= Cardinality(reader.base)

AwaitsHead == step \in {"connected", "head"}
AwaitsBody == step \in {"body", "data"}
Probes == step \notin {"idle", "claimed"}

\* README: "Response bodies are truncated (MAX_RESPONSE_BYTES)".  What is counted
\* ends a probe, however small the chunks: the only ones that do not end are
\* those whose server, from some moment on, sends heads that do not end or data
\* that decodes to nothing.
CountedProbesEnd == Probes ~> (step = "idle" \/ []AwaitsHead \/ []AwaitsBody)
=============================================================================
