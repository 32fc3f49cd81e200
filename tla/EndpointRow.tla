----------------------------- MODULE EndpointRow -----------------------------
(* One row of the table endpoints and its check_results, shared by the API    *)
(* handlers of app/routes.py and the worker's check of app/worker.py through  *)
(* app/store.py.  Handlers and check keep a copy of the row (the ORM object)  *)
(* from their SELECT to their UPDATE, and others commit in between: SQLite    *)
(* serialises the commits and nothing else.  The worker runs one check of an  *)
(* endpoint at a time (MonitorWorker).  name and url are not modelled.        *)
EXTENDS History

CONSTANTS Requests,   \* API calls on this endpoint
          Intervals,  \* values interval_seconds may take
          MaxNow,     \* bound: the clock stops here
          MaxCrashes  \* bound: checks lost to a crash, a cancellation or an exception

ASSUME IntervalsAssumption == Intervals \subseteq Nat \ {0} /\ Intervals # {}
ASSUME BoundsAssumption == MaxNow \in Nat /\ MaxCrashes \in Nat

Never == -1                   \* last_checked_at is null

VARIABLES
  row,      \* the row; ~row.present once it is deleted
  history,  \* its check_results
  now,      \* wall clock
  at,       \* where each request is
  kind,     \* what it asks for
  snap,     \* the ORM object of the request
  asked,    \* requested_at of a check request
  job,      \* where the worker's check is
  jobSnap,  \* the ORM object of its current session
  jobAt,    \* outcome.checked_at
  jobUp,    \* outcome.availability = "UP"
  tuned,    \* history variable, see NextFollowsLast
  crashes

requests == <<at, kind, snap, asked>>
check == <<job, jobSnap, jobAt, jobUp>>
vars == <<row, history, now, requests, check, tuned, crashes>>

RequestStates == {"new", "got", "asking", "waiting", "answered", "refused", "timeout"}
Kinds == {"check", "patch", "delete"}

Row == [present : BOOLEAN, enabled : BOOLEAN, force : BOOLEAN,
        interval : Intervals, last : Nat \cup {Never}, next : Nat,
        total : Nat, streak : Nat, up : BOOLEAN]

\* create_endpoint, at time 0.
Created(on, i) == [present |-> TRUE, enabled |-> on, force |-> FALSE,
                   interval |-> i, last |-> Never, next |-> 0,
                   total |-> 0, streak |-> 0, up |-> FALSE]

Init ==
  /\ \E on \in BOOLEAN, i \in Intervals : row = Created(on, i)
  /\ history = {} /\ now = 0 /\ crashes = 0
  /\ at = [r \in Requests |-> "new"]
  /\ kind \in [Requests -> Kinds]
  /\ snap = [r \in Requests |-> row] /\ asked = [r \in Requests |-> 0]
  /\ job = "idle" /\ jobSnap = row /\ jobAt = 0 /\ jobUp = FALSE
  /\ tuned = "no"

\* What a flush writes: the columns whose value differs from the one loaded.
FlushAll(old, new) == new
Flush(old, new) ==
  [f \in DOMAIN row |-> IF new[f] = old[f] THEN row[f] ELSE new[f]]

\* Two readings of utcnow() are never equal.
ReadClock == now < MaxNow /\ now' = now + 1

ClockTick == ReadClock /\ UNCHANGED <<row, history, requests, check, tuned, crashes>>

-----------------------------------------------------------------------------
(* The API handlers: SELECT, then (after an await) UPDATE and COMMIT. *)

Move(r, s) == at' = [at EXCEPT ![r] = s]

\* get_endpoint; no row is a 404.
Get(r) ==
  /\ at[r] = "new"
  /\ IF row.present
     THEN Move(r, "got") /\ snap' = [snap EXCEPT ![r] = row]
     ELSE Move(r, "refused") /\ snap' = snap
  /\ UNCHANGED <<row, history, now, kind, asked, check, tuned, crashes>>

Handles(r, k) == at[r] = "got" /\ kind[r] = k

\* The row was deleted since: an UPDATE matches no row and raises, a DELETE
\* matches none and is content.
FindsNothing(r) ==
  /\ at[r] \in {"got", "asking"}
  /\ ~row.present
  /\ Move(r, "refused")
  /\ UNCHANGED <<row, history, now, kind, snap, asked, check, tuned, crashes>>

AskingForce(old) == [old EXCEPT !.force = TRUE]

\* request_force_check: requested_at,
Ask(r) ==
  /\ Handles(r, "check")
  /\ ReadClock
  /\ asked' = [asked EXCEPT ![r] = now']
  /\ Move(r, "asking")
  /\ UNCHANGED <<row, history, kind, snap, check, tuned, crashes>>

\* then the UPDATE and its COMMIT.
CommitAsk(r) ==
  /\ at[r] = "asking" /\ row.present
  /\ row' = Flush(snap[r], AskingForce(snap[r]))
  /\ Move(r, "waiting")
  /\ UNCHANGED <<history, now, kind, snap, asked, check, tuned, crashes>>

Answer(r) == Since(history, asked[r])

\* A poll of trigger_check_route finds a result.
PollFinds(r) ==
  /\ at[r] = "waiting"
  /\ Answer(r) # {}
  /\ Move(r, "answered")
  /\ UNCHANGED <<row, history, now, kind, snap, asked, check, tuned, crashes>>

\* manual_check_wait_seconds have passed: a 504.
PollTimesOut(r) ==
  /\ at[r] = "waiting"
  /\ Move(r, "timeout")
  /\ UNCHANGED <<row, history, now, kind, snap, asked, check, tuned, crashes>>

NextFromNow(old, i) == now + i
NextFromNull(old, i) == IF old.last = Never THEN Never ELSE old.last + i
NextFromLast(old, i) == IF old.last = Never THEN now ELSE old.last + i

\* update_endpoint; a field the payload omits keeps its loaded value.
Patch(r) ==
  /\ Handles(r, "patch") /\ row.present
  /\ LET old == snap[r]
     IN \E on \in BOOLEAN :
          \/ /\ row' = Flush(old, [old EXCEPT !.enabled = on])
             /\ tuned' = tuned
          \/ /\ \E i \in Intervals :
                  row' = Flush(old, [old EXCEPT !.enabled = on, !.interval = i,
                                                !.next = NextFromLast(old, i)])
             /\ tuned' = "copy"
  /\ Move(r, "answered")
  /\ UNCHANGED <<history, now, kind, snap, asked, check, crashes>>

\* delete_endpoint; the results go with the row (ON DELETE CASCADE).
Delete(r) ==
  /\ Handles(r, "delete") /\ row.present
  /\ row' = [row EXCEPT !.present = FALSE]
  /\ history' = {}
  /\ Move(r, "answered")
  /\ UNCHANGED <<now, kind, snap, asked, check, tuned, crashes>>

-----------------------------------------------------------------------------
(* The worker's check: _execute_check. *)

Due == row.present /\ (row.force \/ (row.enabled /\ row.next <= now))

\* The first SELECT; a row that is gone or not due ends the check there.
CheckReads ==
  /\ job = "idle" /\ Due
  /\ job' = "read" /\ jobSnap' = row
  /\ UNCHANGED <<row, history, now, requests, jobAt, jobUp, tuned, crashes>>

\* Consume and commit the force request, if the row as read had one.
CheckClaims ==
  /\ job = "read"
  /\ IF jobSnap.force /\ ~row.present
     THEN job' = "idle" /\ row' = row
     ELSE job' = "claimed" /\ row' = Flush(jobSnap, [jobSnap EXCEPT !.force = FALSE])
  /\ UNCHANGED <<history, now, requests, jobSnap, jobAt, jobUp, tuned, crashes>>

\* HttpChecker.check takes checked_at before anything else.
CheckStarts ==
  /\ job = "claimed"
  /\ ReadClock
  /\ jobAt' = now'
  /\ job' = "probing"
  /\ UNCHANGED <<row, history, requests, jobSnap, jobUp, tuned, crashes>>

CheckEnds ==
  /\ job = "probing"
  /\ jobUp' \in BOOLEAN
  /\ job' = "probed"
  /\ UNCHANGED <<row, history, now, requests, jobSnap, jobAt, tuned, crashes>>

\* An exception becomes a DOWN, with a checked_at of its own.
CheckRaises ==
  /\ job = "probing"
  /\ ReadClock
  /\ jobAt' = now' /\ jobUp' = FALSE
  /\ job' = "probed"
  /\ UNCHANGED <<row, history, requests, jobSnap, tuned, crashes>>

\* The SELECT of the second session.
CheckRereads ==
  /\ job = "probed"
  /\ IF row.present
     THEN /\ job' = "reread" /\ jobSnap' = row
          /\ tuned' = IF tuned = "copy" THEN "row" ELSE tuned
     ELSE job' = "idle" /\ UNCHANGED <<jobSnap, tuned>>
  /\ UNCHANGED <<row, history, now, requests, jobAt, jobUp, crashes>>

\* record_check is called with consumed_force_check=False: the first session
\* has consumed the request, and what is set now is a newer one.
ConsumedTwice == TRUE
ConsumedForce == FALSE

NextAfterRecord(old) == now + old.interval
NextAfterCheck(old) == jobAt + old.interval

RecordedRow(old) ==
  [old EXCEPT !.total = IF jobUp THEN old.total ELSE old.total + 1,
              !.streak = IF jobUp THEN 0 ELSE old.streak + 1,
              !.up = jobUp, !.last = jobAt, !.next = NextAfterCheck(old),
              !.force = old.force /\ ~ConsumedForce]

\* foreign_keys=ON, and an UPDATE that matches no row raises.
RecordableAlways == TRUE
Recordable == row.present

\* record_check: one transaction; a deleted row makes it raise.
CheckRecords ==
  /\ job = "reread"
  /\ job' = "idle"
  /\ IF Recordable
     THEN /\ row' = Flush(jobSnap, RecordedRow(jobSnap))
          /\ history' = Recorded(history, [at |-> jobAt, up |-> jobUp])
          /\ tuned' = IF tuned = "copy" THEN tuned ELSE "no"
     ELSE UNCHANGED <<row, history, tuned>>
  /\ UNCHANGED <<now, requests, jobSnap, jobAt, jobUp, crashes>>

\* The process dies, the drain cancels the task, or a session raises.
Crash ==
  /\ job # "idle"
  /\ crashes < MaxCrashes
  /\ crashes' = crashes + 1
  /\ job' = "idle"
  /\ UNCHANGED <<row, history, now, requests, jobSnap, jobAt, jobUp, tuned>>

Handler(r) == \/ Get(r) \/ FindsNothing(r) \/ Ask(r) \/ CommitAsk(r)
              \/ PollFinds(r) \/ PollTimesOut(r) \/ Patch(r) \/ Delete(r)

Check == \/ CheckReads \/ CheckClaims \/ CheckStarts
         \/ CheckEnds \/ CheckRaises \/ CheckRereads \/ CheckRecords

Next == \/ \E r \in Requests : Handler(r)
        \/ Check \/ Crash \/ ClockTick

Spec == Init /\ [][Next]_vars
-----------------------------------------------------------------------------
(* Properties. *)

\* The type of every variable; next_check_at is never null.
TypeOK ==
  /\ row \in Row /\ now \in Nat /\ crashes \in Nat
  /\ history \subseteq [at : Nat, up : BOOLEAN]
  /\ at \in [Requests -> RequestStates]
  /\ kind \in [Requests -> Kinds]
  /\ snap \in [Requests -> Row] /\ asked \in [Requests -> Nat]
  /\ job \in {"idle", "read", "claimed", "probing", "probed", "reread"}
  /\ jobSnap \in Row /\ jobAt \in Nat /\ jobUp \in BOOLEAN
  /\ tuned \in {"no", "row", "copy"}

\* The DOWN results since the last UP.
TrailingDowns(h) == {r \in h : ~r.up /\ \A s \in h : s.at > r.at => ~s.up}

\* The denormalised columns agree with the results, whatever commits in
\* between: last_* is the newest result, which pruning always keeps, and
\* consecutive_failures is the run of DOWNs that ends there.
RowMatchesHistory ==
  row.present =>
    /\ row.last = Never <=> history = {}
    /\ \A r \in history : r.at <= row.last /\ (r.at = row.last => r.up = row.up)
    /\ history # {} => \E r \in history : r.at = row.last
    /\ row.streak >= Cardinality(TrailingDowns(history))
    /\ row.streak > Cardinality(TrailingDowns(history)) => TrailingDowns(history) = history
    /\ row.total >= row.streak

\* A check that finishes after the DELETE leaves no result behind.
NoOrphans == ~row.present => history = {}

\* README: total_failures "Never decreases", not even under a stale copy.
TotalNeverDecreases == [][row'.total >= row.total]_vars

\* A PATCH that commits during a check is not undone when the check records.
ConfigSurvives ==
  [][job' # job => row'.enabled = row.enabled /\ row'.interval = row.interval]_vars

\* Stale copies of interval and last_checked_at may schedule an endpoint too
\* early, but never park it: its next check is due already, or within the
\* longest interval of its last one.
NeverParked ==
  row.present => \/ row.next <= now
                 \/ \E i \in Intervals : row.last # Never /\ row.next <= row.last + i

\* The next check is due an interval after the last one, except from a PATCH of
\* the interval, which may go by an old copy of the row, to the first check that
\* is recorded on a row loaded after it.  tuned: such a PATCH has committed since
\* the last of these checks ("row"), and since the second session of the check
\* under way, or of the last one, loaded the row ("copy").
NextFollowsLast ==
  tuned = "no" /\ row.last # Never => row.next = row.last + row.interval

\* A waiting request has its result or is sure to get one: the force flag is
\* set, or a check under way will carry a checked_at that is late enough.
Owed(r) ==
  \/ Answer(r) # {}
  \/ row.force
  \/ job = "claimed"
  \/ job \in {"probing", "probed", "reread"} /\ jobAt >= asked[r]

Waits(r) == at[r] = "waiting" /\ row.present /\ crashes = 0

\* A manual check is not lost to a check in flight, to another request or to a
\* PATCH, unless the row was loaded with force_check already set.
FirstRequestOwed == \A r \in Requests : Waits(r) /\ ~snap[r].force => Owed(r)

\* README: "An explicit Check still runs (the user asked)."
ExplicitCheckRuns == \A r \in Requests : Waits(r) => Owed(r)
=============================================================================
