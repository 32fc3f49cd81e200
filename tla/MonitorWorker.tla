---------------------------- MODULE MonitorWorker ----------------------------
(* The scheduler of app/worker.py: one asyncio process that selects due       *)
(* endpoints, gives each a task, and runs the tasks under a lock per endpoint *)
(* and a global semaphore.  The endpoint rows live in SQLite and are changed  *)
(* by the API process between any two steps of the worker.  A step is what    *)
(* runs between two awaits.  The launch loop of tick() has no await: while    *)
(* worker = "launch" no task takes a step.                                    *)
EXTENDS Integers, FiniteSets, Sequences

CONSTANTS Endpoints,   \* endpoint ids
          Copies,      \* tells the tasks of one endpoint from each other
          Concurrency, \* Settings.check_concurrency
          Intervals,   \* values of interval_seconds, in clock units
          MaxNow,      \* bound: the clock stops here
          MaxApi,      \* bound: API calls other than the creation of rows
          MaxFaults    \* bound: exceptions, stops and crashes

ASSUME ConcurrencyAssumption == Concurrency \in Nat \ {0}
ASSUME IntervalsAssumption == Intervals # {} /\ Intervals \subseteq Nat \ {0}
ASSUME BoundsAssumption == MaxNow \in Nat /\ MaxApi \in Nat /\ MaxFaults \in Nat
ASSUME EndpointsAssumption == IsFiniteSet(Endpoints)

Never == -1                       \* last_checked_at is null
Tasks == Endpoints \X Copies
Ep(t) == t[1]

VARIABLES
  row,        \* the table endpoints: id -> row
  now,        \* wall clock of both processes
  worker,     \* where run() is: idle, query, loaded, launch, drain or down
  stop,       \* _stop is set
  slots,      \* tick(): slots - started
  due,        \* tick(): the rows the loop has still to visit
  pc,         \* where each task is
  checkedAt,  \* outcome.checked_at of each task
  inFlight,   \* _in_flight
  scheduled,  \* _scheduled
  locked,     \* ids whose lock in _locks is held
  permits,    \* value of _semaphore
  apiCalls, faults

table  == <<row, apiCalls>>
memory == <<slots, due, pc, checkedAt, inFlight, scheduled, locked, permits>>
vars   == <<row, now, worker, stop, slots, due, pc, checkedAt, inFlight,
            scheduled, locked, permits, apiCalls, faults>>

\* tuned: a PATCH has set the interval of the row (history).
Rows == [status : {"absent", "present", "deleted"}, enabled : BOOLEAN,
         force : BOOLEAN, next : Nat, last : Nat \cup {Never},
         interval : Intervals, tuned : BOOLEAN]

WorkerStates == {"idle", "query", "loaded", "launch", "drain", "down"}
TaskStates == {"none", "new", "claim", "ready", "probing", "record", "alert", "done"}

\* A task that is past lock acquisition and has not released the lock.
Holding(t) == pc[t] \in {"claim", "ready", "probing", "record", "alert"}
Live(t) == pc[t] \notin {"none", "done"}

Present(e) == row[e].status = "present"
Due(e) == Present(e) /\ (row[e].force \/ (row[e].enabled /\ row[e].next <= now))

Init ==
  /\ row = [e \in Endpoints |->
              [status |-> "absent", enabled |-> FALSE, force |-> FALSE, next |-> 0,
               last |-> Never, interval |-> CHOOSE i \in Intervals : TRUE, tuned |-> FALSE]]
  /\ now = 0 /\ apiCalls = 0 /\ faults = 0
  /\ worker = "idle" /\ stop = FALSE /\ slots = 0 /\ due = <<>>
  /\ pc = [t \in Tasks |-> "none"] /\ checkedAt = [t \in Tasks |-> 0]
  /\ inFlight = {} /\ scheduled = {} /\ locked = {} /\ permits = Concurrency

-----------------------------------------------------------------------------
(* The API process, and time. *)

Create(e) ==
  /\ row[e].status = "absent"
  /\ \E on \in BOOLEAN, i \in Intervals :
       row' = [row EXCEPT ![e] =
                 [status |-> "present", enabled |-> on, force |-> FALSE, next |-> now,
                  last |-> Never, interval |-> i, tuned |-> FALSE]]
  /\ UNCHANGED <<now, worker, stop, memory, apiCalls, faults>>

\* The calls that change an existing row, at most MaxApi of them.
ApiWrite(e, new) ==
  /\ apiCalls < MaxApi
  /\ Present(e)
  /\ row' = [row EXCEPT ![e] = new]
  /\ apiCalls' = apiCalls + 1
  /\ UNCHANGED <<now, worker, stop, memory, faults>>

\* PATCH without an interval.
SetEnabled(e) == ApiWrite(e, [row[e] EXCEPT !.enabled = ~row[e].enabled])

\* update_endpoint computes next_check_at from the copy that was loaded before
\* the DNS look-up of a new URL.  Its last_checked_at may be null, though a
\* check has been recorded since, or any earlier one (EndpointRow keeps the copy).
TunedNext(e, i) == {now} \cup {last + i : last \in 0..row[e].last}

\* PATCH with an interval.
SetInterval(e) ==
  \E i \in Intervals, on \in BOOLEAN : \E next \in TunedNext(e, i) :
    ApiWrite(e, [row[e] EXCEPT !.interval = i, !.next = next, !.enabled = on,
                               !.tuned = TRUE])

RequestForce(e) == ApiWrite(e, [row[e] EXCEPT !.force = TRUE])
Delete(e) == ApiWrite(e, [row[e] EXCEPT !.status = "deleted"])

ClockTick ==
  /\ now < MaxNow
  /\ now' = now + 1
  /\ UNCHANGED <<table, worker, stop, memory, faults>>

-----------------------------------------------------------------------------
(* run() and tick(). *)

Fault == faults < MaxFaults /\ faults' = faults + 1

RequestStop ==
  /\ worker # "down" /\ ~stop
  /\ Fault
  /\ stop' = TRUE
  /\ UNCHANGED <<table, now, worker, memory>>

MayTickAlways == TRUE
MayTick == ~stop

FreeSlots == Concurrency - Cardinality(inFlight)

BeginTick ==
  /\ worker = "idle" /\ MayTick
  /\ FreeSlots > 0
  /\ slots' = FreeSlots
  /\ worker' = "query"
  /\ UNCHANGED <<table, now, stop, due, pc, checkedAt, inFlight, scheduled,
                 locked, permits, faults>>

\* The order of the SELECT: forced rows first, then the longest overdue.
Before(e, f) == \/ row[e].force /\ ~row[f].force
                \/ row[e].force = row[f].force /\ row[e].next <= row[f].next

\* What "ORDER BY ... LIMIT n" may return; the order of ties is the database's.
DueLists(n) ==
  LET D == {e \in Endpoints : Due(e)}
      size == Cardinality(D)
  IN {SubSeq(q, 1, IF n < size THEN n ELSE size) :
        q \in {p \in [1..size -> D] : \A i, j \in 1..size :
                 i < j => p[i] # p[j] /\ Before(p[i], p[j])}}

SelectDue ==
  /\ worker = "query"
  /\ due' \in DueLists(2 * slots)
  /\ worker' = "loaded"
  /\ UNCHANGED <<table, now, stop, slots, pc, checkedAt, inFlight, scheduled,
                 locked, permits, faults>>

\* The SELECT raises; run() logs it and goes on with the next tick.
TickFails ==
  /\ worker = "query"
  /\ Fault
  /\ worker' = "idle" /\ slots' = 0
  /\ UNCHANGED <<table, now, stop, due, pc, checkedAt, inFlight, scheduled,
                 locked, permits>>

Looping == worker \in {"loaded", "launch"} /\ due # <<>> /\ slots > 0
StartableIgnoringScheduled(e) == e \notin locked
Startable(e) == e \notin scheduled /\ e \notin locked

SkipNext ==
  /\ Looping
  /\ ~Startable(Head(due))
  /\ worker' = "launch" /\ due' = Tail(due)
  /\ UNCHANGED <<table, now, stop, slots, pc, checkedAt, inFlight, scheduled,
                 locked, permits, faults>>

LaunchNext ==
  /\ Looping
  /\ Startable(Head(due))
  /\ \E t \in Tasks :
       /\ Ep(t) = Head(due) /\ pc[t] = "none"
       /\ pc' = [pc EXCEPT ![t] = "new"]
       /\ inFlight' = inFlight \cup {t}
  /\ scheduled' = scheduled \cup {Head(due)}
  /\ worker' = "launch" /\ due' = Tail(due) /\ slots' = slots - 1
  /\ UNCHANGED <<table, now, stop, checkedAt, locked, permits, faults>>

EndTick ==
  /\ worker \in {"loaded", "launch"}
  /\ due = <<>> \/ slots = 0
  /\ worker' = "idle" /\ due' = <<>> /\ slots' = 0
  /\ UNCHANGED <<table, now, stop, pc, checkedAt, inFlight, scheduled, locked,
                 permits, faults>>

-----------------------------------------------------------------------------
(* A task: _guarded_check -> run_check -> _execute_check. *)

TasksRun == worker \notin {"launch", "down"}

At(t, s) == TasksRun /\ pc[t] = s

Go(t, s) == pc' = [pc EXCEPT ![t] = s]

\* Leaving "async with lock", normally or by an exception.
ReturnLocked(t) == Go(t, "done") /\ locked' = locked
Return(t) == Go(t, "done") /\ locked' = locked \ {Ep(t)}

Start(t) ==
  /\ At(t, "new")
  /\ IF Ep(t) \in locked
     THEN Go(t, "done") /\ locked' = locked
     ELSE Go(t, "claim") /\ locked' = locked \cup {Ep(t)}
  /\ UNCHANGED <<table, now, worker, stop, slots, due, checkedAt, inFlight,
                 scheduled, permits, faults>>

\* The first session: read the row again, drop the task unless the row is
\* still due, consume a force request.  What other processes do between its
\* SELECT and its COMMIT, and in the second session, is in EndpointRow.
ClaimsSelected(e) == Present(e)
Claims(e) == Due(e)

Claim(t) ==
  /\ At(t, "claim")
  /\ IF Claims(Ep(t))
     THEN /\ row' = [row EXCEPT ![Ep(t)].force = FALSE]
          /\ Go(t, "ready") /\ locked' = locked
     ELSE Return(t) /\ row' = row
  /\ UNCHANGED <<now, worker, stop, slots, due, checkedAt, inFlight, scheduled,
                 permits, apiCalls, faults>>

TakeNoPermit == permits' = permits
TakePermit == permits' = permits - 1

\* "async with self._semaphore", then the first line of checker.check().
Acquire(t) ==
  /\ At(t, "ready")
  /\ permits > 0
  /\ TakePermit
  /\ checkedAt' = [checkedAt EXCEPT ![t] = now]
  /\ Go(t, "probing")
  /\ UNCHANGED <<table, now, worker, stop, slots, due, inFlight, scheduled,
                 locked, faults>>

KeepPermit == permits' = permits
ReleasePermit == permits' = permits + 1

\* A probe that ends yields an outcome: an exception becomes a DOWN, stamped with
\* the time of the exception.  A server may hold it for ever (Probe).
ProbeEnds(t) ==
  /\ At(t, "probing")
  /\ ReleasePermit
  /\ Go(t, "record")
  /\ checkedAt' \in {checkedAt, [checkedAt EXCEPT ![t] = now]}
  /\ UNCHANGED <<table, now, worker, stop, slots, due, inFlight, scheduled, locked,
                 faults>>

\* The second session: record_check on the row as it is now.
Record(t) ==
  /\ At(t, "record")
  /\ IF Present(Ep(t))
     THEN /\ row' = [row EXCEPT ![Ep(t)].last = checkedAt[t],
                                ![Ep(t)].next = checkedAt[t] + row[Ep(t)].interval]
          /\ Go(t, "alert") /\ locked' = locked
     ELSE Return(t) /\ row' = row
  /\ UNCHANGED <<now, worker, stop, slots, due, checkedAt, inFlight, scheduled,
                 permits, apiCalls, faults>>

\* maybe_create_alert and the webhook; what they write is not in this module.
Alert(t) ==
  /\ At(t, "alert")
  /\ Return(t)
  /\ UNCHANGED <<table, now, worker, stop, slots, due, checkedAt, inFlight,
                 scheduled, permits, faults>>

\* A session raises; _guarded_check logs it.
TaskFails(t) ==
  /\ TasksRun /\ pc[t] \in {"claim", "record", "alert"}
  /\ Fault
  /\ Return(t)
  /\ UNCHANGED <<table, now, worker, stop, slots, due, checkedAt, inFlight,
                 scheduled, permits>>

ForgottenIds(t) == {Ep(u) : u \in {v \in Tasks : pc[v] = "done"}}
ForgottenId(t) == {Ep(t)}

\* The done callback of one task: it forgets every finished task, but only
\* its own endpoint.
OnTaskDone(t) ==
  /\ At(t, "done")
  /\ Go(t, "none")
  /\ scheduled' = scheduled \ ForgottenId(t)
  /\ inFlight' = inFlight \ {u \in Tasks : pc[u] = "done"}
  /\ UNCHANGED <<table, now, worker, stop, slots, due, checkedAt, locked,
                 permits, faults>>

-----------------------------------------------------------------------------
(* The end of the process and its restart by the container platform. *)

BeginDrain ==
  /\ worker = "idle" /\ stop
  /\ worker' = "drain"
  /\ UNCHANGED <<table, now, stop, memory, faults>>

Vanish ==
  /\ worker' = "down" /\ stop' = FALSE /\ slots' = 0 /\ due' = <<>>
  /\ pc' = [t \in Tasks |-> "none"] /\ checkedAt' = [t \in Tasks |-> 0]
  /\ inFlight' = {} /\ scheduled' = {} /\ locked' = {} /\ permits' = Concurrency
  /\ UNCHANGED <<table, now>>

Drained ==
  /\ worker = "drain"
  /\ \A t \in inFlight : pc[t] = "done"
  /\ Vanish
  /\ UNCHANGED faults

\* After 15 seconds the tasks still pending are cancelled; or the process dies.
DrainTimeout ==
  /\ worker = "drain"
  /\ \E t \in inFlight : Live(t)
  /\ Vanish
  /\ UNCHANGED faults

Crash ==
  /\ worker # "down"
  /\ Fault
  /\ Vanish

Restart ==
  /\ worker = "down"
  /\ worker' = "idle"
  /\ UNCHANGED <<table, now, stop, memory, faults>>

-----------------------------------------------------------------------------

Api(e) == Create(e) \/ SetEnabled(e) \/ SetInterval(e) \/ RequestForce(e) \/ Delete(e)
Tick == BeginTick \/ SelectDue \/ SkipNext \/ LaunchNext \/ EndTick
LocalStep(t) == Start(t) \/ Claim(t) \/ Acquire(t) \/ Record(t) \/ OnTaskDone(t)
Step(t) == LocalStep(t) \/ ProbeEnds(t) \/ Alert(t)
Shutdown == BeginDrain \/ Drained \/ DrainTimeout

Next ==
  \/ \E e \in Endpoints : Api(e)
  \/ ClockTick \/ RequestStop
  \/ Tick \/ TickFails
  \/ \E t \in Tasks : Step(t) \/ TaskFails(t)
  \/ Shutdown \/ Crash \/ Restart

Spec == Init /\ [][Next]_vars

\* asyncio runs every ready task and timer; docker-compose.yml says "restart:
\* unless-stopped".  Nothing is assumed of the servers that are probed, nor of
\* the webhook's: httpx limits each read of a response, not the whole.
Fairness ==
  /\ WF_vars(Tick) /\ WF_vars(Shutdown) /\ WF_vars(Restart)
  /\ \A t \in Tasks : WF_vars(LocalStep(t))

FairSpec == Spec /\ Fairness

\* Every response comes to an end.
ServersLetGo == \A t \in Tasks : WF_vars(ProbeEnds(t)) /\ WF_vars(Alert(t))

-----------------------------------------------------------------------------
(* Properties. *)

\* The type of every variable; slots and permits never leave 0..Concurrency,
\* so neither tick() nor the semaphore ever gives out what it does not have.
TypeOK ==
  /\ row \in [Endpoints -> Rows]
  /\ now \in Nat /\ apiCalls \in Nat /\ faults \in Nat
  /\ worker \in WorkerStates /\ stop \in BOOLEAN
  /\ slots \in 0..Concurrency /\ due \in Seq(Endpoints)
  /\ pc \in [Tasks -> TaskStates] /\ checkedAt \in [Tasks -> Nat]
  /\ inFlight \subseteq Tasks /\ scheduled \subseteq Endpoints
  /\ locked \subseteq Endpoints /\ permits \in 0..Concurrency

\* _scheduled names exactly the endpoints that have a task: an id left behind
\* would never be checked again, a task outside the set could be doubled.
ScheduledAreTasks ==
  \A e \in Endpoints :
    e \in scheduled <=> \E t \in Tasks : Ep(t) = e /\ pc[t] # "none"

\* The semaphore never makes a claimed check wait: its force request has been
\* consumed and its lock is held, so waiting there would delay it silently.
SemaphoreNeverBlocks == \A t \in Tasks : pc[t] = "ready" => permits > 0

\* No endpoint has two tasks, finished ones included.
OneTaskPerEndpoint ==
  \A t, u \in Tasks : Ep(t) = Ep(u) /\ pc[t] # "none" /\ pc[u] # "none" => t = u

\* A lock is held exactly while a task of the endpoint is inside it.
LocksAreHeld ==
  \A e \in Endpoints : e \in locked <=> \E t \in Tasks : Ep(t) = e /\ Holding(t)

\* A task leaves _in_flight only when it has finished.
InFlightCovers ==
  /\ \A t \in Tasks : Live(t) => t \in inFlight
  /\ \A t \in inFlight : pc[t] # "none"

\* A permit is out exactly for each probe under way.
Probing == {t \in Tasks : pc[t] = "probing"}
PermitsCount == permits + Cardinality(Probing) = Concurrency

\* The slots a tick has still to give away are free.
SlotsAreFree == IsFiniteSet(inFlight) /\ Cardinality(inFlight) + slots <= Concurrency

\* The next scheduled check is due an interval after the last one, unless a
\* PATCH has set the interval: it may have done so from an older copy.
NextFollowsLast ==
  \A e \in Endpoints :
    row[e].last = Never \/ row[e].tuned \/ row[e].next = row[e].last + row[e].interval

\* The inductive invariant behind the properties of this module.
IInv == /\ TypeOK /\ ScheduledAreTasks /\ OneTaskPerEndpoint /\ LocksAreHeld
        /\ InFlightCovers /\ PermitsCount /\ SlotsAreFree /\ NextFollowsLast

\* The scheduler implements CheckSlots: the tasks that have not finished never
\* include two of one endpoint, nor more than Concurrency.
Slots == INSTANCE CheckSlots WITH Limit <- Concurrency,
                                  running <- {t \in Tasks : Live(t)}
SlotsKept == Slots!Spec

\* However stale the selection a task was made from, a probe that nobody asked
\* for begins an interval after the previous one began, as long as no PATCH has
\* set the interval.
NoEarlyCheck ==
  [][\A t \in Tasks :
       LET r == row[Ep(t)]
       IN pc[t] = "claim" /\ pc'[t] = "ready"
            => r.force \/ r.last = Never \/ r.tuned \/ r.last + r.interval <= now]_vars

\* README: the worker "selects due or force-check endpoints, runs them".  As
\* long as slots are free, a tick selects endpoints that can use them.
SlotsUsed ==
  [][LET Waiting(S) == {e \in S : e \notin scheduled}
         want == Cardinality(Waiting({e \in Endpoints : Due(e)}))
         got == Cardinality(Waiting({due'[i] : i \in DOMAIN due'}))
     IN worker = "query" /\ worker' = "loaded"
          => got >= IF want < slots THEN want ELSE slots]_vars

\* Whatever is due gets checked, or stops being due, if no server holds a probe
\* or a webhook for ever.
DueServed == ServersLetGo => \A e \in Endpoints : Due(e) ~> ~Due(e)

\* A worker told to stop stops, even if a server holds its tasks.
StopsWhenTold == stop ~> worker = "down"
=============================================================================
