# API Monitor: TLA+ specifications and proofs

These modules specify the parts of the API monitor whose correctness depends on
order: what the scheduler of the worker does between two awaits, what a probe
may connect to and what its result is worth, what happens to a row that two
processes update from copies, what is left when a check dies between two
commits, what a client sees that reads results while they change, how the
launcher ends its children, which sessions the API accepts, and what the
dashboard shows when responses overtake each other. TLC checks them on small
instances; TLAPS proves every safety property of the runs for every instance.

    tlc -config worker_safety.cfg MCMonitorWorker      # any run listed below
    tlapm MonitorWorker_proofs.tla                     # any proof module

## The system

| Component | State | Operations | What is hard |
| --- | --- | --- | --- |
| Scheduler, `app/worker.py` | `_in_flight`, `_scheduled`, `_locks`, `_semaphore`, `_stop`; one asyncio task per check | `run`, `tick`, `_on_task_done`, `run_check`, `_execute_check`, `_drain`, signals | tasks interleave at awaits; a selection is stale when it is used; exceptions, cancellation, crash and restart |
| Rows and history, `app/store.py`, `app/models.py` | tables `endpoints`, `check_results` | create, PATCH, DELETE, force check, `record_check`, `prune_history` | API and worker both write a row from a copy loaded earlier; SQLite orders the commits and nothing else |
| Incidents, `app/store.py`, `app/alerts.py` | table `alert_events`, `consecutive_failures` | `maybe_create_alert`, `send_alert_webhook`, `record_webhook_delivery` | three separate commits per check and a remote receiver; a check can end between any two |
| REST handlers, `app/routes.py` | none of their own | CRUD, `POST .../check` with its poll, lists | a handler holds a row across DNS look-ups; a poll races its deadline and a probe under way |
| Paging and uptime, `app/store.py` | none of their own | `list_checks`, `latest_check_since`, `uptime_summary` | several statements and several requests, between which results are recorded and pruned |
| Launcher, `app/launch.py` | two child processes, `exit_reason`, `status` | `supervise`, its signal handler | signals interrupt any step; children exit, obey or ignore |
| HTTP probe, `app/checker.py` | none that outlives a check | `check`, `_probe`, `_drain_limited` | every operation may fail, time out or raise; a response may never end, nor bring anything; `checked_at` is taken first |
| Destination validation, `app/security.py` | none | `parse_url`, `is_blocked_ip`, `validate_destination` | DNS answers change; addresses hide in other addresses |
| Accounts, `app/auth.py` | `users`, `user_sessions`, a cookie per browser | sign-up, log-in, log-out, middleware, the account made at start-up | tabs share a cookie; two commits per sign-up; purge and middleware must agree on expiry |
| Dashboard, `app/static/app.js` | `selectedId`, `page`, rows shown | timer, clicks, `loadDetails` | refreshes overlap; responses come out of order; the selection is read again after an await |

The API process and the worker share nothing but the database file. The API
writes `endpoints` rows (a manual check is the flag `force_check`), the worker
polls for rows that are due, probes them, and writes results and events. The
launcher starts both in a single container; with docker compose each is its own
service.

`PROJECT.json` lists the hazards found in reading the code, each with its line
and with the properties that would catch it going wrong.

## Modules

### CheckSlots and MonitorWorker

`MonitorWorker` is the worker process. Its actions are what the code does
between two awaits:

| Action | Code |
| --- | --- |
| `BeginTick`, `SelectDue`, `SkipNext`, `LaunchNext`, `EndTick` | `tick()`: free slots, the awaited SELECT, one turn of the launch loop, its end. The loop has no await, so no task moves while `worker = "launch"` |
| `TickFails` | the SELECT raises, `run()` logs it and goes on |
| `Start` | `_guarded_check` and `run_check` up to the acquired lock |
| `Claim` | first session of `_execute_check`: re-read, due test, consume the force request |
| `Acquire`, `ProbeEnds` | the semaphore, `checker.check()` with `checked_at`, release; a server may hold the probe |
| `Record`, `Alert` | second session: row gone, `record_check`, then alerts |
| `TaskFails` | a session raises; `_guarded_check` logs it |
| `OnTaskDone` | the done callback: forgets *every* finished task, but one id |
| `RequestStop`, `BeginDrain`, `Drained`, `DrainTimeout` | signal handler, end of `run()`, `_drain` |
| `Crash`, `Restart` | death of the process, restart policy |
| `Create`, `SetEnabled`, `SetInterval`, `RequestForce`, `Delete`, `ClockTick` | the API process and time; `update_endpoint` without and with an interval |

The SELECT is modelled with its order and its LIMIT (`DueLists`). A task is a
pair of an endpoint and a copy number, so that the model could run two tasks of
one endpoint if the code let it. `Claim`, `Record` and the API calls are one step
each here; `EndpointRow` takes them apart. What a PATCH of the interval computes
from an old copy of the row appears here as a choice: `TunedNext` has every
`next_check_at` that `update_endpoint` may write, whichever earlier
`last_checked_at`, or none, the copy holds. The history variable `tuned` marks
the rows this has happened to.

`CheckSlots` is the abstract specification: checks begin and end, never two of
one endpoint, never more than `Limit` in all. `SlotsKept` states that
`MonitorWorker` implements it, with the tasks that have not finished as the
running checks.

### EndpointRow

One row and its history, two API requests and the worker's check. Every actor
keeps in `snap` or `jobSnap` the row it loaded, and `Flush` writes back what the
ORM would: the columns whose value differs from the loaded one. `Get` then
`Ask` and `CommitAsk` (`requested_at` is read before the COMMIT), `Patch` or
`Delete` are the two halves of a handler; `CheckReads` to `CheckRecords` are the
steps of `_execute_check` with its two sessions.
`record_check` is one transaction with `prune_history` in it; the results are a
set, and insert, pruning and poll are the operators of `History`. That the worker
runs one check of an endpoint at a time is what `MonitorWorker` shows; readings
of the clock are all different.

A PATCH of the interval that commits with an old copy can set `next_check_at` to
the present although the endpoint has just been checked, and so cause an early
check; nothing in the documents forbids it. `NextFollowsLast` says how far the
damage goes: the first check that is recorded on a row loaded after the PATCH
puts the schedule right. The history variable `tuned` says whether that is still
to come.

### Destinations, Probe, History and Monitoring

`Destinations` is `app/security.py` without state: a hostname and an address are
represented by the classes the code tells apart, and an IPv6 address may hold an
IPv4 address of any class (`Forms`). `Parses`, `IsBlocked` and `Validates` are
`parse_url`, `is_blocked_ip` and `validate_destination`. Which name or network
belongs to which class is not modelled.

`Probe` takes `HttpChecker.check` from one await to the next:

| Action | Code |
| --- | --- |
| `Claim` (in `Monitoring`), `Start` | the first session, which needs the row; `checked_at`, before anything else, when the row may be gone |
| `Validate`, `Connect` | `validate_destination` with the answer DNS gives now; the connection to `request_url`, which holds an address |
| `Read` | one read of the connection; httpx's timeout limits each of them, not their sum |
| `ReadAgain` | the read brought nothing that `checker.py` sees: a part of a head, an informational response, data that decodes to nothing |
| `Respond`, `Receive`, `Count`, `EndOfBody` | the head of the response; `_drain_limited` chunk by chunk, in decoded bytes |
| `Close` | the end of both `async with` blocks, which may raise too |
| `Fail` | the exceptions that `check` and `_probe` turn into a DOWN |
| `Raise` | any other, which `_execute_check` turns into a DOWN with a time of its own |

`seenAt` and `peers` are history variables: when the network settled the
outcome, and what the probe connected to.

`History` has the queries of `app/store.py` as operators on a set of results:
`Recorded` is the insert of `record_check` with `prune_history`, `Page` is
`list_checks`, `Latest` is `latest_check_since`. `EndpointRow` records with it,
and `Monitoring` reads too.

`Monitoring` composes the two. One client reads, either page after page
(`OpenWalk`, `ReadPage`, `OpenPage`) or the two counts of the uptime
(`OpenUptime`, `CountTotal`, `CountUp`); another asks for a check and polls
(`Ask`, `Poll`). The statements of a handler are steps of their own, since
SQLite opens no transaction for a SELECT and the worker commits in between. When
the worker probes is left open here. `Lose` cuts a check short, `Delete` removes
the endpoint with its results.

### IncidentLog and Incidents

`IncidentLog` is the abstract specification: an incident is opened and closed in
turn, the result of a delivery is noted once, for the newest event, and the log
of a deleted endpoint stays empty. `LogKept` states that `Incidents` implements
it, with `Open`, the number of events, those with a noted delivery (`Settled`)
and the absence of the endpoint as its variables.

`Incidents` has one endpoint's streak and events. `Record`, `Decide`, `Post` and
`RecordDelivery` are the four places where a check can be cut short. The
receiver of the webhook is outside: `accepted` holds the events it took, which
the worker may not learn of. It assumes that `utcnow()` does not run backwards.

### Launcher

`supervise()` as a main thread that a signal handler may interrupt between any
two steps, and children of which nothing is assumed. Between `Spawn` and `Install`
all children run and the handlers are installed one after the other: a signal may
find its handler, or end the launcher (`EarlySignal`). How long a wait lasts is
not modelled: it may run out at any time, the one after `kill()` too
(`KillTimesOut`), and then `supervise()` raises.

### Sessions

The tabs of a browser share its cookie, and each has one call under way: it is
sent with the cookie of that moment, handled in the commits the code makes
(`CreateUser` or `Authenticate`, then `Issue`; or the middleware's `Check`, then
`Logout` or `Use`), and answered (`LoggedIn`, `LoggedOut`) or lost at any point
(`OtherEnd`). `Restart` ends the API process with every call in it and starts it
again; the lifespan may then make the account of `APP_USERNAME` (`Bootstrapped`).
The history variable `ended` holds the tokens whose log-out has been answered.
Tokens are numbers, since `token_urlsafe` does not repeat one.

### Dashboard

The detail panel in the browser. Up to `Loads` refreshes overlap, started by
clicks, forms and the timer; each runs from one await to the next (`list`,
`detail`, `history`) and reads the selection and the page again at each request,
as `loadDetails` does. `Answered` lets a response speak of any moment since its
request was sent.

### Definitions that no action uses

Beside some definitions stands a variant of the same form (`ReturnLocked` and
`Return`, `ForgottenIds` and `ForgottenId`, ...). The variant is a plausible
mistake at that place of the code. Substituting it must break the property that
`PROJECT.json` pairs it with, which shows that the property is about the code
and not about the shape of the model.

## Runs

| Run | Instance | Shows |
| --- | --- | --- |
| `worker_safety` | 2 endpoints, concurrency 2, interval 2, clock to 2, 1 API write, 1 fault; 1 080 000 states | `TypeOK`, `IInv`, `ScheduledAreTasks`, `SemaphoreNeverBlocks`, `SlotsKept`, `NoEarlyCheck` |
| `worker_liveness` | 2 endpoints, concurrency 1, clock to 1, 1 API write, 1 fault; 87 000 states | `DueServed`, `StopsWhenTold` |
| `worker_slots_used` | 3 endpoints, concurrency 3 | `SlotsUsed` fails (see Findings) |
| `endpoint_row` | 2 requests of any kind, intervals 1 and 3, 2 days and 2 records of history, clock to 4, 1 crash; 2 460 000 states | `RowMatchesHistory`, `NoOrphans`, `NeverParked`, `NextFollowsLast`, `FirstRequestOwed`, `TotalNeverDecreases`, `ConfigSurvives` |
| `endpoint_lost_request` | the same | `ExplicitCheckRuns` fails (see Findings) |
| `incidents` | threshold 2, 8 results, 2 crashes, 1 deletion; 74 000 states | `IInv`, `Alternating`, `IncidentTracked`, `DeliveredWasAccepted`, `ResultHandled`, `LogKept` |
| `incidents_missed_recovery` | the same | `EveryReturnReported` fails (see Findings) |
| `monitoring` | 1 URL that can be registered and 4 that cannot, 5 answers of DNS, bodies in chunks of 1 or 3 bytes with a limit of 2, clock to 4, retention 3, 3 records, pages of 1, window 2, one client busy at a time; 293 000 states | `ConnectsToPermitted`, `FreshAnswer`, `WalkMissesNothing`, `NoFalseDowntime`, `CountedProbesEnd` |
| `launcher` | 3 children, exit codes 0 and 7, 2 signals; 9 400 states | `NoneLeftBehind`, `AskedBeforeKilled`, `UnexpectedExitReported`, `ShutdownEnds` |
| `launcher_signal_status` | the same | `SignalIsSuccess` fails (see Findings) |
| `sessions` | 2 tabs of one browser, 1 of another, 2 names, 2 sessions, lifetime 2, clock to 2, restarts; 1 590 000 states | `SessionsLast`, `LogoutIsFinal` |
| `dashboard` | 2 endpoints, 2 pages, 2 refreshes at a time, 3 clicks or deletions elsewhere, 1 failed request; 167 000 states | `PanelSettles`, `DeletionSettles` |

Why the bounds are enough. In `worker_safety` two endpoints and two slots let
two tasks overlap at every pair of steps, finish before either callback has
run, and be selected again; the clock lets an endpoint be checked, become due
again and be checked a second time; the fault may be an exception, a stop or a
crash at any point. In `worker_liveness` one slot for two endpoints makes them
wait for each other. Two requests are what a lost update takes, and with the
check there are three writers; two records and two days of history let both
limits of the pruning bite; intervals 1 and 3 make a stale interval visible.
(`worker_safety` has a single interval to stay small: there a PATCH changes
`next_check_at` alone. The theorem covers the others.)
Eight results and threshold 2 allow two full incidents with two checks lost.
In `monitoring` the clock allows four results, one more than the cap: one can come
while the client is between two of its pages, and the last prunes the oldest. A
result can leave the window between the two counts; a manual check can be asked
for in the middle of one probe and be answered by the next. The client that reads
and the one that asks are not busy at the same time (`Overlap`): they change
nothing and share nothing but the results, and the theorems cover both at once. The limit of 2 bytes is reached
in one chunk, in two or not at all; DNS answers with public addresses, with a
mixture, with tunnels, or with nothing. A URL that names a public address
behaves like a name with one answer; the theorems cover it.
Three children give the launcher's loops a first, a middle and a last one.
In `sessions`, two sessions are one to expire and one whose log-in purges it,
or one to log out from two tabs at once; the clock reaches the boundary between
them. In `dashboard`, two refreshes are what it takes for a response to overtake
another, and three clicks select, change the selection and change the page.
Symmetry is used for safety runs only, over endpoints and copies, requests, or
the tabs of one browser and names, which no action tells apart. `CHECK_DEADLOCK FALSE` stands where the bounds, or
the return of `supervise()`, end every behaviour.

### Fairness

`MonitorWorker`: weak fairness of the steps of `tick()`, of the steps of each
task, of the drain and of the restart. asyncio runs every task and timer that is
ready; SQLite calls end, if need be by their timeout; `docker-compose.yml`
restarts the worker unless it is stopped. There is none for `ProbeEnds` and
`Alert`, which need an answer of a server: httpx limits each read of it, not the
whole. `StopsWhenTold` holds though servers hold every task for ever, since the
drain cancels them. `DueServed` does not, and has a premise instead: no server
does so (`ServersLetGo`). There is none for the clock, the API, faults or
crashes, all of which are bounded or optional.
A stopped clock makes `DueServed` stronger: what is due by then must be served
without waiting for later ticks of time.

`Monitoring`: weak fairness of the probe under way and of recording its outcome.
Each network operation ends, if need be by its timeout; look-ups by the
resolver's own. What it brings is the server's choice. Chunks may come for ever:
they are counted, and the count ends the probe. Reads that bring nothing the code
counts may come for ever too, and they keep the probe: informational responses
or a head without an end, and data that decodes to nothing, since httpx decodes
whatever `Content-Encoding` the response declares. `CountedProbesEnd` says that
only these do. None for the worker's start of a probe, the clients or the clock.

`Launcher`: weak fairness of the main thread, whose waits have time-outs. None
for the children, nor for SIGKILL: `supervise()` ends even if the kernel takes
more than five seconds to end a child, by an exception.

`Dashboard`: weak fairness of the timer, since `setInterval` keeps firing, and of
each refresh, whose requests are answered or fail. None for the user.
`PanelSettles` and `DeletionSettles` speak of behaviours in which the user leaves
the selection and the page alone in the end, and in which the timer was started:
`startTimer` is not called when the first `/api/auth/me` fails.

## Findings

- **Selected rows that cannot start use up the LIMIT** (`worker_slots_used`).
  `tick()` selects `slots * 2` rows; rows whose check is under way are still due
  and come first. With enough of them a tick with free slots starts nothing. The
  waiting endpoint is served when a check ends, that is, when a server lets go
  of a probe (`DueServed`).
- **A manual check can vanish** (`endpoint_lost_request`). A request that loads
  the row while `force_check` is set, and commits after the worker consumed it,
  changes nothing in the eyes of the ORM. `FirstRequestOwed` is what does hold: a
  request that loaded the row with the flag clear has its result or is sure of
  one, as long as the worker does not crash.
- **A recovery can go unreported** (`incidents_missed_recovery`). If the check
  that records an UP dies before `maybe_create_alert`, and the next is DOWN, the
  incident stays open across the return. `ResultHandled` is what does hold: each
  check that runs to its end sets the record straight for its own result.
- **An obeyed signal can look like a failure** (`launcher_signal_status`): when
  the signal falls between the loop's test and its poll.

## Proofs

| Module | About | States |
| --- | --- | --- |
| `MonitorWorker_proofs` | scheduler | the invariants, `SlotsKept`, `NoEarlyCheck`, `StopIsShort` |
| `EndpointRow_proofs` | row and results under concurrent writers | all properties of `endpoint_row` |
| `History_proofs` | ranks, pages, pruning | lemmas for `EndpointRow_proofs` and `Monitoring_proofs` |
| `Monitoring_proofs` | probe, results and readers | the safety properties of `monitoring`, `OnlyEmptyReadsProlong` |
| `Incidents_proofs` | incident log | all properties of `incidents` |
| `Sessions_proofs` | session store | `IInv`, and all properties of `sessions` |
| `Launcher_proofs` | `supervise()` | the safety properties of `launcher`, `ShutdownIsShort` |
| `Dashboard_proofs` | detail panel | `TypeOK`, `PanelIsReal` |

Nothing is assumed beyond the ASSUMEs of the modules: concurrency, intervals,
threshold, cap, page size and the number of children are positive; retention and
bounds are in Nat, and `Monitoring` has a retention no shorter than the window of
the uptime; endpoints are finitely many. Requests, copies, URLs, answers, tabs,
browsers, names and refreshes are any sets.

**Scheduler.** None of the properties is inductive alone. `ScheduledAreTasks`
needs that an endpoint has at most one task, finished ones included, since a
callback discards the id; that needs `Startable` to refuse an endpoint with any
task, which is `ScheduledAreTasks` again. `SemaphoreNeverBlocks` is a count: the
permits out are the probing tasks (`PermitsCount`), these and the claimed one are
in `_in_flight` (`InFlightCovers`), and `_in_flight` with the slots a tick still
has to give stays within the concurrency (`SlotsAreFree`). `IInv` is their
conjunction with the locks (`LocksAreHeld`) and with `NextFollowsLast`, from
which `NoEarlyCheck` follows: a claim sees the row as it is, and a row that is
due was last checked an interval ago, or its interval has been set by a PATCH
(`tuned`), of whose copy this module knows nothing. One lemma per action shows that it keeps
`IInv`. For the refinement each step is classified by what it does to the set of
live tasks: nothing, one more (and then `BeginAllowed` gives the guards of
`CheckSlots!Begin`), or some fewer.

**Rows and results.** The hazard is a stale copy: a request writes from a row that
others have changed. What saves the counters is that only a check writes them
(`ConfigWritten` holds of every other step) and that checks of one endpoint do not
overlap; so the copy of the second session is exact when it records (`Loaded`),
however old those of the requests are. `Dated` puts the results, the check under
way and the clock in order; it makes a new result the newest, and makes it late
enough for the requests it answers. That `consecutive_failures` remains the run of
DOWNs at the end of what pruning leaves is `TrailingRecorded`: pruning keeps, with
a result, every newer one (`RecordedUpwards`), so if the run gets shorter than the
counter nothing but the run is left. A request that loaded the flag clear sets it
for certain (`AskWrites`); from there `FirstRequestOwed` follows the flag to the
claim that clears it, to the stamp taken after that claim, and to the result with
that stamp, which the pruning of its own record never removes. A row loaded with the
flag set is the case of `ExplicitCheckRuns`, and there the first step fails.
`NeverParked` needs that a copy of `last_checked_at` is never ahead of the row's.
`NextFollowsLast` (`SpacingRestored`) needs that the copy of the second session
has the row's interval and `next_check_at` unless a PATCH has committed since it
was loaded (`Loaded`): then the flush of `record_check` leaves the two consistent,
whichever of them it finds unchanged and so does not write.

**Incidents.** Between `Record` and `Decide` the streak is one result ahead of
the events; `HalfTracked` says by how much. With it `IncidentTracked` is
inductive. `Alternating` needs only that `Decide` opens a closed log and closes
an open one. `ResultHandled` follows from what `Decide` does in a state of `IInv`.

`DeliveredWasAccepted` needs `Pending`: the event whose webhook is on its way is
the newest, and nothing has been noted of it yet, even if an earlier check died
with its own event unnoted. `Pending` is also what makes `RecordDelivery` a
`Settles` of the abstract log; `Decide` is a `Turns` because of `Alternating`,
and every other step is a stutter or the deletion (`LogStep`).

**Probes, results and readers.** `Monitoring_proofs.IInv` has a part for each
property. `Vetted`: the addresses of a probe are the whole of one validated
answer, and it connects to the first. That `IsBlocked` leaves nothing but
`Permitted` addresses is `AllowedArePermitted`, by cases on form and class.
`Dated`: a probe is stamped after every result that is known, and settled after
its stamp; so no two results have the same time, and what is at or after the
request was seen after it. `WalkOn`: what the walk has still to find has a rank
beyond the pages it has passed. A new result moves the others back by one and
pruning removes only what ranks behind, so that ranks never fall: this is
`RecordedRank` of `History_proofs`, where ranks are cardinalities. That a page
which is not full is the last, and that the table never exceeds the cap, need a
result with the greatest rank, which is the least element of a set of naturals.
`UptimeOn`: what was counted first, and is still there, is in the window of the
second count, because both use the same start.

**Sessions.** `LogoutIsFinal` needs to know that no session in the table has a
token of `ended`; a new one does not, because tokens and `ended` stay within what
was issued (`TokensTracked`), and a token that joins `ended` was deleted when the
log-out was handled, before its answer (`LogoutDone`), which in turn needs that
an admitted call has a token (`CallsComplete`). A restart forgets the calls and
keeps the tables. `SessionsLast` looks at the
steps that remove sessions: the purge takes expired ones only, the log-out its
own.

**Launcher.** The handler may run between any two steps, so the proof says for
each place of the main thread what `exit_reason` can be there (`Reasons`), and
that a handler leaves no child without its signal (`AllForwarded`; all children
exist once handlers are installed). `StoppedSoFar` and `WaitedSoFar` are the
loop invariants of the two loops over the processes, which hold for children that
end at any time; at the end of the first stands `AskedBeforeKilled`, at the end
of the second `NoneLeftBehind`.

**Dashboard.** `Asking`: a refresh asks for the details of an endpoint, never of
null. Its second request reads the selection again and may be for null, but that
one is not answered, so that `Rendered` holds: the panel shows an endpoint and a
page, even if it mixes those of two refreshes for a while.

**Short of liveness.** The provers here cannot show that something happens. For
three of the liveness properties the theorems have their safety half, a number
that bounds the steps still to come, and what lowers it. `TurnsLeft` after a stop
(`StopIsShort`) and `StepsLeft` of the launcher (`ShutdownIsShort`) are lowered by
every step of the process in question; `OperationsLeft` of a probe
(`OnlyEmptyReadsProlong`) by every step but the reads that bring nothing counted.
With the fairness above, which makes a step come, they are `StopsWhenTold` up to
the drain, `ShutdownEnds` and `CountedProbesEnd`; that last inference is TLC's, on
the instances of the runs.

Only model-checked: the liveness properties `DueServed`, `StopsWhenTold`,
`CountedProbesEnd`, `ShutdownEnds`, `PanelSettles`, `DeletionSettles`. `IInv` of
`Sessions` is proved and not among the properties of its run.

## Not modelled

Schemas and settings are functions of one value: lengths, patterns, ranges. So
is the classification of single names and networks in `app/security.py`. Message
texts, status codes and latencies of results do not influence control; the URL
of an endpoint does not change in `Monitoring`. The lists of endpoints and alerts
and `/health` are single statements that change nothing; the total of a page is
left out. Durations are replaced by events that may come at any time, so the
budget that the launcher's children share is not measured. `DueServed` does not
speak of an endless stream of manual checks, since API writes are bounded. The
wall clock does not run backwards, and no two readings are equal where results
are compared. Password hashing and `AUTH_REQUIRED=false` are left out of
`Sessions`; the list, the alerts and the forms of the page out of `Dashboard`, as
is the 401 that leaves the page.

Some behaviours are in the models, but no document promises their absence, so
no property forbids them: a sign-up that fails between its two commits leaves an
account without a session; a request that has passed the middleware goes on
after the log-out of its session; a response that comes after the panel was
closed opens it again; a result recorded between the two counts of the uptime is
in the second alone, so that the percentage can exceed 100; a probe whose body
breaks off is recorded as a DOWN without the status it had received; a PATCH of the
interval that loaded the row before a check can make the next check come early; a
child that survives its SIGKILL for five seconds makes `supervise()` raise, with
the children after it not waited for.

One divergence from the documents has no run of its own. `README.md` calls
`REQUEST_TIMEOUT_SECONDS` the "Per-probe timeout" (`src/README.md:200`), but
`httpx.Timeout` limits each operation and not the look-up: a probe lasts as long
as its server makes the reads last, and for ever if they bring nothing that is
counted. `Probe` has these behaviours; `CountedProbesEnd` and the premise of
`DueServed` are worded accordingly. The webhook's answer is no different.

## Plan

1. Done: `CheckSlots`, `MonitorWorker`, `EndpointRow`, `IncidentLog`,
   `Incidents`, `Destinations`, `Probe`, `History`, `Monitoring`, `Launcher`,
   `Sessions`, `Dashboard`.
2. Done: proofs of every invariant and of every safety action property of the
   runs, of both refinements, and of the bounds behind three liveness properties.
3. Proofs: a bound on how long a due endpoint waits, in checks that end
   (`DueServed` short of liveness).
4. A clock that may step back in `Incidents`; the list, the alerts and the forms
   of the dashboard.
