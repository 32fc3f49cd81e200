------------------------ MODULE MonitorWorker_proofs ------------------------
(* What the scheduler guarantees for every set of endpoints, every            *)
(* CHECK_CONCURRENCY and all intervals.  The argument is the inductive       *)
(* invariant IInv of MonitorWorker.                                           *)
EXTENDS MonitorWorker, FiniteSetTheorems, TLAPS

\* A task belongs to an endpoint.
LEMMA EpType == \A t \in Tasks : Ep(t) \in Endpoints
BY DEF Tasks, Ep

\* The part of IInv that speaks of the tasks only.
Core == /\ ScheduledAreTasks /\ OneTaskPerEndpoint /\ LocksAreHeld
        /\ InFlightCovers /\ PermitsCount

TaskVars == <<pc, scheduled, locked, inFlight, permits>>

\* What the invariant says of tasks, locks and permits depends on these
\* variables only.
LEMMA CoreStutter ==
  ASSUME Core, UNCHANGED TaskVars
  PROVE  Core'
<1>1. UNCHANGED <<pc, scheduled, locked, inFlight, permits>>
  BY DEF TaskVars
<1>2. Probing' = Probing
  BY <1>1 DEF Probing
<1>3. PermitsCount'
  BY <1>1, <1>2 DEF Core, PermitsCount
<1>4. ScheduledAreTasks' /\ OneTaskPerEndpoint'
  BY <1>1 DEF Core, ScheduledAreTasks, OneTaskPerEndpoint
<1>5. LocksAreHeld' /\ InFlightCovers'
  BY <1>1 DEF Core, LocksAreHeld, InFlightCovers, Holding, Live
<1> QED
  BY <1>3, <1>4, <1>5 DEF Core

\* Cardinalities when a finite set gains or loses one element.
LEMMA Counting ==
  ASSUME TypeOK, InFlightCovers, SlotsAreFree
  PROVE  /\ Probing \subseteq inFlight
         /\ IsFiniteSet(Probing)
         /\ Cardinality(Probing) \in Nat
         /\ Cardinality(inFlight) \in Nat
         /\ Cardinality(inFlight) <= Concurrency
<1>1. Probing \subseteq inFlight
  BY DEF InFlightCovers, Probing, Live
<1>2. IsFiniteSet(inFlight)
  BY DEF SlotsAreFree
<1>3. IsFiniteSet(Probing) /\ Cardinality(Probing) \in Nat /\ Cardinality(inFlight) \in Nat
  BY <1>1, <1>2, FS_Subset, FS_CardinalityType
<1>4. slots \in Nat
  BY ConcurrencyAssumption DEF TypeOK
<1>5. Cardinality(inFlight) <= Concurrency
  BY <1>3, <1>4, ConcurrencyAssumption DEF SlotsAreFree
<1> QED
  BY <1>1, <1>3, <1>5

\* The worker starts with the invariant.
LEMMA InitIInv == Init => IInv
<1> SUFFICES ASSUME Init PROVE IInv
  OBVIOUS
<1>1. TypeOK
  <2>1. row \in [Endpoints -> Rows]
    BY IntervalsAssumption DEF Init, Rows
  <2>2. pc \in [Tasks -> TaskStates] /\ checkedAt \in [Tasks -> Nat]
    BY DEF Init, TaskStates
  <2>3. slots \in 0..Concurrency /\ permits \in 0..Concurrency /\ due \in Seq(Endpoints)
    BY ConcurrencyAssumption DEF Init
  <2> QED
    BY <2>1, <2>2, <2>3 DEF Init, TypeOK, WorkerStates
<1>2. Probing = {}
  BY DEF Init, Probing
<1>3. PermitsCount
  BY <1>2, FS_EmptySet, ConcurrencyAssumption DEF Init, PermitsCount
<1>4. ScheduledAreTasks /\ OneTaskPerEndpoint /\ LocksAreHeld /\ InFlightCovers
  BY DEF Init, ScheduledAreTasks, OneTaskPerEndpoint, LocksAreHeld, InFlightCovers,
         Holding, Live
<1>5. SlotsAreFree
  BY FS_EmptySet, ConcurrencyAssumption DEF Init, SlotsAreFree
<1>6. NextFollowsLast
  BY DEF Init, NextFollowsLast
<1> QED
  BY <1>1, <1>3, <1>4, <1>5, <1>6 DEF IInv

-----------------------------------------------------------------------------
(* Steps that leave the tasks alone. *)

\* POST /api/endpoints keeps the invariant.
LEMMA CreateIInv ==
  ASSUME IInv, NEW e \in Endpoints, Create(e)
  PROVE  IInv'
<1>1. TypeOK'
  BY DEF IInv, TypeOK, Create, memory, Rows, Never
<1>2. Core'
  BY CoreStutter DEF IInv, Core, TaskVars, Create, memory
<1>3. SlotsAreFree'
  BY DEF IInv, SlotsAreFree, Create, memory
<1>4. NextFollowsLast'
  BY DEF IInv, TypeOK, NextFollowsLast, Create
<1> QED
  BY <1>1, <1>2, <1>3, <1>4 DEF IInv, Core

\* A call that changes a row keeps the invariant if the new row is one, with
\* the same next, last and interval, or one whose interval a PATCH has set.
LEMMA ApiWriteIInv ==
  ASSUME IInv, NEW e \in Endpoints, NEW new \in Rows,
         \/ new.tuned
         \/ /\ new.next = row[e].next /\ new.last = row[e].last
            /\ new.interval = row[e].interval /\ new.tuned = row[e].tuned,
         ApiWrite(e, new)
  PROVE  IInv'
<1>1. TypeOK'
  BY DEF IInv, TypeOK, ApiWrite, memory
<1>2. Core'
  BY CoreStutter DEF IInv, Core, TaskVars, ApiWrite, memory
<1>3. SlotsAreFree'
  BY DEF IInv, SlotsAreFree, ApiWrite, memory
<1>4. NextFollowsLast'
  BY DEF IInv, TypeOK, NextFollowsLast, ApiWrite
<1> QED
  BY <1>1, <1>2, <1>3, <1>4 DEF IInv, Core

\* No API call disturbs the scheduler.
LEMMA ApiIInv ==
  ASSUME IInv, NEW e \in Endpoints, Api(e)
  PROVE  IInv'
<1> row[e] \in Rows
  BY DEF IInv, TypeOK
<1>1. CASE Create(e)
  BY <1>1, CreateIInv
<1>2. CASE SetEnabled(e)
  <2> DEFINE new == [row[e] EXCEPT !.enabled = ~row[e].enabled]
  <2>1. /\ new \in Rows /\ new.next = row[e].next /\ new.last = row[e].last
        /\ new.interval = row[e].interval /\ new.tuned = row[e].tuned
    BY DEF Rows
  <2> QED
    BY <1>2, <2>1, ApiWriteIInv DEF SetEnabled
<1>3. CASE RequestForce(e)
  <2> DEFINE new == [row[e] EXCEPT !.force = TRUE]
  <2>1. /\ new \in Rows /\ new.next = row[e].next /\ new.last = row[e].last
        /\ new.interval = row[e].interval /\ new.tuned = row[e].tuned
    BY DEF Rows
  <2> QED
    BY <1>3, <2>1, ApiWriteIInv DEF RequestForce
<1>4. CASE Delete(e)
  <2> DEFINE new == [row[e] EXCEPT !.status = "deleted"]
  <2>1. /\ new \in Rows /\ new.next = row[e].next /\ new.last = row[e].last
        /\ new.interval = row[e].interval /\ new.tuned = row[e].tuned
    BY DEF Rows
  <2> QED
    BY <1>4, <2>1, ApiWriteIInv DEF Delete
<1>5. CASE SetInterval(e)
  <2>1. PICK i \in Intervals, on \in BOOLEAN : \E next \in TunedNext(e, i) :
          ApiWrite(e, [row[e] EXCEPT !.interval = i, !.next = next, !.enabled = on,
                                     !.tuned = TRUE])
    BY <1>5 DEF SetInterval
  <2>2. PICK next \in TunedNext(e, i) :
          ApiWrite(e, [row[e] EXCEPT !.interval = i, !.next = next, !.enabled = on,
                                     !.tuned = TRUE])
    BY <2>1
  <2>3. next \in Nat
    BY IntervalsAssumption DEF IInv, TypeOK, TunedNext
  <2> DEFINE new == [row[e] EXCEPT !.interval = i, !.next = next, !.enabled = on,
                                   !.tuned = TRUE]
  <2>4. new \in Rows /\ new.tuned
    BY <2>3 DEF Rows
  <2> QED
    BY <2>2, <2>4, ApiWriteIInv
<1> QED
  BY <1>1, <1>2, <1>3, <1>4, <1>5 DEF Api

\* Neither does the clock.
LEMMA ClockTickIInv == IInv /\ ClockTick => IInv'
<1> SUFFICES ASSUME IInv, ClockTick PROVE IInv'
  OBVIOUS
<1>1. TypeOK'
  BY DEF IInv, TypeOK, ClockTick, memory, table
<1>2. Core'
  BY CoreStutter DEF IInv, Core, TaskVars, ClockTick, memory
<1>3. SlotsAreFree' /\ NextFollowsLast'
  BY DEF IInv, SlotsAreFree, NextFollowsLast, ClockTick, memory, table
<1> QED
  BY <1>1, <1>2, <1>3 DEF IInv, Core

\* RequestStop, BeginDrain and Restart only move run() along.
LEMMA ControlIInv ==
  ASSUME IInv, UNCHANGED <<table, now, memory>>,
         worker' \in WorkerStates, stop' \in BOOLEAN, faults' \in Nat
  PROVE  IInv'
<1>1. TypeOK'
  BY DEF IInv, TypeOK, memory, table
<1>2. Core'
  BY CoreStutter DEF IInv, Core, TaskVars, memory
<1>3. SlotsAreFree' /\ NextFollowsLast'
  BY DEF IInv, SlotsAreFree, NextFollowsLast, memory, table
<1> QED
  BY <1>1, <1>2, <1>3 DEF IInv, Core

\* A step of tick() that starts no task may lower slots and change due.
LEMMA TickStepIInv ==
  ASSUME IInv, UNCHANGED <<table, now, stop, TaskVars, checkedAt>>,
         worker' \in WorkerStates, due' \in Seq(Endpoints), faults' \in Nat,
         slots' \in 0..Concurrency, Cardinality(inFlight) + slots' <= Concurrency
  PROVE  IInv'
<1>1. TypeOK'
  BY DEF IInv, TypeOK, TaskVars, table
<1>2. Core'
  BY CoreStutter DEF IInv, Core
<1>3. SlotsAreFree' /\ NextFollowsLast'
  BY DEF IInv, SlotsAreFree, NextFollowsLast, TaskVars, table
<1> QED
  BY <1>1, <1>2, <1>3 DEF IInv, Core

\* What the SELECT returns is a sequence of endpoints.
LEMMA DueListsType ==
  ASSUME NEW n \in Nat
  PROVE  DueLists(n) \subseteq Seq(Endpoints)
<1> DEFINE D == {e \in Endpoints : Due(e)}
           size == Cardinality(D)
<1>1. size \in Nat
  BY EndpointsAssumption, FS_Subset, FS_CardinalityType
<1>2. SUFFICES ASSUME NEW q \in [1..size -> D]
               PROVE  SubSeq(q, 1, IF n < size THEN n ELSE size) \in Seq(Endpoints)
  BY DEF DueLists
<1>3. D \subseteq Endpoints
  OBVIOUS
<1> HIDE DEF D, size
<1>4. q \in Seq(Endpoints) /\ Len(q) = size
  BY <1>1, <1>3
<1>5. (IF n < size THEN n ELSE size) \in 0..size
  BY <1>1
<1> QED
  BY <1>1, <1>4, <1>5

\* The steps of tick() that start no task keep the invariant.
LEMMA TickIInv ==
  ASSUME IInv, BeginTick \/ SelectDue \/ TickFails \/ SkipNext \/ EndTick
  PROVE  IInv'
<1> USE ConcurrencyAssumption
<1>1. Cardinality(inFlight) \in Nat /\ Cardinality(inFlight) <= Concurrency
  BY Counting DEF IInv
<1>2. /\ slots \in 0..Concurrency /\ faults \in Nat /\ due \in Seq(Endpoints)
      /\ Cardinality(inFlight) + slots <= Concurrency
  BY DEF IInv, TypeOK, SlotsAreFree
<1>3. CASE BeginTick
  <2>1. slots' = Concurrency - Cardinality(inFlight)
    BY <1>3 DEF BeginTick, FreeSlots
  <2>2. /\ UNCHANGED <<table, now, stop, TaskVars, checkedAt>>
        /\ worker' \in WorkerStates /\ due' \in Seq(Endpoints) /\ faults' \in Nat
    BY <1>2, <1>3 DEF BeginTick, TaskVars, WorkerStates
  <2> QED
    BY <1>1, <2>1, <2>2, TickStepIInv
<1>4. CASE SelectDue
  <2>1. due' \in Seq(Endpoints)
    BY <1>2, <1>4, DueListsType DEF SelectDue
  <2> QED
    BY <1>2, <1>4, <2>1, TickStepIInv DEF SelectDue, TaskVars, WorkerStates
<1>5. CASE TickFails
  BY <1>1, <1>2, <1>5, TickStepIInv DEF TickFails, Fault, TaskVars, WorkerStates
<1>6. CASE SkipNext
  <2>1. due' \in Seq(Endpoints)
    BY <1>2, <1>6 DEF SkipNext, Looping
  <2> QED
    BY <1>2, <1>6, <2>1, TickStepIInv DEF SkipNext, TaskVars, WorkerStates
<1>7. CASE EndTick
  <2>1. due' \in Seq(Endpoints)
    BY <1>7 DEF EndTick
  <2> QED
    BY <1>1, <1>2, <1>7, <2>1, TickStepIInv DEF EndTick, TaskVars, WorkerStates
<1> QED
  BY <1>3, <1>4, <1>5, <1>6, <1>7

\* Nor does a stuttering step change it.
LEMMA StutterIInv == IInv /\ UNCHANGED vars => IInv'
<1> SUFFICES ASSUME IInv, UNCHANGED vars PROVE IInv'
  OBVIOUS
<1> QED
  BY ControlIInv DEF IInv, TypeOK, vars, table, memory

-----------------------------------------------------------------------------
(* The launch of a task. *)

\* Starting a task keeps the invariant: its endpoint had none, and a slot was
\* free.
LEMMA LaunchNextIInv ==
  ASSUME IInv, LaunchNext
  PROVE  IInv'
<1> USE EpType, ConcurrencyAssumption
<1>1. PICK t \in Tasks :
        /\ Ep(t) = Head(due) /\ pc[t] = "none"
        /\ pc' = [pc EXCEPT ![t] = "new"]
        /\ inFlight' = inFlight \cup {t}
  BY DEF LaunchNext
<1>2. /\ slots > 0 /\ slots' = slots - 1 /\ due # <<>> /\ due' = Tail(due)
      /\ scheduled' = scheduled \cup {Ep(t)} /\ Ep(t) \notin scheduled
      /\ UNCHANGED <<table, now, stop, checkedAt, locked, permits, faults>>
      /\ worker' = "launch"
  BY <1>1 DEF LaunchNext, Looping, Startable
<1>3. TypeOK
  BY DEF IInv
<1>4. \A u \in Tasks : Ep(u) = Ep(t) => pc[u] = "none"
  BY <1>2 DEF IInv, ScheduledAreTasks
<1>5. TypeOK'
  BY <1>1, <1>2, <1>3 DEF TypeOK, table, WorkerStates, TaskStates
<1>6. \A u \in Tasks : pc'[u] = IF u = t THEN "new" ELSE pc[u]
  BY <1>1, <1>3 DEF TypeOK
<1>7. ScheduledAreTasks' /\ OneTaskPerEndpoint'
  BY <1>1, <1>2, <1>4, <1>6 DEF IInv, ScheduledAreTasks, OneTaskPerEndpoint
<1>8. LocksAreHeld'
  BY <1>1, <1>2, <1>6 DEF IInv, LocksAreHeld, Holding
<1>9. InFlightCovers'
  BY <1>1, <1>3, <1>6 DEF IInv, InFlightCovers, Live, TypeOK
<1>10. PermitsCount'
  <2>1. Probing' = Probing
    BY <1>1, <1>6 DEF Probing
  <2> QED
    BY <1>2, <2>1 DEF IInv, PermitsCount
<1>11. SlotsAreFree'
  <2>1. IsFiniteSet(inFlight) /\ Cardinality(inFlight) + slots <= Concurrency
    BY DEF IInv, SlotsAreFree
  <2>2. Cardinality(inFlight) \in Nat
    BY Counting DEF IInv
  <2>3. /\ IsFiniteSet(inFlight \cup {t})
        /\ Cardinality(inFlight \cup {t}) =
             IF t \in inFlight THEN Cardinality(inFlight) ELSE Cardinality(inFlight) + 1
    BY <2>1, FS_AddElement
  <2>4. slots \in Nat
    BY <1>3 DEF TypeOK
  <2>5. Cardinality(inFlight \cup {t}) + (slots - 1) <= Concurrency
    BY <2>1, <2>2, <2>3, <2>4
  <2> QED
    BY <1>1, <1>2, <2>3, <2>5 DEF SlotsAreFree
<1>12. NextFollowsLast'
  BY <1>2 DEF IInv, NextFollowsLast, table
<1> QED
  BY <1>5, <1>7, <1>8, <1>9, <1>10, <1>11, <1>12 DEF IInv
-----------------------------------------------------------------------------
(* The steps of a task. *)

\* A running task moves on: it keeps its place in _scheduled and _in_flight.
LEMMA MoveTask ==
  ASSUME IInv, NEW t \in Tasks, Live(t),
         NEW s \in TaskStates \ {"none"}, Go(t, s),
         UNCHANGED <<scheduled, inFlight, slots>>
  PROVE  /\ pc' \in [Tasks -> TaskStates]
         /\ \A u \in Tasks : pc'[u] = IF u = t THEN s ELSE pc[u]
         /\ ScheduledAreTasks' /\ OneTaskPerEndpoint' /\ InFlightCovers'
         /\ SlotsAreFree'
<1> USE EpType
<1>1. pc' \in [Tasks -> TaskStates]
  BY DEF IInv, TypeOK, Go
<1>2. \A u \in Tasks : pc'[u] = IF u = t THEN s ELSE pc[u]
  BY DEF IInv, TypeOK, Go
<1>3. pc[t] # "none"
  BY DEF Live
<1>4. ScheduledAreTasks' /\ OneTaskPerEndpoint'
  BY <1>2, <1>3 DEF IInv, ScheduledAreTasks, OneTaskPerEndpoint
<1>5. InFlightCovers'
  BY <1>2, <1>3 DEF IInv, TypeOK, InFlightCovers, Live
<1>6. SlotsAreFree'
  BY DEF IInv, SlotsAreFree
<1> QED
  BY <1>1, <1>2, <1>4, <1>5, <1>6

\* A task that neither enters nor leaves the probe keeps the permits counted.
LEMMA PermitsKept ==
  ASSUME IInv, NEW t \in Tasks, NEW s \in TaskStates \ {"probing"},
         pc[t] # "probing", Go(t, s), permits' = permits
  PROVE  PermitsCount'
<1>1. Probing' = Probing
  BY DEF IInv, TypeOK, Go, Probing
<1> QED
  BY <1>1 DEF IInv, PermitsCount

\* A task that stays inside, or outside, its lock keeps the locks accounted
\* for.
LEMMA LockKept ==
  ASSUME IInv, NEW t \in Tasks, NEW s \in {"ready", "probing", "record", "alert"},
         Holding(t), Go(t, s), locked' = locked
  PROVE  LocksAreHeld'
<1>1. \A u \in Tasks : Holding(u)' <=> Holding(u)
  BY DEF IInv, TypeOK, Go, Holding
<1> QED
  BY <1>1 DEF IInv, LocksAreHeld

\* A task that leaves its lock frees it, and only it.
LEMMA LockReturned ==
  ASSUME IInv, NEW t \in Tasks, Holding(t), Return(t)
  PROVE  /\ LocksAreHeld' /\ locked' \subseteq Endpoints
         /\ Go(t, "done") /\ Live(t)
<1>1. \A u \in Tasks : Holding(u)' <=> Holding(u) /\ u # t
  BY DEF IInv, TypeOK, Return, Go, Holding
<1>2. \A u \in Tasks : Holding(u) /\ Ep(u) = Ep(t) => u = t
  BY DEF IInv, OneTaskPerEndpoint, Holding
<1>3. LocksAreHeld'
  BY <1>1, <1>2, EpType DEF IInv, LocksAreHeld, Return
<1> QED
  BY <1>3 DEF IInv, TypeOK, Return, Holding, Live

\* _guarded_check takes the lock of its endpoint.
LEMMA StartIInv ==
  ASSUME IInv, NEW t \in Tasks, Start(t)
  PROVE  IInv'
<1> USE EpType
<1>1. pc[t] = "new" /\ Live(t)
  BY DEF Start, At, Live
<1>2. Ep(t) \notin locked
  BY <1>1 DEF IInv, LocksAreHeld, OneTaskPerEndpoint, Holding
<1>3. /\ Go(t, "claim") /\ locked' = locked \cup {Ep(t)}
      /\ UNCHANGED <<table, now, worker, stop, slots, due, checkedAt, inFlight,
                     scheduled, permits, faults>>
  BY <1>2 DEF Start
<1>4. /\ pc' \in [Tasks -> TaskStates]
      /\ \A u \in Tasks : pc'[u] = IF u = t THEN "claim" ELSE pc[u]
      /\ ScheduledAreTasks' /\ OneTaskPerEndpoint' /\ InFlightCovers' /\ SlotsAreFree'
  BY <1>1, <1>3, MoveTask DEF TaskStates
<1>5. TypeOK'
  BY <1>3, <1>4 DEF IInv, TypeOK, table
<1>6. LocksAreHeld'
  BY <1>1, <1>3, <1>4 DEF IInv, LocksAreHeld, Holding
<1>7. PermitsCount'
  BY <1>1, <1>3, PermitsKept DEF TaskStates
<1>8. NextFollowsLast'
  BY <1>3 DEF IInv, NextFollowsLast, table
<1> QED
  BY <1>4, <1>5, <1>6, <1>7, <1>8 DEF IInv

\* A task gives up its lock, having changed nothing or counted a fault.
LEMMA ReturnIInv ==
  ASSUME IInv, NEW t \in Tasks, pc[t] \in {"claim", "record", "alert"}, Return(t),
         faults' \in Nat,
         UNCHANGED <<table, now, worker, stop, slots, due, checkedAt, inFlight,
                     scheduled, permits>>
  PROVE  IInv'
<1>1. Holding(t)
  BY DEF Holding
<1>2. LocksAreHeld' /\ locked' \subseteq Endpoints /\ Go(t, "done") /\ Live(t)
  BY <1>1, LockReturned
<1>3. /\ pc' \in [Tasks -> TaskStates]
      /\ ScheduledAreTasks' /\ OneTaskPerEndpoint' /\ InFlightCovers' /\ SlotsAreFree'
  BY <1>2, MoveTask DEF TaskStates
<1>4. TypeOK'
  BY <1>2, <1>3 DEF IInv, TypeOK, table
<1>5. PermitsCount'
  BY <1>2, PermitsKept DEF TaskStates
<1>6. NextFollowsLast'
  BY DEF IInv, NextFollowsLast, table
<1> QED
  BY <1>2, <1>3, <1>4, <1>5, <1>6 DEF IInv

\* The first session of _execute_check keeps the invariant.
LEMMA ClaimIInv ==
  ASSUME IInv, NEW t \in Tasks, Claim(t)
  PROVE  IInv'
<1> USE EpType
<1>1. pc[t] = "claim" /\ Live(t) /\ Holding(t)
  BY DEF Claim, At, Live, Holding
<1>2. UNCHANGED <<now, worker, stop, slots, due, checkedAt, inFlight, scheduled,
                  permits, apiCalls, faults>>
  BY DEF Claim
<1>3. CASE ~Claims(Ep(t))
  <2>1. Return(t) /\ row' = row
    BY <1>3 DEF Claim
  <2>2. faults' \in Nat /\ UNCHANGED table
    BY <1>2, <2>1 DEF IInv, TypeOK, table
  <2> QED
    BY <1>1, <1>2, <2>1, <2>2, ReturnIInv
<1>4. CASE Claims(Ep(t))
  <2>1. /\ row' = [row EXCEPT ![Ep(t)].force = FALSE]
        /\ Go(t, "ready") /\ locked' = locked
    BY <1>4 DEF Claim
  <2>2. /\ pc' \in [Tasks -> TaskStates]
        /\ ScheduledAreTasks' /\ OneTaskPerEndpoint' /\ InFlightCovers' /\ SlotsAreFree'
    BY <1>1, <1>2, <2>1, MoveTask DEF TaskStates
  <2>3. row' \in [Endpoints -> Rows] /\ NextFollowsLast'
    BY <2>1 DEF IInv, TypeOK, Rows, NextFollowsLast
  <2>4. TypeOK'
    BY <1>2, <2>1, <2>2, <2>3 DEF IInv, TypeOK
  <2>5. PermitsCount'
    BY <1>1, <1>2, <2>1, PermitsKept DEF TaskStates
  <2>6. LocksAreHeld'
    BY <1>1, <2>1, LockKept
  <2> QED
    BY <2>2, <2>3, <2>4, <2>5, <2>6 DEF IInv
<1> QED
  BY <1>3, <1>4

\* Entering the semaphore keeps the invariant.
LEMMA AcquireIInv ==
  ASSUME IInv, NEW t \in Tasks, Acquire(t)
  PROVE  IInv'
<1>1. pc[t] = "ready" /\ Live(t) /\ Holding(t)
  BY DEF Acquire, At, Live, Holding
<1>2. /\ permits > 0 /\ permits' = permits - 1
      /\ checkedAt' = [checkedAt EXCEPT ![t] = now]
      /\ Go(t, "probing")
      /\ UNCHANGED <<table, now, worker, stop, slots, due, inFlight, scheduled,
                     locked, faults>>
  BY DEF Acquire, TakePermit
<1>3. /\ pc' \in [Tasks -> TaskStates]
      /\ \A u \in Tasks : pc'[u] = IF u = t THEN "probing" ELSE pc[u]
      /\ ScheduledAreTasks' /\ OneTaskPerEndpoint' /\ InFlightCovers' /\ SlotsAreFree'
  BY <1>1, <1>2, MoveTask DEF TaskStates
<1>4. TypeOK'
  <2>1. permits' \in 0..Concurrency
    BY <1>2, ConcurrencyAssumption DEF IInv, TypeOK
  <2>2. checkedAt' \in [Tasks -> Nat]
    BY <1>2 DEF IInv, TypeOK
  <2> QED
    BY <1>2, <1>3, <2>1, <2>2 DEF IInv, TypeOK, table
<1>5. LocksAreHeld'
  BY <1>1, <1>2, LockKept
<1>6. PermitsCount'
  <2>1. Probing' = Probing \cup {t} /\ t \notin Probing
    BY <1>1, <1>3 DEF Probing
  <2>2. IsFiniteSet(Probing) /\ Cardinality(Probing) \in Nat
    BY Counting DEF IInv
  <2>3. Cardinality(Probing \cup {t}) = Cardinality(Probing) + 1
    BY <2>1, <2>2, FS_AddElement
  <2>4. permits \in Nat /\ permits + Cardinality(Probing) = Concurrency
    BY ConcurrencyAssumption DEF IInv, TypeOK, PermitsCount
  <2>5. permits' + Cardinality(Probing') = Concurrency
    BY <1>2, <2>1, <2>2, <2>3, <2>4
  <2> QED
    BY <2>5 DEF PermitsCount
<1>7. NextFollowsLast'
  BY <1>2 DEF IInv, NextFollowsLast, table
<1> QED
  BY <1>3, <1>4, <1>5, <1>6, <1>7 DEF IInv

\* Leaving the semaphore keeps the invariant.
LEMMA ProbeEndsIInv ==
  ASSUME IInv, NEW t \in Tasks, ProbeEnds(t)
  PROVE  IInv'
<1>1. pc[t] = "probing" /\ Live(t) /\ Holding(t)
  BY DEF ProbeEnds, At, Live, Holding
<1>2. /\ permits' = permits + 1
      /\ Go(t, "record")
      /\ checkedAt' \in {checkedAt, [checkedAt EXCEPT ![t] = now]}
      /\ UNCHANGED <<table, now, worker, stop, slots, due, inFlight, scheduled, locked,
                     faults>>
  BY DEF ProbeEnds, ReleasePermit
<1>3. /\ pc' \in [Tasks -> TaskStates]
      /\ \A u \in Tasks : pc'[u] = IF u = t THEN "record" ELSE pc[u]
      /\ ScheduledAreTasks' /\ OneTaskPerEndpoint' /\ InFlightCovers' /\ SlotsAreFree'
  BY <1>1, <1>2, MoveTask DEF TaskStates
<1>4. LocksAreHeld'
  BY <1>1, <1>2, LockKept
<1>5. permits' \in 0..Concurrency /\ permits' + Cardinality(Probing') = Concurrency
  <2>1. Probing' = Probing \ {t} /\ t \in Probing
    BY <1>1, <1>3 DEF Probing
  <2>2. IsFiniteSet(Probing) /\ Cardinality(Probing) \in Nat
    BY Counting DEF IInv
  <2>3. IsFiniteSet(Probing \ {t}) /\ Cardinality(Probing \ {t}) = Cardinality(Probing) - 1
    BY <2>1, <2>2, FS_RemoveElement
  <2>4. Cardinality(Probing \ {t}) \in Nat
    BY <2>3, FS_CardinalityType
  <2>5. permits \in Nat /\ permits + Cardinality(Probing) = Concurrency
    BY ConcurrencyAssumption DEF IInv, TypeOK, PermitsCount
  <2> QED
    BY <1>2, <2>1, <2>2, <2>3, <2>4, <2>5, ConcurrencyAssumption
<1>6. TypeOK'
  BY <1>2, <1>3, <1>5 DEF IInv, TypeOK, table
<1>7. PermitsCount' /\ NextFollowsLast'
  BY <1>2, <1>5 DEF IInv, PermitsCount, NextFollowsLast, table
<1> QED
  BY <1>3, <1>4, <1>6, <1>7 DEF IInv

\* record_check keeps the invariant.
LEMMA RecordIInv ==
  ASSUME IInv, NEW t \in Tasks, Record(t)
  PROVE  IInv'
<1> USE EpType, IntervalsAssumption
<1>1. pc[t] = "record" /\ Live(t) /\ Holding(t)
  BY DEF Record, At, Live, Holding
<1>2. UNCHANGED <<now, worker, stop, slots, due, checkedAt, inFlight, scheduled,
                  permits, apiCalls, faults>>
  BY DEF Record
<1>3. CASE ~Present(Ep(t))
  <2>1. Return(t) /\ row' = row
    BY <1>3 DEF Record
  <2>2. faults' \in Nat /\ UNCHANGED table
    BY <1>2, <2>1 DEF IInv, TypeOK, table
  <2> QED
    BY <1>1, <1>2, <2>1, <2>2, ReturnIInv
<1>4. CASE Present(Ep(t))
  <2>1. /\ row' = [row EXCEPT ![Ep(t)].last = checkedAt[t],
                              ![Ep(t)].next = checkedAt[t] + row[Ep(t)].interval]
        /\ Go(t, "alert") /\ locked' = locked
    BY <1>4 DEF Record
  <2>2. /\ pc' \in [Tasks -> TaskStates]
        /\ ScheduledAreTasks' /\ OneTaskPerEndpoint' /\ InFlightCovers' /\ SlotsAreFree'
    BY <1>1, <1>2, <2>1, MoveTask DEF TaskStates
  <2>3. checkedAt[t] \in Nat /\ row \in [Endpoints -> Rows]
    BY DEF IInv, TypeOK
  <2>4. row' \in [Endpoints -> Rows]
    BY <2>1, <2>3 DEF Rows
  <2>5. NextFollowsLast'
    BY <2>1, <2>3 DEF IInv, Rows, NextFollowsLast
  <2>6. TypeOK'
    BY <1>2, <2>1, <2>2, <2>4 DEF IInv, TypeOK
  <2>7. PermitsCount'
    BY <1>1, <1>2, <2>1, PermitsKept DEF TaskStates
  <2>8. LocksAreHeld'
    BY <1>1, <2>1, LockKept
  <2> QED
    BY <2>2, <2>5, <2>6, <2>7, <2>8 DEF IInv
<1> QED
  BY <1>3, <1>4

\* So does the end of the second session.
LEMMA AlertIInv ==
  ASSUME IInv, NEW t \in Tasks, Alert(t) \/ TaskFails(t)
  PROVE  IInv'
<1>1. /\ pc[t] \in {"claim", "record", "alert"} /\ Return(t)
      /\ faults' = faults \/ faults' = faults + 1
      /\ UNCHANGED <<table, now, worker, stop, slots, due, checkedAt, inFlight,
                     scheduled, permits>>
  BY DEF Alert, TaskFails, At, Fault
<1>2. faults' \in Nat
  BY <1>1 DEF IInv, TypeOK
<1> QED
  BY <1>1, <1>2, ReturnIInv

\* The done callback keeps the invariant, though it forgets other finished
\* tasks.
LEMMA OnTaskDoneIInv ==
  ASSUME IInv, NEW t \in Tasks, OnTaskDone(t)
  PROVE  IInv'
<1> USE EpType
<1> DEFINE finished == {u \in Tasks : pc[u] = "done"}
<1>1. /\ pc[t] = "done" /\ Go(t, "none")
      /\ scheduled' = scheduled \ {Ep(t)} /\ inFlight' = inFlight \ finished
      /\ UNCHANGED <<table, now, worker, stop, slots, due, checkedAt, locked,
                     permits, faults>>
  BY DEF OnTaskDone, At, ForgottenId
<1>2. pc' \in [Tasks -> TaskStates]
  BY <1>1 DEF IInv, TypeOK, Go, TaskStates
<1>3. \A u \in Tasks : pc'[u] = IF u = t THEN "none" ELSE pc[u]
  BY <1>1 DEF IInv, TypeOK, Go
<1>4. TypeOK'
  BY <1>1, <1>2 DEF IInv, TypeOK, table
<1>5. \A u \in Tasks : u # t /\ pc[u] # "none" => Ep(u) # Ep(t)
  BY <1>1 DEF IInv, OneTaskPerEndpoint
<1>6. ScheduledAreTasks' /\ OneTaskPerEndpoint'
  BY <1>1, <1>3, <1>5 DEF IInv, ScheduledAreTasks, OneTaskPerEndpoint
<1>7. LocksAreHeld'
  BY <1>1, <1>3 DEF IInv, LocksAreHeld, Holding
<1>8. InFlightCovers'
  BY <1>1, <1>3 DEF IInv, TypeOK, InFlightCovers, Live
<1>9. PermitsCount'
  <2>1. Probing' = Probing
    BY <1>1, <1>3 DEF Probing
  <2> QED
    BY <1>1, <2>1 DEF IInv, PermitsCount
<1>10. SlotsAreFree'
  <2>1. IsFiniteSet(inFlight) /\ Cardinality(inFlight) + slots <= Concurrency
    BY DEF IInv, SlotsAreFree
  <2>2. /\ IsFiniteSet(inFlight')
        /\ Cardinality(inFlight') <= Cardinality(inFlight)
    BY <1>1, <2>1, FS_Subset
  <2>3. Cardinality(inFlight) \in Nat /\ Cardinality(inFlight') \in Nat
    BY <2>1, <2>2, FS_CardinalityType
  <2> QED
    BY <1>1, <2>1, <2>2, <2>3, ConcurrencyAssumption DEF IInv, TypeOK, SlotsAreFree
<1>11. NextFollowsLast'
  BY <1>1 DEF IInv, NextFollowsLast, table
<1> QED
  BY <1>4, <1>6, <1>7, <1>8, <1>9, <1>10, <1>11 DEF IInv

\* The process ends: nothing of its memory is left.
LEMMA VanishIInv ==
  ASSUME IInv, Vanish, faults' \in Nat
  PROVE  IInv'
<1>1. /\ worker' = "down" /\ stop' = FALSE /\ slots' = 0 /\ due' = <<>>
      /\ pc' = [t \in Tasks |-> "none"] /\ checkedAt' = [t \in Tasks |-> 0]
      /\ inFlight' = {} /\ scheduled' = {} /\ locked' = {} /\ permits' = Concurrency
      /\ UNCHANGED <<table, now>>
  BY DEF Vanish
<1>2. TypeOK'
  <2>1. pc' \in [Tasks -> TaskStates] /\ checkedAt' \in [Tasks -> Nat]
    BY <1>1 DEF TaskStates
  <2>2. slots' \in 0..Concurrency /\ permits' \in 0..Concurrency /\ due' \in Seq(Endpoints)
    BY <1>1, ConcurrencyAssumption
  <2> QED
    BY <1>1, <2>1, <2>2 DEF IInv, TypeOK, WorkerStates, table
<1>3. ScheduledAreTasks' /\ OneTaskPerEndpoint' /\ LocksAreHeld' /\ InFlightCovers'
  BY <1>1 DEF ScheduledAreTasks, OneTaskPerEndpoint, LocksAreHeld, InFlightCovers,
              Holding, Live
<1>4. PermitsCount'
  <2>1. Probing' = {}
    BY <1>1 DEF Probing
  <2> QED
    BY <1>1, <2>1, FS_EmptySet, ConcurrencyAssumption DEF PermitsCount
<1>5. SlotsAreFree'
  BY <1>1, FS_EmptySet, ConcurrencyAssumption DEF SlotsAreFree
<1>6. NextFollowsLast'
  BY <1>1 DEF IInv, NextFollowsLast, table
<1> QED
  BY <1>2, <1>3, <1>4, <1>5, <1>6 DEF IInv

-----------------------------------------------------------------------------

\* Every step of a task keeps the invariant.
LEMMA StepIInv ==
  ASSUME IInv, NEW t \in Tasks, Step(t)
  PROVE  IInv'
BY StartIInv, ClaimIInv, AcquireIInv, ProbeEndsIInv, RecordIInv, AlertIInv,
   OnTaskDoneIInv DEF Step, LocalStep

\* Every step of the system keeps the invariant.
LEMMA NextIInv ==
  ASSUME IInv, [Next]_vars
  PROVE  IInv'
<1>0. faults \in Nat /\ stop \in BOOLEAN
  BY DEF IInv, TypeOK
<1>1. ASSUME NEW e \in Endpoints, Api(e) PROVE IInv'
  BY <1>1, ApiIInv
<1>2. CASE ClockTick
  BY <1>2, ClockTickIInv
<1>3. CASE RequestStop
  BY <1>0, <1>3, ControlIInv DEF RequestStop, Fault, IInv, TypeOK
<1>4. CASE Tick \/ TickFails
  BY <1>4, TickIInv, LaunchNextIInv DEF Tick
<1>5. ASSUME NEW t \in Tasks, Step(t) \/ TaskFails(t) PROVE IInv'
  BY <1>5, StepIInv, AlertIInv
<1>6. CASE BeginDrain \/ Restart
  BY <1>0, <1>6, ControlIInv DEF BeginDrain, Restart, WorkerStates
<1>7. CASE Drained \/ DrainTimeout
  BY <1>0, <1>7, VanishIInv DEF Drained, DrainTimeout
<1>8. CASE Crash
  BY <1>0, <1>8, VanishIInv DEF Crash, Fault
<1>9. CASE UNCHANGED vars
  BY <1>9, StutterIInv
<1> QED
  BY <1>1, <1>2, <1>3, <1>4, <1>5, <1>6, <1>7, <1>8, <1>9 DEF Next, Shutdown

\* The invariant of the scheduler: every task is accounted for in _scheduled,
\* _in_flight, the locks and the semaphore, whatever exceptions, stops, crashes
\* and API calls occur.
THEOREM Invariant == Spec => []IInv
<1>1. Init => IInv
  BY InitIInv
<1>2. IInv /\ [Next]_vars => IInv'
  BY NextIInv
<1> QED
  BY <1>1, <1>2, PTL DEF Spec

\* Type correctness.
THEOREM TypeCorrect == Spec => []TypeOK
<1>1. IInv => TypeOK
  BY DEF IInv
<1> QED
  BY <1>1, Invariant, PTL

\* No endpoint is left behind in _scheduled, none has a task outside it.
THEOREM NoneStranded == Spec => []ScheduledAreTasks
<1>1. IInv => ScheduledAreTasks
  BY DEF IInv
<1> QED
  BY <1>1, Invariant, PTL

\* A claimed check never waits for the semaphore: tick() keeps enough slots back.
THEOREM NeverBlocked == Spec => []SemaphoreNeverBlocks
<1>1. ASSUME IInv, NEW t \in Tasks, pc[t] = "ready"
      PROVE  permits > 0
  <2>1. /\ Probing \subseteq inFlight /\ IsFiniteSet(Probing)
        /\ Cardinality(Probing) \in Nat /\ Cardinality(inFlight) \in Nat
        /\ Cardinality(inFlight) <= Concurrency
    BY <1>1, Counting DEF IInv
  <2>2. t \in inFlight /\ t \notin Probing
    BY <1>1 DEF IInv, InFlightCovers, Live, Probing
  <2>3. IsFiniteSet(inFlight)
    BY <1>1 DEF IInv, SlotsAreFree
  <2>4. Cardinality(Probing) <= Cardinality(inFlight) /\ Cardinality(Probing) # Cardinality(inFlight)
    BY <2>1, <2>2, <2>3, FS_Subset
  <2>5. permits + Cardinality(Probing) = Concurrency /\ permits \in Int
    BY <1>1, ConcurrencyAssumption DEF IInv, TypeOK, PermitsCount
  <2> QED
    BY <2>1, <2>4, <2>5, ConcurrencyAssumption
<1>2. IInv => SemaphoreNeverBlocks
  BY <1>1 DEF SemaphoreNeverBlocks
<1> QED
  BY <1>2, Invariant, PTL
-----------------------------------------------------------------------------
(* Steps seen from one task. *)

\* Only Claim(t) takes t past its first session.
LEMMA OnlyClaimClaims ==
  ASSUME IInv, Next, NEW t \in Tasks, pc[t] = "claim", pc'[t] = "ready"
  PROVE  Claim(t)
<1> USE DEF Go
<1>0. pc \in [Tasks -> TaskStates]
  BY DEF IInv, TypeOK
<1>1. ASSUME NEW e \in Endpoints, Api(e) PROVE FALSE
  BY <1>1 DEF Api, Create, SetEnabled, SetInterval, RequestForce, Delete, ApiWrite, memory
<1>2. CASE ClockTick \/ RequestStop \/ BeginDrain \/ Restart
  BY <1>2 DEF ClockTick, RequestStop, BeginDrain, Restart, memory
<1>3. CASE Tick \/ TickFails
  BY <1>0, <1>3 DEF Tick, TickFails, BeginTick, SelectDue, SkipNext, LaunchNext, EndTick
<1>4. ASSUME NEW u \in Tasks, Step(u) \/ TaskFails(u) PROVE Claim(t)
  <2>1. pc' # pc /\ \E s \in TaskStates : pc' = [pc EXCEPT ![u] = s]
    BY <1>4 DEF Step, LocalStep, TaskFails, Start, Claim, Acquire, ProbeEnds, Record, Alert,
                OnTaskDone, Return, TaskStates
  <2>2. u = t
    BY <1>0, <2>1
  <2> QED
    BY <1>0, <1>4, <2>2 DEF Step, LocalStep, TaskFails, Start, Claim, Acquire, ProbeEnds, Record,
                            Alert, OnTaskDone, Return, At
<1>5. CASE Drained \/ DrainTimeout \/ Crash
  BY <1>5 DEF Drained, DrainTimeout, Crash, Vanish
<1> QED
  BY <1>1, <1>2, <1>3, <1>4, <1>5 DEF Next, Shutdown

\* No probe that nobody asked for begins early, however stale its selection, of
\* an endpoint whose interval is the one it was created with.
THEOREM ChecksAreSpaced == Spec => NoEarlyCheck
<1> DEFINE Spaced(t) ==
      LET r == row[Ep(t)]
      IN pc[t] = "claim" /\ pc'[t] = "ready"
           => r.force \/ r.last = Never \/ r.tuned \/ r.last + r.interval <= now
<1>1. ASSUME IInv, Next, NEW t \in Tasks, pc[t] = "claim", pc'[t] = "ready"
      PROVE  Spaced(t)
  <2>1. Claim(t)
    BY <1>1, OnlyClaimClaims
  <2>2. Ep(t) \in Endpoints
    BY EpType
  <2>3. Due(Ep(t))
    BY <1>1, <2>1 DEF Claim, Claims, Return, Go, IInv, TypeOK
  <2>4. row[Ep(t)].force \/ row[Ep(t)].next <= now
    BY <2>3 DEF Due
  <2>5. \/ row[Ep(t)].last = Never \/ row[Ep(t)].tuned
        \/ row[Ep(t)].next = row[Ep(t)].last + row[Ep(t)].interval
    BY <1>1, <2>2 DEF IInv, NextFollowsLast
  <2> QED
    BY <2>4, <2>5
<1>2. ASSUME IInv, [Next]_vars PROVE [\A t \in Tasks : Spaced(t)]_vars
  BY <1>1, <1>2
<1>3. IInv /\ [Next]_vars => [\A t \in Tasks : Spaced(t)]_vars
  BY <1>2
<1>4. Spec => [][\A t \in Tasks : Spaced(t)]_vars
  BY <1>3, Invariant, PTL DEF Spec
<1> QED
  BY <1>4 DEF NoEarlyCheck
-----------------------------------------------------------------------------
(* The scheduler implements CheckSlots. *)

Running == {t \in Tasks : Live(t)}

\* Every step leaves the running checks alone, begins one or ends some.
LEMMA RunningSteps ==
  ASSUME IInv, [Next]_vars
  PROVE  \/ Running' = Running
         \/ \E t \in Tasks : LaunchNext /\ pc[t] = "none" /\ Ep(t) \notin scheduled
                            /\ Running' = Running \cup {t}
         \/ Running' \subseteq Running
<1> USE DEF Go, Running, Live
<1>0. pc \in [Tasks -> TaskStates]
  BY DEF IInv, TypeOK
<1>1. ASSUME NEW e \in Endpoints, Api(e) PROVE Running' = Running
  BY <1>1 DEF Api, Create, SetEnabled, SetInterval, RequestForce, Delete, ApiWrite, memory
<1>2. CASE ClockTick \/ RequestStop \/ BeginDrain \/ Restart \/ UNCHANGED vars
  BY <1>2 DEF ClockTick, RequestStop, BeginDrain, Restart, memory, vars
<1>3. CASE BeginTick \/ SelectDue \/ SkipNext \/ EndTick \/ TickFails
  BY <1>3 DEF BeginTick, SelectDue, SkipNext, EndTick, TickFails
<1>4. CASE LaunchNext
  <2>1. PICK t \in Tasks : pc[t] = "none" /\ pc' = [pc EXCEPT ![t] = "new"]
                           /\ Ep(t) \notin scheduled
    BY <1>4 DEF LaunchNext, Startable
  <2>2. Running' = Running \cup {t}
    BY <1>0, <2>1
  <2> QED
    BY <1>4, <2>1, <2>2
<1>5. ASSUME NEW t \in Tasks, Step(t) \/ TaskFails(t) PROVE Running' \subseteq Running
  <2>1. pc[t] \in {"none", "done"} => pc' = [pc EXCEPT ![t] = "none"]
    BY <1>5 DEF Step, LocalStep, TaskFails, Start, Claim, Acquire, ProbeEnds, Record, Alert,
                OnTaskDone, Return, At
  <2>2. \E s \in TaskStates : pc' = [pc EXCEPT ![t] = s]
    BY <1>5 DEF Step, LocalStep, TaskFails, Start, Claim, Acquire, ProbeEnds, Record, Alert,
                OnTaskDone, Return, TaskStates
  <2> QED
    BY <1>0, <2>1, <2>2
<1>6. CASE Drained \/ DrainTimeout \/ Crash
  BY <1>6 DEF Drained, DrainTimeout, Crash, Vanish
<1> QED
  BY <1>1, <1>2, <1>3, <1>4, <1>5, <1>6 DEF Next, Shutdown, Tick

\* A check that begins finds its endpoint idle and a slot free.
LEMMA BeginAllowed ==
  ASSUME IInv, NEW t \in Tasks, LaunchNext, Ep(t) \notin scheduled
  PROVE  /\ \A k \in Running : k[1] # t[1]
         /\ Cardinality(Running) < Concurrency
<1>1. \A k \in Running : Ep(k) # Ep(t)
  BY EpType DEF IInv, ScheduledAreTasks, Running, Live
<1>2. Running \subseteq inFlight
  BY DEF IInv, InFlightCovers, Running
<1>3. IsFiniteSet(inFlight) /\ Cardinality(inFlight) + slots <= Concurrency
  BY DEF IInv, SlotsAreFree
<1>4. slots > 0 /\ slots \in Int
  BY DEF LaunchNext, Looping, IInv, TypeOK
<1>5. Cardinality(Running) <= Cardinality(inFlight) /\ IsFiniteSet(Running)
  BY <1>2, <1>3, FS_Subset
<1>6. Cardinality(inFlight) \in Nat /\ Cardinality(Running) \in Nat
  BY <1>3, <1>5, FS_CardinalityType
<1> QED
  BY <1>1, <1>3, <1>4, <1>5, <1>6, ConcurrencyAssumption DEF Ep

\* Never two checks of one endpoint, never more than CHECK_CONCURRENCY in all.
THEOREM SlotsImplemented == Spec => SlotsKept
<1>1. Init => Slots!Init
  BY DEF Init, Slots!Init, Live
<1>2. ASSUME IInv, [Next]_vars
      PROVE  [Slots!Next]_{t \in Tasks : Live(t)}
  <2>1. CASE Running' = Running
    BY <2>1 DEF Running
  <2>2. ASSUME NEW t \in Tasks, LaunchNext, Ep(t) \notin scheduled,
               Running' = Running \cup {t}
        PROVE  Slots!Next
    <3>0. Slots!Cardinality(Running) = Cardinality(Running)
      BY DEF Slots!Cardinality, Cardinality
    <3>1. Slots!Begin(t)
      BY <1>2, <2>2, <3>0, BeginAllowed DEF Slots!Begin, Running
    <3>2. t \in Slots!Jobs
      BY DEF Slots!Jobs, Tasks
    <3> QED
      BY <3>1, <3>2 DEF Slots!Next
  <2>3. CASE Running' \subseteq Running /\ Running' # Running
    <3> DEFINE S == Running \ Running'
    <3>1. S \in SUBSET Running /\ S # {} /\ Running' = Running \ S
      BY <2>3
    <3>2. Slots!End(S)
      BY <3>1 DEF Slots!End, Running
    <3> QED
      BY <3>1, <3>2 DEF Slots!Next, Running
  <2> QED
    BY <1>2, <2>1, <2>2, <2>3, RunningSteps
<1>3. IInv /\ [Next]_vars => [Slots!Next]_{t \in Tasks : Live(t)}
  BY <1>2
<1> QED
  BY <1>1, <1>3, Invariant, PTL DEF Spec, SlotsKept, Slots!Spec

-----------------------------------------------------------------------------
(* A worker that has been told to stop comes to its drain: what StopsWhenTold *)
(* says, short of the fairness that makes each step come.                     *)

\* The loop of tick() is bounded by the LIMIT of the SELECT.
SelectionBounded == Len(due) <= 2 * Concurrency

\* A process that is not there has not been told anything.
DownUntold == worker = "down" => ~stop

\* A bound on the steps that run() and tick() take from here to the drain.
TurnsLeft ==
  CASE worker = "query" -> 2 * Concurrency + 3
    [] worker \in {"loaded", "launch"} -> Len(due) + 2
    [] worker = "idle" -> 1
    [] OTHER -> 0

StopProgress ==
  stop /\ stop' /\ (worker' # worker \/ due' # due) => TurnsLeft' < TurnsLeft

LEMMA DueListsShort ==
  ASSUME NEW n \in Nat, NEW q \in DueLists(n)
  PROVE  Len(q) <= n
<1> DEFINE D == {e \in Endpoints : Due(e)}
           size == Cardinality(D)
           m == IF n < size THEN n ELSE size
<1>1. size \in Nat
  BY EndpointsAssumption, FS_Subset, FS_CardinalityType
<1>2. PICK p \in [1..size -> D] : q = SubSeq(p, 1, m)
  BY DEF DueLists
<1>3. m \in Nat /\ m <= n /\ m <= size
  BY <1>1
<1> HIDE DEF D, size, m
<1>4. p \in Seq(D) /\ Len(p) = size
  BY <1>1, <1>2
<1>5. Len(SubSeq(p, 1, m)) = m
  BY <1>1, <1>3, <1>4
<1> QED
  BY <1>2, <1>3, <1>5

\* The steps that take run() or its selection along.
LEMMA ControlSteps ==
  ASSUME IInv, [Next]_vars, worker' # worker \/ due' # due
  PROVE  \/ BeginTick \/ SelectDue \/ SkipNext \/ LaunchNext \/ EndTick \/ TickFails
         \/ BeginDrain \/ Restart \/ (Vanish /\ worker' = "down" /\ ~stop' /\ due' = <<>>)
<1>1. ASSUME NEW e \in Endpoints, Api(e) PROVE UNCHANGED <<worker, due>>
  BY <1>1 DEF Api, Create, SetEnabled, SetInterval, RequestForce, Delete, ApiWrite, memory
<1>2. ASSUME NEW t \in Tasks, Step(t) \/ TaskFails(t) PROVE UNCHANGED <<worker, due>>
  BY <1>2 DEF Step, LocalStep, TaskFails, Start, Claim, Acquire, ProbeEnds, Record, Alert, OnTaskDone
<1>3. ClockTick \/ RequestStop \/ UNCHANGED vars => UNCHANGED <<worker, due>>
  BY DEF ClockTick, RequestStop, vars, memory
<1>4. Drained \/ DrainTimeout \/ Crash => Vanish /\ worker' = "down" /\ ~stop' /\ due' = <<>>
  BY DEF Drained, DrainTimeout, Crash, Vanish
<1> QED
  BY <1>1, <1>2, <1>3, <1>4 DEF Next, Tick, Shutdown

LEMMA SelectionStays ==
  ASSUME IInv, SelectionBounded, [Next]_vars
  PROVE  SelectionBounded' /\ Len(due') \in Nat
<1>1. /\ due \in Seq(Endpoints) /\ slots \in 0..Concurrency /\ Concurrency \in Nat
      /\ due' \in Seq(Endpoints)
  BY NextIInv, ConcurrencyAssumption DEF IInv, TypeOK
<1>2. CASE UNCHANGED due \/ due' = <<>>
  BY <1>1, <1>2 DEF SelectionBounded
<1>3. CASE SelectDue
  <2>1. 2 * slots \in Nat /\ 2 * slots <= 2 * Concurrency
    BY <1>1
  <2>2. Len(due') <= 2 * slots
    BY <1>3, <2>1, DueListsShort DEF SelectDue
  <2> QED
    BY <1>1, <2>1, <2>2 DEF SelectionBounded
<1>4. CASE SkipNext \/ LaunchNext
  BY <1>1, <1>4 DEF SkipNext, LaunchNext, Looping, SelectionBounded
<1>5. BeginTick \/ TickFails \/ BeginDrain \/ Restart \/ EndTick => UNCHANGED due \/ due' = <<>>
  BY DEF BeginTick, TickFails, BeginDrain, Restart, EndTick, memory
<1> QED
  BY <1>2, <1>3, <1>4, <1>5, ControlSteps

LEMMA DownStays ==
  ASSUME IInv, DownUntold, [Next]_vars
  PROVE  DownUntold'
<1>1. CASE UNCHANGED worker
  <2>1. ASSUME NEW e \in Endpoints, Api(e) PROVE UNCHANGED stop
    BY <2>1 DEF Api, Create, SetEnabled, SetInterval, RequestForce, Delete, ApiWrite
  <2>2. ASSUME NEW t \in Tasks, Step(t) \/ TaskFails(t) PROVE UNCHANGED stop
    BY <2>2 DEF Step, LocalStep, TaskFails, Start, Claim, Acquire, ProbeEnds, Record, Alert, OnTaskDone
  <2>3. ClockTick \/ Tick \/ TickFails \/ BeginDrain \/ Restart \/ UNCHANGED vars => UNCHANGED stop
    BY DEF ClockTick, Tick, BeginTick, SelectDue, SkipNext, LaunchNext, EndTick, TickFails,
           BeginDrain, Restart, vars
  <2>4. Drained \/ DrainTimeout \/ Crash => ~stop'
    BY DEF Drained, DrainTimeout, Crash, Vanish
  <2>5. RequestStop => worker # "down"
    BY DEF RequestStop
  <2> QED
    BY <1>1, <2>1, <2>2, <2>3, <2>4, <2>5 DEF DownUntold, Next, Shutdown
<1>2. CASE worker' # worker
  BY <1>2, ControlSteps DEF DownUntold, BeginTick, SelectDue, SkipNext, LaunchNext, EndTick,
     TickFails, BeginDrain, Restart
<1> QED
  BY <1>1, <1>2

LEMMA StopStep ==
  ASSUME IInv, SelectionBounded, DownUntold, [Next]_vars
  PROVE  StopProgress
<1> SUFFICES ASSUME stop, stop', worker' # worker \/ due' # due
             PROVE  TurnsLeft' < TurnsLeft
  BY DEF StopProgress
<1>1. /\ due \in Seq(Endpoints) /\ Len(due) \in Nat /\ Concurrency \in Nat
      /\ Len(due') \in Nat /\ Len(due') <= 2 * Concurrency
  BY SelectionStays, ConcurrencyAssumption DEF IInv, TypeOK, SelectionBounded
<1>2. CASE SelectDue
  BY <1>1, <1>2 DEF SelectDue, TurnsLeft
<1>3. CASE SkipNext \/ LaunchNext
  <2>1. Len(due') = Len(due) - 1
    BY <1>1, <1>3 DEF SkipNext, LaunchNext, Looping
  <2>2. worker \in {"loaded", "launch"} /\ worker' = "launch"
    BY <1>3 DEF SkipNext, LaunchNext, Looping
  <2> QED
    BY <1>1, <2>1, <2>2 DEF TurnsLeft
<1>4. CASE EndTick \/ TickFails \/ BeginDrain
  BY <1>1, <1>4 DEF EndTick, TickFails, BeginDrain, TurnsLeft
<1>5. ~BeginTick
  BY DEF BeginTick, MayTick
<1>6. CASE Restart
  BY <1>6 DEF Restart, DownUntold
<1> QED
  BY <1>2, <1>3, <1>4, <1>5, <1>6, ControlSteps

\* Once told to stop, the worker takes at most 2 * Concurrency + 3 steps before
\* it drains, and none of them begins a tick.
THEOREM StopIsShort ==
  Spec => [](TurnsLeft \in 0..(2 * Concurrency + 3)) /\ [][StopProgress]_vars
<1>1. Init => SelectionBounded /\ DownUntold
  BY ConcurrencyAssumption DEF Init, SelectionBounded, DownUntold
<1>2. IInv /\ SelectionBounded /\ DownUntold /\ [Next]_vars => SelectionBounded' /\ DownUntold'
  BY SelectionStays, DownStays
<1>3. IInv /\ SelectionBounded /\ DownUntold /\ [Next]_vars => [StopProgress]_vars
  BY StopStep
<1>4. IInv /\ SelectionBounded => TurnsLeft \in 0..(2 * Concurrency + 3)
  <2> SUFFICES ASSUME IInv, SelectionBounded PROVE TurnsLeft \in 0..(2 * Concurrency + 3)
    OBVIOUS
  <2>1. Len(due) \in Nat /\ Len(due) <= 2 * Concurrency /\ Concurrency \in Nat
    BY ConcurrencyAssumption DEF IInv, TypeOK, SelectionBounded
  <2> QED
    BY <2>1 DEF TurnsLeft
<1> QED
  BY <1>1, <1>2, <1>3, <1>4, Invariant, PTL DEF Spec
=============================================================================
