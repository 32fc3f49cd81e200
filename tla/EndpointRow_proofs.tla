-------------------------- MODULE EndpointRow_proofs --------------------------
(* Proofs about one row and its results, for any set of requests, any         *)
(* intervals, any retention and cap, and any number of crashes.               *)
EXTENDS EndpointRow, History_proofs

\* Results come in the order of their checked_at; a check under way is later
\* than all of them, and nothing is later than the clock.
Dated ==
  /\ Ordered(history)
  /\ \A r \in history : r.at <= now
  /\ row.last <= now
  /\ \A r \in Requests : asked[r] <= now
  /\ job \in {"probing", "probed", "reread"} =>
       /\ jobAt <= now /\ row.last < jobAt
       /\ \A r \in history : r.at < jobAt

\* Only a check writes the counters and last_*, so that the copies of a check
\* are exact there, and in the schedule unless a PATCH of the interval has
\* committed since; those of the requests may be old.
CopiesOf(old) == /\ row.total = old.total /\ row.streak = old.streak
                 /\ row.last = old.last /\ row.up = old.up
Loaded ==
  /\ job = "reread" =>
       /\ CopiesOf(jobSnap) /\ jobSnap.present
       /\ tuned # "copy" => row.interval = jobSnap.interval /\ row.next = jobSnap.next
  /\ \A r \in Requests : snap[r].last <= row.last

Counted == row.total >= row.streak

IInv == /\ TypeOK /\ Dated /\ Loaded /\ Counted
        /\ RowMatchesHistory /\ NoOrphans /\ NeverParked /\ FirstRequestOwed
        /\ NextFollowsLast

-----------------------------------------------------------------------------
(* What the operators do. *)

\* A flush leaves a column as it is in the table if the copy was not changed
\* there, and writes the copy's value otherwise.
LEMMA FlushRow ==
  ASSUME row \in Row, NEW old \in Row, NEW new \in Row
  PROVE  LET f == Flush(old, new)
         IN /\ f \in Row
            /\ f.present = IF new.present = old.present THEN row.present ELSE new.present
            /\ f.enabled = IF new.enabled = old.enabled THEN row.enabled ELSE new.enabled
            /\ f.force = IF new.force = old.force THEN row.force ELSE new.force
            /\ f.interval = IF new.interval = old.interval THEN row.interval ELSE new.interval
            /\ f.last = IF new.last = old.last THEN row.last ELSE new.last
            /\ f.next = IF new.next = old.next THEN row.next ELSE new.next
            /\ f.total = IF new.total = old.total THEN row.total ELSE new.total
            /\ f.streak = IF new.streak = old.streak THEN row.streak ELSE new.streak
            /\ f.up = IF new.up = old.up THEN row.up ELSE new.up
<1>1. DOMAIN row = {"present", "enabled", "force", "interval", "last", "next",
                    "total", "streak", "up"}
  BY DEF Row
<1> QED
  BY <1>1 DEF Flush, Row

LEMMA NewRows ==
  ASSUME TypeOK, NEW old \in Row, NEW on \in BOOLEAN, NEW i \in Intervals
  PROVE  /\ AskingForce(old) \in Row
         /\ [old EXCEPT !.force = FALSE] \in Row
         /\ [old EXCEPT !.enabled = on] \in Row
         /\ [old EXCEPT !.enabled = on, !.interval = i, !.next = NextFromLast(old, i)] \in Row
         /\ RecordedRow(old) \in Row
<1>1. i \in Nat /\ NextFromLast(old, i) \in Nat
  BY IntervalsAssumption DEF TypeOK, NextFromLast, Row, Never
<1>2. old.interval \in Nat /\ old.total \in Nat /\ old.streak \in Nat /\ jobAt \in Nat
  BY IntervalsAssumption DEF TypeOK, Row
<1>3. AskingForce(old) \in Row /\ [old EXCEPT !.force = FALSE] \in Row
  BY DEF AskingForce, Row
<1>4. [old EXCEPT !.enabled = on] \in Row
  BY DEF Row
<1>5. [old EXCEPT !.enabled = on, !.interval = i, !.next = NextFromLast(old, i)] \in Row
  BY <1>1 DEF Row
<1>6. RecordedRow(old) \in Row
  <2>1. /\ (IF jobUp THEN old.total ELSE old.total + 1) \in Nat
        /\ (IF jobUp THEN 0 ELSE old.streak + 1) \in Nat
        /\ jobAt + old.interval \in Nat
    BY <1>2
  <2>2. (old.force /\ ~ConsumedForce) \in BOOLEAN /\ jobUp \in BOOLEAN
    BY DEF TypeOK
  <2> QED
    BY <1>2, <2>1, <2>2 DEF RecordedRow, NextAfterCheck, Row
<1> QED
  BY <1>3, <1>4, <1>5, <1>6

LEMMA TrailingFinite ==
  ASSUME NEW h, Ordered(h)
  PROVE  /\ TrailingDowns(h) \in SUBSET h /\ IsFiniteSet(TrailingDowns(h))
         /\ Cardinality(TrailingDowns(h)) \in Nat
<1>1. TrailingDowns(h) \in SUBSET h
  BY DEF TrailingDowns
<1>2. IsFiniteSet(TrailingDowns(h))
  BY <1>1, FS_Subset DEF Ordered
<1> QED
  BY <1>1, <1>2, FS_CardinalityType

\* What a new result does to the run of DOWNs at the end.  After an UP it is
\* empty.  A DOWN makes it longer by one; it comes out shorter only if the
\* pruning cut into it, and then nothing else is left.
LEMMA TrailingRecorded ==
  ASSUME NEW h, Ordered(h), NEW r, r.at \in Nat, \A s \in h : s.at < r.at, NEW n \in Nat,
         LET k == Cardinality(TrailingDowns(h))
         IN n >= k /\ (n > k => TrailingDowns(h) = h)
  PROVE  LET h2 == Recorded(h, r)
             k2 == Cardinality(TrailingDowns(h2))
             n2 == IF r.up THEN 0 ELSE n + 1
         IN n2 >= k2 /\ (n2 > k2 => TrailingDowns(h2) = h2)
<1> DEFINE T == TrailingDowns(h)
           K == Recorded(h, r)
           TK == TrailingDowns(K)
<1>1. Ordered(K) /\ K \in SUBSET (h \cup {r})
  BY RecordedOrdered
<1>2. r \in K
  BY RecordedKeepsNew
<1>3. /\ Cardinality(T) \in Nat /\ IsFiniteSet(T) /\ T \in SUBSET h
      /\ Cardinality(TK) \in Nat /\ IsFiniteSet(TK) /\ TK \in SUBSET K
  BY <1>1, TrailingFinite
<1>4. ASSUME NEW s \in K, NEW t \in h \cup {r}, t.at > s.at PROVE t \in K
  BY <1>4, RecordedUpwards
<1>5. \A s \in h : s.at \in Nat /\ r.at > s.at
  BY DEF Ordered
<1>6. CASE r.up
  <2>1. TK = {}
    BY <1>1, <1>2, <1>5, <1>6 DEF TrailingDowns
  <2> QED
    BY <1>6, <2>1, FS_EmptySet
<1>7. CASE ~r.up
  <2>1. TK \in SUBSET (T \cup {r})
    BY <1>1, <1>4 DEF TrailingDowns
  <2>2. r \notin T
    BY <1>3, <1>5
  <2>3. IsFiniteSet(T \cup {r}) /\ Cardinality(T \cup {r}) = Cardinality(T) + 1
    BY <1>3, <2>2, FS_AddElement
  <2>4. Cardinality(TK) <= Cardinality(T) + 1
    BY <2>1, <2>3, FS_Subset
  <2>5. ASSUME n + 1 > Cardinality(TK), TK # K PROVE FALSE
    <3>1. PICK s \in K : s \notin TK
      BY <1>3, <2>5
    <3>2. s \in h
      BY <1>1, <1>5, <1>7, <3>1 DEF TrailingDowns
    <3>3. PICK u \in K : u.up /\ (u = s \/ u.at > s.at)
      BY <3>1 DEF TrailingDowns
    <3>4. u \in h
      BY <1>1, <1>7, <3>3
    <3>5. s \notin T
      BY <3>3, <3>4 DEF TrailingDowns
    <3>6. n = Cardinality(T)
      BY <1>3, <3>2, <3>5
    <3>7. ASSUME NEW x \in T PROVE x \in K
      <4>1. x \in h /\ ~x.up /\ ~(u.at > x.at)
        BY <3>3, <3>4, <3>7 DEF TrailingDowns
      <4>2. x.at # u.at
        BY <3>3, <3>4, <4>1 DEF Ordered
      <4>3. x.at > u.at
        BY <1>5, <3>4, <4>1, <4>2
      <4>4. x.at > s.at
        BY <1>5, <3>2, <3>3, <3>4, <4>1, <4>3
      <4> QED
        BY <1>4, <4>1, <4>4
    <3>8. T \cup {r} = TK
      BY <1>1, <1>2, <1>5, <1>7, <2>1, <3>7 DEF TrailingDowns
    <3> QED
      BY <2>3, <2>5, <3>6, <3>8
  <2> QED
    BY <1>3, <1>7, <2>4, <2>5
<1> QED
  BY <1>6, <1>7

-----------------------------------------------------------------------------
(* What the actions write. *)

\* A row after an UPDATE of the configuration or of force_check.
ConfigWritten == /\ row' \in Row /\ row'.present = row.present
                 /\ row'.total = row.total /\ row'.streak = row.streak
                 /\ row'.last = row.last /\ row'.up = row.up

LEMMA AskWrites ==
  ASSUME TypeOK, NEW r \in Requests, CommitAsk(r)
  PROVE  /\ ConfigWritten
         /\ row'.enabled = row.enabled /\ row'.interval = row.interval /\ row'.next = row.next
         /\ row.force \/ ~snap[r].force => row'.force
<1> DEFINE old == snap[r]
           new == AskingForce(old)
<1>1. row \in Row /\ old \in Row /\ new \in Row
  BY DEF TypeOK, AskingForce, Row
<1>2. /\ new.present = old.present /\ new.enabled = old.enabled /\ new.interval = old.interval
      /\ new.last = old.last /\ new.next = old.next /\ new.total = old.total
      /\ new.streak = old.streak /\ new.up = old.up /\ new.force = TRUE
  BY <1>1 DEF AskingForce, Row
<1>3. old.force \in BOOLEAN /\ row.force \in BOOLEAN
  BY <1>1 DEF Row
<1>4. row' = Flush(old, new)
  BY DEF CommitAsk
<1> HIDE DEF old, new
<1>5. row.force \/ ~old.force => row'.force
  <2>1. row'.force = IF new.force = old.force THEN row.force ELSE new.force
    BY <1>1, <1>4, FlushRow
  <2> QED
    BY <1>2, <1>3, <2>1
<1>6. ConfigWritten /\ row'.enabled = row.enabled /\ row'.interval = row.interval
      /\ row'.next = row.next
  BY <1>1, <1>2, <1>4, FlushRow DEF ConfigWritten
<1> QED
  BY <1>5, <1>6 DEF old

\* next_check_at stays as it is or comes from a last_checked_at the row has had.
LEMMA PatchWrites ==
  ASSUME TypeOK, NEW r \in Requests, Patch(r)
  PROVE  /\ ConfigWritten /\ row'.force = row.force
         /\ \/ row'.next = row.next /\ row'.interval = row.interval /\ tuned' = tuned
            \/ row'.next = row.next /\ tuned' = "copy"
            \/ tuned' = "copy" /\ \E i \in Intervals : row'.next = NextFromLast(snap[r], i)
<1> DEFINE old == snap[r]
<1>1. row \in Row /\ old \in Row
  BY DEF TypeOK
<1>2. PICK on \in BOOLEAN :
        \/ row' = Flush(old, [old EXCEPT !.enabled = on]) /\ tuned' = tuned
        \/ /\ tuned' = "copy"
           /\ \E i \in Intervals :
                row' = Flush(old, [old EXCEPT !.enabled = on, !.interval = i,
                                              !.next = NextFromLast(old, i)])
  BY DEF Patch
<1>3. CASE row' = Flush(old, [old EXCEPT !.enabled = on]) /\ tuned' = tuned
  <2> DEFINE new == [old EXCEPT !.enabled = on]
  <2>1. new \in Row
    BY <1>1 DEF Row
  <2>2. /\ new.present = old.present /\ new.force = old.force /\ new.interval = old.interval
        /\ new.last = old.last /\ new.next = old.next /\ new.total = old.total
        /\ new.streak = old.streak /\ new.up = old.up
    BY <1>1 DEF Row
  <2>3. row' = Flush(old, new) /\ tuned' = tuned
    BY <1>3
  <2> HIDE DEF new, old
  <2>4. ConfigWritten /\ row'.force = row.force /\ row'.next = row.next
        /\ row'.interval = row.interval
    BY <1>1, <2>1, <2>2, <2>3, FlushRow DEF ConfigWritten
  <2> QED
    BY <2>3, <2>4
<1>4. ASSUME NEW i \in Intervals,
             tuned' = "copy",
             row' = Flush(old, [old EXCEPT !.enabled = on, !.interval = i,
                                           !.next = NextFromLast(old, i)])
      PROVE  ConfigWritten /\ row'.force = row.force
             /\ (row'.next = row.next \/ row'.next = NextFromLast(old, i))
  <2> DEFINE new == [old EXCEPT !.enabled = on, !.interval = i, !.next = NextFromLast(old, i)]
  <2>1. new \in Row
    BY <1>1, NewRows
  <2>2. /\ new.present = old.present /\ new.force = old.force
        /\ new.last = old.last /\ new.next = NextFromLast(old, i) /\ new.total = old.total
        /\ new.streak = old.streak /\ new.up = old.up
    BY <1>1 DEF Row
  <2>3. row' = Flush(old, new)
    BY <1>4
  <2> HIDE DEF new, old
  <2> QED
    BY <1>1, <2>1, <2>2, <2>3, FlushRow DEF ConfigWritten
<1> QED
  BY <1>2, <1>3, <1>4

LEMMA ClaimWrites ==
  ASSUME TypeOK, CheckClaims
  PROVE  /\ ConfigWritten
         /\ row'.enabled = row.enabled /\ row'.interval = row.interval /\ row'.next = row.next
<1> DEFINE old == jobSnap
           new == [old EXCEPT !.force = FALSE]
<1>1. row \in Row /\ old \in Row /\ new \in Row
  BY DEF TypeOK, Row
<1>2. /\ new.present = old.present /\ new.enabled = old.enabled /\ new.interval = old.interval
      /\ new.last = old.last /\ new.next = old.next /\ new.total = old.total
      /\ new.streak = old.streak /\ new.up = old.up
  BY <1>1 DEF Row
<1>3. row' = row \/ row' = Flush(old, new)
  BY DEF CheckClaims
<1> HIDE DEF old, new
<1> QED
  BY <1>1, <1>2, <1>3, FlushRow DEF ConfigWritten

\* The result is written over an exact copy of the counters.
LEMMA RecordWrites ==
  ASSUME IInv, CheckRecords, row.present
  PROVE  /\ row' \in Row /\ row'.present
         /\ row'.enabled = row.enabled /\ row'.interval = row.interval
         /\ row'.force = row.force
         /\ row'.last = jobAt /\ row'.up = jobUp
         /\ row'.total = IF jobUp THEN row.total ELSE row.total + 1
         /\ row'.streak = IF jobUp THEN 0 ELSE row.streak + 1
         /\ row'.next = row.next \/ row'.next = jobAt + jobSnap.interval
         /\ tuned # "copy" => row'.next = jobAt + row'.interval
<1> DEFINE old == jobSnap
           new == RecordedRow(old)
<1>1. row \in Row /\ old \in Row /\ new \in Row
  BY NewRows, IntervalsAssumption DEF IInv, TypeOK
<1>2. /\ new.present = old.present /\ new.enabled = old.enabled /\ new.interval = old.interval
      /\ new.next = jobAt + old.interval /\ new.last = jobAt /\ new.up = jobUp
      /\ new.total = (IF jobUp THEN old.total ELSE old.total + 1)
      /\ new.streak = (IF jobUp THEN 0 ELSE old.streak + 1)
      /\ new.force = old.force
  BY <1>1 DEF RecordedRow, NextAfterCheck, Row, ConsumedForce
<1>3. row' = Flush(old, new)
  BY DEF CheckRecords, Recordable
<1>4. CopiesOf(old)
  BY DEF CheckRecords, IInv, Loaded
<1> HIDE DEF old, new
<1>5. row' \in Row /\ row'.present = row.present /\ row'.enabled = row.enabled
      /\ row'.interval = row.interval /\ row'.force = row.force
      /\ (row'.next = row.next \/ row'.next = jobAt + old.interval)
  BY <1>1, <1>2, <1>3, FlushRow
<1>6. row'.last = jobAt /\ row'.up = jobUp /\ row'.total = new.total /\ row'.streak = new.streak
  BY <1>1, <1>2, <1>3, <1>4, FlushRow DEF CopiesOf
<1>7. tuned # "copy" => row'.next = jobAt + row'.interval
  <2>1. tuned # "copy" => row.interval = old.interval /\ row.next = old.next
    BY DEF CheckRecords, IInv, Loaded, old
  <2>2. row.next = old.next => row'.next = new.next
    BY <1>1, <1>2, <1>3, FlushRow
  <2> QED
    BY <1>2, <1>5, <2>1, <2>2
<1> QED
  BY <1>2, <1>4, <1>5, <1>6, <1>7 DEF CopiesOf, old

-----------------------------------------------------------------------------
(* What an action keeps that leaves the results alone. *)

ClockGoesOn == now' \in Nat /\ now' >= now

LEMMA ClockStep ==
  ASSUME TypeOK, UNCHANGED now \/ ReadClock
  PROVE  ClockGoesOn /\ (ReadClock => now' = now + 1)
BY DEF TypeOK, ReadClock, ClockGoesOn

LEMMA RowUnchanged ==
  ASSUME TypeOK, row' = row
  PROVE  ConfigWritten
BY DEF TypeOK, ConfigWritten

LEMMA ResultsKept ==
  ASSUME IInv, history' = history, ConfigWritten
  PROVE  RowMatchesHistory' /\ NoOrphans' /\ Counted'
<1>1. TrailingDowns(history)' = TrailingDowns(history)
  BY DEF TrailingDowns
<1> QED
  BY <1>1 DEF IInv, RowMatchesHistory, NoOrphans, Counted, ConfigWritten

\* A schedule that a step leaves alone stays right.
LEMMA SpacingKept ==
  ASSUME IInv, ConfigWritten, row'.next = row.next, row'.interval = row.interval,
         tuned' = "no" => tuned = "no"
  PROVE  NextFollowsLast'
BY DEF IInv, NextFollowsLast, ConfigWritten

LEMMA ScheduleKept ==
  ASSUME IInv, ConfigWritten, row'.next = row.next, ClockGoesOn
  PROVE  NeverParked'
<1>1. row.next \in Nat /\ now \in Nat
  BY DEF IInv, TypeOK, Row
<1>2. CASE row.next <= now
  BY <1>1, <1>2 DEF NeverParked, ClockGoesOn
<1>3. CASE ~(row.next <= now)
  BY <1>3 DEF IInv, NeverParked, ConfigWritten
<1> QED
  BY <1>2, <1>3

\* A check that has been stamped stays later than the results.
LEMMA DatedKept ==
  ASSUME IInv, history' = history, ConfigWritten, ClockGoesOn,
         \A r \in Requests : asked'[r] = asked[r] \/ asked'[r] = now',
         \/ job' \notin {"probing", "probed", "reread"}
         \/ job \in {"probing", "probed", "reread"} /\ jobAt' = jobAt
         \/ jobAt' = now' /\ now' = now + 1
  PROVE  Dated'
<1>1. /\ now \in Nat /\ jobAt \in Nat /\ row.last \in Nat \cup {-1} /\ row'.last = row.last
      /\ \A r \in history : r.at \in Nat
      /\ \A r \in Requests : asked[r] \in Nat
  BY DEF IInv, TypeOK, Row, Never, ConfigWritten
<1>2. Ordered(history)'
  BY DEF IInv, Dated, Ordered
<1>3. (\A r \in history : r.at <= now)' /\ (row.last <= now)'
  BY <1>1 DEF IInv, Dated, ClockGoesOn
<1>4. (\A r \in Requests : asked[r] <= now)'
  BY <1>1 DEF IInv, Dated, ClockGoesOn
<1>5. (job \in {"probing", "probed", "reread"} =>
        /\ jobAt <= now /\ row.last < jobAt
        /\ \A r \in history : r.at < jobAt)'
  BY <1>1 DEF IInv, Dated, ClockGoesOn
<1> QED
  BY <1>2, <1>3, <1>4, <1>5 DEF Dated

\* A request that waited already keeps what it is owed.
LEMMA OwedKept ==
  ASSUME IInv, NEW r \in Requests, history' = history,
         asked'[r] = asked[r], snap'[r] = snap[r],
         Waits(r)' => Waits(r),
         row.force => row'.force,
         job' = job /\ jobAt' = jobAt
  PROVE  Waits(r)' /\ ~snap'[r].force => Owed(r)'
<1>1. Answer(r)' = Answer(r)
  BY DEF Answer, Since
<1> QED
  BY <1>1 DEF IInv, FirstRequestOwed, Owed

-----------------------------------------------------------------------------
(* Every action keeps the invariant. *)

LEMMA InitInv == Init => IInv
<1> SUFFICES ASSUME Init PROVE IInv
  OBVIOUS
<1>1. PICK on \in BOOLEAN, i \in Intervals : row = Created(on, i)
  BY DEF Init
<1>2. /\ row \in Row /\ row.present /\ row.last = -1 /\ row.next = 0
      /\ row.total = 0 /\ row.streak = 0
  BY <1>1 DEF Created, Row, Never
<1>3. TypeOK
  BY <1>2 DEF Init, TypeOK, RequestStates
<1>4. Dated
  BY <1>2, FS_EmptySet DEF Init, Dated, Ordered
<1>5. Loaded /\ Counted /\ NoOrphans /\ NeverParked
  BY <1>2 DEF Init, Loaded, Counted, NoOrphans, NeverParked
<1>6. TrailingDowns(history) = {}
  BY DEF Init, TrailingDowns
<1>7. RowMatchesHistory
  BY <1>2, <1>6, FS_EmptySet DEF Init, RowMatchesHistory, Never
<1>8. FirstRequestOwed /\ NextFollowsLast
  BY <1>2 DEF Init, FirstRequestOwed, Waits, NextFollowsLast, Never
<1> QED
  BY <1>3, <1>4, <1>5, <1>7, <1>8 DEF IInv

\* The actions that read, and those of the clock and of a crash.
LEMMA ReadInv ==
  ASSUME IInv,
         \/ ClockTick \/ UNCHANGED vars
         \/ \E r \in Requests : \/ Get(r) \/ FindsNothing(r) \/ Ask(r)
                               \/ PollFinds(r) \/ PollTimesOut(r)
  PROVE  IInv'
<1>1. /\ row' = row /\ history' = history /\ check' = check /\ tuned' = tuned
      /\ crashes' = crashes
  BY DEF ClockTick, vars, requests, Get, FindsNothing, Ask, PollFinds, PollTimesOut
<1>2. UNCHANGED now \/ ReadClock
  BY DEF ClockTick, vars, Get, FindsNothing, Ask, PollFinds, PollTimesOut
<1>3. ClockGoesOn /\ ConfigWritten
  BY <1>1, <1>2, ClockStep, RowUnchanged DEF IInv
<1>4. /\ at' \in [Requests -> RequestStates]
      /\ kind' = kind
      /\ snap' = snap \/ \E r \in Requests : snap' = [snap EXCEPT ![r] = row]
      /\ asked' = asked \/ \E r \in Requests : asked' = [asked EXCEPT ![r] = now']
  BY DEF ClockTick, vars, requests, Get, FindsNothing, Ask, PollFinds, PollTimesOut, Move,
         RequestStates, IInv, TypeOK
<1>5. TypeOK'
  BY <1>1, <1>3, <1>4 DEF IInv, TypeOK, check, ClockGoesOn
<1>6. Dated'
  <2>1. \A r \in Requests : asked'[r] = asked[r] \/ asked'[r] = now'
    BY <1>4 DEF IInv, TypeOK
  <2> QED
    BY <1>1, <1>3, <2>1, DatedKept DEF check
<1>7. RowMatchesHistory' /\ NoOrphans' /\ Counted' /\ NeverParked' /\ NextFollowsLast'
  BY <1>1, <1>3, ResultsKept, ScheduleKept, SpacingKept
<1>8. Loaded'
  <2>1. \A r \in Requests : snap'[r] = snap[r] \/ snap'[r] = row
    BY <1>4 DEF IInv, TypeOK
  <2>2. row.last <= row.last
    BY DEF IInv, TypeOK, Row, Never
  <2> QED
    BY <1>1, <2>1, <2>2 DEF IInv, Loaded, CopiesOf, check
<1>9. ASSUME NEW r \in Requests PROVE Waits(r)' /\ ~snap'[r].force => Owed(r)'
  <2>1. at'[r] = "waiting" =>
          at[r] = "waiting" /\ snap'[r] = snap[r] /\ asked'[r] = asked[r]
    BY DEF ClockTick, vars, requests, Get, FindsNothing, Ask, Handles, PollFinds, PollTimesOut,
           Move, IInv, TypeOK
  <2>2. CASE at'[r] = "waiting"
    BY <1>1, <2>1, <2>2, OwedKept DEF Waits, check
  <2>3. CASE at'[r] # "waiting"
    BY <2>3 DEF Waits
  <2> QED
    BY <2>2, <2>3
<1> QED
  BY <1>5, <1>6, <1>7, <1>8, <1>9 DEF IInv, FirstRequestOwed

\* A request that loaded the row with the flag clear sets it; the others lose
\* nothing, even if their copies are older.
LEMMA CommitAskInv ==
  ASSUME IInv, NEW q \in Requests, CommitAsk(q)
  PROVE  IInv'
<1>1. /\ history' = history /\ check' = check /\ crashes' = crashes /\ kind' = kind /\ snap' = snap
      /\ at' = [at EXCEPT ![q] = "waiting"] /\ asked' = asked /\ tuned' = tuned
      /\ row.present /\ now' = now /\ at[q] = "asking"
  BY DEF CommitAsk, Move
<1>2. /\ ConfigWritten /\ row'.next = row.next /\ row'.interval = row.interval
      /\ row.force \/ ~snap[q].force => row'.force
  BY AskWrites DEF IInv
<1>3. ClockGoesOn
  BY <1>1, ClockStep DEF IInv
<1>4. TypeOK'
  BY <1>1, <1>2, <1>3 DEF IInv, TypeOK, RequestStates, check, ConfigWritten, ClockGoesOn
<1>5. Dated'
  BY <1>1, <1>2, <1>3, DatedKept DEF check
<1>6. RowMatchesHistory' /\ NoOrphans' /\ Counted' /\ NeverParked' /\ NextFollowsLast'
  BY <1>1, <1>2, <1>3, ResultsKept, ScheduleKept, SpacingKept
<1>7. Loaded'
  BY <1>1, <1>2 DEF IInv, Loaded, CopiesOf, check, ConfigWritten
<1>8. ASSUME NEW r \in Requests PROVE Waits(r)' /\ ~snap'[r].force => Owed(r)'
  <2>1. CASE r = q
    BY <1>1, <1>2, <2>1 DEF Owed
  <2>2. CASE r # q
    <3>1. at'[r] = at[r] /\ asked'[r] = asked[r]
      BY <1>1, <2>2 DEF IInv, TypeOK
    <3>2. Waits(r)' => Waits(r)
      BY <1>1, <3>1 DEF Waits
    <3> QED
      BY <1>1, <1>2, <3>1, <3>2, OwedKept DEF check
  <2> QED
    BY <2>1, <2>2
<1> QED
  BY <1>4, <1>5, <1>6, <1>7, <1>8 DEF IInv, FirstRequestOwed

\* A PATCH computes next_check_at from a last_checked_at that is no later than
\* the one in the row, so that it is never too far ahead.
LEMMA PatchInv ==
  ASSUME IInv, NEW q \in Requests, Patch(q)
  PROVE  IInv'
<1>1. /\ history' = history /\ check' = check /\ crashes' = crashes /\ kind' = kind /\ snap' = snap
      /\ at' = [at EXCEPT ![q] = "answered"] /\ asked' = asked /\ now' = now
      /\ row.present
  BY DEF Patch, Move
<1>2. /\ ConfigWritten /\ row'.force = row.force
      /\ \/ row'.next = row.next /\ row'.interval = row.interval /\ tuned' = tuned
         \/ row'.next = row.next /\ tuned' = "copy"
         \/ tuned' = "copy" /\ \E i \in Intervals : row'.next = NextFromLast(snap[q], i)
  BY PatchWrites DEF IInv
<1>3. ClockGoesOn
  BY <1>1, ClockStep DEF IInv
<1>4. TypeOK'
  BY <1>1, <1>2 DEF IInv, TypeOK, RequestStates, check, ConfigWritten
<1>5. Dated' /\ RowMatchesHistory' /\ NoOrphans' /\ Counted'
  BY <1>1, <1>2, <1>3, DatedKept, ResultsKept DEF check
<1>6. NeverParked'
  <2>1. CASE row'.next = row.next
    BY <1>2, <1>3, <2>1, ScheduleKept
  <2>2. ASSUME NEW i \in Intervals, row'.next = NextFromLast(snap[q], i) PROVE NeverParked'
    <3>1. /\ snap[q].last <= row.last /\ row'.last = row.last
          /\ snap[q].last \in Nat \cup {-1} /\ row.last \in Nat \cup {-1}
          /\ i \in Nat /\ now \in Nat
      BY <1>2, IntervalsAssumption DEF IInv, Loaded, TypeOK, Row, Never, ConfigWritten
    <3>2. CASE snap[q].last = -1
      BY <1>1, <2>2, <3>1, <3>2 DEF NextFromLast, Never, NeverParked
    <3>3. CASE snap[q].last # -1
      <4>1. row'.last # -1 /\ row'.next <= row'.last + i
        BY <2>2, <3>1, <3>3 DEF NextFromLast, Never
      <4> QED
        BY <4>1 DEF NeverParked, Never
    <3> QED
      BY <3>2, <3>3
  <2> QED
    BY <1>2, <2>1, <2>2
<1>7. Loaded'
  BY <1>1, <1>2 DEF IInv, Loaded, CopiesOf, check, ConfigWritten
<1>8. ASSUME NEW r \in Requests PROVE Waits(r)' /\ ~snap'[r].force => Owed(r)'
  <2>1. Waits(r)' => Waits(r)
    BY <1>1 DEF IInv, TypeOK, Waits
  <2> QED
    BY <1>1, <1>2, <2>1, OwedKept DEF check
<1>9. NextFollowsLast'
  BY <1>2, SpacingKept DEF NextFollowsLast
<1> QED
  BY <1>4, <1>5, <1>6, <1>7, <1>8, <1>9 DEF IInv, FirstRequestOwed

LEMMA DeleteInv ==
  ASSUME IInv, NEW q \in Requests, Delete(q)
  PROVE  IInv'
<1>1. /\ history' = {} /\ check' = check /\ crashes' = crashes /\ kind' = kind /\ snap' = snap
      /\ at' = [at EXCEPT ![q] = "answered"] /\ asked' = asked /\ now' = now
      /\ row' = [row EXCEPT !.present = FALSE] /\ tuned' = tuned
  BY DEF Delete, Move
<1>2. /\ row' \in Row /\ ~row'.present /\ row'.total = row.total /\ row'.streak = row.streak
      /\ row'.last = row.last /\ row'.up = row.up
      /\ row'.next = row.next /\ row'.interval = row.interval
  BY <1>1 DEF IInv, TypeOK, Row
<1>3. TypeOK'
  BY <1>1, <1>2 DEF IInv, TypeOK, RequestStates, check
<1>4. Dated' /\ Loaded' /\ Counted'
  BY <1>1, <1>2, FS_EmptySet DEF IInv, Dated, Ordered, Loaded, CopiesOf, Counted, check
<1>5. RowMatchesHistory' /\ NoOrphans' /\ NeverParked' /\ FirstRequestOwed' /\ NextFollowsLast'
  BY <1>1, <1>2 DEF RowMatchesHistory, NoOrphans, NeverParked, FirstRequestOwed, Waits,
                    NextFollowsLast, IInv
<1> QED
  BY <1>3, <1>4, <1>5 DEF IInv

\* The steps of a check that write no result.
LEMMA CheckInv ==
  ASSUME IInv,
         \/ CheckReads \/ CheckClaims \/ CheckStarts \/ CheckEnds
         \/ CheckRaises \/ CheckRereads \/ Crash
  PROVE  IInv'
<1>1. history' = history /\ UNCHANGED requests
  BY DEF CheckReads, CheckClaims, CheckStarts, CheckEnds, CheckRaises, CheckRereads, Crash
<1>2. ClockGoesOn
  BY ClockStep DEF CheckReads, CheckClaims, CheckStarts, CheckEnds, CheckRaises, CheckRereads,
                   Crash, IInv
<1>3. ConfigWritten /\ row'.next = row.next /\ row'.interval = row.interval
  <2>1. CASE CheckClaims
    BY <2>1, ClaimWrites DEF IInv
  <2>2. CASE ~CheckClaims
    BY <2>2, RowUnchanged DEF CheckReads, CheckStarts, CheckEnds, CheckRaises, CheckRereads,
                              Crash, IInv
  <2> QED
    BY <2>1, <2>2
<1>4. TypeOK'
  <2>1. /\ job' \in {"idle", "read", "claimed", "probing", "probed", "reread"}
        /\ jobSnap' \in Row /\ jobAt' \in Nat /\ jobUp' \in BOOLEAN
    BY <1>2 DEF CheckReads, CheckClaims, CheckStarts, CheckEnds, CheckRaises, CheckRereads,
                Crash, IInv, TypeOK, ClockGoesOn
  <2>2. crashes' \in Nat /\ tuned' \in {"no", "row", "copy"}
    BY DEF CheckReads, CheckClaims, CheckStarts, CheckEnds, CheckRaises, CheckRereads,
           Crash, IInv, TypeOK
  <2> QED
    BY <1>1, <1>2, <1>3, <2>1, <2>2 DEF IInv, TypeOK, requests, ConfigWritten, ClockGoesOn
<1>9. NextFollowsLast'
  <2>1. tuned' = "no" => tuned = "no"
    BY DEF CheckReads, CheckClaims, CheckStarts, CheckEnds, CheckRaises, CheckRereads, Crash
  <2> QED
    BY <1>3, <2>1, SpacingKept
<1>5. Dated'
  <2>1. \/ job' \notin {"probing", "probed", "reread"}
        \/ job \in {"probing", "probed", "reread"} /\ jobAt' = jobAt
        \/ jobAt' = now' /\ now' = now + 1
    BY DEF CheckReads, CheckClaims, CheckStarts, CheckEnds, CheckRaises, CheckRereads, Crash,
           ReadClock
  <2> QED
    BY <1>1, <1>2, <1>3, <2>1, DatedKept DEF requests
<1>6. RowMatchesHistory' /\ NoOrphans' /\ Counted' /\ NeverParked'
  BY <1>1, <1>2, <1>3, ResultsKept, ScheduleKept
<1>7. Loaded'
  <2>1. job' = "reread" => row' = row /\ jobSnap' = row /\ row.present
    BY DEF CheckReads, CheckClaims, CheckStarts, CheckEnds, CheckRaises, CheckRereads, Crash
  <2> QED
    BY <1>1, <1>3, <2>1 DEF IInv, Loaded, CopiesOf, requests, ConfigWritten
<1>8. ASSUME NEW r \in Requests PROVE Waits(r)' /\ ~snap'[r].force => Owed(r)'
  <2> SUFFICES ASSUME Waits(r)', ~snap'[r].force PROVE Owed(r)'
    OBVIOUS
  <2>1. Waits(r) /\ ~snap[r].force /\ crashes' = 0
    BY <1>1, <1>3 DEF Waits, requests, ConfigWritten, CheckReads, CheckClaims, CheckStarts,
                      CheckEnds, CheckRaises, CheckRereads, Crash, IInv, TypeOK
  <2>2. Owed(r) /\ Answer(r)' = Answer(r) /\ row.present
    BY <1>1, <2>1 DEF IInv, FirstRequestOwed, Answer, Since, requests, Waits
  <2>3. asked[r] <= now /\ asked'[r] = asked[r] /\ asked[r] \in Nat /\ now \in Nat
    BY <1>1 DEF IInv, Dated, TypeOK, requests
  <2>4. CASE CheckReads \/ CheckEnds
    BY <2>2, <2>3, <2>4 DEF CheckReads, CheckEnds, Owed
  <2>5. CASE CheckClaims
    BY <2>2, <2>5 DEF CheckClaims, Owed
  <2>6. CASE CheckStarts \/ CheckRaises
    <3>1. jobAt' = now + 1 /\ job' \in {"probing", "probed"}
      BY <2>6 DEF CheckStarts, CheckRaises, ReadClock
    <3>2. jobAt' >= asked'[r]
      BY <2>3, <3>1
    <3> QED
      BY <3>1, <3>2 DEF Owed
  <2>7. CASE CheckRereads
    BY <2>2, <2>3, <2>7 DEF CheckRereads, Owed
  <2>8. CASE Crash
    BY <2>1, <2>8 DEF Crash, IInv, TypeOK
  <2> QED
    BY <2>4, <2>5, <2>6, <2>7, <2>8
<1> QED
  BY <1>4, <1>5, <1>6, <1>7, <1>8, <1>9 DEF IInv, FirstRequestOwed

\* record_check: the new result is the newest, survives the pruning, and is
\* what the row's columns say.
LEMMA RecordInv ==
  ASSUME IInv, CheckRecords
  PROVE  IInv'
<1> DEFINE new == [at |-> jobAt, up |-> jobUp]
<1>1. /\ job = "reread" /\ job' = "idle"
      /\ UNCHANGED <<now, at, kind, snap, asked, jobSnap, jobAt, jobUp, crashes>>
  BY DEF CheckRecords, requests
<1>2. CASE ~row.present
  <2>1. row' = row /\ history' = history /\ tuned' = tuned
    BY <1>2 DEF CheckRecords, Recordable
  <2>2. ConfigWritten /\ ClockGoesOn
    BY <1>1, <2>1, RowUnchanged, ClockStep DEF IInv
  <2>3. TypeOK' /\ Loaded'
    BY <1>1, <2>1 DEF IInv, TypeOK, Loaded
  <2>4. Dated' /\ RowMatchesHistory' /\ NoOrphans' /\ Counted' /\ NeverParked' /\ NextFollowsLast'
    BY <1>1, <2>1, <2>2, DatedKept, ResultsKept, ScheduleKept, SpacingKept
  <2>5. FirstRequestOwed'
    BY <1>2, <2>1 DEF FirstRequestOwed, Waits
  <2> QED
    BY <2>3, <2>4, <2>5 DEF IInv
<1>3. CASE row.present
  <2>1. /\ history' = Recorded(history, new)
        /\ tuned' = IF tuned = "copy" THEN tuned ELSE "no"
    BY <1>3 DEF CheckRecords, Recordable
  <2>2. /\ row' \in Row /\ row'.present
        /\ row'.force = row.force
        /\ row'.last = jobAt /\ row'.up = jobUp
        /\ row'.total = IF jobUp THEN row.total ELSE row.total + 1
        /\ row'.streak = IF jobUp THEN 0 ELSE row.streak + 1
        /\ row'.next = row.next \/ row'.next = jobAt + jobSnap.interval
        /\ tuned # "copy" => row'.next = jobAt + row'.interval
    BY <1>3, RecordWrites
  <2>3. /\ now \in Nat /\ jobAt \in Nat /\ jobUp \in BOOLEAN /\ jobAt <= now /\ row.last < jobAt
        /\ Ordered(history) /\ history \subseteq [at : Nat, up : BOOLEAN]
        /\ new.at = jobAt /\ new.up = jobUp /\ new \in [at : Nat, up : BOOLEAN]
        /\ \A s \in history : s.at < new.at
        /\ row.total \in Nat /\ row.streak \in Nat /\ row.total >= row.streak /\ row.next \in Nat
        /\ row.last \in Nat \cup {-1}
    BY <1>1 DEF IInv, Dated, TypeOK, Row, Counted, Never
  <2> HIDE DEF new
  <2>4. /\ Ordered(history') /\ history' \subseteq history \cup {new} /\ new \in history'
    BY <2>1, <2>3, RecordedOrdered, RecordedKeepsNew
  <2>5. \A s \in history' : s.at <= jobAt /\ (s.at = jobAt => s = new)
    BY <2>3, <2>4
  <2>6. TypeOK'
    BY <1>1, <2>1, <2>2, <2>3, <2>4 DEF IInv, TypeOK
  <2>7. Dated'
    <3>1. (\A r \in history : r.at <= now)'
      BY <1>1, <2>3, <2>4, <2>5 DEF Ordered
    <3> QED
      BY <1>1, <2>2, <2>3, <2>4, <3>1 DEF IInv, Dated
  <2>8. Loaded'
    <3>1. ASSUME NEW r \in Requests PROVE snap[r].last <= row'.last
      <4>1. snap[r].last \in Nat \cup {-1} /\ snap[r].last <= row.last
        BY DEF IInv, TypeOK, Row, Never, Loaded
      <4> QED
        BY <2>2, <2>3, <4>1
    <3> QED
      BY <1>1, <3>1 DEF Loaded
  <2>9. Counted' /\ NoOrphans'
    BY <2>2, <2>3 DEF Counted, NoOrphans
  <2>10. RowMatchesHistory'
    <3>1. LET k == Cardinality(TrailingDowns(history))
          IN row.streak >= k /\ (row.streak > k => TrailingDowns(history) = history)
      BY <1>3 DEF IInv, RowMatchesHistory
    <3>2. LET k == Cardinality(TrailingDowns(history'))
          IN row'.streak >= k /\ (row'.streak > k => TrailingDowns(history') = history')
      BY <2>1, <2>2, <2>3, <3>1, TrailingRecorded
    <3>3. row'.last # -1 /\ history' # {}
      BY <2>2, <2>3, <2>4
    <3>4. \A r \in history' : r.at <= row'.last /\ (r.at = row'.last => r.up = row'.up)
      BY <2>2, <2>3, <2>5
    <3>5. \E r \in history' : r.at = row'.last
      BY <2>2, <2>3, <2>4
    <3>6. row'.total >= row'.streak
      BY <2>9 DEF Counted
    <3> QED
      BY <3>2, <3>3, <3>4, <3>5, <3>6 DEF RowMatchesHistory, Never
  <2>11. NeverParked'
    <3>1. CASE row'.next = row.next
      <4>1. CASE row.next <= now
        BY <1>1, <3>1, <4>1 DEF NeverParked
      <4>2. CASE ~(row.next <= now)
        <5>1. PICK i \in Intervals : row.next <= row.last + i
          BY <1>3, <4>2 DEF IInv, NeverParked
        <5>2. i \in Nat
          BY IntervalsAssumption
        <5>3. row'.last # Never /\ row'.next <= row'.last + i
          BY <2>2, <2>3, <3>1, <5>1, <5>2 DEF Never
        <5> QED
          BY <5>3 DEF NeverParked
      <4> QED
        BY <4>1, <4>2
    <3>2. CASE row'.next = jobAt + jobSnap.interval
      <4>1. jobSnap.interval \in Intervals /\ jobSnap.interval \in Nat
        BY IntervalsAssumption DEF IInv, TypeOK, Row
      <4>2. row'.last # Never /\ row'.next <= row'.last + jobSnap.interval
        BY <2>2, <2>3, <3>2, <4>1 DEF Never
      <4> QED
        BY <4>1, <4>2 DEF NeverParked
    <3> QED
      BY <2>2, <3>1, <3>2
  <2>12. FirstRequestOwed'
    <3> SUFFICES ASSUME NEW r \in Requests, Waits(r)', ~snap'[r].force PROVE Owed(r)'
      BY DEF FirstRequestOwed
    <3>1. Owed(r)
      BY <1>1, <1>3 DEF IInv, FirstRequestOwed, Waits
    <3>2. CASE row.force
      BY <2>2, <3>2 DEF Owed
    <3>3. CASE ~row.force
      <4>1. asked[r] \in Nat
        BY DEF IInv, TypeOK
      <4>2. jobAt >= asked[r]
        <5>1. CASE jobAt >= asked[r]
          BY <5>1
        <5>2. CASE Answer(r) # {}
          BY <2>3, <4>1, <5>2 DEF Answer, Since, Ordered
        <5> QED
          BY <1>1, <3>1, <3>3, <5>1, <5>2 DEF Owed
      <4>3. new \in Answer(r)'
        BY <1>1, <2>3, <2>4, <4>2 DEF Answer, Since
      <4> QED
        BY <4>3 DEF Owed
    <3> QED
      BY <3>2, <3>3
  <2>13. NextFollowsLast'
    BY <2>1, <2>2 DEF NextFollowsLast
  <2> QED
    BY <2>6, <2>7, <2>8, <2>9, <2>10, <2>11, <2>12, <2>13 DEF IInv
<1> QED
  BY <1>2, <1>3

LEMMA StepInv == IInv /\ [Next]_vars => IInv'
<1> SUFFICES ASSUME IInv, [Next]_vars PROVE IInv'
  OBVIOUS
<1>1. ASSUME NEW r \in Requests, Handler(r) PROVE IInv'
  BY <1>1, ReadInv, CommitAskInv, PatchInv, DeleteInv DEF Handler
<1>2. CASE Check \/ Crash
  BY <1>2, CheckInv, RecordInv DEF Check
<1>3. CASE ClockTick \/ UNCHANGED vars
  BY <1>3, ReadInv
<1> QED
  BY <1>1, <1>2, <1>3 DEF Next

\* The inductive invariant of a row that handlers and a check share.
THEOREM Invariant == Spec => []IInv
<1>1. Init => IInv
  BY InitInv
<1>2. IInv /\ [Next]_vars => IInv'
  BY StepInv
<1> QED
  BY <1>1, <1>2, PTL DEF Spec

\* Every variable keeps its type; next_check_at is never null.
THEOREM TypeCorrect == Spec => []TypeOK
<1>1. IInv => TypeOK
  BY DEF IInv
<1> QED
  BY <1>1, Invariant, PTL

\* However PATCHes, manual checks and deletions fall between the steps of a
\* check, the row's columns say what the results say.
THEOREM RowTellsHistory == Spec => []RowMatchesHistory
<1>1. IInv => RowMatchesHistory
  BY DEF IInv
<1> QED
  BY <1>1, Invariant, PTL

\* A deleted endpoint has no results, even if a check of it ends later.
THEOREM NothingOrphaned == Spec => []NoOrphans
<1>1. IInv => NoOrphans
  BY DEF IInv
<1> QED
  BY <1>1, Invariant, PTL

\* No stale copy puts the next check off by more than an interval.
THEOREM NothingParked == Spec => []NeverParked
<1>1. IInv => NeverParked
  BY DEF IInv
<1> QED
  BY <1>1, Invariant, PTL

\* A PATCH of the interval disturbs the schedule no longer than to the first
\* check that is recorded on a row loaded after it.
THEOREM SpacingRestored == Spec => []NextFollowsLast
<1>1. IInv => NextFollowsLast
  BY DEF IInv
<1> QED
  BY <1>1, Invariant, PTL

\* A manual check whose request loaded the row with force_check clear has its
\* result or is sure of one, while no check crashes.
THEOREM RequestsOwed == Spec => []FirstRequestOwed
<1>1. IInv => FirstRequestOwed
  BY DEF IInv
<1> QED
  BY <1>1, Invariant, PTL

\* No step, whatever copy it writes from, lowers total_failures.
THEOREM TotalOnlyGrows == Spec => TotalNeverDecreases
<1>1. IInv /\ [Next]_vars => (row'.total >= row.total) \/ UNCHANGED vars
  <2> SUFFICES ASSUME IInv, Next PROVE row'.total >= row.total
    BY DEF vars
  <2>1. row.total \in Nat
    BY DEF IInv, TypeOK, Row
  <2>2. row' = row => row'.total >= row.total
    BY <2>1
  <2>3. ASSUME NEW r \in Requests, Handler(r) PROVE row'.total = row.total
    BY <2>3, AskWrites, PatchWrites DEF Handler, Get, FindsNothing, Ask, PollFinds, PollTimesOut,
       Delete, IInv, ConfigWritten, TypeOK, Row
  <2>4. CASE CheckClaims
    BY <2>1, <2>4, ClaimWrites DEF IInv, ConfigWritten
  <2>5. CASE CheckRecords
    BY <2>1, <2>2, <2>5, RecordWrites DEF CheckRecords, Recordable
  <2> QED
    BY <2>1, <2>2, <2>3, <2>4, <2>5 DEF Next, Check, CheckReads, CheckStarts, CheckEnds,
       CheckRaises, CheckRereads, Crash, ClockTick
<1>2. IInv /\ [Next]_vars => [row'.total >= row.total]_vars
  BY <1>1
<1> QED
  BY <1>2, Invariant, PTL DEF Spec, TotalNeverDecreases

\* No step of a check changes enabled or interval_seconds, which a PATCH may
\* have written since the check loaded the row.
THEOREM ConfigKept == Spec => ConfigSurvives
<1>1. ASSUME IInv, Next, job' # job
      PROVE  row'.enabled = row.enabled /\ row'.interval = row.interval
  <2>1. Check \/ Crash
    BY <1>1 DEF Next, Handler, Get, FindsNothing, Ask, CommitAsk, PollFinds, PollTimesOut, Patch, Delete,
       ClockTick, check
  <2>2. CASE CheckClaims
    BY <1>1, <2>2, ClaimWrites DEF IInv
  <2>3. CASE CheckRecords
    BY <1>1, <2>3, RecordWrites DEF CheckRecords, Recordable
  <2> QED
    BY <2>1, <2>2, <2>3 DEF Check, CheckReads, CheckStarts, CheckEnds, CheckRaises,
       CheckRereads, Crash
<1>2. IInv /\ [Next]_vars =>
        [job' # job => row'.enabled = row.enabled /\ row'.interval = row.interval]_vars
  BY <1>1
<1> QED
  BY <1>2, Invariant, PTL DEF Spec, ConfigSurvives
=============================================================================
