-------------------------- MODULE Monitoring_proofs --------------------------
(* The safety properties of Monitoring, for any set of URLs and of answers,   *)
(* any limits and any page size.                                              *)
EXTENDS Monitoring, History_proofs, SequenceTheorems

-----------------------------------------------------------------------------
(* The inductive invariant. *)

ProbeTypeOK ==
  /\ now \in 0..MaxNow /\ url \in Registrable /\ step \in Steps
  /\ addresses \in Seq(Address) /\ peers \subseteq Address
  /\ remaining \in 0..MaxBytes /\ status \in Statuses
  /\ checkedAt \in 0..MaxNow /\ seenAt \in 0..MaxNow

StoreTypeOK ==
  /\ present \in BOOLEAN
  /\ results \subseteq Result /\ Cardinality(results) <= MaxRecords

\* A probe connects only to the first of the addresses it has validated.
Vetted ==
  /\ step \in {"idle", "claimed", "started"} => peers = {}
  /\ step = "validated" => addresses # <<>>
  /\ addresses # <<>> =>
       AllAllowed(addresses) /\ \E answer \in Answers : addresses = Resolved(url, answer)
  /\ peers # {} => addresses # <<>> /\ peers = {addresses[1]}

Settled == {"body", "data", "chunk", "closing", "probed"}

\* A probe is stamped before it is settled, and after every result that has
\* been recorded, those the reader remembers included.
Dated ==
  /\ Probes => checkedAt <= now
  /\ step \in Settled => checkedAt <= seenAt
  /\ Ordered(results)
  /\ \A r \in results : r.at <= r.seen
  /\ \A r \in results \cup reader.base :
       r.at <= now /\ (Probes => r.at < checkedAt)

\* What the walk has still to find is not on a page it has passed.
WalkOn ==
  /\ reader.doing \in {"rows", "between"} => reader.page \in Nat \ {0}
  /\ \A r \in reader.base \cap results :
       /\ reader.doing = "rows" =>
            r \in reader.found \/ Rank(results, r) >= (reader.page - 1) * PageSize
       /\ reader.doing = "between" =>
            r \in reader.found \/ Rank(results, r) >= reader.page * PageSize
       /\ reader.doing = "walked" => r \in reader.found

\* What was counted in the total, and is still there, is in the window of the
\* second count too.
UptimeOn ==
  /\ reader.doing \in {"up", "shown"} => \A r \in reader.base : r.at >= reader.start
  /\ reader.doing = "shown" =>
       /\ IsFiniteSet(reader.found)
       /\ \A r \in reader.base \cap results : r.up => r \in reader.found

IInv == TypeOK /\ Vetted /\ Dated /\ WalkOn /\ UptimeOn /\ FreshAnswer

LEMMA TypeParts ==
  TypeOK <=> ProbeTypeOK /\ StoreTypeOK /\ reader \in Reader /\ manual \in Manual
BY DEF TypeOK, ProbeTypeOK, StoreTypeOK

-----------------------------------------------------------------------------
(* The initial state. *)

LEMMA InitIInv == Init => IInv
<1> SUFFICES ASSUME Init PROVE IInv
  OBVIOUS
<1>1. TypeOK
  <2>1. /\ results = {} /\ Cardinality(results) = 0 /\ <<>> \in Seq(Address)
    BY FS_EmptySet DEF Init
  <2>2. NoReader \in Reader
    BY DEF NoReader, Reader
  <2>3. NoManual \in Manual
    BY ClockAssumption DEF NoManual, Manual
  <2> QED
    BY <2>1, <2>2, <2>3, ClockAssumption, BodyAssumption, HistoryAssumption
    DEF Init, ProbeInit, NoProbe, TypeOK, Steps, Statuses
<1>2. Vetted
  BY DEF Init, ProbeInit, NoProbe, Vetted
<1>3. results = {} /\ reader = NoReader /\ reader.base = {} /\ reader.doing = "idle"
      /\ manual.doing = "idle" /\ step = "idle"
  BY DEF Init, ProbeInit, NoProbe, NoReader, NoManual
<1>4. Dated
  BY <1>3, FS_EmptySet DEF Dated, Probes, Settled, Ordered
<1>5. WalkOn /\ UptimeOn /\ FreshAnswer
  BY <1>3 DEF WalkOn, UptimeOn, FreshAnswer
<1> QED
  BY <1>1, <1>2, <1>4, <1>5 DEF IInv

-----------------------------------------------------------------------------
(* Steps of the probe alone. *)

\* While results, reader and manual stay, their parts of the invariant stay.
LEMMA KeepClients ==
  ASSUME IInv, UNCHANGED <<present, results, reader, manual>>
  PROVE  (ProbeTypeOK' => TypeOK') /\ WalkOn' /\ UptimeOn' /\ FreshAnswer'
<1>1. ProbeTypeOK' => TypeOK'
  BY DEF IInv, TypeOK, ProbeTypeOK
<1> QED
  BY <1>1 DEF IInv, WalkOn, UptimeOn, FreshAnswer

LEMMA ClockTickIInv == IInv /\ ClockTick => IInv'
<1> SUFFICES ASSUME IInv, ClockTick PROVE IInv'
  OBVIOUS
<1>1. ProbeTypeOK' /\ Vetted'
  BY TypeParts, ClockAssumption DEF IInv, ProbeTypeOK, Vetted, ClockTick, ReadClock, probe
<1>2. Dated'
  BY ClockAssumption DEF IInv, TypeOK, Result, Reader, Dated, Probes, Settled, ClockTick, ReadClock, probe
<1> QED
  BY <1>1, <1>2, KeepClients DEF IInv, ClockTick

LEMMA ClaimIInv == IInv /\ Claim => IInv'
<1> SUFFICES ASSUME IInv, Claim PROVE IInv'
  OBVIOUS
<1>1. ProbeTypeOK' /\ Vetted'
  BY TypeParts DEF IInv, ProbeTypeOK, Vetted, Claim, Steps, AllAllowed, Resolved
<1>2. Dated'
  BY DEF IInv, Dated, Probes, Settled, Claim
<1> QED
  BY <1>1, <1>2, KeepClients DEF IInv, Claim

LEMMA BeginIInv == IInv /\ Begin => IInv'
<1> SUFFICES ASSUME IInv, Begin PROVE IInv'
  OBVIOUS
<1>1. ProbeTypeOK' /\ Vetted'
  BY TypeParts, ClockAssumption
  DEF IInv, ProbeTypeOK, Vetted, Begin, Start, ReadClock, Steps
<1>2. Dated'
  BY ClockAssumption DEF IInv, TypeOK, Result, Reader, Dated, Probes, Settled, Begin, Start, ReadClock
<1> QED
  BY <1>1, <1>2, KeepClients DEF IInv, Begin

\* The answer to a look-up is taken as a whole or not at all.
LEMMA ValidateVetted ==
  ASSUME IInv, Validate
  PROVE  addresses' \in Seq(Address) /\ Vetted'
<1>1. PICK answer \in Answers :
        Validates(url, answer) /\ addresses' = Resolved(url, answer)
  BY DEF Validate
<1>2. url \in Url /\ url.address \in Address
  BY UrlsAssumption DEF IInv, TypeOK, Registrable, Url
<1>3. addresses' \in Seq(Address)
  BY <1>1, <1>2, UrlsAssumption DEF Resolved
<1>4. AllAllowed(addresses') /\ addresses' # <<>>
  BY <1>1 DEF Validates
<1>5. peers' = {} /\ step' = "validated" /\ url' = url
  BY DEF IInv, Vetted, Validate
<1>6. AllAllowed(addresses)' /\ \E a \in Answers : addresses' = Resolved(url, a)'
  BY <1>1, <1>4, <1>5 DEF AllAllowed, Resolved
<1> QED
  BY <1>3, <1>4, <1>5, <1>6 DEF Vetted

LEMMA ConnectVetted ==
  ASSUME IInv, Connect
  PROVE  peers' \subseteq Address /\ Vetted'
<1>1. addresses # <<>> /\ addresses \in Seq(Address)
  BY DEF IInv, TypeOK, Vetted, Connect
<1>2. addresses[1] \in Address
  BY <1>1
<1>3. peers' = peers \cup {addresses[1]}
  BY DEF Connect, Targets
<1>4. peers \subseteq {addresses[1]} /\ peers' = {addresses[1]}
  BY <1>3 DEF IInv, Vetted
<1>5. UNCHANGED <<url, addresses>> /\ step' = "connected"
  BY DEF Connect
<1>6. AllAllowed(addresses)' /\ \E a \in Answers : addresses' = Resolved(url, a)'
  BY <1>1, <1>5 DEF IInv, Vetted, AllAllowed, Resolved
<1> QED
  BY <1>1, <1>2, <1>4, <1>5, <1>6 DEF Vetted

LEMMA GoOnIInv == IInv /\ GoOn => IInv'
<1> SUFFICES ASSUME IInv, GoOn PROVE IInv'
  OBVIOUS
<1>0. ProbeTypeOK
  BY TypeParts DEF IInv
<1>1. ProbeTypeOK' /\ Vetted'
  <2>1. CASE Validate
    BY <1>0, <2>1, ValidateVetted DEF ProbeTypeOK, Validate, Steps
  <2>2. CASE Connect
    BY <1>0, <2>2, ConnectVetted DEF ProbeTypeOK, Connect, Steps
  <2>3. CASE Fail
    BY <1>0, <2>3 DEF IInv, ProbeTypeOK, Vetted, Fail, Steps, Statuses, AllAllowed, Resolved
  <2>4. CASE Respond
    BY <1>0, <2>4 DEF IInv, ProbeTypeOK, Vetted, Respond, Steps, Statuses, AllAllowed, Resolved
  <2>5. CASE Receive
    <3>1. remaining' \in 0..MaxBytes
      BY <1>0, <2>5, BodyAssumption DEF ProbeTypeOK, Receive
    <3> QED
      BY <1>0, <2>5, <3>1 DEF IInv, ProbeTypeOK, Vetted, Receive, Steps
  <2>6. CASE Count \/ EndOfBody \/ Close
    BY <1>0, <2>6 DEF IInv, ProbeTypeOK, Vetted, Count, EndOfBody, Close, Steps
  <2>7. CASE Raise
    BY <1>0, <2>7, ClockAssumption DEF IInv, ProbeTypeOK, Vetted, Raise, ReadClock, Steps,
                                       Statuses, AllAllowed, Resolved
  <2>8. CASE Read \/ ReadAgain
    BY <1>0, <2>8 DEF IInv, ProbeTypeOK, Vetted, Read, ReadAgain, Steps
  <2> QED
    BY <2>1, <2>2, <2>3, <2>4, <2>5, <2>6, <2>7, <2>8 DEF GoOn, ProbeGoesOn
<1>2. ASSUME ~Raise
      PROVE
        /\ Probes /\ UNCHANGED <<now, checkedAt, results, reader>>
        /\ \/ step \notin Settled /\ step' \notin Settled
           \/ seenAt' = now
           \/ step \in Settled /\ seenAt' = seenAt
  BY <1>2 DEF GoOn, ProbeGoesOn, Validate, Connect, Read, ReadAgain, Fail, MayRaise, Respond,
              Receive, Count, EndOfBody, Close, Probes, Settled
<1>3. Dated'
  <2>1. CASE ~Raise
    BY <1>2, <2>1 DEF IInv, Dated, Probes, Settled
  <2>2. CASE Raise
    BY <2>2, ClockAssumption
    DEF IInv, TypeOK, Result, Reader, Dated, Probes, Settled, GoOn, Raise, MayRaise, ReadClock
  <2> QED
    BY <2>1, <2>2
<1> QED
  BY <1>1, <1>3, KeepClients DEF IInv, GoOn

\* What Reset establishes.
LEMMA ResetProbe ==
  ASSUME IInv, Reset
  PROVE  ProbeTypeOK' /\ Vetted' /\ step' = "idle" /\ now' = now
BY TypeParts, BodyAssumption, ClockAssumption, EmptySeq
DEF IInv, ProbeTypeOK, Vetted, Reset, Steps, Statuses

LEMMA LoseIInv == IInv /\ Lose => IInv'
<1> SUFFICES ASSUME IInv, Lose PROVE IInv'
  OBVIOUS
<1>1. ProbeTypeOK' /\ Vetted' /\ step' = "idle" /\ now' = now
  BY ResetProbe DEF Lose
<1>2. Dated'
  BY <1>1 DEF IInv, Dated, Probes, Settled, Lose
<1> QED
  BY <1>1, <1>2, KeepClients DEF IInv, Lose

-----------------------------------------------------------------------------
(* Steps that change the results. *)

\* The result of a probe is a new one, and newer than all that are known.
LEMMA RecordIInv == IInv /\ Record => IInv'
<1> SUFFICES ASSUME IInv, Record PROVE IInv'
  OBVIOUS
<1> DEFINE new == [at |-> Stamp, up |-> IsUp, seen |-> seenAt]
<1>0. /\ ProbeTypeOK' /\ Vetted' /\ step' = "idle" /\ now' = now
      /\ step = "probed" /\ UNCHANGED <<present, reader, manual>>
  BY ResetProbe DEF Record
<1>1. new \in Result /\ new.at = checkedAt /\ new.seen = seenAt
  BY DEF IInv, TypeOK, Result, Stamp, IsUp
<1>2. new.at \in Nat /\ now \in Nat /\ new.at <= new.seen /\ new.at <= now
  BY <1>0, <1>1, ClockAssumption DEF IInv, TypeOK, Dated, Probes, Settled
<1>3. \A r \in results \cup reader.base : r.at < new.at
  BY <1>0, <1>1 DEF IInv, Dated, Probes, Settled
<1>4. CASE ~present
  <2>1. results' = results
    BY <1>4 DEF Record
  <2>2. StoreTypeOK' /\ Dated'
    BY <1>0, <2>1 DEF IInv, TypeOK, StoreTypeOK, Dated, Probes, Settled
  <2> QED
    BY <1>0, <2>1, <2>2, KeepClients DEF IInv
<1>5. CASE present
  <2> HIDE DEF new
  <2>0. results' = Recorded(results, new)
    BY <1>5 DEF Record, new
  <2>1. Ordered(results)
    BY DEF IInv, Dated, Probes, Settled
  <2>2. /\ Ordered(results)' /\ results' \subseteq results \cup {new}
        /\ Cardinality(results') <= MaxRecords
    BY <1>2, <1>3, <2>0, <2>1, RecordedOrdered DEF Ordered
  <2>3. /\ reader.base \cap results' \subseteq reader.base \cap results
        /\ \A r \in reader.base \cap results' : Rank(results, r) <= Rank(results', r)
    <3>1. reader.base \cap results' \subseteq results
      BY <1>2, <1>3, <2>2
    <3> QED
      BY <1>2, <1>3, <2>0, <2>1, <3>1, RecordedRank
  <2>4. TypeOK'
    BY <1>0, <1>1, <2>2 DEF IInv, TypeOK, ProbeTypeOK
  <2>5. Dated'
    BY <1>0, <1>2, <2>2 DEF IInv, Dated, Probes, Settled
  <2>6. WalkOn'
    <3>1. ASSUME NEW r \in reader.base \cap results'
          PROVE  /\ Rank(results, r) \in Nat /\ Rank(results', r) \in Nat
                 /\ Rank(results, r) <= Rank(results', r)
                 /\ r \in reader.base \cap results
      <4>1. Rank(results, r) \in Nat
        BY <2>1, RankType
      <4>2. Rank(results', r) \in Nat
        BY <2>2, RankType DEF Ordered
      <4> QED
        BY <2>3, <3>1, <4>1, <4>2
    <3>2. reader' = reader
      BY <1>0
    <3>3. ASSUME NEW r \in reader.base \cap results', NEW k \in Int,
                 Rank(results, r) >= k
          PROVE  Rank(results', r) >= k
      BY <3>1, <3>3
    <3>4. reader.doing \in {"rows", "between"} =>
            (reader.page - 1) * PageSize \in Int /\ reader.page * PageSize \in Int
      BY PageAssumption DEF IInv, WalkOn
    <3> QED
      BY <3>1, <3>2, <3>3, <3>4 DEF IInv, WalkOn, Rank
  <2>7. UptimeOn' /\ FreshAnswer'
    BY <1>0, <2>3 DEF IInv, UptimeOn, FreshAnswer
  <2> QED
    BY <1>0, <2>4, <2>5, <2>6, <2>7 DEF IInv
<1> QED
  BY <1>4, <1>5

LEMMA DeleteIInv == IInv /\ Delete => IInv'
<1> SUFFICES ASSUME IInv, Delete PROVE IInv'
  OBVIOUS
<1>1. /\ results' = {} /\ present' = FALSE
      /\ UNCHANGED <<now, url, probe, reader, manual>>
  BY DEF Delete
<1>2. Cardinality(results') = 0 /\ IsFiniteSet(results')
  BY <1>1, FS_EmptySet
<1>3. TypeOK'
  <2>1. Cardinality(results') <= MaxRecords
    BY <1>2, HistoryAssumption
  <2>2. present' \in BOOLEAN /\ results' \subseteq Result'
    BY <1>1
  <2> QED
    BY <1>1, <2>1, <2>2 DEF IInv, TypeOK, probe, Result, Reader, Manual
<1>4. Vetted' /\ Dated'
  BY <1>1, <1>2 DEF IInv, Vetted, Dated, Probes, Settled, Ordered, probe
<1>5. WalkOn' /\ UptimeOn' /\ FreshAnswer'
  BY <1>1 DEF IInv, WalkOn, UptimeOn, FreshAnswer
<1> QED
  BY <1>3, <1>4, <1>5 DEF IInv

-----------------------------------------------------------------------------
(* Steps of the reader. *)

\* What a step of the reader has to show.
LEMMA ReaderIInv ==
  ASSUME IInv, UNCHANGED <<now, url, probe, present, results, manual>>,
         reader' \in Reader, reader'.base \subseteq reader.base \cup results,
         WalkOn', UptimeOn'
  PROVE  IInv'
<1>1. TypeOK'
  BY DEF IInv, TypeOK, probe
<1>2. Vetted' /\ Dated' /\ FreshAnswer'
  BY DEF IInv, Vetted, Dated, Probes, Settled, FreshAnswer, probe
<1> QED
  BY <1>1, <1>2 DEF IInv

LEMMA OpenWalkIInv == IInv /\ OpenWalk => IInv'
<1> SUFFICES ASSUME IInv, OpenWalk PROVE IInv'
  OBVIOUS
<1>1. /\ UNCHANGED <<now, url, probe, present, results, manual>>
      /\ reader' = [NoReader EXCEPT !.doing = "rows", !.page = 1, !.base = results]
  BY DEF OpenWalk, Reads
<1>2. reader' \in Reader /\ reader'.base = results /\ reader'.doing = "rows" /\ reader'.page = 1
  <2>1. results \subseteq Result
    BY DEF IInv, TypeOK
  <2>2. reader' = [doing |-> "rows", page |-> 1, start |-> 0, base |-> results, found |-> {}]
    BY <1>1 DEF NoReader
  <2> QED
    BY <2>1, <2>2 DEF Reader
<1>3. \A r \in results : Rank(results, r) \in Nat
  BY RankType DEF IInv, Dated, Probes, Settled
<1>4. WalkOn' /\ UptimeOn'
  BY <1>1, <1>2, <1>3, PageAssumption DEF WalkOn, UptimeOn
<1> QED
  BY <1>1, <1>2, <1>4, ReaderIInv

\* What the page does not show is beyond it, and then the page is full.
LEMMA ReadPageIInv == IInv /\ ReadPage => IInv'
<1> SUFFICES ASSUME IInv, ReadPage PROVE IInv'
  OBVIOUS
<1> DEFINE p == reader.page
           rows == Page(results, p, PageSize)
<1>1. /\ reader.doing = "rows" /\ reader \in Reader
      /\ UNCHANGED <<now, url, probe, present, results, manual>>
      /\ reader' = [reader EXCEPT
                      !.doing = IF Cardinality(rows) = PageSize THEN "between" ELSE "walked",
                      !.found = @ \cup rows]
  BY DEF ReadPage, Reads, IInv, TypeOK
<1>2. p \in Nat \ {0} /\ Ordered(results) /\ rows \subseteq Result
  BY <1>1 DEF IInv, TypeOK, WalkOn, Dated, Probes, Settled, Page
<1>3. /\ reader' \in Reader /\ reader'.base = reader.base /\ reader'.page = p
      /\ reader'.doing = (IF Cardinality(rows) = PageSize THEN "between" ELSE "walked")
      /\ reader'.found = reader.found \cup rows
  BY <1>1, <1>2 DEF Reader
<1>4. ASSUME NEW r \in reader.base \cap results, r \notin reader.found \cup rows
      PROVE  Rank(results, r) >= p * PageSize /\ Cardinality(rows) = PageSize
  <2>1. Rank(results, r) >= (p - 1) * PageSize
    BY <1>1, <1>4 DEF IInv, WalkOn
  <2>2. Rank(results, r) \in Nat /\ p * PageSize \in Nat
    BY <1>2, RankType, PageAssumption
  <2>3. ~(Rank(results, r) < p * PageSize)
    BY <1>4, <2>1 DEF Page, OnPage
  <2>4. Rank(results, r) >= p * PageSize
    BY <2>2, <2>3
  <2> QED
    BY <1>2, <2>4, FullPage, PageAssumption
<1> HIDE DEF rows, p
<1>5. WalkOn' /\ UptimeOn'
  BY <1>1, <1>2, <1>3, <1>4 DEF WalkOn, UptimeOn
<1> QED
  BY <1>1, <1>3, <1>5, ReaderIInv

LEMMA OpenPageIInv == IInv /\ OpenPage => IInv'
<1> SUFFICES ASSUME IInv, OpenPage PROVE IInv'
  OBVIOUS
<1>1. /\ reader.doing = "between" /\ reader \in Reader
      /\ UNCHANGED <<now, url, probe, present, results, manual>>
      /\ reader' = [reader EXCEPT !.doing = "rows", !.page = @ + 1]
  BY DEF OpenPage, Reads, IInv, TypeOK
<1>2. reader.page \in Nat \ {0} /\ (reader.page + 1) - 1 = reader.page
  BY <1>1 DEF IInv, WalkOn
<1>3. /\ reader' \in Reader /\ reader'.base = reader.base /\ reader'.found = reader.found
      /\ reader'.page = reader.page + 1 /\ reader'.doing = "rows"
  <2>1. reader.page + 1 \in Nat
    BY <1>2
  <2> QED
    BY <1>1, <2>1 DEF Reader
<1>4. WalkOn' /\ UptimeOn'
  BY <1>1, <1>2, <1>3 DEF IInv, WalkOn, UptimeOn
<1> QED
  BY <1>1, <1>3, <1>4, ReaderIInv

LEMMA OpenUptimeIInv == IInv /\ OpenUptime => IInv'
<1> SUFFICES ASSUME IInv, OpenUptime PROVE IInv'
  OBVIOUS
<1>1. /\ UNCHANGED <<now, url, probe, present, results, manual>>
      /\ reader' = [NoReader EXCEPT !.doing = "total", !.start = now - Window]
  BY DEF OpenUptime, Reads
<1>2. now - Window \in Int
  BY WindowAssumption, ClockAssumption DEF IInv, TypeOK
<1>3. reader' \in Reader /\ reader'.base = {} /\ reader'.doing = "total"
  BY <1>1, <1>2 DEF NoReader, Reader
<1>4. WalkOn' /\ UptimeOn'
  BY <1>3 DEF WalkOn, UptimeOn
<1> QED
  BY <1>1, <1>3, <1>4, ReaderIInv

LEMMA CountTotalIInv == IInv /\ CountTotal => IInv'
<1> SUFFICES ASSUME IInv, CountTotal PROVE IInv'
  OBVIOUS
<1> DEFINE counted == Since(results, reader.start)
<1>1. /\ reader.doing = "total" /\ reader \in Reader
      /\ UNCHANGED <<now, url, probe, present, results, manual>>
      /\ reader' = [reader EXCEPT !.doing = "up", !.base = counted]
  BY DEF CountTotal, Reads, IInv, TypeOK
<1>2. counted \subseteq results /\ counted \subseteq Result
      /\ \A r \in counted : r.at >= reader.start
  BY DEF IInv, TypeOK, Since
<1> HIDE DEF counted
<1>3. /\ reader' \in Reader /\ reader'.base = counted /\ reader'.doing = "up"
      /\ reader'.start = reader.start
  BY <1>1, <1>2 DEF Reader
<1>4. WalkOn' /\ UptimeOn'
  BY <1>2, <1>3 DEF WalkOn, UptimeOn
<1> QED
  BY <1>1, <1>2, <1>3, <1>4, ReaderIInv

LEMMA CountUpIInv == IInv /\ CountUp => IInv'
<1> SUFFICES ASSUME IInv, CountUp PROVE IInv'
  OBVIOUS
<1> DEFINE counted == {r \in Since(results, reader.start) : r.up}
<1>1. /\ reader.doing = "up" /\ reader \in Reader
      /\ UNCHANGED <<now, url, probe, present, results, manual>>
      /\ reader' = [reader EXCEPT !.doing = "shown", !.found = counted]
  BY DEF CountUp, Reads, StartOnce, IInv, TypeOK
<1>2. counted \in SUBSET results /\ counted \subseteq Result
  BY DEF IInv, TypeOK, Since
<1>3. IsFiniteSet(counted)
  BY <1>2, FS_Subset DEF IInv, Dated, Probes, Settled, Ordered
<1>4. \A r \in reader.base \cap results : r.up => r \in counted
  BY <1>1 DEF IInv, UptimeOn, Since
<1> HIDE DEF counted
<1>5. /\ reader' \in Reader /\ reader'.base = reader.base /\ reader'.doing = "shown"
      /\ reader'.start = reader.start /\ reader'.found = counted
  BY <1>1, <1>2 DEF Reader
<1>6. WalkOn' /\ UptimeOn'
  BY <1>1, <1>3, <1>4, <1>5 DEF IInv, WalkOn, UptimeOn
<1> QED
  BY <1>1, <1>5, <1>6, ReaderIInv

LEMMA CloseReaderIInv == IInv /\ CloseReader => IInv'
<1> SUFFICES ASSUME IInv, CloseReader PROVE IInv'
  OBVIOUS
<1>1. UNCHANGED <<now, url, probe, present, results, manual>> /\ reader' = NoReader
  BY DEF CloseReader, Reads
<1>2. reader' \in Reader /\ reader'.base = {} /\ reader'.doing = "idle"
  BY <1>1 DEF NoReader, Reader
<1>3. WalkOn' /\ UptimeOn'
  BY <1>2 DEF WalkOn, UptimeOn
<1> QED
  BY <1>1, <1>2, <1>3, ReaderIInv

-----------------------------------------------------------------------------
(* Steps of the client that asks for a check. *)

\* What a step of that client has to show.
LEMMA ManualIInv ==
  ASSUME IInv, UNCHANGED <<url, probe, present, results, reader>>,
         now' \in 0..MaxNow, now <= now', manual' \in Manual, FreshAnswer'
  PROVE  IInv'
<1>1. TypeOK'
  BY DEF IInv, TypeOK, probe
<1>2. Vetted' /\ WalkOn' /\ UptimeOn'
  BY DEF IInv, Vetted, WalkOn, UptimeOn, probe
<1>3. Dated'
  BY ClockAssumption DEF IInv, TypeOK, Result, Reader, Dated, Probes, Settled, probe
<1> QED
  BY <1>1, <1>2, <1>3 DEF IInv

LEMMA AskIInv == IInv /\ Ask => IInv'
<1> SUFFICES ASSUME IInv, Ask PROVE IInv'
  OBVIOUS
<1>1. /\ UNCHANGED <<url, probe, present, results, reader>>
      /\ now' = now + 1 /\ now < MaxNow
      /\ manual' = [NoManual EXCEPT !.doing = "waiting", !.asked = now']
  BY DEF Ask, Asks, ReadClock
<1>2. now' \in 0..MaxNow /\ now <= now'
  BY <1>1, ClockAssumption DEF IInv, TypeOK
<1>3. manual' = [doing |-> "waiting", asked |-> now', answer |-> {}]
  BY <1>1 DEF NoManual
<1>4. manual' \in Manual /\ manual'.doing # "answered"
  BY <1>2, <1>3 DEF Manual
<1> QED
  BY <1>1, <1>2, <1>4, ManualIInv DEF FreshAnswer

\* A result stamped after the request was settled after it too.
LEMMA PollIInv == IInv /\ Poll => IInv'
<1> SUFFICES ASSUME IInv, Poll PROVE IInv'
  OBVIOUS
<1> DEFINE latest == Latest(results, manual.asked)
<1>1. /\ UNCHANGED <<url, probe, present, results, reader, now>> /\ manual \in Manual
      /\ latest # {} /\ manual' = [manual EXCEPT !.doing = "answered", !.answer = latest]
  BY DEF Poll, Asks, IInv, TypeOK
<1>2. latest \subseteq Result /\ \A r \in latest : manual.asked <= r.seen
  <2>1. ASSUME NEW r \in latest
        PROVE  r \in Result /\ manual.asked <= r.seen
    <3>1. r \in results /\ r.at >= manual.asked
      BY DEF Latest, Since
    <3>2. r \in Result /\ r.at <= r.seen
      BY <3>1 DEF IInv, TypeOK, Dated, Probes, Settled
    <3>3. r.at \in Int /\ r.seen \in Int /\ manual.asked \in Int
      BY <1>1, <3>2 DEF Result, Manual
    <3> QED
      BY <3>1, <3>2, <3>3
  <2> QED
    BY <2>1
<1> HIDE DEF latest
<1>3. /\ manual' \in Manual /\ manual'.doing = "answered" /\ manual'.answer = latest
      /\ manual'.asked = manual.asked
  BY <1>1, <1>2 DEF Manual
<1>4. FreshAnswer'
  BY <1>1, <1>2, <1>3 DEF FreshAnswer
<1>5. now' \in 0..MaxNow /\ now <= now'
  BY <1>1, ClockAssumption DEF IInv, TypeOK
<1> QED
  BY <1>1, <1>3, <1>4, <1>5, ManualIInv

LEMMA CloseManualIInv == IInv /\ CloseManual => IInv'
<1> SUFFICES ASSUME IInv, CloseManual PROVE IInv'
  OBVIOUS
<1>1. UNCHANGED <<url, probe, present, results, reader, now>> /\ manual' = NoManual
  BY DEF CloseManual, Asks
<1>2. manual' \in Manual /\ manual'.doing = "idle"
  BY <1>1, ClockAssumption DEF NoManual, Manual
<1>3. now' \in 0..MaxNow /\ now <= now'
  BY <1>1, ClockAssumption DEF IInv, TypeOK
<1> QED
  BY <1>1, <1>2, <1>3, ManualIInv DEF FreshAnswer

\* Every step keeps the invariant.
LEMMA NextIInv == IInv /\ [Next]_vars => IInv'
<1> SUFFICES ASSUME IInv, [Next]_vars PROVE IInv'
  OBVIOUS
<1>1. CASE UNCHANGED vars
  <2>1. UNCHANGED <<now, url, probe, present, results, reader, manual>>
    BY <1>1 DEF vars
  <2>2. ProbeTypeOK' /\ Vetted' /\ Dated'
    BY <2>1 DEF IInv, TypeOK, ProbeTypeOK, Vetted, Dated, Probes, Settled, probe
  <2> QED
    BY <2>1, <2>2, KeepClients DEF IInv
<1>2. CASE Next
  BY <1>2, ClockTickIInv, ClaimIInv, BeginIInv, GoOnIInv, RecordIInv, LoseIInv, DeleteIInv,
     OpenWalkIInv, ReadPageIInv, OpenPageIInv, OpenUptimeIInv, CountTotalIInv,
     CountUpIInv, CloseReaderIInv, AskIInv, PollIInv, CloseManualIInv
  DEF Next
<1> QED
  BY <1>1, <1>2

-----------------------------------------------------------------------------
(* The theorems. *)

\* The invariant: a probe connects to what it has validated, results are newer
\* than all before them, and a reader has passed nothing it has not found.
THEOREM Invariant == Spec => []IInv
BY InitIInv, NextIInv, PTL DEF Spec

\* Type correctness, and the cap on the rows of an endpoint.
THEOREM TypeCorrect == Spec => []TypeOK
<1>1. IInv => TypeOK
  BY DEF IInv
<1> QED
  BY <1>1, Invariant, PTL

\* What the classification lets through is what the README permits.
LEMMA AllowedArePermitted ==
  ASSUME NEW a \in Address, ~IsBlocked(a)
  PROVE  a \in Permitted
BY DEF Address, Forms, Classes, Tunnels, Permitted, IsBlocked, Unwrap, IsLocal, IsSpecial,
       InListedNetwork

\* Whatever the names resolve to, a probe connects to public addresses only.
THEOREM ProbesStayOutside == Spec => []ConnectsToPermitted
<1>1. ASSUME IInv PROVE ConnectsToPermitted
  <2>1. url \in Url /\ Answers \subseteq Seq(Address)
    BY <1>1, UrlsAssumption DEF IInv, TypeOK, Registrable
  <2>2. ASSUME NEW s \in Seq(Address), AllAllowed(s)
        PROVE  \A i \in DOMAIN s : s[i] \in Permitted
    BY <2>2, AllowedArePermitted DEF AllAllowed
  <2>3. peers \subseteq Permitted
    <3>1. CASE peers = {}
      BY <3>1
    <3>2. CASE peers # {}
      <4>1. /\ addresses # <<>> /\ peers = {addresses[1]} /\ AllAllowed(addresses)
            /\ addresses \in Seq(Address)
        BY <1>1, <3>2 DEF IInv, TypeOK, Vetted
      <4>2. 1 \in DOMAIN addresses
        BY <4>1
      <4> QED
        BY <2>2, <4>1, <4>2
    <3> QED
      BY <3>1, <3>2
  <2>4. ASSUME url.host # "literal"
        PROVE  \E answer \in Answers :
                 /\ \A a \in peers : \E i \in DOMAIN answer : answer[i] = a
                 /\ \A i \in DOMAIN answer : answer[i] \in Permitted
    <3>1. CASE peers = {}
      <4>1. PICK answer \in Answers : Validates(url, answer)
        BY <1>1 DEF IInv, TypeOK, Registrable
      <4>2. AllAllowed(answer)
        BY <2>4, <4>1 DEF Validates, Resolved
      <4> QED
        BY <2>1, <2>2, <3>1, <4>2
    <3>2. CASE peers # {}
      <4>1. /\ addresses # <<>> /\ peers = {addresses[1]} /\ AllAllowed(addresses)
            /\ addresses \in Seq(Address) /\ addresses \in Answers
        BY <1>1, <2>4, <3>2 DEF IInv, TypeOK, Vetted, Resolved
      <4>2. 1 \in DOMAIN addresses
        BY <4>1
      <4> QED
        BY <2>2, <4>1, <4>2
    <3> QED
      BY <3>1, <3>2
  <2> QED
    BY <2>3, <2>4 DEF ConnectsToPermitted
<1> QED
  BY <1>1, Invariant, PTL

\* A manual check is answered by what happened after it was asked for.
THEOREM AnswersAreFresh == Spec => []FreshAnswer
<1>1. IInv => FreshAnswer
  BY DEF IInv
<1> QED
  BY <1>1, Invariant, PTL

\* Paging through a history that grows and is pruned misses nothing that stays.
THEOREM WalksAreComplete == Spec => []WalkMissesNothing
<1>1. IInv => WalkMissesNothing
  BY DEF IInv, WalkOn, WalkMissesNothing
<1> QED
  BY <1>1, Invariant, PTL

\* The time between the two counts never lowers the uptime.
THEOREM UptimeNeverTooLow == Spec => []NoFalseDowntime
<1>1. ASSUME IInv PROVE NoFalseDowntime
  <2>1. SUFFICES ASSUME reader.doing = "shown", reader.base \subseteq results,
                        \A r \in reader.base : r.up
                 PROVE  Cardinality(reader.found) >= Cardinality(reader.base)
    BY DEF NoFalseDowntime
  <2>2. IsFiniteSet(reader.found) /\ reader.base \in SUBSET reader.found
    BY <1>1, <2>1 DEF IInv, UptimeOn
  <2>3. /\ Cardinality(reader.base) <= Cardinality(reader.found)
        /\ Cardinality(reader.base) \in Nat /\ Cardinality(reader.found) \in Nat
    BY <2>2, FS_Subset, FS_CardinalityType
  <2> QED
    BY <2>3
<1> QED
  BY <1>1, Invariant, PTL

-----------------------------------------------------------------------------
(* What prolongs a probe: CountedProbesEnd, short of the fairness that makes  *)
(* each network operation end.                                                *)

\* _drain_limited reads on only while it may.
MayRead == step \in {"body", "data"} => remaining > 0

\* A bound on the operations from here to the outcome, those that bring nothing
\* that is counted left aside.
OperationsLeft ==
  CASE step = "claimed" -> 2 * MaxBytes + 7
    [] step = "started" -> 2 * MaxBytes + 6
    [] step = "validated" -> 2 * MaxBytes + 5
    [] step \in {"connected", "head"} -> 2 * MaxBytes + 4
    [] step = "chunk" -> 2 * remaining + 3
    [] step \in {"body", "data"} -> 2 * remaining + 2
    [] step = "closing" -> 1
    [] OTHER -> 0

\* A read, or one more after a read that brought nothing that is counted.
Waits ==
  /\ OperationsLeft' = OperationsLeft
  /\ (AwaitsHead /\ AwaitsHead') \/ (AwaitsBody /\ AwaitsBody')

ProbeProgress ==
  probe' # probe =>
    step = "idle" \/ step' = "idle" \/ OperationsLeft' < OperationsLeft \/ Waits

\* No step of another actor touches the probe.
LEMMA ProbeSteps ==
  ASSUME [Next]_vars
  PROVE  probe' = probe \/ Claim \/ Begin \/ GoOn \/ Record \/ Lose
BY DEF Next, vars, ClockTick, Delete, OpenWalk, ReadPage, OpenPage, OpenUptime, CountTotal,
       CountUp, CloseReader, Reads, Ask, Poll, CloseManual, Asks, probe

LEMMA MayReadInv == Spec => []MayRead
<1>1. Init => MayRead
  BY DEF Init, ProbeInit, NoProbe, MayRead
<1>2. TypeOK /\ MayRead /\ [Next]_vars => MayRead'
  <2> SUFFICES ASSUME TypeOK, MayRead, [Next]_vars PROVE MayRead'
    OBVIOUS
  <2>1. CASE probe' = probe
    BY <2>1 DEF probe, MayRead
  <2>2. CASE Claim \/ Begin \/ Record \/ Lose
    BY <2>2 DEF Claim, Begin, Start, Record, Lose, Reset, MayRead
  <2>3. CASE GoOn
    BY <2>3, BodyAssumption DEF GoOn, ProbeGoesOn, Fail, Raise, Validate, Connect, Read,
       ReadAgain, Respond, Receive, Count, EndOfBody, Close, Exhausted, MayRead, TypeOK
  <2> QED
    BY <2>1, <2>2, <2>3, ProbeSteps
<1> QED
  BY <1>1, <1>2, TypeCorrect, PTL DEF Spec

\* From the moment it is claimed, a probe takes at most 2 * MaxBytes + 7
\* operations beside those that bring no part of the answer that is counted;
\* only these, sent without end before the head or in the body, can prolong it.
THEOREM OnlyEmptyReadsProlong ==
  Spec => [](OperationsLeft \in 0..(2 * MaxBytes + 7)) /\ [][ProbeProgress]_vars
<1>1. TypeOK => OperationsLeft \in 0..(2 * MaxBytes + 7)
  <2> SUFFICES ASSUME TypeOK PROVE OperationsLeft \in 0..(2 * MaxBytes + 7)
    OBVIOUS
  <2>1. MaxBytes \in Nat /\ remaining \in Nat /\ remaining <= MaxBytes
    BY BodyAssumption DEF TypeOK
  <2> QED
    BY <2>1 DEF OperationsLeft
<1>2. TypeOK /\ MayRead /\ [Next]_vars => [ProbeProgress]_vars
  <2> SUFFICES ASSUME TypeOK, MayRead, [Next]_vars PROVE ProbeProgress
    OBVIOUS
  <2>1. CASE probe' = probe
    BY <2>1 DEF ProbeProgress
  <2>2. CASE Claim \/ Record \/ Lose
    BY <2>2 DEF Claim, Record, Lose, Reset, ProbeProgress
  <2>3. CASE Begin \/ GoOn
    <3>1. remaining \in Nat /\ remaining <= MaxBytes /\ MaxBytes \in Nat
      BY BodyAssumption DEF TypeOK
    <3>2. CASE Fail \/ Raise \/ EndOfBody \/ Close
      BY <3>1, <3>2 DEF Fail, Raise, MayRaise, EndOfBody, Close, ProbeProgress, OperationsLeft
    <3>3. CASE Begin \/ Validate \/ Connect
      BY <3>1, <3>3 DEF Begin, Start, Validate, Connect, ProbeProgress, OperationsLeft
    <3>4. CASE Respond
      BY <3>1, <3>4 DEF Respond, ProbeProgress, OperationsLeft
    <3>5. CASE Receive
      <4>1. remaining' \in Nat /\ remaining' < remaining
        BY <3>1, <3>5, BodyAssumption DEF Receive, MayRead
      <4> QED
        BY <3>1, <3>5, <4>1 DEF Receive, ProbeProgress, OperationsLeft
    <3>6. CASE Count
      BY <3>1, <3>6 DEF Count, ProbeProgress, OperationsLeft
    <3>7. CASE Read \/ ReadAgain
      <4>1. /\ remaining' = remaining
            /\ (AwaitsHead /\ AwaitsHead') \/ (AwaitsBody /\ AwaitsBody')
        BY <3>7 DEF Read, ReadAgain, AwaitsHead, AwaitsBody
      <4>2. OperationsLeft' = OperationsLeft
        BY <4>1 DEF OperationsLeft, AwaitsHead, AwaitsBody
      <4> QED
        BY <4>1, <4>2 DEF ProbeProgress, Waits
    <3> QED
      BY <2>3, <3>2, <3>3, <3>4, <3>5, <3>6, <3>7 DEF GoOn, ProbeGoesOn
  <2> QED
    BY <2>1, <2>2, <2>3, ProbeSteps
<1> QED
  BY <1>1, <1>2, TypeCorrect, MayReadInv, PTL DEF Spec
=============================================================================
