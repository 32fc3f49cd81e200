-------------------------- MODULE Incidents_proofs --------------------------
(* The events of an endpoint, for every threshold and any number of results  *)
(* and of checks cut short.                                                   *)
EXTENDS Incidents, SequenceTheorems, TLAPS

EventType == [kind : EventKinds, failures : Nat, delivered : {"null", "yes", "no"}]

\* Appending an event decides whether an incident is open.
LEMMA AppendOpens ==
  ASSUME NEW s \in Seq(EventType), NEW v \in EventType
  PROVE  /\ Append(s, v) \in Seq(EventType)
         /\ Append(s, v) # <<>>
         /\ Len(Append(s, v)) = Len(s) + 1
         /\ Append(s, v)[Len(s) + 1] = v
         /\ \A i \in 1..Len(s) : Append(s, v)[i] = s[i]
OBVIOUS

\* Reporting a delivery changes neither kinds nor counts.
LEMMA DeliveryKeeps ==
  ASSUME NEW s \in Seq(EventType), s # <<>>, NEW d \in {"null", "yes", "no"},
         NEW t, t = [s EXCEPT ![Len(s)].delivered = d]
  PROVE  /\ t \in Seq(EventType) /\ Len(t) = Len(s) /\ t # <<>>
         /\ \A i \in 1..Len(s) : t[i].kind = s[i].kind /\ t[i].failures = s[i].failures
         /\ \A i \in 1..Len(s) : t[i].delivered = IF i = Len(s) THEN d ELSE s[i].delivered
<1> DEFINE e == [s[Len(s)] EXCEPT !.delivered = d]
<1>0. t = [s EXCEPT ![Len(s)] = e]
  OBVIOUS
<1>1. Len(s) \in 1..Len(s)
  BY EmptySeq
<1>2. s[Len(s)] \in EventType
  BY <1>1, ElementOfSeq
<1>3. e \in EventType /\ e.kind = s[Len(s)].kind /\ e.failures = s[Len(s)].failures
      /\ e.delivered = d
  BY <1>2 DEF EventType
<1>4. t \in Seq(EventType) /\ Len(t) = Len(s)
      /\ \A i \in 1..Len(s) : t[i] = IF i = Len(s) THEN e ELSE s[i]
  BY <1>0, <1>1, <1>3, ExceptSeq
<1>5. t # <<>>
  BY <1>1, <1>4
<1> QED
  BY <1>3, <1>4, <1>5

\* A new endpoint has no incident.
LEMMA InitIInv == Init => IInv
<1> SUFFICES ASSUME Init PROVE IInv
  OBVIOUS
<1>1. events = <<>> /\ Len(events) = 0 /\ ~Open
  BY DEF Init, Open
<1>2. TypeOK
  BY <1>1, EmptySeq DEF Init, TypeOK
<1>3. Alternating
  BY <1>1 DEF Alternating
<1>4. IncidentTracked /\ HalfTracked
  BY <1>1, ThresholdAssumption DEF Init, IncidentTracked, HalfTracked
<1>5. Pending /\ DeliveredWasAccepted
  BY <1>1 DEF Init, Pending, DeliveredWasAccepted
<1> QED
  BY <1>2, <1>3, <1>4, <1>5 DEF IInv

\* Steps that leave the events alone.
LEMMA KeepEvents ==
  ASSUME IInv, UNCHANGED <<present, events>>
  PROVE  Alternating' /\ (Open' <=> Open)
BY DEF IInv, Alternating, Open

\* record_check puts the streak one result ahead of the events.
LEMMA RecordIInv == IInv /\ Record => IInv'
<1> SUFFICES ASSUME IInv, Record PROVE IInv'
  OBVIOUS
<1>1. Alternating' /\ (Open' <=> Open)
  BY KeepEvents DEF Record
<1>2. TypeOK'
  BY DEF IInv, TypeOK, Record, Streak
<1>3. IncidentTracked' /\ HalfTracked'
  BY <1>1, ThresholdAssumption
  DEF IInv, TypeOK, IncidentTracked, HalfTracked, Record, Streak
<1>4. Pending' /\ DeliveredWasAccepted'
  BY DEF IInv, Pending, DeliveredWasAccepted, Record
<1> QED
  BY <1>1, <1>2, <1>3, <1>4 DEF IInv

\* What maybe_create_alert adds, and what it leaves.
LEMMA DecideEvents ==
  ASSUME IInv, Decide
  PROVE  \/ /\ events' = events /\ ~(present /\ (OutageCounted \/ RecoveryDue))
            /\ step' = "idle"
         \/ /\ present /\ OutageCounted /\ events' = Append(events, Event("OUTAGE", streak))
            /\ Event("OUTAGE", streak) \in EventType
         \/ /\ present /\ RecoveryDue /\ events' = Append(events, Event("RECOVERY", 0))
            /\ Event("RECOVERY", 0) \in EventType
BY DEF IInv, TypeOK, Decide, OutageCounted, RecoveryDue, Event, EventType, EventKinds

\* An event that closes an incident follows one that opened it, and back.
LEMMA DecideIInv == IInv /\ Decide => IInv'
<1> SUFFICES ASSUME IInv, Decide PROVE IInv'
  OBVIOUS
<1> USE ThresholdAssumption
<1>0. /\ events \in Seq(EventType) /\ streak \in Nat /\ step = "recorded"
      /\ Len(events) \in Nat /\ DOMAIN events = 1..Len(events)
      /\ UNCHANGED <<present, up, streak, reply, accepted, hook, checks, crashes>>
      /\ step' \in {"idle", "post"}
  BY DEF IInv, TypeOK, Decide, EventType
<1>1. CASE events' = events /\ ~(present /\ (OutageCounted \/ RecoveryDue)) /\ step' = "idle"
  <2>1. Alternating' /\ (Open' <=> Open)
    BY <1>0, <1>1, KeepEvents
  <2>2. TypeOK'
    BY <1>0, <1>1 DEF IInv, TypeOK
  <2>3. IncidentTracked' /\ HalfTracked'
    BY <1>0, <1>1, <2>1 DEF IInv, IncidentTracked, HalfTracked, OutageCounted, RecoveryDue
  <2>4. Pending' /\ DeliveredWasAccepted'
    BY <1>0, <1>1 DEF IInv, Pending, DeliveredWasAccepted
  <2> QED
    BY <2>1, <2>2, <2>3, <2>4 DEF IInv
<1>2. ASSUME present, NEW v \in EventType, events' = Append(events, v),
             \/ OutageCounted /\ v = Event("OUTAGE", streak)
             \/ RecoveryDue /\ v = Event("RECOVERY", 0)
      PROVE  IInv'
  <2>1. /\ events' \in Seq(EventType) /\ events' # <<>>
        /\ Len(events') = Len(events) + 1 /\ DOMAIN events' = 1..(Len(events) + 1)
        /\ events'[Len(events) + 1] = v
        /\ \A i \in 1..Len(events) : events'[i] = events[i]
    BY <1>0, <1>2, AppendOpens
  <2>2. Open <=> Len(events) % 2 = 1
    BY <1>0 DEF IInv, Alternating, Open
  <2>3. v.kind = (IF up THEN "RECOVERY" ELSE "OUTAGE") /\ (up <=> Open)
        /\ (~up => v.failures = streak /\ streak >= Threshold)
        /\ v.delivered = "null"
    BY <1>2 DEF OutageCounted, RecoveryDue, Event
  <2>4. Alternating'
    <3>1. ASSUME NEW i \in 1..(Len(events) + 1)
          PROVE  /\ events'[i].kind = IF i % 2 = 1 THEN "OUTAGE" ELSE "RECOVERY"
                 /\ events'[i].kind = "OUTAGE" => events'[i].failures >= Threshold
      <4>1. CASE i \in 1..Len(events)
        BY <1>0, <2>1, <4>1 DEF IInv, Alternating
      <4>2. CASE i = Len(events) + 1
        <5>1. i % 2 = 1 <=> ~up
          BY <1>0, <2>2, <2>3, <4>2
        <5> QED
          BY <2>1, <2>3, <4>2, <5>1
      <4> QED
        BY <1>0, <3>1, <4>1, <4>2
    <3> QED
      BY <2>1, <3>1 DEF Alternating
  <2>5. Open' <=> ~up
    BY <1>0, <2>1, <2>3 DEF Open
  <2>6. crashes = 0 /\ ~up => streak = Threshold
    BY <1>0, <1>2, <2>3 DEF IInv, HalfTracked
  <2>7. IncidentTracked'
    <3>1. up => streak = 0
      BY <1>0 DEF IInv, HalfTracked
    <3> QED
      BY <1>0, <2>1, <2>3, <2>5, <2>6, <3>1 DEF IInv, IncidentTracked
  <2>8. TypeOK'
    BY <1>0, <2>1 DEF IInv, TypeOK, EventType
  <2>9. Pending' /\ HalfTracked'
    BY <1>0, <2>1, <2>3 DEF Pending, HalfTracked
  <2>10. DeliveredWasAccepted'
    <3>1. ASSUME NEW i \in 1..(Len(events) + 1), events'[i].delivered = "yes"
          PROVE  i \in accepted
      <4>1. i # Len(events) + 1
        BY <2>1, <2>3, <3>1
      <4>2. i \in 1..Len(events)
        BY <1>0, <4>1
      <4> QED
        BY <1>0, <2>1, <3>1, <4>2 DEF IInv, DeliveredWasAccepted
    <3> QED
      BY <1>0, <2>1, <3>1 DEF DeliveredWasAccepted
  <2> QED
    BY <2>4, <2>7, <2>8, <2>9, <2>10 DEF IInv
<1> QED
  BY <1>1, <1>2, DecideEvents

\* record_webhook_delivery notes the reply on the newest event.
LEMMA Noted ==
  ASSUME IInv, RecordDelivery, present
  PROVE  /\ events # <<>> /\ events' \in Seq(EventType)
         /\ Len(events') = Len(events) /\ events' # <<>>
         /\ \A i \in 1..Len(events) : /\ events'[i].kind = events[i].kind
                                     /\ events'[i].failures = events[i].failures
         /\ \A i \in 1..Len(events) :
              events'[i].delivered = IF i = Len(events) THEN reply ELSE events[i].delivered
<1>0. events \in Seq(EventType) /\ reply \in {"null", "yes", "no"}
  BY DEF IInv, TypeOK, EventType
<1>1. events # <<>> /\ events' = [events EXCEPT ![Len(events)].delivered = reply]
  BY DEF IInv, Pending, RecordDelivery
<1> QED
  BY <1>0, <1>1, DeliveryKeeps

\* record_webhook_delivery changes no event that matters.
LEMMA RecordDeliveryIInv == IInv /\ RecordDelivery => IInv'
<1> SUFFICES ASSUME IInv, RecordDelivery PROVE IInv'
  OBVIOUS
<1>0. /\ step = "report" /\ step' = "idle"
      /\ events \in Seq(EventType) /\ reply \in {"null", "yes", "no"}
      /\ UNCHANGED <<present, up, streak, reply, accepted, hook, checks, crashes>>
  BY DEF IInv, TypeOK, RecordDelivery, EventType
<1>1. CASE ~present
  <2>1. events' = events
    BY <1>1 DEF RecordDelivery
  <2>2. Alternating' /\ (Open' <=> Open)
    BY <1>0, <2>1, KeepEvents
  <2>3. Pending' /\ DeliveredWasAccepted'
    BY <1>0, <2>1 DEF IInv, Pending, DeliveredWasAccepted
  <2> QED
    BY <1>0, <1>1, <2>1, <2>2, <2>3 DEF IInv, TypeOK, IncidentTracked, HalfTracked
<1>2. CASE present
  <2>2. /\ events # <<>> /\ events' \in Seq(EventType)
        /\ Len(events') = Len(events) /\ events' # <<>>
        /\ \A i \in 1..Len(events) : /\ events'[i].kind = events[i].kind
                                    /\ events'[i].failures = events[i].failures
        /\ \A i \in 1..Len(events) :
             events'[i].delivered = IF i = Len(events) THEN reply ELSE events[i].delivered
    BY <1>2, Noted
  <2>3. /\ DOMAIN events = 1..Len(events) /\ DOMAIN events' = 1..Len(events)
        /\ Len(events) \in 1..Len(events)
    BY <1>0, <2>2, EmptySeq
  <2>4. Alternating'
    BY <2>2, <2>3 DEF IInv, Alternating
  <2>5. Open' <=> Open
    BY <2>2, <2>3 DEF Open
  <2>6. IncidentTracked'
    BY <1>0, <2>2, <2>3, <2>5 DEF IInv, IncidentTracked
  <2>7. TypeOK'
    BY <1>0, <2>2 DEF IInv, TypeOK, EventType
  <2>8. Pending' /\ HalfTracked'
    BY <1>0 DEF Pending, HalfTracked
  <2>9. DeliveredWasAccepted'
    <3>1. ASSUME NEW i \in 1..Len(events), events'[i].delivered = "yes"
          PROVE  i \in accepted
      <4>1. CASE i = Len(events)
        BY <1>0, <1>2, <2>2, <3>1, <4>1 DEF IInv, Pending
      <4>2. CASE i # Len(events)
        BY <2>2, <2>3, <3>1, <4>2 DEF IInv, DeliveredWasAccepted
      <4> QED
        BY <4>1, <4>2
    <3> QED
      BY <1>0, <2>3, <3>1 DEF DeliveredWasAccepted
  <2> QED
    BY <2>4, <2>6, <2>7, <2>8, <2>9 DEF IInv
<1> QED
  BY <1>1, <1>2

\* send_alert_webhook changes no event.
LEMMA PostIInv == IInv /\ Post => IInv'
<1> SUFFICES ASSUME IInv, Post PROVE IInv'
  OBVIOUS
<1>1. Alternating' /\ (Open' <=> Open)
  BY KeepEvents DEF Post
<1>2. Len(events) \in Nat
  BY DEF IInv, TypeOK
<1>3. /\ reply' \in {"yes", "no"} /\ accepted' \subseteq Nat
      /\ accepted \subseteq accepted'
      /\ reply' = "yes" => Len(events) \in accepted'
  <2>1. PICK r \in Replies : /\ accepted' = IF r[1] THEN accepted \cup {Len(events)}
                                                    ELSE accepted
                             /\ reply' = r[2]
    BY DEF Post
  <2>2. r[2] = "no" \/ (r[2] = "yes" /\ r[1])
    <3>1. r \in {<<TRUE, "yes">>, <<TRUE, "no">>, <<FALSE, "no">>}
      BY DEF Replies
    <3>2. CASE r = <<TRUE, "yes">>
      BY <3>2
    <3>3. CASE r = <<TRUE, "no">>
      BY <3>3
    <3>4. CASE r = <<FALSE, "no">>
      BY <3>4
    <3> QED
      BY <3>1, <3>2, <3>3, <3>4
  <2> QED
    BY <1>2, <2>1, <2>2 DEF IInv, TypeOK
<1>4. TypeOK'
  BY <1>3 DEF IInv, TypeOK, Post
<1>5. Pending' /\ DeliveredWasAccepted'
  BY <1>3 DEF IInv, Pending, DeliveredWasAccepted, Post
<1> QED
  BY <1>1, <1>4, <1>5 DEF IInv, IncidentTracked, HalfTracked, Post

\* A check cut short leaves the events as they were.
LEMMA CrashIInv == IInv /\ Crash => IInv'
<1> SUFFICES ASSUME IInv, Crash PROVE IInv'
  OBVIOUS
<1>1. Alternating' /\ (Open' <=> Open)
  BY KeepEvents DEF Crash
<1>2. TypeOK' /\ crashes' # 0
  BY DEF IInv, TypeOK, Crash
<1>3. Pending' /\ DeliveredWasAccepted'
  BY DEF IInv, Pending, DeliveredWasAccepted, Crash
<1> QED
  BY <1>1, <1>2, <1>3 DEF IInv, IncidentTracked, HalfTracked, Crash

\* The events of a deleted endpoint are gone.
LEMMA DeleteIInv == IInv /\ Delete => IInv'
<1> SUFFICES ASSUME IInv, Delete PROVE IInv'
  OBVIOUS
<1>1. events' = <<>> /\ DOMAIN events' = {} /\ ~present'
  BY DEF Delete
<1>2. Alternating' /\ IncidentTracked'
  BY <1>1 DEF Alternating, IncidentTracked
<1>3. TypeOK'
  BY <1>1, EmptySeq DEF IInv, TypeOK, Delete
<1>4. Pending' /\ DeliveredWasAccepted'
  BY <1>1 DEF Pending, DeliveredWasAccepted
<1> QED
  BY <1>1, <1>2, <1>3, <1>4 DEF IInv, HalfTracked, Delete

\* Every step keeps the invariant.
LEMMA NextIInv == IInv /\ [Next]_vars => IInv'
<1> SUFFICES ASSUME IInv, [Next]_vars PROVE IInv'
  OBVIOUS
<1>1. CASE UNCHANGED vars
  <2>1. Alternating' /\ (Open' <=> Open)
    BY <1>1, KeepEvents DEF vars
  <2> QED
    BY <1>1, <2>1 DEF IInv, TypeOK, IncidentTracked, HalfTracked, Pending,
                      DeliveredWasAccepted, vars
<1> QED
  BY <1>1, RecordIInv, DecideIInv, PostIInv, RecordDeliveryIInv, CrashIInv, DeleteIInv
  DEF Next

\* The invariant of the incident log, at the end of each check and halfway
\* through it.
THEOREM Invariant == Spec => []IInv
BY InitIInv, NextIInv, PTL DEF Spec

\* Type correctness.
THEOREM TypeCorrect == Spec => []TypeOK
<1>1. IInv => TypeOK
  BY DEF IInv
<1> QED
  BY <1>1, Invariant, PTL

\* One outage per incident and one recovery afterward, in that order, and no
\* outage before the threshold, whatever crashes and deletions happen.
THEOREM EventsAlternate == Spec => []Alternating
<1>1. IInv => Alternating
  BY DEF IInv
<1> QED
  BY <1>1, Invariant, PTL

\* Without a check cut short, an incident is open exactly from the result that
\* reaches the threshold to the next UP.
THEOREM IncidentsFollowStreak == Spec => []IncidentTracked
<1>1. IInv => IncidentTracked
  BY DEF IInv
<1> QED
  BY <1>1, Invariant, PTL

\* A check that runs to its end repairs what earlier ones lost.
THEOREM ResultsAreHandled == Spec => ResultHandled
<1> DEFINE Handled ==
      step = "recorded" /\ step' # "recorded" /\ crashes' = crashes /\ present =>
        /\ up => ~Open'
        /\ streak >= Threshold => Open'
<1>1. ASSUME IInv, Next, step = "recorded", step' # "recorded", crashes' = crashes, present
      PROVE  (up => ~Open') /\ (streak >= Threshold => Open')
  <2> USE ThresholdAssumption
  <2>1. CASE Decide
    <3>1. events \in Seq(EventType) /\ streak \in Nat /\ (up => streak = 0)
      BY <1>1 DEF IInv, TypeOK, HalfTracked, EventType
    <3>2. CASE events' = events /\ ~(OutageCounted \/ RecoveryDue)
      BY <1>1, <3>1, <3>2 DEF OutageCounted, RecoveryDue, Open
    <3>3. ASSUME NEW v \in EventType, events' = Append(events, v),
                 \/ OutageCounted /\ v = Event("OUTAGE", streak)
                 \/ RecoveryDue /\ v = Event("RECOVERY", 0)
          PROVE  Open' <=> ~up
      <4>1. /\ events' # <<>> /\ Len(events') = Len(events) + 1
            /\ events'[Len(events) + 1] = v
        BY <3>1, <3>3, AppendOpens
      <4>2. v.kind = IF up THEN "RECOVERY" ELSE "OUTAGE"
        BY <3>3 DEF OutageCounted, RecoveryDue, Event
      <4> QED
        BY <4>1, <4>2 DEF Open
    <3> QED
      BY <1>1, <2>1, <3>1, <3>2, <3>3, DecideEvents
  <2>2. CASE Delete
    BY <1>1, <2>2 DEF Delete
  <2>3. ~Record /\ ~Post /\ ~RecordDelivery
    BY <1>1 DEF Record, Post, RecordDelivery
  <2>4. crashes \in Nat
    BY <1>1 DEF IInv, TypeOK
  <2>5. ~Crash
    <3>1. crashes + 1 # crashes
      BY <2>4
    <3>2. Crash => crashes' = crashes + 1
      BY DEF Crash
    <3> QED
      BY <1>1, <3>1, <3>2
  <2> QED
    BY <1>1, <2>1, <2>2, <2>3, <2>5 DEF Next
<1>2. ASSUME IInv, [Next]_vars PROVE [Handled]_vars
  BY <1>1, <1>2
<1>3. IInv /\ [Next]_vars => [Handled]_vars
  BY <1>2
<1>4. Spec => [][Handled]_vars
  BY <1>3, Invariant, PTL DEF Spec
<1> QED
  BY <1>4 DEF ResultHandled

\* A delivery that is on record as successful was accepted by the receiver.
THEOREM DeliveriesTrue == Spec => []DeliveredWasAccepted
<1>1. IInv => DeliveredWasAccepted
  BY DEF IInv
<1> QED
  BY <1>1, Invariant, PTL

\* Every step is a step of the log or leaves it as it is.
LEMMA LogStep ==
  IInv /\ [Next]_vars => [Log!Turns \/ Log!Settles \/ Log!Forgotten]_(Log!log)
<1> SUFFICES ASSUME IInv, [Next]_vars
             PROVE  Log!Turns \/ Log!Settles \/ Log!Forgotten \/ UNCHANGED Log!log
  OBVIOUS
<1>0. /\ events \in Seq(EventType) /\ Len(events) \in Nat /\ DOMAIN events = 1..Len(events)
      /\ present \in BOOLEAN
  BY DEF IInv, TypeOK, EventType
<1>1. ASSUME UNCHANGED <<events, present>> PROVE UNCHANGED Log!log
  BY <1>1 DEF Log!log, Open, Settled
<1>2. CASE Decide
  <2>1. CASE events' = events
    BY <1>1, <1>2, <2>1 DEF Decide
  <2>2. ASSUME present, NEW v \in EventType, events' = Append(events, v),
               \/ OutageCounted /\ v = Event("OUTAGE", streak)
               \/ RecoveryDue /\ v = Event("RECOVERY", 0)
        PROVE  Log!Turns
    <3>1. /\ events' \in Seq(EventType) /\ events' # <<>>
          /\ Len(events') = Len(events) + 1 /\ DOMAIN events' = 1..(Len(events) + 1)
          /\ events'[Len(events) + 1] = v
          /\ \A i \in 1..Len(events) : events'[i] = events[i]
      BY <1>0, <2>2, AppendOpens
    <3>2. v.kind = (IF Open THEN "RECOVERY" ELSE "OUTAGE") /\ v.delivered = "null"
      BY <2>2 DEF OutageCounted, RecoveryDue, Event
    <3>3. Open' <=> ~Open
      BY <3>1, <3>2 DEF Open
    <3>4. Settled' = Settled
      BY <1>0, <3>1, <3>2 DEF Settled
    <3>5. present' = present
      BY <1>2 DEF Decide
    <3> QED
      BY <2>2, <3>1, <3>3, <3>4, <3>5 DEF Log!Turns, Open
  <2> QED
    BY <1>2, <2>1, <2>2, DecideEvents
<1>3. CASE RecordDelivery
  <2>1. CASE ~present
    BY <1>1, <1>3, <2>1 DEF RecordDelivery
  <2>2. CASE present
    <3>1. /\ events[Len(events)].delivered = "null" /\ reply # "null" /\ present' = present
      BY <1>3, <2>2 DEF IInv, Pending, RecordDelivery
    <3>2. /\ events # <<>> /\ Len(events') = Len(events) /\ events' # <<>>
          /\ events' \in Seq(EventType)
          /\ \A i \in 1..Len(events) : events'[i].kind = events[i].kind
          /\ \A i \in 1..Len(events) :
               events'[i].delivered = IF i = Len(events) THEN reply ELSE events[i].delivered
      BY <1>3, <2>2, Noted
    <3>3. Len(events) \in 1..Len(events) /\ DOMAIN events' = 1..Len(events) /\ Len(events) > 0
      <4>1. events \in Seq(EventType) /\ events # <<>>
        BY <1>0, <3>2
      <4>2. Len(events) \in 1..Len(events) /\ Len(events) > 0
        BY <4>1, EmptySeq
      <4>3. DOMAIN events' = 1..Len(events)
        BY <3>2
      <4> QED
        BY <4>2, <4>3
    <3>4. Open' <=> Open
      BY <3>2, <3>3 DEF Open
    <3>5. Len(events) \notin Settled /\ Settled' = Settled \cup {Len(events)}
      BY <1>0, <3>1, <3>2, <3>3 DEF Settled
    <3> QED
      <4>1. Log!Settles
        BY <3>1, <3>2, <3>3, <3>4, <3>5 DEF Log!Settles
      <4> QED
        BY <4>1
  <2> QED
    BY <2>1, <2>2
<1>4. CASE Delete
  <2>1. present /\ ~present' /\ events' = <<>> /\ Len(events') = 0 /\ DOMAIN events' = {}
    BY <1>4 DEF Delete
  <2> QED
    BY <2>1 DEF Log!Forgotten, Open, Settled
<1>5. CASE Record \/ Post \/ Crash \/ UNCHANGED vars
  BY <1>1, <1>5 DEF Record, Post, Crash, vars
<1> QED
  BY <1>2, <1>3, <1>4, <1>5 DEF Next

\* The events are the log that IncidentLog promises.
THEOREM LogImplemented == Spec => LogKept
<1>1. Init => Log!Init
  <2> SUFFICES ASSUME Init PROVE Log!Init
    OBVIOUS
  <2>1. events = <<>> /\ Len(events) = 0 /\ DOMAIN events = {}
    BY DEF Init
  <2> QED
    BY <2>1 DEF Init, Log!Init, Open, Settled
<1> QED
  BY <1>1, LogStep, Invariant, PTL DEF Spec, LogKept, Log!Spec
=============================================================================
