-------------------------------- MODULE Probe ---------------------------------
(* One probe after another of one endpoint: HttpChecker in app/checker.py.    *)
(* Every network operation may succeed, fail or time out, and the answer of a *)
(* DNS look-up may be another one each time.  httpx applies its timeout to    *)
(* each read, not to the probe as a whole, and a read may bring nothing that  *)
(* the probe counts.                                                          *)
EXTENDS Integers, Destinations

CONSTANTS Urls,      \* what users may try to register
          Answers,   \* what a DNS look-up may answer
          MaxBytes,  \* Settings.max_response_bytes
          Chunks,    \* sizes in which a body may arrive
          MaxNow     \* bound: the clock stops here

ASSUME UrlsAssumption == Urls \subseteq Url /\ Answers \subseteq Seq(Address)
ASSUME BodyAssumption == MaxBytes \in Nat /\ Chunks \subseteq Nat \ {0}
ASSUME ClockAssumption == MaxNow \in Nat

VARIABLES
  now,        \* wall clock
  url,        \* the endpoint's, as registered
  step,       \* where the probe is
  addresses,  \* target.addresses, validated
  peers,      \* addresses this probe has connected to (history variable)
  remaining,  \* bytes of the body it may still read
  status,     \* of the response: none, success (2xx) or other
  checkedAt,  \* outcome.checked_at
  seenAt      \* when the outcome was settled by the network (history variable)

probe == <<step, addresses, peers, remaining, status, checkedAt, seenAt>>

Steps == {"idle", "claimed", "started", "validated", "connected", "head",
          "body", "data", "chunk", "closing", "probed"}
Statuses == {"none", "success", "other"}

\* Two readings of utcnow() are never equal.
ReadClock == now < MaxNow /\ now' = now + 1

\* create_endpoint_route stores a URL that validates by the answer of that day.
Registrable == {u \in Urls : \E answer \in Answers : Validates(u, answer)}

NoProbe ==
  /\ step = "idle" /\ addresses = <<>> /\ peers = {} /\ remaining = MaxBytes
  /\ status = "none" /\ checkedAt = 0 /\ seenAt = 0

ProbeInit == now = 0 /\ url \in Registrable /\ NoProbe

\* check() takes checked_at before anything else.
Start ==
  /\ step = "claimed"
  /\ ReadClock
  /\ checkedAt' = now'
  /\ step' = "started"
  /\ UNCHANGED <<url, addresses, peers, remaining, status, seenAt>>

\* Every operation may raise, the end of the two "async with" blocks included.
MayRaise == step \in {"started", "validated", "connected", "head", "body", "data", "closing"}

\* A DOWN without a status: the exceptions that check and _probe turn into one.
Fail ==
  /\ MayRaise
  /\ step' = "probed"
  /\ status' = "none" /\ seenAt' = now
  /\ UNCHANGED <<now, url, addresses, peers, remaining, checkedAt>>

\* Any other exception; _execute_check turns it into a DOWN of that moment.
Raise ==
  /\ MayRaise
  /\ ReadClock
  /\ step' = "probed"
  /\ status' = "none" /\ checkedAt' = now' /\ seenAt' = now'
  /\ UNCHANGED <<url, addresses, peers, remaining>>

\* validate_destination.
Validate ==
  /\ step = "started"
  /\ \E answer \in Answers :
       /\ Validates(url, answer)
       /\ addresses' = Resolved(url, answer)
  /\ step' = "validated"
  /\ UNCHANGED <<now, url, peers, remaining, status, checkedAt, seenAt>>

TargetsAnew == {answer[1] : answer \in Answers \ {<<>>}}
Targets == {addresses[1]}

\* request_url holds an address, not the name.
Connect ==
  /\ step = "validated"
  /\ \E a \in Targets : peers' = peers \cup {a}
  /\ step' = "connected"
  /\ UNCHANGED <<now, url, addresses, remaining, status, checkedAt, seenAt>>

\* A read of the connection ends within the timeout.
Read ==
  /\ \/ step = "connected" /\ step' = "head"
     \/ step = "body" /\ step' = "data"
  /\ UNCHANGED <<now, url, addresses, peers, remaining, status, checkedAt, seenAt>>

\* It brought a part of a head or a 1xx response, or data that decodes to no
\* byte (httpx decodes whatever was asked for): httpx reads again.
ReadAgain ==
  /\ \/ step = "head" /\ step' = "connected"
     \/ step = "data" /\ step' = "body"
  /\ UNCHANGED <<now, url, addresses, peers, remaining, status, checkedAt, seenAt>>

\* The head of the response; redirects are not followed.
Respond ==
  /\ step = "head"
  /\ status' \in {"success", "other"}
  /\ seenAt' = now
  /\ step' = IF remaining > 0 THEN "body" ELSE "closing"
  /\ UNCHANGED <<now, url, addresses, peers, remaining, checkedAt>>

\* _drain_limited: a chunk of decoded bytes arrives, and is counted.
Receive ==
  /\ step = "data"
  /\ \E n \in Chunks : remaining' = IF n < remaining THEN remaining - n ELSE 0
  /\ step' = "chunk"
  /\ UNCHANGED <<now, url, addresses, peers, status, checkedAt, seenAt>>

NeverExhausted == FALSE
Exhausted == remaining = 0

Count ==
  /\ step = "chunk"
  /\ step' = IF Exhausted THEN "closing" ELSE "body"
  /\ UNCHANGED <<now, url, addresses, peers, remaining, status, checkedAt, seenAt>>

EndOfBody ==
  /\ step \in {"body", "data"}
  /\ step' = "closing"
  /\ UNCHANGED <<now, url, addresses, peers, remaining, status, checkedAt, seenAt>>

\* The end of "async with" for the response and for the client.
Close ==
  /\ step = "closing"
  /\ step' = "probed"
  /\ UNCHANGED <<now, url, addresses, peers, remaining, status, checkedAt, seenAt>>

\* The outcome's availability is UP.
IsUp == status = "success"

Reset ==
  /\ step' = "idle" /\ addresses' = <<>> /\ peers' = {} /\ remaining' = MaxBytes
  /\ status' = "none" /\ checkedAt' = 0 /\ seenAt' = 0
  /\ UNCHANGED <<now, url>>

ProbeGoesOn == \/ Fail \/ Raise \/ Validate \/ Connect \/ Read \/ ReadAgain
               \/ Respond \/ Receive \/ Count \/ EndOfBody \/ Close
=============================================================================
