----------------------------- MODULE Destinations -----------------------------
(* Which URLs are accepted and which addresses may be connected to:           *)
(* app/security.py.  A hostname and an address are represented by the classes *)
(* that the code tells apart; the tables that classify single names and       *)
(* networks are abstracted to these classes.                                  *)
EXTENDS Sequences

\* Written as such, or an IPv6 address with an IPv4 address inside.
Tunnels == {"sixtofour", "teredo", "nat64"}
Forms == {"v4", "v6", "mapped"} \cup Tunnels

\* local: not is_global.  special: multicast, reserved or unspecified.
\* listed: in EXTRA_BLOCKED_NETWORKS.  The class is that of the inner address.
Classes == {"public", "local", "special", "listed"}

Address == [form : Forms, class : Classes]

Hosts == {"none", "blocked", "numeric", "literal", "name"}

\* clean: of legal length and without whitespace.  address counts for a literal.
Url == [clean : BOOLEAN, scheme : {"http", "https", "other"}, credentials : BOOLEAN,
        host : Hosts, address : Address, port : {"none", "valid", "invalid"}]

Unwrap(a) == IF a.form = "v6" THEN a ELSE [form |-> "v4", class |-> a.class]

\* What the standard library and the table say of an address as it stands: they
\* see the network of a tunnel; a mapped address shows only when unwrapped.
IsLocal(a) == a.form \in {"v4", "v6"} /\ a.class = "local"
IsSpecial(a) == a.form \in {"v4", "v6"} /\ a.class = "special"
InListedNetwork(a) == a.form \in Tunnels \/ (a.form # "mapped" /\ a.class = "listed")

IsBlocked(a) ==
  LET candidate == Unwrap(a)
  IN \/ IsLocal(candidate) \/ IsSpecial(candidate)
     \/ InListedNetwork(a) \/ InListedNetwork(candidate)

\* parse_url returns, rather than raises.
Parses(u) ==
  /\ u.clean
  /\ u.scheme \in {"http", "https"}
  /\ ~u.credentials
  /\ u.host \notin {"none", "blocked", "numeric"}
  /\ u.host = "literal" => ~IsBlocked(u.address)
  /\ u.port # "invalid"

\* The addresses a URL stands for, if a look-up of its name has this answer
\* (empty: the look-up fails).
Resolved(u, answer) == IF u.host = "literal" THEN <<u.address>> ELSE answer

AllAllowed(addresses) == \A i \in DOMAIN addresses : ~IsBlocked(addresses[i])

\* validate_destination returns a target with these addresses.
Validates(u, answer) ==
  /\ Parses(u)
  /\ Resolved(u, answer) # <<>>
  /\ AllAllowed(Resolved(u, answer))

\* README, "Security defaults": what a probe may connect to.
Permitted == {a \in Address : a.class = "public" /\ a.form \notin Tunnels}
=============================================================================
