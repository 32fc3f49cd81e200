----------------------------- MODULE MCMonitoring ------------------------------
(* A small instance of Monitoring for TLC. *)
EXTENDS Monitoring

An(f, c) == [form |-> f, class |-> c]

Plain == [clean |-> TRUE, scheme |-> "https", credentials |-> FALSE, host |-> "name",
          address |-> An("v4", "public"), port |-> "none"]

\* Only the first can be registered.
MCUrls == {Plain, [Plain EXCEPT !.host = "literal", !.address = An("mapped", "local")],
           [Plain EXCEPT !.host = "literal", !.address = An("nat64", "public")],
           [Plain EXCEPT !.host = "numeric"], [Plain EXCEPT !.credentials = TRUE]}

\* A name that fails, is public, is partly public, and has moved to tunnels.
MCAnswers == {<<>>, <<An("v4", "public"), An("v6", "public")>>,
              <<An("v6", "public"), An("mapped", "local")>>,
              <<An("teredo", "public")>>, <<An("mapped", "special")>>}
=============================================================================
