------------------------------ MODULE MCSessions ------------------------------
(* A small instance of Sessions for TLC: two tabs of one browser and a tab of *)
(* another.                                                                   *)
EXTENDS Sessions, TLC

CONSTANTS b1, b2, t1, t2, t3, ann, bob

MCBrowsers == {b1, b2}
MCNames == {ann, bob}
MCTabs == {t1, t2, t3}
MCBrowserOf == (t1 :> b1) @@ (t2 :> b1) @@ (t3 :> b2)

\* The two tabs of one browser are interchangeable, and so are the names.
Symmetry == Permutations({t1, t2}) \cup Permutations(Names)
=============================================================================
