------------------------------ MODULE MCFleet ------------------------------
(***************************************************************************)
(* Instances of Fleet: one or two of everything.  Ids are interchangeable, *)
(* and so are panel instances.                                             *)
(***************************************************************************)
EXTENDS Fleet, TLC

CONSTANTS s1, s2, n1, n2, p1, p2

OneServer == {s1}
TwoServers == {s1, s2}
OneNode == {n1}
TwoNodes == {n1, n2}
OnePanel == {p1}
TwoPanels == {p1, p2}
Symmetry == Permutations(TwoServers) \cup Permutations(TwoPanels)
=============================================================================
