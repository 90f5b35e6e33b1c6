---------------------------- MODULE InstallPool ----------------------------
(***************************************************************************)
(* What the node promises about dependency installs: a fixed number of     *)
(* permits, each held by one party at a time.  A permit is acquired or the *)
(* request is refused, is passed on from the request to the install it     *)
(* starts, comes back once, and all come back when the process dies.       *)
(***************************************************************************)
EXTENDS Naturals, FiniteSets

CONSTANTS Holders, Capacity

VARIABLE held

Init == held = {}

Acquire(h) ==
  /\ h \notin held
  /\ Cardinality(held) < Capacity
  /\ held' = held \cup {h}

PassOn(h, g) ==
  /\ h \in held /\ g \notin held
  /\ held' = (held \ {h}) \cup {g}

Release(h) ==
  /\ h \in held
  /\ held' = held \ {h}

Lose == held' = {}

Next ==
  \/ \E h \in Holders : Acquire(h) \/ Release(h)
  \/ \E h, g \in Holders : PassOn(h, g)
  \/ Lose

Spec == Init /\ [][Next]_held
=============================================================================
