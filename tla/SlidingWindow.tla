--------------------------- MODULE SlidingWindow ---------------------------
(***************************************************************************)
(* The counter of edge_gate.py: two buckets of one window each, of which   *)
(* the older counts for the part that is still in sight.  Time is in       *)
(* ticks; an estimate is in requests times Window.                         *)
(***************************************************************************)
EXTENDS Integers

CONSTANT Window   \* GATE_WINDOW
ASSUME WindowPositive == Window \in Nat \ {0}

Bucket == [start : Int, count : Nat, before : Nat]
NewBucket(now) == [start |-> now, count |-> 0, before |-> 0]

\* _roll: the window moves on by one, or starts anew after two without a request.
Roll(b, now) ==
  IF now - b.start >= 2 * Window THEN NewBucket(now)
  ELSE IF now - b.start >= Window
       THEN [start |-> b.start + Window, count |-> 0, before |-> b.count]
       ELSE b
Counted(b) == [b EXCEPT !.count = @ + 1]
\* Of a bucket that was rolled, and with the request that asks.
Estimate(b, now) == b.count * Window + b.before * (Window - (now - b.start)) + Window
=============================================================================
