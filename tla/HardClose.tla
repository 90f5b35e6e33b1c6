----------------------------- MODULE HardClose -----------------------------
(***************************************************************************)
(* The last resort of the edge gate: the window of the whole process, the  *)
(* timer that a flood has to outlast, and the supervisor of the frontend   *)
(* that withdraws the listener and binds it again.  Connections that are   *)
(* open go on.  All times are relative to the present, which is 0.         *)
(***************************************************************************)
EXTENDS SlidingWindow, FiniteSets

CONSTANTS
  CloseAt,    \* GATE_CLOSE_RPS
  Sustain,    \* GATE_CLOSE_SUSTAIN
  CloseFor,   \* GATE_CLOSE_COOLDOWN
  Flood       \* bound: requests in a tick

ASSUME HardCloseConstants ==
  CloseAt \in Nat \ {0} /\ Sustain \in Nat \ {0} /\ CloseFor \in Nat \ {0} /\ Flood \in Nat

VARIABLES
  total,       \* _GlobalRate._row
  armed,       \* _close_state: armed_since
  closedUntil, \* _close_state: closed_until
  closed,      \* the supervisor's flag
  listeners,   \* sockets that are bound
  came         \* history: how many requests came in each of the last ticks

closeVars == <<total, armed, closedUntil, closed, listeners, came>>

NotArmed == 1
Sight == (1 - Sustain - 2 * Window)..0

\* There is one listener, or none.
HardCloseTypeOK ==
  /\ total \in Bucket /\ total.start \in (-2 * Window)..0
  /\ armed \in (-Sustain..0) \cup {NotArmed} /\ closedUntil \in 0..CloseFor
  /\ closed \in BOOLEAN /\ listeners \in 0..1 /\ came \in [Sight -> 0..Flood]

HardCloseInit ==
  /\ total = NewBucket(-2 * Window) /\ armed = NotArmed /\ closedUntil = 0
  /\ closed = FALSE /\ listeners = 1 /\ came = [x \in Sight |-> 0]

-----------------------------------------------------------------------------
Floods(rate) == rate >= CloseAt * Window

\* Mutant: a lull does not drop the timer.
PressureKeeps(rate) ==
  /\ closedUntil' = IF Floods(rate) /\ armed <= -Sustain THEN CloseFor ELSE closedUntil
  /\ armed' = IF ~Floods(rate) THEN armed
              ELSE IF armed = NotArmed THEN 0
              ELSE IF armed <= -Sustain THEN NotArmed ELSE armed
\* note_pressure
Pressure(rate) ==
  /\ closedUntil' = IF Floods(rate) /\ armed <= -Sustain THEN CloseFor ELSE closedUntil
  /\ armed' = IF ~Floods(rate) THEN NotArmed
              ELSE IF armed = NotArmed THEN 0
              ELSE IF armed <= -Sustain THEN NotArmed ELSE armed

\* While the listener is to be closed the pressure is not looked at.
IsShut == closedUntil > 0
\* _note_global
FloodArrives ==
  /\ came[0] < Flood /\ came' = [came EXCEPT ![0] = @ + 1]
  /\ LET b == Roll(total, 0) IN
       /\ total' = Counted(b)
       /\ IF IsShut THEN UNCHANGED <<armed, closedUntil>> ELSE Pressure(Estimate(b, 0))
  /\ UNCHANGED <<closed, listeners>>

\* _serve_hard_close polls should_be_closed.
Withdraws ==
  /\ ~closed /\ closedUntil > 0
  /\ closed' = TRUE /\ listeners' = listeners - 1
  /\ UNCHANGED <<total, armed, closedUntil, came>>
Rebinds ==
  /\ closed /\ closedUntil = 0
  /\ closed' = FALSE /\ listeners' = listeners + 1
  /\ UNCHANGED <<total, armed, closedUntil, came>>

\* The supervisor looks in every tick.  What is two windows old is as good as older.
Older(x, limit) == IF x - 1 < limit THEN limit ELSE x - 1
SecondPasses ==
  /\ ~(closed /\ closedUntil = 0)
  /\ total' = [total EXCEPT !.start = Older(@, -2 * Window)]
  /\ armed' = IF armed = NotArmed THEN NotArmed ELSE Older(armed, -Sustain)
  /\ closedUntil' = Older(closedUntil, 0)
  /\ came' = [x \in Sight |-> IF x = 0 THEN 0 ELSE came[x + 1]]
  /\ UNCHANGED <<closed, listeners>>

-----------------------------------------------------------------------------
HardCloseNext == FloodArrives \/ Withdraws \/ Rebinds \/ SecondPasses
HardCloseSpec == HardCloseInit /\ [][HardCloseNext]_closeVars

-----------------------------------------------------------------------------
(* Properties *)

\* What is in the history of some ticks: the n-th request of each.
Arrivals(history, first, last) ==
  {p \in Sight \X (1..Flood) : first <= p[1] /\ p[1] <= last /\ p[2] <= history[p[1]]}

\* "A single spike drops the timer back to zero": when the listener is to be
\* closed, the process was above the watermark whenever anything arrived, for all
\* of the time that this had to last.
CloseSustained ==
  [][closedUntil' > closedUntil =>
       \A x \in -Sustain..0 : x \in Sight /\ came'[x] > 0 =>
         Cardinality(Arrivals(came', x - 2 * Window + 1, x)) >= CloseAt]_closeVars
=============================================================================
