------------------------------ MODULE EdgeGate ------------------------------
(***************************************************************************)
(* The table of the edge gate in front of the web frontend: a sliding      *)
(* window per address, the cap of the table and its sweep, and the block   *)
(* of an address that asks too often.  A request passes within a tick.     *)
(***************************************************************************)
EXTENDS SlidingWindow, FiniteSets, FiniteSetsExt

CONSTANTS
  Visitors,     \* client addresses
  GateThreads,  \* threads that serve requests
  IpMax,        \* GATE_IP_MAX
  Cooldown,     \* GATE_IP_COOLDOWN
  MaxTracked,   \* GATE_MAX_TRACKED
  SweepEvery,   \* GATE_SWEEP_SECONDS
  LastTick,     \* bound: ticks
  Burst         \* bound: requests in a tick

ASSUME EdgeGateConstants ==
  /\ Visitors # {} /\ IpMax \in Nat \ {0} /\ Cooldown \in Nat \ {0} /\ MaxTracked \in Nat \ {0}
  /\ SweepEvery \in Nat \ {0} /\ LastTick \in Nat \ {0} /\ Burst \in Nat

VARIABLES
  tick,        \* time.monotonic()
  rows,        \* _RateTable._rows: the addresses that are tracked
  nextSweep,   \* _RateTable._next_sweep
  hits,        \* the request of each thread
  burst,       \* history: requests in this tick
  passed,      \* history: when requests of each tracked address were let through
  shedUntil    \* history: the end of the last block of each address

gateVars == <<tick, rows, nextSweep, hits, burst, passed, shedUntil>>

Ticks == 1..LastTick
Tracked == [bucket : Bucket, until : Nat, seen : Nat]
Hit == [step : {"idle", "arrived", "over"}, visitor : Visitors]
NoHit == [step |-> "idle", visitor |-> CHOOSE v \in Visitors : TRUE]
Tabled == DOMAIN rows

\* The table never outgrows its cap, whatever arrives.
EdgeGateTypeOK ==
  /\ tick \in Ticks /\ Tabled \subseteq Visitors /\ rows \in [Tabled -> Tracked]
  /\ nextSweep \in Nat /\ hits \in [GateThreads -> Hit] /\ burst \in 0..Burst
  /\ passed \in [Visitors -> [Ticks -> Nat]] /\ shedUntil \in [Visitors -> Nat]
  /\ Cardinality(Tabled) <= MaxTracked

EdgeGateInit ==
  /\ tick = 1 /\ rows = [v \in {} |-> 0] /\ nextSweep = 0
  /\ hits = [h \in GateThreads |-> NoHit] /\ burst = 0
  /\ passed = [v \in Visitors |-> [x \in Ticks |-> 0]]
  /\ shedUntil = [v \in Visitors |-> 0]

-----------------------------------------------------------------------------
(* A request *)

Arrives(h, v) ==
  /\ hits[h].step = "idle" /\ burst < Burst
  /\ hits' = [hits EXCEPT ![h] = [step |-> "arrived", visitor |-> v]]
  /\ burst' = burst + 1
  /\ UNCHANGED <<tick, rows, nextSweep, passed, shedUntil>>

\* Mutant: a row goes when its windows are over, blocked or not.
StaleWhenIdle(r) == tick - r.seen > 2 * Window
\* What can no longer affect a decision.
Stale(r) == tick - r.seen > Max({2 * Window, Cooldown}) /\ r.until <= tick

\* _sweep.  What it does with a table above its cap never happens: hit does not
\* let the table grow that far.
Kept == IF tick >= nextSweep THEN {v \in Tabled : ~Stale(rows[v])} ELSE Tabled
SweepIsOver == nextSweep' = IF tick >= nextSweep THEN tick + SweepEvery ELSE nextSweep

\* Mutant: the cap is not looked at.
FullNever(table) == FALSE
Full(table) == Cardinality(table) >= MaxTracked

\* Mutant: one request too many.
ExceedsLate(estimate) == estimate > (IpMax + 1) * Window
Exceeds(estimate) == estimate >= IpMax * Window

HitDone(h) == hits' = [hits EXCEPT ![h] = NoHit]
\* hit, and the decision that follows it at once.
IsCounted(h) ==
  LET v == hits[h].visitor
      r == IF v \in Kept THEN rows[v] ELSE [bucket |-> NewBucket(tick), until |-> 0, seen |-> tick]
      b == Roll(r.bucket, tick) IN
  /\ hits[h].step = "arrived" /\ (v \in Kept \/ ~Full(Kept))
  /\ rows' = [w \in Kept \cup {v} |->
       IF w = v THEN [bucket |-> Counted(b), until |-> r.until, seen |-> tick] ELSE rows[w]]
  /\ IF r.until > tick THEN HitDone(h) /\ UNCHANGED passed
     ELSE IF Exceeds(Estimate(b, tick))
          THEN hits' = [hits EXCEPT ![h].step = "over"] /\ UNCHANGED passed
          ELSE HitDone(h) /\ passed' = [passed EXCEPT ![v][tick] = @ + 1]
  /\ SweepIsOver /\ UNCHANGED <<tick, burst, shedUntil>>

\* A table that is full does not allocate; the request goes on uncounted.
IsNotCounted(h) ==
  /\ hits[h].step = "arrived" /\ hits[h].visitor \notin Kept /\ Full(Kept)
  /\ rows' = [w \in Kept |-> rows[w]] /\ HitDone(h)
  /\ SweepIsOver /\ UNCHANGED <<tick, burst, passed, shedUntil>>

\* block, under the lock anew, and the answer.
IsBlocked(h) ==
  LET v == hits[h].visitor IN
  /\ hits[h].step = "over"
  /\ rows' = IF v \in Tabled THEN [rows EXCEPT ![v].until = tick + Cooldown] ELSE rows
  /\ shedUntil' = [shedUntil EXCEPT ![v] = tick + Cooldown] /\ HitDone(h)
  /\ UNCHANGED <<tick, nextSweep, burst, passed>>

\* The history forgets what is older than a window.
TickPasses ==
  /\ tick < LastTick /\ \A h \in GateThreads : hits[h].step = "idle"
  /\ tick' = tick + 1 /\ burst' = 0
  /\ passed' = [v \in Visitors |-> [x \in Ticks |-> IF x <= tick + 1 - Window THEN 0 ELSE passed[v][x]]]
  /\ UNCHANGED <<rows, nextSweep, hits, shedUntil>>

-----------------------------------------------------------------------------
EdgeGateNext ==
  \/ \E h \in GateThreads, v \in Visitors : Arrives(h, v)
  \/ \E h \in GateThreads : IsCounted(h) \/ IsNotCounted(h) \/ IsBlocked(h)
  \/ TickPasses
EdgeGateSpec == EdgeGateInit /\ [][EdgeGateNext]_gateVars

-----------------------------------------------------------------------------
(* Properties *)

\* What the history has of an address: the n-th request of each tick.
LetThrough(v) == UNION {{x} \X (1..passed[v][x]) : x \in Ticks}

\* The estimate is approximate at the boundary of its buckets, but an address that
\* is tracked gets fewer than two ceilings' worth of requests through in the time
\* of a window, wherever that lies and whatever the sweep does in between: what the
\* older bucket no longer counts for is what can be let through in excess.
PassedBound ==
  \A v \in Visitors :
    Cardinality(LetThrough(v)) * Window
      < IpMax * Window + (IpMax - 1) * Max({0, Window - 2})

\* Nothing of an address is let through before its block is over, although the
\* row that says so may be swept.
BlockHolds ==
  [][\A v \in Visitors : passed'[v][tick] > passed[v][tick] => shedUntil[v] <= tick]_gateVars
=============================================================================
