----------------------------- MODULE GateProofs -----------------------------
(***************************************************************************)
(* Theorems about the table of the edge gate (EdgeGate): how many requests *)
(* of an address are let through in the time of a window, that a block     *)
(* lasts, and that the table keeps within its cap.                         *)
(***************************************************************************)
EXTENDS EdgeGate, FiniteSetTheorems, TLAPS

-----------------------------------------------------------------------------
(* A sliding window and the requests it let through *)

Since(P, start) == {p \in P : p[1] >= start}
Earlier(P, start) == {p \in P : p[1] < start}
\* P is what was let through in the last window, as pairs of a tick and a
\* number.  What the newer bucket let through was below the ceiling at its last
\* request, with what the older one counted for d ticks into the newer.
Sound(P, b, seen, now) ==
  /\ P \in SUBSET (Int \X Int) /\ IsFiniteSet(P) /\ b \in Bucket /\ seen \in Int /\ now \in Int
  /\ b.start <= seen /\ seen <= now /\ seen - b.start < Window
  /\ \A p \in P : b.start - Window < p[1] /\ p[1] <= seen /\ now - Window < p[1]
  /\ Cardinality(Earlier(P, b.start)) <= b.before
  /\ Cardinality(Earlier(P, b.start)) <= IpMax - 1
  /\ Cardinality(Since(P, b.start)) <= b.count
  /\ Since(P, b.start) # {} =>
       \E d \in 0..(Window - 1) :
         /\ b.start + d <= now
         /\ Cardinality(Since(P, b.start)) * Window + b.before * (Window - d) < IpMax * Window

LEMMA Halves ==
  ASSUME NEW P \in SUBSET (Int \X Int), IsFiniteSet(P), NEW s \in Int
  PROVE  /\ IsFiniteSet(Since(P, s)) /\ IsFiniteSet(Earlier(P, s))
         /\ Cardinality(P) \in Nat /\ Cardinality(Since(P, s)) \in Nat
         /\ Cardinality(Earlier(P, s)) \in Nat
         /\ Cardinality(P) = Cardinality(Since(P, s)) + Cardinality(Earlier(P, s))
<1>1. /\ P = Since(P, s) \cup Earlier(P, s) /\ Since(P, s) \cap Earlier(P, s) = {}
      /\ Since(P, s) \in SUBSET P /\ Earlier(P, s) \in SUBSET P
  <2>1. \A p \in P : p[1] \in Int
    OBVIOUS
  <2> QED BY <2>1 DEF Since, Earlier
<1>2. IsFiniteSet(Since(P, s)) /\ IsFiniteSet(Earlier(P, s))
  BY <1>1, FS_Subset
<1>3. /\ Cardinality(P) \in Nat /\ Cardinality(Since(P, s)) \in Nat
      /\ Cardinality(Earlier(P, s)) \in Nat
  BY <1>2, FS_CardinalityType
<1>4. Cardinality(Since(P, s) \cap Earlier(P, s)) = 0
  BY <1>1, FS_EmptySet
<1>5. Cardinality(P) = Cardinality(Since(P, s)) + Cardinality(Earlier(P, s))
  <2> DEFINE A == Since(P, s)
             B == Earlier(P, s)
  <2>1. Cardinality(A \cup B) = Cardinality(A) + Cardinality(B) - Cardinality(A \cap B)
    BY <1>2, FS_Union
  <2>2. P = A \cup B /\ Cardinality(A \cap B) = 0
    BY <1>1, <1>4
  <2>3. Cardinality(A) \in Nat /\ Cardinality(B) \in Nat
    BY <1>3
  <2> HIDE DEF A, B
  <2>4. Cardinality(P) = Cardinality(A) + Cardinality(B)
    BY <2>1, <2>2, <2>3
  <2> QED BY <2>4 DEF A, B
<1> QED BY <1>2, <1>3, <1>5

\* Products keep the order of their first factors.
LEMMA Times ==
  ASSUME NEW a \in Int, NEW b \in Int, NEW c \in Nat, a <= b
  PROVE  a * c <= b * c
OBVIOUS

LEMMA TimesLess ==
  ASSUME NEW a \in Int, NEW b \in Int, NEW c \in Nat, a * c < b * c
  PROVE  a < b
OBVIOUS

\* The newer bucket lets through less than the ceiling.
LEMMA BelowCeiling ==
  ASSUME NEW n \in Nat, NEW b \in Nat, NEW d \in 0..(Window - 1),
         n * Window + b * (Window - d) < IpMax * Window
  PROVE  n <= IpMax - 1
<1>1. Window - d \in Nat /\ IpMax \in Nat /\ Window \in Nat
  BY WindowPositive, EdgeGateConstants
<1>2. b * (Window - d) >= 0 /\ b * (Window - d) \in Int
  <2>1. 0 * (Window - d) <= b * (Window - d)
    BY <1>1, Times
  <2> QED BY <1>1, <2>1
<1>3. n * Window \in Int /\ IpMax * Window \in Int
  BY <1>1
<1>4. n * Window < IpMax * Window
  BY <1>2, <1>3
<1>5. n < IpMax
  BY <1>1, <1>4, TimesLess
<1> QED BY <1>1, <1>5

\* What is let through in the time of a window.
LEMMA SoundBound ==
  ASSUME NEW P, NEW b, NEW seen, NEW now, Sound(P, b, seen, now)
  PROVE  Cardinality(P) * Window < IpMax * Window + (IpMax - 1) * Max({0, Window - 2})
<1> DEFINE n == Cardinality(Since(P, b.start))
           o == Cardinality(Earlier(P, b.start))
           e == Max({0, Window - 2})
<1>1. /\ Window \in Nat \ {0} /\ IpMax \in Nat \ {0} /\ n \in Nat /\ o \in Nat
      /\ Cardinality(P) = n + o /\ o <= IpMax - 1 /\ b.before \in Nat /\ o <= b.before
      /\ b.start \in Int /\ now \in Int /\ IsFiniteSet(P) /\ P \in SUBSET (Int \X Int)
      /\ IsFiniteSet(Since(P, b.start)) /\ IsFiniteSet(Earlier(P, b.start))
  BY Halves, WindowPositive, EdgeGateConstants DEF Sound, Bucket
<1>2. e \in Nat /\ e >= Window - 2
  BY <1>1 DEF Max
<1>3. (IpMax - 1) * e >= 0 /\ (IpMax - 1) * e \in Int
  <2>1. 0 * e <= (IpMax - 1) * e
    BY <1>1, <1>2, Times
  <2> QED BY <1>1, <1>2, <2>1
<1> HIDE DEF n, o, e
<1>4. CASE Since(P, b.start) = {}
  <2>1. n = 0
    BY <1>4, FS_EmptySet DEF n
  <2>2. (n + o) * Window <= (IpMax - 1) * Window
    BY <1>1, <2>1, Times
  <2>3. (IpMax - 1) * Window = IpMax * Window - Window /\ IpMax * Window \in Int
    BY <1>1
  <2> QED BY <1>1, <1>3, <2>2, <2>3 DEF e
<1>5. CASE Since(P, b.start) # {}
  <2>1. PICK d \in 0..(Window - 1) :
          b.start + d <= now /\ n * Window + b.before * (Window - d) < IpMax * Window
    BY <1>5 DEF Sound, n
  <2>2. d \in Nat /\ Window - d \in Nat
    BY <1>1
  <2>3. o * (Window - d) <= b.before * (Window - d)
    BY <1>1, <2>2, Times
  <2>4. (n + o) * Window = n * Window + o * (Window - d) + o * d
    BY <1>1, <2>2
  <2>5. o * d <= (IpMax - 1) * e
    <3>1. CASE Earlier(P, b.start) = {}
      <4>1. o = 0
        BY <3>1, FS_EmptySet DEF o
      <4> QED BY <1>3, <2>2, <4>1
    <3>2. CASE Earlier(P, b.start) # {}
      <4>1. PICK p \in P : p[1] < b.start
        BY <3>2 DEF Earlier
      <4>2. now - Window < p[1] /\ p[1] \in Int
        BY <4>1 DEF Sound
      <4>3. d <= e
        BY <1>1, <1>2, <2>1, <2>2, <4>1, <4>2
      <4>4. d * o <= e * o
        BY <1>1, <1>2, <2>2, <4>3, Times
      <4>5. o * e <= (IpMax - 1) * e
        BY <1>1, <1>2, Times
      <4>6. d * o = o * d /\ e * o = o * e
        BY <1>1, <1>2, <2>2
      <4>7. o * d \in Int /\ o * e \in Int
        BY <1>1, <1>2, <2>2
      <4> QED BY <1>3, <4>4, <4>5, <4>6, <4>7
    <3> QED BY <3>1, <3>2
  <2>6. /\ n * Window \in Int /\ o * (Window - d) \in Int /\ o * d \in Int
        /\ b.before * (Window - d) \in Int /\ IpMax * Window \in Int
    BY <1>1, <2>2
  <2>7. (n + o) * Window < IpMax * Window + (IpMax - 1) * e
    BY <1>3, <2>1, <2>3, <2>4, <2>5, <2>6
  <2> QED BY <1>1, <2>7 DEF e
<1> QED BY <1>4, <1>5

\* Fewer requests of the same bucket are sound as well.
LEMMA SoundFewer ==
  ASSUME NEW P, NEW b, NEW seen, NEW now, Sound(P, b, seen, now),
         NEW Q \in SUBSET P, NEW later \in Int, now <= later,
         \A p \in Q : later - Window < p[1]
  PROVE  Sound(Q, b, seen, later)
<1>1. Q \in SUBSET (Int \X Int) /\ IsFiniteSet(Q)
  BY FS_Subset DEF Sound
<1>2. /\ Cardinality(Since(Q, b.start)) <= Cardinality(Since(P, b.start))
      /\ Cardinality(Earlier(Q, b.start)) <= Cardinality(Earlier(P, b.start))
  <2>1. Since(Q, b.start) \in SUBSET Since(P, b.start) /\ Earlier(Q, b.start) \in SUBSET Earlier(P, b.start)
    BY DEF Since, Earlier
  <2>2. IsFiniteSet(Since(P, b.start)) /\ IsFiniteSet(Earlier(P, b.start))
    BY Halves DEF Sound, Bucket
  <2> QED BY <2>1, <2>2, FS_Subset
<1>3. /\ Cardinality(Since(Q, b.start)) \in Nat /\ Cardinality(Earlier(Q, b.start)) \in Nat
      /\ Cardinality(Since(P, b.start)) \in Nat /\ Cardinality(Earlier(P, b.start)) \in Nat
  BY <1>1, Halves DEF Sound, Bucket
<1>4. ASSUME Since(Q, b.start) # {}
      PROVE  \E d \in 0..(Window - 1) :
               /\ b.start + d <= later
               /\ Cardinality(Since(Q, b.start)) * Window + b.before * (Window - d) < IpMax * Window
  <2>1. Since(P, b.start) # {}
    BY <1>4 DEF Since
  <2>2. PICK d \in 0..(Window - 1) :
          /\ b.start + d <= now
          /\ Cardinality(Since(P, b.start)) * Window + b.before * (Window - d) < IpMax * Window
    BY <2>1 DEF Sound
  <2>3. Window \in Nat /\ IpMax \in Nat /\ b.before \in Nat /\ Window - d \in Nat /\ b.start \in Int /\ now \in Int
    BY WindowPositive, EdgeGateConstants DEF Sound, Bucket
  <2>4. Cardinality(Since(Q, b.start)) * Window <= Cardinality(Since(P, b.start)) * Window
    BY <1>2, <1>3, <2>3, Times
  <2>5. /\ Cardinality(Since(Q, b.start)) * Window \in Int /\ Cardinality(Since(P, b.start)) * Window \in Int
        /\ b.before * (Window - d) \in Int /\ IpMax * Window \in Int
    BY <1>3, <2>3
  <2>6. Cardinality(Since(Q, b.start)) * Window + b.before * (Window - d) < IpMax * Window
    BY <2>2, <2>4, <2>5
  <2>7. b.start + d <= later
    BY <2>2, <2>3
  <2> QED BY <2>6, <2>7
<1>5. b \in Bucket /\ seen \in Int /\ later \in Int /\ b.start <= seen /\ seen <= later /\ seen - b.start < Window
  BY DEF Sound
<1>6. \A p \in Q : b.start - Window < p[1] /\ p[1] <= seen /\ later - Window < p[1]
  BY DEF Sound
<1>7. /\ Cardinality(Earlier(Q, b.start)) <= b.before
      /\ Cardinality(Earlier(Q, b.start)) <= IpMax - 1
      /\ Cardinality(Since(Q, b.start)) <= b.count
  BY <1>2, <1>3, EdgeGateConstants DEF Sound, Bucket
<1> QED BY <1>1, <1>4, <1>5, <1>6, <1>7 DEF Sound

LEMMA SoundNew ==
  ASSUME NEW now \in Int
  PROVE  Sound({}, NewBucket(now), now, now)
<1>1. NewBucket(now) \in Bucket /\ NewBucket(now).start = now
      /\ NewBucket(now).count = 0 /\ NewBucket(now).before = 0
  BY DEF NewBucket, Bucket
<1>2. Since({}, now) = {} /\ Earlier({}, now) = {}
  BY DEF Since, Earlier
<1>3. IsFiniteSet({}) /\ Cardinality({}) = 0
  BY FS_EmptySet
<1>4. 0 <= IpMax - 1 /\ now - now < Window /\ now <= now /\ 0 <= 0
  BY WindowPositive, EdgeGateConstants
<1> DEFINE b == NewBucket(now)
<1>5. /\ b \in Bucket /\ b.start = now
      /\ Cardinality(Earlier({}, b.start)) <= b.before /\ Cardinality(Earlier({}, b.start)) <= IpMax - 1
      /\ Cardinality(Since({}, b.start)) <= b.count /\ Since({}, b.start) = {}
  BY <1>1, <1>2, <1>3, <1>4
<1> HIDE DEF b
<1>6. Sound({}, b, now, now)
  BY <1>3, <1>4, <1>5 DEF Sound
<1> QED BY <1>6 DEF b

\* The window moves on: what the newer bucket let through is now in the older,
\* and what was in the older is out of sight.
LEMMA SoundRolls ==
  ASSUME NEW P, NEW b, NEW seen, NEW now, Sound(P, b, seen, now)
  PROVE  Sound(P, Roll(b, now), now, now) /\ now - Roll(b, now).start < Window
<1>1. /\ b \in Bucket /\ b.start \in Int /\ now \in Int /\ seen \in Int /\ Window \in Nat \ {0}
      /\ b.start <= seen /\ seen <= now /\ seen - b.start < Window
      /\ b.count \in Nat /\ b.before \in Nat
      /\ P \in SUBSET (Int \X Int) /\ IsFiniteSet(P)
      /\ \A p \in P : p[1] \in Int /\ b.start - Window < p[1] /\ p[1] <= seen /\ now - Window < p[1]
  BY WindowPositive DEF Sound, Bucket
<1>2. CASE now - b.start >= 2 * Window
  <2>1. P = {}
    BY <1>1, <1>2
  <2>2. Roll(b, now) = NewBucket(now) /\ NewBucket(now).start = now
    BY <1>2 DEF Roll, NewBucket
  <2> QED BY <1>1, <2>1, <2>2, SoundNew
<1>3. CASE now - b.start >= Window /\ ~(now - b.start >= 2 * Window)
  <2> DEFINE r == [start |-> b.start + Window, count |-> 0, before |-> b.count]
  <2>1. Roll(b, now) = r
    BY <1>3 DEF Roll
  <2>2. r \in Bucket /\ r.start = b.start + Window /\ r.count = 0 /\ r.before = b.count
    BY <1>1 DEF Bucket
  <2> HIDE DEF r
  <2>3. Since(P, r.start) = {} /\ Earlier(P, r.start) = P /\ Since(P, b.start) = P
    <3>1. \A p \in P : p[1] < b.start + Window /\ p[1] >= b.start
      BY <1>1, <1>3
    <3> QED BY <1>1, <2>2, <3>1 DEF Since, Earlier
  <2>4. Cardinality(P) <= b.count /\ Cardinality(P) \in Nat
    BY <1>1, <2>3, FS_CardinalityType DEF Sound
  <2>5. Cardinality(P) <= IpMax - 1
    <3>1. CASE P = {}
      BY <3>1, FS_EmptySet, EdgeGateConstants
    <3>2. CASE P # {}
      BY <1>1, <2>3, <2>4, <3>2, BelowCeiling DEF Sound
    <3> QED BY <3>1, <3>2
  <2>6. Cardinality(Since(P, r.start)) = 0
    BY <2>3, FS_EmptySet
  <2>7. r.start <= now /\ now - r.start < Window
    BY <1>1, <1>3, <2>2
  <2>8. \A p \in P : r.start - Window < p[1] /\ p[1] <= now /\ now - Window < p[1]
    BY <1>1, <1>3, <2>2
  <2>9. /\ Cardinality(Earlier(P, r.start)) <= r.before /\ Cardinality(Earlier(P, r.start)) <= IpMax - 1
        /\ Cardinality(Since(P, r.start)) <= r.count
    BY <2>2, <2>3, <2>4, <2>5, <2>6
  <2>10. Sound(P, r, now, now)
    BY <1>1, <2>2, <2>3, <2>7, <2>8, <2>9 DEF Sound
  <2>11. now - r.start < Window
    BY <2>7
  <2> QED BY <2>1, <2>10, <2>11
<1>4. CASE ~(now - b.start >= Window)
  <2>1. Roll(b, now) = b /\ now - b.start < Window
    BY <1>1, <1>4 DEF Roll
  <2>2. \A p \in P : p[1] <= now
    BY <1>1
  <2> QED BY <1>1, <2>1, <2>2 DEF Sound
<1> QED BY <1>2, <1>3, <1>4

\* A request is counted, whether it is let through or not.
LEMMA SoundCounted ==
  ASSUME NEW P, NEW b, NEW seen, NEW now, Sound(P, b, seen, now)
  PROVE  Sound(P, Counted(b), seen, now)
<1>1. /\ Counted(b) \in Bucket /\ Counted(b).start = b.start /\ Counted(b).before = b.before
      /\ Counted(b).count = b.count + 1 /\ b.count \in Nat /\ b.start \in Int
  BY DEF Counted, Bucket, Sound
<1>2. Cardinality(Since(P, b.start)) \in Nat
  BY <1>1, Halves DEF Sound
<1> QED BY <1>1, <1>2 DEF Sound

\* What is let through was estimated below the ceiling.
LEMMA SoundPasses ==
  ASSUME NEW P, NEW b, NEW now, Sound(P, b, now, now), ~Exceeds(Estimate(b, now)),
         NEW n \in Int, <<now, n>> \notin P
  PROVE  Sound(P \cup {<<now, n>>}, Counted(b), now, now)
<1> DEFINE Q == P \cup {<<now, n>>}
           s == b.start
<1>1. /\ Counted(b) \in Bucket /\ Counted(b).start = s /\ Counted(b).before = b.before
      /\ Counted(b).count = b.count + 1 /\ b.count \in Nat /\ b.before \in Nat /\ s \in Int /\ now \in Int
      /\ P \in SUBSET (Int \X Int) /\ IsFiniteSet(P) /\ Window \in Nat \ {0} /\ IpMax \in Nat \ {0}
      /\ s <= now /\ now - s < Window
  BY WindowPositive, EdgeGateConstants DEF Counted, Bucket, Sound
<1>2. Earlier(Q, s) = Earlier(P, s) /\ Since(Q, s) = Since(P, s) \cup {<<now, n>>}
  BY <1>1 DEF Since, Earlier
<1>3. <<now, n>> \notin Since(P, s) /\ IsFiniteSet(Since(P, s)) /\ Cardinality(Since(P, s)) \in Nat
  BY <1>1, Halves DEF Since
<1>4. Cardinality(Since(Q, s)) = Cardinality(Since(P, s)) + 1
  BY <1>2, <1>3, FS_AddElement
<1>5. Cardinality(Since(P, s)) <= b.count
  BY DEF Sound
<1>6. Cardinality(Since(Q, s)) * Window + b.before * (Window - (now - s)) < IpMax * Window
  <2>1. b.count * Window + b.before * (Window - (now - s)) + Window < IpMax * Window
    <3>1. Estimate(b, now) < IpMax * Window
      BY <1>1 DEF Exceeds, Estimate
    <3> QED BY <3>1 DEF Estimate
  <2>2. Cardinality(Since(Q, s)) * Window <= (b.count + 1) * Window
    BY <1>1, <1>3, <1>4, <1>5, Times
  <2>3. (b.count + 1) * Window = b.count * Window + Window
    BY <1>1
  <2>4. /\ b.count * Window \in Int /\ b.before * (Window - (now - s)) \in Int /\ IpMax * Window \in Int
        /\ Cardinality(Since(Q, s)) * Window \in Int
    BY <1>1, <1>3, <1>4
  <2> HIDE DEF Q, s
  <2> QED BY <1>1, <2>1, <2>2, <2>3, <2>4
<1>7. Q \in SUBSET (Int \X Int) /\ IsFiniteSet(Q)
  BY <1>1, FS_AddElement
<1>8. \A p \in Q : s - Window < p[1] /\ p[1] <= now /\ now - Window < p[1]
  BY <1>1 DEF Sound
<1>9. \E d \in 0..(Window - 1) :
        /\ s + d <= now /\ Cardinality(Since(Q, s)) * Window + b.before * (Window - d) < IpMax * Window
  <2>1. now - s \in 0..(Window - 1) /\ s + (now - s) <= now
    BY <1>1
  <2> HIDE DEF Q, s
  <2> QED BY <1>6, <2>1
<1>10. /\ Cardinality(Earlier(Q, s)) <= b.before /\ Cardinality(Earlier(Q, s)) <= IpMax - 1
       /\ Cardinality(Since(Q, s)) <= b.count + 1
  BY <1>1, <1>2, <1>3, <1>4, <1>5 DEF Sound
<1> HIDE DEF Q, s
<1>11. Sound(Q, Counted(b), now, now)
  BY <1>1, <1>7, <1>8, <1>9, <1>10 DEF Sound
<1> QED BY <1>11 DEF Q

-----------------------------------------------------------------------------
(* The table *)

GateTyped ==
  /\ tick \in Ticks /\ Tabled \subseteq Visitors /\ rows \in [Tabled -> Tracked]
  /\ nextSweep \in Nat /\ hits \in [GateThreads -> Hit] /\ burst \in 0..Burst
  /\ passed \in [Visitors -> [Ticks -> Nat]] /\ shedUntil \in [Visitors -> Nat]
Capped == IsFiniteSet(Tabled) /\ Cardinality(Tabled) <= MaxTracked
\* Until a thread blocks the address that it counted, its row was seen just now.
JustSeen ==
  \A h \in GateThreads : hits[h].step = "over" =>
    hits[h].visitor \in Tabled /\ rows[hits[h].visitor].seen = tick
\* A block that is not over is in the row.
BlockKept ==
  \A v \in Visitors : shedUntil[v] > tick => v \in Tabled /\ rows[v].until = shedUntil[v]
\* Of an address without a row, nothing was let through in the last window.
WindowKept ==
  \A v \in Visitors :
    IF v \in Tabled THEN Sound(LetThrough(v), rows[v].bucket, rows[v].seen, tick)
    ELSE LetThrough(v) = {}
GateInv == GateTyped /\ Capped /\ JustSeen /\ BlockKept /\ WindowKept

LEMMA InLetThrough ==
  ASSUME NEW v, NEW x, NEW n
  PROVE  <<x, n>> \in LetThrough(v) <=> x \in Ticks /\ n \in 1..passed[v][x]
BY DEF LetThrough

LEMMA PairsLetThrough ==
  ASSUME NEW v, NEW p \in LetThrough(v)
  PROVE  \E x \in Ticks : \E n \in 1..passed[v][x] : p = <<x, n>>
BY DEF LetThrough

LEMMA GateInitially == EdgeGateInit => GateInv
<1> SUFFICES ASSUME EdgeGateInit PROVE GateInv
  OBVIOUS
<1>1. NoHit \in Hit /\ NoHit.step = "idle"
  BY EdgeGateConstants DEF NoHit, Hit
<1>2. Tabled = {} /\ rows \in [Tabled -> Tracked]
  BY DEF EdgeGateInit, Tabled
<1>3. GateTyped
  BY <1>1, <1>2, EdgeGateConstants DEF EdgeGateInit, GateTyped, Ticks
<1>4. Capped
  BY <1>2, FS_EmptySet, EdgeGateConstants DEF Capped
<1>5. JustSeen /\ BlockKept
  BY <1>1 DEF EdgeGateInit, JustSeen, BlockKept
<1>6. WindowKept
  <2>1. \A v \in Visitors : LetThrough(v) = {}
    BY DEF EdgeGateInit, LetThrough
  <2> QED BY <1>2, <2>1 DEF WindowKept
<1> QED BY <1>3, <1>4, <1>5, <1>6 DEF GateInv

\* The sweep takes rows that were not seen for two windows and are not blocked.
LEMMA SweepSpares ==
  ASSUME GateInv, NEW v \in Tabled \ Kept
  PROVE  rows[v].until <= tick /\ rows[v].seen # tick /\ LetThrough(v) = {}
<1>1. /\ v \in Visitors /\ rows[v] \in Tracked /\ rows[v].seen \in Nat /\ tick \in Nat
      /\ Window \in Nat \ {0} /\ Cooldown \in Nat
  BY WindowPositive, EdgeGateConstants DEF GateInv, GateTyped, Tracked, Ticks
<1>2. Stale(rows[v])
  BY DEF Kept
<1>3. Max({2 * Window, Cooldown}) >= 2 * Window /\ Max({2 * Window, Cooldown}) \in Nat
  BY <1>1 DEF Max
<1>4. tick - rows[v].seen > 2 * Window /\ rows[v].until <= tick
  BY <1>1, <1>2, <1>3 DEF Stale
<1>5. Sound(LetThrough(v), rows[v].bucket, rows[v].seen, tick)
  BY <1>1 DEF GateInv, WindowKept
<1>6. LetThrough(v) = {}
  <2> SUFFICES ASSUME NEW p \in LetThrough(v) PROVE FALSE
    OBVIOUS
  <2>1. p[1] \in Int /\ p[1] <= rows[v].seen /\ tick - Window < p[1]
    BY <1>5 DEF Sound
  <2> QED BY <1>1, <1>4, <2>1
<1> QED BY <1>1, <1>4, <1>6

LEMMA KeptFits ==
  ASSUME GateInv
  PROVE  Kept \subseteq Tabled /\ IsFiniteSet(Kept) /\ Cardinality(Kept) <= MaxTracked
         /\ Cardinality(Kept) \in Nat
<1>1. Kept \in SUBSET Tabled
  BY DEF Kept
<1>2. IsFiniteSet(Kept) /\ Cardinality(Kept) <= Cardinality(Tabled)
  BY <1>1, FS_Subset DEF GateInv, Capped
<1>3. Cardinality(Kept) \in Nat /\ Cardinality(Tabled) \in Nat
  BY <1>2, FS_CardinalityType DEF GateInv, Capped
<1> QED BY <1>1, <1>2, <1>3, EdgeGateConstants DEF GateInv, Capped

LEMMA GateArrives ==
  ASSUME GateInv, NEW h \in GateThreads, NEW v \in Visitors, Arrives(h, v) PROVE GateInv'
<1>1. /\ rows' = rows /\ tick' = tick /\ passed' = passed /\ shedUntil' = shedUntil /\ nextSweep' = nextSweep
      /\ burst < Burst /\ burst' = burst + 1
      /\ hits' = [hits EXCEPT ![h] = [step |-> "arrived", visitor |-> v]]
  BY DEF Arrives
<1>2. GateTyped'
  BY <1>1, EdgeGateConstants DEF GateInv, GateTyped, Hit, Tabled
<1>3. \A g \in GateThreads : hits'[g].step = "over" => hits'[g] = hits[g]
  BY <1>1 DEF GateInv, GateTyped
<1>4. JustSeen'
  BY <1>1, <1>3 DEF GateInv, JustSeen, Tabled
<1>5. Capped' /\ BlockKept'
  BY <1>1 DEF GateInv, Capped, BlockKept, Tabled
<1>6. \A w \in Visitors : LetThrough(w)' = LetThrough(w)
  BY <1>1 DEF LetThrough
<1>7. WindowKept'
  BY <1>1, <1>6 DEF GateInv, WindowKept, Tabled
<1> QED BY <1>2, <1>4, <1>5, <1>7 DEF GateInv

\* The row that is counted in: the one that is there, or a new one.
RowOf(v) == IF v \in Kept THEN rows[v] ELSE [bucket |-> NewBucket(tick), until |-> 0, seen |-> tick]

LEMMA RowSound ==
  ASSUME GateInv, NEW v \in Visitors
  PROVE  LET r == RowOf(v)
             b == Roll(r.bucket, tick)
         IN  /\ r.until \in Nat /\ b \in Bucket /\ Counted(b) \in Bucket
             /\ Sound(LetThrough(v), b, tick, tick)
             /\ shedUntil[v] > tick => r.until = shedUntil[v]
<1> DEFINE r == RowOf(v)
           b == Roll(r.bucket, tick)
<1>1. tick \in Int /\ shedUntil[v] \in Nat
  BY DEF GateInv, GateTyped, Ticks
<1>2. CASE v \in Kept
  <2>1. v \in Tabled /\ r = rows[v]
    BY <1>2, KeptFits DEF RowOf
  <2>2. Sound(LetThrough(v), r.bucket, r.seen, tick)
    BY <2>1 DEF GateInv, WindowKept
  <2>3. r.until \in Nat /\ (shedUntil[v] > tick => r.until = shedUntil[v])
    BY <2>1 DEF GateInv, GateTyped, Tracked, BlockKept
  <2> HIDE DEF r
  <2>4. Sound(LetThrough(v), b, tick, tick)
    BY <2>2, SoundRolls
  <2>5. Sound(LetThrough(v), Counted(b), tick, tick)
    BY <2>4, SoundCounted
  <2>6. b \in Bucket /\ Counted(b) \in Bucket
    BY <2>4, <2>5 DEF Sound
  <2> QED BY <2>3, <2>4, <2>6 DEF r
<1>3. CASE v \notin Kept
  <2>1. r = [bucket |-> NewBucket(tick), until |-> 0, seen |-> tick]
    BY <1>3 DEF RowOf
  <2>2. LetThrough(v) = {} /\ ~(shedUntil[v] > tick)
    <3>1. CASE v \in Tabled
      BY <1>1, <1>3, <3>1, SweepSpares DEF GateInv, BlockKept
    <3>2. CASE v \notin Tabled
      BY <3>2 DEF GateInv, BlockKept, WindowKept
    <3> QED BY <3>1, <3>2
  <2>3. r.bucket = NewBucket(tick) /\ r.until = 0
    BY <2>1
  <2>4. Sound({}, NewBucket(tick), tick, tick)
    BY <1>1, SoundNew
  <2> HIDE DEF r
  <2>5. Sound(LetThrough(v), b, tick, tick)
    BY <2>2, <2>3, <2>4, SoundRolls
  <2>6. Sound(LetThrough(v), Counted(b), tick, tick)
    BY <2>5, SoundCounted
  <2>7. b \in Bucket /\ Counted(b) \in Bucket
    BY <2>5, <2>6 DEF Sound
  <2> QED BY <2>2, <2>3, <2>5, <2>7 DEF r
<1> QED BY <1>2, <1>3

\* A request that is let through is one more of its tick.
LEMMA OneMore ==
  ASSUME GateTyped, NEW v \in Visitors, passed' = [passed EXCEPT ![v][tick] = @ + 1]
  PROVE  /\ LetThrough(v)' = LetThrough(v) \cup {<<tick, passed[v][tick] + 1>>}
         /\ <<tick, passed[v][tick] + 1>> \notin LetThrough(v) /\ passed[v][tick] + 1 \in Int
         /\ \A w \in Visitors \ {v} : LetThrough(w)' = LetThrough(w)
         /\ passed' \in [Visitors -> [Ticks -> Nat]]
<1>1. /\ passed \in [Visitors -> [Ticks -> Nat]] /\ tick \in Ticks /\ passed[v][tick] \in Nat
      /\ passed[v] \in [Ticks -> Nat]
  BY DEF GateTyped
<1>2. /\ passed'[v] = [passed[v] EXCEPT ![tick] = passed[v][tick] + 1]
      /\ \A w \in Visitors \ {v} : passed'[w] = passed[w]
      /\ passed' \in [Visitors -> [Ticks -> Nat]]
  BY <1>1
<1>3. \A x \in Ticks : passed'[v][x] = IF x = tick THEN passed[v][tick] + 1 ELSE passed[v][x]
  BY <1>1, <1>2
<1> DEFINE q == <<tick, passed[v][tick] + 1>>
<1>4. q \notin LetThrough(v)
  BY <1>1, InLetThrough
<1>5. LetThrough(v)' \subseteq LetThrough(v) \cup {q}
  <2> SUFFICES ASSUME NEW x \in Ticks, NEW n \in 1..passed'[v][x]
               PROVE  <<x, n>> \in LetThrough(v) \/ <<x, n>> = q
    BY DEF LetThrough
  <2>1. passed[v][x] \in Nat
    BY <1>1
  <2>2. n \in 1..passed[v][x] \/ (x = tick /\ n = passed[v][tick] + 1)
    BY <1>1, <1>3, <2>1
  <2> QED BY <2>2, InLetThrough
<1>6. LetThrough(v) \cup {q} \subseteq LetThrough(v)'
  <2>1. ASSUME NEW x \in Ticks, NEW n \in 1..passed[v][x] PROVE n \in 1..passed'[v][x]
    BY <1>1, <1>3
  <2>2. passed[v][tick] + 1 \in 1..passed'[v][tick]
    BY <1>1, <1>3
  <2>3. \A p \in LetThrough(v) : \E x \in Ticks : \E n \in 1..passed'[v][x] : p = <<x, n>>
    BY <2>1, PairsLetThrough
  <2>4. \A x \in Ticks : \A n \in 1..passed'[v][x] : <<x, n>> \in LetThrough(v)'
    BY DEF LetThrough
  <2> QED BY <1>1, <2>2, <2>3, <2>4
<1>7. \A w \in Visitors \ {v} : LetThrough(w)' = LetThrough(w)
  BY <1>2 DEF LetThrough
<1> QED BY <1>1, <1>2, <1>4, <1>5, <1>6, <1>7

LEMMA GateCounts ==
  ASSUME GateInv, NEW h \in GateThreads, IsCounted(h) PROVE GateInv'
<1>0. PICK v \in Visitors : hits[h].visitor = v
  BY DEF GateInv, GateTyped, Hit
<1> DEFINE r == RowOf(v)
           b == Roll(r.bucket, tick)
           new == [bucket |-> Counted(b), until |-> r.until, seen |-> tick]
<1>1. /\ hits[h].step = "arrived" /\ (v \in Kept \/ ~Full(Kept))
      /\ rows' = [w \in Kept \cup {v} |-> IF w = v THEN new ELSE rows[w]]
      /\ tick' = tick /\ burst' = burst /\ shedUntil' = shedUntil /\ SweepIsOver
      /\ \/ HitDone(h) /\ passed' = passed
         \/ /\ ~(r.until > tick) /\ Exceeds(Estimate(b, tick))
            /\ hits' = [hits EXCEPT ![h].step = "over"] /\ passed' = passed
         \/ /\ ~(r.until > tick) /\ ~Exceeds(Estimate(b, tick))
            /\ HitDone(h) /\ passed' = [passed EXCEPT ![v][tick] = @ + 1]
  BY <1>0 DEF IsCounted, RowOf
<1>2. v \in Visitors /\ tick \in Nat
  BY DEF GateInv, GateTyped, Hit, Ticks
<1>3. /\ r.until \in Nat /\ b \in Bucket /\ Counted(b) \in Bucket /\ Sound(LetThrough(v), b, tick, tick)
      /\ shedUntil[v] > tick => r.until = shedUntil[v]
  BY <1>2, RowSound
<1>4. new \in Tracked /\ new.bucket = Counted(b) /\ new.until = r.until /\ new.seen = tick
  BY <1>2, <1>3 DEF Tracked
<1> HIDE DEF r, b, new
<1>5. /\ Tabled' = Kept \cup {v} /\ rows'[v] = new
      /\ \A w \in Kept \ {v} : rows'[w] = rows[w]
  BY <1>1 DEF Tabled
<1>6. Kept \subseteq Tabled
  BY KeptFits
<1>7. rows' \in [Tabled' -> Tracked] /\ Tabled' \subseteq Visitors
  <2>1. \A w \in Kept \cup {v} : (IF w = v THEN new ELSE rows[w]) \in Tracked
    BY <1>4, <1>6 DEF GateInv, GateTyped
  <2> QED BY <1>1, <1>2, <1>5, <1>6, <2>1 DEF GateInv, GateTyped
<1>8. passed' \in [Visitors -> [Ticks -> Nat]]
  BY <1>1, <1>2, OneMore DEF GateInv, GateTyped
<1>9. /\ hits' \in [GateThreads -> Hit] /\ \A g \in GateThreads \ {h} : hits'[g] = hits[g]
      /\ hits'[h].step = "over" => hits'[h].visitor = v
  <2>1. NoHit \in Hit /\ NoHit.step = "idle" /\ hits[h] \in Hit
    BY EdgeGateConstants DEF NoHit, Hit, GateInv, GateTyped
  <2>2. [hits[h] EXCEPT !.step = "over"] \in Hit /\ [hits[h] EXCEPT !.step = "over"].visitor = v
    BY <1>0, <2>1 DEF Hit
  <2>3. hits' = [hits EXCEPT ![h] = NoHit] \/ hits' = [hits EXCEPT ![h] = [hits[h] EXCEPT !.step = "over"]]
    BY <1>1 DEF HitDone
  <2> QED BY <2>1, <2>2, <2>3 DEF GateInv, GateTyped
<1>10. nextSweep' \in Nat
  BY <1>1, <1>2, EdgeGateConstants DEF SweepIsOver, GateInv, GateTyped
<1>11. GateTyped'
  BY <1>1, <1>7, <1>8, <1>9, <1>10 DEF GateInv, GateTyped
<1>12. Capped'
  <2>1. /\ IsFiniteSet(Kept) /\ Cardinality(Kept) <= MaxTracked /\ Cardinality(Kept) \in Nat
        /\ MaxTracked \in Nat
    BY KeptFits, EdgeGateConstants
  <2>2. v \in Kept \/ Cardinality(Kept) < MaxTracked
    BY <1>1, <2>1 DEF Full
  <2>3. /\ IsFiniteSet(Kept \cup {v})
        /\ Cardinality(Kept \cup {v}) = IF v \in Kept THEN Cardinality(Kept) ELSE Cardinality(Kept) + 1
    BY <2>1, FS_AddElement
  <2> QED BY <1>5, <2>1, <2>2, <2>3 DEF Capped
\* What was seen just now is not swept.
<1>13. JustSeen'
  <2> SUFFICES ASSUME NEW g \in GateThreads, hits'[g].step = "over"
               PROVE  hits'[g].visitor \in Tabled' /\ rows'[hits'[g].visitor].seen = tick'
    BY DEF JustSeen
  <2>1. CASE hits'[g].visitor = v
    BY <1>1, <1>4, <1>5, <2>1
  <2>2. CASE hits'[g].visitor # v
    <3>1. hits'[g] = hits[g] /\ hits[g].visitor \in Tabled /\ rows[hits[g].visitor].seen = tick
      BY <1>9, <2>2 DEF GateInv, JustSeen
    <3>2. hits[g].visitor \in Kept
      BY <3>1, SweepSpares
    <3> QED BY <1>1, <1>5, <2>2, <3>1, <3>2
  <2> QED BY <2>1, <2>2
<1>14. BlockKept'
  <2> SUFFICES ASSUME NEW w \in Visitors, shedUntil[w] > tick
               PROVE  w \in Tabled' /\ rows'[w].until = shedUntil[w]
    BY <1>1 DEF BlockKept
  <2>1. CASE w = v
    BY <1>3, <1>4, <1>5, <2>1
  <2>2. CASE w # v
    <3>1. w \in Tabled /\ rows[w].until = shedUntil[w]
      BY DEF GateInv, BlockKept
    <3>2. w \in Kept
      <4>1. w \in Tabled \ Kept => rows[w].until <= tick
        BY SweepSpares
      <4> QED BY <1>2, <3>1, <4>1 DEF GateInv, GateTyped
    <3> QED BY <1>5, <2>2, <3>1, <3>2
  <2> QED BY <2>1, <2>2
<1>15. Sound(LetThrough(v)', Counted(b), tick, tick)
  <2>1. CASE passed' = passed
    <3>1. LetThrough(v)' = LetThrough(v)
      BY <2>1 DEF LetThrough
    <3> QED BY <1>3, <3>1, SoundCounted
  <2>2. CASE ~Exceeds(Estimate(b, tick)) /\ passed' = [passed EXCEPT ![v][tick] = @ + 1]
    <3> DEFINE n == passed[v][tick] + 1
    <3>1. LetThrough(v)' = LetThrough(v) \cup {<<tick, n>>} /\ <<tick, n>> \notin LetThrough(v) /\ n \in Int
      BY <1>2, <2>2, OneMore DEF GateInv
    <3> HIDE DEF n
    <3>2. Sound(LetThrough(v) \cup {<<tick, n>>}, Counted(b), tick, tick)
      BY <1>3, <2>2, <3>1, SoundPasses
    <3> QED BY <3>1, <3>2
  <2> QED BY <1>1, <2>1, <2>2
<1>16. \A w \in Visitors \ {v} : LetThrough(w)' = LetThrough(w)
  <2>1. CASE passed' = passed
    BY <2>1 DEF LetThrough
  <2>2. CASE passed' = [passed EXCEPT ![v][tick] = @ + 1]
    BY <1>2, <2>2, OneMore DEF GateInv
  <2> QED BY <1>1, <2>1, <2>2
<1>17. WindowKept'
  <2> SUFFICES ASSUME NEW w \in Visitors
               PROVE  IF w \in Tabled' THEN Sound(LetThrough(w)', rows'[w].bucket, rows'[w].seen, tick)
                      ELSE LetThrough(w)' = {}
    BY <1>1 DEF WindowKept
  <2>1. CASE w = v
    BY <1>4, <1>5, <1>15, <2>1
  <2>2. CASE w # v
    <3>1. LetThrough(w)' = LetThrough(w) /\ (w \in Tabled' <=> w \in Kept)
      BY <1>5, <1>16, <2>2
    <3>2. CASE w \in Kept
      BY <1>5, <1>6, <2>2, <3>1, <3>2 DEF GateInv, WindowKept
    <3>3. CASE w \in Tabled \ Kept
      BY <3>1, <3>3, SweepSpares
    <3>4. CASE w \notin Tabled
      BY <1>6, <3>1, <3>4 DEF GateInv, WindowKept
    <3> QED BY <3>2, <3>3, <3>4
  <2> QED BY <2>1, <2>2
<1> QED BY <1>11, <1>12, <1>13, <1>14, <1>17 DEF GateInv

LEMMA GateDoesNotCount ==
  ASSUME GateInv, NEW h \in GateThreads, IsNotCounted(h) PROVE GateInv'
<1>1. /\ rows' = [w \in Kept |-> rows[w]] /\ hits' = [hits EXCEPT ![h] = NoHit] /\ SweepIsOver
      /\ tick' = tick /\ burst' = burst /\ passed' = passed /\ shedUntil' = shedUntil
  BY DEF IsNotCounted, HitDone
<1>2. Tabled' = Kept /\ Kept \subseteq Tabled /\ \A w \in Kept : rows'[w] = rows[w]
  BY <1>1, KeptFits DEF Tabled
<1>3. NoHit \in Hit /\ NoHit.step = "idle" /\ tick \in Nat
  BY EdgeGateConstants DEF NoHit, Hit, GateInv, GateTyped, Ticks
<1>4. nextSweep' \in Nat
  BY <1>1, <1>3, EdgeGateConstants DEF SweepIsOver, GateInv, GateTyped
<1>5. rows' \in [Tabled' -> Tracked]
  BY <1>1, <1>2 DEF GateInv, GateTyped
<1>6. GateTyped'
  BY <1>1, <1>2, <1>3, <1>4, <1>5 DEF GateInv, GateTyped
<1>7. Capped'
  BY <1>2, KeptFits DEF Capped
<1>8. \A g \in GateThreads : hits'[g].step = "over" => hits'[g] = hits[g]
  BY <1>1, <1>3 DEF GateInv, GateTyped
<1>9. JustSeen'
  <2> SUFFICES ASSUME NEW g \in GateThreads, hits'[g].step = "over"
               PROVE  hits'[g].visitor \in Tabled' /\ rows'[hits'[g].visitor].seen = tick'
    BY DEF JustSeen
  <2>1. hits'[g] = hits[g] /\ hits[g].visitor \in Tabled /\ rows[hits[g].visitor].seen = tick
    BY <1>8 DEF GateInv, JustSeen
  <2>2. hits[g].visitor \in Kept
    BY <2>1, SweepSpares
  <2> QED BY <1>1, <1>2, <2>1, <2>2
<1>10. BlockKept'
  <2> SUFFICES ASSUME NEW w \in Visitors, shedUntil[w] > tick
               PROVE  w \in Tabled' /\ rows'[w].until = shedUntil[w]
    BY <1>1 DEF BlockKept
  <2>1. w \in Tabled /\ rows[w].until = shedUntil[w]
    BY DEF GateInv, BlockKept
  <2>2. w \in Tabled \ Kept => rows[w].until <= tick
    BY SweepSpares
  <2> QED BY <1>2, <1>3, <2>1, <2>2 DEF GateInv, GateTyped
<1>11. WindowKept'
  <2> SUFFICES ASSUME NEW w \in Visitors
               PROVE  IF w \in Tabled' THEN Sound(LetThrough(w)', rows'[w].bucket, rows'[w].seen, tick)
                      ELSE LetThrough(w)' = {}
    BY <1>1 DEF WindowKept
  <2>1. LetThrough(w)' = LetThrough(w)
    BY <1>1 DEF LetThrough
  <2>2. CASE w \in Kept
    BY <1>2, <2>1, <2>2 DEF GateInv, WindowKept
  <2>3. CASE w \in Tabled \ Kept
    BY <1>2, <2>1, <2>3, SweepSpares
  <2>4. CASE w \notin Tabled
    BY <1>2, <2>1, <2>4 DEF GateInv, WindowKept
  <2> QED BY <2>2, <2>3, <2>4
<1> QED BY <1>6, <1>7, <1>9, <1>10, <1>11 DEF GateInv

LEMMA GateBlocks ==
  ASSUME GateInv, NEW h \in GateThreads, IsBlocked(h) PROVE GateInv'
<1> DEFINE v == hits[h].visitor
           r == [rows[v] EXCEPT !.until = tick + Cooldown]
<1>1. v \in Tabled /\ rows[v].seen = tick /\ v \in Visitors
  BY DEF IsBlocked, GateInv, JustSeen, GateTyped, Hit
<1>2. /\ rows' = [rows EXCEPT ![v] = r] /\ shedUntil' = [shedUntil EXCEPT ![v] = tick + Cooldown]
      /\ hits' = [hits EXCEPT ![h] = NoHit] /\ tick' = tick /\ nextSweep' = nextSweep
      /\ burst' = burst /\ passed' = passed
  BY <1>1 DEF IsBlocked, HitDone
<1>3. NoHit \in Hit /\ NoHit.step = "idle" /\ tick \in Nat /\ tick + Cooldown \in Nat
  BY EdgeGateConstants DEF NoHit, Hit, GateInv, GateTyped, Ticks
<1>4. rows[v] \in Tracked /\ rows \in [Tabled -> Tracked]
  BY <1>1 DEF GateInv, GateTyped
<1>5. /\ r \in Tracked /\ r.bucket = rows[v].bucket /\ r.seen = rows[v].seen
      /\ r.until = tick + Cooldown
  BY <1>3, <1>4 DEF Tracked
<1> HIDE DEF v, r
<1>6. Tabled' = Tabled /\ rows' \in [Tabled -> Tracked] /\ rows'[v] = r
      /\ \A w \in Tabled \ {v} : rows'[w] = rows[w]
  BY <1>1, <1>2, <1>4, <1>5 DEF Tabled
<1>7. shedUntil' \in [Visitors -> Nat] /\ shedUntil'[v] = tick + Cooldown
      /\ \A w \in Visitors \ {v} : shedUntil'[w] = shedUntil[w]
  BY <1>1, <1>2, <1>3 DEF GateInv, GateTyped
<1>8. GateTyped'
  BY <1>2, <1>3, <1>6, <1>7 DEF GateInv, GateTyped
<1>9. Capped'
  BY <1>6 DEF GateInv, Capped
<1>10. \A g \in GateThreads : hits'[g].step = "over" => hits'[g] = hits[g]
  BY <1>2, <1>3 DEF GateInv, GateTyped
<1>11. JustSeen'
  <2>1. \A w \in Tabled : rows'[w].seen = rows[w].seen
    BY <1>5, <1>6
  <2> QED BY <1>2, <1>6, <1>10, <2>1 DEF GateInv, JustSeen
<1>12. BlockKept'
  BY <1>1, <1>2, <1>5, <1>6, <1>7 DEF GateInv, BlockKept
<1>13. WindowKept'
  <2>1. \A w \in Visitors : LetThrough(w)' = LetThrough(w)
    BY <1>2 DEF LetThrough
  <2>2. \A w \in Tabled : rows'[w].bucket = rows[w].bucket /\ rows'[w].seen = rows[w].seen
    BY <1>5, <1>6
  <2> QED BY <1>2, <1>6, <2>1, <2>2 DEF GateInv, WindowKept
<1> QED BY <1>8, <1>9, <1>11, <1>12, <1>13 DEF GateInv

LEMMA GateTicks == ASSUME GateInv, TickPasses PROVE GateInv'
<1>1. /\ tick < LastTick /\ \A h \in GateThreads : hits[h].step = "idle"
      /\ tick' = tick + 1 /\ burst' = 0 /\ rows' = rows /\ nextSweep' = nextSweep /\ hits' = hits
      /\ shedUntil' = shedUntil
      /\ passed' = [v \in Visitors |-> [x \in Ticks |-> IF x <= tick + 1 - Window THEN 0 ELSE passed[v][x]]]
  BY DEF TickPasses
<1>2. tick \in Int /\ tick' \in Ticks /\ tick <= tick' /\ tick' \in Int
  BY <1>1, EdgeGateConstants DEF GateInv, GateTyped, Ticks
<1>3. passed' \in [Visitors -> [Ticks -> Nat]]
  BY <1>1 DEF GateInv, GateTyped
<1>4. GateTyped'
  BY <1>1, <1>2, <1>3, EdgeGateConstants DEF GateInv, GateTyped, Tabled
<1>5. Capped' /\ JustSeen'
  BY <1>1 DEF GateInv, Capped, JustSeen, Tabled
<1>6. BlockKept'
  BY <1>1, <1>2 DEF GateInv, GateTyped, BlockKept, Tabled
<1>7. ASSUME NEW v \in Visitors
      PROVE  /\ LetThrough(v)' \in SUBSET LetThrough(v)
             /\ \A p \in LetThrough(v)' : tick' - Window < p[1]
  <2>1. \A x \in Ticks : passed'[v][x] = IF x <= tick + 1 - Window THEN 0 ELSE passed[v][x]
    BY <1>1
  <2> SUFFICES ASSUME NEW x \in Ticks, NEW n \in 1..passed'[v][x]
               PROVE  <<x, n>> \in LetThrough(v) /\ tick' - Window < x
    BY DEF LetThrough
  <2>2. ~(x <= tick + 1 - Window) /\ passed'[v][x] = passed[v][x]
    BY <2>1
  <2>3. <<x, n>> \in LetThrough(v)
    BY <2>2, InLetThrough
  <2>4. x \in Int
    BY DEF Ticks
  <2> QED BY <1>1, <1>2, <2>2, <2>3, <2>4, WindowPositive
<1>8. WindowKept'
  <2> SUFFICES ASSUME NEW v \in Visitors
               PROVE  IF v \in Tabled THEN Sound(LetThrough(v)', rows[v].bucket, rows[v].seen, tick')
                      ELSE LetThrough(v)' = {}
    BY <1>1 DEF WindowKept, Tabled
  <2>1. CASE v \in Tabled
    <3>1. Sound(LetThrough(v), rows[v].bucket, rows[v].seen, tick)
      BY <2>1 DEF GateInv, WindowKept
    <3> QED BY <1>2, <1>7, <2>1, <3>1, SoundFewer
  <2>2. CASE v \notin Tabled
    BY <1>7, <2>2 DEF GateInv, WindowKept
  <2> QED BY <2>1, <2>2
<1> QED BY <1>4, <1>5, <1>6, <1>8 DEF GateInv

LEMMA GateInvariant == GateInv /\ [EdgeGateNext]_gateVars => GateInv'
<1>1. ASSUME GateInv, UNCHANGED gateVars PROVE GateInv'
  <2>1. \A v \in Visitors : LetThrough(v)' = LetThrough(v)
    BY <1>1 DEF gateVars, LetThrough
  <2>2. WindowKept'
    BY <1>1, <2>1 DEF gateVars, GateInv, WindowKept, Tabled
  <2>3. GateTyped' /\ Capped' /\ JustSeen' /\ BlockKept'
    BY <1>1 DEF gateVars, GateInv, GateTyped, Capped, JustSeen, BlockKept, Tabled
  <2> QED BY <2>2, <2>3 DEF GateInv
<1> QED BY <1>1, GateArrives, GateCounts, GateDoesNotCount, GateBlocks, GateTicks DEF EdgeGateNext

\* The gate for any number of addresses, threads and ticks: its table never
\* outgrows its cap.
THEOREM TableCapped == EdgeGateSpec => []EdgeGateTypeOK
<1>1. GateInv => EdgeGateTypeOK
  BY DEF GateInv, GateTyped, Capped, EdgeGateTypeOK
<1> QED BY GateInitially, GateInvariant, <1>1, PTL DEF EdgeGateSpec

\* PassedBound for any number of addresses and threads, any rates, windows and
\* cooldowns, and any load: an address that is tracked gets fewer than two
\* ceilings' worth of requests through in the time of a window.
THEOREM ExcessBounded == EdgeGateSpec => []PassedBound
<1>1. GateInv => PassedBound
  <2> SUFFICES ASSUME GateInv, NEW v \in Visitors
               PROVE  Cardinality(LetThrough(v)) * Window
                        < IpMax * Window + (IpMax - 1) * Max({0, Window - 2})
    BY DEF PassedBound
  <2>1. CASE v \in Tabled
    BY <2>1, SoundBound DEF GateInv, WindowKept
  <2>2. CASE v \notin Tabled
    <3>1. Sound({}, NewBucket(tick), tick, tick)
      BY SoundNew DEF GateInv, GateTyped, Ticks
    <3>2. LetThrough(v) = {}
      BY <2>2 DEF GateInv, WindowKept
    <3> QED BY <3>1, <3>2, SoundBound
  <2> QED BY <2>1, <2>2
<1> QED BY GateInitially, GateInvariant, <1>1, PTL DEF EdgeGateSpec

\* BlockHolds for any number of addresses and threads: no sweep and no other
\* thread ends a block before its time.
THEOREM BlocksLast == EdgeGateSpec => BlockHolds
<1> DEFINE Blocks == \A v \in Visitors : passed'[v][tick] > passed[v][tick] => shedUntil[v] <= tick
<1>1. GateInv /\ [EdgeGateNext]_gateVars => [Blocks]_gateVars
  <2> SUFFICES ASSUME GateInv, EdgeGateNext, NEW v \in Visitors, passed'[v][tick] > passed[v][tick]
               PROVE  shedUntil[v] <= tick
    OBVIOUS
  <2>1. passed[v][tick] \in Nat /\ shedUntil[v] \in Nat /\ tick \in Nat /\ tick \in Ticks
    <3>1. /\ passed \in [Visitors -> [Ticks -> Nat]] /\ tick \in Ticks
          /\ shedUntil \in [Visitors -> Nat]
      BY DEF GateInv, GateTyped
    <3>2. passed[v] \in [Ticks -> Nat] /\ tick \in Nat
      BY <3>1 DEF Ticks
    <3> QED BY <3>1, <3>2
  <2>2. passed' # passed
    BY <2>1
  <2>3. ~TickPasses
    <3> SUFFICES ASSUME TickPasses PROVE FALSE
      OBVIOUS
    <3>1. passed'[v][tick] = IF tick <= tick + 1 - Window THEN 0 ELSE passed[v][tick]
      BY <2>1 DEF TickPasses
    <3> QED BY <2>1, <3>1
  <2>4. PICK h \in GateThreads : IsCounted(h)
    BY <2>2, <2>3 DEF EdgeGateNext, Arrives, IsNotCounted, IsBlocked
  <2>5. /\ ~(RowOf(hits[h].visitor).until > tick)
        /\ passed' = [passed EXCEPT ![hits[h].visitor][tick] = @ + 1]
    BY <2>2, <2>4 DEF IsCounted, RowOf
  <2>6. hits[h].visitor \in Visitors
    BY DEF GateInv, GateTyped, Hit
  <2>7. hits[h].visitor = v
    <3>1. hits[h].visitor # v => passed'[v] = passed[v]
      BY <2>5, <2>6 DEF GateInv, GateTyped
    <3> QED BY <2>1, <3>1
  <2>8. shedUntil[v] > tick => RowOf(v).until = shedUntil[v]
    BY RowSound
  <2> QED BY <2>1, <2>5, <2>7, <2>8
<1> HIDE DEF Blocks
<1>2. EdgeGateSpec => [][Blocks]_gateVars
  BY GateInitially, GateInvariant, <1>1, PTL DEF EdgeGateSpec
<1> QED BY <1>2 DEF Blocks, BlockHolds
=============================================================================
